----------------------- MODULE KeyRotationSyncProofs -----------------------
(***************************************************************************)
(* What pull and push of key rotation guarantee for any number of          *)
(* workspaces, directories, checkouts, crons and payloads.                 *)
(***************************************************************************)
EXTENDS KeyRotationSync, KeyRotationTheorems, TLAPS

\* A push sends nothing but rotations of the file.
LEMMA ChangedType ==
    ASSUME NEW local \in Config, NEW remote \in Config \cup {NoConfig}
    PROVE  /\ Changed(local, remote) \in Config
           /\ Uses(Changed(local, remote)) \subseteq Uses(local)
           /\ \A u \in Uses(Changed(local, remote)) : Changed(local, remote)[u] = local[u]
<1>1. OrEmpty(remote) \in Config
  BY EmptyConfigType DEF OrEmpty
<1>2. Changed(local, remote) \in Config
  BY <1>1 DEF Changed, ChangedRotation, Config
<1>3. Changed(local, remote) # NoConfig /\ local # NoConfig
  BY <1>2, NilAssumption
<1>4. \A u \in UseSet : Changed(local, remote)[u] \in {NoRotation, local[u]}
  BY DEF Changed, ChangedRotation
<1> QED BY <1>2, <1>3, <1>4 DEF Uses

-----------------------------------------------------------------------------
\* The settings of every valid scope are well typed.
LEMMA ReadAllType ==
    ASSUME NEW files \in Tree, NEW S \in SUBSET Wids, AllValid(files, S)
    PROVE  ReadAll(files, S) \in [Wids -> Config \cup {NoConfig}]
BY ReadType DEF ReadAll, AllValid

\* The rotation a PUT carries is of the file and valid, so it is a payload.
LEMMA SentType ==
    ASSUME NEW cfg \in Config, Validate(cfg), NEW u \in Uses(cfg)
    PROVE  /\ u \in UseSet /\ cfg[u] \in Rotation /\ cfg[u] # NoRotation
           /\ ToModel(cfg[u]) \in Payload
           /\ InSync(cfg[u], ToModel(cfg[u]))
<1>1. u \in UseSet /\ cfg[u] # NoRotation
  BY NilAssumption DEF Uses
<1>2. cfg[u] \in Rotation
  BY <1>1 DEF Config
<1>3. cfg[u].cron \in GoodCrons
  BY DEF Validate
<1> QED BY <1>1, <1>2, <1>3 DEF ToModel, Payload, Rotation, InSync

\* Advance keeps the types.
LEMMA AdvanceType ==
    ASSUME TypeOK, NEW c \in Checkouts, NEW w \in Wids, Advance(c, w)
    PROVE  /\ pc' \in [Checkouts -> Running \cup Ended]
           /\ queue' \in [Checkouts -> SUBSET Wids]
           /\ left' \in [Checkouts -> SUBSET UseSet]
           /\ got' \in [Checkouts -> Config]
BY EmptyConfigType DEF TypeOK, Advance, Running, Ended

\* What a command does after a read leaves the state well typed.
LEMMA AfterReadType ==
    ASSUME TypeOK, NEW c \in Checkouts, NEW w \in Wids, NEW cfg \in Config, AfterRead(c, w, cfg)
    PROVE  /\ pc' \in [Checkouts -> Running \cup Ended]
           /\ queue' \in [Checkouts -> SUBSET Wids]
           /\ left' \in [Checkouts -> SUBSET UseSet]
           /\ got' \in [Checkouts -> Config]
<1> DEFINE plan == Uses(Changed(items[c][w], cfg))
<1>1. CASE Advance(c, w)
  BY <1>1, AdvanceType
<1>2. CASE /\ pc' = [pc EXCEPT ![c] = "put"]
           /\ left' = [left EXCEPT ![c] = plan]
           /\ got' = [got EXCEPT ![c] = cfg]
           /\ UNCHANGED queue
  <2>1. plan \subseteq UseSet
    BY DEF Uses
  <2> HIDE DEF plan
  <2> QED BY <1>2, <2>1 DEF TypeOK, Running
<1>3. CASE /\ pc' = [pc EXCEPT ![c] = "write"]
           /\ left' = [left EXCEPT ![c] = {}]
           /\ got' = [got EXCEPT ![c] = cfg]
           /\ UNCHANGED queue
  BY <1>3 DEF TypeOK, Running
<1> QED BY <1>1, <1>2, <1>3 DEF AfterRead

-----------------------------------------------------------------------------
(***************************************************************************)
(* The inductive invariant.  TypeOK alone is not inductive: that a PUT     *)
(* leaves a payload of the server well typed needs the file it was read    *)
(* from to be valid, which ItemsAreValidated remembers.                    *)
(***************************************************************************)
IInv == TypeOK /\ PushInv

\* The state of the process in c is unchanged.
SameRun(c) ==
    /\ cmd'[c] = cmd[c] /\ pc'[c] = pc[c] /\ scope'[c] = scope[c] /\ items'[c] = items[c]
    /\ queue'[c] = queue[c] /\ left'[c] = left[c] /\ got'[c] = got[c] /\ base'[c] = base[c]

\* What the server changed since is recorded in touched.
Recorded(c) ==
    /\ touched[c] \subseteq touched'[c]
    /\ \A w \in Wids, u \in UseSet :
           server'[w][u] = server[w][u] \/ <<w, u>> \in touched'[c]

\* A step of others does not disturb the invariant of a process, as its touched records it.
LEMMA Frame ==
    ASSUME TypeOK, NEW c \in Checkouts, RunInv(c), SameRun(c), Recorded(c)
    PROVE  RunInv(c)'
<1>1. ItemsAreValidated(c)'
  BY DEF RunInv, ItemsAreValidated, SameRun
<1>2. GotIsCurrent(c)'
  BY DEF RunInv, GotIsCurrent, ReadNotSent, SameRun, Recorded, TypeOK
<1>3. SentOrSkipped(c)'
  <2> SUFFICES ASSUME pc[c] = "put", NEW w \in queue[c], Least(w, queue[c])
               PROVE  /\ cmd[c] = "push"
                      /\ left[c] \subseteq Uses(Changed(items[c][w], got[c]))
                      /\ \A u \in Uses(items[c][w]) \ left[c] :
                             <<w, u>> \in touched'[c] \/ InSync(items[c][w][u], server'[w][u])
    BY DEF SameRun, SentOrSkipped, RunInv
  <2>1. Uses(items[c][w]) \subseteq UseSet /\ w \in Wids
    BY DEF Uses, TypeOK
  <2> QED BY <2>1 DEF RunInv, SentOrSkipped, Recorded
<1>4. PastIsDelivered(c)'
  <2>1. \A w : FileUses(base[c], w) \subseteq UseSet
    BY DEF FileUses, Uses
  <2>2. \A w \in scope[c] : w \in Wids
    BY DEF TypeOK
  <2> QED BY <2>1, <2>2 DEF RunInv, PastIsDelivered, Delivered, SameRun, Recorded
<1> QED BY <1>1, <1>2, <1>3, <1>4 DEF RunInv

\* The initial states of the pull and push satisfy the inductive invariant.
THEOREM InitInv == Init => IInv
<1> SUFFICES ASSUME Init PROVE IInv
  OBVIOUS
<1>1. NeverConfigured \in Payload
  BY DEF NeverConfigured, Payload
<1>2. TypeOK
  BY <1>1, EmptyConfigType, BoundsAssumption DEF Init, TypeOK, Tree, Ended, EachUse
<1>3. PushInv
  BY DEF Init, PushInv, RunInv, ItemsAreValidated, GotIsCurrent, ReadNotSent, SentOrSkipped, PastIsDelivered, Running
<1> QED BY <1>2, <1>3 DEF IInv

\* The invariant of every process is kept when that of the moving one is and the others, which do not
\* move, record what it changes.
LEMMA OthersInv ==
    ASSUME TypeOK, PushInv, NEW c \in Checkouts, RunInv(c)',
           \A d \in Checkouts \ {c} : SameRun(d) /\ Recorded(d)
    PROVE  PushInv'
BY Frame DEF PushInv

\* A command that starts leaves the state well typed.
LEMMA BeginType ==
    ASSUME TypeOK, NEW c \in Checkouts, NEW command \in {"push", "pull"}, NEW S \in SUBSET Wids,
           Begin(c, command, S),
           NEW newItems \in [Wids -> Config \cup {NoConfig}],
           items' = [items EXCEPT ![c] = newItems],
           NEW newQueue \in SUBSET Wids, queue' = [queue EXCEPT ![c] = newQueue],
           NEW newPc \in Running \cup Ended, pc' = [pc EXCEPT ![c] = newPc]
    PROVE  TypeOK'
<1>1. cmd' \in [Checkouts -> {"none", "push", "pull"}]
  BY DEF TypeOK, Begin
<1>2. got' \in [Checkouts -> Config]
  BY EmptyConfigType DEF TypeOK, Begin
<1> QED BY <1>1, <1>2 DEF TypeOK, Begin, serverVars, countVars

\* A push that starts (readKeyRotations) establishes the invariant of its process.
LEMMA StartPushInv ==
    ASSUME IInv, NEW c \in Checkouts, NEW S \in SUBSET Wids, StartPush(c, S)
    PROVE  IInv'
<1> DEFINE read == ReadAll(tree[c], S)
           todo == {w \in S : read[w] # NoConfig}
<1>1. TypeOK /\ PushInv /\ tree[c] \in Tree
  BY DEF IInv, TypeOK
<1>2. AllValid(tree[c], S) /\ read \in [Wids -> Config \cup {NoConfig}]
  BY <1>1, ReadAllType DEF StartPush
<1>3. TypeOK'
  <2> HIDE DEF read
  <2>1. todo \in SUBSET Wids
    OBVIOUS
  <2> HIDE DEF todo
  <2>2. /\ Begin(c, "push", S)
        /\ items' = [items EXCEPT ![c] = read]
        /\ queue' = [queue EXCEPT ![c] = todo]
        /\ pc' = [pc EXCEPT ![c] = IF todo = {} THEN "done" ELSE "get"]
    BY DEF StartPush, read, todo
  <2>3. (IF todo = {} THEN "done" ELSE "get") \in Running \cup Ended
    BY DEF Running, Ended
  <2> QED BY <1>1, <1>2, <2>1, <2>2, <2>3, BeginType
<1>4. /\ cmd'[c] = "push" /\ scope'[c] = S /\ base'[c] = tree[c] /\ left'[c] = UseSet
      /\ items'[c] = read /\ queue'[c] = todo /\ pc'[c] \in {"done", "get"}
  BY <1>1 DEF StartPush, Begin, TypeOK
<1>5. RunInv(c)'
  <2>1. ItemsAreValidated(c)'
    BY <1>2, <1>4 DEF ItemsAreValidated
  <2>2. GotIsCurrent(c)' /\ SentOrSkipped(c)'
    BY <1>4 DEF GotIsCurrent, ReadNotSent, SentOrSkipped
  <2>3. PastIsDelivered(c)'
    <3> SUFFICES ASSUME NEW w \in S \ todo PROVE Delivered(c, w)'
      BY <1>4 DEF PastIsDelivered
    <3>1. Read(tree[c], w) = NoConfig
      BY DEF ReadAll
    <3> QED BY <3>1, <1>4, NilAssumption DEF Delivered, FileUses, Uses
  <2> QED BY <2>1, <2>2, <2>3 DEF RunInv
<1>6. \A d \in Checkouts \ {c} : SameRun(d) /\ Recorded(d)
  BY <1>1 DEF StartPush, Begin, SameRun, Recorded, TypeOK, serverVars
<1> QED BY <1>1, <1>3, <1>5, <1>6, OthersInv DEF IInv

\* A push that refuses an invalid file keeps the invariant.
LEMMA RefusePushInv ==
    ASSUME IInv, NEW c \in Checkouts, NEW S \in SUBSET Wids, RefusePush(c, S)
    PROVE  IInv'
<1>1. TypeOK /\ PushInv
  BY DEF IInv
<1>2. TypeOK'
  <2>1. "failed" \in Running \cup Ended
    BY DEF Running, Ended
  <2>2. [w \in Wids |-> NoConfig] \in [Wids -> Config \cup {NoConfig}]
    OBVIOUS
  <2> QED BY <1>1, <2>1, <2>2, BeginType DEF RefusePush
<1>3. RunInv(c)'
  <2>1. scope'[c] = S /\ queue'[c] = S /\ pc'[c] = "failed"
    BY <1>1 DEF RefusePush, Begin, TypeOK
  <2> QED BY <2>1 DEF RunInv, ItemsAreValidated, GotIsCurrent, ReadNotSent, SentOrSkipped, PastIsDelivered, Running
<1>4. \A d \in Checkouts \ {c} : SameRun(d) /\ Recorded(d)
  BY <1>1 DEF RefusePush, Begin, SameRun, Recorded, TypeOK, serverVars
<1> QED BY <1>1, <1>2, <1>3, <1>4, OthersInv DEF IInv

\* A pull that starts keeps the invariant.
LEMMA StartPullInv ==
    ASSUME IInv, NEW c \in Checkouts, NEW S \in SUBSET Wids, StartPull(c, S)
    PROVE  IInv'
<1>1. TypeOK /\ PushInv
  BY DEF IInv
<1>2. TypeOK'
  <2>1. (IF S = {} THEN "done" ELSE "get") \in Running \cup Ended
    BY DEF Running, Ended
  <2>2. [w \in Wids |-> NoConfig] \in [Wids -> Config \cup {NoConfig}]
    OBVIOUS
  <2> QED BY <1>1, <2>1, <2>2, BeginType DEF StartPull
<1>3. RunInv(c)'
  <2>1. cmd'[c] = "pull" /\ left'[c] = UseSet /\ pc'[c] \in {"done", "get"}
    BY <1>1 DEF StartPull, Begin, TypeOK
  <2> QED BY <2>1 DEF RunInv, ItemsAreValidated, GotIsCurrent, ReadNotSent, SentOrSkipped, PastIsDelivered
<1>4. \A d \in Checkouts \ {c} : SameRun(d) /\ Recorded(d)
  BY <1>1 DEF StartPull, Begin, SameRun, Recorded, TypeOK, serverVars
<1> QED BY <1>1, <1>2, <1>3, <1>4, OthersInv DEF IInv

-----------------------------------------------------------------------------
\* What a running push knows about its current workspace.
LEMMA CurrentItem ==
    ASSUME TypeOK, NEW c \in Checkouts, ItemsAreValidated(c), pc[c] \in Running, cmd[c] = "push",
           NEW w \in queue[c]
    PROVE  /\ w \in scope[c] /\ w \in Wids
           /\ items[c][w] \in Config
           /\ items[c][w] = Read(base[c], w)
           /\ FileUses(base[c], w) = Uses(items[c][w])
           /\ Validate(items[c][w])
<1>1. w \in scope[c] /\ w \in Wids /\ items[c][w] # NoConfig /\ base[c] \in Tree
  BY DEF ItemsAreValidated, TypeOK
<1>2. items[c][w] \in Config
  BY <1>1 DEF TypeOK
<1>3. items[c][w] = Read(base[c], w)
  BY <1>1 DEF ItemsAreValidated, ReadAll
<1>4. Read(base[c], w) # ReadError /\ Validate(Read(base[c], w))
  BY <1>1 DEF ItemsAreValidated, AllValid
<1> QED BY <1>1, <1>2, <1>3, <1>4 DEF FileUses

\* A push that is done with a delivered workspace, or a pull, goes on with its invariant.
LEMMA AdvanceInv ==
    ASSUME TypeOK, NEW c \in Checkouts, RunInv(c), pc[c] \in Running,
           NEW w \in queue[c], Advance(c, w),
           UNCHANGED <<cmd, scope, items, base>>,
           cmd[c] = "push" => Delivered(c, w)' /\ \A v \in scope[c] \ queue[c] : Delivered(c, v)'
    PROVE  RunInv(c)'
<1>1. /\ queue'[c] = queue[c] \ {w} /\ left'[c] = UseSet
      /\ pc'[c] \in {"done", "get"}
  BY DEF TypeOK, Advance
<1>2. ItemsAreValidated(c)'
  BY <1>1 DEF RunInv, ItemsAreValidated
<1>3. GotIsCurrent(c)' /\ SentOrSkipped(c)'
  BY <1>1 DEF GotIsCurrent, ReadNotSent, SentOrSkipped
<1>4. PastIsDelivered(c)'
  BY <1>1 DEF PastIsDelivered
<1> QED BY <1>2, <1>3, <1>4 DEF RunInv

\* A use that changedRotation skips is in sync with what was read of the server.
LEMMA SkippedInSync ==
    ASSUME NEW local \in Config, NEW payloads \in [UseSet -> Payload],
           NEW cfg \in Config, NEW u \in Uses(local),
           cfg[u] = FromModel(payloads[u]), u \notin Uses(Changed(local, cfg))
    PROVE  InSync(local[u], payloads[u])
<1>1. u \in UseSet /\ local[u] # NoRotation
  BY NilAssumption DEF Uses
<1>2. local[u] \in Rotation
  BY <1>1 DEF Config
<1>3. Changed(local, cfg)[u] = NoRotation
  BY <1>1, ChangedType, NilAssumption DEF Uses
<1>4. OrEmpty(cfg) = cfg
  BY NilAssumption DEF OrEmpty
<1>5. ChangedRotation(local[u], cfg[u]) = NoRotation
  BY <1>1, <1>3, <1>4 DEF Changed
<1>6. /\ local[u].starting_from = NoTime /\ cfg[u] # NoRotation
      /\ local[u].enabled = cfg[u].enabled /\ local[u].cron = cfg[u].cron
  BY <1>1, <1>5 DEF ChangedRotation
<1> QED BY <1>1, <1>6, FromModelType DEF InSync

\* The uses the plan of a push leaves out are in sync or were changed by somebody else.
LEMMA PlanSkips ==
    ASSUME TypeOK, NEW c \in Checkouts, RunInv(c), pc[c] \in Running, cmd[c] = "push",
           NEW w \in queue[c], NEW cfg \in Config,
           \A u \in UseSet : <<w, u>> \in touched[c] \/ cfg[u] = FromModel(server[w][u])
    PROVE  \A u \in Uses(items[c][w]) \ Uses(Changed(items[c][w], cfg)) :
               <<w, u>> \in touched[c] \/ InSync(items[c][w][u], server[w][u])
<1>1. items[c][w] \in Config /\ w \in Wids /\ server[w] \in [UseSet -> Payload]
  BY CurrentItem DEF RunInv, TypeOK
<1> TAKE u \in Uses(items[c][w]) \ Uses(Changed(items[c][w], cfg))
<1>2. u \in UseSet
  BY DEF Uses
<1>3. CASE cfg[u] = FromModel(server[w][u])
  BY <1>1, <1>3, SkippedInSync
<1> QED BY <1>2, <1>3

\* After both GETs the plan of what to write keeps the invariant.
LEMMA AfterReadInv ==
    ASSUME TypeOK, NEW c \in Checkouts, RunInv(c), pc[c] = "get",
           NEW w \in queue[c], Least(w, queue[c]),
           NEW cfg \in Config, AfterRead(c, w, cfg),
           \A u \in UseSet : <<w, u>> \in touched[c] \/ cfg[u] = FromModel(server[w][u]),
           UNCHANGED <<serverVars, tree, cmd, scope, items, ghostVars, countVars>>
    PROVE  RunInv(c)'
<1> DEFINE plan == Uses(Changed(items[c][w], cfg))
<1>a. /\ pc[c] \in Running /\ w \in Wids /\ server[w] \in [UseSet -> Payload]
      /\ server' = server /\ touched' = touched /\ base' = base
      /\ UNCHANGED <<cmd, scope, items, base>>
  BY DEF Running, TypeOK, serverVars, ghostVars
<1>b. cmd[c] = "push" =>
          \A u \in Uses(items[c][w]) \ plan :
              <<w, u>> \in touched[c] \/ InSync(items[c][w][u], server[w][u])
  BY <1>a, PlanSkips
<1>1. CASE cmd[c] = "push" /\ plan = {}
  <2>1. Advance(c, w)
    BY <1>1 DEF AfterRead
  <2>2. Delivered(c, w)'
    BY <1>1, <1>a, <1>b, CurrentItem DEF Delivered, RunInv
  <2>3. \A v \in scope[c] \ queue[c] : Delivered(c, v)'
    BY <1>1, <1>a DEF Delivered, RunInv, PastIsDelivered
  <2> QED BY <2>1, <2>2, <2>3, <1>a, AdvanceInv
<1>2. CASE cmd[c] = "push" /\ plan # {}
  <2>1. /\ pc'[c] = "put" /\ left'[c] = plan /\ got'[c] = cfg /\ queue'[c] = queue[c]
    BY <1>2 DEF AfterRead, TypeOK
  <2>2. ItemsAreValidated(c)'
    BY <2>1, <1>a DEF RunInv, ItemsAreValidated
  <2>3. SentOrSkipped(c)'
    <3> SUFFICES ASSUME NEW v \in queue[c], Least(v, queue[c])
                 PROVE  /\ plan \subseteq Uses(Changed(items[c][v], cfg))
                        /\ \A u \in Uses(items[c][v]) \ plan :
                             <<v, u>> \in touched[c] \/ InSync(items[c][v][u], server[v][u])
      BY <1>2, <2>1, <1>a DEF SentOrSkipped
    <3>1. v = w
      BY WidsAssumption DEF Least, TypeOK
    <3> QED BY <3>1, <1>2, <1>b
  <2>4. GotIsCurrent(c)'
    <3> SUFFICES ASSUME NEW v \in queue[c], Least(v, queue[c]), NEW u \in plan
                 PROVE  <<v, u>> \in touched[c] \/ cfg[u] = FromModel(server[v][u])
      BY <2>1, <1>a DEF GotIsCurrent, ReadNotSent
    <3>1. v = w /\ u \in UseSet
      BY WidsAssumption DEF Least, TypeOK, Uses
    <3> QED BY <3>1
  <2>5. PastIsDelivered(c)'
    BY <2>1, <1>a DEF RunInv, PastIsDelivered, Delivered
  <2> QED BY <2>2, <2>3, <2>4, <2>5 DEF RunInv
<1>3. CASE cmd[c] # "push" /\ Uses(cfg) = {}
  BY <1>3, <1>a, AdvanceInv DEF AfterRead
<1>4. CASE cmd[c] # "push" /\ Uses(cfg) # {}
  <2>1. /\ pc'[c] = "write" /\ left'[c] = {} /\ got'[c] = cfg /\ queue'[c] = queue[c]
    BY <1>4 DEF AfterRead, TypeOK
  <2>2. GotIsCurrent(c)'
    <3> SUFFICES ASSUME NEW v \in queue[c], Least(v, queue[c]), NEW u \in UseSet
                 PROVE  <<v, u>> \in touched[c] \/ cfg[u] = FromModel(server[v][u])
      BY <2>1, <1>a, <1>4 DEF GotIsCurrent, ReadNotSent
    <3>1. v = w
      BY WidsAssumption DEF Least, TypeOK
    <3> QED BY <3>1
  <2> QED BY <2>1, <2>2, <1>4, <1>a DEF RunInv, ItemsAreValidated, SentOrSkipped, PastIsDelivered
<1> QED BY <1>1, <1>2, <1>3, <1>4

\* What has been read once a GET is answered is what the server has, or was changed by somebody else.
LEMMA GotAfterGet ==
    ASSUME IInv, NEW c \in Checkouts, NEW w \in Wids, NEW u \in UseSet, Get(c, w, u)
    PROVE  /\ ReadUse(c, w, u) \in Config
           /\ \A v \in UseSet \ (left[c] \ {u}) :
                  <<w, v>> \in touched[c] \/ ReadUse(c, w, u)[v] = FromModel(server[w][v])
<1>1. TypeOK /\ RunInv(c) /\ pc[c] = "get" /\ w \in queue[c] /\ Least(w, queue[c])
  BY DEF IInv, PushInv, Get, Least
<1>2. ReadUse(c, w, u) \in Config
  <2>1. server[w][u] \in Payload /\ got[c] \in Config
    BY <1>1 DEF TypeOK
  <2> QED BY <2>1, FromModelType DEF Config, ReadUse
<1>3. \A v \in UseSet \ left[c] : <<w, v>> \in touched[c] \/ got[c][v] = FromModel(server[w][v])
  BY <1>1 DEF RunInv, GotIsCurrent, ReadNotSent, Running
<1>4. /\ ReadUse(c, w, u)[u] = FromModel(server[w][u])
      /\ \A v \in UseSet \ {u} : ReadUse(c, w, u)[v] = got[c][v]
  BY <1>1 DEF TypeOK, Config, ReadUse
<1> QED BY <1>2, <1>3, <1>4

\* A GET keeps the invariant.
LEMMA GetInv ==
    ASSUME IInv, NEW c \in Checkouts, NEW w \in Wids, NEW u \in UseSet, Get(c, w, u)
    PROVE  IInv'
<1> DEFINE cfg == ReadUse(c, w, u)
<1>1. /\ TypeOK /\ PushInv /\ RunInv(c) /\ pc[c] = "get"
      /\ w \in queue[c] /\ Least(w, queue[c]) /\ u \in left[c]
  BY DEF IInv, PushInv, Get, Least, FirstUse
<1>2. UNCHANGED <<serverVars, tree, cmd, scope, items, ghostVars, countVars>>
  BY DEF Get
<1>3. /\ cfg \in Config
      /\ \A v \in UseSet \ (left[c] \ {u}) :
             <<w, v>> \in touched[c] \/ cfg[v] = FromModel(server[w][v])
  BY GotAfterGet
<1>5. CASE left[c] = {u}
  <2>1. AfterRead(c, w, cfg)
    BY <1>5 DEF Get
  <2>2. TypeOK'
    <3> HIDE DEF cfg
    <3>1. /\ pc' \in [Checkouts -> Running \cup Ended]
          /\ queue' \in [Checkouts -> SUBSET Wids]
          /\ left' \in [Checkouts -> SUBSET UseSet]
          /\ got' \in [Checkouts -> Config]
      BY <2>1, <1>1, <1>3, AfterReadType
    <3> QED BY <3>1, <1>1, <1>2 DEF TypeOK, serverVars, ghostVars, countVars
  <2>3. RunInv(c)'
    <3> HIDE DEF cfg
    <3>1. \A v \in UseSet : <<w, v>> \in touched[c] \/ cfg[v] = FromModel(server[w][v])
      BY <1>3, <1>5
    <3> QED BY <3>1, <2>1, <1>1, <1>2, <1>3, AfterReadInv
  <2>4. \A d \in Checkouts \ {c} : SameRun(d) /\ Recorded(d)
    BY <2>1, <1>1, <1>2 DEF AfterRead, Advance, SameRun, Recorded, TypeOK, serverVars, ghostVars
  <2> QED BY <2>2, <2>3, <2>4, <1>1, OthersInv DEF IInv
<1>6. CASE left[c] # {u}
  <2>1. /\ got' = [got EXCEPT ![c] = cfg] /\ left' = [left EXCEPT ![c] = @ \ {u}]
        /\ UNCHANGED <<pc, queue>>
    BY <1>6 DEF Get
  <2>2. TypeOK'
    <3> HIDE DEF cfg
    <3> QED BY <2>1, <1>1, <1>2, <1>3 DEF TypeOK, serverVars, ghostVars, countVars
  <2>3. RunInv(c)'
    <3> HIDE DEF cfg
    <3>1. got'[c] = cfg /\ left'[c] = left[c] \ {u}
      BY <2>1, <1>1 DEF TypeOK
    <3>2. GotIsCurrent(c)'
      <4> SUFFICES ASSUME NEW v \in queue[c], Least(v, queue[c]), NEW x \in UseSet \ (left[c] \ {u})
                   PROVE  <<v, x>> \in touched[c] \/ cfg[x] = FromModel(server[v][x])
        BY <3>1, <2>1, <1>1, <1>2 DEF GotIsCurrent, ReadNotSent, serverVars, ghostVars
      <4>1. v = w
        BY <1>1, WidsAssumption DEF Least, TypeOK
      <4> QED BY <4>1, <1>3
    <3>3. ItemsAreValidated(c)' /\ SentOrSkipped(c)' /\ PastIsDelivered(c)'
      BY <2>1, <1>1, <1>2 DEF RunInv, ItemsAreValidated, SentOrSkipped, PastIsDelivered, Delivered,
                              serverVars, ghostVars
    <3> QED BY <3>2, <3>3 DEF RunInv
  <2>4. \A d \in Checkouts \ {c} : SameRun(d) /\ Recorded(d)
    BY <2>1, <1>1, <1>2 DEF SameRun, Recorded, TypeOK, serverVars, ghostVars
  <2> QED BY <2>2, <2>3, <2>4, <1>1, OthersInv DEF IInv
<1> QED BY <1>5, <1>6

-----------------------------------------------------------------------------
\* What a push sends is the validated rotation of its file.
LEMMA SentIsFile ==
    ASSUME IInv, NEW c \in Checkouts, NEW w \in queue[c], Least(w, queue[c]),
           NEW u \in left[c], pc[c] = "put"
    PROVE  /\ u \in UseSet /\ cmd[c] = "push"
           /\ u \in Uses(items[c][w])
           /\ Sent(c, w, u) = ToModel(items[c][w][u])
           /\ Sent(c, w, u) \in Payload
           /\ InSync(items[c][w][u], Sent(c, w, u))
<1>1. TypeOK /\ RunInv(c) /\ pc[c] \in Running
  BY DEF IInv, PushInv, Running
<1>2. cmd[c] = "push" /\ u \in Uses(Changed(items[c][w], got[c]))
  BY <1>1 DEF RunInv, SentOrSkipped
<1>3. items[c][w] \in Config /\ Validate(items[c][w]) /\ got[c] \in Config
  BY <1>1, <1>2, CurrentItem DEF RunInv, TypeOK
<1>4. u \in Uses(items[c][w]) /\ Changed(items[c][w], got[c])[u] = items[c][w][u]
  BY <1>2, <1>3, ChangedType
<1> QED BY <1>2, <1>3, <1>4, SentType DEF Sent

\* The PUT of one use: it is sent, it changes nothing else, and others record it.
LEMMA PutEffect ==
    ASSUME IInv, NEW c \in Checkouts, NEW w \in Wids, NEW u \in UseSet,
           pc[c] = "put", Least(w, queue[c]), FirstUse(u, left[c]),
           SetUse(w, u, Sent(c, w, u)), Touch({<<w, u>>}, {c})
    PROVE  /\ server' \in [Wids -> [UseSet -> Payload]]
           /\ touched' \in [Checkouts -> SUBSET EachUse]
           /\ touched'[c] = touched[c]
           /\ server'[w][u] = Sent(c, w, u)
           /\ \A d \in Checkouts \ {c} : Recorded(d)
<1>1. TypeOK /\ Sent(c, w, u) \in Payload
  BY SentIsFile DEF IInv, Least, FirstUse
<1>2. touched' \in [Checkouts -> SUBSET EachUse]
  BY <1>1 DEF TypeOK, Touch, EachUse
<1> HIDE DEF Sent
<1> QED BY <1>1, <1>2 DEF TypeOK, SetUse, Touch, Recorded

\* After a PUT the use sent is in sync, the ones before it still are, and so are earlier workspaces.
LEMMA PutKeeps ==
    ASSUME IInv, NEW c \in Checkouts, NEW w \in Wids, NEW u \in UseSet,
           pc[c] = "put", Least(w, queue[c]), FirstUse(u, left[c]),
           SetUse(w, u, Sent(c, w, u)), Touch({<<w, u>>}, {c}),
           UNCHANGED <<scope, base, items, cmd>>
    PROVE  /\ \A x \in Uses(items[c][w]) \ (left[c] \ {u}) :
                 <<w, x>> \in touched'[c] \/ InSync(items[c][w][x], server'[w][x])
           /\ \A v \in scope[c] \ queue[c] : Delivered(c, v)'
<1>1. /\ TypeOK /\ RunInv(c) /\ w \in queue[c] /\ u \in left[c]
  BY DEF IInv, PushInv, Least, FirstUse
<1>2. /\ cmd[c] = "push" /\ InSync(items[c][w][u], Sent(c, w, u))
  BY <1>1, SentIsFile
<1>3. /\ touched'[c] = touched[c] /\ server'[w][u] = Sent(c, w, u)
  BY PutEffect
<1>a. \A v \in Wids, x \in UseSet : v # w \/ x # u => server'[v][x] = server[v][x]
  BY <1>1 DEF TypeOK, SetUse
<1>4. ASSUME NEW x \in Uses(items[c][w]) \ (left[c] \ {u})
      PROVE  <<w, x>> \in touched'[c] \/ InSync(items[c][w][x], server'[w][x])
  <2>1. x \in UseSet
    BY DEF Uses
  <2>2. CASE x = u
    BY <2>2, <1>2, <1>3
  <2>3. CASE x # u
    <3>1. server'[w][x] = server[w][x]
      BY <2>1, <2>3, <1>a
    <3>2. x \in Uses(items[c][w]) \ left[c]
      BY <2>3
    <3> QED BY <3>1, <3>2, <1>1, <1>3 DEF RunInv, SentOrSkipped
  <2> QED BY <2>2, <2>3
<1>5. ASSUME NEW v \in scope[c] \ queue[c]
      PROVE  Delivered(c, v)'
  <2>1. Delivered(c, v)
    BY <1>1, <1>2 DEF RunInv, PastIsDelivered
  <2>2. v # w /\ v \in Wids
    BY <1>1 DEF TypeOK
  <2>3. \A x \in UseSet : server'[v][x] = server[v][x]
    BY <2>2, <1>a
  <2>4. FileUses(base[c], v) \subseteq UseSet
    BY DEF FileUses, Uses
  <2> QED BY <2>1, <2>3, <2>4, <1>3 DEF Delivered
<1> QED BY <1>4, <1>5

\* A PUT keeps the invariant.
LEMMA PutInv ==
    ASSUME IInv, NEW c \in Checkouts, NEW w \in Wids, NEW u \in UseSet, Put(c, w, u)
    PROVE  IInv'
<1>1. /\ TypeOK /\ PushInv /\ RunInv(c) /\ pc[c] = "put" /\ pc[c] \in Running
      /\ w \in queue[c] /\ Least(w, queue[c]) /\ FirstUse(u, left[c]) /\ u \in left[c]
      /\ SetUse(w, u, Sent(c, w, u)) /\ Touch({<<w, u>>}, {c})
      /\ UNCHANGED <<present, tree, cmd, scope, items, base, edited, countVars>>
  BY DEF IInv, PushInv, Put, Least, FirstUse, Running
<1>2. /\ server' \in [Wids -> [UseSet -> Payload]]
      /\ touched' \in [Checkouts -> SUBSET EachUse]
      /\ touched'[c] = touched[c]
      /\ \A d \in Checkouts \ {c} : Recorded(d)
  BY <1>1, PutEffect
<1>3. /\ \A x \in Uses(items[c][w]) \ (left[c] \ {u}) :
             <<w, x>> \in touched'[c] \/ InSync(items[c][w][x], server'[w][x])
      /\ \A v \in scope[c] \ queue[c] : Delivered(c, v)'
  BY <1>1, PutKeeps
<1>4. FileUses(base[c], w) = Uses(items[c][w]) /\ items[c][w] = Read(base[c], w)
  BY <1>1, CurrentItem, SentIsFile DEF RunInv
<1>5. CASE left[c] = {u}
  <2>1. Advance(c, w)
    BY <1>5 DEF Put
  <2>2. TypeOK'
    <3>1. /\ pc' \in [Checkouts -> Running \cup Ended]
          /\ queue' \in [Checkouts -> SUBSET Wids]
          /\ left' \in [Checkouts -> SUBSET UseSet]
          /\ got' \in [Checkouts -> Config]
      BY <2>1, <1>1, AdvanceType
    <3> QED BY <3>1, <1>1, <1>2 DEF TypeOK, countVars
  <2>3. Delivered(c, w)'
    BY <1>1, <1>3, <1>4, <1>5 DEF Delivered
  <2>4. RunInv(c)'
    BY <2>1, <2>3, <1>1, <1>3, AdvanceInv
  <2>5. \A d \in Checkouts \ {c} : SameRun(d) /\ Recorded(d)
    BY <2>1, <1>1, <1>2 DEF Advance, SameRun, TypeOK
  <2> QED BY <2>2, <2>4, <2>5, <1>1, OthersInv DEF IInv
<1>6. CASE left[c] # {u}
  <2>1. left' = [left EXCEPT ![c] = @ \ {u}] /\ UNCHANGED <<pc, queue, got>>
    BY <1>6 DEF Put
  <2>2. TypeOK'
    BY <2>1, <1>1, <1>2 DEF TypeOK, countVars
  <2>3. SentOrSkipped(c)'
    <3>1. left'[c] = left[c] \ {u}
      BY <2>1, <1>1 DEF TypeOK
    <3>2. \A v \in queue[c] : Least(v, queue[c]) => v = w
      BY <1>1, WidsAssumption DEF Least, TypeOK
    <3>3. cmd[c] = "push" /\ left[c] \subseteq Uses(Changed(items[c][w], got[c]))
      BY <1>1 DEF RunInv, SentOrSkipped
    <3> QED BY <3>1, <3>2, <3>3, <2>1, <1>1, <1>3 DEF SentOrSkipped
  <2>4. GotIsCurrent(c)'
    <3>1. left'[c] = left[c] \ {u}
      BY <2>1, <1>1 DEF TypeOK
    <3>2. \A v \in queue[c] : Least(v, queue[c]) => v = w
      BY <1>1, WidsAssumption DEF Least, TypeOK
    <3>3. \A x \in left[c] : <<w, x>> \in touched[c] \/ got[c][x] = FromModel(server[w][x])
      BY <1>1 DEF RunInv, GotIsCurrent, ReadNotSent
    <3>4. \A x \in left[c] \ {u} : server'[w][x] = server[w][x]
      BY <1>1 DEF SetUse, TypeOK
    <3> HIDE DEF RunInv
    <3> QED BY <3>1, <3>2, <3>3, <3>4, <2>1, <1>1, <1>2 DEF GotIsCurrent, ReadNotSent
  <2>6. ItemsAreValidated(c)' /\ PastIsDelivered(c)'
    BY <2>1, <1>1, <1>3 DEF RunInv, ItemsAreValidated, PastIsDelivered
  <2>5. \A d \in Checkouts \ {c} : SameRun(d) /\ Recorded(d)
    BY <2>1, <1>1, <1>2 DEF SameRun, TypeOK
  <2> QED BY <2>2, <2>3, <2>4, <2>5, <2>6, <1>1, OthersInv DEF IInv, RunInv
<1> QED BY <1>5, <1>6

\* A PUT that is applied and whose answer is lost keeps the invariant.
LEMMA PutAnswerLostInv ==
    ASSUME IInv, NEW c \in Checkouts, NEW w \in Wids, NEW u \in UseSet, PutAnswerLost(c, w, u)
    PROVE  IInv'
<1>1. /\ TypeOK /\ PushInv /\ RunInv(c) /\ pc[c] = "put"
      /\ Least(w, queue[c]) /\ FirstUse(u, left[c])
      /\ SetUse(w, u, Sent(c, w, u)) /\ Touch({<<w, u>>}, {c})
      /\ UNCHANGED <<present, tree, cmd, scope, items, queue, left, got, base, edited, countVars>>
      /\ pc' = [pc EXCEPT ![c] = "failed"]
  BY DEF IInv, PushInv, PutAnswerLost, Stop
<1>2. /\ server' \in [Wids -> [UseSet -> Payload]]
      /\ touched' \in [Checkouts -> SUBSET EachUse]
      /\ \A d \in Checkouts \ {c} : Recorded(d)
  BY <1>1, PutEffect
<1>3. \A v \in scope[c] \ queue[c] : Delivered(c, v)'
  BY <1>1, PutKeeps
<1>4. TypeOK'
  BY <1>1, <1>2 DEF TypeOK, countVars, Running, Ended
<1>5. RunInv(c)'
  <2>1. pc'[c] = "failed"
    BY <1>1 DEF TypeOK
  <2> QED BY <2>1, <1>1, <1>3
       DEF RunInv, ItemsAreValidated, GotIsCurrent, ReadNotSent, SentOrSkipped, PastIsDelivered, Running
<1>6. \A d \in Checkouts \ {c} : SameRun(d) /\ Recorded(d)
  BY <1>1, <1>2 DEF SameRun, TypeOK
<1> QED BY <1>1, <1>4, <1>5, <1>6, OthersInv DEF IInv

-----------------------------------------------------------------------------
\* A process that stops, at a 404 or any other failure, keeps the invariant.
LEMMA StopInv ==
    ASSUME IInv, NEW c \in Checkouts, Stop(c), Interrupted
    PROVE  IInv'
<1>1. TypeOK /\ PushInv /\ RunInv(c)
  BY DEF IInv, PushInv
<1>2. TypeOK'
  BY <1>1 DEF TypeOK, Stop, Interrupted, serverVars, ghostVars, countVars, Running, Ended
<1>3. RunInv(c)'
  <2>1. pc'[c] = "failed"
    BY <1>1 DEF Stop, TypeOK
  <2> QED BY <2>1, <1>1 DEF RunInv, ItemsAreValidated, GotIsCurrent, ReadNotSent, SentOrSkipped, PastIsDelivered,
                            Delivered, Running, Interrupted, serverVars, ghostVars
<1>4. \A d \in Checkouts \ {c} : SameRun(d) /\ Recorded(d)
  BY <1>1 DEF Stop, Interrupted, SameRun, Recorded, TypeOK, serverVars, ghostVars
<1> QED BY <1>1, <1>2, <1>3, <1>4, OthersInv DEF IInv

\* A directory tree with one file replaced is a directory tree.
LEMMA WriteType ==
    ASSUME NEW files \in Tree, NEW w \in Wids, NEW f \in File
    PROVE  /\ \A d \in Dirs : [files EXCEPT ![d][w] = f] \in Tree
           /\ Write(files, w, f) \in Tree
BY DirsAssumption DEF Tree, Write, Dirs

\* The file a pull writes keeps the invariant.
LEMMA WriteFileInv ==
    ASSUME IInv, NEW c \in Checkouts, NEW w \in Wids, WriteFile(c, w)
    PROVE  IInv'
<1>1. /\ TypeOK /\ PushInv /\ RunInv(c) /\ pc[c] = "write" /\ pc[c] \in Running
      /\ w \in queue[c] /\ Advance(c, w)
      /\ tree' = [tree EXCEPT ![c] = Write(@, w, got[c])]
      /\ UNCHANGED <<serverVars, cmd, scope, items, ghostVars, countVars>>
  BY DEF IInv, PushInv, WriteFile, Least, Running
<1>2. TypeOK'
  <2>1. Write(tree[c], w, got[c]) \in Tree
    <3>1. tree[c] \in Tree /\ got[c] \in File
      BY <1>1 DEF TypeOK, File
    <3> QED BY <3>1, WriteType
  <2>2. tree' \in [Checkouts -> Tree]
    BY <1>1, <2>1 DEF TypeOK
  <2> QED BY <2>2, <1>1, AdvanceType DEF TypeOK, serverVars, ghostVars, countVars
<1>3. RunInv(c)'
  <2>1. /\ UNCHANGED <<cmd, scope, items, base>>
        /\ touched' = touched /\ server' = server
    BY <1>1 DEF serverVars, ghostVars
  <2>2. cmd[c] # "push"
    BY <1>1 DEF RunInv, GotIsCurrent, ReadNotSent
  <2> QED BY <2>1, <2>2, <1>1, AdvanceInv
<1>4. \A d \in Checkouts \ {c} : SameRun(d) /\ Recorded(d)
  BY <1>1 DEF Advance, SameRun, Recorded, TypeOK, serverVars, ghostVars
<1> QED BY <1>1, <1>2, <1>3, <1>4, OthersInv DEF IInv

\* What an interrupted write leaves is a file, and of the uses before the torn one what was written.
LEMMA TornType ==
    ASSUME NEW cfg \in Config, NEW torn \in TornFiles(cfg)
    PROVE  torn \in File
<1>1. ASSUME NEW u \in UseSet PROVE TornUse(cfg[u]) \subseteq Rotation \cup {NoRotation}
  <2>1. cfg[u] \in Rotation \cup {NoRotation}
    BY DEF Config
  <2>2. CASE cfg[u] \in Rotation
    <3>1. cfg[u].enabled \in BOOLEAN
      BY <2>2 DEF Rotation
    <3>2. [enabled : {cfg[u].enabled}, cron : {NoCron} \cup GoodCrons \cup BadCrons, starting_from : {NoTime}]
              \subseteq Rotation
      BY <3>1 DEF Rotation
    <3>3. [enabled |-> FALSE, cron |-> NoCron, starting_from |-> NoTime] \in Rotation
      BY DEF Rotation
    <3> QED BY <3>2, <3>3 DEF TornUse
  <2>3. CASE cfg[u] = NoRotation
    BY <2>3 DEF TornUse
  <2> QED BY <2>1, <2>2, <2>3
<1>2. \A r \in Rotation \cup {NoRotation} :
          [EmptyConfig EXCEPT !["sig"] = r] \in Config /\ [cfg EXCEPT !["enc"] = r] \in Config
  BY EmptyConfigType DEF Config
<1> QED BY <1>1, <1>2 DEF TornFiles, File, UseSet

\* A file a pull was writing when it died keeps the invariant.
LEMMA WriteFileTornInv ==
    ASSUME IInv, NEW c \in Checkouts, NEW w \in Wids, WriteFileTorn(c, w)
    PROVE  IInv'
<1>1. /\ TypeOK /\ PushInv /\ RunInv(c) /\ Stop(c)
      /\ UNCHANGED <<serverVars, cmd, scope, items, queue, left, got, ghostVars, countVars>>
  BY DEF IInv, PushInv, WriteFileTorn
<1>2. tree' \in [Checkouts -> Tree]
  <2>1. PICK torn \in TornFiles(got[c]) : tree' = [tree EXCEPT ![c] = Write(@, w, torn)]
    BY DEF WriteFileTorn
  <2>2. torn \in File
    <3>1. got[c] \in Config
      BY <1>1 DEF TypeOK
    <3> QED BY <2>1, <3>1, TornType
  <2>3. Write(tree[c], w, torn) \in Tree
    BY <2>2, <1>1, WriteType DEF TypeOK
  <2> QED BY <2>1, <2>3, <1>1 DEF TypeOK
<1>3. TypeOK'
  BY <1>1, <1>2 DEF TypeOK, Stop, serverVars, ghostVars, countVars, Running, Ended
<1>4. RunInv(c)'
  <2>1. pc'[c] = "failed"
    BY <1>1 DEF Stop, TypeOK
  <2> QED BY <2>1, <1>1 DEF RunInv, ItemsAreValidated, GotIsCurrent, ReadNotSent, SentOrSkipped, PastIsDelivered,
                            Delivered, Running, serverVars, ghostVars
<1>5. \A d \in Checkouts \ {c} : SameRun(d) /\ Recorded(d)
  BY <1>1 DEF Stop, SameRun, Recorded, TypeOK, serverVars, ghostVars
<1> QED BY <1>1, <1>3, <1>4, <1>5, OthersInv DEF IInv

\* A change by another administrator is recorded by every process.
LEMMA OutsideInv ==
    ASSUME IInv, CountOutside,
           NEW pairs \in SUBSET EachUse, Touch(pairs, {}),
           present' \subseteq Wids,
           server' \in [Wids -> [UseSet -> Payload]],
           \A v \in Wids, u \in UseSet : server'[v][u] = server[v][u] \/ <<v, u>> \in pairs
    PROVE  IInv'
<1>1. TypeOK /\ PushInv
  BY DEF IInv
<1>2. touched' \in [Checkouts -> SUBSET EachUse]
      /\ \A c \in Checkouts : touched'[c] = touched[c] \cup pairs
  BY <1>1 DEF Touch, TypeOK
<1>3. TypeOK'
  <2>1. outside' \in 0..MaxOutside
    BY <1>1, BoundsAssumption DEF CountOutside, TypeOK
  <2> QED BY <2>1, <1>1, <1>2 DEF TypeOK, CountOutside, runVars
<1>4. \A c \in Checkouts : SameRun(c) /\ Recorded(c)
  BY <1>2 DEF CountOutside, SameRun, Recorded, runVars
<1> QED BY <1>1, <1>3, <1>4, Frame DEF IInv, PushInv

\* An administrator setting a use keeps the invariant.
LEMMA OutsideSetInv ==
    ASSUME IInv, NEW w \in Wids, NEW u \in UseSet, NEW p \in OutsidePayloads, OutsideSet(w, u, p)
    PROVE  IInv'
<1>1. TypeOK /\ p \in Payload
  BY BoundsAssumption DEF IInv
<1>2. {<<w, u>>} \in SUBSET EachUse
  BY DEF EachUse
<1>3. /\ server' \in [Wids -> [UseSet -> Payload]]
      /\ \A v \in Wids, x \in UseSet : server'[v][x] = server[v][x] \/ <<v, x>> \in {<<w, u>>}
  BY <1>1 DEF OutsideSet, SetUse, TypeOK
<1>4. present' \subseteq Wids /\ CountOutside /\ Touch({<<w, u>>}, {})
  BY <1>1 DEF OutsideSet, TypeOK
<1> QED BY <1>2, <1>3, <1>4, OutsideInv

\* Deleting and creating a workspace both leave it unconfigured.
LEMMA UnconfigureInv ==
    ASSUME IInv, NEW w \in Wids, Unconfigure(w), Touch({w} \X UseSet, {}), CountOutside,
           present' \subseteq Wids
    PROVE  IInv'
<1>1. TypeOK /\ NeverConfigured \in Payload
  BY DEF IInv, NeverConfigured, Payload
<1>2. {w} \X UseSet \in SUBSET EachUse
  BY DEF EachUse
<1>3. /\ server' \in [Wids -> [UseSet -> Payload]]
      /\ \A v \in Wids, x \in UseSet : server'[v][x] = server[v][x] \/ <<v, x>> \in {w} \X UseSet
  BY <1>1 DEF Unconfigure, TypeOK
<1> QED BY <1>2, <1>3, OutsideInv

\* A user editing a file keeps the invariant: a running push works on what it read.
LEMMA EditInv ==
    ASSUME IInv, NEW c \in Checkouts, NEW d \in Dirs, NEW w \in Wids, NEW f \in EditFiles,
           Edit(c, d, w, f)
    PROVE  IInv'
<1>1. TypeOK /\ PushInv /\ f \in File
  BY BoundsAssumption DEF IInv
<1>2. TypeOK'
  <2>1. tree[c] \in Tree
    BY <1>1 DEF TypeOK
  <2>2. [tree[c] EXCEPT ![d][w] = f] \in Tree
    BY <2>1, <1>1, WriteType
  <2>3. tree' = [tree EXCEPT ![c] = [tree[c] EXCEPT ![d][w] = f]]
    BY DEF Edit
  <2>4. tree' \in [Checkouts -> Tree]
    BY <2>2, <2>3, <1>1 DEF TypeOK
  <2>5. edits' \in 0..MaxEdits
    BY <1>1, BoundsAssumption DEF Edit, TypeOK
  <2> QED BY <2>4, <2>5, <1>1 DEF Edit, TypeOK, serverVars, runVars
<1>3. \A b \in Checkouts : SameRun(b) /\ Recorded(b)
  BY <1>1 DEF Edit, SameRun, Recorded, serverVars, runVars
<1> QED BY <1>1, <1>2, <1>3, Frame DEF IInv, PushInv

-----------------------------------------------------------------------------
\* Every step of the pull, the push, a fault, a user or another administrator keeps the inductive
\* invariant.
THEOREM NextInv == IInv /\ [Next]_vars => IInv'
<1> SUFFICES ASSUME IInv, [Next]_vars PROVE IInv'
  OBVIOUS
<1>1. ASSUME NEW c \in Checkouts, Start(c) PROVE IInv'
  BY <1>1, StartPushInv, RefusePushInv, StartPullInv DEF Start
<1>2. ASSUME NEW c \in Checkouts, Step(c) PROVE IInv'
  <2>1. ASSUME NEW w \in Wids, NotFound(c, w) PROVE IInv'
    BY <1>2, <2>1, StopInv DEF NotFound
  <2> QED BY <1>2, <2>1, WriteFileInv, GetInv, PutInv DEF Step
<1>3. ASSUME NEW c \in Checkouts, Fault(c) PROVE IInv'
  <2>1. ASSUME Fail(c) PROVE IInv'
    BY <1>3, <2>1, StopInv DEF Fail
  <2> QED BY <1>3, <2>1, WriteFileTornInv, PutAnswerLostInv DEF Fault
<1>4. ASSUME NEW c \in Checkouts, User(c) PROVE IInv'
  BY <1>4, EditInv DEF User
<1>5. ASSUME Outside PROVE IInv'
  <2>1. ASSUME NEW w \in Wids, OutsideDelete(w) PROVE IInv'
    <3>1. present' \subseteq Wids
      BY <2>1 DEF IInv, TypeOK, OutsideDelete
    <3> QED BY <2>1, <3>1, UnconfigureInv DEF OutsideDelete
  <2>2. ASSUME NEW w \in Wids, OutsideCreate(w) PROVE IInv'
    <3>1. present' \subseteq Wids
      BY <2>2 DEF IInv, TypeOK, OutsideCreate
    <3> QED BY <2>2, <3>1, UnconfigureInv DEF OutsideCreate
  <2> QED BY <1>5, <2>1, <2>2, OutsideSetInv DEF Outside
<1>6. CASE UNCHANGED vars
  <2>1. TypeOK'
    BY <1>6 DEF IInv, TypeOK, vars, serverVars, runVars, ghostVars, countVars
  <2>2. \A c \in Checkouts : SameRun(c) /\ Recorded(c)
    BY <1>6 DEF SameRun, Recorded, vars, serverVars, runVars, ghostVars
  <2> QED BY <2>1, <2>2, Frame DEF IInv, PushInv
<1> QED BY <1>1, <1>2, <1>3, <1>4, <1>5, <1>6 DEF Next

\* The state stays well typed: in particular no push ever sets a cron the server's parser rejects.
THEOREM TypeCorrect == Spec => []TypeOK
<1>1. IInv => TypeOK
  BY DEF IInv
<1> QED BY InitInv, NextInv, <1>1, PTL DEF Spec

\* The inductive invariant holds of every behaviour.
THEOREM Invariance == Spec => []IInv
BY InitInv, NextInv, PTL DEF Spec

\* In particular what a run knows of its current workspace and of those it is past.
THEOREM KnowsWhatItRead == Spec => []PushInv
<1>1. IInv => PushInv
  BY DEF IInv
<1> QED BY Invariance, <1>1, PTL

\* A workspace a push is past has what its file said, for any number of workspaces and checkouts and
\* whatever fails, races or is edited.
THEOREM Handled == Spec => []HandledIsDelivered
<1>1. IInv => HandledIsDelivered
  BY DEF IInv, PushInv, RunInv, HandledIsDelivered
<1> QED BY Invariance, <1>1, PTL

-----------------------------------------------------------------------------
\* The only steps in which a process changes the server are its PUTs.
LEMMA ServerChangedByPut ==
    ASSUME IInv, Next, NEW c \in Checkouts, NEW w \in Wids, NEW u \in UseSet,
           StepOf(c), server'[w][u] # server[w][u]
    PROVE  /\ pc[c] = "put" /\ Least(w, queue[c]) /\ FirstUse(u, left[c])
           /\ server'[w][u] = Sent(c, w, u)
<1>1. TypeOK
  BY DEF IInv
<1>2. ASSUME NEW d \in Checkouts, Start(d) PROVE FALSE
  BY <1>2 DEF Start, StartPush, RefusePush, StartPull, Begin, serverVars
<1>3. ASSUME NEW d \in Checkouts, User(d) PROVE FALSE
  BY <1>3 DEF User, Edit, serverVars
<1>4. ASSUME Outside PROVE FALSE
  <2>1. ~UNCHANGED runVars
    BY DEF StepOf, Local, runVars
  <2> QED BY <1>4, <2>1 DEF Outside, OutsideSet, OutsideDelete, OutsideCreate, CountOutside
<1>5. ASSUME NEW d \in Checkouts, Step(d) \/ Fault(d)
      PROVE  \E v \in Wids, x \in UseSet : Put(d, v, x) \/ PutAnswerLost(d, v, x)
  <2>1. ~UNCHANGED serverVars
    BY DEF serverVars
  <2> QED BY <1>5, <2>1 DEF Step, Fault, WriteFile, NotFound, Interrupted, Get, Fail, WriteFileTorn
<1>6. PICK d \in Checkouts, v \in Wids, x \in UseSet : Put(d, v, x) \/ PutAnswerLost(d, v, x)
  BY <1>2, <1>3, <1>4, <1>5 DEF Next
<1>7. /\ pc[d] = "put" /\ Least(v, queue[d]) /\ FirstUse(x, left[d])
      /\ server' = [server EXCEPT ![v][x] = Sent(d, v, x)]
  BY <1>6 DEF Put, PutAnswerLost, SetUse
<1>8. v = w /\ x = u /\ server'[w][u] = Sent(d, w, u)
  <2> HIDE DEF Sent
  <2> QED BY <1>1, <1>7 DEF TypeOK
<1>9. d = c
  BY <1>1, <1>6 DEF Put, PutAnswerLost, Advance, Stop, StepOf, Local, TypeOK
<1> QED BY <1>7, <1>8, <1>9

\* The server changes by a push only to what a file said that was read and validated at its start.
THEOREM SendsValidated == Spec => PushSendsWhatWasValidated
<1> DEFINE A == \A c \in Checkouts, w \in Wids, u \in UseSet :
                    StepOf(c) /\ server'[w][u] # server[w][u] =>
                        /\ cmd[c] = "push"
                        /\ AllValid(base[c], scope[c])
                        /\ w \in scope[c] /\ u \in FileUses(base[c], w)
                        /\ server'[w][u] = ToModel(Read(base[c], w)[u])
<1>1. IInv /\ [Next]_vars => [A]_vars
  <2> SUFFICES ASSUME IInv, Next, NEW c \in Checkouts, NEW w \in Wids, NEW u \in UseSet,
                      StepOf(c), server'[w][u] # server[w][u]
               PROVE  /\ cmd[c] = "push"
                      /\ AllValid(base[c], scope[c])
                      /\ w \in scope[c] /\ u \in FileUses(base[c], w)
                      /\ server'[w][u] = ToModel(Read(base[c], w)[u])
    OBVIOUS
  <2>1. /\ pc[c] = "put" /\ Least(w, queue[c]) /\ FirstUse(u, left[c])
        /\ w \in queue[c] /\ u \in left[c]
        /\ server'[w][u] = Sent(c, w, u)
    BY ServerChangedByPut DEF Least, FirstUse
  <2>2. /\ cmd[c] = "push" /\ u \in Uses(items[c][w])
        /\ Sent(c, w, u) = ToModel(items[c][w][u])
    BY <2>1, SentIsFile
  <2>3. TypeOK /\ RunInv(c) /\ pc[c] \in Running
    BY <2>1 DEF IInv, PushInv, Running
  <2>4. /\ w \in scope[c] /\ items[c][w] = Read(base[c], w)
        /\ FileUses(base[c], w) = Uses(items[c][w])
    BY <2>1, <2>2, <2>3, CurrentItem DEF RunInv
  <2>5. AllValid(base[c], scope[c])
    BY <2>2, <2>3 DEF RunInv, ItemsAreValidated
  <2> QED BY <2>1, <2>2, <2>4, <2>5
<1>2. PushSendsWhatWasValidated <=> [][A]_vars
  BY DEF PushSendsWhatWasValidated
<1> QED BY Invariance, <1>1, <1>2, PTL DEF Spec

\* A use changes only when what precedes it in the push is delivered.
THEOREM SendsInOrder == Spec => PushInOrder
<1> DEFINE A == \A c \in Checkouts, w \in Wids, u \in UseSet :
                    StepOf(c) /\ server'[w][u] # server[w][u] =>
                        /\ \A v \in scope[c] : v < w => Delivered(c, v)
                        /\ (u = "enc" /\ "sig" \in FileUses(base[c], w)) =>
                               \/ <<w, "sig">> \in touched[c]
                               \/ InSync(Read(base[c], w)["sig"], server[w]["sig"])
<1>1. IInv /\ [Next]_vars => [A]_vars
  <2> SUFFICES ASSUME IInv, Next, NEW c \in Checkouts, NEW w \in Wids, NEW u \in UseSet,
                      StepOf(c), server'[w][u] # server[w][u]
               PROVE  /\ \A v \in scope[c] : v < w => Delivered(c, v)
                      /\ (u = "enc" /\ "sig" \in FileUses(base[c], w)) =>
                             \/ <<w, "sig">> \in touched[c]
                             \/ InSync(Read(base[c], w)["sig"], server[w]["sig"])
    OBVIOUS
  <2>1. /\ pc[c] = "put" /\ Least(w, queue[c]) /\ FirstUse(u, left[c])
        /\ w \in queue[c] /\ u \in left[c]
    BY ServerChangedByPut DEF Least, FirstUse
  <2>2. TypeOK /\ RunInv(c) /\ pc[c] \in Running /\ cmd[c] = "push"
    BY <2>1 DEF IInv, PushInv, Running, RunInv, SentOrSkipped
  <2>3. \A v \in scope[c] : v < w => Delivered(c, v)
    <3> SUFFICES ASSUME NEW v \in scope[c], v < w PROVE v \notin queue[c]
      BY <2>2 DEF RunInv, PastIsDelivered
    <3> QED BY <2>1, <2>2, WidsAssumption DEF Least, TypeOK
  <2>4. items[c][w] = Read(base[c], w) /\ FileUses(base[c], w) = Uses(items[c][w])
    BY <2>1, <2>2, CurrentItem DEF RunInv
  <2>5. u = "enc" => "sig" \notin left[c]
    BY <2>1 DEF FirstUse
  <2>6. \A x \in Uses(items[c][w]) \ left[c] :
            <<w, x>> \in touched[c] \/ InSync(items[c][w][x], server[w][x])
    BY <2>1, <2>2 DEF RunInv, SentOrSkipped
  <2> QED BY <2>3, <2>4, <2>5, <2>6
<1>2. PushInOrder <=> [][A]_vars
  BY DEF PushInOrder
<1> QED BY Invariance, <1>1, <1>2, PTL DEF Spec

\* What a push is about to send without starting_from, the server does not have, unless it changed since it was read.
LEMMA SentIsNews ==
    ASSUME IInv, NEW c \in Checkouts, NEW w \in Wids, NEW u \in UseSet,
           pc[c] = "put", Least(w, queue[c]), FirstUse(u, left[c]),
           Read(base[c], w)[u].starting_from = NoTime,
           <<w, u>> \notin touched[c], InSync(Read(base[c], w)[u], server[w][u])
    PROVE  FALSE
<1> DEFINE local == Read(base[c], w)[u]
           remote == FromModel(server[w][u])
<1>1. /\ pc[c] = "put" /\ pc[c] \in Running /\ Least(w, queue[c])
      /\ w \in queue[c] /\ u \in left[c]
      /\ TypeOK /\ RunInv(c)
  BY DEF IInv, PushInv, Least, FirstUse, Running
<1>2. /\ cmd[c] = "push" /\ u \in Uses(items[c][w])
      /\ u \in Uses(Changed(items[c][w], got[c]))
  BY <1>1, SentIsFile DEF RunInv, SentOrSkipped
<1>3. items[c][w] = Read(base[c], w) /\ items[c][w] \in Config /\ Validate(items[c][w])
  BY <1>1, <1>2, CurrentItem DEF RunInv
<1>4. got[c] \in Config /\ got[c][u] = remote
  BY <1>1 DEF RunInv, GotIsCurrent, ReadNotSent, TypeOK
<1>5. /\ server[w][u].enabled = local.enabled /\ server[w][u].cron = local.cron
      /\ local.cron \in GoodCrons
  BY <1>2, <1>3 DEF InSync, Validate
<1>6. /\ remote # NoRotation
      /\ remote.enabled = local.enabled /\ remote.cron = local.cron
  <2>1. server[w][u] \in Payload
    BY <1>1 DEF TypeOK
  <2>2. server[w][u].cron # NoCron
    BY <1>5, CronsAssumption
  <2>3. remote \in Rotation
    BY <2>1, <2>2 DEF FromModel, Payload, Rotation
  <2> QED BY <2>1, <2>3, <1>5, FromModelType, NilAssumption
<1>7. OrEmpty(got[c])[u] = remote
  BY <1>4, NilAssumption DEF OrEmpty
<1>8. Changed(items[c][w], got[c])[u] = NoRotation
  BY <1>3, <1>6, <1>7 DEF Changed, ChangedRotation
<1>9. Changed(items[c][w], got[c])[u] # NoRotation
  BY <1>2, <1>3, <1>4, ChangedType, NilAssumption DEF Uses
<1> QED BY <1>8, <1>9

\* A use the server already has is not written again, unless it changed since it was read.
THEOREM SendsOnlyChanges == Spec => NoRedundantPut
<1> DEFINE A == \A c \in Checkouts, w \in Wids, u \in UseSet :
                    Put(c, w, u) /\ Read(base[c], w)[u].starting_from = NoTime =>
                        <<w, u>> \in touched[c] \/ ~InSync(Read(base[c], w)[u], server[w][u])
<1>1. IInv => A
  BY SentIsNews DEF Put
<1>2. NoRedundantPut <=> [][A]_vars
  BY DEF NoRedundantPut
<1> QED BY Invariance, <1>1, <1>2, PTL DEF Spec

-----------------------------------------------------------------------------
\* Two rotations are shown as equal exactly when their enabled and cron are.
LEMMA ClearedEqual ==
    ASSUME NEW r \in Rotation, NEW s \in Rotation
    PROVE  /\ ClearStart(r) # NoRotation
           /\ ClearStart(r) = ClearStart(s) <=> r.enabled = s.enabled /\ r.cron = s.cron
<1>1. r # NoRotation /\ s # NoRotation
  BY NilAssumption
<1>2. ClearStart(r) = [enabled |-> r.enabled, cron |-> r.cron, starting_from |-> NoTime]
  BY <1>1 DEF ClearStart, Rotation
<1>3. ClearStart(s) = [enabled |-> s.enabled, cron |-> s.cron, starting_from |-> NoTime]
  BY <1>1 DEF ClearStart, Rotation
<1>4. ClearStart(r) \in Rotation
  BY <1>2 DEF Rotation
<1> QED BY <1>2, <1>3, <1>4, NilAssumption

\* The uses a diff of a configuration against the server shows.
LEMMA ShownUse ==
    ASSUME NEW local \in Config, NEW p \in [UseSet -> Payload], NEW u \in UseSet
    PROVE  u \in TreeDiff(local, Settings(p)) <=>
               /\ local[u] # NoRotation
               /\ FromModel(p[u]) = NoRotation \/ local[u].enabled # p[u].enabled \/ local[u].cron # p[u].cron
<1> DEFINE r == FromModel(p[u])
<1>1. OrEmpty(local) = local
  BY NilAssumption DEF OrEmpty
<1>2. OrEmpty(Settings(p))[u] = r
  <2> DEFINE cfg == [v \in UseSet |-> FromModel(p[v])]
  <2>1. cfg \in Config
    BY FromModelType DEF Config
  <2>2. Settings(p) = IF Uses(cfg) = {} THEN NoConfig ELSE cfg
    BY DEF Settings
  <2>3. cfg[u] = r /\ cfg # NoConfig
    BY <2>1, NilAssumption
  <2>4. Uses(cfg) = {} => r = NoRotation
    BY <2>3 DEF Uses
  <2> HIDE DEF cfg, r
  <2> QED BY <2>2, <2>3, <2>4 DEF OrEmpty, EmptyConfig
<1>3. u \in TreeDiff(local, Settings(p)) <=>
          ClearStart(local[u]) # (IF local[u] = NoRotation THEN NoRotation ELSE ClearStart(r))
  BY <1>1, <1>2 DEF TreeDiff, DiffSource, DiffTarget
<1>4. p[u] \in Payload
  OBVIOUS
<1>5. r \in Rotation \cup {NoRotation} /\ (r # NoRotation => r.enabled = p[u].enabled /\ r.cron = p[u].cron)
  BY <1>4, FromModelType
<1> HIDE DEF r
<1>6. CASE local[u] = NoRotation
  BY <1>3, <1>6 DEF ClearStart
<1>7. CASE local[u] # NoRotation /\ r = NoRotation
  <2>1. local[u] \in Rotation /\ ClearStart(r) = NoRotation
    BY <1>7 DEF Config, ClearStart
  <2> QED BY <1>3, <1>7, <2>1, ClearedEqual DEF r
<1>8. CASE local[u] # NoRotation /\ r # NoRotation
  <2>1. local[u] \in Rotation /\ r \in Rotation
    BY <1>5, <1>8 DEF Config
  <2> QED BY <1>3, <1>5, <1>8, <2>1, ClearedEqual DEF r
<1> QED BY <1>6, <1>7, <1>8

\* A valid use the server has is not shown.
LEMMA InSyncNotShown ==
    ASSUME NEW local \in Config, Validate(local), NEW p \in [UseSet -> Payload], NEW u \in Uses(local),
           InSync(local[u], p[u])
    PROVE  u \notin TreeDiff(local, Settings(p))
<1>1. u \in UseSet /\ local[u].cron \in GoodCrons /\ p[u].enabled = local[u].enabled /\ p[u].cron = local[u].cron
  BY NilAssumption DEF Uses, Validate, InSync
<1>2. p[u] \in Payload /\ p[u].cron # NoCron
  BY <1>1, CronsAssumption
<1>3. FromModel(p[u]) # NoRotation
  <2>1. FromModel(p[u]) \in Rotation
    BY <1>2 DEF FromModel, Payload, Rotation
  <2> QED BY <2>1, NilAssumption
<1> QED BY <1>1, <1>3, ShownUse

-----------------------------------------------------------------------------
\* A push that is past a workspace started with valid files, and those it refused left nothing behind it.
StartedValid(c) == cmd[c] = "push" /\ queue[c] # scope[c] => AllValid(base[c], scope[c])

\* The validation of a push is of the files it started with, whatever its process does.
LEMMA StartedValidStep ==
    ASSUME IInv, NEW c \in Checkouts, StartedValid(c), [Next]_vars
    PROVE  StartedValid(c)'
<1>1. TypeOK /\ (pc[c] \in Running /\ cmd[c] = "push" => AllValid(base[c], scope[c]))
  BY DEF IInv, PushInv, RunInv, ItemsAreValidated
<1> DEFINE kept(d) == cmd'[d] = cmd[d] /\ scope'[d] = scope[d] /\ base'[d] = base[d]
<1>2. ASSUME kept(c), queue'[c] = queue[c] \/ pc[c] \in Running PROVE StartedValid(c)'
  BY <1>1, <1>2 DEF StartedValid
<1>3. CASE UNCHANGED vars \/ Outside \/ \E d \in Checkouts : User(d)
  <2>1. kept(c) /\ queue'[c] = queue[c]
    BY <1>3 DEF vars, runVars, ghostVars, Outside, OutsideSet, OutsideDelete, OutsideCreate, CountOutside, User, Edit
  <2> QED BY <1>2, <2>1
<1>4. ASSUME NEW d \in Checkouts, Step(d) \/ Fault(d) PROVE StartedValid(c)'
  <2>1. kept(c)
    BY <1>4 DEF Step, Fault, Get, Put, WriteFile, NotFound, Fail, Interrupted, WriteFileTorn, PutAnswerLost, ghostVars
  <2>2. queue'[c] = queue[c] \/ pc[c] \in Running
    <3>1. pc[d] \in Running
      BY <1>4 DEF Step, Fault, Get, Put, WriteFile, NotFound, Fail, WriteFileTorn, PutAnswerLost, Running
    <3>2. ASSUME NEW w, Advance(d, w), d # c PROVE queue'[c] = queue[c]
      BY <1>1, <3>2 DEF TypeOK, Advance
    <3>3. ASSUME NEW w, NEW cfg, AfterRead(d, w, cfg), d # c PROVE queue'[c] = queue[c]
      BY <3>2, <3>3 DEF AfterRead
    <3>4. CASE Fault(d)
      BY <3>4 DEF Fault, Fail, Interrupted, WriteFileTorn, PutAnswerLost
    <3>5. CASE Step(d) /\ d # c
      BY <3>2, <3>3, <3>5 DEF Step, Get, Put, WriteFile, NotFound, Interrupted
    <3> QED BY <1>4, <3>1, <3>4, <3>5
  <2> QED BY <1>2, <2>1, <2>2
<1>5. ASSUME NEW d \in Checkouts, NEW S \in SUBSET Wids, StartPush(d, S) \/ RefusePush(d, S) \/ StartPull(d, S)
      PROVE  StartedValid(c)'
  <2>1. CASE d # c
    <3>1. kept(c) /\ queue'[c] = queue[c]
      BY <1>1, <1>5, <2>1 DEF TypeOK, StartPush, RefusePush, StartPull, Begin
    <3> QED BY <1>2, <3>1
  <2>2. CASE d = c /\ StartPush(c, S)
    <3>1. AllValid(tree[c], S) /\ base'[c] = tree[c] /\ scope'[c] = S
      BY <1>1, <2>2 DEF TypeOK, StartPush, Begin
    <3> QED BY <3>1 DEF StartedValid
  <2>3. CASE d = c /\ RefusePush(c, S)
    BY <1>1, <2>3 DEF TypeOK, RefusePush, Begin, StartedValid
  <2>4. CASE d = c /\ StartPull(c, S)
    BY <1>1, <2>4 DEF TypeOK, StartPull, Begin, StartedValid
  <2> QED BY <1>5, <2>1, <2>2, <2>3, <2>4
<1> QED BY <1>3, <1>4, <1>5 DEF Next, Start

\* What a diff shows of a workspace is what a push at it sends, but for starting_from, and what a push past it
\* has sent.
LEMMA PreviewOfRun ==
    ASSUME IInv, NEW c \in Checkouts, StartedValid(c), cmd[c] = "push", NEW w \in scope[c],
           Read(base[c], w) \notin {NoConfig, ReadError}, touched[c] \cap ({w} \X UseSet) = {}
    PROVE  LET local == Read(base[c], w)
               shown == TreeDiff(local, Settings(server[w]))
           IN /\ w \notin queue[c] => shown = {}
              /\ pc[c] = "put" /\ Least(w, queue[c]) =>
                     /\ shown \subseteq left[c]
                     /\ \A u \in left[c] \ shown : local[u].starting_from # NoTime
<1> DEFINE local == Read(base[c], w)
           shown == TreeDiff(local, Settings(server[w]))
<1>1. /\ TypeOK /\ RunInv(c) /\ w \in Wids /\ base[c] \in Tree /\ server[w] \in [UseSet -> Payload]
      /\ \A u \in UseSet : <<w, u>> \notin touched[c]
  BY DEF IInv, PushInv, TypeOK
<1>2. local \in Config
  BY <1>1, ReadType
<1>3. shown \subseteq Uses(local) /\ Uses(local) \subseteq UseSet
  <2>1. shown \subseteq UseSet /\ local # NoConfig
    BY <1>2, NilAssumption DEF TreeDiff
  <2> HIDE DEF local
  <2> QED BY <1>1, <1>2, <2>1, ShownUse DEF Uses
<1>4. ASSUME w \notin queue[c] PROVE shown = {}
  <2>1. Validate(local)
    BY <1>4 DEF StartedValid, AllValid
  <2>2. \A u \in Uses(local) : InSync(local[u], server[w][u])
    BY <1>1, <1>3, <1>4 DEF RunInv, PastIsDelivered, Delivered, FileUses
  <2> HIDE DEF local
  <2> QED BY <1>1, <1>2, <1>3, <2>1, <2>2, InSyncNotShown
<1>5. ASSUME pc[c] = "put", Least(w, queue[c])
      PROVE  shown \subseteq left[c] /\ \A u \in left[c] \ shown : local[u].starting_from # NoTime
  <2>1. pc[c] \in Running /\ w \in queue[c] /\ got[c] \in Config
    BY <1>1, <1>5 DEF Running, Least, TypeOK
  <2>2. items[c][w] = local /\ Validate(local)
    BY <1>1, <2>1, CurrentItem DEF RunInv
  <2>3. /\ left[c] \subseteq Uses(Changed(local, got[c]))
        /\ \A u \in Uses(local) \ left[c] : InSync(local[u], server[w][u])
    BY <1>1, <1>3, <1>5, <2>1, <2>2 DEF RunInv, SentOrSkipped
  <2>4. \A u \in left[c] : got[c][u] = FromModel(server[w][u])
    BY <1>1, <1>5, <2>1 DEF RunInv, GotIsCurrent, ReadNotSent, TypeOK
  <2> HIDE DEF local
  <2>5. shown \subseteq left[c]
    BY <1>1, <1>2, <1>3, <2>2, <2>3, InSyncNotShown
  <2>6. ASSUME NEW u \in left[c], u \notin shown PROVE local[u].starting_from # NoTime
    <3>1. u \in UseSet /\ Changed(local, got[c])[u] # NoRotation
      BY <1>2, <2>1, <2>3, <2>6, ChangedType, NilAssumption DEF Uses
    <3>2. ChangedRotation(local[u], got[c][u]) # NoRotation
      BY <2>1, <3>1, NilAssumption DEF Changed, OrEmpty
    <3>3. local[u] # NoRotation
      BY <3>2 DEF ChangedRotation
    <3>4. /\ got[c][u] # NoRotation
          /\ local[u].enabled = server[w][u].enabled /\ local[u].cron = server[w][u].cron
      BY <1>1, <1>2, <2>4, <2>6, <3>1, <3>3, ShownUse
    <3>5. got[c][u].enabled = server[w][u].enabled /\ got[c][u].cron = server[w][u].cron
      BY <1>1, <2>4, <2>6, <3>1, <3>4, FromModelType
    <3> QED BY <3>2, <3>4, <3>5 DEF ChangedRotation
  <2> QED BY <2>5, <2>6
<1> QED BY <1>4, <1>5

\* A push sends what a diff shows when it reads the workspace, and past it a diff shows nothing.
THEOREM DiffPreviews == Spec => []DiffPreviewsPush
<1>1. Init => \A c \in Checkouts : StartedValid(c)
  BY DEF Init, StartedValid
<1>2. IInv /\ (\A c \in Checkouts : StartedValid(c)) /\ [Next]_vars => (\A c \in Checkouts : StartedValid(c))'
  BY StartedValidStep
<1>3. IInv /\ (\A c \in Checkouts : StartedValid(c)) => DiffPreviewsPush
  BY PreviewOfRun DEF DiffPreviewsPush
<1> QED BY Invariance, <1>1, <1>2, <1>3, PTL DEF Spec
=============================================================================
