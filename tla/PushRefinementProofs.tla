------------------------ MODULE PushRefinementProofs ------------------------
(***************************************************************************)
(* The push of key rotation implements PushPromise for any number of       *)
(* checkouts, workspaces and directories: each of its steps is a step of   *)
(* the promise or a stutter, by the inductive invariant.                   *)
(***************************************************************************)
EXTENDS PushRefinement, KeyRotationSyncProofs

\* Sets of uses with the same members are equal.
LEMMA SameUses ==
    ASSUME NEW A \in SUBSET EachUse, NEW B \in SUBSET EachUse,
           \A w \in Wids, u \in UseSet : <<w, u>> \in A <=> <<w, u>> \in B
    PROVE  A = B
BY DEF EachUse

\* The members of Todo, now and in the next state.
LEMMA TodoMembers ==
    ASSUME NEW c \in Checkouts
    PROVE  /\ Todo(c) \in SUBSET EachUse /\ Todo(c)' \in SUBSET EachUse
           /\ \A w \in Wids, u \in UseSet :
                /\ <<w, u>> \in Todo(c) <=> Status(c) = "running" /\ Pending(c, w, u)
                /\ <<w, u>> \in Todo(c)' <=> Status(c)' = "running" /\ Pending(c, w, u)'
<1> HIDE DEF Pending, Status
<1> QED BY DEF Todo, EachUse

\* A process that does not move keeps its uses left and its status.
LEMMA HiddenRun ==
    ASSUME NEW c \in Checkouts, SameRun(c)
    PROVE  Todo(c)' = Todo(c) /\ Status(c)' = Status(c) /\ Pushing(c)' = Pushing(c)
<1>1. Status(c)' = Status(c) /\ Pushing(c)' = Pushing(c)
  BY DEF Status, Pushing, SameRun
<1>2. \A w, u : Pending(c, w, u)' <=> Pending(c, w, u)
  BY DEF Pending, SameRun
<1> QED BY <1>1, <1>2, TodoMembers, SameUses

\* When only c moves, the state of the promise changes at c only.
LEMMA MovedRun ==
    ASSUME NEW c \in Checkouts, \A d \in Checkouts \ {c} : SameRun(d)
    PROVE  /\ Todos' = [Todos EXCEPT ![c] = Todo(c)']
           /\ Statuses' = [Statuses EXCEPT ![c] = Status(c)']
<1>1. \A d \in Checkouts \ {c} : Todo(d)' = Todo(d) /\ Status(d)' = Status(d)
  BY HiddenRun
<1> HIDE DEF Todo, Status
<1> QED BY <1>1 DEF Todos, Statuses

\* A queued workspace of a running push has a use to push.
LEMMA QueuedUse ==
    ASSUME IInv, NEW c \in Checkouts, Status(c) = "running", NEW w \in queue[c]
    PROVE  /\ w \in Wids /\ items[c][w] \in Config /\ items[c][w] # NoConfig
           /\ \E u \in UseSet : u \in Uses(items[c][w])
<1>1. TypeOK /\ RunInv(c) /\ pc[c] \in Running /\ cmd[c] = "push"
  BY DEF IInv, PushInv, Status, Pushing
<1>2. w \in Wids /\ items[c][w] \in Config /\ items[c][w] = Read(base[c], w)
  BY <1>1, CurrentItem DEF RunInv
<1>3. Uses(items[c][w]) # {}
  BY <1>1, <1>2, ReadType DEF TypeOK
<1> QED BY <1>2, <1>3, NilAssumption DEF Uses

-----------------------------------------------------------------------------
\* The initial states of the push are initial states of the promise.
THEOREM PromiseInit == Init => Promise!Init
<1> SUFFICES ASSUME Init PROVE Promise!Init
  OBVIOUS
<1>1. \A c \in Checkouts : Status(c) = "idle" /\ ~Pushing(c)
  BY DEF Init, Status, Pushing
<1>2. \A c \in Checkouts : Todo(c) = {}
  BY <1>1 DEF Todo
<1> HIDE DEF Todo, Status
<1> QED BY <1>1, <1>2 DEF Init, Promise!Init, Todos, Statuses, Touches

-----------------------------------------------------------------------------
\* The mapped state has the shape of the promise's variables.
LEMMA MovedTouches ==
    ASSUME NEW c \in Checkouts, \A d \in Checkouts \ {c} : SameRun(d) /\ touched'[d] = touched[d]
    PROVE  Touches' = [Touches EXCEPT ![c] = IF Pushing(c)' THEN touched'[c] ELSE {}]
<1>1. \A d \in Checkouts \ {c} : Pushing(d)' = Pushing(d) /\ touched'[d] = touched[d]
  BY HiddenRun
<1> HIDE DEF Pushing
<1> QED BY <1>1 DEF Touches

\* A push that starts is a start of the promise.
LEMMA StartPushKeeps ==
    ASSUME IInv, NEW c \in Checkouts, NEW S \in SUBSET Wids, StartPush(c, S)
    PROVE  Promise!Start(c)
<1> DEFINE read == ReadAll(tree[c], S)
           queued == {w \in S : read[w] # NoConfig}
<1>1. TypeOK /\ tree[c] \in Tree /\ AllValid(tree[c], S)
  BY DEF IInv, TypeOK, StartPush
<1>2. read \in [Wids -> Config \cup {NoConfig}]
  BY <1>1, ReadAllType
<1>3. /\ pc[c] \in Ended /\ cmd'[c] = "push" /\ touched' = [touched EXCEPT ![c] = {}] /\ touched'[c] = {}
      /\ items' = [items EXCEPT ![c] = read] /\ items'[c] = read
      /\ queue'[c] = queued /\ pc'[c] = IF queued = {} THEN "done" ELSE "get"
      /\ UNCHANGED <<server, present>>
  BY <1>1 DEF StartPush, Begin, TypeOK, serverVars
<1>4. \A d \in Checkouts \ {c} : SameRun(d) /\ touched'[d] = touched[d]
  BY <1>1 DEF StartPush, Begin, SameRun, TypeOK
<1>5. Pushing(c)' /\ Status(c)' = (IF queued = {} THEN "done" ELSE "running") /\ Status(c) # "running"
  BY <1>3 DEF Pushing, Status, Running, Ended
<1>6. ASSUME NEW w \in Wids PROVE w \in queued <=> \E u \in UseSet : <<w, u>> \in Promise!Configured(read)
  <2> HIDE DEF read
  <2>1. w \in queued => w \in S /\ read[w] \in Config
    BY <1>2
  <2>2. w \in S => read[w] = Read(tree[c], w)
    BY DEF read, ReadAll
  <2>3. w \notin S => read[w] = NoConfig
    BY DEF read, ReadAll
  <2>4. w \in queued => \E u \in UseSet : u \in Uses(read[w])
    BY <1>1, <2>1, <2>2, ReadType DEF Uses
  <2> QED BY <2>1, <2>3, <2>4 DEF Promise!Configured, Uses
<1>7. Todo(c)' = Promise!Configured(read)
  <2> HIDE DEF read
  <2>1. Promise!Configured(read) \in SUBSET EachUse
    BY DEF Promise!Configured, EachUse
  <2>2. ASSUME NEW w \in Wids, NEW u \in UseSet
        PROVE  <<w, u>> \in Todo(c)' <=> <<w, u>> \in Promise!Configured(read)
    <3>1. <<w, u>> \in Promise!Configured(read) <=> read[w] # NoConfig /\ read[w][u] # NoRotation
      BY DEF Promise!Configured
    <3>2. <<w, u>> \in Todo(c)' <=> queued # {} /\ w \in queued /\ u \in Uses(read[w])
      BY <1>3, <1>5, TodoMembers DEF Pending
    <3>3. w \in queued <=> read[w] # NoConfig
      BY <1>6, <3>1 DEF read, ReadAll
    <3> QED BY <3>1, <3>2, <3>3 DEF Uses
  <2> QED BY <2>1, <2>2, TodoMembers, SameUses
<1>8. queued = {} <=> Promise!Configured(read) = {}
  <2> HIDE DEF read
  <2>1. \A p \in Promise!Configured(read) : p[1] \in Wids /\ p[2] \in UseSet /\ p = <<p[1], p[2]>>
    BY DEF Promise!Configured
  <2>2. \A w \in queued : w \in Wids
    OBVIOUS
  <2> HIDE DEF queued
  <2> QED BY <1>6, <2>1, <2>2
<1>9. /\ Todos' = [Todos EXCEPT ![c] = Promise!Configured(read)]
      /\ Statuses' = [Statuses EXCEPT ![c] = IF Promise!Configured(read) = {} THEN "done" ELSE "running"]
      /\ Touches' = [Touches EXCEPT ![c] = {}]
  BY <1>3, <1>4, <1>5, <1>7, <1>8, MovedRun, MovedTouches
<1>10. Statuses[c] # "running"
  BY <1>5 DEF Statuses
<1> HIDE DEF read, queued
<1> QED BY <1>2, <1>3, <1>9, <1>10 DEF Promise!Start, Promise!Leave

\* A push that is refused and a pull that starts leave the promise nothing to do.
LEMMA ResetKeeps ==
    ASSUME IInv, NEW c \in Checkouts, NEW S \in SUBSET Wids, RefusePush(c, S) \/ StartPull(c, S)
    PROVE  Promise!Reset(c)
<1>1. TypeOK
  BY DEF IInv
<1>2. /\ pc[c] \in Ended /\ touched'[c] = {}
      /\ items' = [items EXCEPT ![c] = [w \in Wids |-> NoConfig]]
      /\ (cmd'[c] = "push" /\ pc'[c] = "failed") \/ cmd'[c] = "pull"
      /\ UNCHANGED <<server, present>>
  BY <1>1 DEF RefusePush, StartPull, Begin, TypeOK, serverVars
<1>3. \A d \in Checkouts \ {c} : SameRun(d) /\ touched'[d] = touched[d]
  BY <1>1 DEF RefusePush, StartPull, Begin, SameRun, TypeOK
<1>4. Status(c)' \in {"idle", "failed"} /\ Status(c) # "running"
  BY <1>2 DEF Status, Pushing, Running, Ended
<1>5. Todo(c)' = {}
  BY <1>4 DEF Todo
<1>6. /\ Todos' = [Todos EXCEPT ![c] = {}]
      /\ Statuses' = [Statuses EXCEPT ![c] = Status(c)']
      /\ Touches' = [Touches EXCEPT ![c] = {}]
  BY <1>2, <1>3, <1>5, MovedRun, MovedTouches
<1>7. Statuses[c] # "running"
  BY <1>4 DEF Statuses
<1> QED BY <1>2, <1>4, <1>6, <1>7 DEF Promise!Reset

-----------------------------------------------------------------------------
\* Both GETs of a workspace settle what the push will not send; a GET before, and a pull's, are hidden.
LEMMA GetKeeps ==
    ASSUME IInv, NEW c \in Checkouts, NEW w \in Wids, NEW u \in UseSet, Get(c, w, u)
    PROVE  Promise!Settle(c) \/ UNCHANGED Promise!vars
<1>1. /\ TypeOK /\ RunInv(c) /\ pc[c] = "get" /\ pc[c] \in Running
      /\ w \in queue[c] /\ Least(w, queue[c])
  BY DEF IInv, PushInv, Get, Least, Running
<1>2. UNCHANGED <<server, present, cmd, items, touched>>
  BY DEF Get, serverVars, ghostVars
<1>3. \A d \in Checkouts \ {c} : SameRun(d)
  BY <1>1 DEF Get, AfterRead, Advance, SameRun, TypeOK, ghostVars
<1>4. /\ Todos' = [Todos EXCEPT ![c] = Todo(c)']
      /\ Statuses' = [Statuses EXCEPT ![c] = Status(c)']
      /\ Touches' = Touches
  BY <1>2, <1>3, MovedRun DEF Touches, Pushing
<1>5. ASSUME Todo(c)' = Todo(c), Status(c)' = Status(c) PROVE UNCHANGED Promise!vars
  <2> HIDE DEF Todo, Status
  <2>1. Todos' = Todos /\ Statuses' = Statuses
    BY <1>4, <1>5 DEF Todos, Statuses
  <2> QED BY <2>1, <1>2, <1>4 DEF Promise!vars
<1>6. CASE cmd[c] # "push"
  <2>1. Status(c)' = "idle" /\ Status(c) = "idle"
    BY <1>2, <1>6 DEF Status, Pushing
  <2>2. Todo(c)' = {} /\ Todo(c) = {}
    BY <2>1 DEF Todo
  <2> QED BY <1>5, <2>1, <2>2
<1>7. CASE cmd[c] = "push" /\ left[c] # {u}
  <2>1. UNCHANGED <<pc, queue>>
    BY <1>7 DEF Get
  <2>2. Status(c)' = Status(c)
    BY <1>2, <2>1 DEF Status, Pushing
  <2>3. \A v, x : Pending(c, v, x)' <=> Pending(c, v, x)
    BY <1>1, <1>2, <2>1 DEF Pending
  <2>4. Todo(c)' = Todo(c)
    BY <2>2, <2>3, TodoMembers, SameUses
  <2> QED BY <1>5, <2>2, <2>4
<1>8. CASE cmd[c] = "push" /\ left[c] = {u}
  <2> DEFINE cfg == ReadUse(c, w, u)
             plan == Uses(Changed(items[c][w], cfg))
             S == {p \in Todo(c) : p[1] = w /\ p[2] \notin plan}
  <2>1. AfterRead(c, w, cfg) /\ Status(c) = "running"
    BY <1>1, <1>8 DEF Get, Status, Pushing
  <2>2. /\ cfg \in Config
        /\ \A v \in UseSet : <<w, v>> \in touched[c] \/ cfg[v] = FromModel(server[w][v])
    BY <1>8, GotAfterGet
  <2>3. \A x \in Uses(items[c][w]) \ plan :
            <<w, x>> \in touched[c] \/ InSync(items[c][w][x], server[w][x])
    BY <1>1, <1>8, <2>2, PlanSkips
  <2>4. items[c][w] \in Config /\ plan \subseteq Uses(items[c][w]) /\ plan \subseteq UseSet
    <3>1. items[c][w] \in Config
      BY <1>1, <1>8, CurrentItem DEF RunInv
    <3> QED BY <2>2, <3>1, ChangedType DEF Uses
  <2>5. IF plan = {}
        THEN queue'[c] = queue[c] \ {w} /\ pc'[c] = IF queue[c] = {w} THEN "done" ELSE "get"
        ELSE queue'[c] = queue[c] /\ pc'[c] = "put" /\ left'[c] = plan
    BY <1>1, <1>8, <2>1 DEF AfterRead, Advance, TypeOK
  <2> HIDE DEF plan
  <2>6. Status(c)' = IF plan = {} /\ queue[c] = {w} THEN "done" ELSE "running"
    BY <1>2, <1>8, <2>5 DEF Status, Pushing, Running
  <2>7. \A v \in Wids, x \in UseSet :
            <<v, x>> \in Todo(c) <=> v \in queue[c] /\ x \in Uses(items[c][v])
    BY <1>1, <2>1, TodoMembers DEF Pending
  <2>8. \A v \in queue[c] : v \in Wids /\ (Least(v, queue[c]) => v = w)
    BY <1>1, WidsAssumption DEF Least, TypeOK
  <2>9. ASSUME NEW v \in Wids, NEW x \in UseSet
        PROVE  <<v, x>> \in Todo(c)' <=> <<v, x>> \in Todo(c) \ S
    <3>1. <<v, x>> \in Todo(c) \ S <=> <<v, x>> \in Todo(c) /\ (v = w => x \in plan)
      BY DEF S
    <3>2. CASE plan = {}
      <4>1. <<v, x>> \in Todo(c)' <=> queue[c] # {w} /\ v \in queue[c] \ {w} /\ x \in Uses(items[c][v])
        BY <1>2, <2>5, <2>6, <3>2, TodoMembers DEF Pending
      <4> QED BY <2>7, <3>1, <3>2, <4>1
    <3>3. CASE plan # {}
      <4>1. <<v, x>> \in Todo(c)' <=> /\ v \in queue[c] /\ x \in Uses(items[c][v])
                                      /\ Least(v, queue[c]) => x \in plan
        BY <1>2, <2>5, <2>6, <3>3, TodoMembers DEF Pending
      <4> QED BY <1>1, <2>7, <2>8, <3>1, <4>1
    <3> QED BY <3>2, <3>3
  <2>10. Todo(c)' = Todo(c) \ S
    <3>1. Todo(c) \ S \in SUBSET EachUse
      BY TodoMembers
    <3>2. Todo(c)' \in SUBSET EachUse
      BY TodoMembers
    <3> DEFINE rest == Todo(c) \ S
    <3>3. \A v \in Wids, x \in UseSet : <<v, x>> \in Todo(c)' <=> <<v, x>> \in rest
      BY <2>9
    <3>4. rest \in SUBSET EachUse
      BY <3>1
    <3>5. Todo(c)' = rest
      <4> HIDE DEF rest, Todo
      <4> QED BY <3>2, <3>3, <3>4, SameUses
    <3> QED BY <3>5
  <2>11. Status(c)' = IF Todo(c)' = {} THEN "done" ELSE "running"
    <3>1. CASE plan = {} /\ queue[c] = {w}
      BY <2>6, <3>1 DEF Todo
    <3>2. CASE plan # {}
      <4>1. PICK x \in UseSet : x \in plan
        BY <2>4, <3>2
      <4>2. <<w, x>> \in Todo(c)'
        BY <1>1, <2>4, <2>7, <2>10, <4>1
      <4> QED BY <2>6, <3>2, <4>2
    <3>3. CASE plan = {} /\ queue[c] # {w}
      <4>1. PICK v \in queue[c] : v # w
        BY <1>1, <3>3
      <4>2. PICK x \in UseSet : x \in Uses(items[c][v])
        BY <2>1, <4>1, QueuedUse
      <4>3. <<v, x>> \in Todo(c)'
        BY <2>7, <2>8, <2>10, <4>1, <4>2
      <4> QED BY <2>6, <3>3, <4>3
    <3> QED BY <3>1, <3>2, <3>3
  <2>12. ASSUME NEW v \in Wids, NEW x \in UseSet, <<v, x>> \in S
         PROVE  <<v, x>> \in Touches[c] \/ Promise!InSync(items[c][v][x], server[v][x])
    <3>1. v = w /\ x \in Uses(items[c][w]) \ plan
      BY <2>7, <2>12
    <3> QED BY <1>8, <2>3, <3>1 DEF Touches, Pushing, Promise!InSync, InSync
  <2>13. S \in SUBSET Todo(c)
    OBVIOUS
  <2>14. Todos[c] = Todo(c) /\ Statuses[c] = "running"
    BY <2>1 DEF Todos, Statuses
  <2> HIDE DEF S, Todo, Status
  <2>15. Promise!Leave(c, Todos[c] \ S)
    BY <1>4, <2>10, <2>11, <2>14 DEF Promise!Leave
  <2> QED BY <1>2, <1>4, <2>12, <2>13, <2>14, <2>15 DEF Promise!Settle
<1> QED BY <1>6, <1>7, <1>8

-----------------------------------------------------------------------------
\* What the PUT of a use does to the server, and to the runs other than the one that sends it, is what
\* the promise says.
LEMMA PutSends ==
    ASSUME IInv, NEW c \in Checkouts, NEW w \in Wids, NEW u \in UseSet,
           pc[c] = "put", Least(w, queue[c]), FirstUse(u, left[c]), w \in present,
           SetUse(w, u, Sent(c, w, u)), Touch({<<w, u>>}, {c}),
           UNCHANGED <<present, cmd, items>>
    PROVE  Promise!Send(c, w, u) /\ Status(c) = "running" /\ <<w, u>> \in Todo(c)
<1>1. TypeOK /\ RunInv(c) /\ w \in queue[c] /\ u \in left[c]
  BY DEF IInv, PushInv, Least, FirstUse
<1>2. /\ cmd[c] = "push" /\ u \in Uses(items[c][w])
      /\ Sent(c, w, u) = ToModel(items[c][w][u])
  BY <1>1, SentIsFile
<1>3. Status(c) = "running"
  BY <1>2 DEF Status, Pushing, Running
<1>4. items[c][w][u] \in Rotation
  <2>1. items[c][w] \in Config /\ Validate(items[c][w])
    BY <1>1, <1>2, CurrentItem DEF RunInv, Running
  <2> QED BY <1>2, <2>1, SentType
<1>5. Sent(c, w, u) = items[c][w][u]
  BY <1>2, <1>4 DEF ToModel, Rotation
<1>6. \A v \in Wids, x \in UseSet :
          <<v, x>> \in Todo(c) <=>
              v \in queue[c] /\ x \in Uses(items[c][v]) /\ (Least(v, queue[c]) => x \in left[c])
  BY <1>3, TodoMembers DEF Pending
<1>7. Promise!First(w, u, Todo(c))
  <2>1. <<w, u>> \in Todo(c)
    BY <1>1, <1>2, <1>6
  <2>2. ASSUME NEW v \in Wids, NEW x \in UseSet, <<v, x>> \in Todo(c)
        PROVE  w < v \/ (w = v /\ (x = "sig" => u = "sig"))
    <3>1. v \in queue[c] /\ (Least(v, queue[c]) => x \in left[c])
      BY <1>6, <2>2
    <3>2. w <= v /\ w \in Nat /\ v \in Nat
      BY <3>1, WidsAssumption DEF Least
    <3>3. CASE w = v
      BY <3>1, <3>3 DEF FirstUse
    <3> QED BY <3>2, <3>3
  <2> QED BY <2>1, <2>2 DEF Promise!First
<1>8. server' = [server EXCEPT ![w][u] = items[c][w][u]]
  BY <1>5 DEF SetUse
<1>9. Touches' = [d \in Checkouts |-> IF d = c \/ Statuses[d] = "idle" THEN Touches[d]
                                      ELSE Touches[d] \cup {<<w, u>>}]
  <2>1. \A d \in Checkouts : touched'[d] = IF d = c THEN touched[d] ELSE touched[d] \cup {<<w, u>>}
    BY DEF Touch
  <2>2. \A d \in Checkouts : Pushing(d)' = Pushing(d) /\ (Statuses[d] = "idle" <=> ~Pushing(d))
    BY DEF Pushing, Status, Statuses
  <2> HIDE DEF Pushing
  <2> QED BY <2>1, <2>2 DEF Touches
<1>10. Todos[c] = Todo(c) /\ Statuses[c] = "running"
  BY <1>3 DEF Todos, Statuses
<1>11. <<w, u>> \in Todo(c)
  BY <1>1, <1>2, <1>6
<1> HIDE DEF Todo, Status
<1> QED BY <1>3, <1>7, <1>8, <1>9, <1>10, <1>11 DEF Promise!Send

\* A PUT sets the first use left.
LEMMA PutKeepsPromise ==
    ASSUME IInv, NEW c \in Checkouts, NEW w \in Wids, NEW u \in UseSet, Put(c, w, u)
    PROVE  Promise!Set(c, w, u)
<1>1. /\ TypeOK /\ RunInv(c) /\ pc[c] = "put" /\ w \in queue[c] /\ Least(w, queue[c])
      /\ FirstUse(u, left[c]) /\ u \in left[c]
      /\ UNCHANGED <<cmd, items>>
  BY DEF IInv, PushInv, Put, Least, FirstUse
<1>2. Promise!Send(c, w, u) /\ Status(c) = "running" /\ <<w, u>> \in Todo(c)
  BY <1>1, PutSends DEF Put
<1>3. cmd[c] = "push" /\ left[c] \subseteq Uses(items[c][w])
  <2>1. cmd[c] = "push" /\ left[c] \subseteq Uses(Changed(items[c][w], got[c])) /\ got[c] \in Config
    BY <1>1 DEF RunInv, SentOrSkipped, TypeOK
  <2>2. items[c][w] \in Config
    BY <1>1, <2>1, CurrentItem DEF RunInv, Running
  <2> QED BY <2>1, <2>2, ChangedType
<1>4. \A d \in Checkouts \ {c} : SameRun(d)
  BY <1>1 DEF Put, Advance, SameRun, TypeOK
<1>5. /\ Todos' = [Todos EXCEPT ![c] = Todo(c)']
      /\ Statuses' = [Statuses EXCEPT ![c] = Status(c)']
  BY <1>4, MovedRun
<1>6. \A v \in Wids, x \in UseSet :
          <<v, x>> \in Todo(c) <=>
              v \in queue[c] /\ x \in Uses(items[c][v]) /\ (v = w => x \in left[c])
  <2>1. \A v \in queue[c] : Least(v, queue[c]) <=> v = w
    BY <1>1, WidsAssumption DEF Least, TypeOK
  <2> QED BY <1>1, <1>2, <2>1, TodoMembers DEF Pending
<1>7. CASE left[c] = {u}
  <2>1. queue'[c] = queue[c] \ {w} /\ pc'[c] = IF queue[c] = {w} THEN "done" ELSE "get"
    BY <1>1, <1>7 DEF Put, Advance, TypeOK
  <2>2. Status(c)' = IF queue[c] = {w} THEN "done" ELSE "running"
    BY <1>1, <1>3, <2>1 DEF Status, Pushing, Running
  <2>3. \A v \in Wids, x \in UseSet :
            <<v, x>> \in Todo(c)' <=> queue[c] # {w} /\ v \in queue[c] \ {w} /\ x \in Uses(items[c][v])
    BY <1>1, <2>1, <2>2, TodoMembers DEF Pending
  <2>4. Todo(c)' = Todo(c) \ {<<w, u>>}
    <3>1. \A v \in Wids, x \in UseSet : <<v, x>> \in Todo(c)' <=> <<v, x>> \in Todo(c) \ {<<w, u>>}
      BY <1>1, <1>3, <1>6, <1>7, <2>3
    <3>2. Todo(c) \ {<<w, u>>} \in SUBSET EachUse
      BY TodoMembers
    <3> QED BY <3>1, <3>2, TodoMembers, SameUses
  <2>5. Status(c)' = IF Todo(c)' = {} THEN "done" ELSE "running"
    <3>1. CASE queue[c] = {w}
      BY <2>2, <3>1 DEF Todo
    <3>2. CASE queue[c] # {w}
      <4>1. PICK v \in queue[c] : v # w
        BY <1>1, <3>2
      <4>2. PICK x \in UseSet : x \in Uses(items[c][v])
        BY <1>2, <4>1, QueuedUse
      <4>3. <<v, x>> \in Todo(c)'
        BY <1>2, <2>3, <3>2, <4>1, <4>2, QueuedUse
      <4> QED BY <2>2, <3>2, <4>3
    <3> QED BY <3>1, <3>2
  <2>6. Todos[c] = Todo(c)
    BY DEF Todos
  <2> HIDE DEF Todo, Status
  <2> QED BY <1>2, <1>5, <2>4, <2>5, <2>6 DEF Promise!Set, Promise!Leave
<1>8. CASE left[c] # {u}
  <2>1. left'[c] = left[c] \ {u} /\ UNCHANGED <<pc, queue>>
    BY <1>1, <1>8 DEF Put, TypeOK
  <2>2. Status(c)' = "running"
    BY <1>1, <1>2, <2>1 DEF Status, Pushing
  <2>3. \A v \in Wids, x \in UseSet :
            <<v, x>> \in Todo(c)' <=>
                v \in queue[c] /\ x \in Uses(items[c][v]) /\ (v = w => x \in left[c] \ {u})
    <3>1. \A v \in queue[c] : Least(v, queue[c]) <=> v = w
      BY <1>1, WidsAssumption DEF Least, TypeOK
    <3> QED BY <1>1, <2>1, <2>2, <3>1, TodoMembers DEF Pending
  <2>4. Todo(c)' = Todo(c) \ {<<w, u>>}
    <3>1. \A v \in Wids, x \in UseSet : <<v, x>> \in Todo(c)' <=> <<v, x>> \in Todo(c) \ {<<w, u>>}
      BY <1>6, <2>3
    <3>2. Todo(c) \ {<<w, u>>} \in SUBSET EachUse
      BY TodoMembers
    <3> QED BY <3>1, <3>2, TodoMembers, SameUses
  <2>5. Todo(c)' # {}
    <3>1. PICK x \in left[c] : x # u
      BY <1>1, <1>8
    <3>2. x \in UseSet
      BY <1>1 DEF TypeOK
    <3>3. <<w, x>> \in Todo(c)'
      BY <1>1, <1>3, <2>3, <3>1, <3>2
    <3> QED BY <3>3
  <2>6. Todos[c] = Todo(c)
    BY DEF Todos
  <2> HIDE DEF Todo, Status
  <2> QED BY <1>2, <1>5, <2>2, <2>4, <2>5, <2>6 DEF Promise!Set, Promise!Leave
<1> QED BY <1>7, <1>8

\* A PUT whose answer is lost sets the first use left and ends the run.
LEMMA PutAnswerLostKeeps ==
    ASSUME IInv, NEW c \in Checkouts, NEW w \in Wids, NEW u \in UseSet, PutAnswerLost(c, w, u)
    PROVE  Promise!SetAndFail(c, w, u)
<1>1. /\ TypeOK /\ pc[c] = "put" /\ Least(w, queue[c]) /\ FirstUse(u, left[c])
      /\ UNCHANGED <<cmd, items>>
  BY DEF IInv, PutAnswerLost
<1>2. Promise!Send(c, w, u) /\ Status(c) = "running"
  BY <1>1, PutSends DEF PutAnswerLost
<1>3. \A d \in Checkouts \ {c} : SameRun(d)
  BY <1>1 DEF PutAnswerLost, Stop, SameRun, TypeOK
<1>4. Status(c)' = "failed"
  BY <1>1, <1>2 DEF PutAnswerLost, Stop, Status, Pushing, TypeOK, Running
<1>5. Todo(c)' = {}
  BY <1>4 DEF Todo
<1> HIDE DEF Todo, Status
<1>6. Promise!Fail(c)
  BY <1>3, <1>4, <1>5, MovedRun DEF Promise!Fail
<1> QED BY <1>2, <1>6 DEF Promise!SetAndFail

\* A push that fails stops; what happens to a pull is hidden.
LEMMA StopKeeps ==
    ASSUME IInv, NEW c \in Checkouts, pc[c] \in Running, Stop(c), Interrupted
    PROVE  Promise!Stop(c) \/ UNCHANGED Promise!vars
<1>1. TypeOK /\ UNCHANGED <<server, present, cmd, items, touched>> /\ pc'[c] = "failed"
  BY DEF IInv, TypeOK, Stop, Interrupted, serverVars, ghostVars
<1>2. \A d \in Checkouts \ {c} : SameRun(d)
  BY <1>1 DEF Stop, Interrupted, SameRun, TypeOK, ghostVars
<1>3. Touches' = Touches
  BY <1>1 DEF Touches, Pushing
<1>4. CASE Pushing(c)
  <2>1. Status(c) = "running" /\ Status(c)' = "failed"
    BY <1>1, <1>4 DEF Status, Pushing, Running
  <2>2. Todo(c)' = {} /\ Statuses[c] = "running"
    BY <2>1 DEF Todo, Statuses
  <2> HIDE DEF Todo, Status
  <2> QED BY <1>1, <1>2, <1>3, <2>1, <2>2, MovedRun DEF Promise!Stop, Promise!Fail
<1>5. CASE ~Pushing(c)
  <2>1. Status(c) = "idle" /\ Status(c)' = "idle"
    BY <1>1, <1>5 DEF Status, Pushing
  <2>2. Todo(c) = {} /\ Todo(c)' = {}
    BY <2>1 DEF Todo
  <2> HIDE DEF Todo, Status
  <2>3. Todos' = Todos /\ Statuses' = Statuses
    BY <1>2, <2>1, <2>2, MovedRun DEF Todos, Statuses
  <2> QED BY <1>1, <1>3, <2>3 DEF Promise!vars
<1> QED BY <1>4, <1>5

\* A file written, whole or not, is a pull's: it is hidden.
LEMMA WriteKeeps ==
    ASSUME IInv, NEW c \in Checkouts, NEW w \in Wids, WriteFile(c, w) \/ WriteFileTorn(c, w)
    PROVE  UNCHANGED Promise!vars
<1>1. /\ TypeOK /\ UNCHANGED <<server, present, cmd, items, touched>>
  BY DEF IInv, WriteFile, WriteFileTorn, serverVars, ghostVars
<1>2. ~Pushing(c)
  <2>1. pc[c] = "write" => cmd[c] # "push"
    BY DEF IInv, PushInv, RunInv, GotIsCurrent
  <2> QED BY <2>1 DEF WriteFile, WriteFileTorn, Pushing
<1>3. \A d \in Checkouts \ {c} : SameRun(d)
  BY <1>1 DEF WriteFile, WriteFileTorn, Advance, Stop, SameRun, TypeOK, ghostVars
<1>4. Touches' = Touches
  BY <1>1 DEF Touches, Pushing
<1>5. Status(c) = "idle" /\ Status(c)' = "idle"
  BY <1>1, <1>2 DEF Status, Pushing
<1>6. Todo(c) = {} /\ Todo(c)' = {}
  BY <1>5 DEF Todo
<1> HIDE DEF Todo, Status
<1>7. Todos' = Todos /\ Statuses' = Statuses
  BY <1>3, <1>5, <1>6, MovedRun DEF Todos, Statuses
<1> QED BY <1>1, <1>4, <1>7 DEF Promise!vars

\* When no process moves, neither does the promise.
LEMMA StillRuns ==
    ASSUME \A c \in Checkouts : SameRun(c)
    PROVE  Todos' = Todos /\ Statuses' = Statuses
<1>1. \A c \in Checkouts : Todo(c)' = Todo(c) /\ Status(c)' = Status(c)
  BY HiddenRun
<1> HIDE DEF Todo, Status
<1> QED BY <1>1 DEF Todos, Statuses

\* A user's edit is hidden, and so is a stutter.
LEMMA EditKeeps ==
    ASSUME UNCHANGED <<serverVars, runVars, base, touched>>
    PROVE  UNCHANGED Promise!vars
<1>1. UNCHANGED <<server, present, items, cmd, touched>> /\ \A c \in Checkouts : SameRun(c)
  BY DEF serverVars, runVars, SameRun
<1>2. Touches' = Touches
  BY <1>1 DEF Touches, Pushing
<1> QED BY <1>1, <1>2, StillRuns DEF Promise!vars

\* A change by another administrator is one of the promise.
LEMMA OutsideKeeps ==
    ASSUME IInv, NEW pairs \in SUBSET EachUse, Touch(pairs, {}), CountOutside,
           \A v \in Wids, u \in UseSet : <<v, u>> \in pairs \/ server'[v][u] = server[v][u]
    PROVE  Promise!Outside
<1>1. UNCHANGED <<items, cmd>> /\ \A c \in Checkouts : SameRun(c)
  BY DEF CountOutside, runVars, SameRun
<1>2. \A c \in Checkouts : touched'[c] = touched[c] \cup pairs
  BY DEF Touch
<1>3. Touches' = [d \in Checkouts |-> IF Statuses[d] = "idle" THEN Touches[d] ELSE Touches[d] \cup pairs]
  <2>1. \A d \in Checkouts : Pushing(d)' = Pushing(d) /\ (Statuses[d] = "idle" <=> ~Pushing(d))
    BY <1>1 DEF Pushing, Status, Statuses
  <2> HIDE DEF Pushing
  <2> QED BY <1>2, <2>1 DEF Touches
<1> QED BY <1>1, <1>3, StillRuns DEF Promise!Outside, EachUse

\* Every step of the pull, the push, a fault, a user or another administrator is one of the promise or
\* is hidden.
THEOREM PromiseNext == IInv /\ [Next]_vars => [Promise!Next]_(Promise!vars)
<1> SUFFICES ASSUME IInv, [Next]_vars PROVE Promise!Next \/ UNCHANGED Promise!vars
  OBVIOUS
<1> USE DEF Promise!Next
<1>1. ASSUME NEW c \in Checkouts, Start(c) PROVE Promise!Next
  <2>1. PICK S \in SUBSET Wids : StartPush(c, S) \/ RefusePush(c, S) \/ StartPull(c, S)
    BY <1>1 DEF Start
  <2> QED BY <2>1, StartPushKeeps, ResetKeeps
<1>2. ASSUME NEW c \in Checkouts, Step(c) PROVE Promise!Next \/ UNCHANGED Promise!vars
  <2>1. ASSUME NEW w \in Wids, NotFound(c, w) PROVE Promise!Next \/ UNCHANGED Promise!vars
    <3>1. pc[c] \in Running /\ Stop(c) /\ Interrupted
      BY <2>1 DEF NotFound, Running
    <3> QED BY <3>1, StopKeeps
  <2> QED BY <1>2, <2>1, WriteKeeps, GetKeeps, PutKeepsPromise DEF Step
<1>3. ASSUME NEW c \in Checkouts, Fault(c) PROVE Promise!Next \/ UNCHANGED Promise!vars
  BY <1>3, StopKeeps, WriteKeeps, PutAnswerLostKeeps DEF Fault, Fail
<1>4. ASSUME NEW c \in Checkouts, User(c) PROVE UNCHANGED Promise!vars
  BY <1>4, EditKeeps DEF User, Edit
<1>5. ASSUME Outside PROVE Promise!Outside
  <2>1. ASSUME NEW w \in Wids, Unconfigure(w), Touch({w} \X UseSet, {}), CountOutside
        PROVE  Promise!Outside
    <3>1. {w} \X UseSet \in SUBSET EachUse
      BY DEF EachUse
    <3>2. \A v \in Wids, u \in UseSet : <<v, u>> \in {w} \X UseSet \/ server'[v][u] = server[v][u]
      BY <2>1 DEF Unconfigure, IInv, TypeOK
    <3> QED BY <2>1, <3>1, <3>2, OutsideKeeps
  <2>2. ASSUME NEW w \in Wids, NEW u \in UseSet, NEW p \in OutsidePayloads, OutsideSet(w, u, p)
        PROVE  Promise!Outside
    <3>1. {<<w, u>>} \in SUBSET EachUse
      BY DEF EachUse
    <3>2. \A v \in Wids, x \in UseSet : <<v, x>> \in {<<w, u>>} \/ server'[v][x] = server[v][x]
      BY <2>2 DEF OutsideSet, SetUse, IInv, TypeOK
    <3> QED BY <2>2, <3>1, <3>2, OutsideKeeps DEF OutsideSet
  <2> QED BY <1>5, <2>1, <2>2 DEF Outside, OutsideDelete, OutsideCreate
<1>6. CASE UNCHANGED vars
  BY <1>6, EditKeeps DEF vars, ghostVars
<1> QED BY <1>1, <1>2, <1>3, <1>4, <1>5, <1>6 DEF Next

\* The push of key rotation keeps its promise, whatever it reads, skips, races with or leaves undone.
THEOREM PushRefines == Spec => PushKeepsItsPromise
BY PromiseInit, PromiseNext, Invariance, PTL DEF Spec, PushKeepsItsPromise, Promise!Spec
=============================================================================
