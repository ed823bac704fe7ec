-------------------------- MODULE CommandRunProofs --------------------------
(***************************************************************************)
(* What a run of push or pull guarantees for any number of workspaces,     *)
(* runs and edits and every set of flags and contents.                     *)
(***************************************************************************)
EXTENDS CommandRun, TLAPS

\* The configuration a run reads from the files is well typed when they can be read.
LEMMA ReadFilesType ==
    ASSUME NEW f \in Flags, NEW cfgs \in [Wids -> LocalCfg], Readable(f, cfgs)
    PROVE  ReadFiles(f, cfgs) \in Data
<1> DEFINE all == [w \in Wids |-> IF f.tenant /\ cfgs[w]["root"] = NoPart THEN Absent ELSE cfgs[w]]
<1>1. \A w \in Wids : f.tenant \/ w = f.wid => cfgs[w] \in Cfg
  BY DEF Readable, LocalCfg, Cfg
<1>2. \A w \in Wids : f.tenant \/ w = f.wid => all[w] \in Cfg \cup {Absent}
  BY <1>1
<1>3. \A w \in Wids : w = f.wid /\ all[w] # Absent /\ all[w] \in Cfg => Filter(f, all[w]) \in Cfg
  <2> HIDE DEF all
  <2> QED BY DEF Filter, Cfg
<1>4. \A w \in Wids : Choose(f, all)[w] \in Cfg \cup {Absent}
  <2> HIDE DEF all
  <2> QED BY <1>2, <1>3 DEF Choose
<1>5. Choose(f, all) \in [Wids -> Cfg \cup {Absent}]
  <2> HIDE DEF all
  <2> QED BY <1>4 DEF Choose
<1> QED BY <1>5 DEF ReadFiles, Data

\* ... and from the server.
LEMMA ChooseType ==
    ASSUME NEW f \in Flags, NEW all \in Data
    PROVE  Choose(f, all) \in Data
<1>1. \A w \in Wids : all[w] # Absent => Filter(f, all[w]) \in Cfg
  BY DEF Filter, Cfg, Data
<1> QED BY <1>1 DEF Choose, Data

\* What is stored is a configuration of files.
LEMMA StoreType ==
    ASSUME NEW cfgs \in [Wids -> LocalCfg], NEW d \in Data
    PROVE  Store(cfgs, d) \in [Wids -> LocalCfg]
<1>1. \A w \in Wids : d[w] # Absent => StoreCfg(cfgs[w], d[w]) \in LocalCfg
  BY DEF StoreCfg, LocalCfg, Cfg, Data
<1> QED BY <1>1 DEF Store

\* What is uploaded is a configuration of the server.
LEMMA UploadType ==
    ASSUME NEW f \in Flags, NEW cfgs \in Data, NEW d \in Data
    PROVE  Upload(f, cfgs, d) \in Data
<1>1. \A w \in Wids : d[w] # Absent => Apply(f, cfgs[w], d[w]) \in Cfg
  BY DEF Apply, Cfg, Data
<1> QED BY <1>1 DEF Upload, Data

\* The settings a push reads are valid.
LEMMA ReadKeysType ==
    ASSUME NEW f \in Flags, NEW keys \in [Wids -> LocalKey], KeysValid(f, keys)
    PROVE  [w \in Wids |-> IF w \in KeyTargets(f, keys) THEN keys[w] ELSE NoKey] \in [Wids -> Keys \cup {NoKey}]
BY DEF KeysValid, LocalKey

-----------------------------------------------------------------------------
(***************************************************************************)
(* The inductive invariant.  What a run may change depends on where it is, *)
(* on the configuration it read and on the workspaces in its queue:        *)
(* Placed and Selects relate them to its flags.                            *)
(***************************************************************************)
Placed ==
    /\ pc \in {"keys", "list", "rotate"} => KeyRotation(run)
    /\ pc \in {"read", "write"} => Regular(run)
    /\ pc = "reset" => run.dry /\ (Regular(run) \/ KeyRotation(run))
    /\ pc = "keys" => run.cmd = "push"

SelectedData(d) ==
    \A w \in Wids : d[w] # Absent =>
        /\ ConfigurationInScope(run, w)
        /\ \A p \in Parts : PartInScope(run, w, p) \/ d[w][p] = NoPart
Selects == (\A w \in queue : Handles(run, w)) /\ SelectedData(data)

\* An invalid key rotation file keeps a push where it reads them.
Blocked ==
    pc # "idle" /\ run.cmd = "push" /\ ~edited =>
        /\ files = base.files
        /\ KeyRotation(run) /\ ~KeysValid(run, base.files.kr) =>
               pc \in {"keys", "failed"} /\ server = base.server /\ out = base.out

IInv == TypeOK /\ Placed /\ Selects /\ ChangesOnlyScope /\ Blocked

\* The initial states satisfy it.
THEOREM InitInv == Init => IInv
<1> SUFFICES ASSUME Init PROVE IInv
  OBVIOUS
<1>1. run \in Flags
  BY FlagsAssumption DEF Init
<1>2. files \in Files
  BY CfgsAssumption DEF Init, Files
<1>3. server \in Server
  BY CfgsAssumption DEF Init, Server
<1>4. out \in Out
  <2>1. [cfg |-> [w \in Wids |-> [p \in Parts |-> NoPart]], kr |-> [w \in Wids |-> NoKey]] \in Files
    BY DEF Files, LocalCfg, LocalKey
  <2> QED BY <2>1 DEF Init, Out
<1>5. TypeOK
  <2>1. base \in [files : Files, server : Server, out : Out]
    BY <1>2, <1>3, <1>4 DEF Init
  <2>2. runs \in 0..MaxRuns /\ edits \in 0..MaxEdits /\ edited \in BOOLEAN
    <3>1. runs = 0 /\ edits = 0 /\ edited = FALSE
      BY DEF Init
    <3>2. 0 \in 0..MaxRuns /\ 0 \in 0..MaxEdits
      BY BoundsAssumption
    <3> QED BY <3>1, <3>2
  <2>3. data \in Data /\ items \in [Wids -> Keys \cup {NoKey}] /\ queue \subseteq Wids /\ pc \in Ended
    BY DEF Init, Data, Ended
  <2> QED BY <1>1, <1>2, <1>3, <1>4, <2>1, <2>2, <2>3 DEF TypeOK
<1>6. Placed /\ Selects /\ ChangesOnlyScope /\ Blocked
  BY DEF Init, Placed, Selects, SelectedData, ChangesOnlyScope, Blocked
<1> QED BY <1>5, <1>6 DEF IInv

-----------------------------------------------------------------------------
\* The place a run starts at is one of its scope.
LEMMA FirstPlaced ==
    ASSUME NEW f \in Flags, ~ScopeError(f)
    PROVE  /\ First(f) \in Running
           /\ First(f) \in {"keys", "list"} => KeyRotation(f)
           /\ First(f) = "read" => Regular(f)
           /\ First(f) = "reset" => f.dry /\ Regular(f)
           /\ First(f) = "keys" => f.cmd = "push"
           /\ First(f) \notin {"write", "rotate"}
           /\ f.cmd = "push" /\ KeyRotation(f) => First(f) = "keys"
BY DEF First, ScopeError, Named, Regular, KeyRotation, Running, Flags, CommandLine

\* A run that starts has changed nothing.
LEMMA StartInv ==
    ASSUME IInv, NEW f \in RunFlags, Start(f)
    PROVE  IInv'
<1>1. /\ TypeOK /\ f \in Flags /\ f \in RunFlags
      /\ run' = f /\ data' = [w \in Wids |-> Absent] /\ items' = [w \in Wids |-> NoKey] /\ queue' = {}
      /\ pc' = (IF ScopeError(f) THEN "failed" ELSE First(f))
      /\ out' = [out EXCEPT !.stdout = <<>>]
      /\ base' = [files |-> files, server |-> server, out |-> out'] /\ edited' = FALSE
      /\ UNCHANGED <<files, server, edits>> /\ runs' = runs + 1 /\ runs < MaxRuns
  BY FlagsAssumption DEF IInv, Start
<1>2. out' \in Out
  <2>1. <<>> \in Seq(Chunk)
    OBVIOUS
  <2> QED BY <2>1, <1>1 DEF TypeOK, Out
<1>3. pc' \in Running \cup Ended
  BY <1>1, FirstPlaced DEF Ended
<1>4. runs' \in 0..MaxRuns
  BY <1>1, BoundsAssumption DEF TypeOK
<1>5. TypeOK'
  <2>1. base' \in [files : Files, server : Server, out : Out]
    BY <1>1, <1>2 DEF TypeOK
  <2>2. data' \in Data /\ items' \in [Wids -> Keys \cup {NoKey}]
    BY <1>1 DEF Data
  <2> QED BY <1>1, <1>2, <1>3, <1>4, <2>1, <2>2 DEF TypeOK
<1>6. base'.files = files' /\ base'.server = server' /\ base'.out = out'
  BY <1>1
<1>7. Placed'
  BY <1>1, FirstPlaced DEF Placed
<1>8. Selects'
  BY <1>1 DEF Selects, SelectedData
<1>9. ChangesOnlyScope'
  BY <1>6 DEF ChangesOnlyScope
<1>10. Blocked'
  BY <1>1, <1>6, FirstPlaced DEF Blocked
<1> QED BY <1>5, <1>7, <1>8, <1>9, <1>10 DEF IInv

\* A run that fails leaves everything as it is.
LEMMA FailsInv ==
    ASSUME IInv, Fails, pc # "idle"
    PROVE  IInv'
<1>1. pc' = "failed" /\ UNCHANGED <<files, server, out, run, data, items, queue, base, edited, runs, edits>>
  BY DEF Fails, Goto, store, ghosts
<1>2. TypeOK'
  BY <1>1 DEF IInv, TypeOK, Ended
<1>3. Placed' /\ Selects' /\ Blocked'
  BY <1>1 DEF IInv, Placed, Selects, SelectedData, Handles, Blocked
<1>4. ChangesOnlyScope'
  BY <1>1 DEF IInv, ChangesOnlyScope, Handles
<1> QED BY <1>2, <1>3, <1>4 DEF IInv

\* A step that changes neither files nor server nor out keeps what the run has changed so far.
LEMMA ScopeKept ==
    ASSUME ChangesOnlyScope, pc # "idle", UNCHANGED <<files, server, out, run, base, edited>>
    PROVE  ChangesOnlyScope'
BY DEF ChangesOnlyScope, Handles

\* A push that is past reading its key rotation files has found them valid.
LEMMA PastKeys ==
    ASSUME Blocked, pc \notin {"idle", "keys", "failed"}, UNCHANGED <<run, base, edited>>,
           run.cmd = "push" => UNCHANGED files
    PROVE  Blocked'
BY DEF Blocked

\* readKeyRotations.
LEMMA ReadKeysInv ==
    ASSUME IInv, ReadKeys
    PROVE  IInv'
<1> DEFINE read == [w \in Wids |-> IF w \in KeyTargets(run, files.kr) THEN files.kr[w] ELSE NoKey]
<1>1. /\ TypeOK /\ pc = "keys" /\ KeysValid(run, files.kr) /\ KeyRotation(run) /\ run.cmd = "push"
      /\ items' = read /\ queue' = {w \in Wids : read[w] # NoKey} /\ pc' = AfterKeys
      /\ UNCHANGED <<files, server, out, run, data, base, edited, runs, edits>>
  BY DEF IInv, Placed, ReadKeys, Goto, store, ghosts
<1>2. TypeOK'
  <2>1. read \in [Wids -> Keys \cup {NoKey}]
    <3>1. run \in Flags /\ files.kr \in [Wids -> LocalKey]
      BY <1>1 DEF TypeOK, Files
    <3> QED BY <3>1, <1>1, ReadKeysType
  <2>2. AfterKeys \in Running
    BY DEF AfterKeys, Running
  <2> HIDE DEF read
  <2> QED BY <2>1, <2>2, <1>1 DEF TypeOK
<1>3. Placed'
  BY <1>1 DEF Placed, AfterKeys
<1>4. Selects'
  <2>1. \A w \in queue' : w = run.wid \/ run.tenant
    BY <1>1 DEF KeyTargets
  <2> QED BY <2>1, <1>1 DEF IInv, Selects, SelectedData, Handles
<1>5. Blocked'
  <2>1. run.cmd = "push" /\ ~edited => files = base.files
    BY <1>1 DEF IInv, Blocked
  <2> QED BY <2>1, <1>1 DEF Blocked
<1> QED BY <1>1, <1>2, <1>3, <1>4, <1>5, ScopeKept DEF IInv

\* resetDryRunOut.
LEMMA ResetInv ==
    ASSUME IInv, ResetDryRunOut
    PROVE  IInv'
<1>1. /\ TypeOK /\ pc = "reset" /\ run.dry /\ (Regular(run) \/ KeyRotation(run))
      /\ out' = [out EXCEPT !.file = Emptied(run, out.file)] /\ pc' = AfterReset
      /\ UNCHANGED <<files, server, run, data, items, queue, base, edited, runs, edits>>
  BY DEF IInv, Placed, ResetDryRunOut, Goto, ghosts
<1>2. TypeOK'
  <2>1. Emptied(run, out.file) \in Seq(Chunk)
    BY <1>1 DEF Emptied, TypeOK, Out
  <2>2. AfterReset \in Running
    BY DEF AfterReset, Running
  <2>3. out' \in Out
    <3> HIDE DEF Out, Emptied
    <3> QED BY <2>1, <1>1 DEF TypeOK, Out
  <2> QED BY <2>2, <2>3, <1>1 DEF TypeOK
<1>3. Placed'
  BY <1>1 DEF Placed, AfterReset
<1>4. Selects'
  BY <1>1 DEF IInv, Selects, SelectedData, Handles
<1>5. Blocked'
  BY <1>1, PastKeys DEF IInv
<1>6. ChangesOnlyScope'
  <2>1. \A d \in {"file", "dir"} : out'[d] # out[d] => run.out = d
    BY <1>1 DEF Emptied, TypeOK, Out
  <2> QED BY <2>1, <1>1 DEF IInv, ChangesOnlyScope, Handles
<1> QED BY <1>2, <1>3, <1>4, <1>5, <1>6 DEF IInv

\* Choose takes the workspaces and parts the flags select.
LEMMA ChooseSelects ==
    ASSUME Regular(run), NEW all
    PROVE  SelectedData(Choose(run, all))
BY DEF SelectedData, Choose, Filter, Listed, Regular, ConfigurationInScope, PartInScope

\* The configuration is read, from the files or from the server.
LEMMA ReadInv ==
    ASSUME IInv, ReadLocal \/ ReadRemote
    PROVE  IInv'
<1>1. /\ TypeOK /\ pc = "read" /\ Regular(run) /\ pc' = "write"
      /\ UNCHANGED <<files, server, out, run, items, queue, base, edited, runs, edits>>
  BY DEF IInv, Placed, ReadLocal, ReadRemote, Goto, store, ghosts
<1>2. run \in Flags /\ files.cfg \in [Wids -> LocalCfg] /\ server.cfg \in Data
  BY <1>1 DEF TypeOK, Files, Server, Data
<1>3. data' \in Data
  <2>1. CASE ReadLocal
    BY <2>1, <1>2, ReadFilesType DEF ReadLocal
  <2>2. CASE ReadRemote
    BY <2>2, <1>2, ChooseType DEF ReadRemote
  <2> QED BY <2>1, <2>2
<1>4. SelectedData(data')
  BY <1>1, ChooseSelects DEF ReadLocal, ReadRemote, ReadFiles
<1>5. TypeOK'
  BY <1>1, <1>3 DEF TypeOK, Running
<1>6. Placed'
  BY <1>1 DEF Placed
<1>7. Selects'
  BY <1>1, <1>4 DEF IInv, Selects, SelectedData, Handles
<1>8. Blocked'
  BY <1>1, PastKeys DEF IInv
<1> QED BY <1>1, <1>5, <1>6, <1>7, <1>8, ScopeKept DEF IInv

-----------------------------------------------------------------------------
\* Where a run goes on after the configuration.
LEMMA AfterConfigurationPlaced ==
    AfterConfiguration \in {"list", "rotate", "done"} /\ (AfterConfiguration # "done" => KeyRotation(run))
BY DEF AfterConfiguration

\* A store rewrites what the flags select ...
LEMMA StoreInScope ==
    ASSUME SelectedData(data), NEW cfgs \in [Wids -> LocalCfg], NEW w \in Wids, NEW p \in Parts
    PROVE  Store(cfgs, data)[w][p] = cfgs[w][p] \/ Rewritable(run, w, p)
BY DEF Store, StoreCfg, SelectedData, Rewritable

\* ... also when it stops early.
LEMMA TornInScope ==
    ASSUME SelectedData(data), data \in Data, NEW cfgs \in [Wids -> LocalCfg], NEW w \in Held,
           NEW new \in Torn(cfgs, w)
    PROVE  /\ new \in [Wids -> LocalCfg]
           /\ \A v \in Wids, p \in Parts : new[v][p] = cfgs[v][p] \/ Rewritable(run, v, p)
<1>1. PICK done \in SUBSET Wids, begun \in Begun(cfgs[w], data[w]) :
          new = [v \in Wids |-> IF v = w THEN begun ELSE IF v \in done THEN Store(cfgs, data)[v] ELSE cfgs[v]]
  BY DEF Torn
<1>2. w \in Wids /\ data[w] # Absent /\ cfgs[w] \in LocalCfg /\ data[w] \in Cfg
  BY DEF Held, Data
<1>3. StoreCfg(cfgs[w], data[w]) \in LocalCfg
  BY <1>2 DEF StoreCfg, LocalCfg, Cfg
<1>4. /\ begun \in LocalCfg
      /\ begun["clients"] = cfgs[w]["clients"] \/ data[w]["clients"] # NoPart
  <2>1. CASE \E part \in TornPart("root") : begun = [cfgs[w] EXCEPT !["root"] = part]
    <3>1. PICK part \in TornPart("root") : begun = [cfgs[w] EXCEPT !["root"] = part]
      BY <2>1
    <3>2. part \in Vals \cup BadVals \cup {NoPart, Zeros, Unreadable}
      BY DEF TornPart
    <3> QED BY <1>2, <3>1, <3>2 DEF LocalCfg, Parts
  <2>2. CASE \E part \in {cfgs[w]["clients"]} \cup (IF data[w]["clients"] = NoPart THEN {} ELSE TornPart("clients")) :
                begun = [StoreCfg(cfgs[w], data[w]) EXCEPT !["clients"] = part]
    <3>1. PICK part \in {cfgs[w]["clients"]} \cup (IF data[w]["clients"] = NoPart THEN {} ELSE TornPart("clients")) :
              begun = [StoreCfg(cfgs[w], data[w]) EXCEPT !["clients"] = part]
      BY <2>2
    <3>2. part \in Vals \cup BadVals \cup {NoPart, Zeros, Unreadable}
      BY <1>2, <3>1 DEF TornPart, LocalCfg, Parts
    <3>3. begun \in LocalCfg /\ begun["clients"] = part
      BY <1>3, <3>1, <3>2 DEF LocalCfg, Parts
    <3> QED BY <3>1, <3>3
  <2> QED BY <1>1, <2>1, <2>2 DEF Begun
<1>5. Store(cfgs, data) \in [Wids -> LocalCfg]
  BY StoreType
<1>6. new \in [Wids -> LocalCfg]
  BY <1>1, <1>2, <1>4, <1>5
<1>7. \A p \in Parts : begun[p] = cfgs[w][p] \/ Rewritable(run, w, p)
  BY <1>2, <1>4 DEF Parts, SelectedData, Rewritable
<1>8. ASSUME NEW v \in Wids, NEW p \in Parts PROVE new[v][p] = cfgs[v][p] \/ Rewritable(run, v, p)
  BY <1>1, <1>7, StoreInScope
<1> QED BY <1>6, <1>8

\* A pull stores the configuration, all of it or a part.
LEMMA StoredInv ==
    ASSUME IInv, pc = "write", run.cmd = "pull",
           NEW cfgs \in [Wids -> LocalCfg], files' = [files EXCEPT !.cfg = cfgs],
           \A w \in Wids, p \in Parts : cfgs[w][p] = files.cfg[w][p] \/ Rewritable(run, w, p),
           pc' \in {"list", "rotate", "done", "failed"}, pc' \in {"list", "rotate"} => KeyRotation(run),
           UNCHANGED <<server, out, run, data, items, queue, base, edited, runs, edits>>
    PROVE  IInv'
<1>1. TypeOK /\ ChangesOnlyScope /\ Blocked
  BY DEF IInv
<1>2. files' \in Files /\ files'.kr = files.kr /\ files'.cfg = cfgs
  BY <1>1 DEF TypeOK, Files
<1>3. TypeOK'
  BY <1>1, <1>2 DEF TypeOK, Running, Ended
<1>4. Placed' /\ Selects'
  BY DEF IInv, Placed, Selects, SelectedData, Handles
<1>5. Blocked'
  BY <1>1, PastKeys
<1>6. ChangesOnlyScope'
  BY <1>1, <1>2 DEF ChangesOnlyScope, Handles
<1> QED BY <1>3, <1>4, <1>5, <1>6 DEF IInv

\* StoreConfiguration, whole or interrupted.
LEMMA StoreInv ==
    ASSUME IInv, StoreConfiguration \/ StoreTorn
    PROVE  IInv'
<1>1. TypeOK /\ SelectedData(data) /\ pc = "write" /\ run.cmd = "pull"
  BY DEF IInv, Selects, StoreConfiguration, WriteNext, StoreTorn
<1>2. files.cfg \in [Wids -> LocalCfg] /\ data \in Data
  BY <1>1 DEF TypeOK, Files
<1>3. Store(files.cfg, data) \in [Wids -> LocalCfg]
  BY <1>2, StoreType
<1>4. CASE StoreConfiguration
  <2>1. \A w \in Wids, p \in Parts : Store(files.cfg, data)[w][p] = files.cfg[w][p] \/ Rewritable(run, w, p)
    BY <1>1, <1>2, StoreInScope
  <2> QED BY <1>1, <1>3, <1>4, <2>1, StoredInv, AfterConfigurationPlaced
          DEF StoreConfiguration, WriteNext, Goto, ghosts
<1>5. CASE StoreTorn
  <2>1. PICK w \in Held : \E cfgs \in Torn(files.cfg, w) : files' = [files EXCEPT !.cfg = cfgs]
    BY <1>5 DEF StoreTorn
  <2>2. PICK cfgs \in Torn(files.cfg, w) : files' = [files EXCEPT !.cfg = cfgs]
    BY <2>1
  <2>3. /\ cfgs \in [Wids -> LocalCfg]
        /\ \A v \in Wids, p \in Parts : cfgs[v][p] = files.cfg[v][p] \/ Rewritable(run, v, p)
    BY <1>1, <1>2, TornInScope
  <2> QED BY <2>2, <2>3, <1>1, <1>5, StoredInv DEF StoreTorn, Goto, ghosts
<1> QED BY <1>4, <1>5

\* A push sends the configuration, whether it gets the answer or not.
LEMMA SentInv ==
    ASSUME IInv, PushConfiguration \/ PushAnswerLost
    PROVE  IInv'
<1>1. /\ TypeOK /\ ChangesOnlyScope /\ Blocked /\ Selects /\ pc = "write" /\ Regular(run)
      /\ run.cmd = "push" /\ ~run.dry /\ (run.tenant \/ ~Missing(run.wid))
      /\ server' = [server EXCEPT !.cfg = Upload(run, server.cfg, data)]
      /\ pc' \in {"list", "rotate", "done", "failed"} /\ (pc' \in {"list", "rotate"} => KeyRotation(run))
      /\ UNCHANGED <<files, out, run, data, items, queue, base, edited, runs, edits>>
  BY AfterConfigurationPlaced DEF IInv, Placed, PushConfiguration, PushAnswerLost, WriteNext, Goto, ghosts
<1>2. run \in Flags /\ server.cfg \in Data /\ data \in Data
  BY <1>1 DEF TypeOK, Server, Data
<1>3. /\ server' \in Server /\ server'.kr = server.kr
      /\ server'.cfg = Upload(run, server.cfg, data)
  <2>1. Upload(run, server.cfg, data) \in Data
    BY <1>2, UploadType
  <2> QED BY <2>1, <1>1 DEF TypeOK, Server, Data
<1>4. TypeOK'
  BY <1>1, <1>3 DEF TypeOK, Running, Ended
<1>5. Placed' /\ Selects'
  BY <1>1 DEF Placed, Selects, SelectedData, Handles
<1>6. Blocked'
  BY <1>1, PastKeys
<1>7. ASSUME NEW w \in Wids, server'.cfg[w] # base.server.cfg[w]
      PROVE  /\ ConfigurationInScope(run, w)
             /\ run.method = "patch" /\ ~run.tenant =>
                    \A p \in Parts : PartInScope(run, w, p) \/ server'.cfg[w][p] = base.server.cfg[w][p]
  <2>1. /\ server.cfg[w] # base.server.cfg[w] => ConfigurationInScope(run, w)
        /\ run.method = "patch" /\ ~run.tenant =>
               \A p \in Parts : PartInScope(run, w, p) \/ server.cfg[w][p] = base.server.cfg[w][p]
    BY <1>1 DEF ChangesOnlyScope
  <2>2. CASE data[w] = Absent
    <3>1. server'.cfg[w] = server.cfg[w]
      BY <2>2, <1>3 DEF Upload
    <3> QED BY <3>1, <2>1, <1>7
  <2>3. CASE data[w] # Absent
    <3>1. ConfigurationInScope(run, w)
      BY <2>3, <1>1 DEF Selects, SelectedData
    <3>2. ASSUME run.method = "patch", ~run.tenant, NEW p \in Parts, ~PartInScope(run, w, p)
          PROVE  server'.cfg[w][p] = base.server.cfg[w][p]
      <4>1. server.cfg[w] # Absent /\ data[w][p] = NoPart
        BY <2>3, <3>1, <3>2, <1>1 DEF ConfigurationInScope, Missing, Selects, SelectedData
      <4>2. server'.cfg[w] = Apply(run, server.cfg[w], data[w])
        BY <2>3, <1>3 DEF Upload
      <4>3. Apply(run, server.cfg[w], data[w])[p] = server.cfg[w][p]
        BY <4>1, <3>2 DEF Apply
      <4> QED BY <4>2, <4>3, <3>2, <2>1
    <3> QED BY <3>1, <3>2
  <2> QED BY <2>2, <2>3
<1>8. ChangesOnlyScope'
  BY <1>1, <1>3, <1>7 DEF ChangesOnlyScope, Handles
<1> QED BY <1>4, <1>5, <1>6, <1>8 DEF IInv

\* A dry run writes to its --out only.
LEMMA DryInv ==
    ASSUME IInv, run.dry, pc \in {"write", "rotate"},
           out' \in Out, \A d \in {"file", "dir"} : out'[d] # out[d] => run.out = d,
           \A w \in Wids : out'.dir.kr[w] = out.dir.kr[w] \/ (KeyRotation(run) /\ Handles(run, w)),
           \A w \in Wids, p \in Parts : out'.dir.cfg[w][p] = out.dir.cfg[w][p] \/ Rewritable(run, w, p),
           pc' \in {"list", "rotate", "done", "failed"}, pc' \in {"list", "rotate"} => KeyRotation(run),
           queue' \subseteq queue,
           UNCHANGED <<files, server, run, data, items, base, edited, runs, edits>>
    PROVE  IInv'
<1>1. TypeOK /\ ChangesOnlyScope /\ Blocked
  BY DEF IInv
<1>2. TypeOK'
  BY <1>1 DEF TypeOK, Running, Ended
<1>3. Placed' /\ Selects'
  BY DEF IInv, Placed, Selects, SelectedData, Handles
<1>4. Blocked'
  BY <1>1, PastKeys
<1>5. KeyRotation(run) => InScope(run)
  BY DEF KeyRotation, InScope, Named
<1>6. ChangesOnlyScope'
  BY <1>1, <1>5 DEF ChangesOnlyScope, Handles
<1> QED BY <1>2, <1>3, <1>4, <1>6 DEF IInv

\* What one write of this run puts into --out.
LEMMA ChunksType ==
    ASSUME TypeOK, NEW about \in {"configuration", "key_rotation"}, NEW S \in SUBSET Wids
    PROVE  /\ <<[run |-> runs, about |-> about, wids |-> S]>> \in Seq(Chunk)
           /\ Chunks(about, S) \in Seq(Chunk)
<1>1. [run |-> runs, about |-> about, wids |-> S] \in Chunk
  BY DEF TypeOK, Chunk
<1> HIDE DEF Chunk
<1> QED BY <1>1 DEF Chunks

\* The configuration of a dry run.
LEMMA WriteDryConfigurationInv ==
    ASSUME IInv, WriteDryConfiguration \/ WriteDryTorn
    PROVE  IInv'
<1> DEFINE chunks == <<[run |-> runs, about |-> "configuration", wids |-> Held]>>
<1>1. /\ TypeOK /\ SelectedData(data) /\ pc = "write" /\ run.dry /\ run.cmd = "push"
      /\ pc' \in {"list", "rotate", "done", "failed"} /\ (pc' \in {"list", "rotate"} => KeyRotation(run))
      /\ UNCHANGED <<files, server, run, data, items, queue, base, edited, runs, edits>>
  BY AfterConfigurationPlaced DEF IInv, Selects, WriteDryConfiguration, WriteDryTorn, WriteNext, Goto, ghosts
<1>2. run.out \in {"stdout", "file", "dir"} /\ chunks \in Seq(Chunk)
  BY <1>1, ChunksType DEF TypeOK, Flags, Held
<1>3. CASE run.out = "stdout"
  <2>1. out' = [out EXCEPT !.stdout = out.stdout \o chunks]
    BY <1>3 DEF WriteDryConfiguration, WriteDryTorn
  <2>2. out.stdout \o chunks \in Seq(Chunk)
    BY <1>1, <1>2 DEF TypeOK, Out
  <2>3. out' \in Out /\ \A d \in {"file", "dir"} : out'[d] = out[d]
    BY <2>1, <2>2, <1>1 DEF TypeOK, Out
  <2> QED BY <2>3, <1>1, DryInv
<1>4. CASE run.out = "file"
  <2>1. out' = [out EXCEPT !.file = chunks]
    BY <1>4 DEF WriteDryConfiguration, WriteDryTorn
  <2>2. out' \in Out /\ out'.dir = out.dir
    BY <2>1, <1>1, <1>2 DEF TypeOK, Out
  <2> QED BY <2>2, <1>1, <1>4, DryInv
<1>5. CASE run.out = "dir"
  <2>1. out.dir.cfg \in [Wids -> LocalCfg] /\ data \in Data
    BY <1>1 DEF TypeOK, Out, Files
  <2>2. PICK cfgs \in [Wids -> LocalCfg] :
            /\ out' = [out EXCEPT !.dir.cfg = cfgs]
            /\ \A w \in Wids, p \in Parts : cfgs[w][p] = out.dir.cfg[w][p] \/ Rewritable(run, w, p)
    <3>1. CASE WriteDryConfiguration
      <4>1. out' = [out EXCEPT !.dir.cfg = Store(out.dir.cfg, data)]
        BY <1>5, <3>1 DEF WriteDryConfiguration
      <4>2. Store(out.dir.cfg, data) \in [Wids -> LocalCfg]
        BY <2>1, StoreType
      <4>3. \A w \in Wids, p \in Parts :
                Store(out.dir.cfg, data)[w][p] = out.dir.cfg[w][p] \/ Rewritable(run, w, p)
        BY <1>1, <2>1, StoreInScope
      <4> QED BY <4>1, <4>2, <4>3
    <3>2. CASE WriteDryTorn
      <4>1. PICK w \in Held : \E cfgs \in Torn(out.dir.cfg, w) : out' = [out EXCEPT !.dir.cfg = cfgs]
        BY <3>2 DEF WriteDryTorn
      <4>2. PICK cfgs \in Torn(out.dir.cfg, w) : out' = [out EXCEPT !.dir.cfg = cfgs]
        BY <4>1
      <4>3. /\ cfgs \in [Wids -> LocalCfg]
            /\ \A v \in Wids, p \in Parts : cfgs[v][p] = out.dir.cfg[v][p] \/ Rewritable(run, v, p)
        BY <1>1, <2>1, TornInScope
      <4> QED BY <4>2, <4>3
    <3> QED BY <3>1, <3>2
  <2>3. out' \in Out /\ out'.file = out.file /\ out'.dir.kr = out.dir.kr /\ out'.dir.cfg = cfgs
    BY <2>2, <1>1 DEF TypeOK, Out, Files
  <2> QED BY <2>2, <2>3, <1>1, <1>5, DryInv
<1> QED BY <1>2, <1>3, <1>4, <1>5

-----------------------------------------------------------------------------
\* pullKeyRotations lists the workspaces the flags select.
LEMMA ListInv ==
    ASSUME IInv, ListWorkspaces
    PROVE  IInv'
<1>1. /\ TypeOK /\ pc = "list" /\ KeyRotation(run) /\ pc' = "rotate"
      /\ queue' = (IF run.tenant THEN TenantWorkspaces ELSE {run.wid})
      /\ UNCHANGED <<files, server, out, run, data, items, base, edited, runs, edits>>
  BY DEF IInv, Placed, ListWorkspaces, Goto, store, ghosts
<1>2. TypeOK'
  <2>1. queue' \subseteq Wids
    BY <1>1 DEF TypeOK, Flags, TenantWorkspaces, Held
  <2> QED BY <2>1, <1>1 DEF TypeOK, Running
<1>3. Placed' /\ Blocked'
  BY <1>1, PastKeys DEF IInv, Placed
<1>4. Selects'
  BY <1>1 DEF IInv, Selects, SelectedData, Handles
<1> QED BY <1>1, <1>2, <1>3, <1>4, ScopeKept DEF IInv

\* The key rotation of a workspace in scope is pulled ...
LEMMA PullKeyInv ==
    ASSUME IInv, NEW w \in Wids, PullKey(w)
    PROVE  IInv'
<1>1. /\ TypeOK /\ ChangesOnlyScope /\ pc = "rotate" /\ w \in queue /\ run.cmd = "pull"
      /\ Handles(run, w) /\ KeyRotation(run) /\ queue' = queue \ {w}
      /\ UNCHANGED <<server, out, run, pc, data, items, base, edited, runs, edits>>
  BY DEF IInv, Placed, Selects, PullKey, RotateNext, Least, ghosts
<1>2. /\ files' \in Files /\ files'.cfg = files.cfg
      /\ \A v \in Wids : v # w => files'.kr[v] = files.kr[v]
  <2> DEFINE new == IF server.kr[w] = NoKey THEN files.kr[w] ELSE server.kr[w]
  <2>1. files' = [files EXCEPT !.kr[w] = new]
    BY DEF PullKey
  <2>2. new \in LocalKey
    BY <1>1 DEF TypeOK, Files, Server, LocalKey
  <2> HIDE DEF new
  <2> QED BY <2>1, <2>2, <1>1 DEF TypeOK, Files
<1>3. TypeOK'
  BY <1>1, <1>2 DEF TypeOK
<1>4. Placed' /\ Selects' /\ Blocked'
  BY <1>1, PastKeys DEF IInv, Placed, Selects, SelectedData, Handles
<1>5. InScope(run)
  BY <1>1 DEF KeyRotation, InScope, Named
<1>6. ChangesOnlyScope'
  BY <1>1, <1>2, <1>5 DEF ChangesOnlyScope, Handles
<1> QED BY <1>3, <1>4, <1>6 DEF IInv

\* ... or pushed.
LEMMA PushKeyInv ==
    ASSUME IInv, NEW w \in Wids, PushKey(w)
    PROVE  IInv'
<1>1. /\ TypeOK /\ ChangesOnlyScope /\ pc = "rotate" /\ w \in queue /\ run.cmd = "push" /\ ~run.dry
      /\ Handles(run, w) /\ KeyRotation(run) /\ queue' = queue \ {w}
      /\ server' = [server EXCEPT !.kr[w] = items[w]]
      /\ UNCHANGED <<files, out, run, pc, data, items, base, edited, runs, edits>>
  BY DEF IInv, Placed, Selects, PushKey, RotateNext, Least, ghosts
<1>2. /\ server' \in Server /\ server'.cfg = server.cfg
      /\ \A v \in Wids : v # w => server'.kr[v] = server.kr[v]
  BY <1>1 DEF TypeOK, Server
<1>3. TypeOK'
  BY <1>1, <1>2 DEF TypeOK
<1>4. Placed' /\ Selects' /\ Blocked'
  BY <1>1, PastKeys DEF IInv, Placed, Selects, SelectedData, Handles
<1>5. InScope(run)
  BY <1>1 DEF KeyRotation, InScope, Named
<1>6. ChangesOnlyScope'
  BY <1>1, <1>2, <1>5 DEF ChangesOnlyScope, Handles
<1> QED BY <1>3, <1>4, <1>6 DEF IInv

\* The key rotation of a workspace is a file of the directory.
LEMMA WriteDryKeyInv ==
    ASSUME IInv, NEW w \in Wids, WriteDryKey(w)
    PROVE  IInv'
<1>1. /\ TypeOK /\ pc = "rotate" /\ run.dry /\ run.out = "dir" /\ queue' = queue \ {w} /\ KeyRotation(run)
      /\ Handles(run, w) /\ out' = [out EXCEPT !.dir.kr[w] = items[w]]
      /\ UNCHANGED <<files, server, run, pc, data, items, base, edited, runs, edits>>
  BY DEF IInv, Placed, Selects, WriteDryKey, RotateNext, Least, ghosts
<1>2. /\ out' \in Out /\ out'.file = out.file /\ out'.dir.cfg = out.dir.cfg
      /\ \A v \in Wids : v # w => out'.dir.kr[v] = out.dir.kr[v]
  <2>1. items[w] \in LocalKey /\ out.dir \in Files
    BY <1>1 DEF TypeOK, Out, LocalKey
  <2> DEFINE dir == [out.dir EXCEPT !.kr[w] = items[w]]
  <2>2. /\ dir \in Files /\ dir.cfg = out.dir.cfg
        /\ \A v \in Wids : v # w => dir.kr[v] = out.dir.kr[v]
    BY <2>1 DEF Files
  <2>3. out' = [out EXCEPT !.dir = dir]
    BY <1>1
  <2> HIDE DEF dir
  <2>4. out' \in Out /\ out'.file = out.file /\ out'.dir = dir
    BY <2>2, <2>3, <1>1 DEF TypeOK, Out
  <2> QED BY <2>2, <2>4
<1> QED BY <1>1, <1>2, DryInv

\* All of it in one write to stdout or a file.
LEMMA WriteDryKeysInv ==
    ASSUME IInv, WriteDryKeys
    PROVE  IInv'
<1> DEFINE chunks == Chunks("key_rotation", queue)
<1>1. /\ TypeOK /\ pc = "rotate" /\ run.dry /\ run.out # "dir" /\ queue' = {} /\ KeyRotation(run)
      /\ UNCHANGED <<files, server, run, pc, data, items, base, edited, runs, edits>>
  BY DEF IInv, Placed, WriteDryKeys, ghosts
<1>2. run.out \in {"stdout", "file", "dir"} /\ chunks \in Seq(Chunk)
  BY <1>1, ChunksType DEF TypeOK, Flags
<1>3. out.stdout \o chunks \in Seq(Chunk) /\ out.file \o chunks \in Seq(Chunk)
  BY <1>1, <1>2 DEF TypeOK, Out
<1>4. CASE run.out = "stdout"
  <2>1. out' = [out EXCEPT !.stdout = out.stdout \o chunks]
    BY <1>4 DEF WriteDryKeys
  <2>2. out' \in Out /\ \A d \in {"file", "dir"} : out'[d] = out[d]
    BY <2>1, <1>1, <1>3 DEF TypeOK, Out
  <2> QED BY <2>2, <1>1, DryInv
<1>5. CASE run.out = "file"
  <2>1. out' = [out EXCEPT !.file = out.file \o chunks]
    BY <1>5 DEF WriteDryKeys
  <2>2. out' \in Out /\ out'.dir = out.dir
    BY <2>1, <1>1, <1>3 DEF TypeOK, Out
  <2> QED BY <2>2, <1>1, <1>5, DryInv
<1> QED BY <1>1, <1>2, <1>4, <1>5

\* A run whose queue is empty is done.
LEMMA DoneInv ==
    ASSUME IInv, RotationDone
    PROVE  IInv'
<1>1. /\ TypeOK /\ pc = "rotate" /\ pc' = "done"
      /\ UNCHANGED <<files, server, out, run, data, items, queue, base, edited, runs, edits>>
  BY DEF IInv, RotationDone, Goto, store, ghosts
<1>2. TypeOK' /\ Placed' /\ Selects'
  BY <1>1 DEF IInv, TypeOK, Ended, Placed, Selects, SelectedData, Handles
<1> QED BY <1>1, <1>2, ScopeKept, PastKeys DEF IInv

\* A user edits a file, which the run remembers.
LEMMA EditInv ==
    ASSUME IInv, Edit
    PROVE  IInv'
<1>1. /\ TypeOK /\ ChangesOnlyScope /\ edits < MaxEdits /\ edits' = edits + 1 /\ edited' = TRUE
      /\ UNCHANGED <<server, out, run, pc, data, items, queue, base, runs>>
  BY DEF IInv, Edit, state
<1>2. files' \in Files
  <2>1. PICK w \in Wids : \/ \E cfg \in LocalCfgs : files' = [files EXCEPT !.cfg[w] = cfg]
                          \/ \E key \in LocalKey : files' = [files EXCEPT !.kr[w] = key]
    BY DEF Edit
  <2> QED BY <2>1, <1>1, CfgsAssumption DEF TypeOK, Files
<1>3. edits' \in 0..MaxEdits
  BY <1>1, BoundsAssumption DEF TypeOK
<1>4. TypeOK'
  BY <1>1, <1>2, <1>3 DEF TypeOK
<1>5. Placed' /\ Selects' /\ Blocked'
  BY <1>1 DEF IInv, Placed, Selects, SelectedData, Handles, Blocked
<1>6. ChangesOnlyScope'
  BY <1>1 DEF ChangesOnlyScope, Handles
<1> QED BY <1>4, <1>5, <1>6 DEF IInv

-----------------------------------------------------------------------------
\* Every step of a run, a fault or a user keeps the inductive invariant.
THEOREM NextInv == IInv /\ [Next]_vars => IInv'
<1> SUFFICES ASSUME IInv, [Next]_vars PROVE IInv'
  OBVIOUS
<1>1. CASE Step
  <2>1. ASSUME InvalidKeys \/ RejectLocal \/ ConfigurationNotFound \/ \E w \in Wids : KeyNotFound(w)
        PROVE  IInv'
    BY <2>1, FailsInv DEF InvalidKeys, RejectLocal, ConfigurationNotFound, KeyNotFound
  <2> QED BY <1>1, <2>1, ReadKeysInv, ResetInv, ReadInv, StoreInv, SentInv, WriteDryConfigurationInv, ListInv,
             WriteDryKeysInv, DoneInv, PullKeyInv, PushKeyInv, WriteDryKeyInv DEF Step
<1>2. CASE Fault
  BY <1>2, FailsInv, StoreInv, WriteDryConfigurationInv, SentInv DEF Fault, Fail, Running
<1>3. CASE UNCHANGED vars
  <2>1. UNCHANGED <<files, server, out, run, pc, data, items, queue, base, edited, runs, edits>>
    BY <1>3 DEF vars, store, state, ghosts
  <2>2. TypeOK' /\ Placed' /\ Selects' /\ Blocked'
    BY <2>1 DEF IInv, TypeOK, Placed, Selects, SelectedData, Handles, Blocked
  <2>3. ChangesOnlyScope'
    BY <2>1 DEF IInv, ChangesOnlyScope, Handles
  <2> QED BY <2>2, <2>3 DEF IInv
<1> QED BY <1>1, <1>2, <1>3, StartInv, EditInv DEF Next

\* The inductive invariant holds of every behaviour.
THEOREM Invariance == Spec => []IInv
BY InitInv, NextInv, PTL DEF Spec

\* The state stays well typed: nothing unreadable and no invalid key rotation reaches the server.
THEOREM TypeCorrect == Spec => []TypeOK
<1>1. IInv => TypeOK
  BY DEF IInv
<1> QED BY Invariance, <1>1, PTL

\* A run changes only what its flags select, however it ends.
THEOREM StaysInScope == Spec => []ChangesOnlyScope
<1>1. IInv => ChangesOnlyScope
  BY DEF IInv
<1> QED BY Invariance, <1>1, PTL

\* An invalid key rotation file in scope stops a push before it changes anything.
THEOREM InvalidKeysBlock == Spec => []InvalidKeysBlockRun
<1>1. IInv => InvalidKeysBlockRun
  BY DEF IInv, Blocked, InvalidKeysBlockRun
<1> QED BY Invariance, <1>1, PTL

-----------------------------------------------------------------------------
(***************************************************************************)
(* What the other properties rest on: the queue, items and data of a run   *)
(* are those of its scope (Fresh); a push of both parts sends its          *)
(* configuration before key rotation (Sequenced); a pull has written the   *)
(* key rotation of the workspaces it is past (Pulled); a dry run has       *)
(* written what it has handled (Printed).                                  *)
(***************************************************************************)
Fresh ==
    pc # "idle" =>
        /\ CommandLine(run)
        /\ ~KeyRotation(run) => queue = {} /\ \A w \in Wids : items[w] = NoKey
        /\ ~Regular(run) => \A w \in Wids : data[w] = Absent

Sequenced ==
    run.cmd = "push" /\ ~run.dry /\ Regular(run) /\ ~edited /\ pc # "idle" =>
        /\ pc # "list"
        /\ pc \in {"keys", "read", "write"} => server = base.server
        /\ pc \in {"write", "rotate", "done"} =>
               data = ReadFiles(run, base.files.cfg) /\ Readable(run, base.files.cfg)
        /\ pc \in {"rotate", "done"} \/ server.kr # base.server.kr =>
               server.cfg = Upload(run, base.server.cfg, ReadFiles(run, base.files.cfg))

PulledKey(w) == files.kr[w] = IF server.kr[w] = NoKey THEN base.files.kr[w] ELSE server.kr[w]
Pulled ==
    run.cmd = "pull" /\ ~edited /\ pc # "idle" =>
        /\ pc \in {"write", "list"} /\ Regular(run) => data = Choose(run, server.cfg)
        /\ \A w \in Wids : pc \in {"read", "write", "list"} \/ w \in queue => files.kr[w] = base.files.kr[w]
        /\ \A w \in Wids : KeyRotation(run) /\ pc \in {"rotate", "done"} /\ Handles(run, w) /\ ~Missing(w) =>
               PulledKey(w) \/ w \in queue
        /\ pc = "done" => queue = {}

ItemSet == {w \in Wids : items[w] # NoKey}
ConfigurationOutput ==
    IF Regular(run) THEN <<[run |-> runs, about |-> "configuration", wids |-> Held]>> ELSE <<>>
Destination == IF run.out = "stdout" THEN out.stdout ELSE out.file
DirHolds ==
    /\ queue \subseteq ItemSet
    /\ \A w \in Wids : out.dir.kr[w] = IF w \in ItemSet \ queue THEN items[w] ELSE base.out.dir.kr[w]
    /\ DirConfiguration
Printed ==
    run.dry /\ pc # "idle" =>
        /\ pc # "list"
        /\ out.file # base.out.file => \A i \in DOMAIN out.file : out.file[i].run = runs
        /\ pc \in {"reset", "read", "write"} => queue = ItemSet
        /\ pc \in {"keys", "reset", "read", "write"} => out.stdout = <<>> /\ out.dir = base.out.dir
        /\ pc \in {"read", "write"} /\ run.out = "file" => out.file = <<>>
        /\ pc = "rotate" /\ run.out # "dir" =>
               \/ queue = ItemSet /\ Destination = ConfigurationOutput
               \/ queue = {} /\ Destination = RunOutput
        /\ pc = "done" => queue = {} /\ (run.out # "dir" => Destination = RunOutput)
        /\ pc \in {"rotate", "done"} /\ run.out = "dir" => DirHolds

RunInv == IInv /\ Fresh /\ Sequenced /\ Pulled /\ Printed

\* The flags of a run, what it found and its number stay until the next one starts.
LEMMA SameRun ==
    ASSUME [Next]_vars, \A f \in RunFlags : ~Start(f)
    PROVE  UNCHANGED <<run, base, runs>> /\ (pc' # "idle" <=> pc # "idle")
<1>1. CASE Step
  BY <1>1 DEF Step, ReadKeys, InvalidKeys, ResetDryRunOut, ReadLocal, RejectLocal, ReadRemote, StoreConfiguration,
              PushConfiguration, WriteDryConfiguration, ConfigurationNotFound, ListWorkspaces, WriteDryKeys,
              RotationDone, PullKey, PushKey, WriteDryKey, KeyNotFound, WriteNext, RotateNext, Fails, Goto,
              AfterKeys, AfterReset, AfterConfiguration, ghosts
<1>2. CASE Fault
  BY <1>2 DEF Fault, Fail, StoreTorn, WriteDryTorn, PushAnswerLost, Fails, Goto, Running, ghosts
<1>3. CASE Edit \/ UNCHANGED vars
  BY <1>3 DEF Edit, vars, state, ghosts
<1> QED BY <1>1, <1>2, <1>3 DEF Next

\* The queue, items and data of a run are those of its scope.
LEMMA FreshStep ==
    ASSUME IInv, Fresh, [Next]_vars
    PROVE  Fresh'
<1>1. ASSUME NEW f \in RunFlags, Start(f) PROVE Fresh'
  BY <1>1 DEF Start, Fresh
<1>2. CASE \A f \in RunFlags : ~Start(f)
  <2>1. run' = run /\ (pc' # "idle" <=> pc # "idle")
    BY <1>2, SameRun
  <2>2. CASE ReadKeys \/ ListWorkspaces
    <3>1. KeyRotation(run) /\ data' = data
      BY <2>2 DEF IInv, Placed, ReadKeys, ListWorkspaces
    <3> QED BY <2>1, <3>1 DEF Fresh
  <2>3. CASE ReadLocal \/ ReadRemote
    <3>1. Regular(run) /\ UNCHANGED <<items, queue>>
      BY <2>3 DEF IInv, Placed, ReadLocal, ReadRemote
    <3> QED BY <2>1, <3>1 DEF Fresh
  <2>4. CASE UNCHANGED <<data, items>> /\ queue' \subseteq queue
    BY <2>1, <2>4 DEF Fresh
  <2>5. CASE Step /\ ~(ReadKeys \/ ListWorkspaces \/ ReadLocal \/ ReadRemote)
    <3>1. UNCHANGED <<data, items>> /\ queue' \subseteq queue
      BY <2>5 DEF Step, InvalidKeys, ResetDryRunOut, RejectLocal, StoreConfiguration, PushConfiguration,
                  WriteDryConfiguration, ConfigurationNotFound, WriteDryKeys, RotationDone, PullKey, PushKey,
                  WriteDryKey, KeyNotFound, WriteNext, RotateNext, Fails
    <3> QED BY <3>1, <2>4
  <2>6. CASE Fault \/ Edit \/ UNCHANGED vars
    BY <2>4, <2>6 DEF Fault, Fail, StoreTorn, WriteDryTorn, PushAnswerLost, Fails, Edit, vars, state
  <2> QED BY <1>2, <2>2, <2>3, <2>5, <2>6 DEF Next
<1> QED BY <1>1, <1>2

-----------------------------------------------------------------------------
\* A push sends its configuration before key rotation.
LEMMA SequencedStep ==
    ASSUME IInv, Fresh, Sequenced, [Next]_vars
    PROVE  Sequenced'
<1>1. ASSUME NEW f \in RunFlags, Start(f) PROVE Sequenced'
  <2>1. /\ server' = base'.server /\ run' = f /\ ~f.dry /\ f.cmd = "push" => pc' \in {"keys", "read", "failed"}
    BY <1>1 DEF Start, First
  <2> QED BY <1>1, <2>1 DEF Start, Sequenced
<1>2. CASE \A f \in RunFlags : ~Start(f)
  <2>1. UNCHANGED <<run, base>> /\ (pc' # "idle" <=> pc # "idle")
    BY <1>2, SameRun
  <2> SUFFICES ASSUME run.cmd = "push", ~run.dry, Regular(run), ~edited', pc # "idle", ~edited
               PROVE  /\ pc' # "list"
                      /\ pc' \in {"keys", "read", "write"} => server' = base.server
                      /\ pc' \in {"write", "rotate", "done"} =>
                             data' = ReadFiles(run, base.files.cfg) /\ Readable(run, base.files.cfg)
                      /\ pc' \in {"rotate", "done"} \/ server'.kr # base.server.kr =>
                             server'.cfg = Upload(run, base.server.cfg, ReadFiles(run, base.files.cfg))
    <3>1. ~edited' => ~edited
      BY <1>2 DEF Next, Step, Fault, Edit, vars, ghosts, ReadKeys, InvalidKeys, ResetDryRunOut, ReadLocal,
                  RejectLocal, ReadRemote, StoreConfiguration, PushConfiguration, WriteDryConfiguration,
                  ConfigurationNotFound, ListWorkspaces, WriteDryKeys, RotationDone, PullKey, PushKey,
                  WriteDryKey, KeyNotFound, WriteNext, RotateNext, Fails, Fail, StoreTorn, WriteDryTorn, PushAnswerLost
    <3> QED BY <2>1, <3>1 DEF Sequenced
  <2>2. /\ pc # "list"
        /\ pc \in {"keys", "read", "write"} => server = base.server
        /\ pc \in {"write", "rotate", "done"} =>
               data = ReadFiles(run, base.files.cfg) /\ Readable(run, base.files.cfg)
        /\ pc \in {"rotate", "done"} \/ server.kr # base.server.kr =>
               server.cfg = Upload(run, base.server.cfg, ReadFiles(run, base.files.cfg))
    BY DEF Sequenced
  <2>3. files = base.files /\ TypeOK
    BY DEF IInv, Blocked
  <2>4. CASE UNCHANGED <<server, data>> /\ (pc' = pc \/ pc' = "failed" \/ (pc = "rotate" /\ pc' = "done"))
    BY <2>2, <2>4
  <2>5. CASE ReadKeys
    <3>1. pc = "keys" /\ pc' = "read" /\ server' = server
      BY <2>5 DEF ReadKeys, AfterKeys, Goto, store
    <3> QED BY <2>2, <3>1
  <2>6. CASE ReadLocal
    <3>1. /\ pc = "read" /\ pc' = "write" /\ server' = server
          /\ data' = ReadFiles(run, files.cfg) /\ Readable(run, files.cfg)
      BY <2>6 DEF ReadLocal, Goto, store
    <3> QED BY <2>2, <2>3, <3>1
  <2>7. CASE PushConfiguration \/ PushAnswerLost
    <3>1. /\ pc = "write" /\ pc' \in {"rotate", "done", "failed"} /\ data' = data
          /\ server' = [server EXCEPT !.cfg = Upload(run, server.cfg, data)]
      BY <2>7 DEF PushConfiguration, PushAnswerLost, WriteNext, Goto, AfterConfiguration
    <3>2. server'.cfg = Upload(run, server.cfg, data) /\ server'.kr = server.kr
      BY <3>1, <2>3 DEF TypeOK, Server
    <3> QED BY <2>2, <3>1, <3>2
  <2>8. ASSUME NEW w \in Wids, PushKey(w)
        PROVE  pc = "rotate" /\ pc' = pc /\ data' = data /\ server'.cfg = server.cfg
    BY <2>3, <2>8 DEF PushKey, RotateNext, TypeOK, Server
  <2>9. CASE InvalidKeys \/ RejectLocal \/ ConfigurationNotFound \/ RotationDone \/ Fail \/ \E w \in Wids : KeyNotFound(w)
    BY <2>4, <2>9 DEF InvalidKeys, RejectLocal, ConfigurationNotFound, RotationDone, Fail, KeyNotFound, Fails, Goto, store
  <2>10. ~ResetDryRunOut /\ ~ReadRemote /\ ~StoreConfiguration /\ ~StoreTorn /\ ~WriteDryConfiguration
         /\ ~WriteDryTorn /\ ~Edit
    BY DEF IInv, Placed, ResetDryRunOut, ReadRemote, StoreConfiguration, StoreTorn, WriteDryConfiguration,
           WriteDryTorn, Edit
  <2>11. ~WriteDryKeys /\ \A w \in Wids : ~PullKey(w) /\ ~WriteDryKey(w)
    BY DEF WriteDryKeys, PullKey, WriteDryKey
  <2>12. ~ListWorkspaces
    BY <2>2 DEF ListWorkspaces
  <2>13. CASE UNCHANGED vars
    BY <2>4, <2>13 DEF vars, store, state
  <2> QED BY <1>2, <2>2, <2>5, <2>6, <2>7, <2>8, <2>9, <2>10, <2>11, <2>12, <2>13 DEF Next, Step, Fault
<1> QED BY <1>1, <1>2

\* A run that was pushed and is past its configuration finds every workspace it has files of.
LEMMA MissingStale ==
    ASSUME NEW f \in Flags, f.tenant, Listed(f), NEW cfgs \in [Wids -> LocalCfg], NEW old \in Data,
           Readable(f, cfgs), NEW w \in Wids, Upload(f, old, ReadFiles(f, cfgs))[w] = Absent
    PROVE  cfgs[w]["root"] = NoPart
<1> SUFFICES ASSUME cfgs[w]["root"] # NoPart PROVE FALSE
  OBVIOUS
<1>1. ReadFiles(f, cfgs)[w] = cfgs[w]
  BY DEF ReadFiles, Choose
<1>2. cfgs[w] \in Cfg
  BY DEF Readable, LocalCfg, Cfg
<1>3. ReadFiles(f, cfgs) \in Data /\ cfgs[w] # Absent
  BY <1>2, NilAssumption, ReadFilesType
<1>4. Upload(f, old, ReadFiles(f, cfgs)) [w] = Apply(f, old[w], cfgs[w])
  BY <1>1, <1>3 DEF Upload
<1>5. Apply(f, old[w], cfgs[w]) \in Cfg
  BY <1>2 DEF Apply, Cfg, Data
<1> QED BY <1>4, <1>5, NilAssumption

-----------------------------------------------------------------------------
\* A pull lists the workspaces in its scope that the server has.
LEMMA ListsPresent ==
    ASSUME Fresh, Pulled, ListWorkspaces, run.cmd = "pull", ~edited,
           NEW w \in Wids, Handles(run, w), ~Missing(w)
    PROVE  w \in queue'
<1>1. pc = "list" /\ queue' = (IF run.tenant THEN TenantWorkspaces ELSE {run.wid})
  BY DEF ListWorkspaces
<1>2. CASE ~run.tenant
  BY <1>1, <1>2 DEF Handles
<1>3. CASE run.tenant /\ Listed(run)
  <2>1. Regular(run)
    BY <1>1, <1>3 DEF Fresh, CommandLine, Listed, Regular
  <2>2. data[w] = server.cfg[w]
    BY <1>1, <1>3, <2>1 DEF Pulled, Choose
  <2> QED BY <1>1, <1>3, <2>2 DEF TenantWorkspaces, Held, Missing
<1>4. CASE run.tenant /\ ~Listed(run)
  BY <1>1, <1>4 DEF TenantWorkspaces
<1> QED BY <1>2, <1>3, <1>4

\* A pull has written the key rotation of the workspaces it is past.
LEMMA PulledStep ==
    ASSUME IInv, Fresh, Pulled, [Next]_vars
    PROVE  Pulled'
<1>1. ASSUME NEW f \in RunFlags, Start(f) PROVE Pulled'
  <2>1. /\ run' = f /\ files' = base'.files /\ queue' = {}
        /\ pc' = (IF ScopeError(f) THEN "failed" ELSE First(f))
    BY <1>1 DEF Start
  <2>2. f.cmd = "pull" => First(f) = IF Regular(f) THEN "read" ELSE "list"
    BY DEF First
  <2> QED BY <2>1, <2>2 DEF Pulled
<1>2. CASE \A f \in RunFlags : ~Start(f)
  <2>1. UNCHANGED <<run, base>> /\ (pc' # "idle" <=> pc # "idle")
    BY <1>2, SameRun
  <2> SUFFICES ASSUME run.cmd = "pull", ~edited', pc # "idle", ~edited
               PROVE  Pulled'
    <3>1. ~edited' => ~edited
      BY <1>2 DEF Next, Step, Fault, Edit, vars, ghosts, ReadKeys, InvalidKeys, ResetDryRunOut, ReadLocal,
                  RejectLocal, ReadRemote, StoreConfiguration, PushConfiguration, WriteDryConfiguration,
                  ConfigurationNotFound, ListWorkspaces, WriteDryKeys, RotationDone, PullKey, PushKey,
                  WriteDryKey, KeyNotFound, WriteNext, RotateNext, Fails, Fail, StoreTorn, WriteDryTorn, PushAnswerLost
    <3> QED BY <2>1, <3>1 DEF Pulled
  <2>2. /\ pc \in {"write", "list"} /\ Regular(run) => data = Choose(run, server.cfg)
        /\ \A w \in Wids : pc \in {"read", "write", "list"} \/ w \in queue => files.kr[w] = base.files.kr[w]
        /\ \A w \in Wids : KeyRotation(run) /\ pc \in {"rotate", "done"} /\ Handles(run, w) /\ ~Missing(w) =>
               PulledKey(w) \/ w \in queue
        /\ pc = "done" => queue = {}
    BY DEF Pulled
  <2>3. TypeOK
    BY DEF IInv
  <2>4. CASE UNCHANGED <<files, server, data, queue>>
             /\ (pc' = pc \/ pc' = "failed" \/ (pc = "rotate" /\ pc' = "done" /\ queue = {}))
    <3>1. \A w \in Wids : PulledKey(w)' = PulledKey(w) /\ Missing(w)' = Missing(w) /\ Handles(run, w)' = Handles(run, w)
      BY <2>1, <2>4 DEF PulledKey, Missing, Handles
    <3> QED BY <2>1, <2>2, <2>4, <3>1 DEF Pulled
  <2>5. CASE ReadRemote
    <3>1. /\ pc = "read" /\ pc' = "write" /\ UNCHANGED <<files, server, queue>>
          /\ data' = Choose(run, server.cfg)
      BY <2>5 DEF ReadRemote, Goto, store
    <3> QED BY <2>1, <2>2, <3>1 DEF Pulled
  <2>6. CASE StoreConfiguration \/ StoreTorn
    <3>1. /\ pc = "write" /\ UNCHANGED <<server, data, queue>>
          /\ pc' \in {"list", "done", "failed"} /\ (pc' = "done" => ~KeyRotation(run))
      BY <2>6 DEF StoreConfiguration, StoreTorn, WriteNext, Goto, AfterConfiguration
    <3>2. files'.kr = files.kr
      BY <2>3, <2>6 DEF StoreConfiguration, StoreTorn, TypeOK, Files
    <3>3. pc' = "done" => queue = {}
      BY <3>1 DEF Fresh
    <3> QED BY <2>1, <2>2, <3>1, <3>2, <3>3 DEF Pulled
  <2>7. CASE ListWorkspaces
    <3>1. pc = "list" /\ pc' = "rotate" /\ UNCHANGED <<files, server>>
      BY <2>7 DEF ListWorkspaces, Goto, store
    <3>2. \A w \in Wids : Handles(run, w) /\ ~Missing(w) => w \in queue'
      BY <2>7, ListsPresent
    <3>3. \A w \in Wids : Missing(w)' = Missing(w) /\ Handles(run, w)' = Handles(run, w)
      BY <2>1, <3>1 DEF Missing, Handles
    <3> QED BY <2>1, <2>2, <3>1, <3>2, <3>3 DEF Pulled
  <2>8. ASSUME NEW w \in Wids, PullKey(w) PROVE Pulled'
    <3>1. /\ pc = "rotate" /\ pc' = pc /\ w \in queue /\ queue' = queue \ {w} /\ UNCHANGED <<server, data>>
          /\ files' = [files EXCEPT !.kr[w] = IF server.kr[w] = NoKey THEN @ ELSE server.kr[w]]
      BY <2>8 DEF PullKey, RotateNext, Least
    <3>2. /\ files'.kr[w] = IF server.kr[w] = NoKey THEN files.kr[w] ELSE server.kr[w]
          /\ \A v \in Wids : v # w => files'.kr[v] = files.kr[v]
      BY <2>3, <3>1 DEF TypeOK, Files
    <3>3. files.kr[w] = base.files.kr[w]
      BY <2>2, <3>1
    <3>4. \A v \in Wids : Missing(v)' = Missing(v) /\ Handles(run, v)' = Handles(run, v)
      BY <2>1, <3>1 DEF Missing, Handles
    <3>5. PulledKey(w)' /\ \A v \in Wids : v # w => PulledKey(v)' = PulledKey(v)
      BY <2>1, <3>1, <3>2, <3>3 DEF PulledKey
    <3> QED BY <2>1, <2>2, <3>1, <3>2, <3>4, <3>5 DEF Pulled
  <2>9. CASE RotationDone \/ Fail \/ UNCHANGED vars \/ InvalidKeys \/ RejectLocal \/ ConfigurationNotFound
             \/ \E w \in Wids : KeyNotFound(w)
    BY <2>4, <2>9 DEF RotationDone, Fail, InvalidKeys, RejectLocal, ConfigurationNotFound, KeyNotFound, Fails, Goto,
                      vars, store, state
  <2>10. ~run.dry
    BY DEF Fresh, CommandLine
  <2>11. ~ReadKeys /\ ~ResetDryRunOut /\ ~ReadLocal /\ ~PushConfiguration /\ ~WriteDryConfiguration /\ ~WriteDryKeys
         /\ ~WriteDryTorn /\ ~PushAnswerLost /\ ~Edit /\ \A w \in Wids : ~PushKey(w) /\ ~WriteDryKey(w)
    BY <2>10 DEF IInv, Placed, ReadKeys, ResetDryRunOut, ReadLocal, PushConfiguration, WriteDryConfiguration,
                 WriteDryKeys, WriteDryTorn, PushAnswerLost, Edit, PushKey, WriteDryKey
  <2> QED BY <1>2, <2>5, <2>6, <2>7, <2>8, <2>9, <2>11 DEF Next, Step, Fault
<1> QED BY <1>1, <1>2

-----------------------------------------------------------------------------
\* Appending to nothing, and nothing, in outputs.
LEMMA EmptyChunks ==
    ASSUME NEW s \in Seq(Chunk)
    PROVE  <<>> \o s = s /\ s \o <<>> = s
BY DEF Chunk

\* What is written in a run is of that run.
LEMMA OutputOfRun ==
    ASSUME TypeOK
    PROVE  /\ ConfigurationOutput \in Seq(Chunk)
           /\ \A i \in DOMAIN ConfigurationOutput : ConfigurationOutput[i].run = runs
           /\ RunOutput = ConfigurationOutput \o Chunks("key_rotation", ItemSet)
           /\ \A i \in DOMAIN RunOutput : RunOutput[i].run = runs
<1>1. Held \subseteq Wids /\ ItemSet \subseteq Wids
  BY DEF Held, ItemSet
<1>2. ConfigurationOutput \in Seq(Chunk) /\ \A i \in DOMAIN ConfigurationOutput : ConfigurationOutput[i].run = runs
  <2>1. CASE Regular(run)
    <3>1. ConfigurationOutput = <<[run |-> runs, about |-> "configuration", wids |-> Held]>>
      BY <2>1 DEF ConfigurationOutput
    <3>2. <<[run |-> runs, about |-> "configuration", wids |-> Held]>> \in Seq(Chunk)
      BY <1>1, ChunksType
    <3> QED BY <3>1, <3>2
  <2>2. CASE ~Regular(run)
    BY <2>2 DEF ConfigurationOutput
  <2> QED BY <2>1, <2>2
<1>3. RunOutput = ConfigurationOutput \o Chunks("key_rotation", ItemSet)
  BY DEF RunOutput, ConfigurationOutput, ItemSet
<1>4. /\ Chunks("key_rotation", ItemSet) \in Seq(Chunk)
      /\ \A i \in DOMAIN Chunks("key_rotation", ItemSet) : Chunks("key_rotation", ItemSet)[i].run = runs
  <2>1. Chunks("key_rotation", ItemSet) \in Seq(Chunk)
    BY <1>1, ChunksType
  <2> QED BY <2>1 DEF Chunks
<1> HIDE DEF ConfigurationOutput, Chunks, ItemSet, RunOutput
<1> QED BY <1>2, <1>3, <1>4 DEF Chunk

\* What --out holds depends on the run's data and items and on what is left.
LEMMA PrintedKept ==
    ASSUME Printed, UNCHANGED <<run, base, runs, out, data, items, queue>>, pc # "idle",
           pc' = pc \/ pc' = "failed" \/ (pc = "rotate" /\ pc' = "done" /\ queue = {}), TypeOK
    PROVE  Printed'
<1>1. /\ ItemSet' = ItemSet /\ ConfigurationOutput' = ConfigurationOutput /\ RunOutput' = RunOutput
      /\ Destination' = Destination /\ (DirHolds' <=> DirHolds)
  BY DEF ItemSet, ConfigurationOutput, RunOutput, Destination, DirHolds, DirConfiguration, Held, Chunks
<1>2. queue = {} /\ queue = ItemSet => ConfigurationOutput = RunOutput
  BY OutputOfRun, EmptyChunks DEF Chunks
<1> QED BY <1>1, <1>2 DEF Printed

\* A dry run that starts: nothing is on stdout.
LEMMA StartPrinted ==
    ASSUME IInv, NEW f \in RunFlags, Start(f)
    PROVE  Printed'
<1>1. /\ run' = f /\ out' = [out EXCEPT !.stdout = <<>>] /\ base'.out = out' /\ queue' = {}
      /\ items' = [w \in Wids |-> NoKey] /\ pc' = (IF ScopeError(f) THEN "failed" ELSE First(f))
  BY DEF Start
<1>2. out'.stdout = <<>>
  BY <1>1 DEF IInv, TypeOK, Out
<1>3. f.dry => First(f) \in {"keys", "reset"}
  BY FlagsAssumption DEF First, Start, CommandLine, Flags
<1>4. ItemSet' = {}
  BY <1>1 DEF ItemSet
<1> QED BY <1>1, <1>2, <1>3, <1>4 DEF Printed

\* readKeyRotations and resetDryRunOut in a dry run.
LEMMA BeginningPrinted ==
    ASSUME IInv, Fresh, Printed, run.dry, ReadKeys \/ ResetDryRunOut
    PROVE  Printed'
<1>1. UNCHANGED <<run, base, runs, data>> /\ TypeOK
  BY DEF IInv, ReadKeys, ResetDryRunOut, ghosts
<1>2. CASE ReadKeys
  <2>1. pc = "keys" /\ pc' = "reset" /\ out' = out /\ queue' = {w \in Wids : items'[w] # NoKey}
    BY <1>2 DEF ReadKeys, Goto, AfterKeys, store
  <2>2. queue' = ItemSet'
    BY <2>1 DEF ItemSet
  <2> QED BY <1>1, <2>1, <2>2 DEF Printed
<1>3. CASE ResetDryRunOut
  <2>1. /\ pc = "reset" /\ pc' = AfterReset /\ UNCHANGED <<items, queue>>
        /\ out' = [out EXCEPT !.file = Emptied(run, out.file)]
    BY <1>3 DEF ResetDryRunOut, Goto
  <2>2. /\ out'.stdout = out.stdout /\ out'.dir = out.dir
        /\ out'.file = IF run.out = "file" THEN <<>> ELSE out.file
    BY <1>1, <2>1 DEF TypeOK, Out, Emptied
  <2>3. /\ queue = ItemSet /\ out.stdout = <<>> /\ out.dir = base.out.dir
        /\ out.file # base.out.file => \A i \in DOMAIN out.file : out.file[i].run = runs
    BY <2>1 DEF Printed
  <2>4. ItemSet' = ItemSet
    BY <2>1 DEF ItemSet
  <2>5. out'.file # base.out.file => \A i \in DOMAIN out'.file : out'.file[i].run = runs
    BY <2>2, <2>3
  <2>6. CASE Regular(run)
    BY <1>1, <2>1, <2>2, <2>3, <2>4, <2>5, <2>6 DEF Printed, AfterReset
  <2>7. CASE ~Regular(run)
    <3>1. pc' = "rotate" /\ ConfigurationOutput' = <<>> /\ queue' = ItemSet'
      BY <1>1, <2>1, <2>3, <2>4, <2>7 DEF AfterReset, ConfigurationOutput, Regular
    <3>2. run.out # "dir" => Destination' = <<>>
      BY <1>1, <2>2, <2>3 DEF Destination, TypeOK, Flags
    <3>3. DirHolds'
      BY <1>1, <2>1, <2>2, <2>3, <2>7 DEF DirHolds, DirConfiguration, Held, ItemSet, Fresh
    <3> QED BY <1>1, <2>5, <3>1, <3>2, <3>3 DEF Printed
  <2> QED BY <2>6, <2>7
<1> QED BY <1>2, <1>3

\* The configuration is read, then written to --out.
LEMMA ConfigurationPrinted ==
    ASSUME IInv, Fresh, Printed, run.dry, ReadLocal \/ WriteDryConfiguration
    PROVE  Printed'
<1>1. UNCHANGED <<run, base, runs, items, queue>> /\ TypeOK /\ Regular(run)
  BY DEF IInv, Placed, ReadLocal, WriteDryConfiguration, WriteNext, ghosts
<1>2. ItemSet' = ItemSet
  BY <1>1 DEF ItemSet
<1>3. CASE ReadLocal
  <2>1. pc = "read" /\ pc' = "write" /\ out' = out
    BY <1>3 DEF ReadLocal, Goto, store
  <2> QED BY <1>1, <1>2, <2>1 DEF Printed
<1>4. CASE WriteDryConfiguration
  <2> DEFINE chunks == <<[run |-> runs, about |-> "configuration", wids |-> Held]>>
  <2>1. /\ pc = "write" /\ pc' = (IF KeyRotation(run) THEN "rotate" ELSE "done") /\ data' = data
        /\ out' = CASE run.out = "stdout" -> [out EXCEPT !.stdout = out.stdout \o chunks]
                    [] run.out = "file" -> [out EXCEPT !.file = chunks]
                    [] OTHER -> [out EXCEPT !.dir.cfg = Store(out.dir.cfg, data)]
    BY <1>4 DEF WriteDryConfiguration, WriteNext, Goto, AfterConfiguration
  <2>2. /\ queue = ItemSet /\ out.stdout = <<>> /\ (run.out = "file" => out.file = <<>>)
        /\ out.dir = base.out.dir
        /\ out.file # base.out.file => \A i \in DOMAIN out.file : out.file[i].run = runs
    BY <2>1 DEF Printed
  <2>3. chunks \in Seq(Chunk) /\ chunks = ConfigurationOutput /\ Held' = Held
    BY <1>1, <2>1, ChunksType DEF ConfigurationOutput, Held
  <2>4. ConfigurationOutput' = ConfigurationOutput /\ RunOutput' = RunOutput
    BY <1>1, <2>1 DEF ConfigurationOutput, RunOutput, Held, Chunks, Regular
  <2>5. ~KeyRotation(run) => queue = {}
    BY <2>1 DEF Fresh
  <2>6. queue = {} => RunOutput = ConfigurationOutput
    BY <1>1, <2>2, OutputOfRun, EmptyChunks DEF Chunks
  <2>7. run.out # "dir" => Destination' = ConfigurationOutput
    <3> HIDE DEF chunks
    <3>1. <<>> \o chunks = chunks
      BY <2>3, EmptyChunks
    <3>2. CASE run.out = "stdout"
      <4>1. out'.stdout = <<>> \o chunks
        BY <1>1, <2>1, <2>2, <3>2 DEF TypeOK, Out
      <4> QED BY <1>1, <2>3, <3>1, <3>2, <4>1 DEF Destination
    <3>3. CASE run.out = "file"
      <4>1. out'.file = chunks
        BY <1>1, <2>1, <3>3 DEF TypeOK, Out
      <4> QED BY <1>1, <2>3, <3>3, <4>1 DEF Destination
    <3> QED BY <1>1, <3>2, <3>3 DEF TypeOK, Flags
  <2>8. out'.file # base.out.file => \A i \in DOMAIN out'.file : out'.file[i].run = runs
    <3> HIDE DEF chunks
    <3>1. CASE run.out = "file"
      <4>1. out'.file = ConfigurationOutput
        BY <1>1, <2>1, <2>3, <3>1 DEF TypeOK, Out
      <4> QED BY <1>1, <4>1, OutputOfRun
    <3>2. CASE run.out # "file"
      <4>1. out'.file = out.file
        BY <1>1, <2>1, <3>2 DEF TypeOK, Out
      <4> QED BY <2>2, <4>1
    <3> QED BY <3>1, <3>2
  <2>9. run.out = "dir" => DirHolds'
    <3> SUFFICES ASSUME run.out = "dir" PROVE DirHolds'
      OBVIOUS
    <3>1. out' = [out EXCEPT !.dir.cfg = Store(out.dir.cfg, data)]
      BY <2>1
    <3>2. out'.dir.cfg = Store(out.dir.cfg, data) /\ out'.dir.kr = out.dir.kr
      BY <1>1, <3>1 DEF TypeOK, Out, Files
    <3>3. base'.out.dir.cfg = out.dir.cfg /\ data' = data /\ Held' = Held
      BY <1>1, <2>1, <2>2, <2>3
    <3>4. \A w \in Wids \ Held : out'.dir.cfg[w] = out.dir.cfg[w]
      BY <3>2 DEF Store, Held
    <3>5. ASSUME NEW w \in Held, NEW p \in Parts
          PROVE  IF data[w][p] # NoPart THEN out'.dir.cfg[w][p] = data[w][p]
                 ELSE p = "root" \/ out'.dir.cfg[w][p] = out.dir.cfg[w][p]
      BY <3>2 DEF Store, StoreCfg, Held
    <3>6. DirConfiguration'
      BY <3>3, <3>4, <3>5 DEF DirConfiguration
    <3> QED BY <1>1, <1>2, <2>1, <2>2, <3>2, <3>6 DEF DirHolds
  <2> HIDE DEF chunks
  <2>10. CASE KeyRotation(run)
    BY <1>1, <1>2, <2>1, <2>2, <2>4, <2>7, <2>8, <2>9, <2>10 DEF Printed
  <2>11. CASE ~KeyRotation(run)
    BY <1>1, <1>2, <2>1, <2>2, <2>4, <2>5, <2>6, <2>7, <2>8, <2>9, <2>11 DEF Printed
  <2> QED BY <2>10, <2>11
<1> QED BY <1>3, <1>4

\* Key rotation follows it, in one write ...
LEMMA KeysPrinted ==
    ASSUME IInv, Printed, WriteDryKeys
    PROVE  Printed'
<1> DEFINE chunks == Chunks("key_rotation", queue)
<1>1. /\ TypeOK /\ pc = "rotate" /\ queue # {} /\ run.dry /\ run.out # "dir" /\ queue' = {}
      /\ UNCHANGED <<run, base, runs, data, items, pc>>
      /\ out' = IF run.out = "stdout" THEN [out EXCEPT !.stdout = out.stdout \o chunks]
                ELSE [out EXCEPT !.file = out.file \o chunks]
  BY DEF IInv, WriteDryKeys, ghosts
<1>2. /\ queue = ItemSet /\ Destination = ConfigurationOutput
      /\ out.file # base.out.file => \A i \in DOMAIN out.file : out.file[i].run = runs
  BY <1>1 DEF Printed
<1>3. /\ ItemSet' = ItemSet /\ RunOutput' = RunOutput
  BY <1>1 DEF ItemSet, ConfigurationOutput, RunOutput, Held, Chunks, Regular
<1> HIDE DEF chunks
<1>4. Destination' = Destination \o chunks
  BY <1>1 DEF Destination, TypeOK, Out
<1>5. Destination' = RunOutput
  BY <1>1, <1>2, <1>4, OutputOfRun DEF chunks
<1>6. out'.file # base.out.file => \A i \in DOMAIN out'.file : out'.file[i].run = runs
  <2>1. CASE run.out = "stdout"
    <3>1. out'.file = out.file
      BY <1>1, <2>1 DEF TypeOK, Out
    <3> QED BY <1>2, <3>1
  <2>2. CASE run.out # "stdout"
    <3>1. out'.file = RunOutput
      BY <1>1, <1>5, <2>2 DEF Destination
    <3> QED BY <1>1, <3>1, OutputOfRun
  <2> QED BY <2>1, <2>2
<1> QED BY <1>1, <1>3, <1>5, <1>6 DEF Printed

\* ... or a file per workspace.
LEMMA KeyPrinted ==
    ASSUME IInv, Printed, NEW w \in Wids, WriteDryKey(w)
    PROVE  Printed'
<1>1. /\ TypeOK /\ pc = "rotate" /\ run.dry /\ run.out = "dir" /\ queue' = queue \ {w}
      /\ UNCHANGED <<run, base, runs, data, items, pc>>
      /\ out' = [out EXCEPT !.dir.kr[w] = items[w]]
  BY DEF IInv, WriteDryKey, RotateNext, ghosts
<1>2. /\ out'.file = out.file /\ out'.dir.cfg = out.dir.cfg /\ out'.dir.kr[w] = items[w]
      /\ \A v \in Wids : v # w => out'.dir.kr[v] = out.dir.kr[v]
  BY <1>1 DEF TypeOK, Out, Files
<1>3. DirHolds'
  <2>1. DirHolds /\ w \in ItemSet /\ ItemSet' = ItemSet
    BY <1>1 DEF Printed, DirHolds, ItemSet, WriteDryKey, Least
  <2> QED BY <1>1, <1>2, <2>1 DEF DirHolds, DirConfiguration, Held
<1> QED BY <1>1, <1>2, <1>3 DEF Printed

\* A dry run has written what it has handled.
LEMMA PrintedStep ==
    ASSUME IInv, Fresh, Printed, [Next]_vars
    PROVE  Printed'
<1>1. CASE \E f \in RunFlags : Start(f)
  BY <1>1, StartPrinted
<1>2. CASE \A f \in RunFlags : ~Start(f)
  <2>1. UNCHANGED <<run, base, runs>> /\ (pc' # "idle" <=> pc # "idle") /\ TypeOK
    BY <1>2, SameRun DEF IInv
  <2> SUFFICES ASSUME run.dry, pc # "idle" PROVE Printed'
    BY <2>1 DEF Printed
  <2>2. run.cmd = "push"
    BY DEF Fresh, CommandLine
  <2>3. CASE \/ InvalidKeys \/ RejectLocal \/ ConfigurationNotFound \/ RotationDone \/ Fail \/ Edit \/ UNCHANGED vars
             \/ \E w \in Wids : KeyNotFound(w)
    BY <2>1, <2>3, PrintedKept DEF InvalidKeys, RejectLocal, ConfigurationNotFound, RotationDone, Fail, KeyNotFound,
                                   Fails, Goto, Edit, vars, store, state
  <2>4. ~ReadRemote /\ ~StoreConfiguration /\ ~StoreTorn /\ ~PushConfiguration /\ ~PushAnswerLost
        /\ \A w \in Wids : ~PullKey(w) /\ ~PushKey(w)
    BY <2>2 DEF ReadRemote, StoreConfiguration, StoreTorn, PushConfiguration, PushAnswerLost, PullKey, PushKey
  <2>5. ~ListWorkspaces
    BY DEF Printed, ListWorkspaces
  <2>6. CASE WriteDryTorn
    <3>1. pc' = "failed" /\ out'.file = out.file
      BY <2>1, <2>6 DEF WriteDryTorn, Goto, TypeOK, Out
    <3> QED BY <2>1, <3>1 DEF Printed
  <2> QED BY <1>2, <2>3, <2>4, <2>5, <2>6, BeginningPrinted, ConfigurationPrinted, KeysPrinted, KeyPrinted
          DEF Next, Step, Fault
<1> QED BY <1>1, <1>2

-----------------------------------------------------------------------------
\* Every behaviour keeps all of it.
THEOREM RunInvariance == Spec => []RunInv
<1>1. Init => RunInv
  BY InitInv DEF RunInv, Init, Fresh, Sequenced, Pulled, Printed
<1>2. RunInv /\ [Next]_vars => RunInv'
  BY NextInv, FreshStep, SequencedStep, PulledStep, PrintedStep DEF RunInv
<1> QED BY <1>1, <1>2, PTL DEF Spec

\* A push applies the configuration before any key rotation, which then misses only stale directories.
THEOREM RotationFollows == Spec => []RotationAfterConfiguration
<1>1. RunInv => RotationAfterConfiguration
  <2> SUFFICES ASSUME RunInv, run.cmd = "push", ~run.dry, Regular(run), ~edited, pc # "idle"
               PROVE  /\ server.kr # base.server.kr =>
                             server.cfg = Upload(run, base.server.cfg, ReadFiles(run, base.files.cfg))
                      /\ pc = "rotate" /\ run.tenant /\ Listed(run) =>
                             \A w \in queue : Missing(w) => base.files.cfg[w]["root"] = NoPart
    BY DEF RotationAfterConfiguration
  <2>1. TypeOK
    BY DEF RunInv, IInv
  <2>2. ASSUME pc = "rotate", run.tenant, Listed(run), NEW w \in queue, Missing(w)
        PROVE  base.files.cfg[w]["root"] = NoPart
    <3>1. /\ Readable(run, base.files.cfg)
          /\ Upload(run, base.server.cfg, ReadFiles(run, base.files.cfg))[w] = Absent
      BY <2>2 DEF RunInv, Sequenced, Missing
    <3>2. /\ run \in Flags /\ w \in Wids
          /\ base.files.cfg \in [Wids -> LocalCfg] /\ base.server.cfg \in Data
      BY <2>1, <2>2 DEF TypeOK, Files, Server, Data
    <3> QED BY <2>2, <3>1, <3>2, MissingStale
  <2> QED BY <2>2 DEF RunInv, Sequenced
<1> QED BY RunInvariance, <1>1, PTL

\* A pull that succeeds has the server's key rotation of every workspace in its scope.
THEOREM PullsRotation == Spec => []PulledRotation
<1>1. RunInv => PulledRotation
  <2>1. InScope(run) => KeyRotation(run)
    BY DEF InScope, KeyRotation, Named
  <2> QED BY <2>1 DEF RunInv, Pulled, PulledKey, PulledRotation
<1> QED BY RunInvariance, <1>1, PTL

\* The --out of a dry run holds what this run has written, all of it when the run succeeds.
THEOREM DryRunOutput == Spec => []OutIsThisRuns
<1>1. RunInv => OutIsThisRuns
  <2> SUFFICES ASSUME RunInv, pc # "idle", run.dry, pc = "done"
               PROVE  CASE run.out = "stdout" -> out.stdout = RunOutput
                        [] run.out = "file" -> out.file = RunOutput
                        [] OTHER -> /\ \A w \in Wids : out.dir.kr[w] =
                                           IF items[w] = NoKey THEN base.out.dir.kr[w] ELSE items[w]
                                    /\ DirConfiguration
    BY DEF RunInv, Printed, OutIsThisRuns
  <2>1. run.out \in {"stdout", "file", "dir"}
    BY DEF RunInv, IInv, TypeOK, Flags
  <2>2. CASE run.out = "dir"
    BY <2>2 DEF RunInv, Printed, DirHolds, ItemSet
  <2>3. CASE run.out # "dir"
    BY <2>1, <2>3 DEF RunInv, Printed, Destination
  <2> QED BY <2>2, <2>3
<1> QED BY RunInvariance, <1>1, PTL
=============================================================================
