---------------------------- MODULE DiffRunProofs ----------------------------
(***************************************************************************)
(* What a diff guarantees for every configuration file, command line and   *)
(* world, and any number of workspaces and changes by others: it reads key *)
(* rotation only with the rights to, and leaves nothing out silently.      *)
(***************************************************************************)
EXTENDS DiffRun, KeyRotationTheorems, TLAPS

\* A profile of a loaded configuration is one, or unknown.
LEMMA ForProfileType ==
    ASSUME Default \in DOMAIN root, root \in [DOMAIN root -> Configuration], NEW p
    PROVE  ForProfile(root, p) \in Configuration \cup {Unknown}
BY DEF ForProfile

\* InitConfig loads a file into complete profiles.
LEMMA InitConfigType ==
    ASSUME NEW file, IsConfigFile(file)
    PROVE  /\ Default \in DOMAIN InitConfig(file)
           /\ InitConfig(file) \in [DOMAIN InitConfig(file) -> Configuration]
<1> DEFINE conf(p) == SetImplicitValues(file[p], p, file[Default])
<1>1. ASSUME NEW p \in DOMAIN file PROVE conf(p) \in Configuration
  <2>1. file[p] \in Section /\ file[Default] \in Section /\ p \in Names
    BY DEF IsConfigFile, Names
  <2>2. /\ OrElse(file[p].name, p) \in Names
        /\ OrElse(file[p].client, file[Default].client) \in Client
        /\ OrElse(file[p].storage, file[Default].storage) \in Stores
        /\ OrElse(file[p].features, file[Default].features) \in BOOLEAN
    BY <2>1 DEF IsConfigFile, Section, OrElse
  <2> QED BY <2>2 DEF SetImplicitValues, Configuration
<1>2. InitConfig(file) = [p \in DOMAIN file |-> conf(p)]
  BY DEF InitConfig
<1> HIDE DEF conf
<1> QED BY <1>1, <1>2 DEF IsConfigFile

\* Merged keys are keys, with items below them when either has.
LEMMA MergedItems ==
    ASSUME NEW over \in Items \cup {NoKind}, NEW under \in Items \cup {NoKind}
    PROVE  /\ MergeItems(over, under) \in Items \cup {NoKind}
           /\ over # NoKind /\ under # NoKind => MergeItems(over, under) \in Items
<1>1. ASSUME NEW i \in Ids, over # NoKind, under # NoKind
      PROVE  MergeItem(over[i], under[i]) \in Item \cup {NoItem}
  BY <1>1 DEF MergeItem, Items, Item
<1> QED BY <1>1 DEF MergeItems, Items

\* The configuration of a side, merged and filtered.
LEMMA PatchType ==
    ASSUME world \in Worlds, NEW conf \in Configuration, NEW type \in SourceTypes
    PROVE  FilterPatch(PickSource(conf, type)) \in Patch
<1>1. world.local[conf.storage] \in Patch /\ world.remote[conf.client.server] \in Patch
  BY DEF Worlds, Configuration, Client
<1>3. ASSUME NEW over \in Patch, NEW under \in Patch
      PROVE  MergePatch(over, under) \in Patch
  BY <1>3, MergedItems DEF MergePatch, Patch
<1>4. PickSource(conf, type) \in Patch
  BY <1>1, <1>3 DEF PickSource, SourceTypes
<1> QED BY <1>4 DEF FilterPatch, Patch

-----------------------------------------------------------------------------
(***************************************************************************)
(* The inductive invariant.  Where a run is tells what was checked before: *)
(* the selected profile (Validated), the profiles of both sides (Gated);   *)
(* and what is compared and marked so far (Marked).                        *)
(***************************************************************************)
Validated ==
    /\ pc \notin {"idle", "failed"} =>
           /\ Selected # Unknown /\ ValidProfile(Selected)
           /\ ~flags.sub /\ Explicit => Selected.features
    /\ pc \in {"gate", "list", "local", "get"} => KeyRotation

Gated ==
    /\ pc \in {"list", "local", "get"} => \A i \in Sides : Gate(i) = "pass"
    /\ pc \in {"idle", "gate", "list"} => at = 1
    /\ pc = "get" => /\ flags.source.source = "local" => at # 1
                     /\ flags.target.source = "local" => at # 2
                     /\ left # UseSet => got[at] # NoConfig

MaySkip == ~Explicit /\ \E i \in Sides : Type(i) # "local" /\ ~Conf(i).features
Marked ==
    /\ shown.skipped => pc = "done" /\ MaySkip /\ shown.compared = {}
    /\ pc \in {"idle", "config", "gate", "list"} => shown.compared = {}
    /\ pc = "list" => flags.tenant
    /\ pc \in {"local", "get"} => flags.tenant \/ queue = {flags.wid}
    /\ pc = "done" /\ KeyRotation /\ ~shown.skipped => flags.tenant \/ flags.wid \in shown.compared

IInv == TypeOK /\ Validated /\ Gated /\ Marked /\ KeysReadWithFeature

\* The initial states satisfy it.
THEOREM InitInv == Init => IInv
<1> SUFFICES ASSUME Init PROVE IInv
  OBVIOUS
<1>1. Default \in DOMAIN root /\ root \in [DOMAIN root -> Configuration]
  BY InitConfigType, RunAssumption DEF Init
<1>2. TypeOK
  <2>1. patch \in [Sides -> Patch] /\ got \in [Sides -> Config \cup {NoConfig}]
    BY DEF Init, Patch, NoPatch
  <2>2. shown \in Result
    BY DEF Init, Result
  <2>3. flags \in Flags /\ world \in Worlds /\ outside \in 0..MaxOutside
    BY RunAssumption DEF Init
  <2> QED BY <1>1, <2>1, <2>2, <2>3 DEF Init, TypeOK, Sides, Running
<1>3. Validated /\ Gated /\ Marked /\ KeysReadWithFeature
  BY DEF Init, Validated, Gated, Marked, KeysReadWithFeature
<1> QED BY <1>2, <1>3 DEF IInv

-----------------------------------------------------------------------------
\* The sides of a run are decided by the profiles and the command line, which nothing changes.
LEMMA Fixed ==
    ASSUME UNCHANGED <<root, flags>>
    PROVE  /\ Selected' = Selected /\ Explicit' = Explicit /\ KeyRotation' = KeyRotation /\ MaySkip' = MaySkip
           /\ \A i \in Sides : Gate(i)' = Gate(i)
BY DEF Selected, Explicit, KeyRotation, MaySkip, Gate, Conf, Type, SideSpec

\* What others change is only the world.
LEMMA WorldInv ==
    ASSUME IInv, world' \in Worlds, touched' \subseteq (Stores \cup Servers) \X Wids, outside' \in 0..MaxOutside,
           UNCHANGED <<root, flags, pc, progress, patch, shown, asked>>
    PROVE  IInv'
<1>1. TypeOK'
  BY DEF IInv, TypeOK, progress
<1>2. Validated' /\ Gated' /\ Marked'
  BY Fixed DEF IInv, Validated, Gated, Marked, progress
<1>3. KeysReadWithFeature'
  BY Fixed DEF IInv, KeysReadWithFeature
<1> QED BY <1>1, <1>2, <1>3 DEF IInv

\* What a step of the run has to keep when it neither asks a server nor changes the world.
LEMMA RunInv ==
    ASSUME IInv, UNCHANGED <<given, ghosts>>,
           TypeOK', Validated', Gated', Marked'
    PROVE  IInv'
BY Fixed DEF IInv, KeysReadWithFeature, given, ghosts

\* A run that stops has nothing marked.
LEMMA StopInv ==
    ASSUME IInv, Stop, pc \in Running
    PROVE  IInv'
<1>1. UNCHANGED <<given, progress, patch, shown, ghosts>> /\ pc' = "failed"
  BY DEF Stop
<1>2. TypeOK'
  BY <1>1 DEF IInv, TypeOK, given, progress, ghosts
<1>3. Validated' /\ Gated' /\ Marked'
  BY <1>1, Fixed DEF IInv, Validated, Gated, Marked, Running, given, progress
<1> QED BY <1>1, <1>2, <1>3, RunInv

\* InitApp and scopeOf.
LEMMA StartInv ==
    ASSUME IInv, Start
    PROVE  IInv'
<1>1. /\ UNCHANGED <<given, progress, patch, shown, ghosts>> /\ pc = "idle"
      /\ pc' \in {"failed", "config", "gate"} /\ at' = 1
  BY DEF IInv, Gated, Start, progress
<1>2. TypeOK'
  BY <1>1 DEF IInv, TypeOK, Running, given, progress, ghosts
<1>3. pc' # "failed" => Selected # Unknown /\ ValidProfile(Selected) /\ (~flags.sub /\ Explicit => Selected.features)
  BY DEF Start
<1>4. pc' = "gate" => KeyRotation
  <2>1. pc' = "gate" => ~Regular
    BY DEF Start
  <2> QED BY <2>1, <1>3 DEF Regular, KeyRotation, Explicit
<1>5. Validated' /\ Gated' /\ Marked'
  BY <1>1, <1>3, <1>4, Fixed DEF IInv, Validated, Gated, Marked, given
<1> QED BY <1>1, <1>2, <1>5, RunInv

\* runDiff reads and compares the configurations.
LEMMA ReadConfigInv ==
    ASSUME IInv, ReadConfig
    PROVE  IInv'
<1> DEFINE read == FilterPatch(PickSource(Conf(at), Type(at)))
<1>1. /\ TypeOK /\ UNCHANGED <<given, queue, left, got, ghosts>> /\ pc = "config" /\ ConfigReadable(at)
      /\ patch' = [patch EXCEPT ![at] = read]
      /\ at \in Sides
  BY DEF IInv, TypeOK, ReadConfig
<1>2. read \in Patch
  <2>1. Conf(at) \in Configuration
    BY <1>1, ForProfileType DEF TypeOK, ConfigReadable, Conf, ResolveSource
  <2>2. Type(at) \in SourceTypes /\ world \in Worlds
    BY <1>1 DEF TypeOK, Type, SideSpec, Flags, SourceSpecs
  <2> QED BY <2>1, <2>2, PatchType
<1> HIDE DEF read
<1>3. CASE at = 1
  <2>1. at' = 2 /\ UNCHANGED <<pc, shown>>
    BY <1>3 DEF ReadConfig
  <2>2. TypeOK'
    BY <1>1, <1>2, <2>1 DEF TypeOK, Sides, given, ghosts
  <2>3. Validated' /\ Gated' /\ Marked'
    BY <1>1, <2>1, Fixed DEF IInv, Validated, Gated, Marked, given
  <2> QED BY <1>1, <2>2, <2>3, RunInv
<1>4. CASE at = 2
  <2>1. /\ shown' = [shown EXCEPT !.items = DiffTree(patch[1], read)]
        /\ pc' = (IF KeyRotation THEN "gate" ELSE "done") /\ at' = 1
    BY <1>4 DEF ReadConfig, read
  <2>2. /\ shown' \in Result /\ shown'.compared = shown.compared /\ shown'.skipped = shown.skipped
    BY <1>1, <2>1 DEF TypeOK, Result, DiffTree
  <2>3. TypeOK'
    BY <1>1, <1>2, <2>1, <2>2 DEF TypeOK, Sides, Running, given, ghosts
  <2>4. Validated' /\ Gated' /\ Marked'
    BY <1>1, <2>1, <2>2, Fixed DEF IInv, Validated, Gated, Marked, given
  <2> QED BY <1>1, <2>3, <2>4, RunInv
<1> QED BY <1>1, <1>3, <1>4 DEF Sides

\* Side i of a workspace is entered: from its files, or a remote one from its server.
LEMMA EnterPlace ==
    ASSUME NEW i \in Sides, Enter(i)
    PROVE  /\ pc' \in {"local", "get"} /\ left' = UseSet
           /\ pc' = "get" => /\ flags.source.source = "local" => i # 1
                             /\ flags.target.source = "local" => i # 2
BY DEF Enter, Type, SideSpec, Sides

\* diffKeyRotations gates both sides.
LEMMA GateSidesInv ==
    ASSUME IInv, GateSides
    PROVE  IInv'
<1> DEFINE verdict == IF Gate(1) # "pass" THEN Gate(1) ELSE Gate(2)
<1>1. /\ TypeOK /\ pc = "gate" /\ at = 1 /\ KeyRotation /\ shown.compared = {} /\ ~shown.skipped
      /\ UNCHANGED <<given, at, got, patch, ghosts>>
  BY DEF IInv, Gated, Validated, Marked, GateSides
<1>2. CASE verdict = "fail"
  <2>1. pc' = "failed" /\ UNCHANGED <<shown, queue, left>>
    BY <1>2 DEF GateSides
  <2>2. TypeOK' /\ Validated' /\ Gated' /\ Marked'
    BY <1>1, <2>1, Fixed DEF IInv, TypeOK, Validated, Gated, Marked, given, ghosts
  <2> QED BY <1>1, <2>2, RunInv
<1>3. CASE verdict = "skip"
  <2>1. pc' = "done" /\ shown' = [shown EXCEPT !.skipped = TRUE] /\ UNCHANGED <<queue, left>>
    BY <1>3 DEF GateSides
  <2>2. MaySkip
    BY <1>3 DEF Gate, MaySkip, Sides
  <2>3. shown' \in Result /\ shown'.compared = {} /\ shown'.skipped = TRUE
    BY <1>1, <2>1 DEF TypeOK, Result
  <2>4. TypeOK'
    BY <1>1, <2>1, <2>3 DEF TypeOK, given, ghosts
  <2>5. Validated' /\ Gated' /\ Marked'
    BY <1>1, <2>1, <2>2, <2>3, Fixed DEF IInv, Validated, Gated, Marked, given
  <2> QED BY <1>1, <2>4, <2>5, RunInv
<1>4. CASE verdict = "pass"
  <2>1. \A i \in Sides : Gate(i) = "pass"
    BY <1>4 DEF Sides
  <2>2. /\ shown' = shown
        /\ \/ flags.tenant /\ pc' = "list" /\ UNCHANGED <<queue, left>>
           \/ ~flags.tenant /\ Enter(1) /\ queue' = {flags.wid}
    BY <1>4 DEF GateSides
  <2>3. /\ pc' \in {"list", "local", "get"}
        /\ left' \subseteq UseSet /\ queue' \subseteq Wids
        /\ pc' = "list" => flags.tenant
        /\ pc' # "list" => queue' = {flags.wid} /\ left' = UseSet
        /\ pc' = "get" => flags.source.source # "local"
    BY <1>1, <2>2, EnterPlace DEF TypeOK, Flags, Sides
  <2>4. TypeOK'
    BY <1>1, <2>2, <2>3 DEF TypeOK, Running, given, ghosts
  <2>5. Validated' /\ Gated' /\ Marked'
    BY <1>1, <2>1, <2>2, <2>3, Fixed DEF IInv, Validated, Gated, Marked, given
  <2> QED BY <1>1, <2>4, <2>5, RunInv
<1>5. verdict \in {"fail", "skip", "pass"}
  BY DEF Gate
<1> QED BY <1>2, <1>3, <1>4, <1>5

\* Side.Workspaces.
LEMMA ListInv ==
    ASSUME IInv, ListWorkspaces
    PROVE  IInv'
<1>1. /\ TypeOK /\ pc = "list" /\ at = 1 /\ flags.tenant /\ KeyRotation
      /\ \A i \in Sides : Gate(i) = "pass"
      /\ UNCHANGED <<given, at, got, patch, shown, ghosts>>
      /\ queue' = SideWorkspaces(1)
      /\ IF queue' = {} THEN pc' = "done" /\ UNCHANGED left ELSE Enter(1)
  BY DEF IInv, Gated, Validated, Marked, ListWorkspaces
<1>2. queue' \subseteq Wids
  <2>1. KeyConf(1) \in Configuration
    <3>1. Selected \in Configuration /\ Conf(1) \in Configuration
      BY <1>1, ForProfileType DEF IInv, Validated, TypeOK, Selected, Conf, ResolveSource, Gate, Sides
    <3> QED BY <3>1 DEF KeyConf
  <2>2. world.present[KeyConf(1).client.server] \subseteq Wids
    BY <1>1, <2>1 DEF TypeOK, Worlds, Configuration, Client
  <2> QED BY <1>1, <2>2 DEF SideWorkspaces, Workspaces
<1>3. /\ pc' \in {"done", "local", "get"} /\ left' \subseteq UseSet
      /\ pc' = "get" => flags.source.source # "local" /\ left' = UseSet
  BY <1>1, EnterPlace DEF TypeOK, Sides
<1>4. TypeOK'
  BY <1>1, <1>2, <1>3 DEF TypeOK, Running, given, ghosts
<1>5. Validated' /\ Gated' /\ Marked'
  BY <1>1, <1>3, Fixed DEF IInv, Validated, Gated, Marked, given
<1> QED BY <1>1, <1>4, <1>5, RunInv

-----------------------------------------------------------------------------
\* A side that is read is followed by the other, the next workspace or the end.
LEMMA FinishInv ==
    ASSUME IInv, NEW w \in queue, pc \in {"local", "get"}, NEW cfg \in Config \cup {NoConfig}, Finish(w, cfg),
           UNCHANGED <<given, patch>>
    PROVE  /\ Validated' /\ Gated' /\ Marked'
           /\ got' \in [Sides -> Config \cup {NoConfig}] /\ at' \in Sides
           /\ queue' \subseteq Wids /\ left' \subseteq UseSet /\ pc' \in {"local", "get", "done"}
           /\ shown' \in Result
<1>1. /\ TypeOK /\ at \in Sides /\ KeyRotation /\ \A i \in Sides : Gate(i) = "pass"
      /\ root' = root /\ flags' = flags /\ ~shown.skipped
      /\ got' = [got EXCEPT ![at] = cfg]
  BY DEF IInv, Gated, Validated, Marked, TypeOK, given, Finish
<1>2. got' \in [Sides -> Config \cup {NoConfig}]
  BY <1>1 DEF TypeOK
<1>3. CASE at = 1
  <2>1. at' = 2 /\ Enter(2) /\ UNCHANGED <<queue, shown>>
    BY <1>3 DEF Finish
  <2>2. /\ pc' \in {"local", "get"} /\ left' = UseSet
        /\ pc' = "get" => flags.target.source # "local"
    BY <2>1, EnterPlace DEF Sides
  <2>3. Validated' /\ Gated' /\ Marked'
    BY <1>1, <2>1, <2>2, Fixed DEF IInv, Validated, Gated, Marked
  <2> QED BY <1>1, <1>2, <2>1, <2>2, <2>3 DEF TypeOK, Sides
<1>4. CASE at = 2
  <2>1. /\ shown' = [shown EXCEPT !.uses[w] = TreeDiff(got[1], cfg), !.compared = shown.compared \cup {w}]
        /\ queue' = queue \ {w} /\ at' = 1
        /\ IF queue' = {} THEN pc' = "done" /\ left' = {} ELSE Enter(1)
    BY <1>4 DEF Finish
  <2>2. w \in Wids
    BY <1>1 DEF TypeOK
  <2>3. /\ shown' \in Result /\ shown'.compared = shown.compared \cup {w} /\ shown'.skipped = shown.skipped
    <3>1. TreeDiff(got[1], cfg) \subseteq UseSet
      BY DEF TreeDiff
    <3> QED BY <1>1, <2>1, <2>2, <3>1 DEF TypeOK, Result
  <2>4. /\ pc' \in {"local", "get", "done"} /\ left' \subseteq UseSet
        /\ pc' = "get" => flags.source.source # "local" /\ left' = UseSet
        /\ pc' # "done" => queue' # {}
    BY <2>1, EnterPlace DEF Sides
  <2>5. flags.tenant \/ queue = {flags.wid}
    BY DEF IInv, Marked
  <2>6. Marked'
    BY <1>1, <2>1, <2>3, <2>4, <2>5, Fixed DEF Marked
  <2>7. Validated' /\ Gated'
    BY <1>1, <2>1, <2>4, Fixed DEF IInv, Validated, Gated
  <2> QED BY <1>1, <1>2, <2>1, <2>3, <2>4, <2>6, <2>7 DEF TypeOK, Sides
<1> QED BY <1>1, <1>3, <1>4 DEF Sides

\* Side.Read, the files.
LEMMA ReadLocalInv ==
    ASSUME IInv, NEW w \in Wids, ReadLocal(w)
    PROVE  IInv'
<1> DEFINE cfg == Read(world.files[Conf(at).storage], w)
<1>1. /\ TypeOK /\ pc = "local" /\ w \in queue /\ at \in Sides /\ UNCHANGED <<given, patch, ghosts>>
      /\ \A i \in Sides : Gate(i) = "pass"
  BY DEF IInv, TypeOK, Gated, ReadLocal, Least
<1>2. cfg \in Config \cup {NoConfig, ReadError}
  <2>1. Conf(at) \in Configuration
    BY <1>1, ForProfileType DEF TypeOK, Conf, ResolveSource, Gate
  <2>2. world.files[Conf(at).storage] \in Tree
    BY <1>1, <2>1 DEF TypeOK, Worlds, Configuration
  <2> QED BY <2>2, ReadType
<1>3. \/ cfg = ReadError /\ pc' = "failed" /\ UNCHANGED <<progress, shown>>
      \/ /\ cfg = NoConfig /\ Type(at) = "merged" /\ pc' = "get" /\ left' = UseSet
         /\ UNCHANGED <<at, queue, got, shown>>
      \/ cfg # ReadError /\ Finish(w, cfg)
  BY DEF ReadLocal
<1> HIDE DEF cfg
<1>4. CASE cfg = ReadError /\ pc' = "failed" /\ UNCHANGED <<progress, shown>>
  <2>1. Stop
    BY <1>1, <1>4 DEF Stop, ghosts
  <2> QED BY <1>1, <2>1, StopInv DEF Running
<1>5. CASE Type(at) = "merged" /\ pc' = "get" /\ left' = UseSet /\ UNCHANGED <<at, queue, got, shown>>
  <2>1. TypeOK'
    BY <1>1, <1>5 DEF TypeOK, Running, given, ghosts
  <2>2. /\ flags.source.source = "local" => at # 1
        /\ flags.target.source = "local" => at # 2
    BY <1>5 DEF Type, SideSpec
  <2>3. Validated' /\ Gated' /\ Marked'
    BY <1>1, <1>5, <2>2, Fixed DEF IInv, Validated, Gated, Marked, given
  <2> QED BY <1>1, <2>1, <2>3, RunInv
<1>6. CASE cfg # ReadError /\ Finish(w, cfg)
  <2>1. cfg \in Config \cup {NoConfig}
    BY <1>2, <1>6
  <2>2. Validated' /\ Gated' /\ Marked' /\ TypeOK'
    BY <1>1, <1>6, <2>1, FinishInv DEF TypeOK, Running, given, ghosts
  <2> QED BY <1>1, <2>2, RunInv
<1> QED BY <1>3, <1>4, <1>5, <1>6

\* A request is made with a client that may make it, and to a server.
LEMMA RequestAllowed ==
    ASSUME IInv, pc = "get", Request
    PROVE  /\ KeyConf(at) \in Configuration /\ Server \in Servers
           /\ asked' \subseteq Configuration
           /\ UNCHANGED <<root, flags>> => KeysReadWithFeature'
<1>1. /\ TypeOK /\ at \in Sides /\ Gate(at) = "pass" /\ Type(at) # "local" /\ KeyRotation
      /\ Selected # Unknown /\ ValidProfile(Selected) /\ (~flags.sub /\ Explicit => Selected.features)
      /\ KeysReadWithFeature
  BY DEF IInv, TypeOK, Gated, Validated, Type, SideSpec, Sides
<1>2. Selected \in Configuration /\ Conf(at) \in Configuration
  BY <1>1, ForProfileType DEF TypeOK, Selected, Conf, ResolveSource, Gate
<1>3. KeyConf(at) \in Configuration /\ Server \in Servers
  <2>1. KeyConf(at) \in Configuration
    BY <1>2 DEF KeyConf
  <2> QED BY <2>1 DEF Server, Configuration, Client
<1>4. \/ flags.sub /\ KeyConf(at) = Selected
      \/ KeyConf(at).features /\ KeyConf(at).client.manage_servers
  <2>1. CASE Conf(at).name = Selected.name
    BY <1>1, <2>1 DEF KeyConf, KeyRotation, ValidProfile
  <2>2. CASE Conf(at).name # Selected.name
    BY <1>1, <2>2 DEF KeyConf, Gate, ValidProfile
  <2> QED BY <2>1, <2>2
<1>5. asked' = asked \cup {KeyConf(at)}
  BY DEF Request
<1>6. ASSUME UNCHANGED <<root, flags>> PROVE KeysReadWithFeature'
  BY <1>1, <1>4, <1>5, <1>6, Fixed DEF KeysReadWithFeature
<1> QED BY <1>1, <1>3, <1>5, <1>6 DEF TypeOK

\* Side.Read, one GET per use.
LEMMA GetInv ==
    ASSUME IInv, NEW w \in Wids, NEW u \in UseSet, Get(w, u)
    PROVE  IInv'
<1> DEFINE old == IF left = UseSet THEN EmptyConfig ELSE got[at]
           cfg == [old EXCEPT ![u] = FromModel(world.server[Server][w][u])]
<1>1. /\ TypeOK /\ pc = "get" /\ w \in queue /\ at \in Sides /\ Request
      /\ UNCHANGED <<given, patch, touched, outside>>
      /\ left # UseSet => got[at] # NoConfig
  BY DEF IInv, TypeOK, Gated, Get, Least
<1>2. cfg \in Config
  <2>1. old \in Config
    BY <1>1 DEF TypeOK, EmptyConfig, Config
  <2>2. FromModel(world.server[Server][w][u]) \in Rotation \cup {NoRotation}
    <3>1. world.server[Server][w][u] \in Payload
      BY <1>1, RequestAllowed DEF TypeOK, Worlds
    <3> QED BY <3>1, FromModelType
  <2> HIDE DEF old
  <2> QED BY <2>1, <2>2 DEF Config
<1>3. KeysReadWithFeature' /\ asked' \subseteq Configuration
  BY <1>1, RequestAllowed DEF given
<1>4. IF left = {u} THEN Finish(w, IF Uses(cfg) = {} THEN NoConfig ELSE cfg)
      ELSE left' = left \ {u} /\ got' = [got EXCEPT ![at] = cfg] /\ UNCHANGED <<pc, at, queue, shown>>
  BY DEF Get
<1> HIDE DEF cfg
<1>5. CASE left = {u}
  <2>1. (IF Uses(cfg) = {} THEN NoConfig ELSE cfg) \in Config \cup {NoConfig}
    BY <1>2
  <2>2. Validated' /\ Gated' /\ Marked' /\ TypeOK'
    BY <1>1, <1>3, <1>4, <1>5, <2>1, FinishInv DEF TypeOK, Running, given
  <2> QED BY <1>3, <2>2 DEF IInv
<1>6. CASE left # {u}
  <2>1. TypeOK'
    BY <1>1, <1>2, <1>3, <1>4, <1>6 DEF TypeOK, given
  <2>2. got'[at] # NoConfig
    BY <1>1, <1>2, <1>4, <1>6, NilAssumption DEF TypeOK
  <2>3. Validated' /\ Gated' /\ Marked'
    BY <1>1, <1>4, <1>6, <2>2, Fixed DEF IInv, Validated, Gated, Marked, given
  <2> QED BY <1>3, <2>1, <2>3 DEF IInv
<1> QED BY <1>5, <1>6

\* A workspace its server does not have.
LEMMA GetNotFoundInv ==
    ASSUME IInv, NEW w \in Wids, GetNotFound(w)
    PROVE  IInv'
<1>1. /\ TypeOK /\ pc = "get" /\ w \in queue /\ at \in Sides /\ Request
      /\ UNCHANGED <<given, patch, touched, outside>>
      /\ IF at = 1 THEN pc' = "failed" /\ UNCHANGED <<progress, shown>> ELSE Finish(w, NoConfig)
  BY DEF IInv, TypeOK, GetNotFound, Least
<1>2. KeysReadWithFeature' /\ asked' \subseteq Configuration
  BY <1>1, RequestAllowed DEF given
<1>3. CASE at = 1
  <2>1. Validated' /\ Gated' /\ Marked' /\ TypeOK'
    BY <1>1, <1>2, <1>3, Fixed DEF IInv, TypeOK, Validated, Gated, Marked, given, progress
  <2> QED BY <1>2, <2>1 DEF IInv
<1>4. CASE at # 1
  <2>1. Validated' /\ Gated' /\ Marked' /\ TypeOK'
    BY <1>1, <1>2, <1>4, FinishInv DEF TypeOK, Running, given
  <2> QED BY <1>2, <2>1 DEF IInv
<1> QED BY <1>3, <1>4

-----------------------------------------------------------------------------
\* Other administrators and users keep the world well typed.
LEMMA ChangeInv ==
    ASSUME IInv, NEW place \in Stores \cup Servers, NEW w \in Wids, NEW new \in Worlds, Change(place, w, new)
    PROVE  IInv'
<1>1. outside' \in 0..MaxOutside /\ touched' \subseteq (Stores \cup Servers) \X Wids
  BY RunAssumption DEF IInv, TypeOK, Change
<1> QED BY <1>1, WorldInv DEF Change

\* ... one by one.
LEMMA OutsideInv ==
    ASSUME IInv, NEW w \in Wids,
           \/ \E s \in Servers : OutsideDelete(s, w) \/ OutsideCreate(s, w)
           \/ \E s \in Servers, u \in UseSet, p \in OutsidePayloads : OutsideSet(s, w, u, p)
           \/ \E s \in Stores, d \in Dirs, f \in OutsideFiles : Edit(s, d, w, f)
    PROVE  IInv'
<1>1. world \in Worlds /\ OutsidePayloads \subseteq Payload /\ OutsideFiles \subseteq File
  BY RunAssumption DEF IInv, TypeOK
<1>2. ASSUME NEW s \in Servers, OutsideDelete(s, w) PROVE IInv'
  <2>1. Unconfigured \in [UseSet -> Payload]
    BY DEF Unconfigured, NeverConfigured, Payload
  <2>2. [world EXCEPT !.server[s][w] = Unconfigured, !.present[s] = @ \ {w}] \in Worlds
    BY <1>1, <2>1 DEF Worlds
  <2> QED BY <1>2, <2>2, ChangeInv DEF OutsideDelete
<1>3. ASSUME NEW s \in Servers, OutsideCreate(s, w) PROVE IInv'
  <2>1. [world EXCEPT !.present[s] = @ \cup {w}] \in Worlds
    BY <1>1 DEF Worlds
  <2> QED BY <1>3, <2>1, ChangeInv DEF OutsideCreate
<1>4. ASSUME NEW s \in Servers, NEW u \in UseSet, NEW p \in OutsidePayloads, OutsideSet(s, w, u, p) PROVE IInv'
  <2>1. [world.server EXCEPT ![s][w][u] = p] \in [Servers -> [Wids -> [UseSet -> Payload]]]
    BY <1>1 DEF Worlds
  <2>2. [world EXCEPT !.server = [world.server EXCEPT ![s][w][u] = p]] \in Worlds
    BY <1>1, <2>1 DEF Worlds
  <2> QED BY <1>4, <2>2, ChangeInv DEF OutsideSet
<1>5. ASSUME NEW s \in Stores, NEW d \in Dirs, NEW f \in OutsideFiles, Edit(s, d, w, f) PROVE IInv'
  <2>1. [world.files EXCEPT ![s][d][w] = f] \in [Stores -> Tree]
    BY <1>1 DEF Worlds, Tree
  <2>2. [world EXCEPT !.files = [world.files EXCEPT ![s][d][w] = f]] \in Worlds
    BY <1>1, <2>1 DEF Worlds
  <2> QED BY <1>5, <2>2, ChangeInv DEF Edit
<1> QED BY <1>2, <1>3, <1>4, <1>5

\* Every step keeps the inductive invariant.
THEOREM NextInv == IInv /\ [Next]_vars => IInv'
<1> SUFFICES ASSUME IInv, [Next]_vars PROVE IInv'
  OBVIOUS
<1>1. CASE ConfigUnreadable \/ Fail
  BY <1>1, StopInv DEF ConfigUnreadable, Fail, Running
<1>2. CASE UNCHANGED vars
  BY <1>2, WorldInv DEF IInv, TypeOK, vars, given, ghosts
<1> QED BY <1>1, <1>2, StartInv, ReadConfigInv, GateSidesInv, ListInv, ReadLocalInv, GetNotFoundInv, GetInv,
           OutsideInv DEF Next

\* The inductive invariant holds of every behaviour.
THEOREM Invariance == Spec => []IInv
BY InitInv, NextInv, PTL DEF Spec

\* The state stays well typed.
THEOREM TypeCorrect == Spec => []TypeOK
<1>1. IInv => TypeOK
  BY DEF IInv
<1> QED BY Invariance, <1>1, PTL

\* Key rotation is requested only with the client of a profile that may, or by the subcommand with the
\* selected one's, whatever names the profiles have.
THEOREM ReadsWithFeature == Spec => []KeysReadWithFeature
<1>1. IInv => KeysReadWithFeature
  BY DEF IInv
<1> QED BY Invariance, <1>1, PTL

\* Key rotation in the scope of a diff that succeeds is compared or marked as skipped.
THEOREM SkipIsMarked == Spec => []NotSilentlyLeftOut
<1>1. IInv => NotSilentlyLeftOut
  BY DEF IInv, Marked, MaySkip, NotSilentlyLeftOut
<1> QED BY Invariance, <1>1, PTL

-----------------------------------------------------------------------------
(***************************************************************************)
(* The configuration: what is shown is the difference of what was read.    *)
(***************************************************************************)
SideItems(i) == FilterPatch(PickSource(Conf(i), Type(i)))
Configured ==
    /\ pc = "config" /\ at = 2 => patch[1] = SideItems(1)
    /\ pc \notin {"idle", "config", "failed"} /\ Regular =>
           /\ \A i \in Sides : Conf(i) \in Configuration
           /\ shown.items = DiffTree(SideItems(1), SideItems(2))
ConfigInv == IInv /\ Configured

\* Others do not change what is compared.
LEMMA SideItemsFixed ==
    ASSUME UNCHANGED <<root, flags>>, world'.local = world.local, world'.remote = world.remote
    PROVE  /\ Regular' = Regular
           /\ \A i \in Sides : Conf(i)' = Conf(i) /\ SideItems(i)' = SideItems(i)
           /\ DiffTree(SideItems(1), SideItems(2))' = DiffTree(SideItems(1), SideItems(2))
BY DEF Regular, SideItems, FilterPatch, PickSource, MergePatch, Conf, Type, SideSpec, Selected, DiffTree, Sides

\* Nothing but the reads touches the configuration read or shown.
LEMMA ConfigurationKept ==
    ASSUME TypeOK, [Next]_vars, ~Start, ~ReadConfig
    PROVE  /\ UNCHANGED <<root, flags>> /\ world'.local = world.local /\ world'.remote = world.remote
           /\ pc = "config" => pc' \in {"config", "failed"} /\ UNCHANGED <<at, patch>>
           /\ pc # "config" => pc' # "config"
           /\ pc \in {"idle", "failed"} => pc' = pc
           /\ shown'.items = shown.items
<1>1. CASE ConfigUnreadable \/ GateSides \/ ListWorkspaces \/ Fail \/ UNCHANGED vars
  BY <1>1 DEF TypeOK, ConfigUnreadable, Stop, GateSides, ListWorkspaces, Enter, Fail, Running, vars, given, progress,
              ghosts, Result
<1>2. ASSUME NEW w \in Wids, NEW cfg, Finish(w, cfg)
      PROVE  shown'.items = shown.items /\ pc' \in {"local", "get", "done"}
  BY <1>2 DEF TypeOK, Finish, Enter, Result
<1>3. CASE \E w \in Wids : ReadLocal(w) \/ GetNotFound(w) \/ \E u \in UseSet : Get(w, u)
  BY <1>2, <1>3 DEF ReadLocal, GetNotFound, Get, given, progress
<1>4. CASE \E w \in Wids :
              \/ \E s \in Servers : OutsideDelete(s, w) \/ OutsideCreate(s, w)
              \/ \E s \in Servers, u \in UseSet, p \in OutsidePayloads : OutsideSet(s, w, u, p)
              \/ \E s \in Stores, d \in Dirs, f \in OutsideFiles : Edit(s, d, w, f)
  <2> DEFINE kept == /\ UNCHANGED <<root, flags, at, patch, pc, shown>> /\ pc \in Running
                     /\ world'.local = world.local /\ world'.remote = world.remote
  <2>1. ASSUME NEW w \in Wids, NEW s \in Servers, OutsideDelete(s, w) \/ OutsideCreate(s, w) PROVE kept
    BY <2>1 DEF TypeOK, Worlds, OutsideDelete, OutsideCreate, Change, progress
  <2>2. ASSUME NEW w \in Wids, NEW s \in Servers, NEW u \in UseSet, NEW p \in OutsidePayloads, OutsideSet(s, w, u, p)
        PROVE  kept
    BY <2>2 DEF TypeOK, Worlds, OutsideSet, Change, progress
  <2>3. ASSUME NEW w \in Wids, NEW s \in Stores, NEW d \in Dirs, NEW f \in OutsideFiles, Edit(s, d, w, f) PROVE kept
    BY <2>3 DEF TypeOK, Worlds, Edit, Change, progress
  <2>4. kept
    <3> HIDE DEF kept
    <3> QED BY <1>4, <2>1, <2>2, <2>3
  <2> QED BY <2>4 DEF Running
<1> QED BY <1>1, <1>3, <1>4 DEF Next

\* The comparison is of what the two sides have.
LEMMA ConfigStep ==
    ASSUME ConfigInv, [Next]_vars
    PROVE  ConfigInv'
<1>1. IInv /\ IInv' /\ TypeOK /\ at \in Sides
  BY NextInv DEF ConfigInv, IInv, TypeOK
<1>2. CASE ~Start /\ ~ReadConfig
  <2>1. UNCHANGED <<root, flags>> /\ world'.local = world.local /\ world'.remote = world.remote
    BY <1>1, <1>2, ConfigurationKept
  <2>2. pc' = "config" /\ at' = 2 => patch'[1] = SideItems(1)'
    BY <1>1, <1>2, <2>1, ConfigurationKept, SideItemsFixed DEF ConfigInv, Configured, Sides
  <2>3. pc' \notin {"idle", "config", "failed"} => pc \notin {"idle", "config", "failed"} /\ shown'.items = shown.items
    BY <1>1, <1>2, ConfigurationKept
  <2> QED BY <1>1, <2>1, <2>2, <2>3, SideItemsFixed DEF ConfigInv, Configured
<1>3. CASE Start
  <2>1. /\ UNCHANGED <<root, flags, world>> /\ pc' \in {"failed", "config", "gate"} /\ at' = 1
        /\ pc' = "gate" => ~Regular
    BY <1>1, <1>3 DEF IInv, Gated, Start, given, progress
  <2> QED BY <1>1, <2>1, SideItemsFixed DEF ConfigInv, Configured
<1>4. CASE ReadConfig
  <2>1. /\ UNCHANGED <<root, flags, world>> /\ pc = "config" /\ ConfigReadable(at)
        /\ patch' = [patch EXCEPT ![at] = SideItems(at)]
        /\ IF at = 1 THEN at' = 2 /\ pc' = pc
           ELSE at' = 1 /\ pc' # "config" /\ shown' = [shown EXCEPT !.items = DiffTree(patch[1], SideItems(at))]
    BY <1>4 DEF ReadConfig, SideItems, given
  <2>2. \A i \in Sides : Conf(i) \in Configuration
    BY <1>1, <2>1, ForProfileType DEF TypeOK, ConfigReadable, Conf, ResolveSource
  <2>3. CASE at = 1
    <3>1. pc' = "config" /\ at' = 2 /\ patch'[1] = SideItems(1)
      BY <1>1, <2>1, <2>3 DEF TypeOK
    <3> QED BY <1>1, <2>1, <3>1, SideItemsFixed DEF ConfigInv, Configured, Sides
  <2>4. CASE at = 2
    <3>1. patch[1] = SideItems(1)
      BY <2>1, <2>4 DEF ConfigInv, Configured
    <3>2. shown'.items = DiffTree(SideItems(1), SideItems(2)) /\ pc' # "config"
      BY <1>1, <2>1, <2>4, <3>1 DEF TypeOK, Result
    <3> QED BY <1>1, <2>1, <2>2, <3>2, SideItemsFixed DEF ConfigInv, Configured
  <2> QED BY <1>1, <2>3, <2>4 DEF Sides
<1> QED BY <1>2, <1>3, <1>4

\* When the selected profile is found by its name, the side a command line names is the one that is read.
LEMMA NamedResolve ==
    ASSUME SelectedFound, NEW i \in Sides
    PROVE  Conf(i) = NamedConf(i)
BY DEF SelectedFound, Conf, NamedConf, ResolveSource

\* The items of a side, filtered.
LEMMA SideItem ==
    ASSUME TypeOK, NEW i \in Sides, Conf(i) \in Configuration, Conf(i) = NamedConf(i),
           NEW k \in Kinds, NEW id \in Ids
    PROVE  /\ SideItems(i)[k] \in Items \cup {NoKind}
           /\ ItemsOf(SideItems(i), k)[id] =
                  IF flags.filters = {} \/ k \in flags.filters THEN NamedItem(i, k, id) ELSE NoItem
<1> DEFINE local == world.local[Conf(i).storage]
           remote == world.remote[Conf(i).client.server]
<1>1. local \in Patch /\ remote \in Patch
  BY DEF TypeOK, Worlds, Configuration, Client
<1>2. Type(i) \in SourceTypes /\ SideItems(i) \in Patch
  <2>1. Type(i) \in SourceTypes
    BY DEF TypeOK, Type, SideSpec, Flags, SourceSpecs
  <2> QED BY <2>1, PatchType DEF SideItems, TypeOK
<1> DEFINE above == ItemsOf(local, k)[id]
           below == ItemsOf(remote, k)[id]
           fields == [f \in Fields |-> IF above # NoItem /\ (above[f] # NoValue \/ below = NoItem)
                                      THEN above[f] ELSE below[f]]
<1>3. NamedItem(i, k, id) = CASE Type(i) = "local" -> above
                              [] Type(i) = "remote" -> below
                              [] Type(i) = "merged" -> IF above = NoItem /\ below = NoItem THEN NoItem ELSE fields
  BY DEF NamedItem
<1>4. PickSource(Conf(i), Type(i)) = CASE Type(i) = "local" -> local
                                       [] Type(i) = "remote" -> remote
                                       [] Type(i) = "merged" -> MergePatch(local, remote)
  BY DEF PickSource
<1> HIDE DEF local, remote
<1>5. MergePatch(local, remote)[k] = MergeItems(local[k], remote[k])
  BY <1>1 DEF MergePatch
<1>6. ItemsOf(MergePatch(local, remote), k)[id] = IF above = NoItem /\ below = NoItem THEN NoItem ELSE fields
  <2>1. local[k] \in Items \cup {NoKind} /\ remote[k] \in Items \cup {NoKind}
    BY <1>1 DEF Patch
  <2>2. above \in Item \cup {NoItem} /\ below \in Item \cup {NoItem}
    BY <2>1 DEF ItemsOf, Items
  <2>3. ItemsOf(MergePatch(local, remote), k)[id] = MergeItem(above, below)
    <3>1. CASE local[k] = NoKind \/ remote[k] = NoKind
      BY <2>1, <3>1, <1>5 DEF ItemsOf, MergeItems, MergeItem
    <3>2. CASE local[k] # NoKind /\ remote[k] # NoKind
      <4>1. MergeItems(local[k], remote[k]) = [h \in Ids |-> MergeItem(local[k][h], remote[k][h])]
        BY <3>2 DEF MergeItems
      <4>2. MergeItems(local[k], remote[k]) # NoKind
        BY <1>5, <2>1, <3>2, <4>1, MergedItems, RunAssumption
      <4> QED BY <1>5, <3>2, <4>1, <4>2 DEF ItemsOf
    <3> QED BY <3>1, <3>2
  <2> HIDE DEF above, below
  <2>4. CASE above = NoItem \/ below = NoItem
    <3>1. CASE above = NoItem
      <4>1. below # NoItem => fields = below
        BY <2>2, <3>1 DEF Item
      <4> QED BY <2>3, <3>1, <4>1 DEF MergeItem
    <3>2. CASE above # NoItem /\ below = NoItem
      <4>1. fields = above
        BY <2>2, <3>2 DEF Item
      <4> QED BY <2>3, <3>2, <4>1 DEF MergeItem
    <3> QED BY <2>4, <3>1, <3>2
  <2>5. CASE above # NoItem /\ below # NoItem
    <3>1. fields = [f \in Fields |-> IF above[f] # NoValue THEN above[f] ELSE below[f]]
      BY <2>5
    <3> QED BY <2>3, <2>5, <3>1 DEF MergeItem
  <2> QED BY <2>4, <2>5
<1>7. ItemsOf(PickSource(Conf(i), Type(i)), k)[id] = NamedItem(i, k, id)
  <2>1. above = ItemsOf(local, k)[id] /\ below = ItemsOf(remote, k)[id]
    OBVIOUS
  <2> HIDE DEF above, below, fields
  <2>2. CASE Type(i) = "local"
    BY <1>3, <1>4, <2>1, <2>2
  <2>3. CASE Type(i) = "remote"
    BY <1>3, <1>4, <2>1, <2>3
  <2>4. CASE Type(i) = "merged"
    BY <1>3, <1>4, <1>6, <2>4
  <2> QED BY <1>2, <2>2, <2>3, <2>4 DEF SourceTypes
<1>8. SideItems(i)[k] = IF flags.filters = {} \/ k \in flags.filters
                        THEN PickSource(Conf(i), Type(i))[k] ELSE NoKind
  BY DEF SideItems, FilterPatch
<1> QED BY <1>2, <1>7, <1>8 DEF ItemsOf, Patch

\* A diff shows the items its filter selects in which its sides differ.
LEMMA ConfiguredShown == ConfigInv => ConfigurationShown
<1> SUFFICES ASSUME ConfigInv, pc = "done", Regular, SelectedFound
             PROVE  shown.items =
                        {item \in Kinds \X Ids :
                            LET named(i) == NamedItem(i, item[1], item[2])
                            IN /\ flags.filters = {} \/ item[1] \in flags.filters
                               /\ named(1) # named(2)
                               /\ flags.onlyPresent => named(1) # NoItem}
  BY DEF ConfigurationShown
<1> DEFINE pruned == [k \in Kinds |-> IF flags.onlyPresent /\ SideItems(2)[k] # NoKind
                                      THEN OnlyPresentKeys(SideItems(1), SideItems(2), k) ELSE SideItems(2)[k]]
<1>1. TypeOK /\ Selected # Unknown /\ \A i \in Sides : Conf(i) \in Configuration /\ Conf(i) = NamedConf(i)
  BY NamedResolve DEF ConfigInv, IInv, Validated, Configured
<1>2. shown.items = {item \in Kinds \X Ids :
                        ItemsOf(SideItems(1), item[1])[item[2]] # ItemsOf(pruned, item[1])[item[2]]}
  BY DEF ConfigInv, Configured, DiffTree
<1>3. ASSUME NEW k \in Kinds, NEW id \in Ids
      PROVE  ItemsOf(SideItems(1), k)[id] # ItemsOf(pruned, k)[id] <=>
                 /\ flags.filters = {} \/ k \in flags.filters
                 /\ NamedItem(1, k, id) # NamedItem(2, k, id)
                 /\ flags.onlyPresent => NamedItem(1, k, id) # NoItem
  <2>1. \A i \in Sides :
            /\ SideItems(i)[k] \in Items \cup {NoKind}
            /\ ItemsOf(SideItems(i), k)[id] =
                   IF flags.filters = {} \/ k \in flags.filters THEN NamedItem(i, k, id) ELSE NoItem
    BY <1>1, <1>3, SideItem
  <2>2. ItemsOf(pruned, k)[id] = IF flags.onlyPresent /\ ItemsOf(SideItems(1), k)[id] = NoItem
                                 THEN NoItem ELSE ItemsOf(SideItems(2), k)[id]
    <3>1. pruned[k] = IF flags.onlyPresent /\ SideItems(2)[k] # NoKind
                      THEN OnlyPresentKeys(SideItems(1), SideItems(2), k) ELSE SideItems(2)[k]
      OBVIOUS
    <3>2. OnlyPresentKeys(SideItems(1), SideItems(2), k) # NoKind \/ SideItems(2)[k] = NoKind
      <4>1. SideItems(2)[k] # NoKind => OnlyPresentKeys(SideItems(1), SideItems(2), k) \in Items
        BY <2>1 DEF OnlyPresentKeys, Items, Sides
      <4> QED BY <4>1, RunAssumption
    <3> HIDE DEF pruned
    <3> QED BY <3>1, <3>2 DEF ItemsOf, OnlyPresentKeys
  <2> HIDE DEF pruned
  <2> QED BY <2>1, <2>2 DEF Sides
<1> HIDE DEF pruned
<1> QED BY <1>2, <1>3

\* A diff shows exactly the items in which the sides it names differ.
THEOREM ShowsConfiguration == Spec => []ConfigurationShown
<1>1. Init => ConfigInv
  BY InitInv DEF Init, ConfigInv, Configured
<1>2. ConfigInv /\ [Next]_vars => ConfigInv'
  BY ConfigStep
<1> QED BY <1>1, <1>2, ConfiguredShown, PTL DEF Spec

-----------------------------------------------------------------------------
(***************************************************************************)
(* Key rotation: of a workspace others did not touch, what is known of the *)
(* side being read, what was read of the source, and what is shown.        *)
(***************************************************************************)
Untouched(w) == \A place \in Stores \cup Servers : <<place, w>> \notin touched
ServerOf(i) == NamedConf(i).client.server
SourceThere(w) == FromServer(1, w) => w \in world.present[ServerOf(1)]
Selects(w) == IF flags.tenant THEN w \in NamedWorkspaces(1) ELSE w = flags.wid
FirstGot(w) == [EmptyConfig EXCEPT !["sig"] = FromModel(world.server[ServerOf(at)][w]["sig"])]

AtWork == pc \in {"local", "get"}
Compared == AtWork \/ (pc = "done" /\ KeyRotation /\ ~shown.skipped)

\* Servers hold no settings of workspaces they do not have.
Tidy ==
    \A s \in Servers, w \in Wids :
        Untouched(w) /\ w \notin world.present[s] => world.server[s][w] = Unconfigured
Emptied == pc \in {"idle", "config", "gate", "list", "done"} => queue = {}
Listed ==
    /\ pc = "local" => Type(at) # "remote"
    /\ Compared => \A w \in Wids : Untouched(w) => (w \in queue \cup shown.compared <=> Selects(w))
Reading(w) ==
    /\ pc = "get" => FromServer(at, w)
    /\ pc = "get" /\ left # UseSet =>
           left = {"enc"} /\ w \in world.present[ServerOf(at)] /\ got[at] = FirstGot(w)
    /\ at = 2 => got[1] = NamedSettings(1, w) /\ SourceThere(w)
ShownRight(w) ==
    SourceThere(w) /\ shown.uses[w] = TreeDiff(NamedSettings(1, w), NamedSettings(2, w))
Rotated ==
    /\ Tidy /\ Emptied
    /\ SidesFound =>
           /\ Listed
           /\ \A w \in Wids : AtWork /\ Least(w, queue) /\ Untouched(w) => Reading(w)
           /\ \A w \in shown.compared : Untouched(w) => ShownRight(w)
RotationInv == IInv /\ Rotated

\* It says what a diff shows.
LEMMA RotatedShown == RotationInv => KeyRotationShown
BY DEF RotationInv, Rotated, Emptied, Listed, Compared, Untouched, Selects, ShownRight, SourceThere, ServerOf, KeyRotationShown,
       IInv, TypeOK, Result

\* Nobody changes anything of the workspace.
SameWorld(w) ==
    /\ \A s \in Stores, d \in Dirs : world'.files[s][d][w] = world.files[s][d][w]
    /\ \A s \in Servers : /\ world'.server[s][w] = world.server[s][w]
                          /\ w \in world'.present[s] <=> w \in world.present[s]

\* What the named sides have of a workspace is what files and servers have of it.
LEMMA SameSides ==
    ASSUME UNCHANGED <<root, flags>>, NEW w \in Wids, SameWorld(w), NEW i \in Sides, NamedConf(i) \in Configuration
    PROVE  /\ Type(i)' = Type(i) /\ ServerOf(i)' = ServerOf(i)
           /\ FromServer(i, w)' <=> FromServer(i, w)
           /\ NamedSettings(i, w)' = NamedSettings(i, w)
           /\ w \in NamedWorkspaces(i)' <=> w \in NamedWorkspaces(i)
           /\ w \in world'.present[ServerOf(i)'] <=> w \in world.present[ServerOf(i)]
           /\ world'.server[ServerOf(i)'][w] = world.server[ServerOf(i)][w]
<1>1. /\ NamedConf(i)' = NamedConf(i) /\ Type(i)' = Type(i)
      /\ NamedConf(i).storage \in Stores /\ NamedConf(i).client.server \in Servers
  BY DEF NamedConf, Type, SideSpec, Selected, Configuration, Client
<1>2. Read(world'.files[NamedConf(i).storage], w) = Read(world.files[NamedConf(i).storage], w)
  BY <1>1, SameRead DEF SameWorld
<1>3. FromServer(i, w)' <=> FromServer(i, w)
  BY <1>1, <1>2 DEF FromServer
<1>4. NamedSettings(i, w)' = NamedSettings(i, w)
  BY <1>1, <1>2, <1>3 DEF NamedSettings, SameWorld
<1>5. w \in NamedWorkspaces(i)' <=> w \in NamedWorkspaces(i)
  BY <1>1 DEF NamedWorkspaces, SameWorld
<1> QED BY <1>1, <1>3, <1>4, <1>5 DEF ServerOf, SameWorld

\* Where key rotation is compared, the sides are those the command line names.
LEMMA SidesNamed ==
    ASSUME IInv, SidesFound, AtWork \/ pc = "list", NEW i \in Sides
    PROVE  /\ Conf(i) = NamedConf(i) /\ KeyConf(i) = NamedConf(i) /\ NamedConf(i) \in Configuration
           /\ Type(i) \in SourceTypes
<1>1. TypeOK /\ Gate(i) = "pass"
  BY DEF IInv, Gated, AtWork
<1>2. Conf(i) = NamedConf(i) /\ Conf(i) \in Configuration
  BY <1>1, NamedResolve, ForProfileType DEF SidesFound, TypeOK, Conf, ResolveSource, Gate
<1>3. KeyConf(i) = Conf(i)
  BY <1>2 DEF KeyConf, SidesFound
<1>4. Type(i) \in SourceTypes
  BY <1>1 DEF TypeOK, Type, SideSpec, Flags, SourceSpecs
<1> QED BY <1>2, <1>3, <1>4

\* What the sides have does not change with the run.
LEMMA SameWhileRunning ==
    ASSUME UNCHANGED <<root, flags, world, touched>>
    PROVE  /\ SidesFound' <=> SidesFound
           /\ KeyRotation' <=> KeyRotation
           /\ Tidy => Tidy'
           /\ \A w \in Wids : Untouched(w)' <=> Untouched(w)
           /\ \A w \in Wids : Selects(w)' <=> Selects(w)
           /\ \A w \in Wids : SourceThere(w)' <=> SourceThere(w)
           /\ \A i \in Sides : Type(i)' = Type(i) /\ ServerOf(i)' = ServerOf(i)
           /\ \A i \in Sides, w \in Wids : /\ FromServer(i, w)' <=> FromServer(i, w)
                                           /\ NamedSettings(i, w)' = NamedSettings(i, w)
BY Fixed DEF SidesFound, SelectedFound, Tidy, Untouched, Selects, SourceThere, NamedWorkspaces, FromServer, NamedSettings, NamedConf,
             ServerOf, Type, SideSpec, Selected

\* A step that compares nothing.
LEMMA IdleRotated ==
    ASSUME RotationInv, UNCHANGED <<root, flags, world, touched>>,
           shown'.uses = shown.uses, shown'.compared = shown.compared,
           pc' \notin {"local", "get"},
           pc' = "done" => ~KeyRotation \/ shown'.skipped, Emptied'
    PROVE  Rotated'
<1>1. ~Compared' /\ ~AtWork' /\ pc' # "local"
  BY SameWhileRunning DEF Compared, AtWork
<1>2. shown.compared \subseteq Wids
  BY DEF RotationInv, IInv, TypeOK, Result
<1>3. SidesFound' => Listed'
  BY <1>1 DEF Listed
<1>4. ASSUME SidesFound', NEW w \in shown'.compared, Untouched(w)' PROVE ShownRight(w)'
  <2>1. ShownRight(w)
    BY <1>2, <1>4, SameWhileRunning DEF RotationInv, Rotated
  <2> QED BY <1>2, <1>4, <2>1, SameWhileRunning DEF ShownRight, Sides
<1> QED BY <1>1, <1>3, <1>4, SameWhileRunning DEF RotationInv, Rotated

\* Side i of a workspace is entered where it is read from.
LEMMA Entered ==
    ASSUME NEW i \in Sides, Enter(i)
    PROVE  /\ pc' \in {"local", "get"} /\ left' = UseSet
           /\ pc' = "local" => Type(i) # "remote"
           /\ \A w \in Wids : pc' = "get" => FromServer(i, w)
BY DEF Enter, FromServer

\* A step that enters the source of the next workspace: of each, what is shown is right.
LEMMA EnterRotated ==
    ASSUME RotationInv, UNCHANGED <<root, flags, world, touched>>, Enter(1), at' = 1, queue' # {},
           SidesFound =>
               /\ \A w \in Wids : Untouched(w) => (w \in queue' \cup shown'.compared <=> Selects(w))
               /\ \A w \in shown'.compared : w \in Wids /\ (Untouched(w) => SourceThere(w)
                      /\ shown'.uses[w] = TreeDiff(NamedSettings(1, w), NamedSettings(2, w)))
    PROVE  Rotated'
<1>1. 1 \in Sides /\ 2 \in Sides
  BY DEF Sides
<1>2. ASSUME SidesFound PROVE Listed'
  BY <1>1, <1>2, SameWhileRunning, Entered DEF Listed
<1>3. ASSUME SidesFound, NEW w \in Wids, Untouched(w) PROVE Reading(w)'
  BY <1>1, <1>3, SameWhileRunning, Entered DEF Reading
<1>4. ASSUME SidesFound, NEW w \in shown'.compared, Untouched(w) PROVE ShownRight(w)'
  BY <1>1, <1>4, SameWhileRunning DEF ShownRight
<1>5. Emptied' /\ (AtWork' <=> pc' \in {"local", "get"})
  BY <1>1, Entered DEF Emptied, AtWork
<1> QED BY <1>2, <1>3, <1>4, <1>5, SameWhileRunning DEF RotationInv, Rotated

\* Before anything is compared.
LEMMA StartRotated ==
    ASSUME RotationInv, Start \/ ReadConfig \/ ConfigUnreadable \/ Fail
    PROVE  Rotated'
<1>1. /\ UNCHANGED <<root, flags, world, touched, queue>>
      /\ shown'.uses = shown.uses /\ shown'.compared = shown.compared
      /\ pc' = "failed" \/ (pc \in {"idle", "config"} /\ pc' \in {"config", "gate", "done"})
      /\ pc' = "done" => ~KeyRotation
  BY DEF RotationInv, IInv, TypeOK, Result, Start, ReadConfig, ConfigUnreadable, Fail, Stop, given, progress, ghosts
<1>2. Emptied'
  BY <1>1 DEF RotationInv, Rotated, Emptied
<1>3. pc' \notin {"local", "get"}
  BY <1>1
<1> QED BY <1>1, <1>2, <1>3, IdleRotated

\* Gates: the workspace of the command line is entered.
LEMMA GateRotated ==
    ASSUME RotationInv, GateSides
    PROVE  Rotated'
<1>1. /\ UNCHANGED <<root, flags, world, touched, at>> /\ pc = "gate" /\ at = 1 /\ shown.compared = {}
      /\ shown \in Result /\ flags \in Flags /\ queue = {}
  BY DEF RotationInv, Rotated, Emptied, IInv, TypeOK, Gated, Marked, GateSides, given, ghosts
<1>2. \/ /\ pc' \in {"failed", "list"} /\ queue' = queue /\ shown' = shown
      \/ /\ pc' = "done" /\ queue' = queue /\ shown' = [shown EXCEPT !.skipped = TRUE]
      \/ Enter(1) /\ ~flags.tenant /\ queue' = {flags.wid} /\ shown' = shown
  BY DEF GateSides
<1>3. CASE pc' \in {"failed", "list", "done"} /\ queue' = queue /\ (pc' # "done" => shown' = shown)
           /\ (pc' = "done" => shown' = [shown EXCEPT !.skipped = TRUE])
  <2>1. shown'.uses = shown.uses /\ shown'.compared = shown.compared /\ (pc' = "done" => shown'.skipped)
    BY <1>1, <1>3 DEF Result
  <2> QED BY <1>1, <1>3, <2>1, IdleRotated DEF Emptied
<1>4. CASE Enter(1) /\ ~flags.tenant /\ queue' = {flags.wid} /\ shown' = shown
  BY <1>1, <1>4, EnterRotated DEF Selects
<1> QED BY <1>2, <1>3, <1>4

\* Side.Workspaces: of a tenant, the workspaces of the source.
LEMMA ListRotated ==
    ASSUME RotationInv, ListWorkspaces
    PROVE  Rotated'
<1>1. /\ UNCHANGED <<root, flags, world, touched, at, shown>> /\ pc = "list" /\ at = 1 /\ shown.compared = {}
      /\ queue' = SideWorkspaces(1) /\ IInv /\ TypeOK /\ flags.tenant
      /\ IF queue' = {} THEN pc' = "done" ELSE Enter(1)
  BY DEF RotationInv, IInv, TypeOK, Gated, Marked, ListWorkspaces, given, ghosts
<1>2. ASSUME SidesFound, NEW w \in Wids PROVE w \in queue' <=> Selects(w)
  <2>1. /\ Conf(1) = NamedConf(1) /\ KeyConf(1) = NamedConf(1) /\ Type(1) \in SourceTypes
    BY <1>1, <1>2, SidesNamed DEF Sides
  <2>2. Selects(w) <=> w \in NamedWorkspaces(1)
    BY <1>1 DEF Selects
  <2> QED BY <1>1, <2>1, <2>2 DEF SideWorkspaces, Workspaces, NamedWorkspaces
<1>3. CASE queue' # {}
  BY <1>1, <1>2, <1>3, EnterRotated
<1>4. CASE queue' = {}
  <2>1. pc' = "done"
    BY <1>1, <1>4
  <2>2. ASSUME SidesFound PROVE Listed'
    BY <1>1, <1>2, <1>4, <2>1, <2>2, SameWhileRunning DEF Listed
  <2> QED BY <1>1, <1>4, <2>1, <2>2, SameWhileRunning DEF RotationInv, Rotated, Emptied, AtWork
<1> QED BY <1>3, <1>4

\* A queue has one least workspace.
LEMMA OneLeast ==
    ASSUME NEW S \in SUBSET Wids, NEW w, NEW v, Least(w, S), Least(v, S)
    PROVE  w = v
<1>1. w \in Nat /\ v \in Nat /\ w <= v /\ v <= w
  BY WidsAssumption DEF Least
<1> QED BY <1>1

\* A side that is read right is shown right.
LEMMA FinishRotated ==
    ASSUME RotationInv, AtWork, NEW w \in Wids, Least(w, queue), NEW cfg, Finish(w, cfg),
           UNCHANGED <<root, flags, world, touched>>,
           SidesFound /\ Untouched(w) => cfg = NamedSettings(at, w) /\ (at = 1 => SourceThere(w))
    PROVE  Rotated'
<1>1. /\ TypeOK /\ at \in Sides /\ queue \subseteq Wids /\ w \in queue /\ shown \in Result /\ got' = [got EXCEPT ![at] = cfg]
      /\ SidesFound => Listed
  BY DEF RotationInv, Rotated, IInv, TypeOK, Finish, Least
<1>2. CASE at = 1
  <2>1. at' = 2 /\ Enter(2) /\ UNCHANGED <<queue, shown>> /\ got'[1] = cfg
    BY <1>1, <1>2 DEF Finish, TypeOK
  <2>2. 2 \in Sides /\ 1 \in Sides
    BY DEF Sides
  <2>3. pc' \in {"local", "get"} /\ left' = UseSet /\ (pc' = "local" => Type(2) # "remote")
        /\ \A v \in Wids : pc' = "get" => FromServer(2, v)
    BY <2>1, <2>2, Entered
  <2>4. ASSUME SidesFound PROVE Listed'
    BY <1>1, <2>1, <2>2, <2>3, <2>4, SameWhileRunning DEF Listed, Compared, AtWork
  <2>5. ASSUME SidesFound, NEW v \in Wids, Least(v, queue), Untouched(v) PROVE Reading(v)'
    <3>1. v = w
      BY <1>1, <2>5, OneLeast
    <3> QED BY <1>2, <2>1, <2>2, <2>3, <2>5, <3>1, SameWhileRunning DEF Reading
  <2>6. ASSUME SidesFound, NEW v \in shown.compared, Untouched(v) PROVE ShownRight(v)'
    <3>1. v \in Wids /\ ShownRight(v)
      BY <1>1, <2>6 DEF RotationInv, Rotated, Result
    <3> QED BY <2>1, <2>2, <3>1, SameWhileRunning DEF ShownRight
  <2>7. shown.compared \subseteq Wids /\ Emptied'
    BY <1>1, <2>3 DEF Result, Emptied
  <2> QED BY <2>1, <2>4, <2>5, <2>6, <2>7, SameWhileRunning DEF RotationInv, Rotated
<1>3. CASE at = 2
  <2>1. /\ shown' = [shown EXCEPT !.uses[w] = TreeDiff(got[1], cfg), !.compared = shown.compared \cup {w}]
        /\ queue' = queue \ {w} /\ at' = 1
        /\ IF queue' = {} THEN pc' = "done" ELSE Enter(1)
    BY <1>3 DEF Finish
  <2>2. /\ shown'.compared = shown.compared \cup {w} /\ shown'.compared \subseteq Wids
        /\ shown'.uses[w] = TreeDiff(got[1], cfg)
        /\ \A v \in Wids \ {w} : shown'.uses[v] = shown.uses[v]
    BY <1>1, <2>1 DEF Result
  <2>3. ASSUME SidesFound, Untouched(w)
        PROVE  SourceThere(w) /\ got[1] = NamedSettings(1, w) /\ cfg = NamedSettings(2, w)
    BY <1>3, <2>3 DEF RotationInv, Rotated, Reading
  <2>4. ASSUME SidesFound, NEW v \in shown'.compared, Untouched(v)
        PROVE  SourceThere(v) /\ shown'.uses[v] = TreeDiff(NamedSettings(1, v), NamedSettings(2, v))
    <3>1. CASE v = w
      BY <2>2, <2>3, <2>4, <3>1
    <3>2. CASE v # w
      BY <2>2, <2>4, <3>2 DEF RotationInv, Rotated, ShownRight
    <3> QED BY <3>1, <3>2
  <2>5. ASSUME SidesFound, NEW v \in Wids, Untouched(v)
        PROVE  v \in queue' \cup shown'.compared <=> Selects(v)
    BY <1>1, <2>1, <2>2, <2>5 DEF Listed, Compared
  <2>6. CASE queue' # {}
    BY <2>1, <2>2, <2>4, <2>5, <2>6, EnterRotated
  <2>7. CASE queue' = {}
    <3>1. pc' = "done" /\ ~AtWork' /\ Emptied'
      BY <2>1, <2>7 DEF AtWork, Emptied
    <3>2. ASSUME SidesFound PROVE Listed'
      BY <2>5, <3>1, <3>2, SameWhileRunning DEF Listed
    <3>3. ASSUME SidesFound, NEW v \in shown'.compared, Untouched(v) PROVE ShownRight(v)'
      BY <2>2, <2>4, <3>3, SameWhileRunning DEF ShownRight, Sides
    <3> QED BY <2>2, <3>1, <3>2, <3>3, SameWhileRunning DEF RotationInv, Rotated
  <2> QED BY <2>6, <2>7
<1> QED BY <1>1, <1>2, <1>3 DEF Sides

\* Side.Read, the files: they are read of a side that is not remote, and are the settings unless they hold none.
LEMMA LocalRotated ==
    ASSUME RotationInv, NEW w \in Wids, ReadLocal(w)
    PROVE  Rotated'
<1> DEFINE cfg == Read(world.files[Conf(at).storage], w)
<1>1. /\ TypeOK /\ IInv /\ pc = "local" /\ AtWork /\ Least(w, queue) /\ at \in Sides
      /\ UNCHANGED <<root, flags, world, touched>> /\ queue \subseteq Wids /\ shown \in Result
      /\ \/ cfg = ReadError /\ pc' = "failed" /\ UNCHANGED shown
         \/ /\ cfg = NoConfig /\ Type(at) = "merged" /\ pc' = "get" /\ left' = UseSet
            /\ UNCHANGED <<at, queue, got, shown>>
         \/ cfg # ReadError /\ (cfg = NoConfig => Type(at) = "local") /\ Finish(w, cfg)
  BY DEF RotationInv, IInv, TypeOK, ReadLocal, AtWork, given, progress, ghosts
<1>2. ASSUME SidesFound
      PROVE  /\ cfg = Read(world.files[NamedConf(at).storage], w)
             /\ Type(at) \in {"local", "merged"}
  BY <1>1, <1>2, SidesNamed DEF RotationInv, Rotated, Listed, SourceTypes
<1> HIDE DEF cfg
<1>3. CASE cfg = ReadError /\ pc' = "failed" /\ UNCHANGED shown
  BY <1>1, <1>3, IdleRotated DEF Emptied
<1>4. CASE cfg = NoConfig /\ Type(at) = "merged" /\ pc' = "get" /\ left' = UseSet /\ UNCHANGED <<at, queue, got, shown>>
  <2>0. shown' = shown /\ queue' = queue /\ at' = at /\ got' = got /\ pc' = "get" /\ left' = UseSet /\ AtWork'
    BY <1>4 DEF AtWork
  <2>1. ASSUME SidesFound PROVE Listed'
    BY <1>1, <2>0, <2>1, SameWhileRunning DEF RotationInv, Rotated, Listed, Compared, AtWork
  <2>2. ASSUME SidesFound, NEW v \in Wids, Least(v, queue), Untouched(v) PROVE Reading(v)'
    <3>1. v = w /\ Reading(v)
      BY <1>1, <2>2, OneLeast DEF RotationInv, Rotated
    <3>2. FromServer(at, w)
      BY <1>2, <1>4, <2>2 DEF FromServer
    <3> QED BY <1>1, <2>0, <3>1, <3>2, SameWhileRunning DEF Reading, Sides
  <2>3. ASSUME SidesFound, NEW v \in shown.compared, Untouched(v) PROVE ShownRight(v)'
    <3>1. v \in Wids /\ ShownRight(v)
      BY <1>1, <2>3 DEF RotationInv, Rotated, Result
    <3> QED BY <1>1, <2>0, <3>1, SameWhileRunning DEF ShownRight, Sides
  <2>4. Emptied' /\ shown.compared \subseteq Wids
    BY <1>1, <2>0 DEF Emptied, Result
  <2> QED BY <1>1, <2>0, <2>1, <2>2, <2>3, <2>4, SameWhileRunning DEF RotationInv, Rotated
<1>5. CASE cfg # ReadError /\ (cfg = NoConfig => Type(at) = "local") /\ Finish(w, cfg)
  <2>1. ASSUME SidesFound, Untouched(w)
        PROVE  cfg = NamedSettings(at, w) /\ (at = 1 => SourceThere(w))
    <3>1. ~FromServer(at, w)
      BY <1>2, <1>5, <2>1 DEF FromServer
    <3> QED BY <1>2, <2>1, <3>1 DEF NamedSettings, SourceThere
  <2> QED BY <1>1, <1>5, <2>1, FinishRotated
<1> QED BY <1>1, <1>3, <1>4, <1>5

\* Side.Read, one GET per use: sig and then enc, and the two together are the settings.
LEMMA GetRotated ==
    ASSUME RotationInv, NEW w \in Wids, NEW u \in UseSet, Get(w, u)
    PROVE  Rotated'
<1> DEFINE old == IF left = UseSet THEN EmptyConfig ELSE got[at]
           cfg == [old EXCEPT ![u] = FromModel(world.server[Server][w][u])]
           end == IF Uses(cfg) = {} THEN NoConfig ELSE cfg
<1>1. /\ TypeOK /\ IInv /\ pc = "get" /\ AtWork /\ Least(w, queue) /\ FirstUse(u, left) /\ at \in Sides
      /\ w \in world.present[Server] /\ UNCHANGED <<root, flags, world, touched>>
      /\ queue \subseteq Wids /\ left \subseteq UseSet /\ shown \in Result
      /\ got \in [Sides -> Config \cup {NoConfig}]
  BY DEF RotationInv, IInv, TypeOK, Get, AtWork, given
<1>2. IF left = {u} THEN Finish(w, end)
      ELSE left' = left \ {u} /\ got' = [got EXCEPT ![at] = cfg] /\ UNCHANGED <<pc, at, queue, shown>>
  BY DEF Get
<1>3. ASSUME SidesFound PROVE Server = ServerOf(at)
  BY <1>1, <1>3, SidesNamed DEF Server, ServerOf
<1>4. ASSUME SidesFound, Untouched(w) PROVE Reading(w)
  BY <1>1, <1>4 DEF RotationInv, Rotated
<1>5. left = UseSet \/ left = {"enc"} \/ ~(SidesFound /\ Untouched(w))
  BY <1>1, <1>4 DEF Reading
<1>6. ASSUME SidesFound, Untouched(w), left = UseSet
      PROVE  u = "sig" /\ left \ {u} = {"enc"} /\ left # {u} /\ cfg = FirstGot(w)
  BY <1>1, <1>3, <1>6 DEF FirstUse, UseSet, FirstGot
<1>7. ASSUME SidesFound, Untouched(w), left = {"enc"}
      PROVE  left = {u} /\ end = NamedSettings(at, w) /\ (at = 1 => SourceThere(w))
  <2>1. u = "enc" /\ left # UseSet
    BY <1>1, <1>7 DEF FirstUse, UseSet
  <2>2. FromServer(at, w) /\ w \in world.present[ServerOf(at)] /\ got[at] = FirstGot(w)
    BY <1>1, <1>4, <1>7, <2>1 DEF Reading
  <2>3. cfg = [v \in UseSet |-> FromModel(world.server[ServerOf(at)][w][v])]
    BY <1>3, <1>7, <2>1, <2>2 DEF FirstGot, EmptyConfig, UseSet
  <2>4. end = Settings(world.server[ServerOf(at)][w])
    BY <2>3 DEF Settings
  <2>5. end = NamedSettings(at, w)
    BY <2>2, <2>4 DEF NamedSettings, ServerOf
  <2> QED BY <1>7, <2>1, <2>2, <2>5 DEF SourceThere
<1> HIDE DEF cfg, end
<1>8. CASE left = {u}
  <2>1. Finish(w, end)
    BY <1>2, <1>8
  <2>2. SidesFound /\ Untouched(w) => end = NamedSettings(at, w) /\ (at = 1 => SourceThere(w))
    BY <1>5, <1>6, <1>7, <1>8
  <2> QED BY <1>1, <2>1, <2>2, FinishRotated
<1>9. CASE left # {u}
  <2>1. /\ left' = left \ {u} /\ got' = [got EXCEPT ![at] = cfg]
        /\ pc' = pc /\ at' = at /\ queue' = queue /\ shown' = shown /\ AtWork'
    BY <1>1, <1>2, <1>9 DEF AtWork
  <2>2. ASSUME SidesFound PROVE Listed'
    BY <1>1, <2>1, <2>2, SameWhileRunning DEF RotationInv, Rotated, Listed, Compared, AtWork
  <2>3. ASSUME SidesFound, NEW v \in Wids, Least(v, queue), Untouched(v) PROVE Reading(v)'
    <3>1. v = w
      BY <1>1, <2>3, OneLeast
    <3>2. left = UseSet /\ left' = {"enc"} /\ cfg = FirstGot(w)
      BY <1>5, <1>6, <1>7, <1>9, <2>1, <2>3, <3>1
    <3>3. got'[at] = FirstGot(w) /\ (at = 2 => got'[1] = got[1]) /\ w \in world.present[ServerOf(at)]
      BY <1>1, <1>3, <2>1, <2>3, <3>2 DEF Sides
    <3>4. FirstGot(w)' = FirstGot(w)
      BY <1>1, <2>1, SameWhileRunning DEF FirstGot
    <3>5. Reading(w)
      BY <1>4, <2>3, <3>1
    <3> QED BY <1>1, <2>1, <3>1, <3>2, <3>3, <3>4, <3>5, SameWhileRunning DEF Reading, Sides
  <2>4. ASSUME SidesFound, NEW v \in shown.compared, Untouched(v) PROVE ShownRight(v)'
    <3>1. v \in Wids /\ ShownRight(v)
      BY <1>1, <2>4 DEF RotationInv, Rotated, Result
    <3> QED BY <1>1, <2>1, <3>1, SameWhileRunning DEF ShownRight, Sides
  <2>5. Emptied' /\ shown.compared \subseteq Wids
    BY <1>1, <2>1 DEF Emptied, Result
  <2> QED BY <1>1, <2>1, <2>2, <2>3, <2>4, <2>5, SameWhileRunning DEF RotationInv, Rotated
<1> QED BY <1>8, <1>9

\* Diff: a workspace the server of the target lacks has no settings.
LEMMA NotFoundRotated ==
    ASSUME RotationInv, NEW w \in Wids, GetNotFound(w)
    PROVE  Rotated'
<1>1. /\ TypeOK /\ IInv /\ pc = "get" /\ AtWork /\ Least(w, queue) /\ at \in Sides
      /\ w \notin world.present[Server] /\ UNCHANGED <<root, flags, world, touched>>
      /\ IF at = 1 THEN pc' = "failed" /\ UNCHANGED shown ELSE Finish(w, NoConfig)
  BY DEF RotationInv, IInv, TypeOK, GetNotFound, AtWork, given
<1>2. CASE at = 1
  BY <1>1, <1>2, IdleRotated DEF Emptied
<1>3. CASE at # 1
  <2>1. ASSUME SidesFound, Untouched(w) PROVE NoConfig = NamedSettings(at, w)
    <3>1. Server = ServerOf(at) /\ ServerOf(at) \in Servers
      BY <1>1, <2>1, SidesNamed DEF Server, ServerOf, Configuration, Client
    <3>2. world.server[ServerOf(at)][w] = Unconfigured
      BY <1>1, <2>1, <3>1 DEF RotationInv, Rotated, Tidy
    <3>3. Settings(Unconfigured) = NoConfig
      BY DEF Settings, Unconfigured, NeverConfigured, FromModel, Uses
    <3>4. FromServer(at, w)
      BY <1>1, <2>1 DEF RotationInv, Rotated, Reading
    <3> QED BY <3>2, <3>3, <3>4 DEF NamedSettings, ServerOf
  <2> QED BY <1>1, <1>3, <2>1, FinishRotated
<1> QED BY <1>2, <1>3


\* What others change is not of the workspaces they do not touch.
LEMMA WorldRotated ==
    ASSUME RotationInv, pc \in Running, UNCHANGED <<root, flags, pc, progress, shown>>,
           NEW place \in Stores \cup Servers, NEW v \in Wids, touched' = touched \cup {<<place, v>>},
           \A w \in Wids \ {v} : SameWorld(w)
    PROVE  Rotated'
<1>1. /\ pc' = pc /\ at' = at /\ queue' = queue /\ left' = left /\ got' = got /\ shown' = shown
      /\ (SidesFound' <=> SidesFound) /\ at \in Sides /\ queue \subseteq Wids /\ shown.compared \subseteq Wids
  BY DEF progress, SidesFound, SelectedFound, NamedConf, Selected, SideSpec, Sides, RotationInv, IInv, TypeOK, Result
<1>2. ASSUME NEW w \in Wids, Untouched(w)' PROVE Untouched(w) /\ SameWorld(w)
  BY <1>2 DEF Untouched
<1>3. Tidy'
  BY <1>2 DEF Tidy, SameWorld, RotationInv, Rotated
<1>4. Emptied' /\ (AtWork' <=> AtWork) /\ (Compared' <=> AtWork)
  BY <1>1 DEF RotationInv, Rotated, Emptied, AtWork, Compared, Running
<1>5. ~AtWork => shown.compared = {}
  BY DEF RotationInv, IInv, Marked, AtWork, Running
<1>6. ASSUME SidesFound, AtWork, NEW i \in Sides, NEW w \in Wids, SameWorld(w)
      PROVE  /\ Type(i)' = Type(i) /\ ServerOf(i)' = ServerOf(i)
             /\ FromServer(i, w)' <=> FromServer(i, w)
             /\ NamedSettings(i, w)' = NamedSettings(i, w)
             /\ w \in NamedWorkspaces(i)' <=> w \in NamedWorkspaces(i)
             /\ w \in world'.present[ServerOf(i)'] <=> w \in world.present[ServerOf(i)]
             /\ world'.server[ServerOf(i)'][w] = world.server[ServerOf(i)][w]
  <2>1. NamedConf(i) \in Configuration
    BY <1>6, SidesNamed DEF RotationInv
  <2> QED BY <1>6, <2>1, SameSides
<1>7. ASSUME SidesFound, AtWork, NEW w \in Wids, SameWorld(w)
      PROVE  (SourceThere(w)' <=> SourceThere(w)) /\ (Selects(w)' <=> Selects(w))
  BY <1>6, <1>7 DEF SourceThere, Selects, Sides
<1>8. ASSUME SidesFound PROVE Listed'
  <2>1. pc' = "local" => Type(at') # "remote"
    BY <1>1, <1>8 DEF RotationInv, Rotated, Listed, Type, SideSpec
  <2>2. ASSUME AtWork, NEW w \in Wids, Untouched(w)' PROVE w \in queue' \cup shown'.compared <=> Selects(w)'
    BY <1>1, <1>2, <1>7, <1>8, <2>2 DEF RotationInv, Rotated, Listed, Compared
  <2> QED BY <1>4, <2>1, <2>2 DEF Listed, Type, SideSpec
<1>9. ASSUME SidesFound, AtWork, NEW w \in Wids, Least(w, queue), Untouched(w)' PROVE Reading(w)'
  <2>1. Reading(w) /\ SameWorld(w)
    BY <1>2, <1>9 DEF RotationInv, Rotated
  <2>2. pc = "get" /\ left # UseSet => FirstGot(w)' = FirstGot(w)
    BY <1>1, <1>6, <1>9, <2>1 DEF FirstGot
  <2> QED BY <1>1, <1>6, <1>7, <1>9, <2>1, <2>2 DEF Reading, Sides
<1>10. ASSUME SidesFound, NEW w \in shown.compared, Untouched(w)' PROVE ShownRight(w)'
  <2>1. AtWork /\ w \in Wids /\ SameWorld(w) /\ ShownRight(w)
    BY <1>1, <1>2, <1>5, <1>10 DEF RotationInv, Rotated
  <2> QED BY <1>1, <1>6, <1>7, <1>10, <2>1 DEF ShownRight, Sides
<1> QED BY <1>1, <1>3, <1>4, <1>8, <1>9, <1>10 DEF Rotated

\* Others set, delete or create workspaces, or edit files: of one workspace at a time.
LEMMA OutsideRotated ==
    ASSUME RotationInv, NEW v \in Wids,
           \/ \E s \in Servers : OutsideDelete(s, v) \/ OutsideCreate(s, v)
           \/ \E s \in Servers, u \in UseSet, p \in OutsidePayloads : OutsideSet(s, v, u, p)
           \/ \E s \in Stores, d \in Dirs, f \in OutsideFiles : Edit(s, d, v, f)
    PROVE  Rotated'
<1>1. world \in Worlds
  BY DEF RotationInv, IInv, TypeOK
<1>2. ASSUME NEW place \in Stores \cup Servers, NEW new, Change(place, v, new), \A w \in Wids \ {v} : SameWorld(w)
      PROVE  Rotated'
  BY <1>2, WorldRotated DEF Change
<1>3. ASSUME NEW s \in Servers, OutsideDelete(s, v) PROVE Rotated'
  <2>1. world' = [world EXCEPT !.server[s][v] = Unconfigured, !.present[s] = @ \ {v}]
    BY <1>3 DEF OutsideDelete, Change
  <2>2. \A w \in Wids \ {v} : SameWorld(w)
    BY <1>1, <2>1 DEF Worlds, SameWorld
  <2> QED BY <1>2, <1>3, <2>2 DEF OutsideDelete
<1>4. ASSUME NEW s \in Servers, OutsideCreate(s, v) PROVE Rotated'
  <2>1. world' = [world EXCEPT !.present[s] = @ \cup {v}]
    BY <1>4 DEF OutsideCreate, Change
  <2>2. \A w \in Wids \ {v} : SameWorld(w)
    BY <1>1, <2>1 DEF Worlds, SameWorld
  <2> QED BY <1>2, <1>4, <2>2 DEF OutsideCreate
<1>5. ASSUME NEW s \in Servers, NEW u \in UseSet, NEW p \in OutsidePayloads, OutsideSet(s, v, u, p) PROVE Rotated'
  <2>1. world' = [world EXCEPT !.server[s][v][u] = p]
    BY <1>5 DEF OutsideSet, Change
  <2>2. \A w \in Wids \ {v} : SameWorld(w)
    BY <1>1, <2>1 DEF Worlds, SameWorld
  <2> QED BY <1>2, <1>5, <2>2 DEF OutsideSet
<1>6. ASSUME NEW s \in Stores, NEW d \in Dirs, NEW f \in OutsideFiles, Edit(s, d, v, f) PROVE Rotated'
  <2>1. world' = [world EXCEPT !.files[s][d][v] = f]
    BY <1>6 DEF Edit, Change
  <2>2. \A w \in Wids \ {v} : SameWorld(w)
    BY <1>1, <2>1 DEF Worlds, Tree, SameWorld
  <2> QED BY <1>2, <1>6, <2>2 DEF Edit
<1> QED BY <1>3, <1>4, <1>5, <1>6

\* A step that changes nothing.
LEMMA StutterRotated ==
    ASSUME RotationInv, UNCHANGED vars
    PROVE  Rotated'
<1>1. UNCHANGED <<root, flags, world, touched>> /\ UNCHANGED <<pc, at, queue, left, got, shown>>
  BY DEF vars, given, progress, ghosts
<1>2. Tidy' /\ Emptied' /\ (AtWork' <=> AtWork) /\ (Compared' <=> Compared) /\ (SidesFound' <=> SidesFound)
  BY <1>1, SameWhileRunning DEF RotationInv, Rotated, Emptied, AtWork, Compared
<1>3. at \in Sides /\ queue \subseteq Wids /\ shown.compared \subseteq Wids
  BY DEF RotationInv, IInv, TypeOK, Result
<1>4. ASSUME SidesFound PROVE Listed'
  BY <1>1, <1>2, <1>3, <1>4, SameWhileRunning DEF RotationInv, Rotated, Listed
<1>5. ASSUME SidesFound, NEW w \in Wids, AtWork, Least(w, queue), Untouched(w) PROVE Reading(w)'
  <2>1. Reading(w) /\ FirstGot(w)' = FirstGot(w)
    BY <1>1, <1>3, <1>5, SameWhileRunning DEF RotationInv, Rotated, FirstGot
  <2> QED BY <1>1, <1>3, <2>1, SameWhileRunning DEF Reading, Sides
<1>6. ASSUME SidesFound, NEW w \in shown.compared, Untouched(w) PROVE ShownRight(w)'
  BY <1>1, <1>3, <1>6, SameWhileRunning DEF RotationInv, Rotated, ShownRight, Sides
<1> QED BY <1>1, <1>2, <1>3, <1>4, <1>5, <1>6, SameWhileRunning DEF Rotated

\* A diff shows the key rotation in which the sides it names differ.
THEOREM ShowsRotation == Spec => []KeyRotationShown
<1>1. Init => RotationInv
  <2> SUFFICES ASSUME Init PROVE Rotated
    BY InitInv DEF RotationInv
  <2>1. \A s \in Servers : \A w \in Wids \ world.present[s] : world.server[s][w] = Unconfigured
    BY RunAssumption DEF Init
  <2>2. pc = "idle" /\ queue = {} /\ shown.compared = {}
    BY DEF Init
  <2> QED BY <2>1, <2>2 DEF Rotated, Tidy, Emptied, Listed, Compared, AtWork
<1>2. RotationInv /\ [Next]_vars => RotationInv'
  <2> SUFFICES ASSUME RotationInv, [Next]_vars PROVE Rotated'
    BY NextInv DEF RotationInv
  <2> QED BY StartRotated, GateRotated, ListRotated, LocalRotated, GetRotated, NotFoundRotated, OutsideRotated,
             StutterRotated DEF Next
<1> QED BY <1>1, <1>2, RotatedShown, PTL DEF Spec

=============================================================================
