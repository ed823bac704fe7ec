------------------------------ MODULE DiffRun ------------------------------
(***************************************************************************)
(* A run of `cac diff` (cmd/diff.go, cmd/key_rotation_feature.go,          *)
(* keyrotation/diff.go, diff/): the selected profile is validated, the     *)
(* configurations of source and target are compared, then key rotation is  *)
(* gated by the profiles of the two sides and compared workspace by        *)
(* workspace, while others change servers and files.                       *)
(*                                                                         *)
(* The configuration of a store or server in the scope of the run is a     *)
(* function from its top-level keys to what is nested one level below      *)
(* (clients by id, or with --tenant workspaces by id) and the fields of an *)
(* item; what lies deeper is a value.  Each side reads it once, so changes by others during the run  *)
(* are to key rotation and workspaces only.                                *)
(***************************************************************************)
EXTENDS KeyRotation, Profiles

CONSTANTS
    Kinds,          \* top-level keys of a configuration
    Ids,            \* ids nested below them
    Fields,         \* the fields of an item
    Values,         \* what a field is set to
    NoValue,        \* the field is not set
    NoItem,         \* the id is not there
    NoKind,         \* the key is not there
    RunFiles,       \* configuration files the run may have
    RunFlags,       \* command lines
    RunWorlds,      \* what servers and files hold when it starts
    OutsidePayloads,
    OutsideFiles,   \* settings and key_rotation.yaml others may set
    MaxOutside      \* bound on the changes by others

Item == [Fields -> Values \cup {NoValue}]
Items == [Ids -> Item \cup {NoItem}]
Patch == [Kinds -> Items \cup {NoKind}]

Filters == {"key_rotation", "clients"}
\* sub is the key-rotation subcommand.
Flags == [sub : BOOLEAN, profile : Names \cup {Unset}, source : SourceSpecs, target : SourceSpecs, wid : Wids,
          tenant : BOOLEAN, filters : SUBSET Filters, onlyPresent : BOOLEAN]
Worlds == [files : [Stores -> Tree], local : [Stores -> Patch], remote : [Servers -> Patch],
           server : [Servers -> [Wids -> [UseSet -> Payload]]], present : [Servers -> SUBSET Wids]]

Unconfigured == [u \in UseSet |-> NeverConfigured]

\* A server has no settings of a workspace it does not have.
ASSUME RunAssumption ==
    /\ \A file \in RunFiles : IsConfigFile(file)
    /\ RunFlags \subseteq Flags /\ RunWorlds \subseteq Worlds
    /\ OutsidePayloads \subseteq Payload /\ OutsideFiles \subseteq File
    /\ MaxOutside \in Nat
    /\ \A start \in RunWorlds, s \in Servers : \A w \in Wids \ start.present[s] : start.server[s][w] = Unconfigured
    /\ NoValue \notin Values /\ NoItem \notin Item /\ NoKind \notin Items

VARIABLES
    root,     \* the profiles
    flags,    \* the command line
    world,    \* servers and files
    pc,       \* where the run is
    at,       \* the side being read: 1 the source, 2 the target
    patch,    \* the configurations read
    queue,    \* the workspaces whose key rotation is not compared yet
    left,     \* the uses still to GET
    got,      \* the settings of the current workspace read so far, by side
    shown,    \* the result
    asked,    \* history: the profiles whose client requested key rotation
    touched,  \* history: the workspaces of stores and servers that others changed during the run
    outside   \* number of those changes

given == <<root, flags, world>>
progress == <<at, queue, left, got>>
ghosts == <<asked, touched, outside>>
vars == <<given, pc, progress, patch, shown, ghosts>>

Sides == {1, 2}
NoPatch == [k \in Kinds |-> NoKind]
\* What a diff prints: items of the configuration, uses by workspace, and the marker of a skipped part.
Result == [items : SUBSET (Kinds \X Ids), uses : [Wids -> SUBSET UseSet],
           compared : SUBSET Wids, skipped : BOOLEAN]
Running == {"config", "gate", "list", "local", "get"}

TypeOK ==
    /\ Default \in DOMAIN root /\ root \in [DOMAIN root -> Configuration]
    /\ flags \in Flags /\ world \in Worlds
    /\ pc \in Running \cup {"idle", "done", "failed"} /\ at \in Sides
    /\ patch \in [Sides -> Patch]
    /\ queue \subseteq Wids /\ left \subseteq UseSet
    /\ got \in [Sides -> Config \cup {NoConfig}]
    /\ shown \in Result
    /\ asked \subseteq Configuration
    /\ touched \subseteq (Stores \cup Servers) \X Wids
    /\ outside \in 0..MaxOutside

-----------------------------------------------------------------------------
Selected == ForProfile(root, flags.profile)
SideSpec(i) == IF i = 1 THEN flags.source ELSE flags.target
Conf(i) == ResolveSource(root, Selected, SideSpec(i))
Type(i) == SideSpec(i).source

\* scopeOf, and the scope of the subcommand.
Explicit == flags.sub \/ "key_rotation" \in flags.filters
Regular == ~flags.sub /\ flags.filters # {"key_rotation"}
KeyRotation == flags.sub \/ (Selected.features /\ (flags.filters = {} \/ Explicit))

\* Command lines: the subcommand compares local with remote, of a workspace.
CommandLine(f) ==
    f.sub => /\ f.source = [profile |-> Unset, source |-> "local"]
             /\ f.target = [profile |-> Unset, source |-> "remote"]
             /\ f.filters = {} /\ ~f.tenant /\ ~f.onlyPresent

\* The configuration of a side: MultiStorage.Read lays the directories over the client of a merged side.
\* mergo.Merge WithOverride descends into maps: what is set above wins field by field.
MergeItem(over, under) ==
    IF over = NoItem THEN under ELSE IF under = NoItem THEN over
    ELSE [f \in Fields |-> IF over[f] # NoValue THEN over[f] ELSE under[f]]
MergeItems(over, under) ==
    IF over = NoKind THEN under ELSE IF under = NoKind THEN over
    ELSE [i \in Ids |-> MergeItem(over[i], under[i])]
MergePatch(over, under) == [k \in Kinds |-> MergeItems(over[k], under[k])]
PickSource(conf, type) ==
    LET local == world.local[conf.storage]
        remote == world.remote[conf.client.server]
    IN CASE type = "local" -> local
         [] type = "remote" -> remote
         [] type = "merged" -> MergePatch(local, remote)

\* FilterPatch.
FilterPatch(p) ==
    [k \in Kinds |-> IF flags.filters = {} \/ k \in flags.filters THEN p[k] ELSE NoKind]

ItemsOf(p, k) == IF p[k] = NoKind THEN [i \in Ids |-> NoItem] ELSE p[k]

\* Mutant of OnlyPresentKeys: a key the source lacks is left as it is.
OnlyPresentKeys_Missing(source, target, k) ==
    [i \in Ids |-> IF source[k] # NoKind /\ source[k][i] = NoItem THEN NoItem ELSE target[k][i]]

\* OnlyPresentKeys: what the source lacks below a key is removed from the target, not the key.
OnlyPresentKeys(source, target, k) ==
    [i \in Ids |-> IF ItemsOf(source, k)[i] = NoItem THEN NoItem ELSE target[k][i]]

\* diff.Tree: the items that differ.
DiffTree(source, target) ==
    LET pruned == [k \in Kinds |-> IF flags.onlyPresent /\ target[k] # NoKind
                                   THEN OnlyPresentKeys(source, target, k) ELSE target[k]]
    IN {item \in Kinds \X Ids : ItemsOf(source, item[1])[item[2]] # ItemsOf(pruned, item[1])[item[2]]}

-----------------------------------------------------------------------------
\* InitApp validates the selected profile, scopeOf the filters.
Start ==
    /\ pc = "idle"
    /\ pc' = IF \/ Selected = Unknown
                \/ ~ValidProfile(Selected)
                \/ ~flags.sub /\ Explicit /\ ~Selected.features
             THEN "failed"
             ELSE IF Regular THEN "config" ELSE "gate"
    /\ UNCHANGED <<given, progress, patch, shown, ghosts>>

\* runDiff picks both sources before it reads either.
ConfigReadable(i) ==
    /\ \A j \in Sides : Conf(j) # Unknown
    /\ flags.tenant \/ Type(i) = "local" \/ flags.wid \in world.present[Conf(i).client.server]

ReadConfig ==
    /\ pc = "config" /\ ConfigReadable(at)
    /\ LET read == FilterPatch(PickSource(Conf(at), Type(at)))
       IN /\ patch' = [patch EXCEPT ![at] = read]
          /\ IF at = 1 THEN at' = 2 /\ UNCHANGED <<pc, shown>>
             ELSE /\ shown' = [shown EXCEPT !.items = DiffTree(patch[1], read)]
                  /\ pc' = IF KeyRotation THEN "gate" ELSE "done"
                  /\ at' = 1
    /\ UNCHANGED <<given, queue, left, got, ghosts>>

Stop ==
    /\ pc' = "failed"
    /\ UNCHANGED <<given, progress, patch, shown, ghosts>>

ConfigUnreadable == pc = "config" /\ ~ConfigReadable(at) /\ Stop

-----------------------------------------------------------------------------
\* Mutants of Gate: the scope of the other profile is not validated; a comparison asked for is skipped.
Gate_NoValidate(i) ==
    IF Conf(i) = Unknown THEN "fail"
    ELSE IF Type(i) = "local" \/ Conf(i).name = Selected.name \/ Conf(i).features THEN "pass"
    ELSE IF Explicit THEN "fail" ELSE "skip"
Gate_SkipExplicit(i) ==
    IF Conf(i) = Unknown THEN "fail"
    ELSE IF Type(i) = "local" \/ Conf(i).name = Selected.name THEN "pass"
    ELSE IF ~Conf(i).features THEN "skip"
    ELSE IF ValidProfile(Conf(i)) THEN "pass" ELSE "fail"

\* sideSpec.gate, with the error of ResolveSource.
Gate(i) ==
    IF Conf(i) = Unknown THEN "fail"
    ELSE IF Type(i) = "local" \/ Conf(i).name = Selected.name THEN "pass"
    ELSE IF ~Conf(i).features THEN IF Explicit THEN "fail" ELSE "skip"
    ELSE IF ValidProfile(Conf(i)) THEN "pass" ELSE "fail"

\* Mutant of KeyConf: the selected profile's client is used whatever profile the side names.
KeyConf_Selected(i) == Selected

\* sideSpec.side: the profile whose client reads key rotation, the selected one's when the names agree.
KeyConf(i) == IF Conf(i).name = Selected.name THEN Selected ELSE Conf(i)

\* Side i of a workspace is read from its files first, unless it is remote.
Enter(i) ==
    /\ pc' = IF Type(i) = "remote" THEN "get" ELSE "local"
    /\ left' = UseSet

\* diffKeyRotations: the source is gated before the target, both before either is built.
GateSides ==
    /\ pc = "gate"
    /\ LET verdict == IF Gate(1) # "pass" THEN Gate(1) ELSE Gate(2)
       IN \/ /\ verdict = "fail"
             /\ pc' = "failed" /\ UNCHANGED <<shown, queue, left>>
          \/ /\ verdict = "skip"
             /\ pc' = "done" /\ shown' = [shown EXCEPT !.skipped = TRUE]
             /\ UNCHANGED <<queue, left>>
          \/ /\ verdict = "pass" /\ flags.tenant
             /\ pc' = "list" /\ UNCHANGED <<shown, queue, left>>
          \/ /\ verdict = "pass" /\ ~flags.tenant
             /\ Enter(1) /\ queue' = {flags.wid} /\ UNCHANGED shown
    /\ UNCHANGED <<given, at, got, patch, ghosts>>

\* Side.Workspaces.
SideWorkspaces(i) ==
    (IF Type(i) # "remote" THEN Workspaces(world.files[Conf(i).storage]) ELSE {})
        \cup (IF Type(i) # "local" THEN world.present[KeyConf(i).client.server] ELSE {})

ListWorkspaces ==
    /\ pc = "list"
    /\ queue' = SideWorkspaces(1)
    /\ IF queue' = {} THEN pc' = "done" /\ UNCHANGED left ELSE Enter(1)
    /\ UNCHANGED <<given, at, got, patch, shown, ghosts>>

\* Side at of w is read: the target follows the source, the next workspace follows the target.
Finish(w, cfg) ==
    /\ got' = [got EXCEPT ![at] = cfg]
    /\ IF at = 1
       THEN at' = 2 /\ Enter(2) /\ UNCHANGED <<queue, shown>>
       ELSE /\ shown' = [shown EXCEPT !.uses[w] = TreeDiff(got[1], cfg), !.compared = @ \cup {w}]
            /\ queue' = queue \ {w}
            /\ at' = 1
            /\ IF queue' = {} THEN pc' = "done" /\ left' = {} ELSE Enter(1)

\* Mutant of ReadLocal: the error of the directory is dropped.
ReadLocal_NoError(w) ==
    /\ pc = "local" /\ Least(w, queue)
    /\ LET cfg == Read(world.files[Conf(at).storage], w)
       IN IF cfg = NoConfig /\ Type(at) = "merged"
          THEN pc' = "get" /\ left' = UseSet /\ UNCHANGED <<at, queue, got, shown>>
          ELSE Finish(w, cfg)
    /\ UNCHANGED <<given, patch, ghosts>>

\* Side.Read, the files.
ReadLocal(w) ==
    /\ pc = "local" /\ Least(w, queue)
    /\ LET cfg == Read(world.files[Conf(at).storage], w)
       IN \/ /\ cfg = ReadError
             /\ pc' = "failed" /\ UNCHANGED <<progress, shown>>
          \/ /\ cfg = NoConfig /\ Type(at) = "merged"
             /\ pc' = "get" /\ left' = UseSet
             /\ UNCHANGED <<at, queue, got, shown>>
          \/ /\ cfg # ReadError /\ (cfg = NoConfig => Type(at) = "local")
             /\ Finish(w, cfg)
    /\ UNCHANGED <<given, patch, ghosts>>

\* Side.Read, one GET per use.
Request == asked' = asked \cup {KeyConf(at)}
Server == KeyConf(at).client.server
Get(w, u) ==
    /\ pc = "get" /\ Least(w, queue) /\ FirstUse(u, left)
    /\ w \in world.present[Server]
    /\ Request
    /\ LET old == IF left = UseSet THEN EmptyConfig ELSE got[at]
           cfg == [old EXCEPT ![u] = FromModel(world.server[Server][w][u])]
       IN IF left = {u} THEN Finish(w, IF Uses(cfg) = {} THEN NoConfig ELSE cfg)
          ELSE /\ left' = left \ {u} /\ got' = [got EXCEPT ![at] = cfg]
               /\ UNCHANGED <<pc, at, queue, shown>>
    /\ UNCHANGED <<given, patch, touched, outside>>

\* Diff: a workspace the server of the source lacks is an error, one the target's lacks has no settings.
GetNotFound(w) ==
    /\ pc = "get" /\ Least(w, queue)
    /\ w \notin world.present[Server]
    /\ Request
    /\ IF at = 1 THEN pc' = "failed" /\ UNCHANGED <<progress, shown>>
       ELSE Finish(w, NoConfig)
    /\ UNCHANGED <<given, patch, touched, outside>>

\* A file cannot be read or a call fails.
Fail == pc \in Running /\ Stop

-----------------------------------------------------------------------------
\* Other administrators and users.
Change(place, w, new) ==
    /\ outside < MaxOutside /\ outside' = outside + 1
    /\ pc \in Running
    /\ world' = new
    /\ touched' = touched \cup {<<place, w>>}
    /\ UNCHANGED <<root, flags, pc, progress, patch, shown, asked>>

OutsideSet(s, w, u, p) ==
    /\ w \in world.present[s]
    /\ Change(s, w, [world EXCEPT !.server[s][w][u] = p])

OutsideDelete(s, w) ==
    /\ w \in world.present[s]
    /\ Change(s, w, [world EXCEPT !.server[s][w] = Unconfigured, !.present[s] = @ \ {w}])

OutsideCreate(s, w) ==
    /\ w \notin world.present[s]
    /\ Change(s, w, [world EXCEPT !.present[s] = @ \cup {w}])

Edit(s, d, w, f) == Change(s, w, [world EXCEPT !.files[s][d][w] = f])

-----------------------------------------------------------------------------
Init ==
    /\ root \in {InitConfig(file) : file \in RunFiles}
    /\ flags \in RunFlags /\ CommandLine(flags) /\ world \in RunWorlds
    /\ pc = "idle" /\ at = 1
    /\ patch = [i \in Sides |-> NoPatch]
    /\ queue = {} /\ left = {} /\ got = [i \in Sides |-> NoConfig]
    /\ shown = [items |-> {}, uses |-> [w \in Wids |-> {}], compared |-> {}, skipped |-> FALSE]
    /\ asked = {} /\ touched = {} /\ outside = 0

Next ==
    \/ Start \/ ReadConfig \/ ConfigUnreadable \/ GateSides \/ ListWorkspaces \/ Fail
    \/ \E w \in Wids :
        \/ ReadLocal(w) \/ GetNotFound(w)
        \/ \E u \in UseSet : Get(w, u)
        \/ \E s \in Servers : OutsideDelete(s, w) \/ OutsideCreate(s, w)
        \/ \E s \in Servers, u \in UseSet, p \in OutsidePayloads : OutsideSet(s, w, u, p)
        \/ \E s \in Stores, d \in Dirs, f \in OutsideFiles : Edit(s, d, w, f)

Spec == Init /\ [][Next]_vars
-----------------------------------------------------------------------------
(***************************************************************************)
(* Properties.  They speak of the sides the command line names: a source   *)
(* without a profile is of the selected one.                               *)
(***************************************************************************)
NamedConf(i) ==
    IF SideSpec(i).profile = Unset THEN Selected ELSE ForProfile(root, SideSpec(i).profile)

\* ResolveSource looks the selected profile up by its name: it is found there, whatever names sections set.
SelectedFound ==
    (\E i \in Sides : SideSpec(i).profile = Unset) => ForProfile(root, Selected.name) = Selected
\* sideSpec.side tells a side from the selected profile by the name: no other profile has it.
SidesFound == SelectedFound /\ \A i \in Sides : NamedConf(i).name = Selected.name => NamedConf(i) = Selected

\* What the configuration and the key rotation of side i are: of a merged one each field is what the
\* directories set, and what the server has where they set nothing.
NamedItem(i, k, id) ==
    LET local == ItemsOf(world.local[NamedConf(i).storage], k)[id]
        remote == ItemsOf(world.remote[NamedConf(i).client.server], k)[id]
        fields == [f \in Fields |->
                      IF local # NoItem /\ (local[f] # NoValue \/ remote = NoItem) THEN local[f] ELSE remote[f]]
    IN CASE Type(i) = "local" -> local
         [] Type(i) = "remote" -> remote
         [] Type(i) = "merged" -> IF local = NoItem /\ remote = NoItem THEN NoItem ELSE fields
FromServer(i, w) ==
    \/ Type(i) = "remote"
    \/ Type(i) = "merged" /\ Read(world.files[NamedConf(i).storage], w) = NoConfig
NamedSettings(i, w) ==
    IF FromServer(i, w) THEN Settings(world.server[NamedConf(i).client.server][w])
    ELSE Read(world.files[NamedConf(i).storage], w)
NamedWorkspaces(i) ==
    {w \in Wids :
        \/ Type(i) # "remote" /\ \E d \in Dirs : world.files[NamedConf(i).storage][d][w] # NoFile
        \/ Type(i) # "local" /\ w \in world.present[NamedConf(i).client.server]}

\* gate and side (key_rotation_feature.go:147, 175): whatever names the profiles have, key rotation is
\* requested only with the client of a profile that enables the feature and has the scope of its API, or by
\* the subcommand with the selected one's.
KeysReadWithFeature ==
    \A conf \in asked :
        \/ flags.sub /\ conf = Selected
        \/ conf.features /\ conf.client.manage_servers

\* diff.Diff (diff.go:92) and PickSource: a diff shows exactly the items in which the sides it names
\* differ, all of the filter, and with --only-present none that only the target has.
ConfigurationShown ==
    pc = "done" /\ Regular /\ SelectedFound =>
        shown.items =
            {item \in Kinds \X Ids :
                LET named(i) == NamedItem(i, item[1], item[2])
                IN /\ flags.filters = {} \/ item[1] \in flags.filters
                   /\ named(1) # named(2)
                   /\ flags.onlyPresent => named(1) # NoItem}

\* Skipped (keyrotation/diff.go:152: "rather than being silently left out"): key rotation in the scope
\* of a diff that succeeds is either compared or marked as skipped, and marked only when it was not
\* asked for and the server of a profile without the feature would have to be read.
NotSilentlyLeftOut ==
    pc = "done" /\ KeyRotation =>
        IF shown.skipped
        THEN /\ ~Explicit /\ shown.compared = {}
             /\ \E i \in Sides : Type(i) # "local" /\ ~Conf(i).features
        ELSE flags.tenant \/ flags.wid \in shown.compared

\* Diff and Side.Read: of every workspace others did not change meanwhile, a diff that succeeds shows the
\* uses in which the sides it names differ: a workspace the target lacks as having no settings, one
\* the source lacks not at all, and of a tenant exactly those the source has.
KeyRotationShown ==
    pc = "done" /\ KeyRotation /\ SidesFound /\ ~shown.skipped =>
        \A w \in Wids : (\A place \in Stores \cup Servers : <<place, w>> \notin touched) =>
            /\ w \in shown.compared <=>
                   IF flags.tenant THEN w \in NamedWorkspaces(1) ELSE w = flags.wid
            /\ w \in shown.compared =>
                   /\ FromServer(1, w) => w \in world.present[NamedConf(1).client.server]
                   /\ shown.uses[w] = TreeDiff(NamedSettings(1, w), NamedSettings(2, w))
=============================================================================
