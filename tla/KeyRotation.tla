---------------------------- MODULE KeyRotation ----------------------------
(***************************************************************************)
(* The data of the automatic key rotation of a workspace and the pure      *)
(* functions of internal/cac/keyrotation over it: the use settings, the    *)
(* file of a workspace, its validation, its lookup across the storage      *)
(* directories, what a push sends and what a diff shows.                   *)
(*                                                                         *)
(* A pointer that may be nil ranges over its type and a distinguished      *)
(* value (NoRotation, NoConfig, NoTime).  A cron expression is a member of *)
(* GoodCrons or BadCrons (what cronexpr.Parse accepts and what it does     *)
(* not); NoCron is the empty string.  Workspace ids are naturals: the code *)
(* only compares them and visits them in sorted order.                     *)
(***************************************************************************)
EXTENDS Naturals

CONSTANTS
    Wids,        \* workspace ids, ordered by <
    NDirs,       \* number of storage directories of a profile
    GoodCrons,   \* cron expressions the parser accepts
    BadCrons,    \* non-empty cron expressions the parser rejects
    NoCron,      \* the empty cron
    Times,       \* values of starting_from
    NoTime,      \* starting_from not set
    NoRotation,  \* a use that is not set (nil *Rotation)
    NoConfig,    \* no settings (nil *Config)
    NoFile,      \* the directory has no key_rotation.yaml of the workspace
    BadFile,     \* a file that does not render, parse or strictly decode
    ReadError    \* the error DirStore.Read returns for a BadFile

UseSet == {"sig", "enc"}
Dirs == 1..NDirs

Rotation == [enabled : BOOLEAN,
             cron : GoodCrons \cup BadCrons \cup {NoCron},
             starting_from : Times \cup {NoTime}]

Config == [UseSet -> Rotation \cup {NoRotation}]

File == Config \cup {NoFile, BadFile}
Tree == [Dirs -> [Wids -> File]]

\* What the server keeps for one use.  A use that was never configured has an empty cron.
Payload == [enabled : BOOLEAN,
            cron : GoodCrons \cup {NoCron},
            starting_from : Times \cup {NoTime}]
NeverConfigured == [enabled |-> FALSE, cron |-> NoCron, starting_from |-> NoTime]

ASSUME WidsAssumption == Wids \subseteq Nat
ASSUME DirsAssumption == NDirs \in Nat /\ NDirs > 0
ASSUME CronsAssumption ==
    /\ NoCron \notin GoodCrons \cup BadCrons
    /\ GoodCrons \cap BadCrons = {}
ASSUME NilAssumption ==
    /\ NoRotation \notin Rotation
    /\ NoTime \notin Times
    /\ {NoConfig, NoFile, BadFile, ReadError} \cap Config = {}
    /\ NoConfig # ReadError
    /\ NoFile # BadFile

-----------------------------------------------------------------------------
EmptyConfig == [u \in UseSet |-> NoRotation]

\* Config.Uses: the configured uses.  Their order (sig first) is in the actions that walk them.
Uses(cfg) == IF cfg = NoConfig THEN {} ELSE {u \in UseSet : cfg[u] # NoRotation}

\* Mutants of Least and FirstUse: the ids of a map are not sorted; enc comes first.
Least_Unsorted(w, S) == w \in S
FirstUse_EncFirst(u, S) == u \in S /\ ("enc" \in S => u = "enc")

\* The next workspace (ids are visited sorted) and the next use (sig first).
Least(w, S) == w \in S /\ \A v \in S : w <= v
FirstUse(u, S) == u \in S /\ ("sig" \in S => u = "sig")

\* Mutant of Validate: the cron is required but not parsed.
Validate_NonEmptyOnly(cfg) == \A u \in Uses(cfg) : cfg[u].cron # NoCron

\* Config.Validate: every configured use has a cron that parses.
Validate(cfg) == \A u \in Uses(cfg) : cfg[u].cron \in GoodCrons

\* Rotation.ToModel: the payload a PUT of the rotation carries.
ToModel(r) == [enabled |-> r.enabled, cron |-> r.cron, starting_from |-> r.starting_from]

\* FromModel: an empty cron means never configured; starting_from is dropped.
FromModel(p) ==
    IF p.cron = NoCron THEN NoRotation
    ELSE [enabled |-> p.enabled, cron |-> p.cron, starting_from |-> NoTime]

\* DirStore.Read: the whole file of the first directory that has one; a file without uses counts as
\* absent, and still hides the files of later directories.
FirstHolder(tree, w, d) == tree[d][w] # NoFile /\ \A e \in 1..(d - 1) : tree[e][w] = NoFile

Read(tree, w) ==
    IF \A d \in Dirs : ~FirstHolder(tree, w, d) THEN NoConfig
    ELSE LET file == tree[CHOOSE d \in Dirs : FirstHolder(tree, w, d)][w]
         IN IF file = BadFile THEN ReadError
            ELSE IF Uses(file) = {} THEN NoConfig
            ELSE file

\* DirStore.Workspaces: the ids with a file, whatever is in it, in any directory.
Workspaces(tree) == {w \in Wids : \E d \in Dirs : tree[d][w] # NoFile}

\* Mutant of Write: the last directory is written.
Write_LastDir(tree, w, cfg) == [tree EXCEPT ![NDirs][w] = cfg]

\* DirStore.Write: replaces the file in the first directory only.
Write(tree, w, cfg) == [tree EXCEPT ![1][w] = cfg]

\* Mutants of ChangedRotation: starting_from or enabled is not looked at, any configured use or none is skipped.
ChangedRotation_IgnoresStart(local, remote) ==
    IF local = NoRotation THEN NoRotation
    ELSE IF remote # NoRotation /\ local.enabled = remote.enabled /\ local.cron = remote.cron
         THEN NoRotation ELSE local
ChangedRotation_IgnoresEnabled(local, remote) ==
    IF local = NoRotation THEN NoRotation
    ELSE IF /\ local.starting_from = NoTime
            /\ remote # NoRotation /\ local.cron = remote.cron
         THEN NoRotation ELSE local
ChangedRotation_IfMissing(local, remote) == IF remote # NoRotation THEN NoRotation ELSE local
ChangedRotation_NoSkip(local, remote) == local

\* changedRotation: the use a push sends, NoRotation for one it skips.
ChangedRotation(local, remote) ==
    IF \/ local = NoRotation
       \/ /\ local.starting_from = NoTime
          /\ remote # NoRotation
          /\ local.enabled = remote.enabled
          /\ local.cron = remote.cron
    THEN NoRotation
    ELSE local

\* The uses a push of local sends, having read remote.
OrEmpty(cfg) == IF cfg = NoConfig THEN EmptyConfig ELSE cfg
Changed(local, remote) ==
    [u \in UseSet |-> ChangedRotation(local[u], OrEmpty(remote)[u])]

\* diffConfigs: starting_from is cleared on both sides and a use absent at the source is ignored.
ClearStart(r) == IF r = NoRotation THEN NoRotation ELSE [r EXCEPT !.starting_from = NoTime]
DiffSource(local) == [u \in UseSet |-> ClearStart(OrEmpty(local)[u])]
\* Mutant of DiffTarget: a use absent at the source is compared.
DiffTarget_Whole(local, remote) == [u \in UseSet |-> ClearStart(OrEmpty(remote)[u])]
DiffTarget(local, remote) ==
    [u \in UseSet |-> IF OrEmpty(local)[u] = NoRotation THEN NoRotation
                                                        ELSE ClearStart(OrEmpty(remote)[u])]

\* The uses TreeDiff shows as different.
TreeDiff(local, remote) ==
    {u \in UseSet : DiffSource(local)[u] # DiffTarget(local, remote)[u]}

\* The value Read of the API store returns for the settings of a workspace.
Settings(payloads) ==
    LET cfg == [u \in UseSet |-> FromModel(payloads[u])]
    IN IF Uses(cfg) = {} THEN NoConfig ELSE cfg
=============================================================================
