----------------------------- MODULE CommandRun -----------------------------
(***************************************************************************)
(* A run of `cac push` or `cac pull` and of their key-rotation subcommands *)
(* (cmd/push.go, cmd/pull.go, cmd/key_rotation_feature.go): which parts of *)
(* the configuration it handles, in which order, and what it leaves behind *)
(* in the files, on the server and in the --out of a dry run when it ends  *)
(* early.  Runs follow one another from one checkout; users edit its files *)
(* while a run is under way.                                               *)
(*                                                                         *)
(* The configuration of a workspace has two parts, its root fields         *)
(* (server.yaml) and its clients, standing for every nested resource.  A   *)
(* key rotation file is a value here; KeyRotationSync looks inside it and  *)
(* at each of its API calls.                                               *)
(***************************************************************************)
EXTENDS Naturals, Sequences

CONSTANTS
    Wids,        \* workspace ids
    Vals,        \* contents of a part of the configuration
    BadVals,     \* contents the local validation rejects
    NoPart,      \* the part is not set, or has no file
    Zeros,       \* root fields that all have the zero value of their type
    Unreadable,  \* a file that does not render or parse
    Absent,      \* the workspace does not exist
    Keys,        \* valid key rotation settings
    NoKey,       \* no key rotation settings, or no key_rotation.yaml
    BadKey,      \* a key_rotation.yaml that is unreadable or invalid
    LocalCfgs,   \* configurations users write
    RemoteCfgs,  \* configurations the server starts with
    RunFlags,    \* the command lines that are run
    MaxRuns,     \* bound on the runs
    MaxEdits     \* bound on the edits of files

Parts == {"root", "clients"}
Filters == {"key_rotation", "root", "clients", "servers"}

Cfg == [Parts -> Vals \cup BadVals \cup {NoPart, Zeros}]
LocalCfg == [Parts -> Vals \cup BadVals \cup {NoPart, Zeros, Unreadable}]
LocalKey == Keys \cup {NoKey, BadKey}

ASSUME WidsAssumption == Wids # {} /\ Wids \subseteq Nat
ASSUME CfgsAssumption == LocalCfgs \subseteq LocalCfg /\ RemoteCfgs \subseteq Cfg \cup {Absent}
ASSUME NilAssumption ==
    /\ {NoPart, Zeros, Unreadable} \cap (Vals \cup BadVals) = {} /\ Vals \cap BadVals = {}
    /\ NoPart # Zeros /\ NoPart # Unreadable /\ Zeros # Unreadable
    /\ {NoKey, BadKey} \cap Keys = {} /\ NoKey # BadKey
    /\ Absent \notin Cfg
ASSUME BoundsAssumption == MaxRuns \in Nat /\ MaxEdits \in Nat

\* The flags of a run: sub is the key-rotation subcommand, enabled is features.key_rotation.
Flags == [cmd : {"push", "pull"}, sub : BOOLEAN, tenant : BOOLEAN, wid : Wids,
          enabled : BOOLEAN, filters : SUBSET Filters, dry : BOOLEAN,
          out : {"stdout", "file", "dir"}, method : {"patch", "import"}, validate : BOOLEAN]
ASSUME FlagsAssumption == RunFlags # {} /\ RunFlags \subseteq Flags

VARIABLES
    files,   \* the checkout
    server,  \* configuration and key rotation of each workspace on the server
    out,     \* the --out destinations: stdout of the run, a file and a directory
    run,     \* flags of the current or last run
    pc,      \* where it is
    data,    \* the configuration it read
    items,   \* push: the key rotation settings it read
    queue,   \* the workspaces whose key rotation it still has to handle
    base,    \* history: files, server and out when it started
    edited,  \* history: a file was edited since then
    runs,    \* number of runs so far
    edits    \* number of edits so far

store == <<files, server, out>>
state == <<run, pc, data, items, queue>>
ghosts == <<base, edited>>
vars == <<store, state, ghosts, runs, edits>>

Files == [cfg : [Wids -> LocalCfg], kr : [Wids -> LocalKey]]
Server == [cfg : [Wids -> Cfg \cup {Absent}], kr : [Wids -> Keys \cup {NoKey}]]
\* What one write puts into stdout or a file: the part it is about, of which workspaces, by which run.
Chunk == [run : 0..MaxRuns, about : {"configuration", "key_rotation"}, wids : SUBSET Wids]
Out == [stdout : Seq(Chunk), file : Seq(Chunk), dir : Files]
Data == [Wids -> Cfg \cup {Absent}]

Running == {"keys", "reset", "read", "write", "list", "rotate"}
Ended == {"idle", "done", "failed"}

TypeOK ==
    /\ files \in Files /\ server \in Server /\ out \in Out
    /\ run \in Flags /\ pc \in Running \cup Ended
    /\ data \in Data
    /\ items \in [Wids -> Keys \cup {NoKey}]
    /\ queue \subseteq Wids
    /\ base \in [files : Files, server : Server, out : Out]
    /\ edited \in BOOLEAN /\ runs \in 0..MaxRuns /\ edits \in 0..MaxEdits

-----------------------------------------------------------------------------
\* scopeOf, and the scope of the subcommand.
Named(f) == "key_rotation" \in f.filters
\* Mutant of Regular: --filter key_rotation alone handles the configuration too.
Regular_AnyFilter(f) == ~f.sub
Regular(f) == ~f.sub /\ f.filters # {"key_rotation"}
KeyRotation(f) == f.sub \/ (f.enabled /\ (f.filters = {} \/ Named(f)))
ScopeError(f) == ~f.sub /\ Named(f) /\ ~f.enabled

\* Flags a command line can have: the subcommands take no --tenant, --filter, --method and --no-validate.
CommandLine(f) ==
    /\ f.sub => ~f.tenant /\ f.filters = {}
    /\ f.dry => f.cmd = "push"

\* FilterPatch: --filter names parts of a workspace, and "servers" all workspaces of a tenant.
Filter(f, cfg) ==
    [p \in Parts |-> IF f.filters = {} \/ p \in f.filters THEN cfg[p] ELSE NoPart]
Listed(f) == f.filters = {} \/ "servers" \in f.filters

\* What Read returns of the workspaces in all: with --tenant those listed, else the selected one.
Choose(f, all) ==
    [w \in Wids |-> IF f.tenant THEN IF Listed(f) THEN all[w] ELSE Absent
                    ELSE IF w = f.wid /\ all[w] # Absent THEN Filter(f, all[w]) ELSE Absent]

\* ServerStorage.Read, TenantStorage.Read: a tenant skips a directory without server.yaml.
ReadFiles(f, cfgs) ==
    Choose(f, [w \in Wids |-> IF f.tenant /\ cfgs[w]["root"] = NoPart THEN Absent ELSE cfgs[w]])

Readable(f, cfgs) ==
    \A w \in Wids, p \in Parts : f.tenant \/ w = f.wid => cfgs[w][p] # Unreadable
Valid(d) == \A w \in Wids : d[w] # Absent => \A p \in Parts : d[w][p] \notin BadVals

\* ServerStorage.Write: server.yaml is always written, with zero values for the root fields that are
\* not set; clients are only added or replaced.
StoreCfg(old, cfg) ==
    [p \in Parts |-> IF cfg[p] # NoPart THEN cfg[p] ELSE IF p = "root" THEN Zeros ELSE old[p]]
Store(cfgs, d) ==
    [w \in Wids |-> IF d[w] = Absent THEN cfgs[w] ELSE StoreCfg(cfgs[w], d[w])]

\* The server: a patch merges, an import replaces, with defaults for what is left out.
Apply(f, old, new) ==
    IF f.method = "import" \/ old = Absent THEN new
    ELSE [p \in Parts |-> IF new[p] = NoPart THEN old[p] ELSE new[p]]
Upload(f, cfgs, d) ==
    [w \in Wids |-> IF d[w] = Absent THEN cfgs[w] ELSE Apply(f, cfgs[w], d[w])]

-----------------------------------------------------------------------------
Goto(place) == pc' = place
Fails == Goto("failed") /\ UNCHANGED <<store, run, data, items, queue, ghosts, runs, edits>>

\* Where a push goes on once key rotation is read, and any run once the configuration is handled.
\* Mutant of AfterKeys: key rotation is pushed before the configuration.
AfterKeys_RotateFirst == IF run.dry THEN "reset" ELSE "rotate"
AfterKeys == IF run.dry THEN "reset" ELSE IF Regular(run) THEN "read" ELSE "rotate"
AfterReset == IF Regular(run) THEN "read" ELSE "rotate"

\* Mutants of First: a push handles the configuration, or empties the --out, before it reads key rotation.
First_ConfigurationFirst(f) ==
    IF f.cmd = "pull" THEN IF Regular(f) THEN "read" ELSE "list"
    ELSE IF Regular(f) THEN "read" ELSE "keys"
First_ResetFirst(f) ==
    IF f.cmd = "pull" THEN IF Regular(f) THEN "read" ELSE "list"
    ELSE IF f.dry THEN "reset" ELSE IF KeyRotation(f) THEN "keys" ELSE "read"

\* runPush, runPull: where a run of f starts.
First(f) ==
    IF f.cmd = "pull" THEN IF Regular(f) THEN "read" ELSE "list"
    ELSE IF KeyRotation(f) THEN "keys" ELSE IF f.dry THEN "reset" ELSE "read"

Start(f) ==
    /\ pc \in Ended /\ runs < MaxRuns /\ CommandLine(f)
    /\ run' = f /\ runs' = runs + 1
    /\ pc' = IF ScopeError(f) THEN "failed" ELSE First(f)
    /\ data' = [w \in Wids |-> Absent]
    /\ items' = [w \in Wids |-> NoKey]
    /\ queue' = {}
    /\ out' = [out EXCEPT !.stdout = <<>>]
    /\ base' = [files |-> files, server |-> server, out |-> out']
    /\ edited' = FALSE
    /\ UNCHANGED <<files, server, edits>>

\* readKeyRotations: the settings of the workspace, or of every workspace directory with a file.
KeyTargets(f, keys) == IF f.tenant THEN {w \in Wids : keys[w] # NoKey} ELSE {f.wid}
\* Mutant of KeysValid: with --tenant nothing is validated.
KeysValid_Workspace(f, keys) == f.tenant \/ keys[f.wid] # BadKey
KeysValid(f, keys) == \A w \in KeyTargets(f, keys) : keys[w] # BadKey
ReadKeys ==
    /\ pc = "keys" /\ KeysValid(run, files.kr)
    /\ LET read == [w \in Wids |-> IF w \in KeyTargets(run, files.kr) THEN files.kr[w] ELSE NoKey]
       IN items' = read /\ queue' = {w \in Wids : read[w] # NoKey}
    /\ Goto(AfterKeys)
    /\ UNCHANGED <<store, run, data, ghosts, runs, edits>>
InvalidKeys == pc = "keys" /\ ~KeysValid(run, files.kr) /\ Fails

\* Mutant of Emptied: only a run with a regular part empties the file.
Emptied_Regular(f, old) == IF f.out = "file" /\ Regular(f) THEN <<>> ELSE old
Emptied(f, old) == IF f.out = "file" THEN <<>> ELSE old
\* resetDryRunOut
ResetDryRunOut ==
    /\ pc = "reset"
    /\ out' = [out EXCEPT !.file = Emptied(run, @)]
    /\ Goto(AfterReset)
    /\ UNCHANGED <<files, server, run, data, items, queue, ghosts, runs, edits>>

\* The configuration is read from the files (and validated), or from the server.
Accepted(d) == run.validate => Valid(d)
ReadLocal ==
    /\ pc = "read" /\ run.cmd = "push" /\ Readable(run, files.cfg)
    /\ LET read == ReadFiles(run, files.cfg) IN Accepted(read) /\ data' = read
    /\ Goto("write")
    /\ UNCHANGED <<store, run, items, queue, ghosts, runs, edits>>
RejectLocal ==
    /\ pc = "read" /\ run.cmd = "push"
    /\ ~(Readable(run, files.cfg) /\ Accepted(ReadFiles(run, files.cfg)))
    /\ Fails
Missing(w) == server.cfg[w] = Absent
ReadRemote ==
    /\ pc = "read" /\ run.cmd = "pull"
    /\ run.tenant \/ ~Missing(run.wid)
    /\ data' = Choose(run, server.cfg)
    /\ Goto("write")
    /\ UNCHANGED <<store, run, items, queue, ghosts, runs, edits>>

\* The configuration is stored, sent, or written to --out.
Chunks(about, S) == IF S = {} THEN <<>> ELSE <<[run |-> runs, about |-> about, wids |-> S]>>
Held == {w \in Wids : data[w] # Absent}
AfterConfiguration ==
    IF run.cmd = "pull" THEN IF KeyRotation(run) THEN "list" ELSE "done"
    ELSE IF KeyRotation(run) THEN "rotate" ELSE "done"
WriteNext ==
    /\ pc = "write" /\ Goto(AfterConfiguration)
    /\ UNCHANGED <<run, data, items, queue, ghosts, runs, edits>>

StoreConfiguration ==
    /\ run.cmd = "pull"
    /\ files' = [files EXCEPT !.cfg = Store(@, data)]
    /\ WriteNext /\ UNCHANGED <<server, out>>
PushConfiguration ==
    /\ run.cmd = "push" /\ ~run.dry
    /\ run.tenant \/ ~Missing(run.wid)
    /\ server' = [server EXCEPT !.cfg = Upload(run, @, data)]
    /\ WriteNext /\ UNCHANGED <<files, out>>
\* flatFileWriter replaces the file; a directory is written as a pull writes the files.
WriteDryConfiguration ==
    /\ run.cmd = "push" /\ run.dry
    /\ LET chunks == <<[run |-> runs, about |-> "configuration", wids |-> Held]>>
       IN out' = CASE run.out = "stdout" -> [out EXCEPT !.stdout = @ \o chunks]
                   [] run.out = "file" -> [out EXCEPT !.file = chunks]
                   [] OTHER -> [out EXCEPT !.dir.cfg = Store(@, data)]
    /\ WriteNext /\ UNCHANGED <<files, server>>

\* Mutant of TenantWorkspaces: only what the regular pull read is looked at.
TenantWorkspaces_DataOnly == Held
\* TenantWorkspaces: those of the configuration just pulled, unless the filters left them out.
TenantWorkspaces == IF Listed(run) THEN Held ELSE {w \in Wids : ~Missing(w)}
ListWorkspaces ==
    /\ pc = "list"
    /\ queue' = IF run.tenant THEN TenantWorkspaces ELSE {run.wid}
    /\ Goto("rotate")
    /\ UNCHANGED <<store, run, data, items, ghosts, runs, edits>>

Least(w, S) == w \in S /\ \A v \in S : w <= v
RotateNext(w) ==
    /\ queue' = queue \ {w}
    /\ UNCHANGED <<run, pc, data, items, ghosts, runs, edits>>

\* keyrotation.Pull and Push, a workspace at a time.
PullKey(w) ==
    /\ pc = "rotate" /\ Least(w, queue) /\ run.cmd = "pull" /\ ~Missing(w)
    /\ files' = [files EXCEPT !.kr[w] = IF server.kr[w] = NoKey THEN @ ELSE server.kr[w]]
    /\ RotateNext(w) /\ UNCHANGED <<server, out>>
PushKey(w) ==
    /\ pc = "rotate" /\ Least(w, queue) /\ run.cmd = "push" /\ ~run.dry /\ ~Missing(w)
    /\ server' = [server EXCEPT !.kr[w] = items[w]]
    /\ RotateNext(w) /\ UNCHANGED <<files, out>>
\* WriteDryRun: one file per workspace in a directory, else everything in one write after the rest.
WriteDryKey(w) ==
    /\ pc = "rotate" /\ Least(w, queue) /\ run.dry /\ run.out = "dir"
    /\ out' = [out EXCEPT !.dir.kr[w] = items[w]]
    /\ RotateNext(w) /\ UNCHANGED <<files, server>>
WriteDryKeys ==
    /\ pc = "rotate" /\ queue # {} /\ run.dry /\ run.out # "dir"
    /\ out' = IF run.out = "stdout"
              THEN [out EXCEPT !.stdout = @ \o Chunks("key_rotation", queue)]
              ELSE [out EXCEPT !.file = @ \o Chunks("key_rotation", queue)]
    /\ queue' = {}
    /\ UNCHANGED <<files, server, run, pc, data, items, ghosts, runs, edits>>
RotationDone ==
    /\ pc = "rotate" /\ queue = {}
    /\ Goto("done")
    /\ UNCHANGED <<store, run, data, items, queue, ghosts, runs, edits>>

\* A workspace the server does not have is answered with a 404.
ConfigurationNotFound ==
    /\ \/ pc = "read" /\ run.cmd = "pull"
       \/ pc = "write" /\ run.cmd = "push" /\ ~run.dry
    /\ ~run.tenant /\ Missing(run.wid)
    /\ Fails
KeyNotFound(w) == pc = "rotate" /\ Least(w, queue) /\ ~run.dry /\ Missing(w) /\ Fails

-----------------------------------------------------------------------------
\* Faults: a call or a write fails, the process dies, or the answer of an applied request is lost.
Fail == pc \in Running /\ Fails

\* A store that stops early, in a workspace that it had begun: server.yaml is written before the
\* clients, and the part it stops at may hold anything, whether it parses or not.
TornPart(p) == Vals \cup BadVals \cup {Unreadable} \cup (IF p = "root" THEN {Zeros} ELSE {})
Begun(old, cfg) ==
    {[old EXCEPT !["root"] = part] : part \in TornPart("root")}
    \cup {[StoreCfg(old, cfg) EXCEPT !["clients"] = part] :
              part \in {old["clients"]} \cup (IF cfg["clients"] = NoPart THEN {} ELSE TornPart("clients"))}
Torn(cfgs, w) ==
    {[v \in Wids |-> IF v = w THEN begun ELSE IF v \in done THEN Store(cfgs, data)[v] ELSE cfgs[v]] :
         done \in SUBSET Wids, begun \in Begun(cfgs[w], data[w])}
StoreTorn ==
    /\ pc = "write" /\ run.cmd = "pull"
    /\ \E w \in Held : \E cfgs \in Torn(files.cfg, w) : files' = [files EXCEPT !.cfg = cfgs]
    /\ Goto("failed")
    /\ UNCHANGED <<server, out, run, data, items, queue, ghosts, runs, edits>>
WriteDryTorn ==
    /\ pc = "write" /\ run.cmd = "push" /\ run.dry /\ run.out = "dir"
    /\ \E w \in Held : \E cfgs \in Torn(out.dir.cfg, w) : out' = [out EXCEPT !.dir.cfg = cfgs]
    /\ Goto("failed")
    /\ UNCHANGED <<files, server, run, data, items, queue, ghosts, runs, edits>>
PushAnswerLost ==
    /\ pc = "write" /\ run.cmd = "push" /\ ~run.dry
    /\ run.tenant \/ ~Missing(run.wid)
    /\ server' = [server EXCEPT !.cfg = Upload(run, @, data)]
    /\ Goto("failed")
    /\ UNCHANGED <<files, out, run, data, items, queue, ghosts, runs, edits>>

\* A user edits a file of the checkout.
Edit ==
    /\ edits < MaxEdits /\ edits' = edits + 1 /\ edited' = TRUE
    /\ \E w \in Wids :
           \/ \E cfg \in LocalCfgs : files' = [files EXCEPT !.cfg[w] = cfg]
           \/ \E key \in LocalKey : files' = [files EXCEPT !.kr[w] = key]
    /\ UNCHANGED <<server, out, state, base, runs>>

-----------------------------------------------------------------------------
Init ==
    /\ files \in [cfg : [Wids -> LocalCfgs], kr : [Wids -> LocalKey]]
    /\ server \in [cfg : [Wids -> RemoteCfgs], kr : [Wids -> Keys \cup {NoKey}]]
    /\ \A w \in Wids : Missing(w) => server.kr[w] = NoKey
    /\ out = [stdout |-> <<>>, file |-> <<>>,
              dir |-> [cfg |-> [w \in Wids |-> [p \in Parts |-> NoPart]], kr |-> [w \in Wids |-> NoKey]]]
    /\ run = (CHOOSE f \in RunFlags : TRUE)
    /\ pc = "idle"
    /\ data = [w \in Wids |-> Absent] /\ items = [w \in Wids |-> NoKey] /\ queue = {}
    /\ base = [files |-> files, server |-> server, out |-> out]
    /\ edited = FALSE /\ runs = 0 /\ edits = 0

Step ==
    \/ ReadKeys \/ InvalidKeys \/ ResetDryRunOut
    \/ ReadLocal \/ RejectLocal \/ ReadRemote
    \/ StoreConfiguration \/ PushConfiguration \/ WriteDryConfiguration \/ ConfigurationNotFound
    \/ ListWorkspaces \/ WriteDryKeys \/ RotationDone
    \/ \E w \in Wids : PullKey(w) \/ PushKey(w) \/ WriteDryKey(w) \/ KeyNotFound(w)

Fault == Fail \/ StoreTorn \/ WriteDryTorn \/ PushAnswerLost

Next == (\E f \in RunFlags : Start(f)) \/ Step \/ Fault \/ Edit

Spec == Init /\ [][Next]_vars

\* No faults: what the documentation describes.
QuietSpec == Init /\ [][(\E f \in RunFlags : Start(f)) \/ Step]_vars

-----------------------------------------------------------------------------
(***************************************************************************)
(* Properties.                                                             *)
(***************************************************************************)
\* The run of f handles w.
Handles(f, w) == f.tenant \/ w = f.wid

\* The configuration of w, and its part p, as --wid, --tenant and --filter select them.
ConfigurationInScope(f, w) ==
    /\ ~f.sub
    /\ IF f.tenant THEN f.filters = {} \/ "servers" \in f.filters
                   ELSE w = f.wid /\ f.filters # {"key_rotation"}
PartInScope(f, w, p) == ConfigurationInScope(f, w) /\ (f.tenant \/ f.filters = {} \/ p \in f.filters)
\* What a pull, or a dry run to a directory, may rewrite: server.yaml whatever the filters
\* (server_storage.go:62; PullRestrictedToFilter says what the flag promises).
Rewritable(f, w, p) == PartInScope(f, w, p) \/ (p = "root" /\ ConfigurationInScope(f, w))
InScope(f) ==
    f.sub \/ (f.enabled /\ (f.filters = {} \/ "key_rotation" \in f.filters))

\* A run changes only what its flags select, however it ends: a dry run nothing but its --out, a push
\* no file and a pull nothing on the server; key rotation only when scopeOf (key_rotation_feature.go:37)
\* puts it in scope; and of the configuration, in the files, in the directory of a dry run and on the
\* server, only the selected workspaces and of these only the filtered parts, except that files get a
\* server.yaml whatever the filters and an import replaces a workspace as a whole.  With --filter
\* key_rotation alone it changes no configuration at all.
ChangesOnlyScope ==
    pc # "idle" =>
        /\ server # base.server => run.cmd = "push" /\ ~run.dry
        /\ files # base.files => run.cmd = "pull" \/ edited
        /\ \A d \in {"file", "dir"} : out[d] # base.out[d] => run.dry /\ run.out = d
        /\ \A w \in Wids :
               /\ server.kr[w] # base.server.kr[w] => InScope(run) /\ Handles(run, w)
               /\ files.kr[w] # base.files.kr[w] => edited \/ (InScope(run) /\ Handles(run, w))
               /\ out.dir.kr[w] # base.out.dir.kr[w] => InScope(run) /\ Handles(run, w)
               /\ server.cfg[w] # base.server.cfg[w] =>
                      /\ ConfigurationInScope(run, w)
                      /\ run.method = "patch" /\ ~run.tenant =>
                             \A p \in Parts : PartInScope(run, w, p) \/ server.cfg[w][p] = base.server.cfg[w][p]
               /\ \A p \in Parts :
                      /\ files.cfg[w][p] # base.files.cfg[w][p] => edited \/ Rewritable(run, w, p)
                      /\ out.dir.cfg[w][p] # base.out.dir.cfg[w][p] => Rewritable(run, w, p)

\* runPush (push.go:77): "an invalid file fails before anything is pushed": with an invalid key
\* rotation file in scope a push leaves the server, and the --out of a dry run, as they were.
InvalidKeysBlockRun ==
    pc # "idle" /\ run.cmd = "push" /\ KeyRotation(run) /\ ~edited
        /\ ~KeysValid(run, base.files.kr) =>
            /\ server = base.server
            /\ out = base.out

\* resetDryRunOut (push.go:103) and README: "an --out file is emptied first, so it holds only this
\* run's output": whatever happens, the file is the one the run found or holds only chunks of this
\* run; when the run succeeds stdout or the file holds the configuration it read, if in scope, followed
\* by the key rotation it read.  A directory is not emptied: it then holds what the run read, and
\* what earlier runs left there of the workspaces and parts this run had nothing for.
RunOutput ==
    (IF Regular(run) THEN <<[run |-> runs, about |-> "configuration", wids |-> Held]>> ELSE <<>>)
        \o Chunks("key_rotation", {w \in Wids : items[w] # NoKey})
DirConfiguration ==
    /\ \A w \in Wids \ Held : out.dir.cfg[w] = base.out.dir.cfg[w]
    /\ \A w \in Held, p \in Parts :
           IF data[w][p] # NoPart THEN out.dir.cfg[w][p] = data[w][p]
           ELSE p = "root" \/ out.dir.cfg[w][p] = base.out.dir.cfg[w][p]
OutIsThisRuns ==
    pc # "idle" /\ run.dry =>
        /\ out.file # base.out.file => \A i \in DOMAIN out.file : out.file[i].run = runs
        /\ pc = "done" =>
               CASE run.out = "stdout" -> out.stdout = RunOutput
                 [] run.out = "file" -> out.file = RunOutput
                 [] OTHER -> /\ \A w \in Wids :
                                    out.dir.kr[w] = IF items[w] = NoKey THEN base.out.dir.kr[w] ELSE items[w]
                             /\ DirConfiguration

\* runPush pushes key rotation after the configuration (push.go:93, README): key rotation on the
\* server changes only once the configuration is applied, so the only workspaces a tenant push then
\* fails to find are those of stale directories without server.yaml.
RotationAfterConfiguration ==
    run.cmd = "push" /\ ~run.dry /\ Regular(run) /\ ~edited /\ pc # "idle" =>
        /\ server.kr # base.server.kr =>
               server.cfg = Upload(run, base.server.cfg, ReadFiles(run, base.files.cfg))
        /\ pc = "rotate" /\ run.tenant /\ Listed(run) =>
               \A w \in queue : Missing(w) => base.files.cfg[w]["root"] = NoPart

\* pullKeyRotations (key_rotation_feature.go:62): a pull that succeeds leaves, for every workspace in
\* its scope that the server has, the server's key rotation in the file, or the old file when the
\* server has none, whichever filters kept the workspaces out of the regular pull.
PulledRotation ==
    pc = "done" /\ run.cmd = "pull" /\ InScope(run) /\ ~edited =>
        \A w \in Wids : Handles(run, w) /\ ~Missing(w) =>
            files.kr[w] = IF server.kr[w] = NoKey THEN base.files.kr[w] ELSE server.kr[w]

\* pull --filter (pull.go:95): "Restrict the pull to selected top-level resources": the settings in the
\* files of the parts that are not selected stay there.
PullRestrictedToFilter ==
    pc = "done" /\ run.cmd = "pull" /\ ~run.tenant /\ run.filters # {} =>
        \A w \in Wids, p \in Parts \ run.filters :
            base.files.cfg[w][p] \in Vals => files.cfg[w][p] = base.files.cfg[w][p]
=============================================================================
