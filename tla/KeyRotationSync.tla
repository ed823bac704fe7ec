-------------------------- MODULE KeyRotationSync --------------------------
(***************************************************************************)
(* The pull and push of key rotation (internal/cac/keyrotation/sync.go over *)
(* internal/cac/client/key_rotation_api.go and dir_store.go), run from      *)
(* several checkouts of the configuration against one server.  Each API     *)
(* call is a step of its own: a read of a workspace is two GETs, a write is *)
(* one PUT per use, any of them may fail, the process may die between two   *)
(* of them, and other administrators change the server and users edit       *)
(* their files in between.                                                  *)
(*                                                                          *)
(* base, touched and edited are history variables: they record what the     *)
(* properties refer to and no action's guard reads them.                    *)
(***************************************************************************)
EXTENDS KeyRotation

CONSTANTS
    Checkouts,       \* working copies; at most one command runs in each
    OutsidePayloads, \* settings other administrators may set
    EditFiles,       \* contents users may give a file
    MaxOutside,      \* bound on changes by other administrators
    MaxEdits         \* bound on edits of files

ASSUME BoundsAssumption ==
    /\ OutsidePayloads \subseteq Payload /\ EditFiles \subseteq File
    /\ MaxOutside \in Nat /\ MaxEdits \in Nat

VARIABLES
    server,   \* [Wids -> [UseSet -> Payload]]: settings on the server
    present,  \* the workspaces the server has
    tree,     \* the files of each checkout
    cmd,      \* the last command started in each checkout
    pc,       \* where its process is
    scope,    \* the workspaces the command was started for
    items,    \* push: the settings ReadAll returned, by workspace
    queue,    \* the workspaces of scope not handled yet
    left,     \* the uses still to GET (pc "get") or to PUT (pc "put")
    got,      \* the settings read so far of the current workspace
    base,     \* history: the checkout's files when the command started
    touched,  \* history: the uses others changed on the server since then
    edited,   \* history: the user edited a file since then
    outside,  \* number of changes by other administrators so far
    edits     \* number of edits so far

serverVars == <<server, present>>
runVars == <<cmd, pc, scope, items, queue, left, got>>
ghostVars == <<base, touched, edited>>
countVars == <<outside, edits>>
vars == <<serverVars, tree, runVars, ghostVars, countVars>>

Running == {"get", "put", "write"}
Ended == {"idle", "done", "failed"}
EachUse == Wids \X UseSet

TypeOK ==
    /\ server \in [Wids -> [UseSet -> Payload]]
    /\ present \subseteq Wids
    /\ tree \in [Checkouts -> Tree]
    /\ cmd \in [Checkouts -> {"none", "push", "pull"}]
    /\ pc \in [Checkouts -> Running \cup Ended]
    /\ scope \in [Checkouts -> SUBSET Wids]
    /\ items \in [Checkouts -> [Wids -> Config \cup {NoConfig}]]
    /\ queue \in [Checkouts -> SUBSET Wids]
    /\ left \in [Checkouts -> SUBSET UseSet]
    /\ got \in [Checkouts -> Config]
    /\ base \in [Checkouts -> Tree]
    /\ touched \in [Checkouts -> SUBSET EachUse]
    /\ edited \in [Checkouts -> BOOLEAN]
    /\ outside \in 0..MaxOutside
    /\ edits \in 0..MaxEdits

\* Another actor changed those uses: every command but the ones in Own records it.
Touch(pairs, own) ==
    touched' = [c \in Checkouts |-> IF c \in own THEN touched[c] ELSE touched[c] \cup pairs]

-----------------------------------------------------------------------------
\* A command starts in c for the workspaces in S.
Begin(c, command, S) ==
    /\ pc[c] \in Ended
    /\ cmd' = [cmd EXCEPT ![c] = command]
    /\ scope' = [scope EXCEPT ![c] = S]
    /\ left' = [left EXCEPT ![c] = UseSet]
    /\ got' = [got EXCEPT ![c] = EmptyConfig]
    /\ base' = [base EXCEPT ![c] = tree[c]]
    /\ touched' = [touched EXCEPT ![c] = {}]
    /\ edited' = [edited EXCEPT ![c] = FALSE]
    /\ UNCHANGED <<serverVars, tree, countVars>>

\* The workspace selected with --workspace, or with --tenant those in all.
Scopes(all) == {{w} : w \in Wids} \cup {all}

\* ReadAll: every file of S is readable and valid.
AllValid(files, S) ==
    \A w \in S : LET cfg == Read(files, w) IN cfg # ReadError /\ Validate(cfg)
ReadAll(files, S) ==
    [w \in Wids |-> IF w \in S THEN Read(files, w) ELSE NoConfig]

\* readKeyRotations, and the start of Push: files are read and validated before anything is sent.
StartPush(c, S) ==
    /\ S \in Scopes(Workspaces(tree[c]))
    /\ AllValid(tree[c], S)
    /\ LET read == ReadAll(tree[c], S)
           todo == {w \in S : read[w] # NoConfig}
       IN /\ items' = [items EXCEPT ![c] = read]
          /\ queue' = [queue EXCEPT ![c] = todo]
          /\ pc' = [pc EXCEPT ![c] = IF todo = {} THEN "done" ELSE "get"]
    /\ Begin(c, "push", S)

\* A file of S cannot be read or is invalid: the run ends there.
RefusePush(c, S) ==
    /\ S \in Scopes(Workspaces(tree[c]))
    /\ ~AllValid(tree[c], S)
    /\ items' = [items EXCEPT ![c] = [w \in Wids |-> NoConfig]]
    /\ queue' = [queue EXCEPT ![c] = S]
    /\ pc' = [pc EXCEPT ![c] = "failed"]
    /\ Begin(c, "push", S)

\* pullKeyRotations: with --tenant the workspaces are those the server lists.
StartPull(c, S) ==
    /\ S \in Scopes(present)
    /\ items' = [items EXCEPT ![c] = [w \in Wids |-> NoConfig]]
    /\ queue' = [queue EXCEPT ![c] = S]
    /\ pc' = [pc EXCEPT ![c] = IF S = {} THEN "done" ELSE "get"]
    /\ Begin(c, "pull", S)

\* The loop of Push and Pull goes on to the next workspace, or ends.
Advance(c, w) ==
    /\ queue' = [queue EXCEPT ![c] = @ \ {w}]
    /\ pc' = [pc EXCEPT ![c] = IF queue[c] = {w} THEN "done" ELSE "get"]
    /\ left' = [left EXCEPT ![c] = UseSet]
    /\ got' = [got EXCEPT ![c] = EmptyConfig]

\* Mutant of AfterRead: a pull writes the file of a workspace without settings.
AfterRead_WritesEmpty(c, w, cfg) ==
    LET plan == Uses(Changed(items[c][w], cfg))
    IN IF cmd[c] = "push" /\ plan = {} THEN Advance(c, w)
       ELSE /\ pc' = [pc EXCEPT ![c] = IF cmd[c] = "push" THEN "put" ELSE "write"]
            /\ left' = [left EXCEPT ![c] = IF cmd[c] = "push" THEN plan ELSE {}]
            /\ got' = [got EXCEPT ![c] = cfg]
            /\ UNCHANGED queue

\* What the command does once both GETs of w returned cfg.
AfterRead(c, w, cfg) ==
    LET plan == Uses(Changed(items[c][w], cfg))
    IN IF cmd[c] = "push"
       THEN IF plan = {} THEN Advance(c, w)
            ELSE /\ pc' = [pc EXCEPT ![c] = "put"]
                 /\ left' = [left EXCEPT ![c] = plan]
                 /\ got' = [got EXCEPT ![c] = cfg]
                 /\ UNCHANGED queue
       ELSE IF Uses(cfg) = {} THEN Advance(c, w)
            ELSE /\ pc' = [pc EXCEPT ![c] = "write"]
                 /\ left' = [left EXCEPT ![c] = {}]
                 /\ got' = [got EXCEPT ![c] = cfg]
                 /\ UNCHANGED queue

\* Mutant of ReadUse: the use of the first iteration is asked for every use.
ReadUse_CapturedUse(c, w, u) == [got[c] EXCEPT ![u] = FromModel(server[w]["sig"])]

\* KeyRotationAPIStore.Read: one GET per use.
ReadUse(c, w, u) == [got[c] EXCEPT ![u] = FromModel(server[w][u])]
Get(c, w, u) ==
    /\ pc[c] = "get" /\ Least(w, queue[c]) /\ FirstUse(u, left[c])
    /\ w \in present
    /\ IF left[c] = {u} THEN AfterRead(c, w, ReadUse(c, w, u))
       ELSE /\ got' = [got EXCEPT ![c] = ReadUse(c, w, u)]
            /\ left' = [left EXCEPT ![c] = @ \ {u}]
            /\ UNCHANGED <<pc, queue>>
    /\ UNCHANGED <<serverVars, tree, cmd, scope, items, ghostVars, countVars>>

\* Mutant of SetUse: the use of the first iteration is sent for every use.
SetUse_CapturedUse(w, u, p) == server' = [server EXCEPT ![w]["sig"] = p]

SetUse(w, u, p) == server' = [server EXCEPT ![w][u] = p]

\* KeyRotationAPIStore.Write: one PUT per changed use.
Sent(c, w, u) == ToModel(Changed(items[c][w], got[c])[u])
Put(c, w, u) ==
    /\ pc[c] = "put" /\ Least(w, queue[c]) /\ FirstUse(u, left[c])
    /\ w \in present
    /\ SetUse(w, u, Sent(c, w, u))
    /\ Touch({<<w, u>>}, {c})
    /\ IF left[c] = {u} THEN Advance(c, w)
       ELSE /\ left' = [left EXCEPT ![c] = @ \ {u}]
            /\ UNCHANGED <<pc, queue, got>>
    /\ UNCHANGED <<present, tree, cmd, scope, items, base, edited, countVars>>

\* Pull writes the file of w.
WriteFile(c, w) ==
    /\ pc[c] = "write" /\ Least(w, queue[c])
    /\ tree' = [tree EXCEPT ![c] = Write(@, w, got[c])]
    /\ Advance(c, w)
    /\ UNCHANGED <<serverVars, cmd, scope, items, ghostVars, countVars>>

\* A GET or a PUT for a workspace the server does not have is answered with a 404.
Stop(c) == pc' = [pc EXCEPT ![c] = "failed"]
Interrupted ==
    UNCHANGED <<serverVars, tree, cmd, scope, items, queue, left, got, ghostVars, countVars>>

NotFound(c, w) ==
    /\ pc[c] \in {"get", "put"} /\ Least(w, queue[c])
    /\ w \notin present
    /\ Stop(c) /\ Interrupted

-----------------------------------------------------------------------------
\* Faults.  A call fails without effect, or the process is killed between two calls.
Fail(c) ==
    /\ pc[c] \in Running
    /\ Stop(c) /\ Interrupted

\* A PUT is applied and its answer lost.
PutAnswerLost(c, w, u) ==
    /\ pc[c] = "put" /\ Least(w, queue[c]) /\ FirstUse(u, left[c])
    /\ w \in present
    /\ SetUse(w, u, Sent(c, w, u))
    /\ Touch({<<w, u>>}, {c})
    /\ Stop(c)
    /\ UNCHANGED <<present, tree, cmd, scope, items, queue, left, got, base, edited, countVars>>

\* os.WriteFile truncates the file before it writes, so an interrupted write leaves a prefix of what Write
\* marshals: sig before enc, enabled before cron.  It may not parse; it may end in a use that is not
\* there yet, has no value for enabled or no cron, or a part of its cron, which may be a cron of its own.
TornUse(r) ==
    {NoRotation} \cup
        IF r = NoRotation THEN {}
        ELSE [enabled : {r.enabled}, cron : {NoCron} \cup GoodCrons \cup BadCrons, starting_from : {NoTime}]
                 \cup {[enabled |-> FALSE, cron |-> NoCron, starting_from |-> NoTime]}
TornFiles(cfg) ==
    {BadFile}
        \cup {[EmptyConfig EXCEPT !["sig"] = sig] : sig \in TornUse(cfg["sig"])}
        \cup {[cfg EXCEPT !["enc"] = enc] : enc \in TornUse(cfg["enc"])}

WriteFileTorn(c, w) ==
    /\ pc[c] = "write" /\ Least(w, queue[c])
    /\ \E torn \in TornFiles(got[c]) : tree' = [tree EXCEPT ![c] = Write(@, w, torn)]
    /\ Stop(c)
    /\ UNCHANGED <<serverVars, cmd, scope, items, queue, left, got, ghostVars, countVars>>

-----------------------------------------------------------------------------
\* Other administrators and users.
CountOutside ==
    /\ outside < MaxOutside /\ outside' = outside + 1
    /\ UNCHANGED <<tree, runVars, base, edited, edits>>

OutsideSet(w, u, p) ==
    /\ w \in present
    /\ SetUse(w, u, p)
    /\ Touch({<<w, u>>}, {})
    /\ CountOutside /\ UNCHANGED present

Unconfigure(w) == server' = [server EXCEPT ![w] = [u \in UseSet |-> NeverConfigured]]

OutsideDelete(w) ==
    /\ w \in present /\ present' = present \ {w}
    /\ Unconfigure(w)
    /\ Touch({w} \X UseSet, {})
    /\ CountOutside

OutsideCreate(w) ==
    /\ w \notin present /\ present' = present \cup {w}
    /\ Unconfigure(w)
    /\ Touch({w} \X UseSet, {})
    /\ CountOutside

Edit(c, d, w, f) ==
    /\ edits < MaxEdits /\ edits' = edits + 1
    /\ tree' = [tree EXCEPT ![c][d][w] = f]
    /\ edited' = [edited EXCEPT ![c] = TRUE]
    /\ UNCHANGED <<serverVars, runVars, base, touched, outside>>

-----------------------------------------------------------------------------
Init ==
    /\ server \in [Wids -> [UseSet -> OutsidePayloads \cup {NeverConfigured}]]
    /\ present \in SUBSET Wids
    /\ \A w \in Wids \ present : server[w] = [u \in UseSet |-> NeverConfigured]
    /\ tree \in [Checkouts -> [Dirs -> [Wids -> EditFiles]]]
    /\ cmd = [c \in Checkouts |-> "none"]
    /\ pc = [c \in Checkouts |-> "idle"]
    /\ scope = [c \in Checkouts |-> {}]
    /\ items = [c \in Checkouts |-> [w \in Wids |-> NoConfig]]
    /\ queue = [c \in Checkouts |-> {}]
    /\ left = [c \in Checkouts |-> {}]
    /\ got = [c \in Checkouts |-> EmptyConfig]
    /\ base = tree
    /\ touched = [c \in Checkouts |-> {}]
    /\ edited = [c \in Checkouts |-> FALSE]
    /\ outside = 0 /\ edits = 0

Start(c) == \E S \in SUBSET Wids : StartPush(c, S) \/ RefusePush(c, S) \/ StartPull(c, S)

\* What the process in c does once started, when nothing goes wrong.
Step(c) ==
    \E w \in Wids :
        \/ WriteFile(c, w)
        \/ NotFound(c, w)
        \/ \E u \in UseSet : Get(c, w, u) \/ Put(c, w, u)

Fault(c) ==
    \/ Fail(c)
    \/ \E w \in Wids : WriteFileTorn(c, w) \/ \E u \in UseSet : PutAnswerLost(c, w, u)

User(c) == \E d \in Dirs, w \in Wids, f \in EditFiles : Edit(c, d, w, f)

Outside ==
    \E w \in Wids :
        \/ OutsideDelete(w) \/ OutsideCreate(w)
        \/ \E u \in UseSet, p \in OutsidePayloads : OutsideSet(w, u, p)

Next == Outside \/ \E c \in Checkouts : Start(c) \/ Step(c) \/ Fault(c) \/ User(c)

Spec == Init /\ [][Next]_vars

\* An operator who keeps rerunning the push of the tenant.  A started process is scheduled and each of
\* its calls returns, with an answer or an error; nothing is assumed of faults, users and others.
Rerun(c) == StartPush(c, Workspaces(tree[c])) \/ RefusePush(c, Workspaces(tree[c]))
RerunSpec ==
    /\ Init
    /\ [][Outside \/ \E c \in Checkouts : Rerun(c) \/ Step(c) \/ Fault(c) \/ User(c)]_vars
    /\ \A c \in Checkouts : WF_vars(Step(c)) /\ WF_vars(Rerun(c))

\* No faults and nobody else: what the documentation describes.
QuietSpec == Init /\ [][\E c \in Checkouts : Start(c) \/ Step(c)]_vars

-----------------------------------------------------------------------------
(***************************************************************************)
(* Properties.                                                             *)
(***************************************************************************)
\* The server has the rotation: enabled and cron, and starting_from when the rotation sets it.
InSync(r, p) ==
    /\ p.enabled = r.enabled /\ p.cron = r.cron
    /\ r.starting_from # NoTime => p.starting_from = r.starting_from

\* The uses of w that a command started with those files may push.
FileUses(files, w) == LET cfg == Read(files, w) IN IF cfg = ReadError THEN {} ELSE Uses(cfg)

\* Every use of w is in sync, except the ones somebody else changed during the run.
Delivered(c, w) ==
    \A u \in FileUses(base[c], w) :
        <<w, u>> \in touched[c] \/ InSync(Read(base[c], w)[u], server[w][u])

\* Push (sync.go:80): a workspace the push is past has what its file said when the push started, and
\* so have all of them once it is done, whatever failed, raced or was edited since: a use that is
\* skipped or written by a run is in sync unless another actor changed it after the run started.
PastIsDelivered(c) == cmd[c] = "push" => \A w \in scope[c] \ queue[c] : Delivered(c, w)
HandledIsDelivered == \A c \in Checkouts : PastIsDelivered(c)

\* What HandledIsDelivered rests on.  A running push works on what it read and validated at its start ...
ItemsAreValidated(c) ==
    pc[c] \in Running /\ cmd[c] = "push" =>
        /\ AllValid(base[c], scope[c])
        /\ items[c] = ReadAll(base[c], scope[c])
        /\ queue[c] \subseteq {w \in scope[c] : items[c][w] # NoConfig}

\* ... what was read of the current workspace is what the server has, or was changed by somebody else ...
ReadNotSent(c) == IF pc[c] = "put" THEN left[c] ELSE UseSet \ left[c]
GotIsCurrent(c) ==
    /\ pc[c] = "write" => cmd[c] # "push"
    /\ pc[c] \in Running =>
           \A w \in queue[c] : Least(w, queue[c]) => \A u \in ReadNotSent(c) :
               <<w, u>> \in touched[c] \/ got[c][u] = FromModel(server[w][u])

\* ... and of a workspace being written, the uses not left are skipped or sent already.
SentOrSkipped(c) ==
    pc[c] = "put" =>
        /\ cmd[c] = "push"
        /\ \A w \in queue[c] : Least(w, queue[c]) =>
            /\ left[c] \subseteq Uses(Changed(items[c][w], got[c]))
            /\ \A u \in Uses(items[c][w]) \ left[c] :
                   <<w, u>> \in touched[c] \/ InSync(items[c][w][u], server[w][u])

RunInv(c) == ItemsAreValidated(c) /\ GotIsCurrent(c) /\ SentOrSkipped(c) /\ PastIsDelivered(c)
PushInv == \A c \in Checkouts : RunInv(c)

\* A step of the process in c (each step changes one process only, or none).
Local(c) == <<pc[c], queue[c], left[c], got[c]>>
StepOf(c) == Local(c)' # Local(c)

\* readKeyRotations before pushKeyRotations (push.go:77): the server changes by a push only where a
\* file the run read is set, to what that file said, and only if every file of the scope was valid:
\* an invalid file or a use left out of the file never changes anything, even if edited meanwhile.
PushSendsWhatWasValidated ==
    [][\A c \in Checkouts, w \in Wids, u \in UseSet :
           StepOf(c) /\ server'[w][u] # server[w][u] =>
               /\ cmd[c] = "push"
               /\ AllValid(base[c], scope[c])
               /\ w \in scope[c] /\ u \in FileUses(base[c], w)
               /\ server'[w][u] = ToModel(Read(base[c], w)[u])]_vars

\* Push and Write stop at the first error (sync.go:100, key_rotation_api.go:54): a use changes only
\* when every workspace before it is delivered and, for enc, when sig is: the server never shows a
\* later change of the run without the earlier ones.
PushInOrder ==
    [][\A c \in Checkouts, w \in Wids, u \in UseSet :
           StepOf(c) /\ server'[w][u] # server[w][u] =>
               /\ \A v \in scope[c] : v < w => Delivered(c, v)
               /\ (u = "enc" /\ "sig" \in FileUses(base[c], w)) =>
                      \/ <<w, "sig">> \in touched[c]
                      \/ InSync(Read(base[c], w)["sig"], server[w]["sig"])]_vars

\* changedRotation (sync.go:116): a use without starting_from that the server already has is not
\* written again, unless the server was changed between the read and the write; with
\* HandledIsDelivered, a push repeated after one that ended "done" writes only uses with starting_from.
NoRedundantPut ==
    [][\A c \in Checkouts, w \in Wids, u \in UseSet :
           Put(c, w, u) /\ Read(base[c], w)[u].starting_from = NoTime =>
               <<w, u>> \in touched[c] \/ ~InSync(Read(base[c], w)[u], server[w][u])]_vars

\* README.md:343 "rerunning the push is idempotent": once a use of a workspace is as the effective file
\* says, or is not in it, no push or pull of that checkout changes it on the server, nor makes the file say
\* something else unless the pull dies while it writes that file; unless others change the use or the
\* user the files.
SyncedUse(c, w, u) == u \in FileUses(tree[c], w) => InSync(Read(tree[c], w)[u], server[w][u])
SyncedStays ==
    [][\A c \in Checkouts, w \in Wids, u \in UseSet :
           StepOf(c) /\ ~edited[c] /\ <<w, u>> \notin touched[c] /\ SyncedUse(c, w, u) =>
               /\ server'[w][u] = server[w][u]
               /\ SyncedUse(c, w, u)' \/ WriteFileTorn(c, w)]_vars

\* Pull (sync.go:28): unless others changed the server or the files meanwhile, a workspace the pull is
\* past reads back as the server's settings, so a push of it would skip every use and a diff shows
\* nothing; a workspace without settings keeps its file.
PulledReadsBack ==
    \A c \in Checkouts : cmd[c] = "pull" /\ ~edited[c] =>
        \A w \in scope[c] :
            LET remote == Settings(server[w])
                local == Read(tree[c], w)
            IN w \notin queue[c] /\ touched[c] \cap ({w} \X UseSet) = {} =>
                IF remote = NoConfig
                THEN \A d \in Dirs : tree[c][d][w] = base[c][d][w]
                ELSE /\ local # ReadError
                     /\ Uses(Changed(local, remote)) = {}
                     /\ TreeDiff(local, remote) = {}

\* DirStore.Write goes to the first directory: a command changes only the first directory's file of
\* the workspace it is at, and a push changes no file.
OnlyCurrentFileWritten ==
    \A c \in Checkouts : ~edited[c] =>
        \A d \in Dirs, w \in Wids :
            tree[c][d][w] # base[c][d][w] =>
                /\ cmd[c] = "pull" /\ d = 1 /\ w \in scope[c]
                /\ \A v \in queue[c] : w <= v

\* diffConfigs (diff.go:40): "diff previews only what push would change".  Once a push has read a workspace
\* that has something to send, the uses a diff shows are among those it is about to send, and the others it
\* sends set starting_from; and of a workspace it is past a diff shows nothing any more.  All this of the files
\* the push started with, and unless others change the workspace meanwhile.
DiffPreviewsPush ==
    \A c \in Checkouts : cmd[c] = "push" =>
        \A w \in scope[c] :
            LET local == Read(base[c], w)
                shown == TreeDiff(local, Settings(server[w]))
            IN local \notin {NoConfig, ReadError} /\ touched[c] \cap ({w} \X UseSet) = {} =>
                /\ w \notin queue[c] => shown = {}
                /\ pc[c] = "put" /\ Least(w, queue[c]) =>
                       /\ shown \subseteq left[c]
                       /\ \A u \in left[c] \ shown : local[u].starting_from # NoTime

\* Rerunning a push is idempotent and completes it (README "Key rotation in plain pull, push and diff"):
\* once nothing fails any more, the server has every workspace with a file and the files are valid,
\* the server ends up with what the files say and later runs keep it so, whatever earlier runs left
\* half done.
Pushable(c) == AllValid(tree[c], Workspaces(tree[c])) /\ Workspaces(tree[c]) \subseteq present
Pushed(c) == \A w \in Wids : \A u \in FileUses(tree[c], w) : InSync(Read(tree[c], w)[u], server[w][u])
RerunsConverge ==
    \A c \in Checkouts :
        <>[]Pushable(c) /\ <>[][~Fault(c)]_vars => <>[]Pushed(c)

\* README "Key rotation in plain pull, push and diff": with --tenant a push pushes the file of every
\* workspace directory that has one, including stale directories, whose request fails with a 404.
EveryDirectoryPushed ==
    \A c \in Checkouts :
        cmd[c] = "push" /\ pc[c] \in Ended /\ AllValid(base[c], scope[c]) =>
            \A w \in scope[c] \cap present : Delivered(c, w)
=============================================================================
