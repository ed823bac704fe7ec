--------------------------- MODULE PushRefinement ---------------------------
(***************************************************************************)
(* KeyRotationSync implements PushPromise: a checkout that runs a push is  *)
(* a run of the promise, any other is idle.  Calls that read, files and    *)
(* pulls are hidden: those steps map to stuttering, or to settling the     *)
(* uses a read has shown to be in sync.                                    *)
(***************************************************************************)
EXTENDS KeyRotationSync

Pushing(c) == cmd[c] = "push"
Status(c) ==
    IF ~Pushing(c) THEN "idle"
    ELSE IF pc[c] \in Running THEN "running"
    ELSE IF pc[c] = "done" THEN "done" ELSE "failed"

\* The uses of its items not sent nor skipped yet: of the workspace being written those left, of the
\* others of the queue all.
Pending(c, w, u) ==
    /\ w \in queue[c] /\ u \in Uses(items[c][w])
    /\ pc[c] = "put" /\ Least(w, queue[c]) => u \in left[c]
Todo(c) ==
    IF Status(c) # "running" THEN {} ELSE {p \in EachUse : Pending(c, p[1], p[2])}

Todos == [c \in Checkouts |-> Todo(c)]
Statuses == [c \in Checkouts |-> Status(c)]
Touches == [c \in Checkouts |-> IF Pushing(c) THEN touched[c] ELSE {}]

Promise == INSTANCE PushPromise WITH
    Runs <- Checkouts, want <- items, todo <- Todos, status <- Statuses, touched <- Touches

\* Push (sync.go:80) over the API store: every run sets or settles the uses it was started with, in
\* order, and nothing else changes the server, whatever it reads, skips, races with or leaves undone.
PushKeepsItsPromise == Promise!Spec
=============================================================================
