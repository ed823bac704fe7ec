---------------------------- MODULE PushPromise ----------------------------
(***************************************************************************)
(* What a push of key rotation promises, without saying how: for every use *)
(* it was started with, in order, it either sets the use on the server to  *)
(* what was wanted or settles it, because the server has it already or     *)
(* somebody else is changing it.  It stops when nothing is left or when    *)
(* something fails, and changes nothing else.  Reads, files and the order  *)
(* of calls are not mentioned; KeyRotationSync implements this             *)
(* (PushRefinement).                                                       *)
(***************************************************************************)
EXTENDS Naturals

CONSTANTS
    Runs,        \* pushes that may run at once
    Wids,        \* workspaces
    UseSet,      \* uses, sig before enc
    Config,      \* settings of a workspace
    NoConfig,    \* no settings
    NoRotation,  \* a use without settings
    NoTime       \* starting_from not set

VARIABLES
    server,   \* settings on the server, by workspace and use
    present,  \* the workspaces it has
    want,     \* what each push was started with
    todo,     \* the uses it has neither set nor settled
    status,   \* whether it is running, and how it ended
    touched   \* the uses others changed since it started

vars == <<server, present, want, todo, status, touched>>

Configured(items) ==
    {p \in Wids \X UseSet : items[p[1]] # NoConfig /\ items[p[1]][p[2]] # NoRotation}

InSync(r, p) ==
    /\ p.enabled = r.enabled /\ p.cron = r.cron
    /\ r.starting_from # NoTime => p.starting_from = r.starting_from

First(w, u, S) ==
    <<w, u>> \in S /\ \A v \in Wids, x \in UseSet :
        <<v, x>> \in S => w < v \/ (w = v /\ (x = "sig" => u = "sig"))

Init ==
    /\ want = [c \in Runs |-> [w \in Wids |-> NoConfig]]
    /\ todo = [c \in Runs |-> {}]
    /\ status = [c \in Runs |-> "idle"]
    /\ touched = [c \in Runs |-> {}]

\* Run c has S left, and ends when that is nothing.
Leave(c, S) ==
    /\ todo' = [todo EXCEPT ![c] = S]
    /\ status' = [status EXCEPT ![c] = IF S = {} THEN "done" ELSE "running"]

Start(c) ==
    /\ status[c] # "running"
    /\ want'[c] \in [Wids -> Config \cup {NoConfig}]
    /\ want' = [want EXCEPT ![c] = want'[c]]
    /\ Leave(c, Configured(want'[c]))
    /\ touched' = [touched EXCEPT ![c] = {}]
    /\ UNCHANGED <<server, present>>

\* The checkout is used for something else, or the settings are refused.
Reset(c) ==
    /\ status[c] # "running"
    /\ \E end \in {"idle", "failed"} : status' = [status EXCEPT ![c] = end]
    /\ want' = [want EXCEPT ![c] = [w \in Wids |-> NoConfig]]
    /\ todo' = [todo EXCEPT ![c] = {}]
    /\ touched' = [touched EXCEPT ![c] = {}]
    /\ UNCHANGED <<server, present>>

\* Uses are settled: the server has them, or somebody else changed them since the start.
Settle(c) ==
    /\ status[c] = "running"
    /\ \E S \in SUBSET todo[c] :
        /\ \A w \in Wids, u \in UseSet : <<w, u>> \in S =>
               <<w, u>> \in touched[c] \/ InSync(want[c][w][u], server[w][u])
        /\ Leave(c, todo[c] \ S)
    /\ UNCHANGED <<server, present, want, touched>>

\* The first use left is set; other runs see it as changed by somebody else.
Send(c, w, u) ==
    /\ status[c] = "running" /\ First(w, u, todo[c])
    /\ w \in present
    /\ server' = [server EXCEPT ![w][u] = want[c][w][u]]
    /\ touched' = [d \in Runs |-> IF d = c \/ status[d] = "idle" THEN touched[d]
                                  ELSE touched[d] \cup {<<w, u>>}]
    /\ UNCHANGED <<present, want>>

Fail(c) ==
    /\ todo' = [todo EXCEPT ![c] = {}]
    /\ status' = [status EXCEPT ![c] = "failed"]

Set(c, w, u) == Send(c, w, u) /\ Leave(c, todo[c] \ {<<w, u>>})
SetAndFail(c, w, u) == Send(c, w, u) /\ Fail(c)
Stop(c) == status[c] = "running" /\ Fail(c) /\ UNCHANGED <<server, present, want, touched>>

\* Others change workspaces and settings; every run is told which uses.
Outside ==
    /\ \E pairs \in SUBSET (Wids \X UseSet) :
        /\ \A w \in Wids, u \in UseSet : <<w, u>> \notin pairs => server'[w][u] = server[w][u]
        /\ touched' = [d \in Runs |-> IF status[d] = "idle" THEN touched[d]
                                      ELSE touched[d] \cup pairs]
    /\ UNCHANGED <<want, todo, status>>

Next ==
    \/ Outside
    \/ \E c \in Runs :
        \/ Start(c) \/ Reset(c) \/ Settle(c) \/ Stop(c)
        \/ \E w \in Wids, u \in UseSet : Set(c, w, u) \/ SetAndFail(c, w, u)

Spec == Init /\ [][Next]_vars
=============================================================================
