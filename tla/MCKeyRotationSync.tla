------------------------- MODULE MCKeyRotationSync -------------------------
(***************************************************************************)
(* Small instances of KeyRotationSync for TLC.                             *)
(***************************************************************************)
EXTENDS PushRefinement, TLC

CONSTANTS c1, c2, good1, good2, bad, soon

\* A write that dies leaves any of the crons: the runs that are about other things have one.
OneCron == {good1}
NoCrons == {}
MCGoodCrons == {good1, good2}
MCBadCrons == {bad}
MCTimes == {soon}

Use(enabled, cron, start) == [enabled |-> enabled, cron |-> cron, starting_from |-> start]
Both(sig, enc) == [u \in UseSet |-> IF u = "sig" THEN sig ELSE enc]

\* Files: both uses; sig only, with a starting_from; enc only, of another cron; no use; an invalid cron.
BothFile == Both(Use(TRUE, good1, NoTime), Use(FALSE, good1, NoTime))
SigFile == Both(Use(TRUE, good1, soon), NoRotation)
EncFile == Both(NoRotation, Use(FALSE, good2, NoTime))
InvalidFile == Both(Use(TRUE, good1, NoTime), Use(TRUE, bad, NoTime))

\* Settings other administrators use: the one of the files, and a different one.
SamePayload == Use(TRUE, good1, NoTime)
OtherPayload == Use(TRUE, good2, NoTime)
DisabledPayload == Use(FALSE, good1, NoTime)

TenantWids == {1, 2}
OneWid == {1}
OneCheckout == {c1}
TwoCheckouts == {c1, c2}
\* Nothing but their files tells the checkouts apart, and the run has no liveness property.
CheckoutSymmetry == Permutations(TwoCheckouts)

TenantFiles == {NoFile, BothFile}
RerunFiles == {NoFile, BothFile, SigFile, InvalidFile}
AllFiles == {NoFile, BadFile, EmptyConfig, BothFile, SigFile, EncFile, InvalidFile}
RaceFiles == {BothFile, SigFile, Both(NoRotation, Use(TRUE, good1, NoTime))}
NoPayloads == {}
OnePayload == {OtherPayload}
TenantPayload == {DisabledPayload}
TwoPayloads == {SamePayload, OtherPayload}
=============================================================================
