---------------------------- MODULE MCBodyFiles ----------------------------
(***************************************************************************)
(* Small instances of BodyFiles for TLC.                                   *)
(***************************************************************************)
EXTENDS BodyFiles, TLC

CONSTANTS r1, r2, t1, t2

TwoIds == {r1, r2}
OneId == {r1}
MCTexts == {t1, t2}

\* Names 1 and 2 stay as they are, 3 is normalized to 2, 4 starts with a dot.
MCNames == 1..4
MCFileNames == {1, 2}
MCNormal == [n \in MCNames |-> IF n = 1 THEN 1 ELSE 2]
MCDotted == {4}

\* One body ends in a newline and one does not; name 1 is also used for a policy with its body in the YAML.
Line == [text |-> t1, newline |-> TRUE]
Word == [text |-> t2, newline |-> FALSE]
MCItems ==
    [name : {1, 3}, body : {Line, Word}, inline : {FALSE}]
    \cup [name : {2, 4}, body : {Word}, inline : {FALSE}]
    \cup [name : {1}, body : {Line}, inline : {TRUE}]
=============================================================================
