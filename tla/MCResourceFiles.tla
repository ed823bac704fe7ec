-------------------------- MODULE MCResourceFiles --------------------------
(***************************************************************************)
(* Small instances of ResourceFiles for TLC.                               *)
(***************************************************************************)
EXTENDS ResourceFiles, Sequences, TLC

CONSTANTS r1, r2, r3, v1

ThreeIds == {r1, r2, r3}
TwoIds == {r1, r2}

\* The resources the server starts with are interchangeable.
Symmetric == Permutations(TwoIds)

OneField == {"x"}
MCVals == {v1}

\* "a b" is normalized to "a_b", "a_b-2" is what the second "a_b" gets, and ".x" starts with a dot.
MCNames == {"a_b", "a_b-c", "a b", "a_b-2", ".x"}
OneName == {"a_b"}

\* Their files as os.ReadDir lists them: that of "a_b-c" is between the two of "a_b".
Listed == <<".x-2", ".x", "a b-2", "a b", "a_b-2-2", "a_b-2", "a_b-c-2", "a_b-c", "a_b">>
Places == 1..Len(Listed)
MCStrings == {Listed[i] : i \in Places}
MCOrder == {<<Listed[i], Listed[j]>> : <<i, j>> \in {p \in Places \X Places : p[1] < p[2]}}
MCNumbered == [n \in MCNames |-> (2 :> (n \o "-2"))]
MCNormal == ("a b" :> "a_b") @@ ("a b-2" :> "a_b-2") @@ [s \in MCStrings |-> s]
MCDotted == {".x", ".x-2"}
=============================================================================
