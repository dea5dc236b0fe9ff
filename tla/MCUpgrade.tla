----------------------------- MODULE MCUpgrade -----------------------------
(* Two commands; a release and two of its candidates, one of which has a   *)
(* number where the other has a word of lower rank.                        *)
EXTENDS Upgrade, TLC

CONSTANTS u1, u2

Number(k) == [numeric |-> TRUE, value |-> k, text |-> 0]
Word(k)   == [numeric |-> FALSE, value |-> k, text |-> 0]

Candidate2 == [core |-> <<1, 2, 0>>, pre |-> <<Word(1), Number(2)>>]
CandidateB == [core |-> <<1, 2, 0>>, pre |-> <<Word(1), Word(1)>>]
Final      == [core |-> <<1, 2, 0>>, pre |-> <<>>]

MCReleases == {Candidate2, CandidateB, Final}
MCWithInstaller == {CandidateB, Final}
Symmetric == Permutations(Upgraders)
=============================================================================
