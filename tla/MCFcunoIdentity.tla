-------------------------- MODULE MCFcunoIdentity --------------------------
(* Instances of FcunoIdentity for TLC. *)
EXTENDS FcunoIdentity, TLC

CONSTANTS a1, a2, d1, d2, v1, v2

TwoRevisions == 1 .. 2
First == {1}
Rising == [r \in Revisions |-> r]
Never == [r \in Revisions |-> 0]
OneInstant == {1}
TwoAccounts == {a1, a2}
OneAccount == {a1}
TwoDeliveries == {d1, d2}
TwoVisits == {v1, v2}
OneVisit == {v1}
Symmetry == Permutations(TwoAccounts) \union Permutations(TwoDeliveries)
            \union Permutations(TwoVisits)
=============================================================================
