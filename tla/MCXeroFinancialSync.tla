------------------------ MODULE MCXeroFinancialSync ------------------------
(* Small instances of XeroFinancialSync. *)
EXTENDS XeroFinancialSync, TLC

CONSTANTS r1, w1, w2

OneRun   == {r1}
TwoWorkers == {w1, w2}
OneWorker == {w1}
TwoDocs  == {1, 2}
OneDoc == {1}
NoDocs   == {}

\* No two documents share their supporting evidence; or the first two do.
Distinct == [d \in Docs |-> d]
Alike    == [d \in Docs |-> IF d = 2 THEN 1 ELSE d]

ReadFaults == {"read"}

Symmetry == Permutations(Workers)
=============================================================================
