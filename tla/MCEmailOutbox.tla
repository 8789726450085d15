---------------------------- MODULE MCEmailOutbox ----------------------------
(* Small instances of EmailOutbox. *)
EXTENDS EmailOutbox, TLC

CONSTANTS a1, w1, w2

OneAction    == {a1}
TwoWorkers   == {w1, w2}
BothModes    == {"keep_current", "move"}
CallFaults   == {"network", "refused"}

Symmetry == Permutations(Workers)
=============================================================================
