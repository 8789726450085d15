------------------------- MODULE MCPaymentReminders -------------------------
(* Small instances of PaymentReminders. *)
EXTENDS PaymentReminders, TLC

CONSTANTS b1, b2, q1, q2, q3

TwoBatches    == {b1, b2}
TwoRequests   == {q1, q2}
ThreeRequests == {q1, q2, q3}
Symmetry      == Permutations(TwoBatches) \cup Permutations(ThreeRequests)
=============================================================================
