--------------------------- MODULE MCFcosUpdates ---------------------------
(* Small instances of FcosUpdates. *)
EXTENDS FcosUpdates, TLC

CONSTANTS i1, b1, b2, r1, r2, r3, s1, s2

OneItem       == {i1}
OneBatch      == {b1}
TwoBatches    == {b1, b2}
OneRecipient  == {r1}
TwoRecipients == {r1, r2}
ThreeRecipients == {r1, r2, r3}
TwoSlots      == {s1, s2}
Symmetry      == Permutations(TwoSlots) \cup Permutations(ThreeRecipients)
=============================================================================
