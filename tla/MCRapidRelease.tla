--------------------------- MODULE MCRapidRelease ---------------------------
(* Small instances of RapidRelease. *)
EXTENDS RapidRelease

CONSTANTS r1, r2

TwoReleases == {r1, r2}
First       == {r1}
=============================================================================
