------------------------------ MODULE MCFeeds ------------------------------
(* A list of up to two items shown at Home and in one remote process. *)
EXTENDS Feeds, TLC

CONSTANTS H, R, k1, k2

MCRemotes == {R}
MCKeys == {k1, k2}
Symmetry == Permutations(MCKeys)
=============================================================================
