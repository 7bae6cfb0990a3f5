--------------------------- MODULE MCFeatureFlags ---------------------------
(* The instances of FeatureFlags that TLC checks. *)
EXTENDS FeatureFlags, TLC

CONSTANTS r1, w1, w2

OneReader == {r1}
TwoWriters == {w1, w2}
WritersAlike == Permutations(Writers)
=============================================================================
