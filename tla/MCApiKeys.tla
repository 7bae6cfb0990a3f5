----------------------------- MODULE MCApiKeys -----------------------------
(* The instances of ApiKeys that TLC checks. *)
EXTENDS ApiKeys, TLC

CONSTANTS k1, k2, k3, r1, r2, r3

ThreeKeys == {k1, k2, k3}
TwoRequests == {r1, r2}
ThreeRequests == {r1, r2, r3}
Alike == Permutations(Keys) \cup Permutations(Requests)
=============================================================================
