---------------------------- MODULE MCAuthTokens ----------------------------
(* The instances of AuthTokens that TLC checks. *)
EXTENDS AuthTokens, TLC

CONSTANTS u1, t1, t2, t3, t4, r1, r2

OneUser == {u1}
FourTokens == {t1, t2, t3, t4}
TwoRequests == {r1, r2}
Alike == Permutations(Tokens) \cup Permutations(Requests)
=============================================================================
