----------------------------- MODULE MCWebhooks -----------------------------
(* The instances of Webhooks that TLC checks. *)
EXTENDS Webhooks, TLC

CONSTANTS e1, e2, d1, d2, j1, k1, k2

TwoEndpoints == {e1, e2}
TwoDeliveries == {d1, d2}
OneDispatch == {j1}
OneReplay == {k1}
TwoReplays == {k1, k2}
Alike == Permutations(Endpoints) \cup Permutations(Deliveries)
           \cup Permutations(Dispatches) \cup Permutations(Replays)
=============================================================================
