------------------------------ MODULE MCWebhooks ------------------------------
(* Small instances of Webhooks for TLC. *)
EXTENDS Webhooks, TLC

ActorSymmetry == Permutations(Threads) \cup Permutations(Deliveries)
=============================================================================
