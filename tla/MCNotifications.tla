--------------------------- MODULE MCNotifications ---------------------------
(* Small instances of Notifications for TLC. *)
EXTENDS Notifications, TLC

ActorSymmetry == Permutations(Workers) \cup Permutations(Clients)
=============================================================================
