--------------------------- MODULE MCOrganizations ---------------------------
(* Small instances of Organizations for TLC. *)
EXTENDS Organizations, TLC

\* Interchangeable actors: staff is not among the permuted users.
ActorSymmetry == Permutations(Users \ Staff) \cup Permutations(Threads)
                   \cup Permutations(Invitations)
=============================================================================
