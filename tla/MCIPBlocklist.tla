---------------------------- MODULE MCIPBlocklist ----------------------------
(* A small instance of IPBlocklist for TLC: two processes with a cache each, *)
(* a check and two members of the staff, one of them served by the other     *)
(* process.                                                                  *)
EXTENDS IPBlocklist

CONSTANTS a, b, c1, s1, s2

MCCacheOf == [x \in {c1, s1, s2} |-> IF x = s2 THEN b ELSE a]
=============================================================================
