---------------------------- MODULE MCRateLimiter ----------------------------
(* A small instance of RateLimiter for TLC: a strict rule and a longer one   *)
(* with a burst allowance, two ticks to a second.                            *)
EXTENDS RateLimiter, TLC

TwoRules == {1, 2}
OneEach  == [r \in TwoRules |-> 1]
Bursts   == [r \in TwoRules |-> r - 1]
Periods  == [r \in TwoRules |-> 4 * r - 2]

ThreadSymmetry == Permutations(Threads)
=============================================================================
