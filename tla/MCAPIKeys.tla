------------------------------ MODULE MCAPIKeys ------------------------------
(* A small instance of APIKeys for TLC: one user whose role and group carry  *)
(* a permission that allows the action, another that denies it at hand.      *)
EXTENDS APIKeys

CONSTANTS k1, u1, editor, team, grant, ban

OwnerOf == [k \in {k1} |-> u1]

Seeded ==
  [effect     |-> [p \in {grant, ban} |-> IF p = grant THEN "ALLOW" ELSE "DENY"],
   covers     |-> {grant, ban},
   living     |-> {grant, ban, editor, team},
   rolePerms  |-> {<<editor, grant>>},
   roleUsers  |-> {},
   groupRoles |-> {<<team, editor>>},
   groupPerms |-> {},
   members    |-> {<<team, u1>>},
   direct     |-> {}]

Start == {Seeded}
=============================================================================
