------------------------------ MODULE Policies ------------------------------
(***************************************************************************)
(* apps/iam: permissions, the roles and groups that carry them, the users  *)
(* they reach, and what they decide about one action on one resource.      *)
(*                                                                         *)
(* Deleting a permission, a role or a group hides the row and leaves what  *)
(* is attached to it.  A permission either covers the action or does not;  *)
(* matching its patterns is left out.  Everything exists from the start:   *)
(* something new is something that nothing is attached to yet.             *)
(*                                                                         *)
(* The module has no specification of its own: the ones that use it say    *)
(* who takes these steps.                                                  *)
(***************************************************************************)
EXTENDS FiniteSets

CONSTANTS
  Users, Roles, Groups, Permissions,
  StartPolicies  \* the policies a behaviour may start from

VARIABLES
  policy,   \* the rows of permissions, roles and groups, and the join tables
  users,    \* what decides about an account
  editing   \* rows that an update has read and has still to write

policyVars == <<policy, users, editing>>

Item    == Permissions \cup Roles \cup Groups
Effect  == {"ALLOW", "DENY"}
Account == [active : BOOLEAN, live : BOOLEAN, superuser : BOOLEAN]

Policy == [effect     : [Permissions -> Effect],
           covers     : SUBSET Permissions,
           living     : SUBSET Item,
           rolePerms  : SUBSET (Roles \X Permissions),
           roleUsers  : SUBSET (Roles \X Users),
           groupRoles : SUBSET (Groups \X Roles),
           groupPerms : SUBSET (Groups \X Permissions),
           members    : SUBSET (Groups \X Users),
           direct     : SUBSET (Permissions \X Users)]

ASSUME StartAssumption == StartPolicies \subseteq Policy

PolicyTypeOK ==
  /\ policy \in Policy
  /\ users \in [Users -> Account]
  /\ editing \in SUBSET Item

PolicyInit ==
  /\ policy \in StartPolicies
  /\ users \in [Users -> [active : {TRUE}, live : {TRUE}, superuser : BOOLEAN]]
  /\ editing = {}

-----------------------------------------------------------------------------
Living(S) == S \cap policy.living

\* Mutant of UserPermissions: a deleted role still passes its permissions on
\* through a group.
UserPermissionsThroughDeleted(u) ==
  {p \in Living(Permissions) :
     \/ <<p, u>> \in policy.direct
     \/ \E r \in Living(Roles) :
          <<r, p>> \in policy.rolePerms /\ <<r, u>> \in policy.roleUsers
     \/ \E g \in Living(Groups) :
          /\ <<g, u>> \in policy.members
          /\ \/ <<g, p>> \in policy.groupPerms
             \/ \E r \in Roles :
                  <<g, r>> \in policy.groupRoles /\ <<r, p>> \in policy.rolePerms}

\* get_user_effective_permissions, for an active user.
UserPermissions(u) ==
  {p \in Living(Permissions) :
     \/ <<p, u>> \in policy.direct
     \/ \E r \in Living(Roles) :
          <<r, p>> \in policy.rolePerms /\ <<r, u>> \in policy.roleUsers
     \/ \E g \in Living(Groups) :
          /\ <<g, u>> \in policy.members
          /\ \/ <<g, p>> \in policy.groupPerms
             \/ \E r \in Living(Roles) :
                  <<g, r>> \in policy.groupRoles /\ <<r, p>> \in policy.rolePerms}

\* Mutant of Decision: it returns the effect it has met last.
DecisionIsEffect(S) ==
  LET matching == S \cap policy.covers
  IN  IF matching = {} THEN "none" ELSE policy.effect[CHOOSE p \in matching : TRUE]

\* What the loops of evaluate_permission make of a list of permissions: the
\* first DENY that matches decides, else any ALLOW that does.
Decision(S) ==
  LET matching == S \cap policy.covers
      effects  == {policy.effect[p] : p \in matching}
  IN  IF "DENY" \in effects THEN "deny"
      ELSE IF "ALLOW" \in effects THEN "allow" ELSE "none"

-----------------------------------------------------------------------------
(* The views.  An id list names living rows: deleted ones are not found.     *)

Attach(table, pairs) ==
  /\ policy' = [policy EXCEPT ![table] = @ \cup pairs]
  /\ UNCHANGED <<users, editing>>

Detach(table, pairs) ==
  /\ policy' = [policy EXCEPT ![table] = @ \ pairs]
  /\ UNCHANGED <<users, editing>>

LivingUsers == {u \in Users : users[u].live}

AttachPermissions(r) ==
  \E S \in SUBSET Living(Permissions) : Attach("rolePerms", {r} \X S)

DetachPermissions(r) ==
  \E S \in SUBSET Living(Permissions) : Detach("rolePerms", {r} \X S)

AssignUsers(r) == \E S \in SUBSET LivingUsers : Attach("roleUsers", {r} \X S)

RemoveUsers(r) == \E S \in SUBSET LivingUsers : Detach("roleUsers", {r} \X S)

AddMembers(g) == \E S \in SUBSET LivingUsers : Attach("members", {g} \X S)

RemoveMembers(g) == \E S \in SUBSET LivingUsers : Detach("members", {g} \X S)

AttachGroupRoles(g) == \E S \in SUBSET Living(Roles) : Attach("groupRoles", {g} \X S)

DetachGroupRoles(g) == \E S \in SUBSET Living(Roles) : Detach("groupRoles", {g} \X S)

AttachRoles(u) == \E S \in SUBSET Living(Roles) : Attach("roleUsers", S \X {u})

DetachRoles(u) == \E S \in SUBSET Living(Roles) : Detach("roleUsers", S \X {u})

AttachUserPermissions(u) ==
  \E S \in SUBSET Living(Permissions) : Attach("direct", S \X {u})

DetachUserPermissions(u) ==
  \E S \in SUBSET Living(Permissions) : Detach("direct", S \X {u})

\* Only the admin's form gives permissions to a group.  set() replaces the
\* attachments it sees, which are those of living permissions.
SetGroupPermissions(g) ==
  \E S \in SUBSET Living(Permissions) :
    /\ policy' = [policy EXCEPT !.groupPerms =
                    (@ \ ({g} \X Living(Permissions))) \cup ({g} \X S)]
    /\ UNCHANGED <<users, editing>>

\* PUT, PATCH and the admin's forms: the row is read ...
EditRead(x) ==
  /\ x \in policy.living \ editing
  /\ editing' = editing \cup {x}
  /\ UNCHANGED <<policy, users>>

\* ... and all its columns are written back, with is_deleted as it was read.
EditSave(x) ==
  /\ x \in editing
  /\ editing' = editing \ {x}
  /\ \E e \in Effect, c \in {{}, {x}} :
       policy' = [policy EXCEPT
         !.living = @ \cup {x},
         !.effect = [p \in Permissions |-> IF p = x THEN e ELSE @[p]],
         !.covers = (@ \ {x}) \cup (c \cap Permissions)]
  /\ UNCHANGED users

DeleteItem(x) ==
  /\ x \in policy.living
  /\ policy' = [policy EXCEPT !.living = @ \ {x}]
  /\ UNCHANGED <<users, editing>>

RestoreItem(x) ==
  /\ x \in Item \ policy.living
  /\ policy' = [policy EXCEPT !.living = @ \cup {x}]
  /\ UNCHANGED <<users, editing>>

\* A user is deleted and restored by the API, the rest is the admin's form.
ChangeUser(u) ==
  /\ \E a \in Account : a # users[u] /\ users' = [users EXCEPT ![u] = a]
  /\ UNCHANGED <<policy, editing>>

PolicyChange ==
  \/ \E r \in Living(Roles) : \/ AttachPermissions(r) \/ DetachPermissions(r)
                              \/ AssignUsers(r) \/ RemoveUsers(r)
  \/ \E g \in Living(Groups) : \/ AddMembers(g) \/ RemoveMembers(g)
                               \/ AttachGroupRoles(g) \/ DetachGroupRoles(g)
                               \/ SetGroupPermissions(g)
  \/ \E u \in LivingUsers : \/ AttachRoles(u) \/ DetachRoles(u)
                            \/ AttachUserPermissions(u) \/ DetachUserPermissions(u)
  \/ \E x \in Item : EditRead(x) \/ EditSave(x) \/ DeleteItem(x) \/ RestoreItem(x)
  \/ \E u \in Users : ChangeUser(u)
=============================================================================
