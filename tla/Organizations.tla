---------------------------- MODULE Organizations ----------------------------
(***************************************************************************)
(* apps/organizations: one organization, its owner, its membership rows    *)
(* and its invitations, under the requests of organizations/views.py and   *)
(* the services and model methods they call.                               *)
(*                                                                         *)
(* A request first reads (get_object, permission checks, the membership or *)
(* invitation row) and then writes.  No row is locked between the two, and *)
(* the view's reads are outside the service's transaction.atomic, so a     *)
(* request is two steps, and any other request may come between them.  The *)
(* writes of one request commit together.                                  *)
(*                                                                         *)
(* BILLING and VIEWER are treated nowhere differently from MEMBER, which   *)
(* stands for the three.  An address is the user who reads its mail.       *)
(***************************************************************************)
EXTENDS Naturals, FiniteSets

CONSTANTS
  Users,       \* accounts
  Staff,       \* accounts with is_staff
  Invitations, \* identities of OrganizationInvitation rows
  Threads,     \* threads serving requests
  NoOne,       \* absence of a user or invitation in a request
  MaxRequests  \* bound: requests served in a behaviour

ASSUME ConstantsAssumption ==
  /\ Staff \subseteq Users
  /\ NoOne \notin Users \cup Invitations
  /\ MaxRequests \in Nat

VARIABLES
  owner,       \* Organization.owner
  orgDeleted,  \* Organization.is_deleted
  member,      \* the OrganizationMember row of each user
  inv,         \* the OrganizationInvitation rows
  expired,     \* invitations whose expires_at has passed
  req,         \* what each thread has read and is about to write
  admitted,    \* history: the users each invitation has let in
  owners,      \* history: everybody who has been the owner
  overlapped,  \* history: two requests have been in flight together
  requests     \* requests served so far

vars == <<owner, orgDeleted, member, inv, expired, req,
          admitted, owners, overlapped, requests>>

Roles         == {"OWNER", "ADMIN", "MEMBER"}
GrantableRoles == Roles \ {"OWNER"}
MemberRow     == [state : {"none", "active", "left"}, role : Roles]
InvStatus     == {"ABSENT", "PENDING", "ACCEPTED", "DECLINED", "REVOKED"}
InvitationRow == [status : InvStatus, to : Users \cup {NoOne},
                  by : Users \cup {NoOne}, role : GrantableRoles]
Ops == {"invite", "set_role", "remove", "leave", "transfer",
        "accept", "decline", "revoke", "update", "destroy"}
Request == [op : Ops, actor : Users, user : Users \cup {NoOne},
            role : GrantableRoles, inv : Invitations \cup {NoOne}]
Idle    == [op |-> "idle", actor |-> NoOne, user |-> NoOne,
            role |-> "MEMBER", inv |-> NoOne]

TypeOK ==
  /\ owner \in Users
  /\ orgDeleted \in BOOLEAN
  /\ member \in [Users -> MemberRow]
  /\ inv \in [Invitations -> InvitationRow]
  /\ expired \in SUBSET Invitations
  /\ req \in [Threads -> Request \cup {Idle}]
  /\ admitted \in [Invitations -> SUBSET Users]
  /\ owners \in SUBSET Users
  /\ overlapped \in BOOLEAN
  /\ requests \in Nat

\* create_organization has just committed the organization and its
\* founder's membership.
Init ==
  /\ owner \in Users
  /\ orgDeleted = FALSE
  /\ member = [u \in Users |->
                 IF u = owner THEN [state |-> "active", role |-> "OWNER"]
                              ELSE [state |-> "none", role |-> "MEMBER"]]
  /\ inv = [i \in Invitations |->
              [status |-> "ABSENT", to |-> NoOne, by |-> NoOne, role |-> "MEMBER"]]
  /\ expired = {}
  /\ req = [t \in Threads |-> Idle]
  /\ admitted = [i \in Invitations |-> {}]
  /\ owners = {owner}
  /\ overlapped = FALSE
  /\ requests = 0

-----------------------------------------------------------------------------
Active(u) == member[u].state = "active"

\* get_member_role, is_member and is_admin: the owner counts whatever the
\* membership row says.
IsMember(u) == owner = u \/ Active(u)
IsAdmin(u)  == owner = u \/ (Active(u) /\ member[u].role \in {"OWNER", "ADMIN"})

\* get_queryset and get_object of OrganizationViewSet.
CanSee(u) == ~orgDeleted /\ (u \in Staff \/ Active(u))

\* OrganizationInvitation.is_valid
IsValid(i) == inv[i].status = "PENDING" /\ i \notin expired

Begin(t, r) ==
  /\ req[t] = Idle
  /\ requests < MaxRequests
  /\ requests' = requests + 1
  /\ req' = [req EXCEPT ![t] = r]
  /\ overlapped' = (overlapped \/ \E s \in Threads \ {t} : req[s] # Idle)
  /\ UNCHANGED <<owner, orgDeleted, member, inv, expired, admitted, owners>>

-----------------------------------------------------------------------------
(* The reads and checks of each request. *)

Invite(t, a, u, r, i) ==
  /\ CanSee(a) /\ (IsAdmin(a) \/ a \in Staff)
  /\ ~IsMember(u)
  /\ inv[i].status = "ABSENT" /\ \A s \in Threads : req[s].inv # i
  /\ Begin(t, [op |-> "invite", actor |-> a, user |-> u, role |-> r, inv |-> i])

SetRole(t, a, u, r) ==
  /\ CanSee(a) /\ (IsAdmin(a) \/ a \in Staff)
  /\ Active(u) /\ u # owner
  /\ Begin(t, [op |-> "set_role", actor |-> a, user |-> u, role |-> r, inv |-> NoOne])

Remove(t, a, u) ==
  /\ CanSee(a) /\ (IsAdmin(a) \/ a \in Staff)
  /\ Active(u) /\ u # owner
  /\ Begin(t, [Idle EXCEPT !.op = "remove", !.actor = a, !.user = u])

Leave(t, u) ==
  /\ CanSee(u)
  /\ Active(u) /\ u # owner
  /\ Begin(t, [Idle EXCEPT !.op = "leave", !.actor = u, !.user = u])

\* Mutant of TransferOwnership: anybody may become the owner.
TransferToAnyone(t, a, u) ==
  /\ CanSee(a)
  /\ owner = a /\ u # a
  /\ Begin(t, [Idle EXCEPT !.op = "transfer", !.actor = a, !.user = u])

TransferOwnership(t, a, u) ==
  /\ CanSee(a)
  /\ owner = a /\ u # a
  /\ Active(u)
  /\ Begin(t, [Idle EXCEPT !.op = "transfer", !.actor = a, !.user = u])

\* Whoever holds the token may use it: an address mismatch is only logged.
Accept(t, u, i) ==
  /\ IsValid(i)
  /\ Begin(t, [op |-> "accept", actor |-> u, user |-> u,
               role |-> inv[i].role, inv |-> i])

Decline(t, u, i) ==
  /\ IsValid(i)
  /\ Begin(t, [Idle EXCEPT !.op = "decline", !.actor = u, !.inv = i])

\* The view shows an invitation to its sender, its addressee and staff, and
\* asks of them to be administrators; its status is not looked at.
Revoke(t, a, i) ==
  /\ inv[i].status # "ABSENT"
  /\ a \in Staff \/ (a \in {inv[i].to, inv[i].by} /\ IsAdmin(a))
  /\ Begin(t, [Idle EXCEPT !.op = "revoke", !.actor = a, !.inv = i])

\* partial_update keeps the row it has loaded, its owner included.
Update(t, a) ==
  /\ CanSee(a) /\ (IsAdmin(a) \/ a \in Staff)
  /\ Begin(t, [Idle EXCEPT !.op = "update", !.actor = a, !.user = owner])

Destroy(t, a) ==
  /\ CanSee(a) /\ (owner = a \/ a \in Staff)
  /\ Begin(t, [Idle EXCEPT !.op = "destroy", !.actor = a])

-----------------------------------------------------------------------------
(* The writes of each request: they find whatever has become of the rows. *)

Ready(t, op) == req[t].op = op /\ req' = [req EXCEPT ![t] = Idle]

\* Mutants of InviteWrite: earlier invitations stay as they are, or are
\* opened again.
InviteWithoutRevoking(t) ==
  /\ Ready(t, "invite")
  /\ inv' = [inv EXCEPT ![req[t].inv] =
               [status |-> "PENDING", to |-> req[t].user,
                by |-> req[t].actor, role |-> req[t].role]]
  /\ UNCHANGED <<owner, orgDeleted, member, expired, admitted, owners,
                 overlapped, requests>>
InviteReopening(t) ==
  /\ Ready(t, "invite")
  /\ inv' = [i \in Invitations |->
               IF i = req[t].inv \/ inv[i].to = req[t].user
               THEN [status |-> "PENDING", to |-> req[t].user,
                     by |-> req[t].actor, role |-> req[t].role]
               ELSE inv[i]]
  /\ UNCHANGED <<owner, orgDeleted, member, expired, admitted, owners,
                 overlapped, requests>>

\* Earlier pending invitations to the address are revoked, a new one stored.
InviteWrite(t) ==
  /\ Ready(t, "invite")
  /\ inv' = [i \in Invitations |->
               IF i = req[t].inv
               THEN [status |-> "PENDING", to |-> req[t].user,
                     by |-> req[t].actor, role |-> req[t].role]
               ELSE IF inv[i].to = req[t].user /\ inv[i].status = "PENDING"
                    THEN [inv[i] EXCEPT !.status = "REVOKED"] ELSE inv[i]]
  /\ UNCHANGED <<owner, orgDeleted, member, expired, admitted, owners,
                 overlapped, requests>>

SetRoleWrite(t) ==
  /\ Ready(t, "set_role")
  /\ member' = [member EXCEPT ![req[t].user].role = req[t].role]
  /\ UNCHANGED <<owner, orgDeleted, inv, expired, admitted, owners,
                 overlapped, requests>>

\* member.delete() for both a removal and a departure.
DepartWrite(t) ==
  /\ \E op \in {"remove", "leave"} : Ready(t, op)
  /\ member' = [member EXCEPT ![req[t].user].state = "left"]
  /\ UNCHANGED <<owner, orgDeleted, inv, expired, admitted, owners,
                 overlapped, requests>>

\* Mutant of TransferWrite: the old owner's row is left alone.
TransferWithoutDemotion(t) ==
  /\ Ready(t, "transfer")
  /\ owner' = req[t].user
  /\ owners' = owners \cup {req[t].user}
  /\ member' = [member EXCEPT ![req[t].user].role = "OWNER"]
  /\ UNCHANGED <<orgDeleted, inv, expired, admitted, overlapped, requests>>

\* The new owner's row, read before, becomes OWNER; the old owner's row is
\* looked up now, and becomes ADMIN if it is still there.
TransferWrite(t) ==
  LET a == req[t].actor
      u == req[t].user
  IN
  /\ Ready(t, "transfer")
  /\ owner' = u
  /\ owners' = owners \cup {u}
  /\ member' = [v \in Users |->
                  IF v = u THEN [member[v] EXCEPT !.role = "OWNER"]
                  ELSE IF v = a /\ Active(a) THEN [member[v] EXCEPT !.role = "ADMIN"]
                  ELSE member[v]]
  /\ UNCHANGED <<orgDeleted, inv, expired, admitted, overlapped, requests>>

\* Mutant of AcceptWrite: the invitation stays PENDING.
AcceptWithoutClosing(t) ==
  LET u == req[t].user
      i == req[t].inv
  IN
  /\ Ready(t, "accept")
  /\ member' = [member EXCEPT ![u] = [state |-> "active", role |-> req[t].role]]
  /\ admitted' = [admitted EXCEPT ![i] = @ \cup {u}]
  /\ UNCHANGED <<owner, orgDeleted, inv, expired, owners, overlapped, requests>>

\* get_or_create looks for a living row only.  A soft-deleted row of the user
\* still occupies the unique (organization, user) pair: the INSERT raises
\* IntegrityError and the transaction rolls back.
AcceptWrite(t) ==
  LET u == req[t].user
      i == req[t].inv
  IN
  /\ Ready(t, "accept")
  /\ IF i \in expired \/ member[u].state = "left"
     THEN UNCHANGED <<member, inv, admitted>>
     ELSE /\ member' = [member EXCEPT ![u] = [state |-> "active", role |-> req[t].role]]
          /\ inv' = [inv EXCEPT ![i].status = "ACCEPTED"]
          /\ admitted' = [admitted EXCEPT ![i] = @ \cup {u}]
  /\ UNCHANGED <<owner, orgDeleted, expired, owners, overlapped, requests>>

DeclineWrite(t) ==
  /\ Ready(t, "decline")
  /\ inv' = IF req[t].inv \in expired THEN inv
            ELSE [inv EXCEPT ![req[t].inv].status = "DECLINED"]
  /\ UNCHANGED <<owner, orgDeleted, member, expired, admitted, owners,
                 overlapped, requests>>

\* Mutant of RevokeWrite: a status InvitationStatus does not have.
RevokeAsCancelled(t) ==
  /\ Ready(t, "revoke")
  /\ inv' = [inv EXCEPT ![req[t].inv].status = "CANCELLED"]
  /\ UNCHANGED <<owner, orgDeleted, member, expired, admitted, owners,
                 overlapped, requests>>

RevokeWrite(t) ==
  /\ Ready(t, "revoke")
  /\ inv' = [inv EXCEPT ![req[t].inv].status = "REVOKED"]
  /\ UNCHANGED <<owner, orgDeleted, member, expired, admitted, owners,
                 overlapped, requests>>

\* serializer.save() writes every column of the copy: the owner it had, and
\* that it was not deleted.
UpdateWrite(t) ==
  /\ Ready(t, "update")
  /\ owner' = req[t].user
  /\ orgDeleted' = FALSE
  /\ UNCHANGED <<member, inv, expired, admitted, owners, overlapped, requests>>

DestroyWrite(t) ==
  /\ Ready(t, "destroy")
  /\ orgDeleted' = TRUE
  /\ UNCHANGED <<owner, member, inv, expired, admitted, owners,
                 overlapped, requests>>

\* The admin action that restores a soft-deleted organization.
RestoreSelected ==
  /\ orgDeleted
  /\ orgDeleted' = FALSE
  /\ UNCHANGED <<owner, member, inv, expired, req, admitted, owners,
                 overlapped, requests>>

\* Seven days pass.
Expire(i) ==
  /\ inv[i].status # "ABSENT"
  /\ expired' = expired \cup {i}
  /\ UNCHANGED <<owner, orgDeleted, member, inv, req, admitted, owners,
                 overlapped, requests>>

-----------------------------------------------------------------------------
Read(t) ==
  \/ \E a, u \in Users :
       \/ \E r \in GrantableRoles, i \in Invitations : Invite(t, a, u, r, i)
       \/ \E r \in GrantableRoles : SetRole(t, a, u, r)
       \/ Remove(t, a, u)
       \/ TransferOwnership(t, a, u)
  \/ \E u \in Users :
       \/ Leave(t, u)
       \/ Update(t, u)
       \/ Destroy(t, u)
       \/ \E i \in Invitations : Accept(t, u, i) \/ Decline(t, u, i) \/ Revoke(t, u, i)

Write(t) ==
  \/ InviteWrite(t) \/ SetRoleWrite(t) \/ DepartWrite(t) \/ TransferWrite(t)
  \/ AcceptWrite(t) \/ DeclineWrite(t) \/ RevokeWrite(t)
  \/ UpdateWrite(t) \/ DestroyWrite(t)

Next ==
  \/ \E t \in Threads : Read(t) \/ Write(t)
  \/ RestoreSelected
  \/ \E i \in Invitations : Expire(i)

Spec == Init /\ [][Next]_vars

-----------------------------------------------------------------------------
(* Properties *)

\* Whatever races, the owner has a membership row, and nobody is the owner or
\* holds the role OWNER who was not made owner: no invitation, role change or
\* edit of the organization can grant it.  (An edit may give the organization
\* back to an earlier owner, whom it had read before a transfer.)
OwnershipTraceable ==
  /\ owner \in owners
  /\ \A u \in owners : member[u].state # "none"
  /\ \A u \in Users : member[u].role = "OWNER" => u \in owners

\* As long as no two requests overlapped, the organization has exactly the
\* owner its membership rows name: the owner is an active member, and no
\* other active member is called OWNER.
OneOwner ==
  ~overlapped =>
    /\ Active(owner)
    /\ \A u \in Users : Active(u) /\ member[u].role = "OWNER" => u = owner

\* "single-use invitation token" (models.py:194): without overlapping
\* requests an invitation lets in at most one user, and only while it is
\* PENDING; afterwards it never becomes usable again.
SingleUse ==
  ~overlapped =>
    \A i \in Invitations :
      /\ Cardinality(admitted[i]) <= 1
      /\ admitted[i] # {} => inv[i].status \in {"ACCEPTED", "REVOKED"}

\* Inviting an address again replaces its earlier invitation: without
\* overlapping requests no address has two usable invitations.
OnePendingPerAddress ==
  ~overlapped =>
    \A i, j \in Invitations :
      inv[i].status = "PENDING" /\ inv[j].status = "PENDING" /\ inv[i].to = inv[j].to
        => i = j

\* Whatever races, the invitations are what InvitationLifecycle promises: sent
\* once, replaced by the next to the same address, letting in nobody after
\* they have lapsed, and never open again once they are closed.
Lifecycle == INSTANCE InvitationLifecycle
               WITH status <- [i \in Invitations |-> inv[i].status],
                    addressee <- [i \in Invitations |-> inv[i].to],
                    lapsed <- expired, letIn <- admitted
ImplementsLifecycle == Lifecycle!Spec

\* "Accept this invitation and create or reactivate the OrganizationMember"
\* (models.py:246): the request that accepts a valid invitation ends with its
\* user an active member.
AcceptMakesMember ==
  [][\A t \in Threads :
       req[t].op = "accept" /\ req'[t] = Idle /\ req[t].inv \notin expired
         => member'[req[t].user].state = "active"]_vars
=============================================================================
