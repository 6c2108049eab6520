------------------------- MODULE OrganizationsProofs -------------------------
(***************************************************************************)
(* Proofs about Organizations for any users, invitations and threads: who  *)
(* may own an organization whatever races, that its invitations implement  *)
(* InvitationLifecycle, and that one request at a time keeps exactly one   *)
(* owner and uses an invitation once.                                      *)
(***************************************************************************)
EXTENDS Organizations, FiniteSetTheorems, TLAPS

Busy(t) == req[t] # Idle

\* What a request in flight carries, whatever has happened since its reads.
RequestsSound ==
  \A t \in Threads :
    /\ req[t].op \in {"set_role", "remove", "leave", "transfer"} =>
         req[t].user \in Users /\ member[req[t].user].state # "none"
    /\ req[t].op \in {"invite", "accept"} => req[t].user \in Users
    /\ req[t].op \in {"invite", "accept", "decline", "revoke"} => req[t].inv \in Invitations
    /\ req[t].op = "update" => req[t].user \in owners

\* Without overlap a single request is in flight, and what it has read still
\* holds when it writes.
ReadsStillHold ==
  ~overlapped =>
    /\ \A s, t \in Threads : Busy(s) /\ Busy(t) => s = t
    /\ \A t \in Threads :
         /\ req[t].op \in {"set_role", "remove", "leave"} => req[t].user # owner
         /\ req[t].op = "transfer" =>
              /\ Active(req[t].user)
              /\ req[t].actor = owner /\ req[t].user # owner
         /\ req[t].op = "update" => req[t].user = owner

\* What holds of the rows and requests whatever races.
Sound == TypeOK /\ owner \in owners /\ RequestsSound

IInv == /\ Sound
        /\ OwnershipTraceable
        /\ ReadsStillHold
        /\ OneOwner

-----------------------------------------------------------------------------
(* What a read step does. *)

\* A request a thread may start: what its reads have found holds now.
Wellfounded(r) ==
  /\ r \in Request
  /\ r.op \in {"set_role", "remove", "leave"} =>
       r.user \in Users /\ Active(r.user) /\ r.user # owner
  /\ r.op = "transfer" =>
       r.user \in Users /\ Active(r.user) /\ r.actor = owner /\ r.user # owner
  /\ r.op \in {"invite", "accept"} => r.user \in Users
  /\ r.op \in {"invite", "accept", "decline", "revoke"} => r.inv \in Invitations
  /\ r.op \notin {"invite", "accept", "decline", "revoke"} => r.inv = NoOne
  /\ r.op = "invite" =>
       inv[r.inv].status = "ABSENT" /\ \A s \in Threads : req[s].inv # r.inv
  /\ r.op \in {"accept", "decline"} => inv[r.inv].status = "PENDING"
  /\ r.op = "revoke" => inv[r.inv].status # "ABSENT"
  /\ r.op = "update" => r.user = owner

\* Every read step is the start of a well-founded request.
LEMMA ReadBegins ==
  ASSUME TypeOK, NEW t \in Threads, Read(t)
  PROVE  \E r : Wellfounded(r) /\ Begin(t, r)
<1> USE DEF Idle, Request, Ops, Roles, GrantableRoles, Wellfounded
<1>1. ASSUME NEW a \in Users, NEW u \in Users, NEW r \in GrantableRoles,
             NEW i \in Invitations, Invite(t, a, u, r, i)
      PROVE  \E q : Wellfounded(q) /\ Begin(t, q)
  BY <1>1 DEF Invite
<1>2. ASSUME NEW a \in Users, NEW u \in Users, NEW r \in GrantableRoles,
             SetRole(t, a, u, r)
      PROVE  \E q : Wellfounded(q) /\ Begin(t, q)
  BY <1>2 DEF SetRole
<1>3. ASSUME NEW a \in Users, NEW u \in Users, Remove(t, a, u)
      PROVE  \E q : Wellfounded(q) /\ Begin(t, q)
  BY <1>3 DEF Remove
<1>4. ASSUME NEW a \in Users, NEW u \in Users, TransferOwnership(t, a, u)
      PROVE  \E q : Wellfounded(q) /\ Begin(t, q)
  BY <1>4 DEF TransferOwnership
<1>5. ASSUME NEW u \in Users, NEW i \in Invitations,
             Accept(t, u, i) \/ Decline(t, u, i) \/ Revoke(t, u, i)
      PROVE  \E q : Wellfounded(q) /\ Begin(t, q)
  <2>1. CASE Accept(t, u, i)
    <3>1. inv[i].role \in GrantableRoles
      BY DEF TypeOK, InvitationRow
    <3> QED
      BY <2>1, <3>1 DEF Accept, IsValid
  <2>2. CASE Decline(t, u, i)
    BY <2>2 DEF Decline, IsValid
  <2>3. CASE Revoke(t, u, i)
    BY <2>3 DEF Revoke
  <2> QED
    BY <1>5, <2>1, <2>2, <2>3
<1>6. ASSUME NEW u \in Users, Leave(t, u) PROVE \E q : Wellfounded(q) /\ Begin(t, q)
  BY <1>6 DEF Leave
<1>7. ASSUME NEW u \in Users, Destroy(t, u) PROVE \E q : Wellfounded(q) /\ Begin(t, q)
  BY <1>7 DEF Destroy
<1>8. ASSUME NEW u \in Users, Update(t, u) PROVE \E q : Wellfounded(q) /\ Begin(t, q)
  BY <1>8 DEF Update, TypeOK
<1> HIDE DEF Idle, Request, Ops, Roles, GrantableRoles, Wellfounded
<1> QED
  BY <1>1, <1>2, <1>3, <1>4, <1>5, <1>6, <1>7, <1>8 DEF Read

-----------------------------------------------------------------------------
(* The first layer: types, and what a request in flight carries. *)

LEMMA SoundInit == Init => Sound
<1> SUFFICES ASSUME Init PROVE Sound
  OBVIOUS
<1>1. member \in [Users -> MemberRow] /\ inv \in [Invitations -> InvitationRow]
  BY DEF Init, MemberRow, Roles, InvitationRow, InvStatus, GrantableRoles
<1>2. orgDeleted \in BOOLEAN /\ overlapped \in BOOLEAN
  BY DEF Init
<1>3. RequestsSound
  BY DEF Init, RequestsSound, Idle
<1> QED
  BY <1>1, <1>2, <1>3 DEF Init, Sound, TypeOK

\* A write step ends the request of its thread; neither rows nor who was made
\* owner are forgotten, so what the other requests carry stays sound.
LEMMA WriteKeepsRequests ==
  ASSUME Sound, NEW t \in Threads, NEW op \in Ops, Ready(t, op),
         owners \subseteq owners',
         \A u \in Users : member[u].state # "none" => member'[u].state # "none"
  PROVE  req' \in [Threads -> Request \cup {Idle}] /\ RequestsSound'
<1> USE DEF Sound
<1>1. req' = [req EXCEPT ![t] = Idle]
  BY DEF Ready
<1>2. req' \in [Threads -> Request \cup {Idle}]
  BY <1>1 DEF TypeOK
<1>3. \A s \in Threads : s # t => req'[s] = req[s]
  BY <1>1 DEF TypeOK
<1>4. req'[t] = Idle
  BY <1>1 DEF TypeOK
<1>5. RequestsSound'
  BY <1>3, <1>4 DEF RequestsSound, Idle
<1> QED
  BY <1>2, <1>5

\* The request a write step ends.
LEMMA WhatIsWritten ==
  ASSUME Sound, NEW t \in Threads, NEW op \in Ops, Ready(t, op)
  PROVE  /\ req[t] \in Request
         /\ req[t].role \in GrantableRoles /\ req[t].role \in Roles
         /\ op \in {"set_role", "remove", "leave", "transfer"} =>
              req[t].user \in Users /\ member[req[t].user].state # "none"
         /\ op \in {"invite", "accept"} => req[t].user \in Users
         /\ op \in {"invite", "accept", "decline", "revoke"} => req[t].inv \in Invitations
         /\ op = "update" => req[t].user \in owners
<1>1. req[t] \in Request
  BY DEF Sound, TypeOK, Ready, Idle, Ops
<1>2. req[t].role \in GrantableRoles
  BY <1>1 DEF Request
<1>3. req[t].role \in Roles
  BY <1>2 DEF GrantableRoles
<1> QED
  BY <1>1, <1>2, <1>3 DEF Sound, RequestsSound, Ready

LEMMA SoundStep == Sound /\ [Next]_vars => Sound'
<1> SUFFICES ASSUME Sound, [Next]_vars PROVE Sound'
  OBVIOUS
<1>0. owners \subseteq owners'
  <2>1. ASSUME NEW t \in Threads, Read(t) PROVE owners' = owners
    BY <2>1, ReadBegins DEF Sound, Begin
  <2>2. ASSUME NEW t \in Threads, Write(t) PROVE owners \subseteq owners'
    BY <2>2 DEF Write, InviteWrite, SetRoleWrite, DepartWrite, TransferWrite, AcceptWrite,
                DeclineWrite, RevokeWrite, UpdateWrite, DestroyWrite
  <2>3. CASE RestoreSelected \/ (\E i \in Invitations : Expire(i)) \/ UNCHANGED vars
    BY <2>3 DEF RestoreSelected, Expire, vars
  <2> QED
    BY <2>1, <2>2, <2>3 DEF Next
<1> USE DEF Sound, TypeOK
<1>1. ASSUME NEW t \in Threads, Read(t) PROVE Sound'
  <2>1. PICK r : Wellfounded(r) /\ Begin(t, r)
    BY <1>1, ReadBegins
  <2>2. overlapped' \in BOOLEAN
    BY <2>1 DEF Begin
  <2>3. req' \in [Threads -> Request \cup {Idle}] /\ requests' \in Nat
    BY <2>1 DEF Begin, Wellfounded
  <2>4. RequestsSound'
    <3>1. \A s \in Threads : req'[s] = IF s = t THEN r ELSE req[s]
      BY <2>1 DEF Begin
    <3>2. UNCHANGED <<member, owner, owners>>
      BY <2>1 DEF Begin
    <3> QED
      BY <2>1, <3>1, <3>2 DEF RequestsSound, Wellfounded, Active
  <2> QED
    BY <2>1, <2>2, <2>3, <2>4 DEF Begin
<1>2. ASSUME NEW t \in Threads, InviteWrite(t) PROVE Sound'
  <2>1. "invite" \in Ops /\ Ready(t, "invite") /\ member' = member
    BY <1>2 DEF InviteWrite, Ops
  <2>2. req' \in [Threads -> Request \cup {Idle}] /\ RequestsSound'
    BY <2>1, WriteKeepsRequests, <1>0
  <2>3. inv' \in [Invitations -> InvitationRow]
    BY <1>2, <2>1, WhatIsWritten DEF InviteWrite, InvitationRow, InvStatus, Request
  <2> QED
    BY <1>2, <2>2, <2>3 DEF InviteWrite
<1>3. ASSUME NEW t \in Threads, SetRoleWrite(t) PROVE Sound'
  <2>1. "set_role" \in Ops /\ Ready(t, "set_role")
    BY <1>3 DEF SetRoleWrite, Ops
  <2>2. member' \in [Users -> MemberRow]
    BY <1>3, <2>1, WhatIsWritten DEF SetRoleWrite, MemberRow
  <2>3. \A u \in Users : member'[u].state = member[u].state
    BY <1>3 DEF SetRoleWrite, MemberRow
  <2>4. req' \in [Threads -> Request \cup {Idle}] /\ RequestsSound'
    BY <2>1, <2>3, WriteKeepsRequests, <1>0
  <2> QED
    BY <1>3, <2>2, <2>4 DEF SetRoleWrite
<1>4. ASSUME NEW t \in Threads, DepartWrite(t) PROVE Sound'
  <2>1. PICK op \in {"remove", "leave"} : Ready(t, op)
    BY <1>4 DEF DepartWrite
  <2>2. op \in Ops
    BY DEF Ops
  <2>3. member' \in [Users -> MemberRow]
    BY <1>4 DEF DepartWrite, MemberRow
  <2>4. \A u \in Users : member'[u].state \in {member[u].state, "left"}
    BY <1>4 DEF DepartWrite, MemberRow
  <2>5. req' \in [Threads -> Request \cup {Idle}] /\ RequestsSound'
    BY <2>1, <2>2, <2>4, WriteKeepsRequests, <1>0
  <2> QED
    BY <1>4, <2>3, <2>5 DEF DepartWrite
<1>5. ASSUME NEW t \in Threads, TransferWrite(t) PROVE Sound'
  <2>1. "transfer" \in Ops /\ Ready(t, "transfer")
    BY <1>5 DEF TransferWrite, Ops
  <2>2. req[t].user \in Users
    BY <2>1, WhatIsWritten
  <2>3. member' \in [Users -> MemberRow]
    BY <1>5 DEF TransferWrite, MemberRow, Roles
  <2>4. \A u \in Users : member'[u].state = member[u].state
    BY <1>5 DEF TransferWrite, MemberRow
  <2>5. req' \in [Threads -> Request \cup {Idle}] /\ RequestsSound'
    BY <2>1, <2>4, WriteKeepsRequests, <1>0
  <2> QED
    BY <1>5, <2>2, <2>3, <2>5 DEF TransferWrite
<1>6. ASSUME NEW t \in Threads, AcceptWrite(t) PROVE Sound'
  <2>1. "accept" \in Ops /\ Ready(t, "accept")
    BY <1>6 DEF AcceptWrite, Ops
  <2>2. req[t].user \in Users /\ req[t].role \in Roles
    BY <2>1, WhatIsWritten
  <2>3. member' \in [Users -> MemberRow]
    BY <1>6, <2>2 DEF AcceptWrite, MemberRow
  <2>4. inv' \in [Invitations -> InvitationRow]
    BY <1>6 DEF AcceptWrite, InvitationRow, InvStatus
  <2>5. admitted' \in [Invitations -> SUBSET Users]
    BY <1>6, <2>2 DEF AcceptWrite
  <2>6. \A u \in Users : member'[u].state \in {member[u].state, "active"}
    BY <1>6 DEF AcceptWrite, MemberRow
  <2>7. req' \in [Threads -> Request \cup {Idle}] /\ RequestsSound'
    BY <2>1, <2>6, WriteKeepsRequests, <1>0
  <2> QED
    BY <1>6, <2>3, <2>4, <2>5, <2>7 DEF AcceptWrite
<1>7. ASSUME NEW t \in Threads, DeclineWrite(t) \/ RevokeWrite(t) PROVE Sound'
  <2>1. PICK op \in {"decline", "revoke"} : Ready(t, op)
    BY <1>7 DEF DeclineWrite, RevokeWrite
  <2>2. op \in Ops /\ member' = member
    BY <1>7 DEF Ops, DeclineWrite, RevokeWrite
  <2>3. req' \in [Threads -> Request \cup {Idle}] /\ RequestsSound'
    BY <2>1, <2>2, WriteKeepsRequests, <1>0
  <2>4. inv' \in [Invitations -> InvitationRow]
    BY <1>7 DEF DeclineWrite, RevokeWrite, InvitationRow, InvStatus
  <2> QED
    BY <1>7, <2>3, <2>4 DEF DeclineWrite, RevokeWrite
<1>8. ASSUME NEW t \in Threads, DestroyWrite(t) PROVE Sound'
  <2>1. "destroy" \in Ops /\ Ready(t, "destroy") /\ member' = member
    BY <1>8 DEF DestroyWrite, Ops
  <2>2. req' \in [Threads -> Request \cup {Idle}] /\ RequestsSound'
    BY <2>1, WriteKeepsRequests, <1>0
  <2> QED
    BY <1>8, <2>2 DEF DestroyWrite
<1>8a. ASSUME NEW t \in Threads, UpdateWrite(t) PROVE Sound'
  <2>1. "update" \in Ops /\ Ready(t, "update") /\ member' = member
    BY <1>8a DEF UpdateWrite, Ops
  <2>2. req[t].user \in owners
    BY <2>1, WhatIsWritten
  <2>3. req' \in [Threads -> Request \cup {Idle}] /\ RequestsSound'
    BY <2>1, WriteKeepsRequests, <1>0
  <2> QED
    BY <1>8a, <2>2, <2>3 DEF UpdateWrite
<1>9. CASE RestoreSelected
  BY <1>9 DEF RestoreSelected, RequestsSound
<1>10. ASSUME NEW i \in Invitations, Expire(i) PROVE Sound'
  BY <1>10 DEF Expire, RequestsSound
<1>11. CASE UNCHANGED vars
  BY <1>11 DEF vars, RequestsSound
<1> QED
  BY <1>1, <1>2, <1>3, <1>4, <1>5, <1>6, <1>7, <1>8, <1>8a, <1>9, <1>10, <1>11
     DEF Next, Write

\* Every variable keeps its type.
THEOREM TypeCorrect == Spec => []TypeOK
<1>1. Sound => TypeOK
  BY DEF Sound
<1> QED
  BY <1>1, SoundInit, SoundStep, PTL DEF Spec

-----------------------------------------------------------------------------
(* The second layer: ownership, whatever races. *)

LEMMA TraceableInit == Init => OwnershipTraceable
BY DEF Init, OwnershipTraceable, Roles

LEMMA TraceableStep == Sound /\ OwnershipTraceable /\ [Next]_vars => OwnershipTraceable'
<1> SUFFICES ASSUME Sound, OwnershipTraceable, [Next]_vars PROVE OwnershipTraceable'
  OBVIOUS
<1>1. ASSUME NEW t \in Threads, Read(t) PROVE OwnershipTraceable'
  BY <1>1, ReadBegins DEF Sound, Begin, OwnershipTraceable
<1>2. ASSUME NEW t \in Threads, SetRoleWrite(t) PROVE OwnershipTraceable'
  <2>1. req[t].role \in GrantableRoles
    BY <1>2, WhatIsWritten DEF SetRoleWrite, Ops
  <2>2. \A u \in Users : /\ member'[u].state = member[u].state
                         /\ member'[u].role \in {member[u].role, req[t].role}
    BY <1>2 DEF SetRoleWrite, Sound, TypeOK, MemberRow
  <2> QED
    BY <1>2, <2>1, <2>2 DEF SetRoleWrite, OwnershipTraceable, GrantableRoles, Sound, TypeOK
<1>3. ASSUME NEW t \in Threads, DepartWrite(t) PROVE OwnershipTraceable'
  <2>1. \A u \in Users : /\ member'[u].state \in {member[u].state, "left"}
                         /\ member'[u].role = member[u].role
    BY <1>3 DEF DepartWrite, Sound, TypeOK, MemberRow
  <2> QED
    BY <1>3, <2>1 DEF DepartWrite, OwnershipTraceable, Sound, TypeOK
<1>4. ASSUME NEW t \in Threads, TransferWrite(t) PROVE OwnershipTraceable'
  <2>1. req[t].user \in Users /\ member[req[t].user].state # "none"
    BY <1>4, WhatIsWritten DEF TransferWrite, Ops
  <2>2. \A u \in Users :
          /\ member'[u].state = member[u].state
          /\ member'[u].role = "OWNER" => member[u].role = "OWNER" \/ u = req[t].user
    BY <1>4 DEF TransferWrite, Sound, TypeOK, MemberRow
  <2> QED
    BY <1>4, <2>1, <2>2 DEF TransferWrite, OwnershipTraceable, Sound, TypeOK
<1>5. ASSUME NEW t \in Threads, AcceptWrite(t) PROVE OwnershipTraceable'
  <2>1. req[t].role \in GrantableRoles
    BY <1>5, WhatIsWritten DEF AcceptWrite, Ops
  <2>2. \A u \in Users :
          /\ member'[u].state \in {member[u].state, "active"}
          /\ member'[u].role \in {member[u].role, req[t].role}
    BY <1>5 DEF AcceptWrite, Sound, TypeOK, MemberRow
  <2> QED
    BY <1>5, <2>1, <2>2 DEF AcceptWrite, OwnershipTraceable, GrantableRoles, Sound, TypeOK
<1>6. ASSUME NEW t \in Threads,
             InviteWrite(t) \/ DeclineWrite(t) \/ RevokeWrite(t) \/ DestroyWrite(t)
      PROVE  OwnershipTraceable'
  BY <1>6 DEF InviteWrite, DeclineWrite, RevokeWrite, DestroyWrite, OwnershipTraceable
<1>6a. ASSUME NEW t \in Threads, UpdateWrite(t) PROVE OwnershipTraceable'
  <2>1. req[t].user \in owners
    BY <1>6a, WhatIsWritten DEF UpdateWrite, Ops
  <2> QED
    BY <1>6a, <2>1 DEF UpdateWrite, OwnershipTraceable
<1>7. CASE RestoreSelected
  BY <1>7 DEF RestoreSelected, OwnershipTraceable
<1>8. ASSUME NEW i \in Invitations, Expire(i) PROVE OwnershipTraceable'
  BY <1>8 DEF Expire, OwnershipTraceable
<1>9. CASE UNCHANGED vars
  BY <1>9 DEF vars, OwnershipTraceable
<1> QED
  BY <1>1, <1>2, <1>3, <1>4, <1>5, <1>6, <1>6a, <1>7, <1>8, <1>9 DEF Next, Write

\* Whatever races, the owner and everybody whose row says OWNER were made
\* owner by create_organization or transfer_ownership: no invitation, role
\* change or edit grants ownership to anybody else.
THEOREM OwnershipIsTraceable == Spec => []OwnershipTraceable
BY SoundInit, SoundStep, TraceableInit, TraceableStep, PTL DEF Spec

-----------------------------------------------------------------------------
(* The third layer: one request at a time. *)

LEMMA SerialInit == Init => ReadsStillHold /\ OneOwner
BY DEF Init, ReadsStillHold, OneOwner, Busy, Idle, Active, Roles

\* A request that starts alone finds every other thread idle.
LEMMA SerialRead ==
  ASSUME Sound, ReadsStillHold, OneOwner, NEW t \in Threads, Read(t)
  PROVE  ReadsStillHold' /\ OneOwner'
<1>1. PICK r : Wellfounded(r) /\ Begin(t, r)
  BY ReadBegins DEF Sound
<1>2. OneOwner'
  BY <1>1 DEF Begin, OneOwner, Active
<1>3. ASSUME ~overlapped' PROVE \A s \in Threads : req'[s] = IF s = t THEN r ELSE Idle
  BY <1>1, <1>3 DEF Begin, Sound, TypeOK
<1>4. ReadsStillHold'
  BY <1>1, <1>3 DEF Begin, ReadsStillHold, Wellfounded, Busy, Idle, Active
<1> QED
  BY <1>2, <1>4

\* When the only request in flight has written, every thread is idle.
LEMMA SerialWrite ==
  ASSUME Sound, ReadsStillHold, NEW t \in Threads, NEW op \in Ops, Ready(t, op),
         overlapped' = overlapped
  PROVE  ReadsStillHold'
<1>1. Busy(t)
  BY DEF Ready, Busy, Idle, Ops
<1>2. ASSUME ~overlapped PROVE \A s \in Threads : req'[s] = Idle
  BY <1>1, <1>2 DEF Ready, ReadsStillHold, Busy, Sound, TypeOK
<1> QED
  BY <1>2 DEF ReadsStillHold, Busy, Idle

LEMMA SerialStep ==
  Sound /\ ReadsStillHold /\ OneOwner /\ [Next]_vars
    => ReadsStillHold' /\ OneOwner'
<1> SUFFICES ASSUME Sound, ReadsStillHold, OneOwner, [Next]_vars
             PROVE  ReadsStillHold' /\ OneOwner'
  OBVIOUS
<1>1. ASSUME NEW t \in Threads, Read(t) PROVE ReadsStillHold' /\ OneOwner'
  BY <1>1, SerialRead
<1>2. ASSUME NEW t \in Threads, SetRoleWrite(t) PROVE ReadsStillHold' /\ OneOwner'
  <2>1. "set_role" \in Ops /\ Ready(t, "set_role")
    BY <1>2 DEF SetRoleWrite, Ops
  <2>2. req[t].role # "OWNER"
    BY <2>1, WhatIsWritten DEF GrantableRoles
  <2>3. \A u \in Users : /\ member'[u].state = member[u].state
                         /\ member'[u].role \in {member[u].role, req[t].role}
    BY <1>2 DEF SetRoleWrite, Sound, TypeOK, MemberRow
  <2>4. OneOwner'
    BY <1>2, <2>2, <2>3 DEF SetRoleWrite, OneOwner, Active, Sound, TypeOK
  <2>5. ReadsStillHold'
    BY <1>2, <2>1, SerialWrite DEF SetRoleWrite
  <2> QED
    BY <2>4, <2>5
<1>3. ASSUME NEW t \in Threads, DepartWrite(t) PROVE ReadsStillHold' /\ OneOwner'
  <2>1. PICK op \in {"remove", "leave"} : Ready(t, op)
    BY <1>3 DEF DepartWrite
  <2>2. op \in Ops
    BY DEF Ops
  <2>3. ~overlapped => req[t].user # owner
    BY <2>1 DEF Ready, ReadsStillHold
  <2>4. \A u \in Users : /\ u # req[t].user => member'[u].state = member[u].state
                         /\ member'[u].state \in {member[u].state, "left"}
                         /\ member'[u].role = member[u].role
    BY <1>3 DEF DepartWrite, Sound, TypeOK, MemberRow
  <2>5. OneOwner'
    BY <1>3, <2>3, <2>4 DEF DepartWrite, OneOwner, Active, Sound, TypeOK
  <2>6. ReadsStillHold'
    BY <1>3, <2>1, <2>2, SerialWrite DEF DepartWrite
  <2> QED
    BY <2>5, <2>6
<1>4. ASSUME NEW t \in Threads, TransferWrite(t) PROVE ReadsStillHold' /\ OneOwner'
  <2>1. "transfer" \in Ops /\ Ready(t, "transfer")
    BY <1>4 DEF TransferWrite, Ops
  <2>2. ~overlapped => /\ Active(req[t].user) /\ req[t].user \in Users
                       /\ req[t].actor = owner /\ req[t].user # owner
    BY <2>1, WhatIsWritten DEF Ready, ReadsStillHold
  <2>3. ASSUME NEW u \in Users, ~overlapped
        PROVE  /\ member'[u].state = member[u].state
               /\ u = owner => member'[u].role = "ADMIN"
               /\ u # owner /\ u # req[t].user => member'[u].role = member[u].role
    BY <1>4, <2>2, <2>3 DEF TransferWrite, OneOwner, Sound, TypeOK, MemberRow
  <2>4. OneOwner'
    BY <1>4, <2>2, <2>3 DEF TransferWrite, OneOwner, Active
  <2>5. ReadsStillHold'
    BY <1>4, <2>1, SerialWrite DEF TransferWrite
  <2> QED
    BY <2>4, <2>5
<1>5. ASSUME NEW t \in Threads, AcceptWrite(t) PROVE ReadsStillHold' /\ OneOwner'
  <2>1. "accept" \in Ops /\ Ready(t, "accept")
    BY <1>5 DEF AcceptWrite, Ops
  <2>2. req[t].role # "OWNER"
    BY <2>1, WhatIsWritten DEF GrantableRoles
  <2>3. \A u \in Users :
          \/ member'[u] = member[u]
          \/ member'[u].state = "active" /\ member'[u].role = req[t].role
    BY <1>5 DEF AcceptWrite, Sound, TypeOK, MemberRow
  <2>4. OneOwner'
    BY <1>5, <2>2, <2>3 DEF AcceptWrite, OneOwner, Active, Sound, TypeOK
  <2>5. ReadsStillHold'
    BY <1>5, <2>1, SerialWrite DEF AcceptWrite
  <2> QED
    BY <2>4, <2>5
<1>6. ASSUME NEW t \in Threads,
             InviteWrite(t) \/ DeclineWrite(t) \/ RevokeWrite(t) \/ DestroyWrite(t)
      PROVE  ReadsStillHold' /\ OneOwner'
  <2>1. PICK op \in {"invite", "decline", "revoke", "destroy"} : Ready(t, op)
    BY <1>6 DEF InviteWrite, DeclineWrite, RevokeWrite, DestroyWrite
  <2>2. op \in Ops /\ UNCHANGED <<owner, member, overlapped>>
    BY <1>6 DEF Ops, InviteWrite, DeclineWrite, RevokeWrite, DestroyWrite
  <2>3. ReadsStillHold'
    BY <2>1, <2>2, SerialWrite
  <2> QED
    BY <2>2, <2>3 DEF OneOwner, Active
<1>6a. ASSUME NEW t \in Threads, UpdateWrite(t) PROVE ReadsStillHold' /\ OneOwner'
  <2>1. "update" \in Ops /\ Ready(t, "update") /\ UNCHANGED <<member, overlapped>>
    BY <1>6a DEF UpdateWrite, Ops
  <2>2. ~overlapped => owner' = owner
    BY <1>6a DEF UpdateWrite, Ready, ReadsStillHold
  <2>3. ReadsStillHold'
    BY <2>1, SerialWrite
  <2> QED
    BY <2>1, <2>2, <2>3 DEF OneOwner, Active
<1>7. CASE RestoreSelected
  BY <1>7 DEF RestoreSelected, ReadsStillHold, OneOwner, Active, Busy
<1>8. ASSUME NEW i \in Invitations, Expire(i) PROVE ReadsStillHold' /\ OneOwner'
  BY <1>8 DEF Expire, ReadsStillHold, OneOwner, Active, Busy
<1>9. CASE UNCHANGED vars
  BY <1>9 DEF vars, ReadsStillHold, OneOwner, Active, Busy
<1> QED
  BY <1>1, <1>2, <1>3, <1>4, <1>5, <1>6, <1>6a, <1>7, <1>8, <1>9 DEF Next, Write

\* The inductive invariant: its three layers, each resting on those before.
THEOREM Invariance == Spec => []IInv
<1>1. Init => IInv
  BY SoundInit, TraceableInit, SerialInit DEF IInv
<1>2. IInv /\ [Next]_vars => IInv'
  BY SoundStep, TraceableStep, SerialStep DEF IInv
<1> QED
  BY <1>1, <1>2, PTL DEF Spec

\* As long as no two requests have overlapped, the organization has exactly
\* the owner its membership rows name.
THEOREM ExactlyOneOwner == Spec => []OneOwner
<1>1. IInv => OneOwner
  BY DEF IInv
<1> QED
  BY <1>1, Invariance, PTL

-----------------------------------------------------------------------------
(* The fourth layer: invitations. *)

\* Whatever races, a row that is about to be stored is known to nobody else.
InvitesAreNew ==
  \A t \in Threads :
    req[t].op = "invite" =>
      /\ inv[req[t].inv].status = "ABSENT"
      /\ \A s \in Threads \ {t} : req[s].inv # req[t].inv

\* Alone, an answer finds its invitation still open, and an invitation that
\* has let somebody in is closed.
AnsweredIsClosed ==
  ~overlapped =>
    /\ \A t \in Threads :
         req[t].op \in {"accept", "decline"} => inv[req[t].inv].status = "PENDING"
    /\ \A i \in Invitations :
         /\ admitted[i] = {} \/ \E u \in Users : admitted[i] = {u}
         /\ admitted[i] # {} => inv[i].status \in {"ACCEPTED", "REVOKED"}

\* What a write does to the invitations, and of which request it is.
LEMMA InvitationsAfter ==
  ASSUME Sound, NEW t \in Threads, Write(t)
  PROVE  /\ \E op \in Ops : Ready(t, op)
         /\ overlapped' = overlapped
         /\ \A s \in Threads : req'[s] = IF s = t THEN Idle ELSE req[s]
         /\ \A i \in Invitations :
              \/ inv'[i] = inv[i]
              \/ /\ i = req[t].inv
                 /\ \/ req[t].op = "invite"
                    \/ inv'[i].status \in {"ACCEPTED", "DECLINED", "REVOKED"}
              \/ inv[i].status = "PENDING" /\ inv'[i].status = "REVOKED"
<1> USE DEF Sound, TypeOK
<1>1. \A i \in Invitations, status \in InvStatus :
        [inv[i] EXCEPT !.status = status].status = status
  BY DEF InvitationRow
<1>2. PICK op \in Ops : Ready(t, op)
  BY DEF Write, InviteWrite, SetRoleWrite, DepartWrite, TransferWrite, AcceptWrite,
         DeclineWrite, RevokeWrite, UpdateWrite, DestroyWrite, Ops
<1>3. \A s \in Threads : req'[s] = IF s = t THEN Idle ELSE req[s]
  BY <1>2 DEF Ready
<1>4. overlapped' = overlapped
  BY DEF Write, InviteWrite, SetRoleWrite, DepartWrite, TransferWrite, AcceptWrite,
         DeclineWrite, RevokeWrite, UpdateWrite, DestroyWrite
<1>5. ASSUME NEW i \in Invitations
      PROVE  \/ inv'[i] = inv[i]
             \/ /\ i = req[t].inv
                /\ \/ req[t].op = "invite"
                   \/ inv'[i].status \in {"ACCEPTED", "DECLINED", "REVOKED"}
             \/ inv[i].status = "PENDING" /\ inv'[i].status = "REVOKED"
  <2>1. CASE InviteWrite(t)
    BY <1>1, <2>1 DEF InviteWrite, Ready, InvStatus
  <2>2. CASE AcceptWrite(t) \/ DeclineWrite(t) \/ RevokeWrite(t)
    <3>1. \/ inv' = inv
          \/ \E status \in {"ACCEPTED", "DECLINED", "REVOKED"} :
               inv' = [inv EXCEPT ![req[t].inv].status = status]
      BY <2>2 DEF AcceptWrite, DeclineWrite, RevokeWrite
    <3>2. ASSUME NEW status \in {"ACCEPTED", "DECLINED", "REVOKED"},
                 inv' = [inv EXCEPT ![req[t].inv].status = status]
          PROVE  inv'[i] = inv[i] \/ (i = req[t].inv /\ inv'[i].status = status)
      BY <1>1, <3>2 DEF InvStatus
    <3> QED
      BY <3>1, <3>2
  <2>3. CASE \/ SetRoleWrite(t) \/ DepartWrite(t) \/ TransferWrite(t)
             \/ UpdateWrite(t) \/ DestroyWrite(t)
    BY <2>3 DEF SetRoleWrite, DepartWrite, TransferWrite, UpdateWrite, DestroyWrite
  <2> QED
    BY <2>1, <2>2, <2>3 DEF Write
<1> QED
  BY <1>2, <1>3, <1>4, <1>5

LEMMA NewInit == Init => InvitesAreNew
BY DEF Init, InvitesAreNew, Idle

LEMMA NewStep == Sound /\ InvitesAreNew /\ [Next]_vars => InvitesAreNew'
<1> SUFFICES ASSUME Sound, InvitesAreNew, [Next]_vars PROVE InvitesAreNew'
  OBVIOUS
<1>0. \A t \in Threads : req[t].op = "invite" => req[t].inv \in Invitations /\ req[t].inv # NoOne
  BY ConstantsAssumption DEF Sound, RequestsSound
<1>1. ASSUME NEW t \in Threads, Read(t) PROVE InvitesAreNew'
  <2>1. PICK r : Wellfounded(r) /\ Begin(t, r)
    BY <1>1, ReadBegins DEF Sound
  <2>2. inv' = inv /\ \A s \in Threads : req'[s] = IF s = t THEN r ELSE req[s]
    BY <2>1 DEF Begin, Sound, TypeOK
  <2>3. ASSUME NEW s \in Threads, s # t, req[s].op = "invite" PROVE r.inv # req[s].inv
    BY <1>0, <2>1, <2>3 DEF Wellfounded, InvitesAreNew, Request
  <2>4. r.op = "invite" => /\ inv[r.inv].status = "ABSENT"
                           /\ \A s \in Threads : req[s].inv # r.inv
    BY <2>1 DEF Wellfounded
  <2> QED
    BY <2>2, <2>3, <2>4 DEF InvitesAreNew
<1>2. ASSUME NEW t \in Threads, Write(t) PROVE InvitesAreNew'
  <2>1. ASSUME NEW s \in Threads, s # t, req[s].op = "invite"
        PROVE  inv'[req[s].inv].status = "ABSENT"
    <3>1. req[s].inv # req[t].inv /\ inv[req[s].inv].status = "ABSENT"
      BY <2>1 DEF InvitesAreNew
    <3> QED
      BY <1>0, <1>2, <2>1, <3>1, InvitationsAfter
  <2>2. \A s \in Threads : req'[s] = IF s = t THEN Idle ELSE req[s]
    BY <1>2, InvitationsAfter
  <2>3. Idle.op # "invite" /\ Idle.inv = NoOne
    BY DEF Idle
  <2> QED
    BY <1>0, <2>1, <2>2, <2>3 DEF InvitesAreNew
<1>3. CASE RestoreSelected \/ \E i \in Invitations : Expire(i)
  BY <1>3 DEF RestoreSelected, Expire, InvitesAreNew
<1>4. CASE UNCHANGED vars
  BY <1>4 DEF vars, InvitesAreNew
<1> QED
  BY <1>1, <1>2, <1>3, <1>4 DEF Next

\* Whatever races, who answers or revokes an invitation has found one that was
\* sent, and no row disappears.
AnswersAreToSent ==
  \A t \in Threads : req[t].op \in {"accept", "decline", "revoke"} =>
    inv[req[t].inv].status # "ABSENT"

LEMMA SentStep ==
  Sound /\ InvitesAreNew /\ AnswersAreToSent /\ [Next]_vars => AnswersAreToSent'
<1> SUFFICES ASSUME Sound, InvitesAreNew, AnswersAreToSent, [Next]_vars
             PROVE  AnswersAreToSent'
  OBVIOUS
<1>1. ASSUME NEW t \in Threads, Read(t) PROVE AnswersAreToSent'
  <2>1. PICK r : Wellfounded(r) /\ Begin(t, r)
    BY <1>1, ReadBegins DEF Sound
  <2>2. inv' = inv /\ \A s \in Threads : req'[s] = IF s = t THEN r ELSE req[s]
    BY <2>1 DEF Begin, Sound, TypeOK
  <2>3. r.op \in {"accept", "decline", "revoke"} => inv[r.inv].status # "ABSENT"
    BY <2>1 DEF Wellfounded
  <2> QED
    BY <2>2, <2>3 DEF AnswersAreToSent
<1>2. ASSUME NEW t \in Threads, Write(t) PROVE AnswersAreToSent'
  <2>1. \A s \in Threads : req'[s] = IF s = t THEN Idle ELSE req[s]
    BY <1>2, InvitationsAfter
  <2>2. ASSUME NEW s \in Threads, s # t, req[s].op \in {"accept", "decline", "revoke"}
        PROVE  inv'[req[s].inv].status # "ABSENT"
    <3>1. req[s].inv \in Invitations /\ inv[req[s].inv].status # "ABSENT"
      BY <2>2 DEF Sound, RequestsSound, AnswersAreToSent
    <3>2. req[t].op = "invite" => req[s].inv # req[t].inv
      BY <2>2 DEF InvitesAreNew
    <3> QED
      BY <1>2, <3>1, <3>2, InvitationsAfter
  <2>3. Idle.op = "idle"
    BY DEF Idle
  <2> QED
    BY <2>1, <2>2, <2>3 DEF AnswersAreToSent
<1>3. CASE RestoreSelected \/ \E i \in Invitations : Expire(i)
  BY <1>3 DEF RestoreSelected, Expire, AnswersAreToSent
<1>4. CASE UNCHANGED vars
  BY <1>4 DEF vars, AnswersAreToSent
<1> QED
  BY <1>1, <1>2, <1>3, <1>4 DEF Next

\* What a reader of the invitations sees.
Seen == <<[i \in Invitations |-> inv[i].status], [i \in Invitations |-> inv[i].to],
          expired, admitted>>

\* The write of one status is seen as that, and as nothing else.
LEMMA StatusSeen ==
  ASSUME TypeOK, NEW k \in Invitations, NEW s \in InvStatus,
         inv' = [inv EXCEPT ![k].status = s]
  PROVE  /\ [i \in Invitations |-> inv'[i].status]
              = [[i \in Invitations |-> inv[i].status] EXCEPT ![k] = s]
         /\ [i \in Invitations |-> inv'[i].to] = [i \in Invitations |-> inv[i].to]
<1>1. ASSUME NEW i \in Invitations
      PROVE  inv'[i].status = (IF i = k THEN s ELSE inv[i].status) /\ inv'[i].to = inv[i].to
  <2>1. inv[i] \in InvitationRow
    BY DEF TypeOK
  <2>2. /\ [inv[i] EXCEPT !.status = s].status = s
        /\ [inv[i] EXCEPT !.status = s].to = inv[i].to
    BY <2>1 DEF InvitationRow
  <2>3. CASE i = k
    <3>1. inv'[i] = [inv[i] EXCEPT !.status = s]
      BY <2>3 DEF TypeOK
    <3> QED
      BY <2>2, <2>3, <3>1
  <2>4. CASE i # k
    <3>1. inv'[i] = inv[i]
      BY <2>4 DEF TypeOK
    <3> QED
      BY <2>4, <3>1
  <2> QED
    BY <2>3, <2>4
<1> QED
  BY <1>1

\* Every step is one of the lifecycle or is not seen.
LEMMA LifecycleStep ==
  Sound /\ InvitesAreNew /\ AnswersAreToSent /\ [Next]_vars
    => Lifecycle!Next \/ UNCHANGED Seen
<1> SUFFICES ASSUME Sound, InvitesAreNew, AnswersAreToSent, [Next]_vars
             PROVE  Lifecycle!Next \/ UNCHANGED Seen
  OBVIOUS
<1> USE DEF Sound
<1>1. ASSUME NEW t \in Threads, InviteWrite(t)
      PROVE  \E i \in Invitations, u \in Users : Lifecycle!Send(i, u)
  <2>1. PICK k \in Invitations, u \in Users : k = req[t].inv /\ u = req[t].user
    BY <1>1, WhatIsWritten DEF InviteWrite, Ops
  <2>2. inv[k].status = "ABSENT"
    BY <1>1, <2>1 DEF InviteWrite, Ready, InvitesAreNew
  <2>3. UNCHANGED <<expired, admitted>>
    BY <1>1 DEF InviteWrite
  <2>4. ASSUME NEW i \in Invitations
        PROVE  /\ inv'[i].status = IF i = k THEN "PENDING"
                                   ELSE IF inv[i].to = u /\ inv[i].status = "PENDING"
                                        THEN "REVOKED" ELSE inv[i].status
               /\ inv'[i].to = IF i = k THEN u ELSE inv[i].to
    <3>1. inv[i] \in InvitationRow
      BY DEF TypeOK
    <3>2. /\ [inv[i] EXCEPT !.status = "REVOKED"].status = "REVOKED"
          /\ [inv[i] EXCEPT !.status = "REVOKED"].to = inv[i].to
      BY <3>1 DEF InvitationRow
    <3>3. inv'[i] = IF i = k
                    THEN [status |-> "PENDING", to |-> u, by |-> req[t].actor, role |-> req[t].role]
                    ELSE IF inv[i].to = u /\ inv[i].status = "PENDING"
                         THEN [inv[i] EXCEPT !.status = "REVOKED"] ELSE inv[i]
      BY <1>1, <2>1 DEF InviteWrite
    <3> QED
      BY <3>2, <3>3
  <2>5. [i \in Invitations |-> inv'[i].to] = [[i \in Invitations |-> inv[i].to] EXCEPT ![k] = u]
    BY <2>4
  <2>6. [i \in Invitations |-> inv'[i].status] =
          [j \in Invitations |->
             IF j = k THEN "PENDING"
             ELSE IF [i \in Invitations |-> inv[i].to][j] = u
                       /\ [i \in Invitations |-> inv[i].status][j] = "PENDING"
                  THEN "REVOKED" ELSE [i \in Invitations |-> inv[i].status][j]]
    BY <2>4
  <2>7. Lifecycle!Send(k, u)
    BY <2>2, <2>3, <2>5, <2>6 DEF Lifecycle!Send, Lifecycle!Sent
  <2> QED
    BY <2>7
<1>2. ASSUME NEW t \in Threads, AcceptWrite(t)
      PROVE  (\E i \in Invitations, u \in Users : Lifecycle!LetIn(i, u)) \/ UNCHANGED Seen
  <2>1. PICK k \in Invitations, u \in Users : k = req[t].inv /\ u = req[t].user
    BY <1>2, WhatIsWritten DEF AcceptWrite, Ops
  <2>2. inv[k].status # "ABSENT"
    BY <1>2, <2>1 DEF AcceptWrite, Ready, AnswersAreToSent
  <2>3. CASE k \in expired \/ member[u].state = "left"
    BY <1>2, <2>1, <2>3 DEF AcceptWrite, Seen
  <2>4. CASE ~(k \in expired \/ member[u].state = "left")
    <3>1. /\ inv' = [inv EXCEPT ![k].status = "ACCEPTED"]
          /\ admitted' = [admitted EXCEPT ![k] = @ \cup {u}] /\ expired' = expired
      BY <1>2, <2>1, <2>4 DEF AcceptWrite
    <3>2. Lifecycle!LetIn(k, u)
      BY <2>2, <2>4, <3>1, StatusSeen DEF Lifecycle!LetIn, Lifecycle!Sent, InvStatus
    <3> QED
      BY <3>2
  <2> QED
    BY <2>3, <2>4
<1>3. ASSUME NEW t \in Threads, DeclineWrite(t)
      PROVE  (\E i \in Invitations : Lifecycle!Decline(i)) \/ UNCHANGED Seen
  <2>1. PICK k \in Invitations : k = req[t].inv
    BY <1>3, WhatIsWritten DEF DeclineWrite, Ops
  <2>2. inv[k].status # "ABSENT"
    BY <1>3, <2>1 DEF DeclineWrite, Ready, AnswersAreToSent
  <2>3. CASE k \in expired
    BY <1>3, <2>1, <2>3 DEF DeclineWrite, Seen
  <2>4. CASE k \notin expired
    <3>1. inv' = [inv EXCEPT ![k].status = "DECLINED"] /\ UNCHANGED <<expired, admitted>>
      BY <1>3, <2>1, <2>4 DEF DeclineWrite
    <3>2. Lifecycle!Decline(k)
      BY <2>2, <2>4, <3>1, StatusSeen DEF Lifecycle!Decline, Lifecycle!Sent, InvStatus
    <3> QED
      BY <3>2
  <2> QED
    BY <2>3, <2>4
<1>4. ASSUME NEW t \in Threads, RevokeWrite(t)
      PROVE  \E i \in Invitations : Lifecycle!Revoke(i)
  <2>1. PICK k \in Invitations : k = req[t].inv
    BY <1>4, WhatIsWritten DEF RevokeWrite, Ops
  <2>2. inv[k].status # "ABSENT"
    BY <1>4, <2>1 DEF RevokeWrite, Ready, AnswersAreToSent
  <2>3. inv' = [inv EXCEPT ![k].status = "REVOKED"] /\ UNCHANGED <<expired, admitted>>
    BY <1>4, <2>1 DEF RevokeWrite
  <2>4. Lifecycle!Revoke(k)
    BY <2>2, <2>3, StatusSeen DEF Lifecycle!Revoke, Lifecycle!Sent, InvStatus
  <2> QED
    BY <2>4
<1>5. ASSUME NEW i \in Invitations, Expire(i) PROVE Lifecycle!Lapse(i)
  BY <1>5 DEF Expire, Lifecycle!Lapse, Lifecycle!Sent
<1>6. ASSUME NEW t \in Threads, Read(t) PROVE UNCHANGED Seen
  <2>1. UNCHANGED <<inv, expired, admitted>>
    BY <1>6, ReadBegins DEF Begin
  <2> QED
    BY <2>1 DEF Seen
<1>7. ASSUME NEW t \in Threads,
             \/ SetRoleWrite(t) \/ DepartWrite(t) \/ TransferWrite(t)
             \/ UpdateWrite(t) \/ DestroyWrite(t)
      PROVE  UNCHANGED Seen
  BY <1>7 DEF SetRoleWrite, DepartWrite, TransferWrite, UpdateWrite, DestroyWrite, Seen
<1>8. CASE RestoreSelected \/ UNCHANGED vars
  BY <1>8 DEF RestoreSelected, vars, Seen
<1> QED
  BY <1>1, <1>2, <1>3, <1>4, <1>5, <1>6, <1>7, <1>8 DEF Next, Write, Lifecycle!Next

LEMMA LifecycleInvariant == Spec => [](Sound /\ InvitesAreNew /\ AnswersAreToSent)
<1>1. Init => AnswersAreToSent
  BY DEF Init, AnswersAreToSent, Idle
<1> QED
  BY <1>1, SoundInit, SoundStep, NewInit, NewStep, SentStep, PTL DEF Spec

\* Whatever requests race, a reader of the invitations sees only what
\* InvitationLifecycle allows.
THEOREM RefinesLifecycle == Spec => ImplementsLifecycle
<1>1. Init => Lifecycle!Init
  BY DEF Init, Lifecycle!Init
<1>2. Sound /\ InvitesAreNew /\ AnswersAreToSent /\ [Next]_vars
        => [Lifecycle!Next]_(Lifecycle!vars)
  BY LifecycleStep DEF Lifecycle!vars, Seen
<1> QED
  BY <1>1, <1>2, LifecycleInvariant, PTL DEF Spec, ImplementsLifecycle, Lifecycle!Spec

\* Whatever races, an invitation that was accepted, declined or revoked never
\* becomes PENDING again, not even by inviting its address once more: the
\* lifecycle has no such step.
THEOREM ClosedInvitationsStayClosed ==
  Spec => [][\A i \in Invitations :
               inv[i].status \notin {"ABSENT", "PENDING"} => inv'[i].status # "PENDING"]_vars
<1> DEFINE Stay == \A i \in Invitations :
             inv[i].status \notin {"ABSENT", "PENDING"} => inv'[i].status # "PENDING"
<1>1. Lifecycle!Next => Stay
  <2> SUFFICES ASSUME Lifecycle!Next, NEW i \in Invitations,
                      inv[i].status \notin {"ABSENT", "PENDING"}
               PROVE  inv'[i].status # "PENDING"
    OBVIOUS
  <2> DEFINE status == [j \in Invitations |-> inv[j].status]
  <2>1. status'[i] = inv'[i].status /\ status[i] = inv[i].status
    OBVIOUS
  <2>2. PICK k \in Invitations :
          \/ \E u \in Users : Lifecycle!Send(k, u) \/ Lifecycle!LetIn(k, u)
          \/ Lifecycle!Decline(k) \/ Lifecycle!Revoke(k) \/ Lifecycle!Lapse(k)
    BY DEF Lifecycle!Next
  <2>3. CASE \E u \in Users : Lifecycle!Send(k, u)
    BY <2>1, <2>3 DEF Lifecycle!Send, Lifecycle!Sent
  <2>4. CASE \/ \E u \in Users : Lifecycle!LetIn(k, u)
             \/ Lifecycle!Decline(k) \/ Lifecycle!Revoke(k)
    <3>1. PICK s \in {"ACCEPTED", "DECLINED", "REVOKED"} :
            [j \in Invitations |-> inv'[j].status] = [status EXCEPT ![k] = s]
      BY <2>4 DEF Lifecycle!LetIn, Lifecycle!Decline, Lifecycle!Revoke
    <3> QED
      BY <2>1, <3>1
  <2>5. CASE Lifecycle!Lapse(k)
    BY <2>1, <2>5 DEF Lifecycle!Lapse
  <2> QED
    BY <2>2, <2>3, <2>4, <2>5
<1>2. UNCHANGED Seen => Stay
  <2> SUFFICES ASSUME UNCHANGED Seen, NEW i \in Invitations,
                      inv[i].status \notin {"ABSENT", "PENDING"}
               PROVE  inv'[i].status # "PENDING"
    OBVIOUS
  <2>1. [j \in Invitations |-> inv'[j].status] = [j \in Invitations |-> inv[j].status]
    BY DEF Seen
  <2>2. [j \in Invitations |-> inv'[j].status][i] = inv'[i].status
    OBVIOUS
  <2> QED
    BY <2>1, <2>2
<1>3. Sound /\ InvitesAreNew /\ AnswersAreToSent /\ [Next]_vars => [Stay]_vars
  BY <1>1, <1>2, LifecycleStep
<1> QED
  BY <1>3, LifecycleInvariant, PTL DEF Spec

LEMMA AloneInit == Init => AnsweredIsClosed /\ OnePendingPerAddress
BY DEF Init, AnsweredIsClosed, OnePendingPerAddress, Idle

\* A request that starts alone has just looked at its invitation.
LEMMA AloneRead ==
  ASSUME Sound, AnsweredIsClosed, OnePendingPerAddress, NEW t \in Threads, Read(t)
  PROVE  AnsweredIsClosed' /\ OnePendingPerAddress'
<1>1. PICK r : Wellfounded(r) /\ Begin(t, r)
  BY ReadBegins DEF Sound
<1>2. UNCHANGED <<inv, admitted>> /\ (~overlapped' => ~overlapped)
  BY <1>1 DEF Begin
<1>3. \A s \in Threads : req'[s] = IF s = t THEN r ELSE req[s]
  BY <1>1 DEF Begin, Sound, TypeOK
<1>4. r.op \in {"accept", "decline"} => inv[r.inv].status = "PENDING"
  BY <1>1 DEF Wellfounded
<1> QED
  BY <1>2, <1>3, <1>4 DEF AnsweredIsClosed, OnePendingPerAddress

\* When the only request in flight writes, it finds what it has read.
LEMMA AloneWrite ==
  ASSUME Sound, ReadsStillHold, InvitesAreNew, AnsweredIsClosed, OnePendingPerAddress,
         NEW t \in Threads, Write(t), ~overlapped
  PROVE  AnsweredIsClosed' /\ OnePendingPerAddress'
<1> USE DEF Sound, TypeOK
<1>1. \A s \in Threads : req'[s] = Idle
  <2>1. Busy(t) /\ \A s \in Threads : req'[s] = IF s = t THEN Idle ELSE req[s]
    BY InvitationsAfter DEF Ready, Busy, Idle, Ops
  <2> QED
    BY <2>1 DEF ReadsStillHold, Busy
<1>2. \A i \in Invitations : /\ admitted[i] = {} \/ \E u \in Users : admitted[i] = {u}
                             /\ admitted[i] # {} => inv[i].status \in {"ACCEPTED", "REVOKED"}
  BY DEF AnsweredIsClosed
<1>3. \A i, j \in Invitations :
        inv[i].status = "PENDING" /\ inv[j].status = "PENDING" /\ inv[i].to = inv[j].to => i = j
  BY DEF OnePendingPerAddress
\* It is enough to look at the two tables.
<1>4. ASSUME \A i \in Invitations :
               /\ admitted'[i] = {} \/ \E u \in Users : admitted'[i] = {u}
               /\ admitted'[i] # {} => inv'[i].status \in {"ACCEPTED", "REVOKED"},
             \A i, j \in Invitations :
               inv'[i].status = "PENDING" /\ inv'[j].status = "PENDING"
                 /\ inv'[i].to = inv'[j].to => i = j
      PROVE  AnsweredIsClosed' /\ OnePendingPerAddress'
  BY <1>1, <1>4 DEF AnsweredIsClosed, OnePendingPerAddress, Idle
<1>5. \A i \in Invitations, status \in InvStatus :
        /\ [inv[i] EXCEPT !.status = status].status = status
        /\ [inv[i] EXCEPT !.status = status].to = inv[i].to
  BY DEF InvitationRow
<1>6. CASE InviteWrite(t)
  <2>1. PICK k \in Invitations : k = req[t].inv
    BY <1>6, WhatIsWritten DEF InviteWrite, Ops
  <2>2. inv[k].status = "ABSENT" /\ admitted' = admitted /\ admitted[k] = {}
    BY <1>2, <1>6, <2>1 DEF InviteWrite, Ready, InvitesAreNew
  <2>3. /\ inv'[k].to = req[t].user
        /\ \A i \in Invitations : i # k =>
             \/ inv'[i] = inv[i] /\ ~(inv[i].to = req[t].user /\ inv[i].status = "PENDING")
             \/ inv'[i].status = "REVOKED"
    BY <1>5, <1>6, <2>1 DEF InviteWrite, InvStatus
  <2>4. \A i \in Invitations :
          /\ admitted'[i] = {} \/ \E u \in Users : admitted'[i] = {u}
          /\ admitted'[i] # {} => inv'[i].status \in {"ACCEPTED", "REVOKED"}
    BY <1>2, <2>2, <2>3
  <2>5. \A i, j \in Invitations :
          inv'[i].status = "PENDING" /\ inv'[j].status = "PENDING"
            /\ inv'[i].to = inv'[j].to => i = j
    BY <1>3, <2>3
  <2> QED
    BY <1>4, <2>4, <2>5
\* What closes one invitation only.
<1>7. ASSUME NEW k \in Invitations, NEW status \in {"ACCEPTED", "DECLINED", "REVOKED"},
             inv' = [inv EXCEPT ![k].status = status],
             \/ admitted' = admitted /\ (status = "DECLINED" => admitted[k] = {})
             \/ /\ status = "ACCEPTED" /\ admitted[k] = {}
                /\ \E u \in Users : admitted' = [admitted EXCEPT ![k] = admitted[k] \cup {u}],
             admitted' = admitted => status # "ACCEPTED"
      PROVE  AnsweredIsClosed' /\ OnePendingPerAddress'
  <2>1. /\ inv'[k].status = status
        /\ \A i \in Invitations : i # k => inv'[i] = inv[i]
    BY <1>5, <1>7 DEF InvStatus
  <2>2. ASSUME NEW i \in Invitations
        PROVE  /\ admitted'[i] = {} \/ \E u \in Users : admitted'[i] = {u}
               /\ admitted'[i] # {} => inv'[i].status \in {"ACCEPTED", "REVOKED"}
    <3>1. CASE admitted' = admitted
      BY <1>2, <1>7, <2>1, <3>1
    <3>2. CASE /\ status = "ACCEPTED" /\ admitted[k] = {}
               /\ \E u \in Users : admitted' = [admitted EXCEPT ![k] = admitted[k] \cup {u}]
      <4>1. PICK u \in Users : admitted' = [admitted EXCEPT ![k] = admitted[k] \cup {u}]
        BY <3>2
      <4>2. admitted'[i] = IF i = k THEN {u} ELSE admitted[i]
        BY <3>2, <4>1
      <4> QED
        BY <1>2, <2>1, <3>2, <4>2
    <3> QED
      BY <1>7, <3>1, <3>2
  <2>3. \A i, j \in Invitations :
          inv'[i].status = "PENDING" /\ inv'[j].status = "PENDING"
            /\ inv'[i].to = inv'[j].to => i = j
    BY <1>3, <2>1
  <2> QED
    BY <1>4, <2>2, <2>3
<1>8. CASE UNCHANGED <<inv, admitted>>
  BY <1>2, <1>3, <1>4, <1>8
<1>9. CASE AcceptWrite(t)
  <2>1. /\ req[t].inv \in Invitations /\ req[t].user \in Users
        /\ req[t].op = "accept" /\ inv[req[t].inv].status = "PENDING"
    BY <1>9, WhatIsWritten DEF AcceptWrite, Ready, AnsweredIsClosed, Ops
  <2>2. admitted[req[t].inv] = {}
    BY <1>2, <2>1
  <2>3. \/ UNCHANGED <<inv, admitted>>
        \/ /\ inv' = [inv EXCEPT ![req[t].inv].status = "ACCEPTED"]
           /\ admitted' = [admitted EXCEPT ![req[t].inv] =
                             admitted[req[t].inv] \cup {req[t].user}]
    BY <1>9 DEF AcceptWrite
  <2>4. admitted' # admitted \/ UNCHANGED <<inv, admitted>>
    <3>1. CASE admitted' = [admitted EXCEPT ![req[t].inv] =
                              admitted[req[t].inv] \cup {req[t].user}]
      <4>1. admitted'[req[t].inv] = {req[t].user}
        BY <2>1, <2>2, <3>1
      <4> QED
        BY <2>2, <4>1
    <3> QED
      BY <2>3, <3>1
  <2> QED
    BY <1>7, <1>8, <2>1, <2>2, <2>3, <2>4
<1>10. CASE DeclineWrite(t)
  <2>1. /\ req[t].inv \in Invitations /\ inv[req[t].inv].status = "PENDING"
    BY <1>10, WhatIsWritten DEF DeclineWrite, Ready, AnsweredIsClosed, Ops
  <2>2. admitted[req[t].inv] = {} /\ admitted' = admitted
    BY <1>2, <1>10, <2>1 DEF DeclineWrite
  <2>3. inv' = inv \/ inv' = [inv EXCEPT ![req[t].inv].status = "DECLINED"]
    BY <1>10 DEF DeclineWrite
  <2> QED
    BY <1>7, <1>8, <2>1, <2>2, <2>3
<1>11. CASE RevokeWrite(t)
  <2>1. req[t].inv \in Invitations
    BY <1>11, WhatIsWritten DEF RevokeWrite, Ops
  <2> QED
    BY <1>7, <1>11, <2>1 DEF RevokeWrite
<1>12. CASE \/ SetRoleWrite(t) \/ DepartWrite(t) \/ TransferWrite(t)
            \/ UpdateWrite(t) \/ DestroyWrite(t)
  BY <1>8, <1>12 DEF SetRoleWrite, DepartWrite, TransferWrite, UpdateWrite, DestroyWrite
<1> QED
  BY <1>6, <1>9, <1>10, <1>11, <1>12 DEF Write

LEMMA AloneStep ==
  Sound /\ ReadsStillHold /\ InvitesAreNew /\ AnsweredIsClosed /\ OnePendingPerAddress
        /\ [Next]_vars
    => AnsweredIsClosed' /\ OnePendingPerAddress'
<1> SUFFICES ASSUME Sound, ReadsStillHold, InvitesAreNew, AnsweredIsClosed,
                    OnePendingPerAddress, [Next]_vars
             PROVE  AnsweredIsClosed' /\ OnePendingPerAddress'
  OBVIOUS
<1>1. ASSUME NEW t \in Threads, Write(t), overlapped
      PROVE  AnsweredIsClosed' /\ OnePendingPerAddress'
  BY <1>1, InvitationsAfter DEF AnsweredIsClosed, OnePendingPerAddress
<1>2. CASE RestoreSelected \/ \E i \in Invitations : Expire(i)
  BY <1>2 DEF RestoreSelected, Expire, AnsweredIsClosed, OnePendingPerAddress
<1>3. CASE UNCHANGED vars
  BY <1>3 DEF vars, AnsweredIsClosed, OnePendingPerAddress
<1> QED
  BY <1>1, <1>2, <1>3, AloneRead, AloneWrite DEF Next

\* The invariant of the fourth layer.
LEMMA AnswersInvariant == Spec => [](AnsweredIsClosed /\ OnePendingPerAddress)
<1> DEFINE Inv == /\ Sound /\ ReadsStillHold /\ OneOwner /\ InvitesAreNew
                  /\ AnsweredIsClosed /\ OnePendingPerAddress
<1>1. Init => Inv
  BY SoundInit, SerialInit, NewInit, AloneInit
<1>2. Inv /\ [Next]_vars => Inv'
  BY SoundStep, SerialStep, NewStep, AloneStep
<1>3. Inv => AnsweredIsClosed /\ OnePendingPerAddress
  OBVIOUS
<1> QED
  BY <1>1, <1>2, <1>3, PTL DEF Spec

\* As long as no two requests have overlapped, an invitation lets in at most
\* one user, and is closed by it.
THEOREM InvitationsAreSingleUse == Spec => []SingleUse
<1>1. AnsweredIsClosed => SingleUse
  <2> SUFFICES ASSUME AnsweredIsClosed, ~overlapped, NEW i \in Invitations
               PROVE  /\ Cardinality(admitted[i]) <= 1
                      /\ admitted[i] # {} => inv[i].status \in {"ACCEPTED", "REVOKED"}
    BY DEF SingleUse
  <2>1. admitted[i] = {} \/ \E u \in Users : admitted[i] = {u}
    BY DEF AnsweredIsClosed
  <2>2. Cardinality(admitted[i]) <= 1
    <3>1. Cardinality({}) = 0
      BY FS_EmptySet
    <3>2. \A u \in Users : Cardinality({u}) = 1
      BY FS_Singleton
    <3> QED
      BY <2>1, <3>1, <3>2
  <2> QED
    BY <2>2 DEF AnsweredIsClosed
<1> QED
  BY <1>1, AnswersInvariant, PTL

\* As long as no two requests have overlapped, inviting an address again
\* replaces its earlier invitation.
THEOREM OneInvitationPerAddress == Spec => []OnePendingPerAddress
BY AnswersInvariant, PTL
=============================================================================
