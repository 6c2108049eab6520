---------------------------- MODULE APIKeysProofs ----------------------------
(***************************************************************************)
(* Proofs about APIKeys for any keys, users, policies, members of the      *)
(* staff and requests: replaced secrets and deleted keys stay refused,     *)
(* scopes that stay attached bind, and a request that nothing disturbs     *)
(* gets the answer the policies give.                                      *)
(***************************************************************************)
EXTENDS APIKeys, TLAPS

\* A secret of key k: the one its row has, or a copy an edit has read.
Holds(k, secret) ==
  \/ secret = key[k].secret
  \/ \E s \in Staff : staff[s].stage = "edit" /\ staff[s].key = k /\ staff[s].secret = secret

\* Nothing works on a key before it has a secret.
WorkHasSecret ==
  /\ \A s \in Staff : staff[s] # Idle => key[staff[s].key].secret # 0
  /\ \A s \in Staff : staff[s].stage = "edit" => staff[s].secret # 0
  /\ \A k \in Keys : key[k].live => key[k].secret # 0
  /\ \A t \in Requests : request[t] # Idle => key[request[t].key].secret # 0

\* Every secret was generated, belongs to one key, and is not held by any
\* once it is dead.
SecretsApart ==
  /\ 0 \notin known
  /\ \A secret \in dead \cup known : secret <= secrets
  /\ \A k \in Keys, secret \in Secret \ {0} :
       Holds(k, secret) =>
         /\ secret <= secrets /\ secret \notin dead
         /\ \A j \in Keys \ {k} : ~Holds(j, secret)

\* No edit can bring a revoked key back.
RevokedIsGone == \A k \in revoked : key[k].secret # 0 /\ ~key[k].live /\ ~Claimed(k)

\* Thread s is creating key k.
Creates(s, k) == /\ staff[s].stage \in {"createRoles", "createPermissions"}
                 /\ staff[s].key = k

\* The scopes a key was created with are attached when it is returned, and
\* nobody knows it before.
WantedIsSet ==
  /\ \A k \in Keys, s, u \in Staff : Creates(s, k) /\ Creates(u, k) => s = u
  /\ \A k \in Keys : wanted[k] \subseteq attached[k] \/ \E s \in Staff : Creates(s, k)
  /\ \A k \in Keys, s \in Staff :
       Creates(s, k) /\ wanted[k] # {} =>
         /\ wanted[k] = staff[s].scope
         /\ staff[s].stage = "createPermissions" => wanted[k] \cap Roles \subseteq attached[k]
         /\ \A secret \in known : ~Holds(k, secret)
         /\ \A t \in Requests : request[t] # Idle => request[t].key # k

\* What a request that has come this far has seen of the part q.solid of the
\* scope.
Seen(q) ==
  /\ q.stage \in {"manageRoles", "scopeRoles"} =>
       q.solid \cap Permissions = {}
  /\ q.manages /\ q.stage \in {"keyPermissions", "scopePermissions", "scopeRoles",
                               "userPermissions", "allowed"} =>
       q.solid = {}
  /\ q.stage \in {"userPermissions", "allowed"} =>
       q.solid = {} \/ q.decision = "allow"

SolidIsAttached ==
  \A t \in Requests :
    request[t] # Idle => /\ request[t].solid \subseteq attached[request[t].key]
                         /\ Seen(request[t])

IInv == /\ TypeOK /\ WorkHasSecret /\ SecretsApart /\ RevokedIsGone
        /\ WantedIsSet /\ SolidIsAttached

-----------------------------------------------------------------------------
(* Types *)

LEMMA PolicyColumns ==
  ASSUME NEW r \in Policy
  PROVE  /\ \A S \in SUBSET (Roles \X Permissions) :
              /\ [r EXCEPT !["rolePerms"] = @ \cup S] \in Policy
              /\ [r EXCEPT !["rolePerms"] = @ \ S] \in Policy
         /\ \A S \in SUBSET (Roles \X Users) :
              /\ [r EXCEPT !["roleUsers"] = @ \cup S] \in Policy
              /\ [r EXCEPT !["roleUsers"] = @ \ S] \in Policy
         /\ \A S \in SUBSET (Groups \X Roles) :
              /\ [r EXCEPT !["groupRoles"] = @ \cup S] \in Policy
              /\ [r EXCEPT !["groupRoles"] = @ \ S] \in Policy
         /\ \A S \in SUBSET (Groups \X Users) :
              /\ [r EXCEPT !["members"] = @ \cup S] \in Policy
              /\ [r EXCEPT !["members"] = @ \ S] \in Policy
         /\ \A S \in SUBSET (Permissions \X Users) :
              /\ [r EXCEPT !["direct"] = @ \cup S] \in Policy
              /\ [r EXCEPT !["direct"] = @ \ S] \in Policy
  BY DEF Policy

\* One call of Attach or Detach, table by table.
LEMMA TableStep ==
  ASSUME PolicyTypeOK
  PROVE  /\ \A S \in SUBSET (Roles \X Permissions) :
              Attach("rolePerms", S) \/ Detach("rolePerms", S) => PolicyTypeOK'
         /\ \A S \in SUBSET (Roles \X Users) :
              Attach("roleUsers", S) \/ Detach("roleUsers", S) => PolicyTypeOK'
         /\ \A S \in SUBSET (Groups \X Roles) :
              Attach("groupRoles", S) \/ Detach("groupRoles", S) => PolicyTypeOK'
         /\ \A S \in SUBSET (Groups \X Users) :
              Attach("members", S) \/ Detach("members", S) => PolicyTypeOK'
         /\ \A S \in SUBSET (Permissions \X Users) :
              Attach("direct", S) \/ Detach("direct", S) => PolicyTypeOK'
<1>0. PICK r \in Policy : r = policy
  BY DEF PolicyTypeOK
<1>1. ASSUME NEW S \in SUBSET (Roles \X Permissions),
             Attach("rolePerms", S) \/ Detach("rolePerms", S)
      PROVE  PolicyTypeOK'
  <2>1. policy' \in {[r EXCEPT !["rolePerms"] = @ \cup S], [r EXCEPT !["rolePerms"] = @ \ S]}
    BY <1>0, <1>1 DEF Attach, Detach
  <2>2. policy' \in Policy
    BY <2>1, PolicyColumns
  <2> QED
    BY <1>1, <2>2 DEF Attach, Detach, PolicyTypeOK
<1>2. ASSUME NEW S \in SUBSET (Roles \X Users),
             Attach("roleUsers", S) \/ Detach("roleUsers", S)
      PROVE  PolicyTypeOK'
  <2>1. policy' \in {[r EXCEPT !["roleUsers"] = @ \cup S], [r EXCEPT !["roleUsers"] = @ \ S]}
    BY <1>0, <1>2 DEF Attach, Detach
  <2>2. policy' \in Policy
    BY <2>1, PolicyColumns
  <2> QED
    BY <1>2, <2>2 DEF Attach, Detach, PolicyTypeOK
<1>3. ASSUME NEW S \in SUBSET (Groups \X Roles),
             Attach("groupRoles", S) \/ Detach("groupRoles", S)
      PROVE  PolicyTypeOK'
  <2>1. policy' \in {[r EXCEPT !["groupRoles"] = @ \cup S], [r EXCEPT !["groupRoles"] = @ \ S]}
    BY <1>0, <1>3 DEF Attach, Detach
  <2>2. policy' \in Policy
    BY <2>1, PolicyColumns
  <2> QED
    BY <1>3, <2>2 DEF Attach, Detach, PolicyTypeOK
<1>4. ASSUME NEW S \in SUBSET (Groups \X Users),
             Attach("members", S) \/ Detach("members", S)
      PROVE  PolicyTypeOK'
  <2>1. policy' \in {[r EXCEPT !["members"] = @ \cup S], [r EXCEPT !["members"] = @ \ S]}
    BY <1>0, <1>4 DEF Attach, Detach
  <2>2. policy' \in Policy
    BY <2>1, PolicyColumns
  <2> QED
    BY <1>4, <2>2 DEF Attach, Detach, PolicyTypeOK
<1>5. ASSUME NEW S \in SUBSET (Permissions \X Users),
             Attach("direct", S) \/ Detach("direct", S)
      PROVE  PolicyTypeOK'
  <2>1. policy' \in {[r EXCEPT !["direct"] = @ \cup S], [r EXCEPT !["direct"] = @ \ S]}
    BY <1>0, <1>5 DEF Attach, Detach
  <2>2. policy' \in Policy
    BY <2>1, PolicyColumns
  <2> QED
    BY <1>5, <2>2 DEF Attach, Detach, PolicyTypeOK
<1> QED
  BY <1>1, <1>2, <1>3, <1>4, <1>5

LEMMA PolicyStep == PolicyTypeOK /\ PolicyChange => PolicyTypeOK'
<1> SUFFICES ASSUME PolicyTypeOK, PolicyChange PROVE PolicyTypeOK'
  OBVIOUS
<1>0. PICK r \in Policy : r = policy
  BY DEF PolicyTypeOK
<1>1. ASSUME NEW g \in Living(Roles), AttachPermissions(g) \/ DetachPermissions(g)
             \/ AssignUsers(g) \/ RemoveUsers(g)
      PROVE  PolicyTypeOK'
  <2>1. AttachPermissions(g) => PolicyTypeOK'
    BY TableStep DEF AttachPermissions, Living, LivingUsers
  <2>2. DetachPermissions(g) => PolicyTypeOK'
    BY TableStep DEF DetachPermissions, Living, LivingUsers
  <2>3. AssignUsers(g) => PolicyTypeOK'
    BY TableStep DEF AssignUsers, Living, LivingUsers
  <2>4. RemoveUsers(g) => PolicyTypeOK'
    BY TableStep DEF RemoveUsers, Living, LivingUsers
  <2> QED
    BY <1>1, <2>1, <2>2, <2>3, <2>4
<1>2. ASSUME NEW g \in Living(Groups), AddMembers(g) \/ RemoveMembers(g)
             \/ AttachGroupRoles(g) \/ DetachGroupRoles(g)
      PROVE  PolicyTypeOK'
  <2>1. AddMembers(g) => PolicyTypeOK'
    BY TableStep DEF AddMembers, Living, LivingUsers
  <2>2. RemoveMembers(g) => PolicyTypeOK'
    BY TableStep DEF RemoveMembers, Living, LivingUsers
  <2>3. AttachGroupRoles(g) => PolicyTypeOK'
    BY TableStep DEF AttachGroupRoles, Living, LivingUsers
  <2>4. DetachGroupRoles(g) => PolicyTypeOK'
    BY TableStep DEF DetachGroupRoles, Living, LivingUsers
  <2> QED
    BY <1>2, <2>1, <2>2, <2>3, <2>4
<1>3. ASSUME NEW g \in Living(Groups), SetGroupPermissions(g) PROVE PolicyTypeOK'
  <2>1. PICK S \in SUBSET Living(Permissions) :
          policy' = [r EXCEPT !.groupPerms =
                       (@ \ ({g} \X Living(Permissions))) \cup ({g} \X S)]
    BY <1>0, <1>3 DEF SetGroupPermissions
  <2>2. policy' \in Policy
    BY <2>1 DEF Policy, Living
  <2> QED
    BY <1>3, <2>2 DEF SetGroupPermissions, PolicyTypeOK
<1>4. ASSUME NEW u \in LivingUsers, AttachRoles(u) \/ DetachRoles(u)
             \/ AttachUserPermissions(u) \/ DetachUserPermissions(u)
      PROVE  PolicyTypeOK'
  <2>1. AttachRoles(u) => PolicyTypeOK'
    BY TableStep DEF AttachRoles, Living, LivingUsers
  <2>2. DetachRoles(u) => PolicyTypeOK'
    BY TableStep DEF DetachRoles, Living, LivingUsers
  <2>3. AttachUserPermissions(u) => PolicyTypeOK'
    BY TableStep DEF AttachUserPermissions, Living, LivingUsers
  <2>4. DetachUserPermissions(u) => PolicyTypeOK'
    BY TableStep DEF DetachUserPermissions, Living, LivingUsers
  <2> QED
    BY <1>4, <2>1, <2>2, <2>3, <2>4
<1>5. ASSUME NEW x \in Item, EditRead(x) PROVE PolicyTypeOK'
  BY <1>5 DEF EditRead, PolicyTypeOK
<1>6. ASSUME NEW x \in Item, EditSave(x) PROVE PolicyTypeOK'
  <2>1. PICK e \in Effect, c \in {{}, {x}} :
          policy' = [r EXCEPT
            !.living = @ \cup {x},
            !.effect = [p \in Permissions |-> IF p = x THEN e ELSE @[p]],
            !.covers = (@ \ {x}) \cup (c \cap Permissions)]
    BY <1>0, <1>6 DEF EditSave
  <2>2. policy' \in Policy
    BY <1>6, <2>1 DEF Policy
  <2> QED
    BY <1>6, <2>2 DEF EditSave, PolicyTypeOK
<1>7. ASSUME NEW x \in Item, DeleteItem(x) \/ RestoreItem(x) PROVE PolicyTypeOK'
  <2>1. policy' \in {[r EXCEPT !.living = @ \ {x}], [r EXCEPT !.living = @ \cup {x}]}
    BY <1>0, <1>7 DEF DeleteItem, RestoreItem
  <2>2. policy' \in Policy
    BY <1>7, <2>1 DEF Policy
  <2> QED
    BY <1>7, <2>2 DEF DeleteItem, RestoreItem, PolicyTypeOK
<1>8. ASSUME NEW u \in Users, ChangeUser(u) PROVE PolicyTypeOK'
  BY <1>8 DEF ChangeUser, PolicyTypeOK
<1> QED
  BY <1>1, <1>2, <1>3, <1>4, <1>5, <1>6, <1>7, <1>8 DEF PolicyChange

\* The rows of keys and the records of those at work on them.
LEMMA RowColumns ==
  ASSUME NEW r \in Row, NEW b \in BOOLEAN, NEW n \in Secret
  PROVE  /\ [r EXCEPT !.live = b] \in Row /\ [r EXCEPT !.expired = b] \in Row
         /\ [r EXCEPT !.secret = n] \in Row
         /\ r.secret \in Secret /\ r.active \in BOOLEAN /\ r.live \in BOOLEAN
         /\ r.expired \in BOOLEAN
         /\ [r EXCEPT !.live = b].secret = r.secret
         /\ [r EXCEPT !.live = b].live = b
         /\ [r EXCEPT !.expired = b].secret = r.secret
         /\ [r EXCEPT !.expired = b].live = r.live
         /\ [r EXCEPT !.secret = n].secret = n
         /\ [r EXCEPT !.secret = n].live = r.live
  BY DEF Row

Stages == {"usage", "managePermissions", "manageRoles", "keyPermissions",
           "scopePermissions", "scopeRoles", "userPermissions", "allowed", "denied"}

LEMMA AskingColumns ==
  ASSUME NEW q \in Asking, NEW stage \in Stages, NEW d \in {"allow", "deny", "none"},
         NEW S \in Scope
  PROVE  /\ q # Idle
         /\ [q EXCEPT !.stage = stage] \in Asking
         /\ [q EXCEPT !.stage = stage, !.decision = d] \in Asking
         /\ [q EXCEPT !.calm = FALSE] \in Asking
         /\ [q EXCEPT !.calm = FALSE, !.solid = S] \in Asking
         /\ q.stage \in Stages /\ q.key \in Keys /\ q.solid \in Scope
         /\ q.secret \in Secret
<1>1. q.stage \in Stages /\ q.key \in Keys /\ q.solid \in Scope /\ q.secret \in Secret
  BY DEF Asking, Stages
<1>2. Idle.stage = "idle"
  BY DEF Idle
<1>3. q # Idle
  BY <1>1, <1>2 DEF Stages
<1>4. /\ [q EXCEPT !.stage = stage] \in Asking
      /\ [q EXCEPT !.stage = stage, !.decision = d] \in Asking
      /\ [q EXCEPT !.calm = FALSE] \in Asking
      /\ [q EXCEPT !.calm = FALSE, !.solid = S] \in Asking
  BY DEF Asking, Stages
<1> QED
  BY <1>1, <1>3, <1>4

LEMMA StaffRecord ==
  ASSUME NEW a \in StaffStage
  PROVE  /\ a # Idle => a.key \in Keys
         /\ a.stage \in {"createRoles", "createPermissions", "setRoles", "setPermissions"} =>
              /\ a.key \in Keys /\ a.scope \in Scope
              /\ a = [stage |-> a.stage, key |-> a.key, scope |-> a.scope]
         /\ a.stage = "edit" =>
              /\ a.key \in Keys /\ a.secret \in Secret /\ a.active \in BOOLEAN
              /\ a = [stage |-> "edit", key |-> a.key, secret |-> a.secret,
                      active |-> a.active]
         /\ (a.stage = "idle") <=> (a = Idle)
  BY DEF StaffStage, Idle

LEMMA StaffDoTyped ==
  ASSUME TypeOK, NEW s \in Staff, NEW stage \in StaffStage, StaffDo(s, stage)
  PROVE  /\ staff' \in [Staff -> StaffStage]
         /\ \A u \in Staff : staff'[u] = IF u = s THEN stage ELSE staff[u]
  BY DEF TypeOK, StaffDo

LEMMA RowWritten ==
  ASSUME TypeOK, NEW k \in Keys, NEW r \in Row, key' = [key EXCEPT ![k] = r]
  PROVE  /\ key' \in [Keys -> Row]
         /\ \A j \in Keys : key'[j] = IF j = k THEN r ELSE key[j]
  BY DEF TypeOK

LEMMA ChangeTyped ==
  ASSUME TypeOK, NEW k \in Keys, NEW kept, Change(k, kept)
  PROVE  /\ request' \in [Requests -> Asking \cup {Idle}]
         /\ \A t \in Requests :
              /\ request[t] = Idle => request'[t] = Idle
              /\ request[t] # Idle =>
                   /\ ~request'[t].calm
                   /\ request'[t].stage = request[t].stage
                   /\ request'[t].key = request[t].key
                   /\ request'[t].manages = request[t].manages
                   /\ request'[t].decision = request[t].decision
                   /\ request'[t].solid = IF request[t].key = k
                                          THEN request[t].solid \cap kept
                                          ELSE request[t].solid
<1> DEFINE new(q) == [q EXCEPT !.calm = FALSE,
                               !.solid = IF q.key = k THEN @ \cap kept ELSE @]
<1>1. ASSUME NEW q \in Asking
      PROVE  /\ new(q) \in Asking
             /\ new(q).stage = q.stage /\ new(q).key = q.key /\ new(q).manages = q.manages
             /\ new(q).decision = q.decision /\ ~new(q).calm
             /\ new(q).solid = IF q.key = k THEN q.solid \cap kept ELSE q.solid
  BY DEF Asking, Scope
<1>2. \A t \in Requests : request[t] \in Asking \cup {Idle}
  BY DEF TypeOK
<1>3. request' = [t \in Requests |-> IF request[t] = Idle THEN Idle ELSE new(request[t])]
  BY DEF Change
<1> HIDE DEF new
<1> QED
  BY <1>1, <1>2, <1>3

LEMMA SavedRow ==
  ASSUME TypeOK, NEW s \in Staff, staff[s].stage = "edit", NEW live \in BOOLEAN,
         Saved(staff[s], live)
  PROVE  \E r \in Row : /\ key' = [key EXCEPT ![staff[s].key] = r]
                        /\ r.secret = staff[s].secret /\ r.live = live
<1>1. staff[s].key \in Keys /\ staff[s].secret \in Secret /\ staff[s].active \in BOOLEAN
  BY StaffRecord DEF TypeOK
<1>2. key[staff[s].key] \in Row
  BY <1>1 DEF TypeOK
<1>3. PICK active \in {staff[s].active, ~key[staff[s].key].active},
           expired \in {FALSE, key[staff[s].key].expired} :
        key' = [key EXCEPT ![staff[s].key] =
                  [secret |-> staff[s].secret, active |-> active,
                   live |-> live, expired |-> expired]]
  BY DEF Saved
<1>4. active \in BOOLEAN /\ expired \in BOOLEAN
  BY <1>1, <1>2, <1>3, RowColumns
<1> DEFINE r == [secret |-> staff[s].secret, active |-> active,
                 live |-> live, expired |-> expired]
<1>5. r \in Row /\ r.secret = staff[s].secret /\ r.live = live
  BY <1>1, <1>4 DEF Row
<1> QED
  BY <1>3, <1>5

LEMMA ScopeColumns ==
  ASSUME TypeOK, NEW k \in Keys, NEW S \in Scope
  PROVE  /\ [wanted EXCEPT ![k] = S] \in [Keys -> Scope]
         /\ \A j \in Keys : [wanted EXCEPT ![k] = S][j] = IF j = k THEN S ELSE wanted[j]
         /\ S \cap Roles \in Scope /\ S \cap Permissions \in Scope
         /\ \A kind : SetTo(k, kind, S) \in Scope
         /\ SetTo(k, Roles, S \cap Roles) \in Scope
         /\ SetTo(k, Permissions, S \cap Permissions) \in Scope
  BY DEF TypeOK, SetTo, Scope

LEMMA AttachedWritten ==
  ASSUME TypeOK, NEW k \in Keys, NEW S \in Scope, attached' = [attached EXCEPT ![k] = S]
  PROVE  /\ attached' \in [Keys -> Scope]
         /\ \A j \in Keys : attached'[j] = IF j = k THEN S ELSE attached[j]
  BY DEF TypeOK

LEMMA StaffType ==
  ASSUME TypeOK, NEW s \in Staff,
         \/ \E k \in Keys : Create(s, k) \/ EditKey(s, k)
         \/ CreateRoles(s) \/ CreatePermissions(s) \/ Fail(s) \/ PatchSave(s)
         \/ PatchRoles(s) \/ PatchPermissions(s) \/ AdminSave(s),
         UNCHANGED policyVars
  PROVE  TypeOK'
<1> USE ConstantsAssumption
<1>0. /\ PolicyTypeOK' /\ staff[s] \in StaffStage /\ {} \in Scope /\ Idle \in StaffStage
      /\ \A S \in SUBSET Living(Roles \cup Permissions) : S \in Scope
  BY DEF TypeOK, PolicyTypeOK, policyVars, Scope, StaffStage, Living
<1>1. ASSUME NEW k \in Keys, Create(s, k) PROVE TypeOK'
  <2>1. secrets + 1 \in Secret /\ changes' \in 0..MaxChanges /\ secrets' \in Secret
    BY <1>1 DEF Create, Counted, TypeOK, Secret
  <2>2. [secret |-> secrets + 1, active |-> TRUE, live |-> TRUE, expired |-> FALSE] \in Row
    BY <2>1 DEF Row
  <2>3. key' \in [Keys -> Row]
    BY <1>1, <2>2, RowWritten DEF Create
  <2>4. PICK S \in Scope : /\ wanted' = [wanted EXCEPT ![k] = S]
                           /\ StaffDo(s, [stage |-> "createRoles", key |-> k, scope |-> S])
    BY <1>0, <1>1 DEF Create
  <2>5. [stage |-> "createRoles", key |-> k, scope |-> S] \in StaffStage
    BY <1>0 DEF StaffStage
  <2> QED
    BY <1>0, <1>1, <2>1, <2>3, <2>4, <2>5, StaffDoTyped, ScopeColumns, ChangeTyped
    DEF Create, TypeOK
<1>2. ASSUME NEW k \in Keys, EditKey(s, k) PROVE TypeOK'
  <2>1. key[k].secret \in Secret /\ key[k].active \in BOOLEAN
    BY RowColumns DEF TypeOK
  <2>2. [stage |-> "edit", key |-> k, secret |-> key[k].secret, active |-> key[k].active]
          \in StaffStage
    BY <2>1 DEF StaffStage
  <2> QED
    BY <1>0, <1>2, <2>2, StaffDoTyped DEF EditKey, Counted, TypeOK
<1>3. CASE CreateRoles(s)
  <2>1. staff[s].key \in Keys /\ staff[s].scope \in Scope
    BY <1>0, <1>3, StaffRecord DEF CreateRoles
  <2>2. [staff[s] EXCEPT !.stage = "createPermissions"] \in StaffStage
    BY <1>0, <1>3, <2>1, StaffRecord DEF CreateRoles, StaffStage
  <2>3. attached' \in [Keys -> Scope]
    <3>1. SetTo(staff[s].key, Roles, staff[s].scope \cap Roles) \in Scope
      BY <2>1, ScopeColumns
    <3>2. attached[staff[s].key] \in Scope
      BY <2>1 DEF TypeOK
    <3>3. PICK S \in Scope : attached' = [attached EXCEPT ![staff[s].key] = S]
      BY <1>3, <2>1, <3>1, <3>2 DEF CreateRoles, TypeOK
    <3> QED
      BY <2>1, <3>3, AttachedWritten
  <2> QED
    BY <1>0, <1>3, <2>1, <2>2, <2>3, StaffDoTyped, ChangeTyped DEF CreateRoles, TypeOK
<1>4. CASE CreatePermissions(s)
  <2>1. staff[s].key \in Keys /\ staff[s].scope \in Scope
    BY <1>0, <1>4, StaffRecord DEF CreatePermissions
  <2>2. key[staff[s].key].secret \in Secret
    BY <2>1, RowColumns DEF TypeOK
  <2>3. attached' \in [Keys -> Scope]
    <3>1. SetTo(staff[s].key, Permissions, staff[s].scope \cap Permissions) \in Scope
      BY <2>1, ScopeColumns
    <3>2. attached[staff[s].key] \in Scope
      BY <2>1 DEF TypeOK
    <3>3. PICK S \in Scope : attached' = [attached EXCEPT ![staff[s].key] = S]
      BY <1>4, <2>1, <3>1, <3>2 DEF CreatePermissions, TypeOK
    <3> QED
      BY <2>1, <3>3, AttachedWritten
  <2> QED
    BY <1>0, <1>4, <2>1, <2>2, <2>3, StaffDoTyped, ChangeTyped DEF CreatePermissions, TypeOK
<1>5. CASE Fail(s)
  <2>1. staff[s].key \in Keys
    BY <1>0, <1>5, StaffRecord DEF Fail
  <2> QED
    BY <1>0, <1>5, <2>1, StaffDoTyped, ScopeColumns, ChangeTyped DEF Fail, TypeOK
<1>6. CASE PatchSave(s)
  <2>1. staff[s].key \in Keys
    BY <1>0, <1>6, StaffRecord DEF PatchSave
  <2>2. key' \in [Keys -> Row]
    BY <1>6, <2>1, SavedRow, RowWritten DEF PatchSave
  <2>3. \A S \in Scope, stage \in {"setRoles", "setPermissions"} :
          [stage |-> stage, key |-> staff[s].key, scope |-> S] \in StaffStage
    BY <2>1 DEF StaffStage
  <2>4. staff' \in [Staff -> StaffStage]
    BY <1>0, <1>6, <2>3, StaffDoTyped DEF PatchSave
  <2> QED
    BY <1>0, <1>6, <2>1, <2>2, <2>4, ChangeTyped DEF PatchSave, TypeOK
<1>7. CASE PatchRoles(s)
  <2>1. staff[s].key \in Keys /\ staff[s].scope \in Scope
    BY <1>0, <1>7, StaffRecord DEF PatchRoles
  <2>2. [staff[s] EXCEPT !.stage = "setPermissions"] \in StaffStage
    BY <1>0, <1>7, <2>1, StaffRecord DEF PatchRoles, StaffStage
  <2>3. attached' \in [Keys -> Scope]
    <3>1. SetTo(staff[s].key, Roles, staff[s].scope \cap Roles) \in Scope
      BY <2>1, ScopeColumns
    <3> QED
      BY <1>7, <2>1, <3>1, AttachedWritten DEF PatchRoles
  <2>4. staff' \in [Staff -> StaffStage]
    BY <1>0, <1>7, <2>2, StaffDoTyped DEF PatchRoles
  <2> QED
    BY <1>0, <1>7, <2>1, <2>3, <2>4, ScopeColumns, ChangeTyped DEF PatchRoles, TypeOK
<1>8. CASE PatchPermissions(s)
  <2>1. staff[s].key \in Keys /\ staff[s].scope \in Scope
    BY <1>0, <1>8, StaffRecord DEF PatchPermissions
  <2>2. attached' \in [Keys -> Scope]
    <3>1. SetTo(staff[s].key, Permissions, staff[s].scope \cap Permissions) \in Scope
      BY <2>1, ScopeColumns
    <3> QED
      BY <1>8, <2>1, <3>1, AttachedWritten DEF PatchPermissions
  <2> QED
    BY <1>0, <1>8, <2>1, <2>2, StaffDoTyped, ScopeColumns, ChangeTyped
    DEF PatchPermissions, TypeOK
<1>9. CASE AdminSave(s)
  <2>1. staff[s].key \in Keys
    BY <1>0, <1>9, StaffRecord DEF AdminSave
  <2>2. key' \in [Keys -> Row]
    BY <1>9, <2>1, SavedRow, RowWritten DEF AdminSave
  <2>3. attached' \in [Keys -> Scope]
    <3>1. PICK S \in SUBSET Living(Roles \cup Permissions) :
            attached' = [attached EXCEPT ![staff[s].key] =
                           SetTo(staff[s].key, Roles \cup Permissions, S)]
      BY <1>9 DEF AdminSave
    <3>2. SetTo(staff[s].key, Roles \cup Permissions, S) \in Scope
      BY <1>0, <2>1, ScopeColumns
    <3> QED
      BY <2>1, <3>1, <3>2, AttachedWritten
  <2> QED
    BY <1>0, <1>9, <2>1, <2>2, <2>3, StaffDoTyped, ScopeColumns, ChangeTyped
    DEF AdminSave, TypeOK
<1> QED
  BY <1>1, <1>2, <1>3, <1>4, <1>5, <1>6, <1>7, <1>8, <1>9

LEMMA KeyType ==
  ASSUME TypeOK, NEW k \in Keys,
         Rotate(k) \/ Destroy(k) \/ RestoreKey(k) \/ Expire(k), UNCHANGED policyVars
  PROVE  TypeOK'
<1> USE ConstantsAssumption
<1>0. PolicyTypeOK' /\ key[k] \in Row /\ {} \in Scope
  BY DEF TypeOK, PolicyTypeOK, policyVars, Scope
<1>1. CASE Rotate(k)
  <2>1. secrets + 1 \in Secret /\ key[k].secret \in Secret
    BY <1>0, <1>1 DEF Rotate, TypeOK, Secret, Row
  <2>2. key' = [key EXCEPT ![k] = [key[k] EXCEPT !.secret = secrets + 1]]
    BY <1>1 DEF Rotate, TypeOK
  <2>3. key' \in [Keys -> Row]
    BY <1>0, <2>1, <2>2, RowColumns, RowWritten
  <2> QED
    BY <1>0, <1>1, <2>1, <2>3, ScopeColumns, ChangeTyped DEF Rotate, Counted, TypeOK
<1>2. CASE Destroy(k) \/ RestoreKey(k) \/ Expire(k)
  <2>1. PICK r \in Row : key' = [key EXCEPT ![k] = r]
    <3>1. \A b \in BOOLEAN : /\ [key[k] EXCEPT !.live = b] \in Row
                             /\ [key[k] EXCEPT !.expired = b] \in Row
      BY <1>0 DEF Row
    <3> QED
      BY <1>2, <3>1 DEF Destroy, RestoreKey, Expire, TypeOK
  <2>2. key' \in [Keys -> Row]
    BY <2>1, RowWritten
  <2> QED
    BY <1>0, <1>2, <2>2, ChangeTyped DEF Destroy, RestoreKey, Expire, Counted, TypeOK
<1> QED
  BY <1>1, <1>2

\* One step of a request changes its own record only.
LEMMA AskTyped ==
  ASSUME TypeOK, NEW t \in Requests, request[t] # Idle,
         NEW stage \in Stages, Ask(t, stage)
  PROVE  /\ request' \in [Requests -> Asking \cup {Idle}]
         /\ \A u \in Requests : u # t => request'[u] = request[u]
         /\ request'[t].stage = stage /\ request'[t].key = request[t].key
         /\ request'[t].manages = request[t].manages
         /\ request'[t].decision = request[t].decision
         /\ request'[t].solid = request[t].solid
         /\ request'[t].superuser = request[t].superuser /\ request'[t].calm = request[t].calm
<1>1. PICK q \in Asking : q = request[t]
  BY DEF TypeOK
<1>2. request' = [request EXCEPT ![t] = [q EXCEPT !.stage = stage]]
  BY <1>1 DEF Ask, TypeOK
<1>3. /\ [q EXCEPT !.stage = stage] \in Asking
      /\ [q EXCEPT !.stage = stage].stage = stage
      /\ [q EXCEPT !.stage = stage].key = q.key
      /\ [q EXCEPT !.stage = stage].manages = q.manages
      /\ [q EXCEPT !.stage = stage].decision = q.decision
      /\ [q EXCEPT !.stage = stage].solid = q.solid
      /\ [q EXCEPT !.stage = stage].superuser = q.superuser
      /\ [q EXCEPT !.stage = stage].calm = q.calm
  BY DEF Asking, Stages
<1>4. \A u \in Requests : request'[u] = IF u = t THEN [q EXCEPT !.stage = stage]
                                        ELSE request[u]
  BY <1>2 DEF TypeOK
<1>5. request' \in [Requests -> Asking \cup {Idle}]
  BY <1>2, <1>3 DEF TypeOK
<1> QED
  BY <1>1, <1>3, <1>4, <1>5

\* Every step of a request but the first, the last and the one that decides
\* asks for a next stage.
LEMMA RequestAsks ==
  ASSUME TypeOK, NEW t \in Requests,
         RecordUsage(t) \/ ManageGuard(t) \/ HasScopes(t) \/ AskUserPermissions(t)
  PROVE  /\ request[t] # Idle
         /\ \E stage \in Stages : Ask(t, stage)
<1>1. request[t].stage # "idle"
  BY DEF RecordUsage, ManageGuard, HasScopes, AskUserPermissions
<1>2. request[t] # Idle
  BY <1>1 DEF Idle
<1>3. \E stage \in Stages : Ask(t, stage)
  BY DEF RecordUsage, ManageGuard, HasScopes, AskUserPermissions, Through, Scoped, Stages
<1> QED
  BY <1>2, <1>3

LEMMA DecisionTyped ==
  ASSUME NEW S
  PROVE  Decision(S) \in {"allow", "deny", "none"}
  BY DEF Decision

LEMMA DecisionRecorded ==
  ASSUME TypeOK, NEW t \in Requests, AskKeyPermissions(t)
  PROVE  /\ request' \in [Requests -> Asking \cup {Idle}]
         /\ \A u \in Requests : u # t => request'[u] = request[u]
         /\ request[t] # Idle
         /\ request'[t].stage = "scopePermissions" /\ request'[t].key = request[t].key
         /\ request'[t].manages = request[t].manages
         /\ request'[t].solid = request[t].solid
         /\ request'[t].superuser = request[t].superuser /\ request'[t].calm = request[t].calm
         /\ request'[t].decision = Decision(KeyPermissions(request[t].key))
<1>1. request[t].stage = "keyPermissions"
  BY DEF AskKeyPermissions
<1>2. PICK q \in Asking : q = request[t]
  BY <1>1 DEF TypeOK, Idle
<1>3. PICK d \in {"allow", "deny", "none"} :
        /\ d = Decision(KeyPermissions(q.key))
        /\ request' = [request EXCEPT ![t] = [q EXCEPT !.stage = "scopePermissions",
                                                       !.decision = d]]
  BY <1>2, DecisionTyped DEF AskKeyPermissions, TypeOK
<1> DEFINE n == [q EXCEPT !.stage = "scopePermissions", !.decision = d]
<1>4. /\ n \in Asking /\ n.stage = "scopePermissions" /\ n.key = q.key
      /\ n.manages = q.manages /\ n.solid = q.solid /\ n.decision = d
      /\ n.superuser = q.superuser /\ n.calm = q.calm
  BY DEF Asking
<1>5. \A u \in Requests : request'[u] = IF u = t THEN n ELSE request[u]
  BY <1>3 DEF TypeOK
<1>6. request' \in [Requests -> Asking \cup {Idle}]
  BY <1>3, <1>4 DEF TypeOK
<1>7. request[t] # Idle
  BY <1>1 DEF Idle
<1> HIDE DEF n
<1> QED
  BY <1>2, <1>3, <1>4, <1>5, <1>6, <1>7

LEMMA Authenticated ==
  ASSUME TypeOK, NEW t \in Requests, NEW k \in Keys, Authenticate(t, k)
  PROVE  /\ request' \in [Requests -> Asking \cup {Idle}]
         /\ \A u \in Requests : u # t => request'[u] = request[u]
         /\ request'[t] # Idle
         /\ request'[t].stage = "usage" /\ request'[t].key = k
         /\ request'[t].solid = attached[k] \cup wanted[k]
         /\ request'[t].superuser = users[Owner[k]].superuser
<1>1. PICK manages \in BOOLEAN :
        request' = [request EXCEPT ![t] =
         [stage |-> "usage", key |-> k, secret |-> key[k].secret, manages |-> manages,
          superuser |-> users[Owner[k]].superuser, decision |-> "none",
          solid |-> attached[k] \cup wanted[k], calm |-> TRUE]]
  BY DEF Authenticate
<1>2. PICK secret \in Secret, superuser \in BOOLEAN, S \in Scope :
        /\ secret = key[k].secret /\ superuser = users[Owner[k]].superuser
        /\ S = attached[k] \cup wanted[k]
  <2>1. Owner[k] \in Users /\ users[Owner[k]] \in Account /\ key[k] \in Row
    BY ConstantsAssumption DEF TypeOK, PolicyTypeOK
  <2> QED
    BY <2>1 DEF TypeOK, Account, Row, Scope
<1> DEFINE n == [stage |-> "usage", key |-> k, secret |-> secret, manages |-> manages,
                 superuser |-> superuser, decision |-> "none", solid |-> S, calm |-> TRUE]
<1>3. /\ n \in Asking /\ n.stage = "usage" /\ n.key = k /\ n.solid = S
      /\ n.superuser = superuser
  BY DEF Asking
<1>4. request' = [request EXCEPT ![t] = n]
  BY <1>1, <1>2
<1>5. /\ \A u \in Requests : request'[u] = IF u = t THEN n ELSE request[u]
      /\ request' \in [Requests -> Asking \cup {Idle}]
  BY <1>3, <1>4 DEF TypeOK
<1>6. n # Idle
  BY <1>3 DEF Idle
<1> HIDE DEF n
<1> QED
  BY <1>2, <1>3, <1>5, <1>6

LEMMA RequestType ==
  ASSUME TypeOK, NEW t \in Requests, RequestStep(t)
  PROVE  TypeOK'
<1>1. UNCHANGED <<keyVars, changes, policyVars>>
  BY DEF RequestStep, Authenticate, RecordUsage, ManageGuard, AskKeyPermissions, HasScopes,
         AskUserPermissions, Answer
<1>2. request' \in [Requests -> Asking \cup {Idle}]
  <2>1. CASE Answer(t)
    BY <2>1 DEF Answer, TypeOK
  <2>2. CASE \/ RecordUsage(t) \/ ManageGuard(t) \/ HasScopes(t) \/ AskUserPermissions(t)
    BY <2>2, RequestAsks, AskTyped
  <2>3. CASE AskKeyPermissions(t)
    BY <2>3, DecisionRecorded
  <2>4. CASE \E k \in Keys : Authenticate(t, k)
    BY <2>4, Authenticated
  <2> QED
    BY <2>1, <2>2, <2>3, <2>4 DEF RequestStep
<1> QED
  BY <1>1, <1>2 DEF keyVars, policyVars, TypeOK, PolicyTypeOK

LEMMA PolicyChanged ==
  ASSUME TypeOK, ChangePolicy
  PROVE  /\ TypeOK'
         /\ \A t \in Requests :
              /\ request[t] = Idle => request'[t] = Idle
              /\ request[t] # Idle =>
                   /\ ~request'[t].calm
                   /\ request'[t].stage = request[t].stage
                   /\ request'[t].key = request[t].key
                   /\ request'[t].manages = request[t].manages
                   /\ request'[t].decision = request[t].decision
                   /\ request'[t].solid = request[t].solid
<1>1. PolicyTypeOK' /\ changes' \in 0..MaxChanges
  BY PolicyStep, ConstantsAssumption DEF TypeOK, ChangePolicy, Counted
<1>2. ASSUME NEW q \in Asking
      PROVE  /\ [q EXCEPT !.calm = FALSE] \in Asking /\ ~[q EXCEPT !.calm = FALSE].calm
             /\ [q EXCEPT !.calm = FALSE].stage = q.stage
             /\ [q EXCEPT !.calm = FALSE].key = q.key
             /\ [q EXCEPT !.calm = FALSE].manages = q.manages
             /\ [q EXCEPT !.calm = FALSE].decision = q.decision
             /\ [q EXCEPT !.calm = FALSE].solid = q.solid
  BY DEF Asking
<1>3. request' \in [Requests -> Asking \cup {Idle}]
  BY <1>2 DEF ChangePolicy, TypeOK
<1>4. TypeOK'
  BY <1>1, <1>3 DEF ChangePolicy, keyVars, TypeOK
<1>5. \A t \in Requests : /\ request[t] \in Asking \cup {Idle}
                          /\ request'[t] = IF request[t] = Idle THEN Idle
                                           ELSE [request[t] EXCEPT !.calm = FALSE]
  BY DEF ChangePolicy, TypeOK
<1> QED
  BY <1>2, <1>4, <1>5

LEMMA TypeStep == TypeOK /\ [Next]_vars => TypeOK'
<1> SUFFICES ASSUME TypeOK, [Next]_vars PROVE TypeOK'
  OBVIOUS
<1>1. CASE KeyStep
  BY <1>1, StaffType, KeyType DEF KeyStep
<1>2. CASE ChangePolicy
  BY <1>2, PolicyChanged
<1>3. CASE \E t \in Requests : RequestStep(t)
  BY <1>3, RequestType
<1>4. CASE UNCHANGED vars
  BY <1>4 DEF vars, keyVars, policyVars, TypeOK, PolicyTypeOK
<1> QED
  BY <1>1, <1>2, <1>3, <1>4 DEF Next

LEMMA TypeInit == Init => TypeOK
<1> SUFFICES ASSUME Init PROVE TypeOK
  OBVIOUS
<1>1. PolicyTypeOK
  BY StartAssumption DEF Init, PolicyInit, PolicyTypeOK, Account
<1>2. key \in [Keys -> Row]
  BY ConstantsAssumption DEF Init, Row, Secret
<1> QED
  BY <1>1, <1>2, ConstantsAssumption DEF Init, TypeOK, Scope, StaffStage, Secret

\* The variables keep their types, whatever the staff and the requests do.
THEOREM TypeCorrect == Spec => []TypeOK
  BY TypeInit, TypeStep, PTL DEF Spec

-----------------------------------------------------------------------------
(* Secrets *)

\* The calls of a thread that has already begun something.
Continues(s) == \/ CreateRoles(s) \/ CreatePermissions(s) \/ Fail(s) \/ PatchSave(s)
                \/ PatchRoles(s) \/ PatchPermissions(s) \/ AdminSave(s)

\* What they make of the thread: it goes on with its key, or is done.
LEMMA StaffAfter ==
  ASSUME TypeOK, NEW s \in Staff, Continues(s)
  PROVE  /\ \A u \in Staff : u # s => staff'[u] = staff[u]
         /\ staff[s] # Idle /\ staff[s].key \in Keys
         /\ staff'[s].stage # "edit"
         /\ staff'[s] # Idle => staff'[s].key = staff[s].key
         /\ staff'[s].stage # "createRoles"
         /\ staff'[s].stage = "createPermissions" =>
              /\ CreateRoles(s) /\ staff[s].stage = "createRoles"
              /\ staff'[s].scope = staff[s].scope
         /\ CreateRoles(s) => staff'[s].stage = "createPermissions" /\ staff'[s] # Idle
<1>1. staff[s].stage # "idle" \/ Fail(s)
  BY DEF Continues, CreateRoles, CreatePermissions, PatchSave, PatchRoles,
         PatchPermissions, AdminSave
<1>2. staff[s] # Idle
  BY <1>1 DEF Fail, Idle
<1>3. staff[s].key \in Keys /\ staff[s] \in StaffStage
  BY <1>2, StaffRecord DEF TypeOK
<1>4. /\ Idle \in StaffStage /\ Idle.stage = "idle"
  BY DEF StaffStage, Idle
<1>5. CASE CreateRoles(s)
  <2>1. PICK a \in StaffStage : /\ a = staff[s] /\ a.stage = "createRoles"
                                /\ staff' = [staff EXCEPT ![s] = [a EXCEPT !.stage = "createPermissions"]]
    BY <1>3, <1>5 DEF CreateRoles, StaffDo
  <2>2. a = [stage |-> "createRoles", key |-> a.key, scope |-> a.scope]
    BY <2>1, StaffRecord
  <2>3. \A u \in Staff : staff'[u] = IF u = s THEN [a EXCEPT !.stage = "createPermissions"]
                                     ELSE staff[u]
    BY <2>1 DEF TypeOK
  <2>4. /\ [a EXCEPT !.stage = "createPermissions"].stage = "createPermissions"
        /\ [a EXCEPT !.stage = "createPermissions"].key = a.key
        /\ [a EXCEPT !.stage = "createPermissions"].scope = a.scope
    BY <2>2
  <2> QED
    BY <1>2, <1>3, <1>4, <1>5, <2>1, <2>3, <2>4
<1>6. CASE ~CreateRoles(s) /\ (PatchRoles(s) \/ PatchSave(s))
  <2>1. \/ StaffDo(s, Idle)
        \/ \E S \in Scope, stage \in {"setRoles", "setPermissions"} :
             StaffDo(s, [stage |-> stage, key |-> staff[s].key, scope |-> S])
    <3>1. CASE PatchSave(s)
      <4>1. \A S \in SUBSET Living(Roles \cup Permissions) : S \in Scope
        BY DEF Living, Scope
      <4> QED
        BY <3>1, <4>1 DEF PatchSave
    <3>2. CASE PatchRoles(s) /\ StaffDo(s, [staff[s] EXCEPT !.stage = "setPermissions"])
      <4>1. /\ staff[s] = [stage |-> "setRoles", key |-> staff[s].key, scope |-> staff[s].scope]
            /\ staff[s].scope \in Scope
        BY <1>3, <3>2, StaffRecord DEF PatchRoles
      <4>2. [staff[s] EXCEPT !.stage = "setPermissions"] =
              [stage |-> "setPermissions", key |-> staff[s].key, scope |-> staff[s].scope]
        BY <4>1
      <4>3. StaffDo(s, [stage |-> "setPermissions", key |-> staff[s].key,
                        scope |-> staff[s].scope])
        BY <3>2, <4>2
      <4> QED
        BY <4>1, <4>3
    <3> QED
      BY <1>6, <3>1, <3>2 DEF PatchRoles
  <2>2. CASE StaffDo(s, Idle)
    BY <1>2, <1>3, <1>4, <1>6, <2>2, StaffDoTyped
  <2>3. ASSUME NEW S \in Scope, NEW stage \in {"setRoles", "setPermissions"},
               StaffDo(s, [stage |-> stage, key |-> staff[s].key, scope |-> S])
        PROVE  /\ \A u \in Staff : u # s => staff'[u] = staff[u]
               /\ staff'[s].stage = stage /\ staff'[s].key = staff[s].key
    <3> DEFINE a == [stage |-> stage, key |-> staff[s].key, scope |-> S]
    <3>1. a \in StaffStage
      BY <1>3 DEF StaffStage
    <3>2. \A u \in Staff : staff'[u] = IF u = s THEN a ELSE staff[u]
      BY <2>3, <3>1, StaffDoTyped
    <3>3. a.stage = stage /\ a.key = staff[s].key
      OBVIOUS
    <3> QED
      BY <3>2, <3>3
  <2> QED
    BY <1>2, <1>3, <1>6, <2>1, <2>2, <2>3
<1>7. CASE /\ ~CreateRoles(s)
           /\ CreatePermissions(s) \/ Fail(s) \/ PatchPermissions(s) \/ AdminSave(s)
  <2>1. StaffDo(s, Idle)
    BY <1>7 DEF CreatePermissions, Fail, PatchPermissions, AdminSave
  <2> QED
    BY <1>2, <1>3, <1>4, <1>7, <2>1, StaffDoTyped
<1> QED
  BY <1>5, <1>6, <1>7 DEF Continues

\* What they make of the keys: an edit writes the secret it had read.
LEMMA KeyAfter ==
  ASSUME TypeOK, NEW s \in Staff, Continues(s)
  PROVE  /\ \A k \in Keys :
              \/ key'[k] = key[k]
              \/ /\ staff[s].stage = "edit" /\ staff[s].key = k
                 /\ key'[k].secret = staff[s].secret
         /\ secrets' = secrets /\ dead' = dead /\ revoked' = revoked
         /\ \/ known' = known
            \/ CreatePermissions(s) /\ known' = known \cup {key[staff[s].key].secret}
<1>1. CASE PatchSave(s) \/ AdminSave(s)
  <2>1. /\ staff[s].stage = "edit"
        /\ \E live \in BOOLEAN : Saved(staff[s], live)
    BY <1>1 DEF PatchSave, AdminSave
  <2>2. PICK r \in Row : /\ key' = [key EXCEPT ![staff[s].key] = r]
                         /\ r.secret = staff[s].secret
    BY <2>1, SavedRow
  <2>3. \A k \in Keys : key'[k] = IF k = staff[s].key THEN r ELSE key[k]
    BY <2>2 DEF TypeOK
  <2>4. secrets' = secrets /\ dead' = dead /\ revoked' = revoked /\ known' = known
    BY <1>1 DEF PatchSave, AdminSave
  <2> QED
    BY <2>1, <2>2, <2>3, <2>4
<1>2. CASE \/ CreateRoles(s) \/ CreatePermissions(s) \/ Fail(s)
           \/ PatchRoles(s) \/ PatchPermissions(s)
  BY <1>2 DEF CreateRoles, CreatePermissions, Fail, PatchRoles, PatchPermissions
<1> QED
  BY <1>1, <1>2 DEF Continues

LEMMA CreateAfter ==
  ASSUME TypeOK, NEW s \in Staff, NEW k \in Keys, Create(s, k)
  PROVE  /\ staff[s] = Idle /\ key[k].secret = 0
         /\ secrets' = secrets + 1 /\ secrets \in Nat
         /\ \A j \in Keys : j # k => key'[j] = key[j] /\ wanted'[j] = wanted[j]
         /\ key'[k].secret = secrets + 1
         /\ \A u \in Staff : u # s => staff'[u] = staff[u]
         /\ staff'[s].stage = "createRoles" /\ staff'[s].key = k
         /\ staff'[s].scope = wanted'[k]
<1>1. secrets \in Nat /\ secrets + 1 \in Secret
  BY ConstantsAssumption DEF Create, TypeOK, Secret
<1>2. [secret |-> secrets + 1, active |-> TRUE, live |-> TRUE, expired |-> FALSE] \in Row
  BY <1>1 DEF Row
<1>3. /\ \A j \in Keys : j # k => key'[j] = key[j]
      /\ key'[k].secret = secrets + 1
  BY <1>2, RowWritten DEF Create
<1>4. PICK S \in Scope : /\ wanted' = [wanted EXCEPT ![k] = S]
                         /\ StaffDo(s, [stage |-> "createRoles", key |-> k, scope |-> S])
  BY DEF Create, Living, Scope
<1> DEFINE a == [stage |-> "createRoles", key |-> k, scope |-> S]
<1>5. a \in StaffStage
  BY DEF StaffStage
<1>6. \A u \in Staff : staff'[u] = IF u = s THEN a ELSE staff[u]
  BY <1>4, <1>5, StaffDoTyped
<1>7. \A j \in Keys : wanted'[j] = IF j = k THEN S ELSE wanted[j]
  BY <1>4, ScopeColumns
<1>8. a.stage = "createRoles" /\ a.key = k /\ a.scope = S
  OBVIOUS
<1> QED
  BY <1>1, <1>3, <1>6, <1>7, <1>8 DEF Create

LEMMA EditAfter ==
  ASSUME TypeOK, NEW s \in Staff, NEW k \in Keys, EditKey(s, k)
  PROVE  /\ \A u \in Staff : u # s => staff'[u] = staff[u]
         /\ staff'[s].stage = "edit" /\ staff'[s].key = k
         /\ staff'[s].secret = key[k].secret
<1>1. PICK c \in Secret, b \in BOOLEAN : c = key[k].secret /\ b = key[k].active
  BY DEF TypeOK, Row
<1> DEFINE a == [stage |-> "edit", key |-> k, secret |-> c, active |-> b]
<1>2. a \in StaffStage
  BY DEF StaffStage
<1>3. \A u \in Staff : staff'[u] = IF u = s THEN a ELSE staff[u]
  BY <1>1, <1>2, StaffDoTyped DEF EditKey
<1>4. a.stage = "edit" /\ a.key = k /\ a.secret = c
  OBVIOUS
<1> QED
  BY <1>1, <1>3, <1>4

LEMMA RotateAfter ==
  ASSUME TypeOK, NEW k \in Keys, Rotate(k)
  PROVE  /\ key[k].live /\ secrets' = secrets + 1 /\ secrets \in Nat
         /\ key'[k].secret = secrets + 1 /\ (key'[k].live <=> key[k].live)
         /\ \A j \in Keys : j # k => key'[j] = key[j]
<1>1. secrets \in Nat /\ secrets + 1 \in Secret
  BY ConstantsAssumption DEF Rotate, TypeOK, Secret
<1>2. PICK r \in Row : r = key[k]
  BY DEF TypeOK
<1>3. \A j \in Keys : key'[j] = IF j = k THEN [r EXCEPT !.secret = secrets + 1] ELSE key[j]
  BY <1>2 DEF Rotate, TypeOK
<1>4. /\ [r EXCEPT !.secret = secrets + 1].secret = secrets + 1
      /\ [r EXCEPT !.secret = secrets + 1].live <=> r.live
  BY DEF Row
<1> QED
  BY <1>1, <1>2, <1>3, <1>4 DEF Rotate

LEMMA SwitchAfter ==
  ASSUME TypeOK, NEW k \in Keys, Destroy(k) \/ RestoreKey(k) \/ Expire(k)
  PROVE  /\ key'[k].secret = key[k].secret
         /\ Destroy(k) => ~key'[k].live
         /\ Expire(k) => key[k].live
         /\ RestoreKey(k) => key[k].secret # 0
         /\ \A j \in Keys : j # k => key'[j] = key[j]
<1>1. PICK r \in Row : r = key[k]
  BY DEF TypeOK
<1>2. ASSUME NEW b \in BOOLEAN
      PROVE  /\ [r EXCEPT !.live = b].secret = r.secret /\ [r EXCEPT !.live = b].live = b
             /\ [r EXCEPT !.expired = b].secret = r.secret
  BY DEF Row
<1>3. \A j \in Keys :
        /\ Destroy(k) => key'[j] = IF j = k THEN [r EXCEPT !.live = FALSE] ELSE key[j]
        /\ RestoreKey(k) => key'[j] = IF j = k THEN [r EXCEPT !.live = TRUE] ELSE key[j]
        /\ Expire(k) => key'[j] = IF j = k THEN [r EXCEPT !.expired = TRUE] ELSE key[j]
  BY <1>1 DEF Destroy, RestoreKey, Expire, TypeOK
<1> QED
  BY <1>1, <1>2, <1>3 DEF Expire, RestoreKey

\* A request in progress keeps its key, and one that begins has found a
\* secret that is known.
LEMMA RequestKey ==
  ASSUME TypeOK, Next, NEW t \in Requests, request'[t] # Idle
  PROVE  \/ request[t] # Idle /\ request'[t].key = request[t].key
         \/ /\ request'[t].key \in Keys /\ key[request'[t].key].secret \in known
            /\ UNCHANGED keyVars
<1>1. CASE KeyStep
  <2>1. CASE \E s \in Staff, k \in Keys : EditKey(s, k)
    BY <2>1 DEF EditKey
  <2>2. CASE ~\E s \in Staff, k \in Keys : EditKey(s, k)
    <3>1. PICK k \in Keys : \E kept : Change(k, kept)
      <4>1. CASE \E s \in Staff : Continues(s)
        BY <4>1, StaffAfter DEF Continues, CreateRoles, CreatePermissions, Fail, PatchSave,
                                PatchRoles, PatchPermissions, AdminSave
      <4>2. CASE \/ \E s \in Staff, j \in Keys : Create(s, j)
                 \/ \E j \in Keys : Rotate(j) \/ Destroy(j) \/ RestoreKey(j) \/ Expire(j)
        BY <4>2 DEF Create, Rotate, Destroy, RestoreKey, Expire
      <4> QED
        BY <1>1, <2>2, <4>1, <4>2 DEF KeyStep, Continues
    <3> QED
      BY <3>1, ChangeTyped
  <2> QED
    BY <2>1, <2>2
<1>2. CASE ChangePolicy
  BY <1>2, PolicyChanged
<1>3. ASSUME NEW u \in Requests, RequestStep(u)
      PROVE  \/ request[t] # Idle /\ request'[t].key = request[t].key
             \/ /\ request'[t].key \in Keys /\ key[request'[t].key].secret \in known
                /\ UNCHANGED keyVars
  <2>1. CASE Answer(u)
    <3>1. request'[t] = IF t = u THEN Idle ELSE request[t]
      BY <2>1 DEF Answer, TypeOK
    <3> QED
      BY <3>1
  <2>2. CASE \/ RecordUsage(u) \/ ManageGuard(u) \/ HasScopes(u) \/ AskUserPermissions(u)
    BY <2>2, RequestAsks, AskTyped
  <2>3. CASE AskKeyPermissions(u)
    BY <2>3, DecisionRecorded
  <2>4. ASSUME NEW k \in Keys, Authenticate(u, k)
        PROVE  \/ request[t] # Idle /\ request'[t].key = request[t].key
               \/ /\ request'[t].key \in Keys /\ key[request'[t].key].secret \in known
                  /\ UNCHANGED keyVars
    <3>1. key[k].secret \in known /\ UNCHANGED keyVars
      BY <2>4 DEF Authenticate
    <3> QED
      BY <2>4, <3>1, Authenticated
  <2> QED
    BY <1>3, <2>1, <2>2, <2>3, <2>4 DEF RequestStep
<1> QED
  BY <1>1, <1>2, <1>3 DEF Next

\* The steps that leave keys and staff alone.
LEMMA KeysAlone ==
  ASSUME [Next]_vars, ~KeyStep
  PROVE  UNCHANGED keyVars
  BY DEF Next, ChangePolicy, RequestStep, Authenticate, RecordUsage, ManageGuard,
         AskKeyPermissions, HasScopes, AskUserPermissions, Answer, vars

LEMMA WorkHasSecretStep ==
  ASSUME TypeOK, WorkHasSecret, SecretsApart, [Next]_vars
  PROVE  WorkHasSecret'
<1>1. /\ \A k \in Keys : key[k].secret # 0 => key'[k].secret # 0
      /\ \A s \in Staff : staff'[s] # Idle => key'[staff'[s].key].secret # 0
      /\ \A s \in Staff : staff'[s].stage = "edit" => staff'[s].secret # 0
      /\ \A k \in Keys : key'[k].live => key'[k].secret # 0
  <2>0. \A s \in Staff : staff[s] # Idle => staff[s].key \in Keys
    BY StaffRecord DEF TypeOK
  <2>1. CASE \E s \in Staff : Continues(s)
    <3>1. PICK s \in Staff : Continues(s)
      BY <2>1
    <3>2. staff[s] # Idle /\ key[staff[s].key].secret # 0 /\ staff[s].key \in Keys
      BY <3>1, StaffAfter DEF WorkHasSecret
    <3>3. \A k \in Keys : key[k].secret # 0 => key'[k].secret # 0
      BY <3>1, <3>2, KeyAfter DEF WorkHasSecret
    <3>4. \A u \in Staff : staff'[u] # Idle => key'[staff'[u].key].secret # 0
      BY <2>0, <3>1, <3>2, <3>3, StaffAfter DEF WorkHasSecret
    <3>5. \A u \in Staff : staff'[u].stage = "edit" => staff'[u].secret # 0
      BY <3>1, StaffAfter DEF WorkHasSecret
    <3>6. \A k \in Keys : key'[k].live => key'[k].secret # 0
      BY <3>1, <3>2, <3>3, KeyAfter DEF WorkHasSecret
    <3> QED
      BY <3>3, <3>4, <3>5, <3>6
  <2>2. CASE \E s \in Staff, k \in Keys : Create(s, k)
    BY <2>0, <2>2, CreateAfter DEF WorkHasSecret, Idle
  <2>3. CASE \E s \in Staff, k \in Keys : EditKey(s, k)
    <3>1. PICK s \in Staff, k \in Keys : EditKey(s, k)
      BY <2>3
    <3>2. key[k].secret # 0 /\ key' = key
      BY <3>1 DEF EditKey, WorkHasSecret
    <3> QED
      BY <2>0, <3>1, <3>2, EditAfter DEF WorkHasSecret
  <2>4. CASE \E k \in Keys : Rotate(k)
    <3>1. PICK k \in Keys : Rotate(k)
      BY <2>4
    <3>2. staff' = staff
      BY <3>1 DEF Rotate
    <3> QED
      BY <2>0, <3>1, <3>2, RotateAfter DEF WorkHasSecret
  <2>5. CASE \E k \in Keys : Destroy(k) \/ RestoreKey(k) \/ Expire(k)
    <3>1. PICK k \in Keys : Destroy(k) \/ RestoreKey(k) \/ Expire(k)
      BY <2>5
    <3>2. staff' = staff
      BY <3>1 DEF Destroy, RestoreKey, Expire
    <3>3. key'[k].live => key[k].secret # 0
      BY <3>1, SwitchAfter DEF WorkHasSecret
    <3> QED
      BY <2>0, <3>1, <3>2, <3>3, SwitchAfter DEF WorkHasSecret
  <2>6. CASE ~KeyStep
    BY <2>6, KeysAlone DEF keyVars, WorkHasSecret
  <2> QED
    BY <2>1, <2>2, <2>3, <2>4, <2>5, <2>6 DEF KeyStep, Continues
<1>2. ASSUME NEW t \in Requests, request'[t] # Idle
      PROVE  key'[request'[t].key].secret # 0
  <2>1. CASE request[t] # Idle /\ request'[t].key = request[t].key
    <3>1. request[t].key \in Keys
      BY <2>1 DEF TypeOK, Asking
    <3> QED
      BY <1>1, <2>1, <3>1 DEF WorkHasSecret
  <2>2. CASE /\ request'[t].key \in Keys /\ key[request'[t].key].secret \in known
             /\ UNCHANGED keyVars
    BY <2>2 DEF SecretsApart, keyVars
  <2>3. CASE UNCHANGED vars
    BY <1>2, <2>3 DEF vars, keyVars, WorkHasSecret
  <2> QED
    BY <1>2, <2>1, <2>2, <2>3, RequestKey
<1> QED
  BY <1>1, <1>2 DEF WorkHasSecret

\* A step hands out no secret that was held before by another key, and a
\* secret it generates is new.
LEMMA HoldsAfter ==
  ASSUME TypeOK, [Next]_vars
  PROVE  \/ /\ \A k \in Keys, secret \in Secret : Holds(k, secret)' => Holds(k, secret)
            /\ secrets' = secrets /\ dead' = dead
            /\ \/ known' = known
               \/ \E s \in Staff : staff[s] # Idle /\ known' = known \cup {key[staff[s].key].secret}
         \/ \E k \in Keys :
              /\ \A j \in Keys, secret \in Secret :
                   Holds(j, secret)' => Holds(j, secret) \/ (j = k /\ secret = secrets + 1)
              /\ secrets' = secrets + 1
              /\ \/ dead' = dead
                 \/ Rotate(k) /\ ~Claimed(k) /\ dead' = dead \cup {key[k].secret}
              /\ known' \subseteq known \cup {secrets + 1}
<1>1. CASE \E s \in Staff : Continues(s)
  <2>1. PICK s \in Staff : Continues(s)
    BY <1>1
  <2>2. \A k \in Keys, secret \in Secret : Holds(k, secret)' => Holds(k, secret)
    BY <2>1, StaffAfter, KeyAfter DEF Holds
  <2> QED
    BY <2>1, <2>2, StaffAfter, KeyAfter
<1>2. CASE \E s \in Staff, k \in Keys : Create(s, k)
  <2>1. PICK s \in Staff, k \in Keys : Create(s, k)
    BY <1>2
  <2>2. dead' = dead /\ known' = known
    BY <2>1 DEF Create
  <2>3. \A j \in Keys, secret \in Secret :
          Holds(j, secret)' => Holds(j, secret) \/ (j = k /\ secret = secrets + 1)
    BY <2>1, CreateAfter DEF Holds
  <2> QED
    BY <2>1, <2>2, <2>3, CreateAfter
<1>3. CASE \E s \in Staff, k \in Keys : EditKey(s, k)
  <2>1. PICK s \in Staff, k \in Keys : EditKey(s, k)
    BY <1>3
  <2>2. UNCHANGED <<key, secrets, known, dead>>
    BY <2>1 DEF EditKey
  <2>3. \A j \in Keys, secret \in Secret : Holds(j, secret)' => Holds(j, secret)
    BY <2>1, <2>2, EditAfter DEF Holds
  <2> QED
    BY <2>2, <2>3
<1>4. CASE \E k \in Keys : Rotate(k)
  <2>1. PICK k \in Keys : Rotate(k)
    BY <1>4
  <2>2. /\ staff' = staff /\ known' = known \cup {secrets + 1}
        /\ dead' = dead \/ (~Claimed(k) /\ dead' = dead \cup {key[k].secret})
    BY <2>1 DEF Rotate
  <2>3. \A j \in Keys, secret \in Secret :
          Holds(j, secret)' => Holds(j, secret) \/ (j = k /\ secret = secrets + 1)
    BY <2>1, <2>2, RotateAfter DEF Holds
  <2> QED
    BY <2>1, <2>2, <2>3, RotateAfter
<1>5. CASE \E k \in Keys : Destroy(k) \/ RestoreKey(k) \/ Expire(k)
  <2>1. PICK k \in Keys : Destroy(k) \/ RestoreKey(k) \/ Expire(k)
    BY <1>5
  <2>2. UNCHANGED <<staff, secrets, known, dead>>
    BY <2>1 DEF Destroy, RestoreKey, Expire
  <2>3. \A j \in Keys, secret \in Secret : Holds(j, secret)' => Holds(j, secret)
    BY <2>1, <2>2, SwitchAfter DEF Holds
  <2> QED
    BY <2>2, <2>3
<1>6. CASE ~KeyStep
  BY <1>6, KeysAlone DEF keyVars, Holds
<1> QED
  BY <1>1, <1>2, <1>3, <1>4, <1>5, <1>6 DEF KeyStep, Continues, Next, vars

LEMMA SecretsApartStep ==
  ASSUME TypeOK, WorkHasSecret, SecretsApart, [Next]_vars
  PROVE  SecretsApart'
<1>0. /\ secrets \in Nat /\ \A k \in Keys : key[k].secret \in Secret
      /\ \A secret \in Secret : secret \in Nat
  BY ConstantsAssumption DEF TypeOK, Secret, Row
<1>1. CASE /\ \A k \in Keys, secret \in Secret : Holds(k, secret)' => Holds(k, secret)
           /\ secrets' = secrets /\ dead' = dead
           /\ \/ known' = known
              \/ \E s \in Staff : staff[s] # Idle /\ known' = known \cup {key[staff[s].key].secret}
  <2>1. ASSUME NEW s \in Staff, staff[s] # Idle
        PROVE  key[staff[s].key].secret # 0 /\ key[staff[s].key].secret <= secrets
    <3>1. staff[s].key \in Keys
      BY <2>1, StaffRecord DEF TypeOK
    <3>2. key[staff[s].key].secret # 0 /\ Holds(staff[s].key, key[staff[s].key].secret)
      BY <2>1 DEF WorkHasSecret, Holds
    <3> QED
      BY <1>0, <3>1, <3>2 DEF SecretsApart
  <2> QED
    BY <1>1, <2>1 DEF SecretsApart
<1>2. ASSUME NEW k \in Keys,
             \A j \in Keys, secret \in Secret :
               Holds(j, secret)' => Holds(j, secret) \/ (j = k /\ secret = secrets + 1),
             secrets' = secrets + 1,
             \/ dead' = dead
             \/ Rotate(k) /\ ~Claimed(k) /\ dead' = dead \cup {key[k].secret},
             known' \subseteq known \cup {secrets + 1}
      PROVE  SecretsApart'
  <2>0. PICK old \in Secret : old = key[k].secret
    BY <1>0
  <2>1. Rotate(k) /\ ~Claimed(k) =>
          /\ old # 0 /\ old <= secrets
          /\ \A j \in Keys : ~Holds(j, old)'
    <3> SUFFICES ASSUME Rotate(k), ~Claimed(k)
                 PROVE  /\ old # 0 /\ old <= secrets
                        /\ \A j \in Keys : ~Holds(j, old)'
      OBVIOUS
    <3>1. old # 0
      BY <2>0, RotateAfter DEF WorkHasSecret
    <3>2. Holds(k, old)
      BY <2>0 DEF Holds
    <3>3. old <= secrets /\ \A j \in Keys : j # k => ~Holds(j, old)
      BY <1>0, <3>1, <3>2 DEF SecretsApart
    <3>4. staff' = staff
      BY DEF Rotate
    <3>5. key'[k].secret = secrets + 1 /\ \A j \in Keys : j # k => key'[j] = key[j]
      BY RotateAfter
    <3>6. \A j \in Keys : ~Holds(j, old)'
      BY <1>0, <3>3, <3>4, <3>5 DEF Holds, Claimed
    <3> QED
      BY <3>1, <3>3, <3>6
  <2>2. /\ 0 \notin known'
        /\ \A secret \in dead' \cup known' : secret <= secrets + 1
    <3>1. \A secret \in dead \cup known : secret <= secrets + 1
      BY <1>0 DEF SecretsApart, TypeOK
    <3>2. dead' # dead => dead' = dead \cup {old} /\ old <= secrets
      BY <1>2, <2>0, <2>1
    <3>3. 0 \notin known'
      BY <1>0, <1>2 DEF SecretsApart
    <3> QED
      BY <1>0, <1>2, <2>0, <3>1, <3>2, <3>3
  <2>3. ASSUME NEW j \in Keys, NEW secret \in Secret \ {0}, Holds(j, secret)'
        PROVE  /\ secret <= secrets + 1 /\ secret \notin dead'
               /\ \A i \in Keys \ {j} : ~Holds(i, secret)'
    <3>1. CASE Holds(j, secret)
      <4>1. /\ secret <= secrets /\ secret \notin dead
            /\ \A i \in Keys \ {j} : ~Holds(i, secret)
        BY <3>1 DEF SecretsApart
      <4>2. secret \notin dead'
        BY <1>2, <2>0, <2>1, <2>3, <4>1
      <4> QED
        BY <1>0, <1>2, <4>1, <4>2
    <3>2. CASE j = k /\ secret = secrets + 1
      <4>1. \A i \in Keys : ~Holds(i, secret)
        BY <1>0, <3>2 DEF SecretsApart
      <4>2. secret \notin dead
        BY <1>0, <3>2 DEF SecretsApart
      <4>3. secret \notin dead'
        BY <1>2, <2>0, <2>1, <2>3, <4>2
      <4> QED
        BY <1>0, <1>2, <3>2, <4>1, <4>3
    <3> QED
      BY <1>2, <2>3, <3>1, <3>2
  <2> QED
    BY <1>2, <2>2, <2>3 DEF SecretsApart
<1> QED
  BY <1>1, <1>2, HoldsAfter

LEMMA RevokedIsGoneStep ==
  ASSUME TypeOK, WorkHasSecret, RevokedIsGone, [Next]_vars
  PROVE  RevokedIsGone'
<1>0. revoked \subseteq Keys
  BY DEF TypeOK
<1>1. CASE \E s \in Staff : Continues(s)
  BY <1>0, <1>1, StaffAfter, KeyAfter DEF RevokedIsGone, Claimed
<1>2. CASE \E s \in Staff, k \in Keys : Create(s, k)
  <2>1. PICK s \in Staff, k \in Keys : Create(s, k)
    BY <1>2
  <2>2. k \notin revoked /\ revoked' = revoked
    BY <2>1 DEF Create, RevokedIsGone
  <2> QED
    BY <1>0, <2>1, <2>2, CreateAfter DEF RevokedIsGone, Claimed
<1>3. CASE \E s \in Staff, k \in Keys : EditKey(s, k)
  <2>1. PICK s \in Staff, k \in Keys : EditKey(s, k)
    BY <1>3
  <2>2. key[k].live /\ key' = key /\ revoked' = revoked
    BY <2>1 DEF EditKey
  <2> QED
    BY <2>1, <2>2, EditAfter DEF RevokedIsGone, Claimed
<1>4. CASE \E k \in Keys : Rotate(k)
  <2>1. PICK k \in Keys : Rotate(k)
    BY <1>4
  <2>2. staff' = staff /\ revoked' = revoked
    BY <2>1 DEF Rotate
  <2> QED
    BY <1>0, <2>1, <2>2, RotateAfter DEF RevokedIsGone, Claimed
<1>5. CASE \E k \in Keys : Destroy(k) \/ RestoreKey(k) \/ Expire(k)
  <2>1. PICK k \in Keys : Destroy(k) \/ RestoreKey(k) \/ Expire(k)
    BY <1>5
  <2>2. /\ staff' = staff
        /\ Destroy(k) => /\ key[k].live
                         /\ revoked' = IF Claimed(k) THEN revoked ELSE revoked \cup {k}
        /\ RestoreKey(k) => revoked' = revoked \ {k}
        /\ Expire(k) => revoked' = revoked
    BY <2>1 DEF Destroy, RestoreKey, Expire
  <2> QED
    BY <1>0, <2>1, <2>2, SwitchAfter DEF RevokedIsGone, WorkHasSecret, Claimed
<1>6. CASE ~KeyStep
  BY <1>6, KeysAlone DEF keyVars, RevokedIsGone, Claimed
<1> QED
  BY <1>1, <1>2, <1>3, <1>4, <1>5, <1>6 DEF KeyStep, Continues

LEMMA SecretsInit == Init => WorkHasSecret /\ SecretsApart /\ RevokedIsGone
<1> SUFFICES ASSUME Init PROVE WorkHasSecret /\ SecretsApart /\ RevokedIsGone
  OBVIOUS
<1>1. /\ \A k \in Keys : key[k].secret = 0 /\ ~key[k].live
      /\ \A s \in Staff : staff[s] = Idle /\ staff[s].stage = "idle"
      /\ \A t \in Requests : request[t] = Idle
  BY DEF Init, Idle
<1> QED
  BY <1>1 DEF Init, WorkHasSecret, SecretsApart, RevokedIsGone, Holds

\* Rotated secrets and deleted keys are refused from then on.
THEOREM RevokedStaysRefused == Spec => []RevokedIsRefused
<1> DEFINE Inv == TypeOK /\ WorkHasSecret /\ SecretsApart /\ RevokedIsGone
<1>1. Init => Inv
  BY TypeInit, SecretsInit
<1>2. Inv /\ [Next]_vars => Inv'
  BY TypeStep, WorkHasSecretStep, SecretsApartStep, RevokedIsGoneStep
<1>3. Inv => RevokedIsRefused
  BY DEF SecretsApart, RevokedIsGone, Holds, RevokedIsRefused, Accepts
<1> QED
  BY <1>1, <1>2, <1>3, PTL DEF Spec

-----------------------------------------------------------------------------
(* Scopes *)

\* What the calls of a thread that has begun make of the scopes.
LEMMA ScopeAfter ==
  ASSUME TypeOK, NEW s \in Staff, Continues(s)
  PROVE  /\ \A k \in Keys : k # staff[s].key => attached'[k] = attached[k]
                                                /\ wanted'[k] = wanted[k]
         /\ \A k \in Keys : wanted'[k] = wanted[k] \/ wanted'[k] = {}
         /\ CreateRoles(s) => /\ staff[s].scope \cap Roles \subseteq attached'[staff[s].key]
                              /\ wanted' = wanted
         /\ CreatePermissions(s) =>
              /\ staff[s].scope \cap Permissions \subseteq attached'[staff[s].key]
              /\ attached[staff[s].key] \cap Roles \subseteq attached'[staff[s].key]
              /\ wanted' = wanted
         /\ ~CreateRoles(s) /\ ~CreatePermissions(s) =>
              \/ wanted'[staff[s].key] = {}
              \/ /\ attached' = attached /\ wanted' = wanted
                 /\ ~Creates(s, staff[s].key)
<1>0. staff[s].key \in Keys /\ {} \in Scope
  BY StaffAfter DEF Scope
<1>1. CASE CreateRoles(s)
  <2>1. /\ \A k \in Keys : attached'[k] =
             IF k = staff[s].key /\ staff[s].scope \cap Roles # {}
             THEN SetTo(k, Roles, staff[s].scope \cap Roles) ELSE attached[k]
        /\ wanted' = wanted
    BY <1>1 DEF CreateRoles, TypeOK
  <2>2. ~CreatePermissions(s)
    BY <1>1 DEF CreateRoles, CreatePermissions
  <2> QED
    BY <1>0, <1>1, <2>1, <2>2 DEF SetTo
<1>2. CASE CreatePermissions(s)
  <2>1. /\ \A k \in Keys : attached'[k] =
             IF k = staff[s].key /\ staff[s].scope \cap Permissions # {}
             THEN SetTo(k, Permissions, staff[s].scope \cap Permissions) ELSE attached[k]
        /\ wanted' = wanted
    BY <1>2 DEF CreatePermissions, TypeOK
  <2>2. ~CreateRoles(s)
    BY <1>2 DEF CreateRoles, CreatePermissions
  <2> QED
    BY <1>0, <1>2, <2>1, <2>2, ConstantsAssumption DEF SetTo, Living
<1>3. CASE \/ Fail(s) \/ PatchSave(s) \/ PatchRoles(s) \/ PatchPermissions(s) \/ AdminSave(s)
  <2>1. \/ wanted' = [wanted EXCEPT ![staff[s].key] = {}]
        \/ attached' = attached /\ wanted' = wanted
    BY <1>3 DEF Fail, PatchSave, PatchRoles, PatchPermissions, AdminSave
  <2>2. \A k \in Keys : k # staff[s].key => attached'[k] = attached[k]
    BY <1>3 DEF Fail, PatchSave, PatchRoles, PatchPermissions, AdminSave, TypeOK
  <2>3. Creates(s, staff[s].key) => Fail(s)
    BY <1>3 DEF Creates, PatchSave, PatchRoles, PatchPermissions, AdminSave
  <2>4. \A k \in Keys : wanted'[k] = IF k = staff[s].key /\ wanted' # wanted THEN {} ELSE wanted[k]
    BY <2>1 DEF TypeOK
  <2>5. CASE CreateRoles(s) \/ CreatePermissions(s)
    BY <1>0, <1>1, <1>2, <2>5
  <2>6. CASE ~CreateRoles(s) /\ ~CreatePermissions(s)
    <3>1. Fail(s) => wanted'[staff[s].key] = {}
      BY <1>0 DEF Fail, TypeOK
    <3>2. \/ wanted'[staff[s].key] = {}
          \/ attached' = attached /\ wanted' = wanted
      BY <1>0, <2>1 DEF TypeOK
    <3> QED
      BY <2>2, <2>3, <2>4, <2>6, <3>1, <3>2
  <2> QED
    BY <2>5, <2>6
<1> QED
  BY <1>1, <1>2, <1>3 DEF Continues

\* The three things a step must not do to a creation that is under way.
LEMMA WantedIsSetContinues ==
  ASSUME TypeOK, WorkHasSecret, SecretsApart, WantedIsSet, Next,
         NEW s \in Staff, Continues(s)
  PROVE  WantedIsSet'
<1>0. /\ \A k \in Keys : key[k].secret \in Secret
      /\ staff[s] # Idle /\ staff[s].key \in Keys /\ staff[s] \in StaffStage
      /\ \A k \in Keys : wanted[k] \subseteq Roles \cup Permissions
  BY StaffAfter DEF TypeOK, Row, Scope
<1>1. \A u \in Staff, j \in Keys : Creates(u, j)' =>
        /\ Creates(u, j) /\ staff'[u].scope = staff[u].scope
        /\ u = s => CreateRoles(s) /\ ~CreatePermissions(s)
  BY StaffAfter DEF Creates, CreateRoles, CreatePermissions, Idle
<1>2. \A u \in Staff, j \in Keys : Creates(u, j) /\ u # s => Creates(u, j)'
  BY StaffAfter DEF Creates
<1>3. \A j \in Keys : wanted'[j] \subseteq attached'[j] \/ \E u \in Staff : Creates(u, j)'
  <2> TAKE j \in Keys
  <2>1. CASE j # staff[s].key
    BY <1>2, <2>1, ScopeAfter DEF WantedIsSet, Creates
  <2>2. CASE j = staff[s].key /\ CreateRoles(s)
    BY <1>0, <2>2, StaffAfter DEF Creates
  <2>3. CASE j = staff[s].key /\ CreatePermissions(s)
    <3>1. Creates(s, j)
      BY <2>3 DEF CreatePermissions, Creates
    <3>2. wanted[j] # {} => wanted[j] = staff[s].scope /\ wanted[j] \cap Roles \subseteq attached[j]
      BY <2>3, <3>1 DEF CreatePermissions, WantedIsSet
    <3> QED
      BY <1>0, <2>3, <3>2, ScopeAfter
  <2>4. CASE j = staff[s].key /\ ~CreateRoles(s) /\ ~CreatePermissions(s)
    BY <1>2, <2>4, ScopeAfter DEF WantedIsSet
  <2> QED
    BY <2>1, <2>2, <2>3, <2>4
<1>4. ASSUME NEW j \in Keys, NEW u \in Staff, Creates(u, j)', wanted'[j] # {}
      PROVE  /\ wanted'[j] = staff'[u].scope
             /\ staff'[u].stage = "createPermissions" =>
                  wanted'[j] \cap Roles \subseteq attached'[j]
             /\ \A secret \in known' : ~Holds(j, secret)'
             /\ \A t \in Requests : request'[t] # Idle => request'[t].key # j
  <2>1. Creates(u, j) /\ wanted'[j] = wanted[j] /\ wanted[j] = staff[u].scope
    BY <1>1, <1>4, ScopeAfter DEF WantedIsSet
  <2>2. staff'[u].stage = "createPermissions" => wanted'[j] \cap Roles \subseteq attached'[j]
    <3>1. CASE u = s
      BY <1>1, <1>4, <2>1, <3>1, ScopeAfter DEF Creates
    <3>2. CASE u # s
      <4>1. j = staff[s].key => ~Creates(s, j) /\ ~CreateRoles(s) /\ ~CreatePermissions(s)
        BY <2>1, <3>2 DEF WantedIsSet, Creates, CreateRoles, CreatePermissions
      <4>2. attached'[j] = attached[j]
        BY <1>4, <4>1, ScopeAfter
      <4> QED
        BY <1>4, <2>1, <3>2, <4>2, StaffAfter DEF WantedIsSet
    <3> QED
      BY <3>1, <3>2
  <2>3. ASSUME NEW secret \in known', Holds(j, secret)' PROVE FALSE
    <3>1. Holds(j, secret)
      BY <2>3, StaffAfter, KeyAfter DEF Holds
    <3>2. secret \notin known
      BY <1>4, <2>1, <3>1 DEF WantedIsSet
    <3>3. CreatePermissions(s) /\ secret = key[staff[s].key].secret
      BY <2>3, <3>2, KeyAfter
    <3>4. staff[s].key # j
      <4>1. Creates(s, staff[s].key)
        BY <3>3 DEF Creates, CreatePermissions
      <4>2. staff[s].key = j => u = s
        BY <1>4, <2>1, <4>1 DEF WantedIsSet
      <4> QED
        BY <1>1, <1>4, <3>3, <4>2
    <3>5. Holds(staff[s].key, secret) /\ secret \in Secret \ {0}
      BY <1>0, <3>3 DEF Holds, WorkHasSecret
    <3> QED
      BY <1>0, <3>1, <3>4, <3>5 DEF SecretsApart
  <2>4. ASSUME NEW t \in Requests, request'[t] # Idle, request'[t].key = j PROVE FALSE
    <3>1. key[j].secret \notin known
      BY <1>4, <2>1 DEF WantedIsSet, Holds
    <3> QED
      BY <1>4, <2>1, <2>4, <3>1, RequestKey DEF WantedIsSet
  <2> QED
    BY <1>1, <1>4, <2>1, <2>2, <2>3, <2>4
<1>5. \A j \in Keys, u, v \in Staff : Creates(u, j)' /\ Creates(v, j)' => u = v
  BY <1>1 DEF WantedIsSet
<1> QED
  BY <1>3, <1>4, <1>5 DEF WantedIsSet

LEMMA WantedIsSetStep ==
  ASSUME TypeOK, WorkHasSecret, SecretsApart, WantedIsSet, [Next]_vars
  PROVE  WantedIsSet'
<1>0. /\ \A k \in Keys : key[k].secret \in Secret
      /\ secrets \in Nat /\ Idle.stage = "idle"
  BY ConstantsAssumption DEF TypeOK, Row, Secret, Idle
\* No request has begun meanwhile on a key that nobody knows.
<1>1. ASSUME NEW j \in Keys, NEW t \in Requests, request'[t] # Idle, request'[t].key = j,
             key[j].secret \notin known, Next
      PROVE  request[t] # Idle /\ request[t].key = j
  BY <1>1, RequestKey
<1>2. CASE \E s \in Staff, k \in Keys : Create(s, k)
  <2>1. PICK s \in Staff, k \in Keys : Create(s, k)
    BY <1>2
  <2>2. UNCHANGED <<attached, known>> /\ Next
    BY <1>2, <2>1 DEF Create, Next, KeyStep, vars
  <2>3. ~Creates(s, k) /\ \A u \in Staff : Creates(u, k) => FALSE
    BY <2>1, CreateAfter DEF Creates, WorkHasSecret, Idle
  <2>4. \A u \in Staff, j \in Keys : Creates(u, j)' <=> Creates(u, j) \/ (u = s /\ j = k)
    BY <1>0, <2>1, CreateAfter DEF Creates
  <2>5. \A t \in Requests : request[t] # Idle => request[t].key # k
    BY <2>1, CreateAfter DEF WorkHasSecret
  <2>6. ASSUME NEW j \in Keys, NEW secret \in known, Holds(j, secret)'
        PROVE  j # k /\ Holds(j, secret)
    <3>1. j # k => Holds(j, secret)
      BY <1>0, <2>1, <2>6, CreateAfter DEF Holds
    <3>2. j = k => secret = secrets + 1
      BY <1>0, <2>1, <2>6, CreateAfter DEF Holds, WorkHasSecret
    <3>3. secret \in Secret /\ secret <= secrets
      BY <2>6 DEF SecretsApart, TypeOK
    <3> QED
      BY <1>0, <3>1, <3>2, <3>3 DEF Secret
  <2>7. \A j \in Keys, u, v \in Staff : Creates(u, j)' /\ Creates(v, j)' => u = v
    BY <2>3, <2>4 DEF WantedIsSet
  <2>8. \A j \in Keys : wanted'[j] \subseteq attached'[j] \/ \E u \in Staff : Creates(u, j)'
    BY <2>1, <2>2, <2>4, CreateAfter DEF WantedIsSet
  <2>9. ASSUME NEW j \in Keys, NEW u \in Staff, Creates(u, j)', wanted'[j] # {}
        PROVE  /\ wanted'[j] = staff'[u].scope
               /\ staff'[u].stage = "createPermissions" =>
                    wanted'[j] \cap Roles \subseteq attached'[j]
               /\ \A secret \in known' : ~Holds(j, secret)'
               /\ \A t \in Requests : request'[t] # Idle => request'[t].key # j
    <3>1. CASE j = k
      <4>1. u = s
        BY <2>3, <2>4, <2>9, <3>1
      <4>2. \A t \in Requests : request'[t] # Idle => request'[t].key # k
        <5>1. 0 \notin known /\ key[k].secret = 0
          BY <2>1, CreateAfter DEF SecretsApart
        <5> QED
          BY <1>1, <2>2, <2>5, <5>1
      <4> QED
        BY <2>1, <2>2, <2>6, <3>1, <4>1, <4>2, CreateAfter
    <3>2. CASE j # k
      <4>1. /\ Creates(u, j) /\ u # s /\ staff'[u] = staff[u] /\ wanted'[j] = wanted[j]
        BY <1>0, <2>1, <2>4, <2>9, <3>2, CreateAfter DEF Creates
      <4>2. key[j].secret \notin known
        BY <2>9, <4>1 DEF WantedIsSet, Holds
      <4>3. /\ wanted[j] = staff[u].scope
            /\ staff[u].stage = "createPermissions" => wanted[j] \cap Roles \subseteq attached[j]
            /\ \A secret \in known : ~Holds(j, secret)
            /\ \A t \in Requests : request[t] # Idle => request[t].key # j
        BY <2>9, <4>1 DEF WantedIsSet
      <4> QED
        BY <1>1, <2>2, <2>6, <4>1, <4>2, <4>3
    <3> QED
      BY <3>1, <3>2
  <2> QED
    BY <2>7, <2>8, <2>9 DEF WantedIsSet
\* The other steps leave the attachments and the threads that create alone.
<1>3. ASSUME Next, UNCHANGED attached,
             \A u \in Staff, j \in Keys : Creates(u, j)' <=> Creates(u, j),
             \A u \in Staff, j \in Keys : Creates(u, j) => staff'[u] = staff[u],
             \A j \in Keys :
               \/ wanted'[j] = {}
               \/ /\ wanted'[j] = wanted[j]
                  /\ \A secret \in known' : Holds(j, secret)' =>
                       \E old \in known : Holds(j, old)
      PROVE  WantedIsSet'
  <2>1. \A j \in Keys : /\ wanted'[j] # {} => wanted'[j] = wanted[j]
                        /\ wanted'[j] \subseteq attached'[j] \/ \E u \in Staff : Creates(u, j)'
    BY <1>3 DEF WantedIsSet
  <2>2. \A j \in Keys, u, v \in Staff : Creates(u, j)' /\ Creates(v, j)' => u = v
    BY <1>3 DEF WantedIsSet
  <2>3. ASSUME NEW j \in Keys, NEW u \in Staff, Creates(u, j)', wanted'[j] # {}
        PROVE  /\ wanted'[j] = staff'[u].scope
               /\ staff'[u].stage = "createPermissions" =>
                    wanted'[j] \cap Roles \subseteq attached'[j]
               /\ \A secret \in known' : ~Holds(j, secret)'
               /\ \A t \in Requests : request'[t] # Idle => request'[t].key # j
    <3>1. Creates(u, j) /\ staff'[u] = staff[u] /\ wanted'[j] = wanted[j]
      BY <1>3, <2>1, <2>3
    <3>2. /\ wanted[j] = staff[u].scope
          /\ staff[u].stage = "createPermissions" => wanted[j] \cap Roles \subseteq attached[j]
          /\ \A secret \in known : ~Holds(j, secret)
          /\ \A t \in Requests : request[t] # Idle => request[t].key # j
      BY <2>3, <3>1 DEF WantedIsSet
    <3>3. key[j].secret \notin known
      BY <3>2 DEF Holds
    <3> QED
      BY <1>1, <1>3, <2>3, <3>1, <3>2, <3>3
  <2> QED
    BY <2>1, <2>2, <2>3 DEF WantedIsSet
<1>4. CASE \E s \in Staff, k \in Keys : EditKey(s, k)
  <2>1. PICK s \in Staff, k \in Keys : EditKey(s, k)
    BY <1>4
  <2>2. UNCHANGED <<attached, wanted, known, key>> /\ staff[s] = Idle /\ Next
    BY <1>4, <2>1 DEF EditKey, Next, KeyStep, vars
  <2>3. \A u \in Staff, j \in Keys : /\ Creates(u, j)' <=> Creates(u, j)
                                     /\ Creates(u, j) => staff'[u] = staff[u]
    BY <1>0, <2>1, <2>2, EditAfter DEF Creates
  <2>4. \A j \in Keys, secret \in known' : Holds(j, secret)' => Holds(j, secret)
    BY <2>1, <2>2, EditAfter DEF Holds
  <2> QED
    BY <1>3, <2>2, <2>3, <2>4
<1>5. CASE \E k \in Keys : Rotate(k)
  <2>1. PICK k \in Keys : Rotate(k)
    BY <1>5
  <2>2. UNCHANGED <<attached, staff>> /\ known' = known \cup {secrets + 1} /\ Next
    BY <1>5, <2>1 DEF Rotate, Next, KeyStep, vars
  <2>3. \A j \in Keys : \/ j = k /\ key[k].secret \notin known /\ wanted'[j] = {}
                        \/ wanted'[j] = wanted[j] /\ (j = k => key[k].secret \in known)
    BY <2>1 DEF Rotate, TypeOK
  <2>4. ASSUME NEW j \in Keys, NEW secret \in known', Holds(j, secret)', j # k
        PROVE  secret \in known /\ Holds(j, secret)
    <3>1. Holds(j, secret)
      BY <2>1, <2>2, <2>4, RotateAfter DEF Holds
    <3>2. secret # secrets + 1
      <4>1. secrets + 1 \in Secret \ {0}
        BY <1>0, <2>1, ConstantsAssumption DEF Rotate, Secret
      <4> QED
        BY <1>0, <3>1, <4>1 DEF SecretsApart
    <3> QED
      BY <2>2, <3>1, <3>2
  <2>5. Holds(k, key[k].secret)
    BY DEF Holds
  <2>6. \A u \in Staff, j \in Keys : Creates(u, j)' <=> Creates(u, j)
    BY <2>2 DEF Creates
  <2> QED
    BY <1>3, <2>2, <2>3, <2>4, <2>5, <2>6
<1>6. CASE \E k \in Keys : Destroy(k) \/ RestoreKey(k) \/ Expire(k)
  <2>1. PICK k \in Keys : Destroy(k) \/ RestoreKey(k) \/ Expire(k)
    BY <1>6
  <2>2. UNCHANGED <<attached, wanted, staff, known>> /\ Next
    BY <1>6, <2>1 DEF Destroy, RestoreKey, Expire, Next, KeyStep, vars
  <2>3. \A j \in Keys, secret \in known' : Holds(j, secret)' => Holds(j, secret)
    BY <2>1, <2>2, SwitchAfter DEF Holds
  <2>4. \A u \in Staff, j \in Keys : Creates(u, j)' <=> Creates(u, j)
    BY <2>2 DEF Creates
  <2> QED
    BY <1>3, <2>2, <2>3, <2>4
<1>7. CASE Next /\ ~KeyStep
  <2>1. UNCHANGED <<attached, wanted, staff, known, key>>
    BY <1>7, KeysAlone DEF keyVars
  <2>2. /\ \A u \in Staff, j \in Keys : Creates(u, j)' <=> Creates(u, j)
        /\ \A j \in Keys, secret \in known' : Holds(j, secret)' => Holds(j, secret)
    BY <2>1 DEF Creates, Holds
  <2> QED
    BY <1>3, <1>7, <2>1, <2>2
<1>8. CASE UNCHANGED vars
  BY <1>8 DEF vars, keyVars, WantedIsSet, Creates, Holds
<1>9. CASE \E s \in Staff : Continues(s) /\ Next
  BY <1>9, WantedIsSetContinues
<1> QED
  BY <1>2, <1>4, <1>5, <1>6, <1>7, <1>8, <1>9 DEF Next, KeyStep, Continues

\* A change of key k: what requests rely on is still attached.
LEMMA SolidKept ==
  ASSUME TypeOK, SolidIsAttached, NEW k \in Keys, NEW kept, Change(k, kept),
         \A j \in Keys : j # k => attached'[j] = attached[j],
         \A t \in Requests : request[t] # Idle /\ request[t].key = k =>
                               request[t].solid \cap kept \subseteq attached'[k]
  PROVE  SolidIsAttached'
<1> SUFFICES ASSUME NEW t \in Requests, request'[t] # Idle
             PROVE  /\ request'[t].solid \subseteq attached'[request'[t].key]
                    /\ Seen(request'[t])
  BY DEF SolidIsAttached, Seen
<1>1. /\ request[t] # Idle
      /\ request'[t].stage = request[t].stage /\ request'[t].key = request[t].key
      /\ request'[t].manages = request[t].manages
      /\ request'[t].decision = request[t].decision
      /\ request'[t].solid = IF request[t].key = k THEN request[t].solid \cap kept
                             ELSE request[t].solid
  BY ChangeTyped
<1>2. request[t].solid \subseteq attached[request[t].key] /\ Seen(request[t])
  BY <1>1 DEF SolidIsAttached
<1>3. request[t].key \in Keys
  BY <1>1 DEF TypeOK, Asking
<1>4. Seen(request'[t])
  BY <1>1, <1>2 DEF Seen
<1> QED
  BY <1>1, <1>2, <1>3, <1>4

LEMMA SolidKeyStep ==
  ASSUME TypeOK, WorkHasSecret, WantedIsSet, SolidIsAttached, KeyStep
  PROVE  SolidIsAttached'
<1>1. CASE \E s \in Staff : CreateRoles(s) \/ CreatePermissions(s)
  <2>1. PICK s \in Staff, k \in Keys : /\ CreateRoles(s) \/ CreatePermissions(s)
                                       /\ k = staff[s].key
    BY <1>1, StaffAfter DEF Continues
  <2>2. Change(k, attached'[k] \cup wanted[k]) /\ Creates(s, k)
    BY <2>1 DEF CreateRoles, CreatePermissions, Creates
  <2>3. \A t \in Requests : request[t] # Idle /\ request[t].key = k =>
          request[t].solid \cap (attached'[k] \cup wanted[k]) \subseteq attached'[k]
    BY <2>2 DEF WantedIsSet
  <2>4. \A j \in Keys : j # k => attached'[j] = attached[j]
    BY <2>1, ScopeAfter DEF Continues
  <2> QED
    BY <2>2, <2>3, <2>4, SolidKept
<1>2. CASE \E s \in Staff : PatchRoles(s) \/ PatchPermissions(s) \/ AdminSave(s)
  <2>1. PICK s \in Staff, k \in Keys : /\ PatchRoles(s) \/ PatchPermissions(s) \/ AdminSave(s)
                                       /\ k = staff[s].key
    BY <1>2, StaffAfter DEF Continues
  <2>2. Change(k, attached[k] \cap attached'[k])
    BY <2>1 DEF PatchRoles, PatchPermissions, AdminSave
  <2>3. \A j \in Keys : j # k => attached'[j] = attached[j]
    BY <2>1, ScopeAfter DEF Continues
  <2> QED
    BY <2>2, <2>3, SolidKept
<1>3. CASE \/ \E s \in Staff, k \in Keys : Create(s, k)
           \/ \E s \in Staff : Fail(s) \/ PatchSave(s)
           \/ \E k \in Keys : Rotate(k) \/ Destroy(k) \/ RestoreKey(k) \/ Expire(k)
  <2>1. attached' = attached
    BY <1>3 DEF Create, Fail, PatchSave, Rotate, Destroy, RestoreKey, Expire
  <2>2. PICK k \in Keys : \E kept : Change(k, kept)
    BY <1>3, StaffAfter DEF Continues, Create, Fail, PatchSave, Rotate, Destroy, RestoreKey,
                            Expire
  <2>3. \A t \in Requests : request[t] # Idle => request[t].solid \subseteq attached[request[t].key]
    BY DEF SolidIsAttached
  <2> QED
    BY <2>1, <2>2, <2>3, SolidKept
<1>4. CASE \E s \in Staff, k \in Keys : EditKey(s, k)
  BY <1>4 DEF EditKey, SolidIsAttached, Seen
<1> QED
  BY <1>1, <1>2, <1>3, <1>4 DEF KeyStep

\* A request that asks about its scope learns what it holds.
LEMMA SolidRequestStep ==
  ASSUME TypeOK, WantedIsSet, SolidIsAttached, NEW t \in Requests, RequestStep(t)
  PROVE  SolidIsAttached'
<1>0. UNCHANGED <<attached, wanted, known>>
  BY DEF RequestStep, Authenticate, RecordUsage, ManageGuard, AskKeyPermissions, HasScopes,
         AskUserPermissions, Answer, keyVars
<1>1. ASSUME \A u \in Requests : u # t => request'[u] = request[u],
             request'[t] # Idle =>
               request'[t].solid \subseteq attached[request'[t].key] /\ Seen(request'[t])
      PROVE  SolidIsAttached'
  BY <1>0, <1>1 DEF SolidIsAttached, Seen
<1>2. CASE \/ RecordUsage(t) \/ ManageGuard(t) \/ HasScopes(t) \/ AskUserPermissions(t)
  <2>1. PICK stage \in Stages : Ask(t, stage)
    BY <1>2, RequestAsks
  <2>2. /\ request[t] # Idle
        /\ \A u \in Requests : u # t => request'[u] = request[u]
        /\ request'[t].stage = stage /\ request'[t].key = request[t].key
        /\ request'[t].manages = request[t].manages
        /\ request'[t].decision = request[t].decision
        /\ request'[t].solid = request[t].solid
    BY <1>2, <2>1, RequestAsks, AskTyped
  <2>3. /\ request[t].solid \subseteq attached[request[t].key] /\ Seen(request[t])
        /\ request[t].solid \subseteq Roles \cup Permissions
        /\ request[t].manages \in BOOLEAN
    BY <2>2 DEF SolidIsAttached, TypeOK, Asking, Scope
  <2>4. \A other \in Stages : Ask(t, other) => request'[t].stage = other
    BY <2>2, AskTyped
  <2>5. Seen(request'[t])
    <3>1. CASE RecordUsage(t)
      <4>1. request'[t].stage = IF request[t].manages THEN "managePermissions" ELSE "keyPermissions"
        BY <2>4, <3>1 DEF RecordUsage, Stages
      <4> QED
        BY <2>2, <4>1 DEF Seen
    <3>2. CASE ManageGuard(t)
      <4>1. \/ request'[t].stage = "denied"
            \/ request'[t].stage = "manageRoles" /\ ScopeRows(request[t].key, Permissions) = {}
            \/ /\ request[t].stage = "manageRoles" /\ request'[t].stage = "keyPermissions"
               /\ ScopeRows(request[t].key, Roles) = {}
        BY <2>4, <3>2 DEF ManageGuard, Stages
      <4> QED
        BY <2>2, <2>3, <4>1 DEF Seen, ScopeRows
    <3>3. CASE HasScopes(t)
      <4>1. /\ request[t].stage \in {"scopePermissions", "scopeRoles"}
            /\ \/ request'[t].stage = "denied"
               \/ /\ request'[t].stage \in {"allowed", "userPermissions"}
                  /\ \/ request[t].decision = "allow"
                     \/ /\ request[t].stage = "scopeRoles"
                        /\ ScopeRows(request[t].key, Roles) = {}
               \/ /\ request'[t].stage = "scopeRoles"
                  /\ ScopeRows(request[t].key, Permissions) = {}
        BY <2>4, <3>3 DEF HasScopes, Scoped, Through, Stages
      <4> QED
        BY <2>2, <2>3, <4>1 DEF Seen, ScopeRows
    <3>4. CASE AskUserPermissions(t)
      <4>1. /\ request[t].stage = "userPermissions"
            /\ request'[t].stage \in {"allowed", "denied"}
        BY <2>4, <3>4 DEF AskUserPermissions, Stages
      <4> QED
        BY <2>2, <2>3, <4>1 DEF Seen
    <3> QED
      BY <1>2, <3>1, <3>2, <3>3, <3>4
  <2> QED
    BY <1>1, <2>2, <2>3, <2>5
<1>3. CASE AskKeyPermissions(t)
  <2>1. /\ request[t].stage = "keyPermissions" /\ request[t] # Idle
        /\ request[t].solid \subseteq attached[request[t].key] /\ Seen(request[t])
    BY <1>3, DecisionRecorded DEF AskKeyPermissions, SolidIsAttached
  <2>2. Seen(request'[t])
    BY <1>3, <2>1, DecisionRecorded DEF Seen
  <2> QED
    BY <1>1, <1>3, <2>1, <2>2, DecisionRecorded
<1>4. CASE Answer(t)
  BY <1>1, <1>4 DEF Answer, TypeOK
<1>5. ASSUME NEW k \in Keys, Authenticate(t, k) PROVE SolidIsAttached'
  <2>1. key[k].secret \in known
    BY <1>5 DEF Authenticate
  <2>2. wanted[k] \subseteq attached[k]
    BY <2>1 DEF WantedIsSet, Holds
  <2> QED
    BY <1>1, <1>5, <2>2, Authenticated DEF Seen
<1> QED
  BY <1>2, <1>3, <1>4, <1>5 DEF RequestStep

\* Untouched scopes bind every request that is let through.
THEOREM ScopesBind == Spec => []ScopeBinds
<1>1. Init => IInv
  <2> SUFFICES ASSUME Init PROVE IInv
    OBVIOUS
  <2>1. /\ \A s \in Staff : staff[s].stage = "idle"
        /\ \A t \in Requests : request[t] = Idle
        /\ \A k \in Keys : wanted[k] = {}
    BY DEF Init, Idle
  <2>2. WantedIsSet /\ SolidIsAttached
    BY <2>1 DEF WantedIsSet, SolidIsAttached, Creates
  <2> QED
    BY <2>2, TypeInit, SecretsInit DEF IInv
<1>2. IInv /\ [Next]_vars => IInv'
  <2> SUFFICES ASSUME IInv, [Next]_vars PROVE IInv'
    OBVIOUS
  <2> USE DEF IInv
  <2>1. SolidIsAttached'
    <3>1. CASE KeyStep
      BY <3>1, SolidKeyStep
    <3>2. CASE ChangePolicy
      <4>1. attached' = attached
        BY <3>2 DEF ChangePolicy, keyVars
      <4> QED
        BY <3>2, <4>1, PolicyChanged DEF SolidIsAttached, Seen
    <3>3. CASE \E t \in Requests : RequestStep(t)
      BY <3>3, SolidRequestStep
    <3>4. CASE UNCHANGED vars
      BY <3>4 DEF vars, keyVars, SolidIsAttached, Seen
    <3> QED
      BY <3>1, <3>2, <3>3, <3>4 DEF Next
  <2> QED
    BY <2>1, TypeStep, WorkHasSecretStep, SecretsApartStep, RevokedIsGoneStep,
       WantedIsSetStep
<1>3. IInv => ScopeBinds
  <2> SUFFICES ASSUME IInv, NEW t \in Requests, request[t].stage = "allowed",
                      request[t].solid # {}
               PROVE  request[t].decision = "allow" /\ ~request[t].manages
    BY DEF ScopeBinds
  <2>1. request[t] # Idle
    BY DEF Idle
  <2> QED
    BY <2>1 DEF IInv, SolidIsAttached, Seen
<1> QED
  BY <1>1, <1>2, <1>3, PTL DEF Spec

-----------------------------------------------------------------------------
(* Requests that nothing disturbs *)

\* What the rules give, from what the questions are answered with: S is the
\* scope of the key, super the flag of the user, d and e the decisions of the
\* key's and of the user's permissions.
Due(q, S, super, d, e) == /\ super \/ e = "allow"
                          /\ S = {} \/ d = "allow"
                          /\ q.manages => S = {}

\* What a request that has come this far has found out.
Learned(q, S, super, d, e) ==
  /\ q.superuser = super
  /\ q.stage \in {"managePermissions", "manageRoles"} => q.manages
  /\ q.stage \in {"manageRoles", "scopeRoles"} => S \cap Permissions = {}
  /\ q.manages /\ q.stage \in {"keyPermissions", "scopePermissions", "scopeRoles",
                               "userPermissions"} => S = {}
  /\ q.stage \in {"scopePermissions", "scopeRoles", "userPermissions"} => q.decision = d
  /\ q.stage = "userPermissions" => ~super /\ (S = {} \/ d = "allow")
  /\ q.stage = "allowed" => Due(q, S, super, d, e)
  /\ q.stage = "denied" => ~Due(q, S, super, d, e)

\* As long as nothing has changed, it still holds.
Undisturbed(q) ==
  q.calm => Learned(q, attached[q.key], users[Owner[q.key]].superuser,
                    Decision(KeyPermissions(q.key)), Decision(UserPermissions(Owner[q.key])))

CalmIsUndisturbed == \A t \in Requests : request[t] # Idle => Undisturbed(request[t])

\* What the rules say of a key and of a user is what the queries decide.
LEMMA KeyMayIsDecision ==
  ASSUME TypeOK, NEW k \in Keys
  PROVE  KeyMay(k) <=> attached[k] = {} \/ Decision(KeyPermissions(k)) = "allow"
<1> DEFINE on(p) == \E x \in attached[k] :
                      x = p \/ (x \in Living(Roles) /\ <<x, p>> \in policy.rolePerms)
<1>1. policy.covers \subseteq Permissions
  BY DEF TypeOK, PolicyTypeOK, Policy
<1>2. ASSUME NEW p, NEW effect
      PROVE  p \in KeyPermissions(k) \cap policy.covers /\ policy.effect[p] = effect
               <=> p \in Permissions /\ on(p) /\ InForce(p, effect)
  BY <1>1, <1>2 DEF KeyPermissions, InForce, Living
<1>3. KeyMay(k) <=> (attached[k] # {} =>
        /\ \E p \in Permissions : on(p) /\ InForce(p, "ALLOW")
        /\ ~\E p \in Permissions : on(p) /\ InForce(p, "DENY"))
  BY DEF KeyMay
<1> HIDE DEF on
<1> QED
  BY <1>2, <1>3 DEF Decision

LEMMA UserMayIsDecision ==
  ASSUME TypeOK, NEW u \in Users
  PROVE  UserMay(u) <=> users[u].superuser \/ Decision(UserPermissions(u)) = "allow"
<1>1. policy.covers \subseteq Permissions
  BY DEF TypeOK, PolicyTypeOK, Policy
<1>2. ASSUME NEW p
      PROVE  p \in UserPermissions(u) <=> p \in Living(Permissions) /\ Reaches(p, u)
  BY DEF UserPermissions, Reaches, RolesOf, Living
<1>3. ASSUME NEW p, NEW effect
      PROVE  p \in UserPermissions(u) \cap policy.covers /\ policy.effect[p] = effect
               <=> p \in Permissions /\ Reaches(p, u) /\ InForce(p, effect)
  BY <1>1, <1>2, <1>3 DEF InForce, Living
<1> QED
  BY <1>3 DEF Decision, UserMay

\* Undisturbed looks at the request, the scopes, the policies and the users.
LEMMA UndisturbedKept ==
  ASSUME UNCHANGED <<attached, policy, users>>, NEW q
  PROVE  Undisturbed(q)' <=> Undisturbed(q)
  BY DEF Undisturbed, Decision, KeyPermissions, UserPermissions, Living

LEMMA CalmKept ==
  ASSUME \A t \in Requests : request'[t] # Idle =>
           \E n : n = request'[t] /\ Undisturbed(n)'
  PROVE  CalmIsUndisturbed'
<1> SUFFICES ASSUME NEW t \in Requests, request'[t] # Idle PROVE Undisturbed(request[t])'
  BY DEF CalmIsUndisturbed
<1>1. PICK n : n = request'[t] /\ Undisturbed(n)'
  OBVIOUS
<1> QED
  BY <1>1 DEF Undisturbed, Decision, KeyPermissions, UserPermissions, Living

\* A call that changes something ends the calm of every request.
LEMMA CalmDisturbed ==
  ASSUME \A t \in Requests : request'[t] # Idle => ~request'[t].calm
  PROVE  CalmIsUndisturbed'
  BY DEF CalmIsUndisturbed, Undisturbed

LEMMA CalmKeyStep ==
  ASSUME TypeOK, CalmIsUndisturbed, KeyStep
  PROVE  CalmIsUndisturbed'
<1>1. CASE \E s \in Staff, k \in Keys : EditKey(s, k)
  <2>1. UNCHANGED <<attached, policy, users, request>>
    BY <1>1 DEF KeyStep, EditKey, policyVars
  <2>2. ASSUME NEW t \in Requests, request'[t] # Idle
        PROVE  \E n : n = request'[t] /\ Undisturbed(n)'
    <3>1. PICK n : n = request[t]
      OBVIOUS
    <3>2. Undisturbed(n)
      BY <2>1, <2>2, <3>1 DEF CalmIsUndisturbed
    <3> QED
      BY <2>1, <3>1, <3>2, UndisturbedKept
  <2> QED
    BY <2>2, CalmKept
<1>2. CASE ~\E s \in Staff, k \in Keys : EditKey(s, k)
  <2>1. PICK k \in Keys : \E kept : Change(k, kept)
    <3>1. CASE \E s \in Staff : Continues(s)
      BY <3>1, StaffAfter DEF Continues, CreateRoles, CreatePermissions, Fail, PatchSave,
                              PatchRoles, PatchPermissions, AdminSave
    <3>2. CASE \/ \E s \in Staff, j \in Keys : Create(s, j)
               \/ \E j \in Keys : Rotate(j) \/ Destroy(j) \/ RestoreKey(j) \/ Expire(j)
      BY <3>2 DEF Create, Rotate, Destroy, RestoreKey, Expire
    <3> QED
      BY <1>2, <3>1, <3>2 DEF KeyStep, Continues
  <2>2. \A t \in Requests : request'[t] # Idle => ~request'[t].calm
    BY <2>1, ChangeTyped
  <2> QED
    BY <2>2, CalmDisturbed
<1> QED
  BY <1>1, <1>2

\* What a request learns from one question, when it is the request n after it:
\* S, super, d and e are what Due says they are.
LEMMA AskLearns ==
  ASSUME TypeOK, NEW t \in Requests, request[t] # Idle,
         RecordUsage(t) \/ ManageGuard(t) \/ HasScopes(t) \/ AskUserPermissions(t),
         NEW S \in Scope, NEW super \in BOOLEAN, NEW d, NEW e,
         S = attached[request[t].key],
         e = Decision(UserPermissions(Owner[request[t].key])),
         Learned(request[t], S, super, d, e)
  PROVE  Learned(request'[t], S, super, d, e)
<1>1. PICK stage \in Stages : Ask(t, stage)
  BY RequestAsks
<1>2. PICK q \in Asking : q = request[t]
  BY DEF TypeOK
<1>3. PICK n : n = request'[t]
  OBVIOUS
<1>4. /\ n.stage = stage /\ n.manages = q.manages /\ n.decision = q.decision
      /\ n.superuser = q.superuser
  BY <1>1, <1>2, <1>3, AskTyped
<1>5. \A other \in Stages : Ask(t, other) => n.stage = other
  BY <1>3, AskTyped
<1>6. Learned(q, S, super, d, e) /\ q.manages \in BOOLEAN /\ q.superuser = super
  BY <1>2 DEF Learned, Asking
<1>7. S \subseteq Roles \cup Permissions
  BY DEF Scope
<1>8. /\ ScopeRows(q.key, Permissions) = S \cap Permissions
      /\ ScopeRows(q.key, Roles) = S \cap Roles
  BY <1>2 DEF ScopeRows
<1> SUFFICES Learned(n, S, super, d, e)
  BY <1>3
<1>9. CASE RecordUsage(t)
  <2>1. n.stage = IF q.manages THEN "managePermissions" ELSE "keyPermissions"
    BY <1>2, <1>5, <1>9 DEF RecordUsage, Stages
  <2> QED
    BY <1>4, <1>6, <2>1 DEF Learned
<1>10. CASE ManageGuard(t)
  <2>1. CASE q.stage = "managePermissions"
    <3>1. n.stage = IF S \cap Permissions # {} THEN "denied" ELSE "manageRoles"
      BY <1>2, <1>5, <1>8, <1>10, <2>1 DEF ManageGuard, Stages
    <3> QED
      BY <1>4, <1>6, <2>1, <3>1 DEF Learned, Due
  <2>2. CASE q.stage = "manageRoles"
    <3>1. n.stage = IF S \cap Roles # {} THEN "denied" ELSE "keyPermissions"
      BY <1>2, <1>5, <1>8, <1>10, <2>2 DEF ManageGuard, Stages
    <3> QED
      BY <1>4, <1>6, <1>7, <2>2, <3>1 DEF Learned, Due
  <2> QED
    BY <1>2, <1>10, <2>1, <2>2 DEF ManageGuard
<1>11. CASE HasScopes(t)
  <2>1. \/ /\ q.stage = "scopePermissions" /\ S \cap Permissions # {}
           /\ n.stage = IF q.decision # "allow" THEN "denied"
                        ELSE IF super THEN "allowed" ELSE "userPermissions"
        \/ /\ q.stage = "scopePermissions" /\ S \cap Permissions = {}
           /\ n.stage = "scopeRoles"
        \/ /\ q.stage = "scopeRoles" /\ S \cap Roles # {}
           /\ n.stage = IF q.decision # "allow" THEN "denied"
                        ELSE IF super THEN "allowed" ELSE "userPermissions"
        \/ /\ q.stage = "scopeRoles" /\ S \cap Roles = {}
           /\ n.stage = IF super THEN "allowed" ELSE "userPermissions"
    BY <1>2, <1>5, <1>6, <1>8, <1>11 DEF HasScopes, Scoped, Through, Stages
  <2> QED
    BY <1>4, <1>6, <1>7, <2>1 DEF Learned, Due
<1>12. CASE AskUserPermissions(t)
  <2>1. q.stage = "userPermissions" /\ n.stage = IF e = "allow" THEN "allowed" ELSE "denied"
    BY <1>2, <1>5, <1>12 DEF AskUserPermissions, Stages
  <2> QED
    BY <1>4, <1>6, <2>1 DEF Learned, Due
<1> QED
  BY <1>9, <1>10, <1>11, <1>12

LEMMA CalmRequestStep ==
  ASSUME TypeOK, CalmIsUndisturbed, NEW t \in Requests, RequestStep(t)
  PROVE  CalmIsUndisturbed'
<1>0. UNCHANGED <<attached, policy, users>>
  BY DEF RequestStep, Authenticate, RecordUsage, ManageGuard, AskKeyPermissions, HasScopes,
         AskUserPermissions, Answer, keyVars, policyVars
<1>1. ASSUME \A u \in Requests : u # t => request'[u] = request[u],
             request'[t] # Idle => \E n : n = request'[t] /\ Undisturbed(n)
      PROVE  CalmIsUndisturbed'
  <2>1. ASSUME NEW u \in Requests, request'[u] # Idle
        PROVE  \E n : n = request'[u] /\ Undisturbed(n)'
    <3>1. PICK n : n = request'[u] /\ Undisturbed(n)
      BY <1>1, <2>1 DEF CalmIsUndisturbed
    <3> QED
      BY <1>0, <3>1, UndisturbedKept
  <2> QED
    BY <2>1, CalmKept
<1>2. ASSUME request[t] # Idle
      PROVE  /\ attached[request[t].key] \in Scope
             /\ users[Owner[request[t].key]].superuser \in BOOLEAN
  BY <1>2, ConstantsAssumption DEF TypeOK, Asking, PolicyTypeOK, Account
<1>3. CASE RecordUsage(t) \/ ManageGuard(t) \/ HasScopes(t) \/ AskUserPermissions(t)
  <2>1. PICK stage \in Stages : Ask(t, stage)
    BY <1>3, RequestAsks
  <2>2. /\ request[t] # Idle
        /\ \A u \in Requests : u # t => request'[u] = request[u]
        /\ request'[t].key = request[t].key /\ request'[t].calm = request[t].calm
    BY <1>3, <2>1, RequestAsks, AskTyped
  <2>3. PICK n : n = request'[t]
    OBVIOUS
  <2>4. Undisturbed(n)
    BY <1>2, <1>3, <2>2, <2>3, AskLearns DEF CalmIsUndisturbed, Undisturbed
  <2> QED
    BY <1>1, <2>2, <2>3, <2>4
<1>4. CASE AskKeyPermissions(t)
  <2>1. /\ request[t].stage = "keyPermissions" /\ request[t] # Idle
        /\ Undisturbed(request[t])
    BY <1>4, DecisionRecorded DEF AskKeyPermissions, CalmIsUndisturbed
  <2>2. PICK n : n = request'[t]
    OBVIOUS
  <2>3. Undisturbed(n)
    BY <1>4, <2>1, <2>2, DecisionRecorded DEF Undisturbed, Learned
  <2> QED
    BY <1>1, <1>4, <2>2, <2>3, DecisionRecorded
<1>5. CASE Answer(t)
  BY <1>1, <1>5 DEF Answer, TypeOK
<1>6. ASSUME NEW k \in Keys, Authenticate(t, k) PROVE CalmIsUndisturbed'
  <2>1. PICK n : n = request'[t]
    OBVIOUS
  <2>2. Undisturbed(n)
    BY <1>6, <2>1, Authenticated DEF Undisturbed, Learned
  <2> QED
    BY <1>1, <1>6, <2>1, <2>2, Authenticated
<1> QED
  BY <1>3, <1>4, <1>5, <1>6 DEF RequestStep

\* Without a change in between, the answer is the one the rules give.
THEOREM CalmAnswersAreRight == Spec => []CalmAnswerIsRight
<1>1. Init => CalmIsUndisturbed
  BY DEF Init, CalmIsUndisturbed
<1>2. TypeOK /\ CalmIsUndisturbed /\ [Next]_vars => CalmIsUndisturbed'
  <2> SUFFICES ASSUME TypeOK, CalmIsUndisturbed, [Next]_vars PROVE CalmIsUndisturbed'
    OBVIOUS
  <2>1. CASE KeyStep
    BY <2>1, CalmKeyStep
  <2>2. CASE ChangePolicy
    BY <2>2, PolicyChanged, CalmDisturbed
  <2>3. CASE \E t \in Requests : RequestStep(t)
    BY <2>3, CalmRequestStep
  <2>4. CASE UNCHANGED vars
    <3>1. UNCHANGED <<attached, policy, users, request>>
      BY <2>4 DEF vars, keyVars, policyVars
    <3>2. ASSUME NEW t \in Requests, request'[t] # Idle
          PROVE  \E n : n = request'[t] /\ Undisturbed(n)'
      <4>1. PICK n : n = request[t]
        OBVIOUS
      <4>2. Undisturbed(n)
        BY <3>1, <3>2, <4>1 DEF CalmIsUndisturbed
      <4> QED
        BY <3>1, <4>1, <4>2, UndisturbedKept
    <3> QED
      BY <3>2, CalmKept
  <2> QED
    BY <2>1, <2>2, <2>3, <2>4 DEF Next
<1>3. TypeOK /\ CalmIsUndisturbed => CalmAnswerIsRight
  <2> SUFFICES ASSUME TypeOK, CalmIsUndisturbed, NEW t \in Requests,
                      request[t].stage \in {"allowed", "denied"}, request[t].calm
               PROVE  request[t].stage = "allowed" <=>
                        /\ UserMay(Owner[request[t].key]) /\ KeyMay(request[t].key)
                        /\ request[t].manages => attached[request[t].key] = {}
    BY DEF CalmAnswerIsRight
  <2>1. request[t] # Idle
    BY DEF Idle
  <2>2. request[t].key \in Keys /\ Owner[request[t].key] \in Users
    BY <2>1, ConstantsAssumption DEF TypeOK, Asking
  <2>3. Undisturbed(request[t])
    BY <2>1 DEF CalmIsUndisturbed
  <2>4. request[t].stage = "allowed" <=>
          Due(request[t], attached[request[t].key], users[Owner[request[t].key]].superuser,
              Decision(KeyPermissions(request[t].key)),
              Decision(UserPermissions(Owner[request[t].key])))
    BY <2>3 DEF Undisturbed, Learned
  <2> QED
    BY <2>2, <2>4, KeyMayIsDecision, UserMayIsDecision DEF Due
<1> QED
  BY <1>1, <1>2, <1>3, TypeCorrect, PTL DEF Spec
=============================================================================
