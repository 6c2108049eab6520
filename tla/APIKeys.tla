------------------------------- MODULE APIKeys -------------------------------
(***************************************************************************)
(* apps/api_keys on top of apps/iam: the life of API keys and the requests *)
(* made with them, from APIKeyAuthentication through HasIAMPermission to   *)
(* the answer, while the staff edits keys, policies and users.             *)
(*                                                                         *)
(* A request reads the key and its user once and then asks four or six     *)
(* questions about scopes and permissions, each a query of its own.        *)
(* Creating and editing a key writes its row, its roles and its            *)
(* permissions by separate statements that no transaction joins.           *)
(*                                                                         *)
(* A secret stands for the prefix and the secret portion together.         *)
(* The user of a key is a constant: the admin's form may change it, which  *)
(* is left out.                                                            *)
(* Requests that are refused before any permission is looked at, for their *)
(* address among other reasons, change nothing and are left out.           *)
(***************************************************************************)
EXTENDS Naturals, Policies

CONSTANTS
  Keys,        \* API keys
  Owner,       \* the user each belongs to
  Staff,       \* threads that manage keys
  Requests,    \* threads that serve requests made with keys
  MaxSecrets,  \* bound: secrets ever generated
  MaxChanges   \* bound: calls that change keys, policies or users

ASSUME ConstantsAssumption ==
  /\ Owner \in [Keys -> Users]
  /\ Keys \cap Item = {} /\ Roles \cap Permissions = {}
  /\ MaxSecrets \in Nat /\ MaxChanges \in Nat

VARIABLES
  key,       \* the row of each key; its secret is 0 before it is created
  attached,  \* the roles and permissions attached to each key
  staff,     \* what each management thread is in the middle of
  request,   \* what each request is about to ask
  secrets,   \* secrets generated so far
  known,     \* the secrets that have been returned to somebody
  changes,   \* calls so far that change anything
  dead,      \* history: secrets replaced while no edit held a copy of them
  revoked,   \* history: keys deleted while no edit held a copy of them
  wanted     \* history: the scopes a key was created with, until it is edited

keyVars == <<key, attached, staff, secrets, known, dead, revoked, wanted>>
vars == <<keyVars, request, changes, policyVars>>

Secret == 0..MaxSecrets
Scope  == SUBSET (Roles \cup Permissions)
Row    == [secret : Secret, active : BOOLEAN, live : BOOLEAN, expired : BOOLEAN]
Idle   == [stage |-> "idle"]

StaffStage ==
  {Idle} \cup [stage : {"createRoles", "createPermissions"}, key : Keys, scope : Scope]
         \cup [stage : {"edit"}, key : Keys, secret : Secret, active : BOOLEAN]
         \cup [stage : {"setRoles", "setPermissions"}, key : Keys, scope : Scope]

\* A request that has authenticated: the secret and the superuser flag it
\* read, and the decision of the key's own permissions once it is known.
\* History: the part of the key's scope that nobody has touched since, and
\* whether nothing at all has changed since.
Asking == [stage     : {"usage", "managePermissions", "manageRoles", "keyPermissions",
                        "scopePermissions", "scopeRoles", "userPermissions",
                        "allowed", "denied"},
           key       : Keys,
           secret    : Secret,
           manages   : BOOLEAN,
           superuser : BOOLEAN,
           decision  : {"allow", "deny", "none"},
           solid     : Scope,
           calm      : BOOLEAN]

TypeOK ==
  /\ PolicyTypeOK
  /\ key \in [Keys -> Row]
  /\ attached \in [Keys -> Scope]
  /\ staff \in [Staff -> StaffStage]
  /\ request \in [Requests -> Asking \cup {Idle}]
  /\ secrets \in Secret
  /\ known \in SUBSET Secret
  /\ changes \in 0..MaxChanges
  /\ dead \in SUBSET Secret
  /\ revoked \in SUBSET Keys
  /\ wanted \in [Keys -> Scope]

Init ==
  /\ PolicyInit
  /\ key = [k \in Keys |-> [secret |-> 0, active |-> TRUE, live |-> FALSE,
                            expired |-> FALSE]]
  /\ attached = [k \in Keys |-> {}]
  /\ staff = [s \in Staff |-> Idle]
  /\ request = [t \in Requests |-> Idle]
  /\ secrets = 0
  /\ known = {}
  /\ changes = 0
  /\ dead = {}
  /\ revoked = {}
  /\ wanted = [k \in Keys |-> {}]

-----------------------------------------------------------------------------
\* A call that changes something: what requests in progress can still rely
\* on of the scope of key k is what is in kept.
Change(k, kept) ==
  request' = [t \in Requests |->
    IF request[t] = Idle THEN Idle
    ELSE [request[t] EXCEPT !.calm = FALSE,
                            !.solid = IF request[t].key = k THEN @ \cap kept ELSE @]]

Counted == changes < MaxChanges /\ changes' = changes + 1

\* set() replaces the attachments it sees, which are those of living rows.
SetTo(k, kind, S) == (attached[k] \ Living(kind)) \cup S

StaffDo(s, stage) == staff' = [staff EXCEPT ![s] = stage]

\* An edit has read the row of k and will write it back.
Claimed(k) == \E s \in Staff : staff[s].stage = "edit" /\ staff[s].key = k

-----------------------------------------------------------------------------
(* POST: generate_key *)

Create(s, k) ==
  /\ staff[s] = Idle
  /\ key[k].secret = 0
  /\ Counted
  /\ secrets < MaxSecrets /\ secrets' = secrets + 1
  /\ key' = [key EXCEPT ![k] = [secret |-> secrets + 1, active |-> TRUE,
                                live |-> TRUE, expired |-> FALSE]]
  /\ \E S \in SUBSET Living(Roles \cup Permissions) :
       /\ wanted' = [wanted EXCEPT ![k] = S]
       /\ StaffDo(s, [stage |-> "createRoles", key |-> k, scope |-> S])
  /\ Change(k, Roles \cup Permissions)
  /\ UNCHANGED <<attached, known, dead, revoked>>

CreateRoles(s) ==
  LET k == staff[s].key  S == staff[s].scope \cap Roles IN
  /\ staff[s].stage = "createRoles"
  /\ attached' = [attached EXCEPT ![k] = IF S = {} THEN @ ELSE SetTo(k, Roles, S)]
  /\ StaffDo(s, [staff[s] EXCEPT !.stage = "createPermissions"])
  /\ Change(k, attached'[k] \cup wanted[k])
  /\ UNCHANGED <<key, secrets, known, changes, dead, revoked, wanted>>

\* The last statement; the raw key is returned only now.
CreatePermissions(s) ==
  LET k == staff[s].key  S == staff[s].scope \cap Permissions IN
  /\ staff[s].stage = "createPermissions"
  /\ attached' = [attached EXCEPT ![k] = IF S = {} THEN @ ELSE SetTo(k, Permissions, S)]
  /\ known' = known \cup {key[k].secret}
  /\ StaffDo(s, Idle)
  /\ Change(k, attached'[k] \cup wanted[k])
  /\ UNCHANGED <<key, secrets, changes, dead, revoked, wanted>>

\* The process dies, or a statement fails.  A key that was being created
\* stays, with the scopes it has got so far.
Fail(s) ==
  /\ staff[s] # Idle
  /\ wanted' = [wanted EXCEPT ![staff[s].key] = {}]
  /\ StaffDo(s, Idle)
  /\ Change(staff[s].key, attached[staff[s].key])
  /\ UNCHANGED <<key, attached, secrets, known, changes, dead, revoked>>

(* PATCH, and the admin's form *)

EditKey(s, k) ==
  /\ staff[s] = Idle
  /\ key[k].live
  /\ Counted
  /\ StaffDo(s, [stage |-> "edit", key |-> k, secret |-> key[k].secret,
                 active |-> key[k].active])
  /\ UNCHANGED <<key, attached, request, secrets, known, dead, revoked, wanted>>

\* save() writes all columns, the prefix, the hash and is_deleted as they
\* were read; expires_at and is_active may be changed.
Saved(c, live) ==
  \E active \in {c.active, ~key[c.key].active}, expired \in {FALSE, key[c.key].expired} :
    key' = [key EXCEPT ![c.key] = [secret |-> c.secret, active |-> active,
                                   live |-> live, expired |-> expired]]

\* The serializer goes on to set the roles and the permissions it was given.
PatchSave(s) ==
  /\ staff[s].stage = "edit"
  /\ Saved(staff[s], TRUE)
  /\ \/ StaffDo(s, Idle)
     \/ \E S \in SUBSET Living(Roles \cup Permissions), stage \in {"setRoles", "setPermissions"} :
          StaffDo(s, [stage |-> stage, key |-> staff[s].key, scope |-> S])
  /\ Change(staff[s].key, Roles \cup Permissions)
  /\ UNCHANGED <<attached, secrets, known, changes, dead, revoked, wanted>>

PatchRoles(s) ==
  LET k == staff[s].key IN
  /\ staff[s].stage = "setRoles"
  /\ attached' = [attached EXCEPT ![k] = SetTo(k, Roles, staff[s].scope \cap Roles)]
  /\ wanted' = [wanted EXCEPT ![k] = {}]
  /\ \/ StaffDo(s, Idle)
     \/ StaffDo(s, [staff[s] EXCEPT !.stage = "setPermissions"])
  /\ Change(k, attached[k] \cap attached'[k])
  /\ UNCHANGED <<key, secrets, known, changes, dead, revoked>>

PatchPermissions(s) ==
  LET k == staff[s].key IN
  /\ staff[s].stage = "setPermissions"
  /\ attached' = [attached EXCEPT ![k] =
                    SetTo(k, Permissions, staff[s].scope \cap Permissions)]
  /\ wanted' = [wanted EXCEPT ![k] = {}]
  /\ StaffDo(s, Idle)
  /\ Change(k, attached[k] \cap attached'[k])
  /\ UNCHANGED <<key, secrets, known, changes, dead, revoked>>

\* The admin's form is one transaction; it may set is_deleted as well.
AdminSave(s) ==
  LET k == staff[s].key IN
  /\ staff[s].stage = "edit"
  /\ \E live \in BOOLEAN : Saved(staff[s], live)
  /\ \E S \in SUBSET Living(Roles \cup Permissions) :
       attached' = [attached EXCEPT ![k] = SetTo(k, Roles \cup Permissions, S)]
  /\ wanted' = [wanted EXCEPT ![k] = {}]
  /\ StaffDo(s, Idle)
  /\ Change(k, attached[k] \cap attached'[k])
  /\ UNCHANGED <<secrets, known, changes, dead, revoked>>

\* POST rotate/: the prefix and the hash alone are saved.
Rotate(k) ==
  /\ key[k].live
  /\ Counted
  /\ secrets < MaxSecrets /\ secrets' = secrets + 1
  /\ key' = [key EXCEPT ![k].secret = secrets + 1]
  /\ known' = known \cup {secrets + 1}
  /\ dead' = IF Claimed(k) THEN dead ELSE dead \cup {key[k].secret}
  /\ wanted' = IF key[k].secret \in known THEN wanted ELSE [wanted EXCEPT ![k] = {}]
  /\ Change(k, attached[k])
  /\ UNCHANGED <<attached, staff, revoked>>

\* DELETE and POST restore/: is_deleted alone is saved.
Destroy(k) ==
  /\ key[k].live
  /\ Counted
  /\ key' = [key EXCEPT ![k].live = FALSE]
  /\ revoked' = IF Claimed(k) THEN revoked ELSE revoked \cup {k}
  /\ Change(k, Roles \cup Permissions)
  /\ UNCHANGED <<attached, staff, secrets, known, dead, wanted>>

RestoreKey(k) ==
  /\ key[k].secret # 0
  /\ Counted
  /\ key' = [key EXCEPT ![k].live = TRUE]
  /\ revoked' = revoked \ {k}
  /\ Change(k, Roles \cup Permissions)
  /\ UNCHANGED <<attached, staff, secrets, known, dead, wanted>>

\* expires_at passes.
Expire(k) ==
  /\ key[k].live /\ ~key[k].expired
  /\ Counted
  /\ key' = [key EXCEPT ![k].expired = TRUE]
  /\ Change(k, Roles \cup Permissions)
  /\ UNCHANGED <<attached, staff, secrets, known, dead, revoked, wanted>>

ChangePolicy ==
  /\ PolicyChange
  /\ Counted
  /\ request' = [t \in Requests |-> IF request[t] = Idle THEN Idle
                                    ELSE [request[t] EXCEPT !.calm = FALSE]]
  /\ UNCHANGED keyVars

-----------------------------------------------------------------------------
(* A request with a key *)

\* What authenticate requires of the row and its user.
Accepts(k, secret) ==
  /\ key[k].secret = secret /\ key[k].live /\ key[k].active /\ ~key[k].expired
  /\ users[Owner[k]].active /\ users[Owner[k]].live

\* get_api_key_effective_permissions
KeyPermissions(k) ==
  {p \in Living(Permissions) :
     \/ p \in attached[k]
     \/ \E r \in Living(Roles) : r \in attached[k] /\ <<r, p>> \in policy.rolePerms}

\* Mutant of ScopeRows: a deleted permission is no scope.
ScopeRowsLiving(k, kind) == attached[k] \cap Living(kind)

\* What has_scopes asks of one join table: deleted rows count.
ScopeRows(k, kind) == attached[k] \cap kind

Ask(t, stage) == request' = [request EXCEPT ![t].stage = stage]

Authenticate(t, k) ==
  /\ request[t] = Idle
  /\ key[k].secret \in known
  /\ Accepts(k, key[k].secret)
  /\ \E manages \in BOOLEAN :
       request' = [request EXCEPT ![t] =
         [stage |-> "usage", key |-> k, secret |-> key[k].secret, manages |-> manages,
          superuser |-> users[Owner[k]].superuser, decision |-> "none",
          solid |-> attached[k] \cup wanted[k], calm |-> TRUE]]
  /\ UNCHANGED <<keyVars, changes, policyVars>>

\* Mutant of RecordUsage: the whole row is saved, as it was read.
RecordUsageSavesAll(t) ==
  /\ request[t].stage = "usage"
  /\ key' = [key EXCEPT ![request[t].key] = [secret |-> request[t].secret,
                          active |-> TRUE, live |-> TRUE, expired |-> FALSE]]
  /\ Ask(t, IF request[t].manages THEN "managePermissions" ELSE "keyPermissions")
  /\ UNCHANGED <<attached, staff, secrets, known, dead, revoked, wanted, changes,
                 policyVars>>

\* record_usage saves the two columns about the last use, and no others.
RecordUsage(t) ==
  /\ request[t].stage = "usage"
  /\ Ask(t, IF request[t].manages THEN "managePermissions" ELSE "keyPermissions")
  /\ UNCHANGED <<keyVars, changes, policyVars>>

\* has_permission on an unsafe method of a view that manages scopes.
ManageGuard(t) ==
  LET k == request[t].key IN
  /\ \/ /\ request[t].stage = "managePermissions"
        /\ Ask(t, IF ScopeRows(k, Permissions) # {} THEN "denied" ELSE "manageRoles")
     \/ /\ request[t].stage = "manageRoles"
        /\ Ask(t, IF ScopeRows(k, Roles) # {} THEN "denied" ELSE "keyPermissions")
  /\ UNCHANGED <<keyVars, changes, policyVars>>

\* evaluate_permission: the permissions of the key ...
AskKeyPermissions(t) ==
  /\ request[t].stage = "keyPermissions"
  /\ request' = [request EXCEPT ![t].stage = "scopePermissions",
                                ![t].decision = Decision(KeyPermissions(request[t].key))]
  /\ UNCHANGED <<keyVars, changes, policyVars>>

\* The key lets the request through; a superuser needs nothing else.
Through(t) == Ask(t, IF request[t].superuser THEN "allowed" ELSE "userPermissions")

\* The key has scopes.
Scoped(t) == IF request[t].decision = "allow" THEN Through(t) ELSE Ask(t, "denied")

\* ... has_scopes, first the permissions, then the roles ...
HasScopes(t) ==
  LET k == request[t].key IN
  /\ \/ /\ request[t].stage = "scopePermissions"
        /\ IF ScopeRows(k, Permissions) # {} THEN Scoped(t) ELSE Ask(t, "scopeRoles")
     \/ /\ request[t].stage = "scopeRoles"
        /\ IF ScopeRows(k, Roles) # {} THEN Scoped(t) ELSE Through(t)
  /\ UNCHANGED <<keyVars, changes, policyVars>>

\* ... and the permissions of the user.
AskUserPermissions(t) ==
  /\ request[t].stage = "userPermissions"
  /\ Ask(t, IF Decision(UserPermissions(Owner[request[t].key])) = "allow"
            THEN "allowed" ELSE "denied")
  /\ UNCHANGED <<keyVars, changes, policyVars>>

Answer(t) ==
  /\ request[t].stage \in {"allowed", "denied"}
  /\ request' = [request EXCEPT ![t] = Idle]
  /\ UNCHANGED <<keyVars, changes, policyVars>>

-----------------------------------------------------------------------------
KeyStep ==
  /\ \/ \E s \in Staff : \/ \E k \in Keys : Create(s, k) \/ EditKey(s, k)
                         \/ CreateRoles(s) \/ CreatePermissions(s) \/ Fail(s)
                         \/ PatchSave(s) \/ PatchRoles(s) \/ PatchPermissions(s)
                         \/ AdminSave(s)
     \/ \E k \in Keys : Rotate(k) \/ Destroy(k) \/ RestoreKey(k) \/ Expire(k)
  /\ UNCHANGED policyVars

RequestStep(t) ==
  \/ \E k \in Keys : Authenticate(t, k)
  \/ RecordUsage(t) \/ ManageGuard(t) \/ AskKeyPermissions(t) \/ HasScopes(t)
  \/ AskUserPermissions(t) \/ Answer(t)

Next == KeyStep \/ ChangePolicy \/ \E t \in Requests : RequestStep(t)

Spec == Init /\ [][Next]_vars

-----------------------------------------------------------------------------
(* Properties *)

\* A secret that was rotated away, and a key that was deleted, are not
\* accepted any more: no request in progress, no restoration and no edit
\* brings a secret back, and only a restoration brings a key back.  An edit
\* that had read the row before the rotation or the deletion is the
\* exception: it writes the old row back.
RevokedIsRefused ==
  \A k \in Keys, secret \in Secret \ {0} :
    secret \in dead \/ k \in revoked => ~Accepts(k, secret)

\* A part of the key's scope that stays in place during the whole request
\* binds it, even when the roles and permissions it names are deleted: the
\* request is let through only if they allow it, and never to a view that
\* manages scopes.  Scopes asked for when the key was created are in place
\* before anybody has the key.
ScopeBinds ==
  \A t \in Requests :
    request[t].stage = "allowed" /\ request[t].solid # {} =>
      request[t].decision = "allow" /\ ~request[t].manages

\* The policies that reach a user, along the paths the models describe.
RolesOf(u) ==
  LET groups == {g \in Living(Groups) : <<g, u>> \in policy.members}
  IN  {r \in Living(Roles) : \/ <<r, u>> \in policy.roleUsers
                              \/ \E g \in groups : <<g, r>> \in policy.groupRoles}

Reaches(p, u) ==
  \/ <<p, u>> \in policy.direct
  \/ \E r \in RolesOf(u) : <<r, p>> \in policy.rolePerms
  \/ \E g \in Living(Groups) : <<g, u>> \in policy.members /\ <<g, p>> \in policy.groupPerms

InForce(p, effect) == /\ p \in Living(policy.covers)
                      /\ policy.effect[p] = effect

\* The rules evaluate_permission documents: an explicit DENY denies, then an
\* explicit ALLOW allows, and the default is to deny; a scoped key must pass
\* them on its own, and superusers need pass no others.
UserMay(u) ==
  \/ users[u].superuser
  \/ /\ \E p \in Permissions : Reaches(p, u) /\ InForce(p, "ALLOW")
     /\ ~\E p \in Permissions : Reaches(p, u) /\ InForce(p, "DENY")

KeyMay(k) ==
  LET on(p) == \E x \in attached[k] :
                 x = p \/ (x \in Living(Roles) /\ <<x, p>> \in policy.rolePerms)
  IN  attached[k] # {} =>
        /\ \E p \in Permissions : on(p) /\ InForce(p, "ALLOW")
        /\ ~\E p \in Permissions : on(p) /\ InForce(p, "DENY")

\* A request during which nothing has changed gets the answer those rules
\* give, whatever the history of keys, policies and users was.
CalmAnswerIsRight ==
  \A t \in Requests :
    LET q == request[t] IN
    q.stage \in {"allowed", "denied"} /\ q.calm =>
      (q.stage = "allowed" <=> /\ UserMay(Owner[q.key]) /\ KeyMay(q.key)
                               /\ q.manages => attached[q.key] = {})
=============================================================================
