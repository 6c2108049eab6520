----------------------------- MODULE IPBlocklist -----------------------------
(***************************************************************************)
(* apps/throttling: the blocklist entries of one IP address and the        *)
(* verdict cached for it, under the checks ThrottlingMiddleware makes for  *)
(* every request and the edits of the staff.                               *)
(*                                                                         *)
(* An address may have several entries: nothing makes ip_address unique,   *)
(* and update_or_create looks before it inserts.  The newest living active *)
(* entry decides.  Reading it, judging whether it has expired, taking it   *)
(* out of effect and storing the verdict are separate steps of a check,    *)
(* writing the entries and touching the cache separate calls of the staff, *)
(* and others may come between.                                            *)
(*                                                                         *)
(* The cache is a parameter: with Redis all processes share one, with the  *)
(* default LocMemCache each has its own, and a request reads and writes    *)
(* only that of the process that serves it.                                *)
(*                                                                         *)
(* Time passes in ticks.  The 60 seconds of a cached verdict are not       *)
(* counted: it may go at any moment, and goes in the end.  Reasons are     *)
(* left out.  An edit of ip_address is a deletion here for the address it  *)
(* leaves and an insertion for the one it comes to, where the entry is     *)
(* taken to be the newest.                                                 *)
(***************************************************************************)
EXTENDS Naturals, Sequences, FiniteSets, FiniteSetsExt

CONSTANTS
  Checks,   \* requests whose address is being checked
  Staff,    \* requests of the staff, and the admin site
  Caches,   \* one for every process, or one for all
  CacheOf,  \* the cache of the process that serves a request
  MaxTime,  \* bound: the clock stops here
  MaxRows   \* bound: entries ever inserted

ASSUME ConstantsAssumption ==
  /\ CacheOf \in [Checks \cup Staff -> Caches]
  /\ MaxTime \in Nat /\ MaxRows \in Nat

VARIABLES
  now,       \* timezone.now()
  rows,      \* the entries, in the order of created_at
  cache,     \* the verdict in each cache
  check,     \* what each check is about to do
  staff,     \* what each member of the staff is about to do
  held,      \* history: the entry block_ip wrote last, 0 when something has
             \* lifted that block, or was about to
  promise,   \* history: the expiry it wrote
  confirmed  \* history: it has returned, and these caches and their checks
             \* held no older verdict then

vars == <<now, rows, cache, check, staff, held, promise, confirmed>>

NoExpiry == MaxTime + 1    \* expires_at is null
Until    == 1..NoExpiry    \* some in the past by now: no serializer refuses one
Entry    == [live : BOOLEAN, active : BOOLEAN, until : Until]
Verdict  == {"allow", "block"}

\* A deleted entry.  Its other columns are left out: nothing reads them, and
\* what brings an entry back writes them all.
Deleted == [live |-> FALSE, active |-> FALSE, until |-> NoExpiry]

Idle == [stage |-> "idle"]

CheckStage == {Idle} \cup [stage : {"query"}]
                     \cup [stage : {"judge"}, row : 1..MaxRows, until : Until]
                     \cup [stage : {"deactivate"}, row : 1..MaxRows]
                     \cup [stage : {"store"}, verdict : Verdict]
StaffStage == {Idle} \cup [stage : {"lookup", "insert"}, until : Until]
                     \cup [stage : {"cacheBlock"}]
                     \cup [stage : {"cacheDelete"}, row : 0..MaxRows]
                     \cup [stage : {"softDelete", "edit"}, row : 1..MaxRows]

TypeOK ==
  /\ now \in 0..MaxTime
  /\ rows \in Seq(Entry) /\ Len(rows) <= MaxRows
  /\ cache \in [Caches -> Verdict \cup {"none"}]
  /\ check \in [Checks -> CheckStage]
  /\ staff \in [Staff -> StaffStage]
  /\ held \in 0..MaxRows
  /\ promise \in 0..NoExpiry
  /\ confirmed \subseteq Caches

Init ==
  /\ now = 0
  /\ rows = <<>>
  /\ cache = [k \in Caches |-> "none"]
  /\ check = [c \in Checks |-> Idle]
  /\ staff = [s \in Staff |-> Idle]
  /\ held = 0
  /\ promise = 0
  /\ confirmed = {}

-----------------------------------------------------------------------------
Living == {i \in DOMAIN rows : rows[i].live}

\* Mutant of Expired: a tick too soon.
ExpiredEarly(until) == now + 1 >= until

\* is_expired, for an expiry read from the table; the clock is read here.
Expired(until) == now >= until

\* The entries is_ip_blocked asks for; the newest comes first.
InEffect == {i \in Living : rows[i].active}

Newest == Max(InEffect)

\* What a check that misses the cache finds in the table.
TableVerdict ==
  IF InEffect # {} /\ ~Expired(rows[Newest].until) THEN "block" ELSE "allow"

\* Somebody holds a copy of the entry as it was before, and is about to judge
\* it, overwrite it or delete it.
Claimed(i) ==
  \/ \E c \in Checks : check[c].stage \in {"judge", "deactivate"} /\ check[c].row = i
  \/ \E s \in Staff : /\ staff[s].stage \in {"cacheDelete", "softDelete", "edit"}
                      /\ staff[s].row = i

-----------------------------------------------------------------------------
(* ThrottlingMiddleware: is_ip_blocked *)

CheckDo(c, stage) == check' = [check EXCEPT ![c] = stage]

\* Nothing is cached for the address.  (A cached verdict changes nothing.)
CheckMiss(c) ==
  /\ check[c] = Idle
  /\ cache[CacheOf[c]] = "none"
  /\ CheckDo(c, [stage |-> "query"])
  /\ UNCHANGED <<now, rows, cache, staff, held, promise, confirmed>>

Query(c) ==
  /\ check[c].stage = "query"
  /\ CheckDo(c, IF InEffect = {} THEN [stage |-> "store", verdict |-> "allow"]
                ELSE [stage |-> "judge", row |-> Newest, until |-> rows[Newest].until])
  /\ UNCHANGED <<now, rows, cache, staff, held, promise, confirmed>>

\* The copy is judged, whatever the entry has become.
Judge(c) ==
  /\ check[c].stage = "judge"
  /\ CheckDo(c, IF Expired(check[c].until) THEN [stage |-> "deactivate", row |-> check[c].row]
                ELSE [stage |-> "store", verdict |-> "block"])
  /\ UNCHANGED <<now, rows, cache, staff, held, promise, confirmed>>

\* save(update_fields): is_active alone, whatever the entry has become.
Deactivate(c) ==
  /\ check[c].stage = "deactivate"
  /\ rows' = [rows EXCEPT ![check[c].row].active = FALSE]
  /\ CheckDo(c, [stage |-> "store", verdict |-> "allow"])
  /\ UNCHANGED <<now, cache, staff, held, promise, confirmed>>

StoreVerdict(c) ==
  /\ check[c].stage = "store"
  /\ cache' = [cache EXCEPT ![CacheOf[c]] = check[c].verdict]
  /\ CheckDo(c, Idle)
  /\ UNCHANGED <<now, rows, staff, held, promise, confirmed>>

-----------------------------------------------------------------------------
StaffDo(s, stage) == staff' = [staff EXCEPT ![s] = stage]

\* block_ip has written entry i.
Blocked(i, until) ==
  /\ held' = IF Claimed(i) THEN 0 ELSE i
  /\ promise' = IF Claimed(i) THEN 0 ELSE until
  /\ confirmed' = {}

\* The entries in S are no longer what block_ip has left, or not alone.
Altered(S) ==
  /\ held' = IF held \in S THEN 0 ELSE held
  /\ promise' = IF held \in S THEN 0 ELSE promise
  /\ confirmed' = {}

(* POST block/: block_ip with or without a duration. *)

Block(s) ==
  /\ staff[s] = Idle
  /\ \E until \in (now + 1)..NoExpiry :
       StaffDo(s, [stage |-> "lookup", until |-> until])
  /\ UNCHANGED <<now, rows, cache, check, held, promise, confirmed>>

\* update_or_create finds the one living entry and locks it, and writes it in
\* the same transaction ...
BlockUpdate(s) ==
  /\ staff[s].stage = "lookup"
  /\ \E i \in Living :
       /\ Living = {i}
       /\ rows' = [rows EXCEPT ![i] = [live |-> TRUE, active |-> TRUE,
                                       until |-> staff[s].until]]
       /\ Blocked(i, staff[s].until)
  /\ StaffDo(s, [stage |-> "cacheBlock"])
  /\ UNCHANGED <<now, cache, check>>

\* ... or finds none and has nothing to lock ...
BlockMiss(s) ==
  /\ staff[s].stage = "lookup"
  /\ Living = {}
  /\ StaffDo(s, [staff[s] EXCEPT !.stage = "insert"])
  /\ UNCHANGED <<now, rows, cache, check, held, promise, confirmed>>

BlockInsert(s) ==
  /\ staff[s].stage = "insert"
  /\ Len(rows) < MaxRows
  /\ rows' = Append(rows, [live |-> TRUE, active |-> TRUE, until |-> staff[s].until])
  /\ Blocked(Len(rows) + 1, staff[s].until)
  /\ StaffDo(s, [stage |-> "cacheBlock"])
  /\ UNCHANGED <<now, cache, check>>

\* ... or finds several: MultipleObjectsReturned, and the request fails.
BlockAmbiguous(s) ==
  /\ staff[s].stage = "lookup"
  /\ Cardinality(Living) > 1
  /\ StaffDo(s, Idle)
  /\ UNCHANGED <<now, rows, cache, check, held, promise, confirmed>>

\* A check holds a verdict, or a copy of an entry, other than that of the
\* block of record.
Outdated(stage) ==
  \/ stage.stage = "deactivate"
  \/ stage = [stage |-> "store", verdict |-> "allow"]
  \/ stage.stage = "judge" /\ stage.row # held

\* block_ip returns.  Another process may have cached a pass, and a check that
\* has read the table before the block may still store one.
Return(s) ==
  /\ StaffDo(s, Idle)
  /\ confirmed' = {k \in Caches : /\ Living = {held}
                                  /\ k = CacheOf[s] \/ cache[k] # "allow"
                                  /\ \A c \in Checks :
                                       CacheOf[c] = k => ~Outdated(check[c])}

\* Mutant of BlockCache: the verdict is left to the next check.
BlockCacheLeft(s) ==
  /\ staff[s].stage = "cacheBlock"
  /\ Return(s)
  /\ UNCHANGED <<now, rows, cache, check, held, promise>>

BlockCache(s) ==
  /\ staff[s].stage = "cacheBlock"
  /\ cache' = [cache EXCEPT ![CacheOf[s]] = "block"]
  /\ Return(s)
  /\ UNCHANGED <<now, rows, check, held, promise>>

(* POST: perform_create saves a new entry, with the expiry and the activity  *)
(* the request gave, and then calls block_ip without a duration.             *)

Create(s) ==
  /\ staff[s] = Idle
  /\ Len(rows) < MaxRows
  /\ \E until \in Until, active \in BOOLEAN :
       rows' = Append(rows, [live |-> TRUE, active |-> active, until |-> until])
  /\ StaffDo(s, [stage |-> "lookup", until |-> NoExpiry])
  /\ Altered({})
  /\ UNCHANGED <<now, cache, check>>

(* unblock_ip, for POST unblock/, the admin's action and perform_destroy. *)

Unblock(s) ==
  /\ staff[s] = Idle
  /\ \E i \in Living : \/ StaffDo(s, [stage |-> "cacheDelete", row |-> 0])
                       \/ StaffDo(s, [stage |-> "cacheDelete", row |-> i])
  /\ rows' = [i \in DOMAIN rows |->
                IF i \in InEffect THEN [rows[i] EXCEPT !.active = FALSE] ELSE rows[i]]
  /\ Altered(DOMAIN rows)
  /\ UNCHANGED <<now, cache, check>>

\* Mutant of UnblockCache: every unblock goes on to delete an entry.
UnblockCacheDeletes(s) ==
  /\ staff[s].stage = "cacheDelete"
  /\ cache' = [cache EXCEPT ![CacheOf[s]] = "none"]
  /\ StaffDo(s, [staff[s] EXCEPT !.stage = "softDelete"])
  /\ UNCHANGED <<now, rows, check, held, promise, confirmed>>

\* perform_destroy goes on to delete the entry it was called for.
UnblockCache(s) ==
  /\ staff[s].stage = "cacheDelete"
  /\ cache' = [cache EXCEPT ![CacheOf[s]] = "none"]
  /\ StaffDo(s, IF staff[s].row = 0 THEN Idle ELSE [staff[s] EXCEPT !.stage = "softDelete"])
  /\ UNCHANGED <<now, rows, check, held, promise, confirmed>>

SoftDelete(s) ==
  /\ staff[s].stage = "softDelete"
  /\ rows' = [rows EXCEPT ![staff[s].row] = Deleted]
  /\ Altered({staff[s].row})
  /\ StaffDo(s, Idle)
  /\ UNCHANGED <<now, cache, check>>

(* PUT and PATCH, and the admin's form: the entry is read, and all of its    *)
(* columns are written back; the cache is not touched.  The form may set     *)
(* is_deleted, the API writes back that the entry was living.                *)

EditRead(s) ==
  /\ staff[s] = Idle
  /\ \E i \in Living : StaffDo(s, [stage |-> "edit", row |-> i])
  /\ UNCHANGED <<now, rows, cache, check, held, promise, confirmed>>

EditSave(s) ==
  /\ staff[s].stage = "edit"
  /\ \/ \E active \in BOOLEAN, until \in Until :
          rows' = [rows EXCEPT ![staff[s].row] =
                     [live |-> TRUE, active |-> active, until |-> until]]
     \/ rows' = [rows EXCEPT ![staff[s].row] = Deleted]
  /\ Altered({staff[s].row})
  /\ StaffDo(s, Idle)
  /\ UNCHANGED <<now, cache, check>>

\* The admin's form for a new entry, or an edit that moves another entry to
\* this address: block_ip is not called.
AdminAdd ==
  /\ Len(rows) < MaxRows
  /\ \E until \in Until, active \in BOOLEAN :
       rows' = Append(rows, [live |-> TRUE, active |-> active, until |-> until])
  /\ Altered({})
  /\ UNCHANGED <<now, cache, check, staff>>

\* The admin's deletions: of one entry, or of the selected ones in bulk.
AdminDelete ==
  \E S \in (SUBSET Living) \ {{}} :
    /\ rows' = [i \in DOMAIN rows |-> IF i \in S THEN Deleted ELSE rows[i]]
    /\ Altered(S)
    /\ UNCHANGED <<now, cache, check, staff>>

-----------------------------------------------------------------------------
\* Mutant of CacheExpires: cache.set without a timeout.
CacheExpiresNever(k) == FALSE

\* timeout=60
CacheExpires(k) ==
  /\ cache[k] # "none"
  /\ cache' = [cache EXCEPT ![k] = "none"]
  /\ UNCHANGED <<now, rows, check, staff, held, promise, confirmed>>

Tick ==
  /\ now < MaxTime
  /\ now' = now + 1
  /\ UNCHANGED <<rows, cache, check, staff, held, promise, confirmed>>

CheckStep(c) == Query(c) \/ Judge(c) \/ Deactivate(c) \/ StoreVerdict(c)
StaffStep(s) == \/ BlockUpdate(s) \/ BlockMiss(s) \/ BlockInsert(s)
                \/ BlockAmbiguous(s) \/ BlockCache(s)
                \/ UnblockCache(s) \/ SoftDelete(s) \/ EditSave(s)

Next ==
  \/ \E c \in Checks : CheckMiss(c) \/ CheckStep(c)
  \/ \E s \in Staff : Block(s) \/ Create(s) \/ Unblock(s) \/ EditRead(s) \/ StaffStep(s)
  \/ \E k \in Caches : CacheExpires(k)
  \/ AdminAdd \/ AdminDelete \/ Tick

Spec == Init /\ [][Next]_vars

\* A call once begun is carried on, and cached verdicts do time out; nobody
\* has to begin anything, and no time has to pass.
FairSpec == /\ Spec
            /\ \A c \in Checks : WF_vars(CheckStep(c))
            /\ \A s \in Staff : WF_vars(StaffStep(s))
            /\ \A k \in Caches : WF_vars(CacheExpires(k))

-----------------------------------------------------------------------------
(* Properties *)

\* Until it expires, the entry block_ip wrote stays as it wrote it, unless
\* somebody edits, unblocks or deletes it afterwards, or was about to.  A
\* check that reads the table after the block never undoes it: only one that
\* had read the entry before it was renewed can, and judges the old expiry.
BlockSurvives ==
  held # 0 /\ now < promise =>
    /\ held \in DOMAIN rows
    /\ rows[held] = [live |-> TRUE, active |-> TRUE, until |-> promise]

\* Once block_ip has returned with that entry alone, no process lets the
\* address pass, from its cache or from the table, before the block expires or
\* is altered, unless its cache held a pass then or one of its checks had read
\* the table before the block.  Of the process that blocked the address its
\* cache never does; another's goes on giving its old pass for up to a minute.
ConfirmedBlockIsEnforced ==
  confirmed # {} /\ now < promise =>
    /\ TableVerdict = "block"
    /\ \A k \in confirmed : cache[k] # "allow"
    /\ \A c \in Checks : CacheOf[c] \in confirmed =>
                            check[c] # [stage |-> "store", verdict |-> "allow"]

\* Whatever races, once the table keeps giving one verdict the caches stop
\* giving the other: a lifted or expired block is not enforced for ever, and
\* a stale pass does not outlast its timeout.
CacheFollowsTable ==
  \A v \in Verdict :
    <>[](TableVerdict = v) => <>[](\A k \in Caches : cache[k] \in {v, "none"})
=============================================================================
