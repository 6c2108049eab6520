----------------------------- MODULE SystemConfig -----------------------------
(***************************************************************************)
(* apps/system_config: the rows of SystemConfig and the copies of their    *)
(* values in the Django cache, under reads, writes, renames, deletions and *)
(* purges.                                                                 *)
(*                                                                         *)
(* Saving a row and deleting its cache entries are separate calls to two   *)
(* stores, and so are reading a row and caching or saving it.              *)
(* ConfigService.set writes inside the transaction of update_or_create and *)
(* evicts before it commits; every other write commits first and evicts    *)
(* afterwards.  With the default LocMemCache each process has a cache of   *)
(* its own.                                                                *)
(*                                                                         *)
(* A value is the number of the write that stored it; all rows are public. *)
(* The entry of a key in the cache and that of the dictionary of all       *)
(* public values have names of one form, and nothing keeps a key from      *)
(* being "all_public": then both share the entry.  Bulk updates are        *)
(* updates of single rows followed by a purge.                             *)
(***************************************************************************)
EXTENDS Naturals, Sequences, FiniteSets

CONSTANTS
  Keys,         \* configuration keys
  Processes,    \* server or worker processes, serving one call at a time
  SharedCache,  \* one cache for all processes, or one for each
  MaxWrites     \* bound: writes in a behaviour

ASSUME ConstantsAssumption == SharedCache \in BOOLEAN /\ MaxWrites \in Nat

AllPublic  == "all_public"
Entries    == Keys \cup {AllPublic}
Caches     == IF SharedCache THEN {"shared"} ELSE Processes
CacheOf(p) == IF SharedCache THEN "shared" ELSE p

VARIABLES
  row,        \* the committed row of each key: its value, 0 for no row
  id,         \* its primary key: the number of the write that created it
  deleted,    \* the keys whose row is soft-deleted
  cache,      \* cache[c][e]: what is cached in entry e
  proc,       \* what each process is in the middle of
  log,        \* history: the keys of the writes so far, in their order
  overlapped, \* history: two calls have been in progress together
  bypassed    \* history: entries whose rows have changed without an eviction,
              \* nor a deletion of the entry since

vars == <<row, id, deleted, cache, proc, log, overlapped, bypassed>>

Value   == 0..MaxWrites
Nothing == [kind |-> "nothing"]
Content == {Nothing} \cup [kind : {"value"}, value : Value]
                     \cup [kind : {"public"}, values : [Keys -> Value]]
Idle    == [stage |-> "idle"]
Call    == [stage : {"fill"}, entry : Entries, content : Content]
             \cup [stage : {"update", "delete", "restore"}, key : Keys, id : Value]
             \cup [stage : {"evict", "set"}, key : Keys, todo : Seq(Entries)]
             \cup [stage : {"purge"}, todo : SUBSET Keys]

TypeOK ==
  /\ row \in [Keys -> Value]
  /\ id \in [Keys -> Value]
  /\ deleted \in SUBSET Keys
  /\ cache \in [Caches -> [Entries -> Content]]
  /\ proc \in [Processes -> Call \cup {Idle}]
  /\ log \in Seq(Keys) /\ Len(log) <= MaxWrites
  /\ overlapped \in BOOLEAN
  /\ bypassed \in SUBSET Entries

Init ==
  /\ row = [k \in Keys |-> 0]
  /\ id = [k \in Keys |-> 0]
  /\ deleted = {}
  /\ cache = [c \in Caches |-> [e \in Entries |-> Nothing]]
  /\ proc = [p \in Processes |-> Idle]
  /\ log = <<>>
  /\ overlapped = FALSE
  /\ bypassed = {}

-----------------------------------------------------------------------------
Busy(p) == proc[p] # Idle

\* What SystemConfig.objects finds: 0 where there is no living row.
Live(k) == IF k \in deleted THEN 0 ELSE row[k]

\* What get and get_public_configs cache.
ValueOf(k) == [kind |-> "value", value |-> Live(k)]
PublicConfigs == [kind |-> "public", values |-> [k \in Keys |-> Live(k)]]

\* update_or_create holds the row of its key until it commits.
Locked(k) == \E p \in Processes : proc[p].stage = "set" /\ proc[p].key = k

Start(p, call) ==
  /\ ~Busy(p)
  /\ proc' = [proc EXCEPT ![p] = call]
  /\ overlapped' = (overlapped \/ \E q \in Processes : Busy(q))

Goes(p, call) ==
  /\ proc' = [proc EXCEPT ![p] = call]
  /\ UNCHANGED overlapped

\* Mutants of Evict: a wrong name for the dictionary; the dictionary forgotten.
EvictMisnamed(k) == [stage |-> "evict", key |-> k, todo |-> <<k, "public">>]
EvictKeyOnly(k) == [stage |-> "evict", key |-> k, todo |-> <<k>>]

Evict(k) == [stage |-> "evict", key |-> k, todo |-> <<k, AllPublic>>]

\* delete() and restore() evict twice: in the save they end in, and again.
EvictTwice(k) == [Evict(k) EXCEPT !.todo = <<k, AllPublic, k, AllPublic>>]

Written(k, del) ==
  /\ Len(log) < MaxWrites
  /\ log' = Append(log, k)
  /\ deleted' = IF del THEN deleted \cup {k} ELSE deleted \ {k}

Stores(k) == row' = [row EXCEPT ![k] = Len(log')]

-----------------------------------------------------------------------------
(* ConfigService.get and get_public_configs on a cache miss: the query ... *)

Get(p, k) ==
  /\ cache[CacheOf(p)][k] = Nothing
  /\ Live(k) # 0
  /\ Start(p, [stage |-> "fill", entry |-> k, content |-> ValueOf(k)])
  /\ UNCHANGED <<row, id, deleted, cache, log, bypassed>>

GetPublicConfigs(p) ==
  /\ cache[CacheOf(p)][AllPublic] = Nothing
  /\ Start(p, [stage |-> "fill", entry |-> AllPublic, content |-> PublicConfigs])
  /\ UNCHANGED <<row, id, deleted, cache, log, bypassed>>

(* ... and cache.set with its result. *)

Fill(p) ==
  /\ proc[p].stage = "fill"
  /\ cache' = [cache EXCEPT ![CacheOf(p)][proc[p].entry] = proc[p].content]
  /\ Goes(p, Idle)
  /\ UNCHANGED <<row, id, deleted, log, bypassed>>

-----------------------------------------------------------------------------
\* Creating through the API; the key is unique, deleted rows included.
Create(p, k) ==
  /\ id[k] = 0 /\ ~Locked(k)
  /\ Written(k, FALSE)
  /\ Stores(k)
  /\ id' = [id EXCEPT ![k] = Len(log')]
  /\ Start(p, Evict(k))
  /\ UNCHANGED <<cache, bypassed>>

(* Every other write but set reads its row first.  The living rows can be    *)
(* updated, alone or in bulk, and deleted; restore finds deleted ones too.   *)

ReadRow(p, stage, k) ==
  /\ id[k] # 0
  /\ stage # "restore" => k \notin deleted
  /\ Start(p, [stage |-> stage, key |-> k, id |-> id[k]])
  /\ UNCHANGED <<row, id, deleted, cache, log, bypassed>>

\* The row p has read is that of k by now, and not locked.
Finds(p, k) == id[k] = proc[p].id /\ ~Locked(k)

(* PUT, PATCH, a bulk update's item, the admin's form: all columns of the    *)
(* copy are written, is_deleted among them, and the key: the row is that of  *)
(* new from here on, and only its entry is evicted.  The form can set        *)
(* is_deleted, the others write back that the row was living.                *)

UpdateWrite(p, old, new, del) ==
  /\ proc[p].stage = "update"
  /\ Finds(p, old)
  /\ new = old \/ (id[new] = 0 /\ ~Locked(new))
  /\ Len(log) < MaxWrites
  /\ log' = Append(log, new)
  /\ row' = [row EXCEPT ![old] = 0, ![new] = Len(log')]
  /\ id' = [id EXCEPT ![old] = 0, ![new] = id[old]]
  /\ deleted' = (deleted \ {old}) \cup {k \in {new} : del}
  /\ bypassed' = bypassed \cup ({old} \ {new})
  /\ Goes(p, Evict(new))
  /\ UNCHANGED cache

\* Another row has the new key: the key is unique, and the request fails.
UpdateRefused(p, old, new) ==
  /\ proc[p].stage = "update"
  /\ Finds(p, old)
  /\ new # old /\ id[new] # 0 /\ ~Locked(new)
  /\ Goes(p, Idle)
  /\ UNCHANGED <<row, id, deleted, cache, log, bypassed>>

\* delete() and restore() write is_deleted alone, and evict the key they read.
FlagWrite(p, k) ==
  /\ proc[p].stage \in {"delete", "restore"}
  /\ Finds(p, k)
  /\ Written(k, proc[p].stage = "delete")
  /\ bypassed' = bypassed \cup ({k} \ {proc[p].key})
  /\ Goes(p, EvictTwice(proc[p].key))
  /\ UNCHANGED <<row, id, cache>>

\* Mutant of SetConfig: the new value is cached before it is committed.
SetWritesThrough(p, k) ==
  /\ ~Locked(k) /\ Len(log) < MaxWrites
  /\ Start(p, [Evict(k) EXCEPT !.stage = "set"])
  /\ cache' = [cache EXCEPT ![CacheOf(p)][k] =
                 [kind |-> "value", value |-> Len(log) + 1]]
  /\ UNCHANGED <<row, id, deleted, log, bypassed>>

\* ConfigService.set: the row is locked and written, the cache evicted ...
SetConfig(p, k) ==
  /\ ~Locked(k)
  /\ Start(p, [Evict(k) EXCEPT !.stage = "set"])
  /\ UNCHANGED <<row, id, deleted, cache, log, bypassed>>

\* ... and only then is the write committed.
SetCommit(p) ==
  LET k == proc[p].key IN
  /\ proc[p].stage = "set" /\ proc[p].todo = <<>>
  /\ Written(k, FALSE)
  /\ Stores(k)
  /\ id' = IF id[k] = 0 THEN [id EXCEPT ![k] = Len(log')] ELSE id
  /\ Goes(p, Idle)
  /\ UNCHANGED <<cache, bypassed>>

\* The admin's bulk deletion is one UPDATE of the QuerySet: no save(), no
\* eviction.
DeleteSelected(k) ==
  /\ Live(k) # 0 /\ ~Locked(k)
  /\ Written(k, TRUE)
  /\ bypassed' = bypassed \cup {k, AllPublic}
  /\ overlapped' = (overlapped \/ \E q \in Processes : Busy(q))
  /\ UNCHANGED <<row, id, cache, proc>>

PurgeCache(p) ==
  /\ Start(p, [stage |-> "purge", todo |-> {k \in Keys : id[k] # 0}])
  /\ UNCHANGED <<row, id, deleted, cache, log, bypassed>>

-----------------------------------------------------------------------------
(* cache.delete *)

Drop(c, e) ==
  /\ cache' = [cache EXCEPT ![c][e] = Nothing]
  /\ bypassed' = bypassed \ {e}

\* The next deletion of invalidate_cache.
InvalidateCache(p) ==
  LET todo == proc[p].todo IN
  /\ proc[p].stage \in {"evict", "set"} /\ todo # <<>>
  /\ Drop(CacheOf(p), Head(todo))
  /\ Goes(p, IF proc[p].stage = "evict" /\ Len(todo) = 1
             THEN Idle ELSE [proc[p] EXCEPT !.todo = Tail(todo)])
  /\ UNCHANGED <<row, id, deleted, log>>

\* The next deletion of purge_cache: the keys that have rows, deleted ones
\* included, then the dictionary.
PurgeNext(p) ==
  /\ proc[p].stage = "purge"
  /\ \/ \E k \in proc[p].todo :
          /\ Drop(CacheOf(p), k)
          /\ Goes(p, [proc[p] EXCEPT !.todo = @ \ {k}])
     \/ /\ proc[p].todo = {}
        /\ Drop(CacheOf(p), AllPublic)
        /\ Goes(p, Idle)
  /\ UNCHANGED <<row, id, deleted, log>>

\* Mutant of Expire: entries are cached for ever.
ExpireNever(c, e) == FALSE

\* CACHE_TIMEOUT: an entry leaves on its own after a day.
Expire(c, e) ==
  /\ cache[c][e] # Nothing
  /\ Drop(c, e)
  /\ UNCHANGED <<row, id, deleted, proc, log, overlapped>>

-----------------------------------------------------------------------------
Continue(p) ==
  \/ Fill(p) \/ SetCommit(p) \/ InvalidateCache(p) \/ PurgeNext(p)
  \/ \E k \in Keys : \/ FlagWrite(p, k)
                     \/ \E new \in Keys : \/ UpdateRefused(p, k, new)
                                          \/ \E del \in BOOLEAN : UpdateWrite(p, k, new, del)

Next ==
  \/ \E p \in Processes :
       \/ \E k \in Keys : \/ Get(p, k) \/ Create(p, k) \/ SetConfig(p, k)
                          \/ \E stage \in {"update", "delete", "restore"} : ReadRow(p, stage, k)
       \/ GetPublicConfigs(p) \/ PurgeCache(p)
       \/ Continue(p)
  \/ \E k \in Keys : DeleteSelected(k)
  \/ \E c \in Caches, e \in Entries : Expire(c, e)

Spec == Init /\ [][Next]_vars

\* A call once begun is carried on, and entries do time out; nobody has to
\* begin anything.
FairSpec == /\ Spec
            /\ \A p \in Processes : WF_vars(Continue(p))
            /\ \A c \in Caches, e \in Entries : WF_vars(Expire(c, e))

-----------------------------------------------------------------------------
(* Properties *)

\* What entry e may hold without misleading its readers: what one of those
\* who fill it would store there now.  (A key "all_public" shares its entry
\* with the dictionary: fresh or not, each then reads what the other stored.)
Right(e) == {Nothing} \cup {ValueOf(k) : k \in Keys \cap {e}}
                      \cup {d \in {PublicConfigs} : e = AllPublic}

Quiet == \A p \in Processes : ~Busy(p)

\* With one cache for all and no two calls at once, a cache never answers
\* with anything but the living rows: updates, deletions, restorations and
\* transactional sets all leave it empty or right.  The exceptions, until the
\* entry is evicted or times out, are what a bulk deletion leaves, and the
\* entry of the old key when an update has renamed a row: save() evicts the
\* new key's, and the purge has no row to find the old one by.
FreshWhenSerial ==
  SharedCache /\ ~overlapped /\ Quiet =>
    \A c \in Caches, e \in Entries \ bypassed : cache[c][e] \in Right(e)

\* Whatever races, what a cache holds for a key was once committed for that
\* key: never another key's value, nor one that set has still to commit.
Committed(k, v) == v = 0 \/ (v \in DOMAIN log /\ log[v] = k)

NothingUncommitted ==
  \A c \in Caches, e \in Entries :
    LET held == cache[c][e] IN
    /\ held.kind = "value" => Committed(e, held.value)
    /\ held.kind = "public" => \A k \in Keys : Committed(k, held.values[k])

\* Whatever races, and with a cache in each process too, stale entries die
\* out once the writes have stopped.
SettlesFresh == <>[](\A c \in Caches, e \in Entries : cache[c][e] \in Right(e))
=============================================================================
