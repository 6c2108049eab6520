--------------------------- MODULE SystemConfigProofs ---------------------------
(***************************************************************************)
(* Proofs about SystemConfig for any keys (one named "all_public" among    *)
(* them or not), processes and writes, with one cache or with one for each *)
(* process: nothing uncommitted is ever cached, a shared cache is right as *)
(* long as calls do not overlap, but for what renames and bulk deletions   *)
(* leave, and what is right everywhere is made stale by nothing but a      *)
(* write.                                                                  *)
(***************************************************************************)
EXTENDS SystemConfig, TLAPS

-----------------------------------------------------------------------------
(* Calls and caches *)

LEMMA CallRecord ==
  ASSUME NEW a \in Call \cup {Idle}
  PROVE  /\ a.stage = "idle" <=> a = Idle
         /\ a.stage \in {"idle", "fill", "update", "delete", "restore", "evict", "set", "purge"}
         /\ a.stage = "fill" => a.entry \in Entries /\ a.content \in Content
         /\ a.stage \in {"update", "delete", "restore"} => a.key \in Keys /\ a.id \in Value
         /\ a.stage \in {"evict", "set"} =>
              /\ a.key \in Keys /\ a.todo \in Seq(Entries)
              /\ a = [stage |-> a.stage, key |-> a.key, todo |-> a.todo]
         /\ a.stage = "purge" => /\ a.todo \in SUBSET Keys
                                 /\ a = [stage |-> "purge", todo |-> a.todo]
  BY DEF Call, Idle

LEMMA ContentRecord ==
  ASSUME NEW d \in Content
  PROVE  /\ d.kind = "value" => d.value \in Value
         /\ d.kind = "public" => d.values \in [Keys -> Value]
  BY DEF Content, Nothing

LEMMA Evictions ==
  ASSUME NEW k \in Keys
  PROVE  /\ Evict(k) = [stage |-> "evict", key |-> k, todo |-> <<k, AllPublic>>]
         /\ EvictTwice(k) =
              [stage |-> "evict", key |-> k, todo |-> <<k, AllPublic, k, AllPublic>>]
         /\ [Evict(k) EXCEPT !.stage = "set"] =
              [stage |-> "set", key |-> k, todo |-> <<k, AllPublic>>]
         /\ Evict(k) \in Call /\ EvictTwice(k) \in Call
         /\ [Evict(k) EXCEPT !.stage = "set"] \in Call
         /\ Evict(k).stage = "evict" /\ Evict(k).todo = <<k, AllPublic>>
         /\ EvictTwice(k).stage = "evict"
         /\ EvictTwice(k).todo = <<k, AllPublic, k, AllPublic>>
<1>1. Evict(k) = [stage |-> "evict", key |-> k, todo |-> <<k, AllPublic>>]
  BY DEF Evict
<1>2. EvictTwice(k) = [stage |-> "evict", key |-> k, todo |-> <<k, AllPublic, k, AllPublic>>]
  BY <1>1 DEF EvictTwice
<1>3. [Evict(k) EXCEPT !.stage = "set"] =
        [stage |-> "set", key |-> k, todo |-> <<k, AllPublic>>]
  BY <1>1
<1>4. \A stage \in {"evict", "set"}, todo \in Seq(Entries) :
        [stage |-> stage, key |-> k, todo |-> todo] \in Call
  BY DEF Call
<1>5. k \in Entries /\ AllPublic \in Entries
  BY DEF Entries
<1>6. <<k, AllPublic>> \in Seq(Entries) /\ <<k, AllPublic, k, AllPublic>> \in Seq(Entries)
  BY <1>5
<1>7. \A stage \in {"evict", "set"} :
        /\ [stage |-> stage, key |-> k, todo |-> <<k, AllPublic>>] \in Call
        /\ [stage |-> stage, key |-> k, todo |-> <<k, AllPublic, k, AllPublic>>] \in Call
  BY <1>4, <1>6
<1>8. /\ Evict(k).stage = "evict" /\ Evict(k).todo = <<k, AllPublic>>
      /\ EvictTwice(k).stage = "evict"
      /\ EvictTwice(k).todo = <<k, AllPublic, k, AllPublic>>
  BY <1>1, <1>2
<1> QED
  BY <1>1, <1>2, <1>3, <1>7, <1>8

\* An entry that awaits its deletion is the next one, or awaits it still.
LEMMA HeadOrTail ==
  ASSUME NEW todo \in Seq(Entries), todo # <<>>, NEW i \in DOMAIN todo
  PROVE  /\ Head(todo) \in Entries /\ Tail(todo) \in Seq(Entries)
         /\ \/ todo[i] = Head(todo)
            \/ Len(todo) # 1 /\ \E j \in DOMAIN Tail(todo) : Tail(todo)[j] = todo[i]
<1>1. Len(todo) \in Nat \ {0} /\ DOMAIN todo = 1..Len(todo)
  OBVIOUS
<1>2. CASE i = 1
  BY <1>1, <1>2
<1>3. CASE i # 1
  <2>1. i - 1 \in 1..(Len(todo) - 1) /\ Len(todo) # 1
    BY <1>1, <1>3
  <2>2. DOMAIN Tail(todo) = 1..(Len(todo) - 1) /\ Tail(todo)[i - 1] = todo[i]
    BY <1>1, <2>1
  <2> QED
    BY <1>1, <2>1, <2>2
<1> QED
  BY <1>2, <1>3

LEMMA ProcSet ==
  ASSUME TypeOK, NEW p \in Processes, NEW a \in Call \cup {Idle},
         proc' = [proc EXCEPT ![p] = a]
  PROVE  /\ proc' \in [Processes -> Call \cup {Idle}]
         /\ proc'[p] = a
         /\ \A q \in Processes : q # p => proc'[q] = proc[q]
  BY DEF TypeOK

LEMMA StartAfter ==
  ASSUME TypeOK, NEW p \in Processes, NEW a \in Call, Start(p, a)
  PROVE  /\ proc' \in [Processes -> Call \cup {Idle}]
         /\ proc[p] = Idle /\ proc'[p] = a
         /\ \A q \in Processes : q # p => proc'[q] = proc[q]
         /\ overlapped' \in BOOLEAN
         /\ ~overlapped' => ~overlapped /\ \A q \in Processes : proc[q] = Idle
  BY ProcSet DEF Start, Busy, TypeOK

LEMMA CachesOf ==
  ASSUME NEW p \in Processes
  PROVE  /\ CacheOf(p) \in Caches
         /\ SharedCache => CacheOf(p) = "shared" /\ Caches = {"shared"}
  BY ConstantsAssumption DEF CacheOf, Caches

LEMMA DropAfter ==
  ASSUME TypeOK, NEW c \in Caches, NEW e \in Entries, Drop(c, e)
  PROVE  /\ cache' \in [Caches -> [Entries -> Content]]
         /\ \A d \in Caches, f \in Entries :
              cache'[d][f] = IF d = c /\ f = e THEN Nothing ELSE cache[d][f]
         /\ bypassed' = bypassed \ {e} /\ bypassed' \in SUBSET Entries
<1>1. Nothing \in Content
  BY DEF Content
<1> QED
  BY <1>1 DEF Drop, TypeOK

LEMMA FillAfter ==
  ASSUME TypeOK, NEW p \in Processes, Fill(p)
  PROVE  /\ proc[p].entry \in Entries /\ proc[p].content \in Content
         /\ cache' \in [Caches -> [Entries -> Content]]
         /\ \A d \in Caches, f \in Entries :
              cache'[d][f] = IF d = CacheOf(p) /\ f = proc[p].entry
                             THEN proc[p].content ELSE cache[d][f]
         /\ proc' \in [Processes -> Call \cup {Idle}]
         /\ proc'[p] = Idle
         /\ \A q \in Processes : q # p => proc'[q] = proc[q]
<1>1. proc[p].entry \in Entries /\ proc[p].content \in Content
  BY CallRecord DEF Fill, TypeOK
<1>2. CacheOf(p) \in Caches
  BY CachesOf
<1> QED
  BY <1>1, <1>2, ProcSet DEF Fill, Goes, TypeOK

\* The step of an eviction: the rest of the list, or nothing, is left.
LEMMA InvalidateAfter ==
  ASSUME TypeOK, NEW p \in Processes, InvalidateCache(p)
  PROVE  LET todo == proc[p].todo IN
         /\ proc[p].key \in Keys /\ proc[p].stage \in {"evict", "set"}
         /\ todo \in Seq(Entries) /\ todo # <<>> /\ Head(todo) \in Entries
         /\ proc' \in [Processes -> Call \cup {Idle}]
         /\ \A q \in Processes : q # p => proc'[q] = proc[q]
         /\ IF proc[p].stage = "evict" /\ Len(todo) = 1
            THEN proc'[p] = Idle
            ELSE /\ proc'[p].stage = proc[p].stage /\ proc'[p].key = proc[p].key
                 /\ proc'[p].todo = Tail(todo)
         /\ Drop(CacheOf(p), Head(todo))
         /\ UNCHANGED <<row, id, deleted, log, overlapped>>
<1>1. PICK a \in Call \cup {Idle} : /\ a = proc[p] /\ a.stage \in {"evict", "set"}
                                    /\ a.todo # <<>>
  BY DEF InvalidateCache, TypeOK
<1>2. /\ a.key \in Keys /\ a.todo \in Seq(Entries)
      /\ a = [stage |-> a.stage, key |-> a.key, todo |-> a.todo]
  BY <1>1, CallRecord
<1>3. Head(a.todo) \in Entries /\ Tail(a.todo) \in Seq(Entries)
  BY <1>1, <1>2
<1> DEFINE b == [stage |-> a.stage, key |-> a.key, todo |-> Tail(a.todo)]
<1>4. [a EXCEPT !.todo = Tail(a.todo)] = b /\ b \in Call
  <2>1. b \in Call
    BY <1>1, <1>2, <1>3 DEF Call
  <2>2. \A t : [a EXCEPT !.todo = t] = [stage |-> a.stage, key |-> a.key, todo |-> t]
    BY <1>2
  <2> QED
    BY <2>1, <2>2
<1>5. proc' = [proc EXCEPT ![p] = IF a.stage = "evict" /\ Len(a.todo) = 1 THEN Idle ELSE b]
  BY <1>1, <1>4 DEF InvalidateCache, Goes
<1>6. b.stage = a.stage /\ b.key = a.key /\ b.todo = Tail(a.todo)
  OBVIOUS
<1> HIDE DEF b
<1>7. /\ proc' \in [Processes -> Call \cup {Idle}]
      /\ \A q \in Processes : q # p => proc'[q] = proc[q]
      /\ proc'[p] = IF a.stage = "evict" /\ Len(a.todo) = 1 THEN Idle ELSE b
  BY <1>4, <1>5, ProcSet
<1> QED
  BY <1>1, <1>2, <1>3, <1>6, <1>7 DEF InvalidateCache, Goes

LEMMA PurgeAfter ==
  ASSUME TypeOK, NEW p \in Processes, PurgeNext(p)
  PROVE  /\ proc[p].stage = "purge"
         /\ proc' \in [Processes -> Call \cup {Idle}]
         /\ proc'[p].stage \in {"idle", "purge"}
         /\ \A q \in Processes : q # p => proc'[q] = proc[q]
         /\ \E e \in Entries : Drop(CacheOf(p), e)
         /\ UNCHANGED <<row, id, deleted, log, overlapped>>
<1>1. PICK a \in Call \cup {Idle} : a = proc[p] /\ a.stage = "purge"
  BY DEF PurgeNext, TypeOK
<1>2. a.todo \in SUBSET Keys /\ a = [stage |-> "purge", todo |-> a.todo]
  BY <1>1, CallRecord
<1>3. CASE Drop(CacheOf(p), AllPublic) /\ Goes(p, Idle)
  BY <1>1, <1>3, ProcSet DEF PurgeNext, Goes, Idle, Entries
<1>4. ASSUME NEW k \in a.todo, Drop(CacheOf(p), k), Goes(p, [a EXCEPT !.todo = @ \ {k}])
      PROVE  /\ proc' \in [Processes -> Call \cup {Idle}]
             /\ proc'[p].stage = "purge"
             /\ \A q \in Processes : q # p => proc'[q] = proc[q]
             /\ \E e \in Entries : Drop(CacheOf(p), e)
  <2> DEFINE b == [stage |-> "purge", todo |-> a.todo \ {k}]
  <2>1. b \in Call /\ b.stage = "purge"
    BY <1>2 DEF Call
  <2>2. [a EXCEPT !.todo = @ \ {k}] = b
    BY <1>2
  <2> HIDE DEF b
  <2> QED
    BY <1>2, <1>4, <2>1, <2>2, ProcSet DEF Goes, Entries
<1> QED
  BY <1>1, <1>3, <1>4 DEF PurgeNext, Goes

-----------------------------------------------------------------------------
(* Types *)

LEMMA LiveTyped ==
  ASSUME TypeOK
  PROVE  /\ \A k \in Keys : /\ row[k] \in Value /\ id[k] \in Value /\ Live(k) \in Value
                            /\ ValueOf(k) \in Content
         /\ PublicConfigs \in Content /\ 0 \in Value
<1>1. 0 \in Value
  BY ConstantsAssumption DEF Value
<1>2. \A k \in Keys : row[k] \in Value /\ id[k] \in Value /\ Live(k) \in Value
  BY <1>1 DEF TypeOK, Live
<1>3. \A k \in Keys : ValueOf(k) \in Content
  BY <1>2 DEF ValueOf, Content
<1>4. [k \in Keys |-> Live(k)] \in [Keys -> Value]
  BY <1>2
<1>5. PublicConfigs \in Content
  BY <1>4 DEF PublicConfigs, Content
<1> QED
  BY <1>1, <1>2, <1>3, <1>5

LEMMA LogAfter ==
  ASSUME TypeOK, NEW k \in Keys, Len(log) < MaxWrites, log' = Append(log, k)
  PROVE  /\ log' \in Seq(Keys) /\ Len(log') <= MaxWrites
         /\ Len(log') \in Value /\ Len(log') # 0
         /\ Len(log') \in DOMAIN log' /\ log'[Len(log')] = k
         /\ \A n \in DOMAIN log : n \in DOMAIN log' /\ log'[n] = log[n]
<1>1. log \in Seq(Keys) /\ Len(log) \in Nat /\ DOMAIN log = 1..Len(log)
  BY DEF TypeOK
<1>2. Len(log') = Len(log) + 1 /\ log' \in Seq(Keys)
  BY <1>1
<1>3. DOMAIN log' = 1..(Len(log) + 1) /\ log'[Len(log) + 1] = k
  BY <1>1
<1>4. \A n \in DOMAIN log : n \in DOMAIN log' /\ log'[n] = log[n]
  BY <1>1, <1>3
<1> QED
  BY <1>1, <1>2, <1>3, <1>4, ConstantsAssumption DEF Value

\* The calls that begin with a query or with a lock.
Reads(p) ==
  \/ \E k \in Keys : \/ Get(p, k) \/ SetConfig(p, k)
                     \/ \E stage \in {"update", "delete", "restore"} : ReadRow(p, stage, k)
  \/ GetPublicConfigs(p) \/ PurgeCache(p)

LEMMA ReadsAfter ==
  ASSUME TypeOK, NEW p \in Processes, Reads(p)
  PROVE  /\ \E a \in Call :
              /\ Start(p, a) /\ a.stage # "evict"
              /\ a.stage = "fill" => a.content \in Right(a.entry)
              /\ a.stage = "set" => a.todo = <<a.key, AllPublic>>
         /\ UNCHANGED <<row, id, deleted, cache, log, bypassed>>
<1> DEFINE Fine(a) == /\ Start(p, a) /\ a.stage # "evict"
                      /\ a.stage = "fill" => a.content \in Right(a.entry)
                      /\ a.stage = "set" => a.todo = <<a.key, AllPublic>>
<1>1. ASSUME NEW k \in Keys, Get(p, k) PROVE \E a \in Call : Fine(a)
  <2>1. [stage |-> "fill", entry |-> k, content |-> ValueOf(k)] \in Call
    BY LiveTyped DEF Call, Entries
  <2>2. ValueOf(k) \in Right(k)
    BY DEF Right
  <2> QED
    BY <1>1, <2>1, <2>2 DEF Get
<1>2. ASSUME NEW k \in Keys, NEW stage \in {"update", "delete", "restore"},
             ReadRow(p, stage, k)
      PROVE  \E a \in Call : Fine(a)
  <2>1. [stage |-> stage, key |-> k, id |-> id[k]] \in Call
    BY LiveTyped DEF Call
  <2> QED
    BY <1>2, <2>1 DEF ReadRow
<1>3. ASSUME NEW k \in Keys, SetConfig(p, k) PROVE \E a \in Call : Fine(a)
  <2> DEFINE a == [stage |-> "set", key |-> k, todo |-> <<k, AllPublic>>]
  <2>1. a \in Call /\ Start(p, a)
    BY <1>3, Evictions DEF SetConfig
  <2> QED
    BY <2>1
<1>4. ASSUME GetPublicConfigs(p) PROVE \E a \in Call : Fine(a)
  <2>1. [stage |-> "fill", entry |-> AllPublic, content |-> PublicConfigs] \in Call
    BY LiveTyped DEF Call, Entries
  <2>2. PublicConfigs \in Right(AllPublic)
    BY DEF Right
  <2> QED
    BY <1>4, <2>1, <2>2 DEF GetPublicConfigs
<1>5. ASSUME PurgeCache(p) PROVE \E a \in Call : Fine(a)
  <2>1. [stage |-> "purge", todo |-> {k \in Keys : id[k] # 0}] \in Call
    BY DEF Call
  <2> QED
    BY <1>5, <2>1 DEF PurgeCache
<1>6. UNCHANGED <<row, id, deleted, cache, log, bypassed>>
  BY DEF Reads, Get, SetConfig, ReadRow, GetPublicConfigs, PurgeCache
<1> HIDE DEF Fine
<1>7. \E a \in Call : Fine(a)
  BY <1>1, <1>2, <1>3, <1>4, <1>5 DEF Reads
<1> QED
  BY <1>6, <1>7 DEF Fine

\* A write numbers the row it stores, or leaves the values as they are.
LEMMA StoresAfter ==
  ASSUME TypeOK, NEW k \in Keys, NEW del \in BOOLEAN, Written(k, del)
  PROVE  /\ log' \in Seq(Keys) /\ Len(log') <= MaxWrites
         /\ Len(log') \in Value /\ Len(log') # 0
         /\ deleted' \in SUBSET Keys
         /\ \A j \in Keys : j # k => (j \in deleted' <=> j \in deleted)
         /\ Stores(k) => /\ row' \in [Keys -> Value]
                         /\ \A j \in Keys : row'[j] = IF j = k THEN Len(log') ELSE row[j]
<1>1. log' = Append(log, k) /\ Len(log) < MaxWrites
  BY DEF Written
<1>2. log' \in Seq(Keys) /\ Len(log') <= MaxWrites /\ Len(log') \in Value /\ Len(log') # 0
  BY <1>1, LogAfter
<1>3. deleted' \in SUBSET Keys /\ \A j \in Keys : j # k => (j \in deleted' <=> j \in deleted)
  BY DEF Written, TypeOK
<1>4. ASSUME Stores(k)
      PROVE  /\ row' \in [Keys -> Value]
             /\ \A j \in Keys : row'[j] = IF j = k THEN Len(log') ELSE row[j]
  BY <1>2, <1>4 DEF Stores, TypeOK
<1> QED
  BY <1>2, <1>3, <1>4

LEMMA UpdateStores ==
  ASSUME TypeOK, NEW p \in Processes, NEW old \in Keys, NEW new \in Keys,
         NEW del \in BOOLEAN, UpdateWrite(p, old, new, del)
  PROVE  /\ log' = Append(log, new) /\ Len(log) < MaxWrites
         /\ log' \in Seq(Keys) /\ Len(log') <= MaxWrites
         /\ row' \in [Keys -> Value] /\ id' \in [Keys -> Value]
         /\ deleted' \in SUBSET Keys
         /\ \A j \in Keys : row'[j] = IF j = new THEN Len(log')
                                       ELSE IF j = old THEN 0 ELSE row[j]
         /\ \A j \in Keys \ {old, new} : j \in deleted' <=> j \in deleted
<1>1. log' = Append(log, new) /\ Len(log) < MaxWrites
  BY DEF UpdateWrite
<1>2. log' \in Seq(Keys) /\ Len(log') <= MaxWrites /\ Len(log') \in Value
  BY <1>1, LogAfter
<1>3. 0 \in Value /\ id[old] \in Value
  BY LiveTyped
<1>4. /\ row' \in [Keys -> Value]
      /\ \A j \in Keys : row'[j] = IF j = new THEN Len(log') ELSE IF j = old THEN 0 ELSE row[j]
  BY <1>2, <1>3 DEF UpdateWrite, TypeOK
<1>5. id' \in [Keys -> Value]
  BY <1>3 DEF UpdateWrite, TypeOK
<1>6. /\ deleted' \in SUBSET Keys
      /\ \A j \in Keys \ {old, new} : j \in deleted' <=> j \in deleted
  BY DEF UpdateWrite, TypeOK
<1> QED
  BY <1>1, <1>2, <1>4, <1>5, <1>6

LEMMA UpdateCall ==
  ASSUME TypeOK, NEW p \in Processes, NEW old \in Keys, NEW new \in Keys,
         NEW del \in BOOLEAN, UpdateWrite(p, old, new, del)
  PROVE  /\ proc' \in [Processes -> Call \cup {Idle}]
         /\ proc'[p] = Evict(new)
         /\ \A q \in Processes : q # p => proc'[q] = proc[q]
         /\ bypassed' = bypassed \cup ({old} \ {new}) /\ bypassed' \in SUBSET Entries
         /\ UNCHANGED <<cache, overlapped>>
<1>1. /\ proc' \in [Processes -> Call \cup {Idle}]
      /\ proc'[p] = Evict(new)
      /\ \A q \in Processes : q # p => proc'[q] = proc[q]
  BY Evictions, ProcSet DEF UpdateWrite, Goes
<1>2. bypassed' = bypassed \cup ({old} \ {new}) /\ bypassed' \in SUBSET Entries
  BY DEF UpdateWrite, TypeOK, Entries
<1> QED
  BY <1>1, <1>2 DEF UpdateWrite, Goes

LEMMA FlagAfter ==
  ASSUME TypeOK, NEW p \in Processes, NEW k \in Keys, FlagWrite(p, k)
  PROVE  /\ \E del \in BOOLEAN : Written(k, del)
         /\ proc[p].key \in Keys
         /\ proc' \in [Processes -> Call \cup {Idle}]
         /\ proc'[p] = EvictTwice(proc[p].key)
         /\ \A q \in Processes : q # p => proc'[q] = proc[q]
         /\ bypassed' = bypassed \cup ({k} \ {proc[p].key}) /\ bypassed' \in SUBSET Entries
         /\ UNCHANGED <<row, id, cache, overlapped>>
<1>1. proc[p].key \in Keys
  BY CallRecord DEF FlagWrite, TypeOK
<1>2. /\ proc' \in [Processes -> Call \cup {Idle}]
      /\ proc'[p] = EvictTwice(proc[p].key)
      /\ \A q \in Processes : q # p => proc'[q] = proc[q]
  BY <1>1, Evictions, ProcSet DEF FlagWrite, Goes
<1>3. bypassed' = bypassed \cup ({k} \ {proc[p].key}) /\ bypassed' \in SUBSET Entries
  BY DEF FlagWrite, TypeOK, Entries
<1> QED
  BY <1>1, <1>2, <1>3 DEF FlagWrite, Goes

LEMMA CommitAfter ==
  ASSUME TypeOK, NEW p \in Processes, SetCommit(p)
  PROVE  /\ proc[p].key \in Keys /\ Written(proc[p].key, FALSE) /\ Stores(proc[p].key)
         /\ id' \in [Keys -> Value]
         /\ proc' \in [Processes -> Call \cup {Idle}]
         /\ proc'[p] = Idle
         /\ \A q \in Processes : q # p => proc'[q] = proc[q]
         /\ UNCHANGED <<cache, overlapped, bypassed>>
<1>1. proc[p].key \in Keys
  BY CallRecord DEF SetCommit, TypeOK
<1>2. id' \in [Keys -> Value]
  BY <1>1, StoresAfter DEF SetCommit, TypeOK
<1>3. /\ proc' \in [Processes -> Call \cup {Idle}]
      /\ proc'[p] = Idle
      /\ \A q \in Processes : q # p => proc'[q] = proc[q]
  BY ProcSet DEF SetCommit, Goes
<1> QED
  BY <1>1, <1>2, <1>3 DEF SetCommit, Goes

LEMMA TypeStep == TypeOK /\ [Next]_vars => TypeOK'
<1> SUFFICES ASSUME TypeOK, [Next]_vars PROVE TypeOK'
  OBVIOUS
<1>1. ASSUME NEW p \in Processes, Reads(p) PROVE TypeOK'
  <2>1. proc' \in [Processes -> Call \cup {Idle}] /\ overlapped' \in BOOLEAN
    BY <1>1, ReadsAfter, StartAfter
  <2> QED
    BY <1>1, <2>1, ReadsAfter DEF TypeOK
<1>2. ASSUME NEW p \in Processes, NEW k \in Keys, Create(p, k) PROVE TypeOK'
  <2>1. proc' \in [Processes -> Call \cup {Idle}] /\ overlapped' \in BOOLEAN
    BY <1>2, Evictions, StartAfter DEF Create
  <2>2. id' \in [Keys -> Value]
    BY <1>2, StoresAfter DEF Create, TypeOK
  <2> QED
    BY <1>2, <2>1, <2>2, StoresAfter DEF Create, TypeOK
<1>3. ASSUME NEW p \in Processes, Fill(p) PROVE TypeOK'
  BY <1>3, FillAfter DEF Fill, Goes, TypeOK
<1>4. ASSUME NEW p \in Processes, NEW old \in Keys, NEW new \in Keys,
             NEW del \in BOOLEAN, UpdateWrite(p, old, new, del)
      PROVE  TypeOK'
  <2>1. /\ row' \in [Keys -> Value] /\ id' \in [Keys -> Value] /\ deleted' \in SUBSET Keys
        /\ log' \in Seq(Keys) /\ Len(log') <= MaxWrites
    BY <1>4, UpdateStores
  <2>2. /\ proc' \in [Processes -> Call \cup {Idle}] /\ bypassed' \in SUBSET Entries
        /\ UNCHANGED <<cache, overlapped>>
    BY <1>4, UpdateCall
  <2> QED
    BY <2>1, <2>2 DEF TypeOK
<1>5. ASSUME NEW p \in Processes, NEW old \in Keys, NEW new \in Keys,
             UpdateRefused(p, old, new)
      PROVE  TypeOK'
  BY <1>5, ProcSet DEF UpdateRefused, Goes, TypeOK
<1>6. ASSUME NEW p \in Processes, NEW k \in Keys, FlagWrite(p, k) PROVE TypeOK'
  BY <1>6, FlagAfter, StoresAfter DEF TypeOK
<1>7. ASSUME NEW p \in Processes, SetCommit(p) PROVE TypeOK'
  BY <1>7, CommitAfter, StoresAfter DEF TypeOK
<1>8. ASSUME NEW k \in Keys, DeleteSelected(k) PROVE TypeOK'
  <2>1. bypassed' \in SUBSET Entries /\ overlapped' \in BOOLEAN
    BY <1>8 DEF DeleteSelected, TypeOK, Entries
  <2> QED
    BY <1>8, <2>1, StoresAfter DEF DeleteSelected, TypeOK
<1>9. ASSUME NEW p \in Processes, InvalidateCache(p) PROVE TypeOK'
  BY <1>9, InvalidateAfter, DropAfter, CachesOf DEF TypeOK
<1>10. ASSUME NEW p \in Processes, PurgeNext(p) PROVE TypeOK'
  BY <1>10, PurgeAfter, DropAfter, CachesOf DEF TypeOK
<1>11. ASSUME NEW c \in Caches, NEW e \in Entries, Expire(c, e) PROVE TypeOK'
  BY <1>11, DropAfter DEF Expire, TypeOK
<1>12. CASE UNCHANGED vars
  BY <1>12 DEF vars, TypeOK
<1> QED
  BY <1>1, <1>2, <1>3, <1>4, <1>5, <1>6, <1>7, <1>8, <1>9, <1>10, <1>11, <1>12
  DEF Next, Reads, Continue

LEMMA TypeInit == Init => TypeOK
<1> SUFFICES ASSUME Init PROVE TypeOK
  OBVIOUS
<1>1. 0 \in Value /\ Nothing \in Content
  BY ConstantsAssumption DEF Value, Content
<1>2. log \in Seq(Keys) /\ Len(log) = 0
  BY DEF Init
<1>3. /\ row \in [Keys -> Value] /\ id \in [Keys -> Value]
      /\ cache \in [Caches -> [Entries -> Content]]
      /\ proc \in [Processes -> Call \cup {Idle}]
  BY <1>1 DEF Init
<1>4. Len(log) <= MaxWrites
  BY <1>2, ConstantsAssumption
<1> QED
  BY <1>2, <1>3, <1>4 DEF Init, TypeOK

\* Every variable keeps its type (models.py:19-67, services.py:8-60), whatever
\* overlaps.
THEOREM TypeCorrect == Spec => []TypeOK
  BY TypeInit, TypeStep, PTL DEF Spec

-----------------------------------------------------------------------------
(* Only what was committed is cached *)

ContentCommitted(e, d) ==
  /\ d.kind = "value" => Committed(e, d.value)
  /\ d.kind = "public" => \A k \in Keys : Committed(k, d.values[k])

\* Rows are committed, and so is what calls are about to cache.
CommittedInv ==
  /\ TypeOK
  /\ \A k \in Keys : Committed(k, row[k])
  /\ \A p \in Processes :
       proc[p].stage = "fill" => ContentCommitted(proc[p].entry, proc[p].content)
  /\ NothingUncommitted

\* A write adds its number, and unmakes no other.
LEMMA LogGrows ==
  ASSUME TypeOK, [Next]_vars
  PROVE  \A e, v : Committed(e, v) => Committed(e, v)'
<1>1. CASE log' = log
  BY <1>1 DEF Committed
<1>2. ASSUME NEW k \in Keys, Len(log) < MaxWrites, log' = Append(log, k)
      PROVE  \A e, v : Committed(e, v) => Committed(e, v)'
  BY <1>2, LogAfter DEF Committed
<1>3. log' = log \/ \E k \in Keys : Len(log) < MaxWrites /\ log' = Append(log, k)
  <2>1. ASSUME NEW k \in Keys, NEW del \in BOOLEAN, Written(k, del)
        PROVE  Len(log) < MaxWrites /\ log' = Append(log, k)
    BY <2>1 DEF Written
  <2>2. ASSUME NEW p \in Processes, NEW k \in Keys, Create(p, k) \/ FlagWrite(p, k)
        PROVE  \E j \in Keys : Len(log) < MaxWrites /\ log' = Append(log, j)
    BY <2>1, <2>2, FlagAfter DEF Create
  <2>3. ASSUME NEW p \in Processes, SetCommit(p)
        PROVE  \E j \in Keys : Len(log) < MaxWrites /\ log' = Append(log, j)
    BY <2>1, <2>3, CommitAfter
  <2>4. ASSUME NEW k \in Keys, DeleteSelected(k)
        PROVE  \E j \in Keys : Len(log) < MaxWrites /\ log' = Append(log, j)
    BY <2>1, <2>4 DEF DeleteSelected
  <2>5. ASSUME NEW p \in Processes, NEW old \in Keys, NEW new \in Keys,
               NEW del \in BOOLEAN, UpdateWrite(p, old, new, del)
        PROVE  \E j \in Keys : Len(log) < MaxWrites /\ log' = Append(log, j)
    BY <2>5 DEF UpdateWrite
  <2>6. ASSUME NEW p \in Processes,
               \/ Reads(p) \/ Fill(p) \/ InvalidateCache(p) \/ PurgeNext(p)
               \/ \E old, new \in Keys : UpdateRefused(p, old, new)
        PROVE  log' = log
    BY <2>6, ReadsAfter DEF Fill, InvalidateCache, PurgeNext, UpdateRefused
  <2>7. ASSUME UNCHANGED vars \/ \E c \in Caches, e \in Entries : Expire(c, e)
        PROVE  log' = log
    BY <2>7 DEF vars, Expire
  <2> QED
    BY <2>2, <2>3, <2>4, <2>5, <2>6, <2>7 DEF Next, Reads, Continue
<1> QED
  BY <1>1, <1>2, <1>3

LEMMA ContentKept ==
  ASSUME \A e, v : Committed(e, v) => Committed(e, v)', NEW e, NEW d, ContentCommitted(e, d)
  PROVE  ContentCommitted(e, d)'
  BY DEF ContentCommitted

\* What is right for an entry is committed, since the rows are.
LEMMA RightIsCommitted ==
  ASSUME \A k \in Keys : Committed(k, row[k]), NEW e \in Entries, NEW d \in Right(e)
  PROVE  ContentCommitted(e, d)
<1>1. \A k \in Keys : Committed(k, Live(k))
  BY DEF Live, Committed
<1>2. CASE d = Nothing
  BY <1>2 DEF Nothing, ContentCommitted
<1>3. ASSUME e \in Keys, d = ValueOf(e) PROVE ContentCommitted(e, d)
  BY <1>1, <1>3 DEF ValueOf, ContentCommitted
<1>4. CASE d = PublicConfigs
  BY <1>1, <1>4 DEF PublicConfigs, ContentCommitted
<1> QED
  BY <1>2, <1>3, <1>4 DEF Right

LEMMA RowsCommitted ==
  ASSUME TypeOK, [Next]_vars, \A k \in Keys : Committed(k, row[k])
  PROVE  (\A k \in Keys : Committed(k, row[k]))'
<1>1. \A k, v : Committed(k, v) => Committed(k, v)'
  BY LogGrows
<1>2. CASE row' = row
  BY <1>1, <1>2
<1>3. ASSUME NEW k \in Keys, NEW del \in BOOLEAN, Written(k, del), Stores(k)
      PROVE  (\A j \in Keys : Committed(j, row[j]))'
  <2>1. PICK n : n = Len(log')
    OBVIOUS
  <2>2. Committed(k, n)'
    BY <1>3, <2>1, LogAfter DEF Written, Committed
  <2>3. \A j \in Keys : row'[j] = IF j = k THEN n ELSE row[j]
    BY <1>3, <2>1, StoresAfter
  <2> QED
    BY <1>1, <2>2, <2>3
<1>4. ASSUME NEW p \in Processes, NEW old \in Keys, NEW new \in Keys,
             NEW del \in BOOLEAN, UpdateWrite(p, old, new, del)
      PROVE  (\A j \in Keys : Committed(j, row[j]))'
  <2>1. PICK n : n = Len(log')
    OBVIOUS
  <2>2. Committed(new, n)'
    BY <1>4, <2>1, LogAfter, UpdateStores DEF Committed
  <2>3. \A j \in Keys : row'[j] = IF j = new THEN n ELSE IF j = old THEN 0 ELSE row[j]
    BY <1>4, <2>1, UpdateStores
  <2>4. \A j \in Keys : Committed(j, 0)'
    BY DEF Committed
  <2> QED
    BY <1>1, <2>2, <2>3, <2>4
<1>5. ASSUME NEW p \in Processes,
             \/ Reads(p) \/ Fill(p) \/ InvalidateCache(p) \/ PurgeNext(p)
             \/ \E old, new \in Keys : UpdateRefused(p, old, new)
             \/ \E k \in Keys : FlagWrite(p, k)
      PROVE  row' = row
  BY <1>5, ReadsAfter DEF Fill, InvalidateCache, PurgeNext, UpdateRefused, FlagWrite
<1>6. ASSUME \/ UNCHANGED vars
             \/ \E c \in Caches, e \in Entries : Expire(c, e)
             \/ \E k \in Keys : DeleteSelected(k)
      PROVE  row' = row
  BY <1>6 DEF vars, Expire, DeleteSelected
<1>7. ASSUME NEW p \in Processes, NEW k \in Keys, Create(p, k)
      PROVE  (\A j \in Keys : Committed(j, row[j]))'
  BY <1>3, <1>7 DEF Create
<1>8. ASSUME NEW p \in Processes, SetCommit(p)
      PROVE  (\A j \in Keys : Committed(j, row[j]))'
  BY <1>3, <1>8, CommitAfter
<1> QED
  BY <1>2, <1>4, <1>5, <1>6, <1>7, <1>8 DEF Next, Reads, Continue

\* Where a call's or an entry's new content comes from.
LEMMA ContentsFrom ==
  ASSUME TypeOK, [Next]_vars
  PROVE  /\ \A c \in Caches, e \in Entries :
              \/ cache'[c][e] \in {Nothing, cache[c][e]}
              \/ \E p \in Processes : /\ proc[p].stage = "fill" /\ proc[p].entry = e
                                      /\ cache'[c][e] = proc[p].content
         /\ \A p \in Processes : proc'[p].stage = "fill" =>
              \/ proc'[p] = proc[p]
              \/ /\ proc'[p].content \in Right(proc'[p].entry)
                 /\ proc'[p].entry \in Entries
                 /\ UNCHANGED <<row, deleted>>
<1> DEFINE Cached == \A c \in Caches, e \in Entries :
              \/ cache'[c][e] \in {Nothing, cache[c][e]}
              \/ \E p \in Processes : /\ proc[p].stage = "fill" /\ proc[p].entry = e
                                      /\ cache'[c][e] = proc[p].content
           Begun == \A p \in Processes : proc'[p].stage = "fill" =>
              \/ proc'[p] = proc[p]
              \/ /\ proc'[p].content \in Right(proc'[p].entry)
                 /\ proc'[p].entry \in Entries
                 /\ UNCHANGED <<row, deleted>>
<1>1. ASSUME NEW p \in Processes, Reads(p) PROVE Cached /\ Begun
  <2>1. PICK a \in Call : Start(p, a) /\ (a.stage = "fill" => a.content \in Right(a.entry))
    BY <1>1, ReadsAfter
  <2>2. a.stage = "fill" => a.entry \in Entries
    BY CallRecord
  <2>3. Begun
    BY <1>1, <2>1, <2>2, ReadsAfter, StartAfter
  <2> QED
    BY <1>1, <2>3, ReadsAfter
<1>2. ASSUME NEW p \in Processes, Fill(p) PROVE Cached /\ Begun
  <2>1. Begun
    BY <1>2, FillAfter DEF Idle
  <2>2. Cached
    BY <1>2, FillAfter DEF Fill
  <2> QED
    BY <2>1, <2>2
<1>3. ASSUME NEW p \in Processes, NEW a, proc'[p] = a, a.stage # "fill", cache' = cache,
             \A q \in Processes : q # p => proc'[q] = proc[q]
      PROVE  Cached /\ Begun
  BY <1>3
<1>4. ASSUME NEW p \in Processes, NEW k \in Keys, Create(p, k) PROVE Cached /\ Begun
  <2>1. proc'[p] = Evict(k) /\ \A q \in Processes : q # p => proc'[q] = proc[q]
    BY <1>4, Evictions, StartAfter DEF Create
  <2> QED
    BY <1>3, <1>4, <2>1 DEF Create, Evict
<1>5. ASSUME NEW p \in Processes, NEW old \in Keys, NEW new \in Keys,
             NEW del \in BOOLEAN, UpdateWrite(p, old, new, del)
      PROVE  Cached /\ Begun
  <2>0. Evict(new).stage = "evict"
    BY DEF Evict
  <2>1. PICK a : /\ a = proc'[p] /\ a.stage = "evict"
                 /\ \A q \in Processes : q # p => proc'[q] = proc[q]
    BY <1>5, <2>0, UpdateCall
  <2> QED
    BY <1>3, <1>5, <2>1 DEF UpdateWrite
<1>6. ASSUME NEW p \in Processes, NEW old \in Keys, NEW new \in Keys,
             UpdateRefused(p, old, new)
      PROVE  Cached /\ Begun
  <2>1. proc'[p] = Idle /\ \A q \in Processes : q # p => proc'[q] = proc[q]
    BY <1>6, ProcSet DEF UpdateRefused, Goes
  <2> QED
    BY <1>3, <1>6, <2>1 DEF UpdateRefused, Idle
<1>7. ASSUME NEW p \in Processes, NEW k \in Keys, FlagWrite(p, k) PROVE Cached /\ Begun
  <2>1. PICK j \in Keys : j = proc[p].key
    BY <1>7, FlagAfter
  <2>2. EvictTwice(j).stage = "evict"
    BY Evictions
  <2>3. PICK a : /\ a = proc'[p] /\ a.stage = "evict"
                 /\ \A q \in Processes : q # p => proc'[q] = proc[q]
    BY <1>7, <2>1, <2>2, FlagAfter
  <2> QED
    BY <1>3, <1>7, <2>3 DEF FlagWrite
<1>8. ASSUME NEW p \in Processes, SetCommit(p) PROVE Cached /\ Begun
  <2>1. Idle.stage # "fill"
    BY DEF Idle
  <2>2. proc'[p] = Idle /\ \A q \in Processes : q # p => proc'[q] = proc[q]
    BY <1>8, CommitAfter
  <2> QED
    BY <1>3, <1>8, <2>1, <2>2 DEF SetCommit
<1>9. ASSUME NEW c \in Caches, NEW e \in Entries, Drop(c, e) PROVE Cached
  BY <1>9, DropAfter
<1>10. ASSUME NEW p \in Processes, InvalidateCache(p) PROVE Cached /\ Begun
  <2>1. proc'[p].stage \in {"idle", "evict", "set"}
    BY <1>10, InvalidateAfter DEF Idle
  <2>2. Begun
    BY <1>10, <2>1, InvalidateAfter
  <2> QED
    BY <1>9, <1>10, <2>2, InvalidateAfter, CachesOf
<1>11. ASSUME NEW p \in Processes, PurgeNext(p) PROVE Cached /\ Begun
  <2>1. Begun
    BY <1>11, PurgeAfter
  <2> QED
    BY <1>9, <1>11, <2>1, PurgeAfter, CachesOf
<1>12. ASSUME \E c \in Caches, e \in Entries : Expire(c, e) PROVE Cached /\ Begun
  BY <1>9, <1>12 DEF Expire
<1>13. ASSUME UNCHANGED vars \/ \E k \in Keys : DeleteSelected(k) PROVE Cached /\ Begun
  BY <1>13 DEF vars, DeleteSelected
<1> HIDE DEF Cached, Begun
<1>14. Cached /\ Begun
  BY <1>1, <1>2, <1>4, <1>5, <1>6, <1>7, <1>8, <1>10, <1>11, <1>12, <1>13
  DEF Next, Reads, Continue
<1> QED
  BY <1>14 DEF Cached, Begun

LEMMA CommittedStep == CommittedInv /\ [Next]_vars => CommittedInv'
<1> SUFFICES ASSUME CommittedInv, [Next]_vars PROVE CommittedInv'
  OBVIOUS
<1> USE DEF CommittedInv
<1>1. TypeOK' /\ (\A k \in Keys : Committed(k, row[k]))'
  BY TypeStep, RowsCommitted
<1>2. \A e, d : ContentCommitted(e, d) => ContentCommitted(e, d)'
  BY LogGrows, ContentKept
<1>3. ASSUME NEW p \in Processes, proc'[p].stage = "fill"
      PROVE  ContentCommitted(proc[p].entry, proc[p].content)'
  <2>1. CASE proc'[p] = proc[p]
    BY <1>2, <1>3, <2>1
  <2>2. CASE proc'[p].content \in Right(proc'[p].entry) /\ proc'[p].entry \in Entries
    BY <1>2, <2>2, RightIsCommitted
  <2> QED
    BY <1>3, <2>1, <2>2, ContentsFrom
<1>4. ASSUME NEW c \in Caches, NEW e \in Entries
      PROVE  ContentCommitted(e, cache[c][e])'
  <2>1. PICK d : d = cache'[c][e]
    OBVIOUS
  <2>2. CASE d = Nothing
    BY <2>1, <2>2 DEF ContentCommitted, Nothing
  <2>3. CASE d = cache[c][e]
    <3>1. ContentCommitted(e, d)
      BY <2>3 DEF NothingUncommitted, ContentCommitted
    <3> QED
      BY <1>2, <2>1, <3>1 DEF ContentCommitted
  <2>4. ASSUME NEW p \in Processes, proc[p].stage = "fill", proc[p].entry = e,
               d = proc[p].content
        PROVE  ContentCommitted(e, cache[c][e])'
    <3>1. ContentCommitted(e, d)
      BY <2>4
    <3> QED
      BY <1>2, <2>1, <3>1 DEF ContentCommitted
  <2> QED
    BY <2>1, <2>2, <2>3, <2>4, ContentsFrom
<1>5. NothingUncommitted'
  <2> SUFFICES ASSUME NEW c \in Caches, NEW e \in Entries
               PROVE  /\ cache'[c][e].kind = "value" => Committed(e, cache[c][e].value)'
                      /\ cache'[c][e].kind = "public" =>
                           \A k \in Keys : Committed(k, cache[c][e].values[k])'
    BY DEF NothingUncommitted
  <2> QED
    BY <1>4 DEF ContentCommitted
<1> QED
  BY <1>1, <1>3, <1>5

\* Whatever races, what is cached for a key was committed for it
\* (services.py:109-121 evicts before the commit, 26-28 read what is committed).
THEOREM CachedIsCommitted == Spec => []NothingUncommitted
<1>1. Init => CommittedInv
  <2> SUFFICES ASSUME Init PROVE CommittedInv
    OBVIOUS
  <2>1. TypeOK
    BY TypeInit
  <2>2. NothingUncommitted
    BY DEF Init, NothingUncommitted, Nothing
  <2> QED
    BY <2>1, <2>2 DEF Init, CommittedInv, Committed, Idle
<1>2. CommittedInv => NothingUncommitted
  BY DEF CommittedInv
<1> QED
  BY <1>1, <1>2, CommittedStep, PTL DEF Spec

-----------------------------------------------------------------------------
(* One call at a time *)

Fresh(e) == cache["shared"][e] \in Right(e)

\* p has still to delete entry e.
Due(p, e) == \E i \in DOMAIN proc[p].todo : proc[p].todo[i] = e

OneCall == ~overlapped => \A p, q \in Processes : Busy(p) /\ Busy(q) => p = q

\* What a call that nothing overlaps with can count on: what it read is still
\* there, and a set has emptied the entries it is past.
CallIsFresh(p) ==
  /\ proc[p].stage = "fill" => proc[p].content \in Right(proc[p].entry)
  /\ proc[p].stage = "set" =>
       \A e \in {proc[p].key, AllPublic} : cache["shared"][e] = Nothing \/ Due(p, e)

FreshButEvicted ==
  SharedCache /\ ~overlapped =>
    /\ \A e \in Entries \ bypassed :
         Fresh(e) \/ \E p \in Processes : proc[p].stage = "evict" /\ Due(p, e)
    /\ \A p \in Processes : CallIsFresh(p)

SerialInv == TypeOK /\ OneCall /\ FreshButEvicted

LEMMA RightSame ==
  ASSUME UNCHANGED <<row, deleted>>
  PROVE  \A e : Right(e)' = Right(e)
  BY DEF Right, ValueOf, PublicConfigs, Live

\* A write of the keys in S changes what is right for them and the dictionary.
LEMMA RightOfOthers ==
  ASSUME NEW S,
         \A j \in Keys : j \notin S => row'[j] = row[j] /\ (j \in deleted' <=> j \in deleted)
  PROVE  \A e \in Entries : e \notin S /\ e # AllPublic => Right(e)' = Right(e)
<1> SUFFICES ASSUME NEW e \in Entries, e \notin S, e # AllPublic PROVE Right(e)' = Right(e)
  OBVIOUS
<1>1. e \in Keys
  BY DEF Entries
<1>2. Live(e)' = Live(e)
  BY <1>1 DEF Live
<1>3. ValueOf(e)' = ValueOf(e)
  BY <1>2 DEF ValueOf
<1>4. Right(e) = {Nothing, ValueOf(e)} /\ Right(e)' = {Nothing, ValueOf(e)'}
  BY <1>1 DEF Right, Nothing
<1> QED
  BY <1>3, <1>4

LEMMA BothDue ==
  ASSUME NEW p \in Processes, NEW k, proc'[p].todo = <<k, AllPublic>>
  PROVE  Due(p, k)' /\ Due(p, AllPublic)'
<1>1. PICK todo : todo = proc'[p].todo /\ todo = <<k, AllPublic>>
  OBVIOUS
<1>2. /\ 1 \in DOMAIN todo /\ todo[1] = k
      /\ 2 \in DOMAIN todo /\ todo[2] = AllPublic
  BY <1>1
<1> QED
  BY <1>1, <1>2 DEF Due

LEMMA ContinueAfter ==
  ASSUME TypeOK, NEW p \in Processes, Continue(p)
  PROVE  /\ proc[p] # Idle /\ overlapped' = overlapped
         /\ \A q \in Processes : q # p => proc'[q] = proc[q]
<1>1. CASE Fill(p)
  BY <1>1, FillAfter DEF Fill, Goes, Idle
<1>2. CASE SetCommit(p)
  <2>1. proc[p] # Idle
    BY <1>2 DEF SetCommit, Idle
  <2> QED
    BY <1>2, <2>1, CommitAfter
<1>3. CASE InvalidateCache(p)
  BY <1>3, InvalidateAfter DEF Idle
<1>4. CASE PurgeNext(p)
  BY <1>4, PurgeAfter DEF Idle
<1>5. ASSUME NEW k \in Keys, FlagWrite(p, k)
      PROVE  /\ proc[p] # Idle /\ overlapped' = overlapped
             /\ \A q \in Processes : q # p => proc'[q] = proc[q]
  BY <1>5, FlagAfter DEF FlagWrite, Idle
<1>6. ASSUME NEW old \in Keys, NEW new \in Keys, UpdateRefused(p, old, new)
      PROVE  /\ proc[p] # Idle /\ overlapped' = overlapped
             /\ \A q \in Processes : q # p => proc'[q] = proc[q]
  BY <1>6, ProcSet DEF UpdateRefused, Goes, Idle
<1>7. ASSUME NEW old \in Keys, NEW new \in Keys, NEW del \in BOOLEAN,
             UpdateWrite(p, old, new, del)
      PROVE  /\ proc[p] # Idle /\ overlapped' = overlapped
             /\ \A q \in Processes : q # p => proc'[q] = proc[q]
  <2>1. proc[p] # Idle
    BY <1>7 DEF UpdateWrite, Idle
  <2> QED
    BY <1>7, <2>1, UpdateCall
<1> QED
  BY <1>1, <1>2, <1>3, <1>4, <1>5, <1>6, <1>7 DEF Continue

\* Every call begins with a read or by creating a row.
Begins(p) == Reads(p) \/ \E k \in Keys : Create(p, k)

LEMMA BeginsAfter ==
  ASSUME TypeOK, NEW p \in Processes, Begins(p)
  PROVE  \E a \in Call : Start(p, a)
  BY ReadsAfter, Evictions DEF Begins, Create

LEMMA OneCallStep ==
  ASSUME TypeOK, OneCall, [Next]_vars
  PROVE  OneCall'
<1>1. ASSUME NEW p \in Processes, Begins(p) PROVE OneCall'
  BY <1>1, BeginsAfter, StartAfter DEF OneCall, Busy
<1>2. ASSUME NEW p \in Processes, Continue(p) PROVE OneCall'
  BY <1>2, ContinueAfter DEF OneCall, Busy
<1>3. ASSUME \/ \E k \in Keys : DeleteSelected(k)
             \/ \E c \in Caches, e \in Entries : Expire(c, e)
             \/ UNCHANGED vars
      PROVE  OneCall'
  <2>1. proc' = proc /\ (~overlapped' => ~overlapped)
    <3>1. ASSUME NEW k \in Keys, DeleteSelected(k)
          PROVE  proc' = proc /\ (~overlapped' => ~overlapped)
      BY <3>1 DEF DeleteSelected, TypeOK
    <3>2. ASSUME UNCHANGED vars \/ \E c \in Caches, e \in Entries : Expire(c, e)
          PROVE  proc' = proc /\ overlapped' = overlapped
      BY <3>2 DEF Expire, vars
    <3> QED
      BY <1>3, <3>1, <3>2
  <2> QED
    BY <2>1 DEF OneCall, Busy
<1> QED
  BY <1>1, <1>2, <1>3 DEF Next, Begins, Reads

\* The invariant from what the one call in progress has left.
LEMMA FreshFrom ==
  ASSUME NEW p \in Processes, \A q \in Processes : q # p => proc'[q] = Idle,
         CallIsFresh(p)',
         \A e \in Entries : e \notin bypassed' =>
           Fresh(e)' \/ (proc'[p].stage = "evict" /\ Due(p, e)')
  PROVE  FreshButEvicted'
<1>1. ASSUME NEW q \in Processes, q # p PROVE CallIsFresh(q)'
  BY <1>1 DEF CallIsFresh, Idle
<1> QED
  BY <1>1 DEF FreshButEvicted

\* What precedes a step that nothing overlaps with.
LEMMA SerialNow ==
  ASSUME SerialInv, SharedCache, ~overlapped', NEW p \in Processes, Continue(p)
  PROVE  /\ \A q \in Processes : q # p => proc[q] = Idle /\ proc'[q] = Idle
         /\ CallIsFresh(p)
         /\ \A e \in Entries : e \notin bypassed =>
              Fresh(e) \/ (proc[p].stage = "evict" /\ Due(p, e))
<1>1. ~overlapped /\ \A q \in Processes : q # p => proc[q] = Idle /\ proc'[q] = Idle
  BY ContinueAfter DEF SerialInv, OneCall, Busy
<1> QED
  BY <1>1 DEF SerialInv, FreshButEvicted, Idle

LEMMA SerialQuiet ==
  ASSUME SerialInv, SharedCache, ~overlapped, \A q \in Processes : proc[q] = Idle
  PROVE  \A e \in Entries : e \notin bypassed => Fresh(e)
  BY DEF SerialInv, FreshButEvicted, Idle

LEMMA FreshBegins ==
  ASSUME SerialInv, SharedCache, ~overlapped', NEW p \in Processes, Begins(p)
  PROVE  FreshButEvicted'
<1>0. TypeOK
  BY DEF SerialInv
<1>1. ~overlapped /\ \A q \in Processes : proc[q] = Idle
  BY <1>0, BeginsAfter, StartAfter
<1>2. \A e \in Entries : e \notin bypassed => Fresh(e)
  BY <1>1, SerialQuiet
<1>3. CASE Reads(p)
  <2>1. PICK a \in Call : /\ Start(p, a) /\ a.stage # "evict"
                          /\ a.stage = "fill" => a.content \in Right(a.entry)
                          /\ a.stage = "set" => a.todo = <<a.key, AllPublic>>
    BY <1>0, <1>3, ReadsAfter
  <2>2. /\ proc'[p] = a /\ \A q \in Processes : q # p => proc'[q] = Idle
        /\ UNCHANGED <<row, deleted, cache, bypassed>>
    <3>1. proc'[p] = a /\ \A q \in Processes : q # p => proc'[q] = Idle
      <4>1. proc'[p] = a /\ \A q \in Processes : q # p => proc'[q] = proc[q]
        BY <1>0, <2>1, StartAfter
      <4> QED
        BY <1>1, <4>1
    <3>2. UNCHANGED <<row, deleted, cache, bypassed>>
      BY <1>0, <1>3, ReadsAfter
    <3> QED
      BY <3>1, <3>2
  <2>3. \A e : Right(e)' = Right(e)
    BY <2>2, RightSame
  <2>4. ASSUME a.stage = "set" PROVE \A e \in {a.key, AllPublic} : Due(p, e)'
    <3>1. PICK k : k = a.key
      OBVIOUS
    <3>2. proc'[p].todo = <<k, AllPublic>>
      BY <2>1, <2>2, <2>4, <3>1
    <3>3. Due(p, k)' /\ Due(p, AllPublic)'
      BY <3>2, BothDue
    <3> QED
      BY <3>1, <3>3
  <2>5. CallIsFresh(p)'
    <3>1. a.stage = "fill" => a.content \in Right(a.entry)'
      BY <2>1, <2>3
    <3> QED
      BY <2>2, <2>4, <3>1 DEF CallIsFresh
  <2>6. \A e \in Entries : e \notin bypassed' => Fresh(e)'
    BY <1>2, <2>2, <2>3 DEF Fresh
  <2> QED
    BY <2>2, <2>5, <2>6, FreshFrom
<1>4. ASSUME NEW k \in Keys, Create(p, k) PROVE FreshButEvicted'
  <2>1. PICK a : /\ a = proc'[p] /\ a.stage = "evict" /\ a.todo = <<k, AllPublic>>
                 /\ \A q \in Processes : q # p => proc'[q] = Idle
    <3>1. Evict(k) \in Call /\ Evict(k).stage = "evict" /\ Evict(k).todo = <<k, AllPublic>>
      BY Evictions
    <3>2. Start(p, Evict(k))
      BY <1>4 DEF Create
    <3>3. proc'[p] = Evict(k) /\ \A q \in Processes : q # p => proc'[q] = Idle
      BY <1>0, <1>1, <3>1, <3>2, StartAfter
    <3> QED
      BY <3>1, <3>3
  <2>2. UNCHANGED <<cache, bypassed>>
    BY <1>4 DEF Create
  <2>3. \A e \in Entries : e # k /\ e # AllPublic => Right(e)' = Right(e)
    <3>1. \A j \in Keys : j \notin {k} =>
            row'[j] = row[j] /\ (j \in deleted' <=> j \in deleted)
      BY <1>0, <1>4, StoresAfter DEF Create
    <3>2. \A e \in Entries : e \notin {k} /\ e # AllPublic => Right(e)' = Right(e)
      BY <3>1, RightOfOthers
    <3> QED
      BY <3>2
  <2>4. Due(p, k)' /\ Due(p, AllPublic)'
    BY <2>1, BothDue
  <2>5. \A e \in Entries : e \notin bypassed' => Fresh(e)' \/ Due(p, e)'
    BY <1>2, <2>2, <2>3, <2>4 DEF Fresh
  <2>6. CallIsFresh(p)'
    BY <2>1 DEF CallIsFresh
  <2> QED
    BY <2>1, <2>5, <2>6, FreshFrom
<1> QED
  BY <1>3, <1>4 DEF Begins

LEMMA FreshFills ==
  ASSUME SerialInv, SharedCache, ~overlapped', NEW p \in Processes,
         \/ Fill(p)
         \/ \E old, new \in Keys : UpdateRefused(p, old, new)
  PROVE  FreshButEvicted'
<1>0. TypeOK /\ Continue(p)
  BY DEF SerialInv, Continue
<1>1. /\ \A q \in Processes : q # p => proc'[q] = Idle
      /\ CallIsFresh(p)
      /\ proc[p].stage # "evict" => \A e \in Entries : e \notin bypassed => Fresh(e)
  BY <1>0, SerialNow
<1>2. UNCHANGED <<row, deleted, bypassed>> /\ proc[p].stage # "evict"
  BY DEF Fill, UpdateRefused
<1>3. proc'[p] = Idle
  BY <1>0, FillAfter, ProcSet DEF UpdateRefused, Goes
<1>4. \A e : Right(e)' = Right(e)
  BY <1>2, RightSame
<1>5. \A e \in Entries : \/ cache'["shared"][e] = cache["shared"][e]
                         \/ cache'["shared"][e] \in Right(e)
  <2>1. CASE Fill(p)
    <3>1. CacheOf(p) = "shared" /\ "shared" \in Caches
      BY CachesOf
    <3>2. proc[p].content \in Right(proc[p].entry)
      BY <1>1, <2>1 DEF CallIsFresh, Fill
    <3> QED
      BY <1>0, <2>1, <3>1, <3>2, FillAfter
  <2>2. CASE \E old, new \in Keys : UpdateRefused(p, old, new)
    BY <2>2 DEF UpdateRefused
  <2> QED
    BY <2>1, <2>2
<1>6. \A e \in Entries : e \notin bypassed' => Fresh(e)'
  BY <1>1, <1>2, <1>4, <1>5 DEF Fresh
<1>7. CallIsFresh(p)'
  BY <1>3 DEF CallIsFresh, Idle
<1> QED
  BY <1>1, <1>6, <1>7, FreshFrom

\* A write that goes on to evict: what it leaves out is bypassed.
LEMMA FreshIfDue ==
  ASSUME NEW p \in Processes, NEW S \in SUBSET Keys,
         \A q \in Processes : q # p => proc'[q] = Idle,
         \A e \in Entries : e \notin bypassed => Fresh(e),
         \A j \in Keys : j \notin S => row'[j] = row[j] /\ (j \in deleted' <=> j \in deleted),
         cache' = cache, bypassed \subseteq bypassed',
         proc'[p].stage = "evict", Due(p, AllPublic)',
         \A j \in S : j \in bypassed' \/ Due(p, j)'
  PROVE  FreshButEvicted'
<1>1. \A e \in Entries : e \notin S /\ e # AllPublic => Right(e)' = Right(e)
  BY RightOfOthers
<1>2. \A e \in Entries : e \notin bypassed' => Fresh(e)' \/ Due(p, e)'
  BY <1>1 DEF Fresh
<1>3. CallIsFresh(p)'
  BY DEF CallIsFresh
<1> QED
  BY <1>2, <1>3, FreshFrom

LEMMA FreshUpdates ==
  ASSUME SerialInv, SharedCache, ~overlapped', NEW p \in Processes,
         NEW old \in Keys, NEW new \in Keys, NEW del \in BOOLEAN,
         UpdateWrite(p, old, new, del)
  PROVE  FreshButEvicted'
<1>0. TypeOK /\ Continue(p)
  BY DEF SerialInv, Continue
<1>1. proc[p].stage # "evict"
  BY DEF UpdateWrite
<1>2. /\ \A q \in Processes : q # p => proc'[q] = Idle
      /\ \A e \in Entries : e \notin bypassed => Fresh(e)
  BY <1>0, <1>1, SerialNow
<1>3. /\ proc'[p] = Evict(new) /\ cache' = cache
      /\ bypassed' = bypassed \cup ({old} \ {new})
  BY <1>0, UpdateCall
<1>4. Evict(new).stage = "evict" /\ Evict(new).todo = <<new, AllPublic>>
  BY Evictions
<1>5. Due(p, new)' /\ Due(p, AllPublic)'
  BY <1>3, <1>4, BothDue
<1>6. \A j \in Keys : j \notin {old, new} =>
        row'[j] = row[j] /\ (j \in deleted' <=> j \in deleted)
  BY <1>0, UpdateStores
<1>7. \A j \in {old, new} : j \in bypassed' \/ Due(p, j)'
  BY <1>3, <1>5
<1>8. {old, new} \in SUBSET Keys /\ bypassed \subseteq bypassed' /\ proc'[p].stage = "evict"
  BY <1>3, <1>4
<1> QED
  BY <1>2, <1>3, <1>5, <1>6, <1>7, <1>8, FreshIfDue

LEMMA FreshFlags ==
  ASSUME SerialInv, SharedCache, ~overlapped', NEW p \in Processes,
         NEW k \in Keys, FlagWrite(p, k)
  PROVE  FreshButEvicted'
<1>0. TypeOK /\ Continue(p)
  BY DEF SerialInv, Continue
<1>1. proc[p].stage # "evict"
  BY DEF FlagWrite
<1>2. /\ \A q \in Processes : q # p => proc'[q] = Idle
      /\ \A e \in Entries : e \notin bypassed => Fresh(e)
  BY <1>0, <1>1, SerialNow
<1>3. PICK j \in Keys : j = proc[p].key
  BY <1>0, FlagAfter
<1>4. /\ proc'[p] = EvictTwice(j) /\ cache' = cache /\ row' = row
      /\ bypassed' = bypassed \cup ({k} \ {j})
      /\ \E del \in BOOLEAN : Written(k, del)
  BY <1>0, <1>3, FlagAfter
<1>5. PICK todo : /\ todo = proc'[p].todo /\ todo = <<j, AllPublic, j, AllPublic>>
                  /\ proc'[p].stage = "evict"
  BY <1>4, Evictions
<1>6. Due(p, j)' /\ Due(p, AllPublic)'
  <2>1. 1 \in DOMAIN todo /\ todo[1] = j /\ 2 \in DOMAIN todo /\ todo[2] = AllPublic
    BY <1>5
  <2> QED
    BY <1>5, <2>1 DEF Due
<1>7. \A i \in Keys : i \notin {k} => row'[i] = row[i] /\ (i \in deleted' <=> i \in deleted)
  BY <1>0, <1>4, StoresAfter
<1>8. /\ {k} \in SUBSET Keys /\ bypassed \subseteq bypassed'
      /\ \A i \in {k} : i \in bypassed' \/ Due(p, i)'
  BY <1>4, <1>6
<1> QED
  BY <1>2, <1>4, <1>5, <1>6, <1>7, <1>8, FreshIfDue

LEMMA FreshCommits ==
  ASSUME SerialInv, SharedCache, ~overlapped', NEW p \in Processes, SetCommit(p)
  PROVE  FreshButEvicted'
<1>0. TypeOK /\ Continue(p)
  BY DEF SerialInv, Continue
<1>1. proc[p].stage = "set" /\ proc[p].todo = <<>>
  BY DEF SetCommit
<1>2. /\ \A q \in Processes : q # p => proc'[q] = Idle
      /\ CallIsFresh(p)
      /\ \A e \in Entries : e \notin bypassed => Fresh(e)
  BY <1>0, <1>1, SerialNow
<1>3. PICK k \in Keys : k = proc[p].key
  BY <1>0, CommitAfter
<1>4. \A e \in {k, AllPublic} : cache["shared"][e] = Nothing
  BY <1>1, <1>2, <1>3 DEF CallIsFresh, Due
<1>5. /\ Written(k, FALSE) /\ Stores(k) /\ proc'[p] = Idle
      /\ UNCHANGED <<cache, bypassed>>
  BY <1>0, <1>3, CommitAfter
<1>6. \A e \in Entries : e \notin {k} /\ e # AllPublic => Right(e)' = Right(e)
  <2>1. \A j \in Keys : j \notin {k} => row'[j] = row[j] /\ (j \in deleted' <=> j \in deleted)
    BY <1>0, <1>5, StoresAfter
  <2> QED
    BY <2>1, RightOfOthers
<1>7. \A e : Nothing \in Right(e)'
  BY DEF Right
<1>8. \A e \in Entries : e \notin bypassed' => Fresh(e)'
  BY <1>2, <1>4, <1>5, <1>6, <1>7 DEF Fresh
<1>9. CallIsFresh(p)'
  BY <1>5 DEF CallIsFresh, Idle
<1> QED
  BY <1>2, <1>8, <1>9, FreshFrom

\* A deletion leaves fewer entries to be wrong.
LEMMA DropKeepsFresh ==
  ASSUME TypeOK, SharedCache, NEW c \in Caches, NEW e \in Entries, Drop(c, e),
         UNCHANGED <<row, deleted>>
  PROVE  /\ Fresh(e)' /\ cache'["shared"][e] = Nothing
         /\ \A f \in Entries : f # e =>
              /\ cache'["shared"][f] = cache["shared"][f]
              /\ Fresh(f) => Fresh(f)'
         /\ \A f : f # e => (f \in bypassed' <=> f \in bypassed)
         /\ \A f : Right(f)' = Right(f)
<1>1. c = "shared" /\ "shared" \in Caches
  BY DEF Caches
<1>2. \A f : Right(f)' = Right(f) /\ Nothing \in Right(f)
  BY RightSame DEF Right
<1>3. \A f \in Entries : cache'["shared"][f] = IF f = e THEN Nothing ELSE cache["shared"][f]
  BY <1>1, DropAfter
<1> QED
  BY <1>2, <1>3, DropAfter DEF Fresh

LEMMA FreshEvicts ==
  ASSUME SerialInv, SharedCache, ~overlapped', NEW p \in Processes, InvalidateCache(p)
  PROVE  FreshButEvicted'
<1>0. TypeOK /\ Continue(p)
  BY DEF SerialInv, Continue
<1>1. /\ \A q \in Processes : q # p => proc'[q] = Idle
      /\ CallIsFresh(p)
      /\ \A e \in Entries : e \notin bypassed => Fresh(e) \/ (proc[p].stage = "evict" /\ Due(p, e))
  BY <1>0, SerialNow
<1>2. PICK todo : todo = proc[p].todo
  OBVIOUS
<1>3. PICK head : head = Head(todo)
  OBVIOUS
<1>4. /\ todo \in Seq(Entries) /\ todo # <<>> /\ head \in Entries
      /\ proc[p].stage \in {"evict", "set"}
      /\ IF proc[p].stage = "evict" /\ Len(todo) = 1
         THEN proc'[p] = Idle
         ELSE /\ proc'[p].stage = proc[p].stage /\ proc'[p].key = proc[p].key
              /\ proc'[p].todo = Tail(todo)
      /\ Drop(CacheOf(p), head) /\ CacheOf(p) \in Caches
      /\ UNCHANGED <<row, deleted>>
  BY <1>0, <1>2, <1>3, InvalidateAfter, CachesOf
<1>5. /\ Fresh(head)' /\ cache'["shared"][head] = Nothing
      /\ \A f \in Entries : f # head =>
              /\ cache'["shared"][f] = cache["shared"][f]
              /\ Fresh(f) => Fresh(f)'
      /\ \A f : f # head => (f \in bypassed' <=> f \in bypassed)
  BY <1>0, <1>4, DropKeepsFresh
<1>6. \A f \in Entries : f # head /\ Due(p, f) => Len(todo) # 1 /\ (proc'[p].todo = Tail(todo) => Due(p, f)')
  <2> SUFFICES ASSUME NEW f \in Entries, f # head, Due(p, f)
               PROVE  Len(todo) # 1 /\ (proc'[p].todo = Tail(todo) => Due(p, f)')
    OBVIOUS
  <2>1. PICK i \in DOMAIN todo : todo[i] = f
    BY <1>2 DEF Due
  <2>2. Len(todo) # 1 /\ \E j \in DOMAIN Tail(todo) : Tail(todo)[j] = f
    BY <1>3, <1>4, <2>1, HeadOrTail
  <2> QED
    BY <2>2 DEF Due
<1>7. ASSUME NEW e \in Entries, e \notin bypassed'
      PROVE  Fresh(e)' \/ (proc'[p].stage = "evict" /\ Due(p, e)')
  <2>1. CASE e = head
    BY <1>5, <2>1
  <2>2. CASE e # head /\ Fresh(e)
    BY <1>5, <2>2
  <2>3. CASE e # head /\ proc[p].stage = "evict" /\ Due(p, e)
    BY <1>4, <1>6, <2>3
  <2> QED
    BY <1>1, <1>5, <1>7, <2>1, <2>2, <2>3
<1>8. CallIsFresh(p)'
  <2>1. CASE proc[p].stage = "evict"
    <3>1. proc'[p].stage \in {"idle", "evict"}
      BY <1>4, <2>1 DEF Idle
    <3> QED
      BY <3>1 DEF CallIsFresh
  <2>2. CASE proc[p].stage = "set"
    <3>1. proc'[p].stage = "set" /\ proc'[p].key = proc[p].key /\ proc'[p].todo = Tail(todo)
      BY <1>4, <2>2
    <3>2. /\ proc[p].key \in Entries /\ AllPublic \in Entries
          /\ \A e \in {proc[p].key, AllPublic} : cache["shared"][e] = Nothing \/ Due(p, e)
      BY <1>0, <1>1, <2>2, InvalidateAfter DEF CallIsFresh, Entries
    <3>3. \A e \in {proc[p].key, AllPublic} : cache'["shared"][e] = Nothing \/ Due(p, e)'
      BY <1>5, <1>6, <3>1, <3>2
    <3> QED
      BY <3>1, <3>3 DEF CallIsFresh
  <2> QED
    BY <1>4, <2>1, <2>2
<1> QED
  BY <1>1, <1>7, <1>8, FreshFrom

LEMMA FreshPurges ==
  ASSUME SerialInv, SharedCache, ~overlapped', NEW p \in Processes, PurgeNext(p)
  PROVE  FreshButEvicted'
<1>0. TypeOK /\ Continue(p)
  BY DEF SerialInv, Continue
<1>1. /\ proc[p].stage = "purge" /\ proc'[p].stage \in {"idle", "purge"}
      /\ UNCHANGED <<row, deleted>>
  BY <1>0, PurgeAfter
<1>2. /\ \A q \in Processes : q # p => proc'[q] = Idle
      /\ \A e \in Entries : e \notin bypassed => Fresh(e)
  BY <1>0, <1>1, SerialNow
<1>3. PICK e \in Entries : Drop(CacheOf(p), e)
  BY <1>0, PurgeAfter
<1>4. /\ Fresh(e)' /\ \A f \in Entries : f # e => (Fresh(f) => Fresh(f)')
      /\ \A f : f # e => (f \in bypassed' <=> f \in bypassed)
  BY <1>0, <1>1, <1>3, CachesOf, DropKeepsFresh
<1>5. \A f \in Entries : f \notin bypassed' => Fresh(f)'
  BY <1>2, <1>4
<1>6. CallIsFresh(p)'
  BY <1>1 DEF CallIsFresh
<1> QED
  BY <1>2, <1>5, <1>6, FreshFrom

LEMMA FreshExpires ==
  ASSUME SerialInv, SharedCache, ~overlapped', NEW c \in Caches, NEW e \in Entries, Expire(c, e)
  PROVE  FreshButEvicted'
<1>0. TypeOK
  BY DEF SerialInv
<1>1. ~overlapped /\ UNCHANGED <<row, deleted, proc>> /\ Drop(c, e)
  BY DEF Expire
<1>2. /\ Fresh(e)' /\ cache'["shared"][e] = Nothing
      /\ \A f \in Entries : f # e =>
              /\ cache'["shared"][f] = cache["shared"][f]
              /\ Fresh(f) => Fresh(f)'
      /\ \A f : f # e => (f \in bypassed' <=> f \in bypassed)
      /\ \A f : Right(f)' = Right(f)
  BY <1>0, <1>1, DropKeepsFresh
<1>3. \A q \in Processes : \A f : Due(q, f)' = Due(q, f)
  BY <1>1 DEF Due
<1>4. ASSUME NEW q \in Processes PROVE CallIsFresh(q)'
  <2>1. CallIsFresh(q)
    BY <1>1 DEF SerialInv, FreshButEvicted
  <2>2. proc[q].stage = "set" => proc[q].key \in Entries /\ AllPublic \in Entries
    BY <1>0, CallRecord DEF TypeOK, Entries
  <2> QED
    BY <1>1, <1>2, <1>3, <2>1, <2>2 DEF CallIsFresh
<1>5. ASSUME NEW f \in Entries \ bypassed'
      PROVE  Fresh(f)' \/ \E q \in Processes : proc'[q].stage = "evict" /\ Due(q, f)'
  <2>1. f = e \/ Fresh(f) \/ \E q \in Processes : proc[q].stage = "evict" /\ Due(q, f)
    BY <1>1, <1>2, <1>5 DEF SerialInv, FreshButEvicted
  <2> QED
    BY <1>1, <1>2, <1>3, <2>1
<1> QED
  BY <1>4, <1>5 DEF FreshButEvicted

LEMMA FreshDeletes ==
  ASSUME SerialInv, SharedCache, ~overlapped', NEW k \in Keys, DeleteSelected(k)
  PROVE  FreshButEvicted'
<1>0. TypeOK
  BY DEF SerialInv
<1>1. /\ ~overlapped /\ \A q \in Processes : proc[q] = Idle
      /\ proc' = proc /\ cache' = cache /\ row' = row
      /\ bypassed' = bypassed \cup {k, AllPublic} /\ Written(k, TRUE)
  BY DEF DeleteSelected, Busy
<1>2. \A j \in Keys : j \notin {k} => row'[j] = row[j] /\ (j \in deleted' <=> j \in deleted)
  BY <1>0, <1>1, StoresAfter
<1>3. \A e \in Entries : e \notin {k} /\ e # AllPublic => Right(e)' = Right(e)
  BY <1>2, RightOfOthers
<1>4. \A e \in Entries : e \notin bypassed => Fresh(e)
  BY <1>1, SerialQuiet
<1>5. \A e \in Entries \ bypassed' : Fresh(e)'
  BY <1>1, <1>3, <1>4 DEF Fresh
<1>6. \A q \in Processes : CallIsFresh(q)'
  BY <1>1 DEF CallIsFresh, Idle
<1> QED
  BY <1>5, <1>6 DEF FreshButEvicted

LEMMA SerialStep ==
  ASSUME SerialInv, [Next]_vars
  PROVE  SerialInv'
<1>1. TypeOK' /\ OneCall'
  BY TypeStep, OneCallStep DEF SerialInv
<1>2. FreshButEvicted'
  <2> SUFFICES ASSUME SharedCache, ~overlapped' PROVE FreshButEvicted'
    BY DEF FreshButEvicted
  <2>1. ASSUME NEW p \in Processes, Begins(p) PROVE FreshButEvicted'
    BY <2>1, FreshBegins
  <2>2. ASSUME NEW p \in Processes, Continue(p) PROVE FreshButEvicted'
    BY <2>2, FreshFills, FreshUpdates, FreshFlags, FreshCommits, FreshEvicts, FreshPurges
    DEF Continue
  <2>3. ASSUME NEW c \in Caches, NEW e \in Entries, Expire(c, e) PROVE FreshButEvicted'
    BY <2>3, FreshExpires
  <2>4. ASSUME NEW k \in Keys, DeleteSelected(k) PROVE FreshButEvicted'
    BY <2>4, FreshDeletes
  <2>5. CASE UNCHANGED vars
    BY <2>5 DEF vars, SerialInv, FreshButEvicted, Fresh, Due, CallIsFresh, Right, ValueOf,
                PublicConfigs, Live
  <2> QED
    BY <2>1, <2>2, <2>3, <2>4, <2>5 DEF Next, Begins, Reads
<1> QED
  BY <1>1, <1>2 DEF SerialInv

\* While calls come one at a time, a shared cache answers with the living rows
\* (models.py:133-165, services.py:62-137), but for the entries a rename or a
\* bulk deletion has left until they are evicted.
THEOREM SerialCallsStayFresh == Spec => []FreshWhenSerial
<1>1. Init => SerialInv
  <2> SUFFICES ASSUME Init PROVE SerialInv
    OBVIOUS
  <2>1. TypeOK
    BY TypeInit
  <2>2. OneCall
    BY DEF Init, OneCall, Busy
  <2>3. FreshButEvicted
    BY DEF Init, FreshButEvicted, Fresh, Right, CallIsFresh, Idle, Caches
  <2> QED
    BY <2>1, <2>2, <2>3 DEF SerialInv
<1>2. SerialInv => FreshWhenSerial
  <2> SUFFICES ASSUME SerialInv, SharedCache, ~overlapped, Quiet,
                      NEW c \in Caches, NEW e \in Entries \ bypassed
               PROVE  cache[c][e] \in Right(e)
    BY DEF FreshWhenSerial
  <2>1. c = "shared" /\ \A q \in Processes : proc[q] = Idle
    BY DEF Caches, Quiet, Busy
  <2> QED
    BY <2>1, SerialQuiet DEF Fresh
<1> QED
  BY <1>1, <1>2, SerialStep, PTL DEF Spec

-----------------------------------------------------------------------------
(* Once right, right until the next write *)

\* All that is cached in entry e, or is about to be, is what is stored.
RightEverywhere(e) ==
  /\ \A c \in Caches : cache[c][e] \in Right(e)
  /\ \A p \in Processes :
       proc[p].stage = "fill" /\ proc[p].entry = e => proc[p].content \in Right(e)

LEMMA RightStep ==
  ASSUME TypeOK, [Next]_vars, NEW e \in Entries, RightEverywhere(e), Right(e)' = Right(e)
  PROVE  RightEverywhere(e)'
<1>1. ASSUME NEW c \in Caches PROVE cache'[c][e] \in Right(e)
  <2>1. Nothing \in Right(e)
    BY DEF Right
  <2> QED
    BY <2>1, ContentsFrom DEF RightEverywhere
<1>2. ASSUME NEW p \in Processes, proc'[p].stage = "fill", proc'[p].entry = e
      PROVE  proc'[p].content \in Right(e)
  BY <1>2, ContentsFrom DEF RightEverywhere
<1> QED
  BY <1>1, <1>2 DEF RightEverywhere

\* Whatever races, with one cache or many, an entry that every cache and every
\* call about to fill it has right becomes stale by nothing but a step that
\* changes what is stored for it: no reader, eviction, purge or timeout, and
\* for the entry of a key no write of another key.  (The safety half of
\* SettlesFresh.)
THEOREM OnlyWritesMakeStale ==
  Spec => [][\A e \in Entries : RightEverywhere(e) /\ Right(e)' = Right(e)
                                  => RightEverywhere(e)']_vars
<1>1. TypeOK /\ [Next]_vars =>
        [\A e \in Entries : RightEverywhere(e) /\ Right(e)' = Right(e)
                              => RightEverywhere(e)']_vars
  BY RightStep
<1> QED
  BY <1>1, TypeCorrect, PTL DEF Spec
=============================================================================
