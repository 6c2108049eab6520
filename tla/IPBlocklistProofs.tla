-------------------------- MODULE IPBlocklistProofs --------------------------
(***************************************************************************)
(* Proofs about IPBlocklist for any number of checks, members of the       *)
(* staff, entries and caches, and any time: a block stays as it was        *)
(* written, one that is confirmed is enforced, and caches and table that   *)
(* agree are parted by nothing but the table.                              *)
(***************************************************************************)
EXTENDS IPBlocklist, WellFoundedInduction, TLAPS

\* The block of record is a living entry.  A check that is to judge it holds
\* the expiry it has, and no check is to deactivate it in its time.
HeldIsKept ==
  held # 0 =>
    /\ held \in DOMAIN rows
    /\ rows[held].live /\ rows[held].until = promise
    /\ \A c \in Checks :
         check[c].stage = "judge" /\ check[c].row = held => check[c].until = promise
    /\ now < promise =>
         /\ rows[held].active
         /\ \A c \in Checks : check[c].stage = "deactivate" => check[c].row # held

\* A confirmed block is the only living entry, and while it lasts nothing is
\* cached or under way that would answer "allow" where it is confirmed.
ConfirmedIsAlone ==
  confirmed # {} =>
    /\ held # 0 /\ Living = {held}
    /\ now < promise =>
         /\ \A k \in confirmed : cache[k] # "allow"
         /\ \A c \in Checks : CacheOf[c] \in confirmed => ~Outdated(check[c])

IInv == TypeOK /\ HeldIsKept /\ ConfirmedIsAlone

-----------------------------------------------------------------------------
(* The entries and the records of those at work on them. *)

LEMMA SeqOfFunction ==
  ASSUME NEW S, NEW n \in Nat, NEW f \in [1..n -> S]
  PROVE  f \in Seq(S) /\ Len(f) = n /\ DOMAIN f = 1..n
OBVIOUS

LEMMA RowsShape ==
  ASSUME TypeOK
  PROVE  /\ rows \in [1..Len(rows) -> Entry] /\ DOMAIN rows = 1..Len(rows)
         /\ Len(rows) \in Nat
         /\ DOMAIN rows \subseteq 1..MaxRows /\ Living \subseteq DOMAIN rows
  BY ConstantsAssumption DEF TypeOK, Living

LEMMA EntryColumns ==
  ASSUME NEW r \in Entry, NEW b \in BOOLEAN
  PROVE  /\ [r EXCEPT !.active = b] \in Entry
         /\ [r EXCEPT !.active = b].live = r.live
         /\ [r EXCEPT !.active = b].until = r.until
         /\ [r EXCEPT !.active = b].active = b
         /\ r.until \in Int /\ r.live \in BOOLEAN /\ r.active \in BOOLEAN
         /\ r = [live |-> r.live, active |-> r.active, until |-> r.until]
  BY ConstantsAssumption DEF Entry, Until, NoExpiry

LEMMA CheckRecord ==
  ASSUME TypeOK, NEW c \in Checks
  PROVE  /\ check[c].stage = "judge" =>
              check[c].row \in 1..MaxRows /\ check[c].until \in Until
         /\ check[c].stage = "deactivate" => check[c].row \in 1..MaxRows
         /\ check[c].stage = "store" => /\ check[c].verdict \in Verdict
                                        /\ check[c] = [stage |-> "store", verdict |-> check[c].verdict]
  BY DEF TypeOK, CheckStage, Idle

LEMMA StaffRecord ==
  ASSUME TypeOK, NEW s \in Staff
  PROVE  /\ staff[s].stage \in {"lookup", "insert"} =>
              /\ staff[s].until \in Until
              /\ staff[s] = [stage |-> staff[s].stage, until |-> staff[s].until]
         /\ staff[s].stage = "cacheDelete" =>
              /\ staff[s].row \in 0..MaxRows
              /\ staff[s] = [stage |-> "cacheDelete", row |-> staff[s].row]
         /\ staff[s].stage \in {"softDelete", "edit"} => staff[s].row \in 1..MaxRows
  BY DEF TypeOK, StaffStage, Idle

LEMMA CheckDoTyped ==
  ASSUME TypeOK, NEW c \in Checks, NEW stage \in CheckStage, CheckDo(c, stage)
  PROVE  /\ check' \in [Checks -> CheckStage]
         /\ \A d \in Checks : check'[d] = IF d = c THEN stage ELSE check[d]
  BY DEF TypeOK, CheckDo

LEMMA StaffDoTyped ==
  ASSUME TypeOK, NEW s \in Staff, NEW stage \in StaffStage, StaffDo(s, stage)
  PROVE  staff' \in [Staff -> StaffStage]
  BY DEF TypeOK, StaffDo

-----------------------------------------------------------------------------
(* Types *)

LEMMA RowReplaced ==
  ASSUME TypeOK, NEW i, NEW r \in Entry, rows' = [rows EXCEPT ![i] = r]
  PROVE  /\ rows' \in Seq(Entry) /\ Len(rows') = Len(rows)
         /\ DOMAIN rows' = DOMAIN rows
         /\ \A j \in DOMAIN rows : rows'[j] = IF j = i THEN r ELSE rows[j]
<1>1. rows' \in [1..Len(rows) -> Entry]
  BY RowsShape
<1> QED
  BY <1>1, RowsShape, SeqOfFunction

\* A column written into an entry that may be missing.
LEMMA ActiveCleared ==
  ASSUME TypeOK, NEW i, rows' = [rows EXCEPT ![i].active = FALSE]
  PROVE  /\ rows' \in Seq(Entry) /\ Len(rows') = Len(rows)
         /\ DOMAIN rows' = DOMAIN rows
         /\ \A j \in DOMAIN rows :
              rows'[j] = IF j = i THEN [rows[j] EXCEPT !.active = FALSE] ELSE rows[j]
<1>1. \A j \in DOMAIN rows : rows[j] \in Entry /\ [rows[j] EXCEPT !.active = FALSE] \in Entry
  BY RowsShape, EntryColumns
<1>2. rows' \in [1..Len(rows) -> Entry]
  BY <1>1, RowsShape
<1> QED
  BY <1>2, RowsShape, SeqOfFunction

LEMMA RowDeleted ==
  ASSUME TypeOK, NEW i, rows' = [rows EXCEPT ![i] = Deleted]
  PROVE  /\ rows' \in Seq(Entry) /\ Len(rows') = Len(rows)
         /\ DOMAIN rows' = DOMAIN rows
         /\ \A j \in DOMAIN rows : j # i => rows'[j] = rows[j]
<1>1. Deleted \in Entry
  BY ConstantsAssumption DEF Deleted, Entry, Until, NoExpiry
<1> HIDE DEF Deleted
<1> QED
  BY <1>1, RowReplaced

LEMMA RowAppended ==
  ASSUME TypeOK, NEW r \in Entry, rows' = Append(rows, r), Len(rows) < MaxRows
  PROVE  /\ rows' \in Seq(Entry) /\ Len(rows') = Len(rows) + 1 /\ Len(rows') <= MaxRows
         /\ DOMAIN rows' = 1..(Len(rows) + 1)
         /\ \A j \in DOMAIN rows : rows'[j] = rows[j]
         /\ rows'[Len(rows) + 1] = r
  BY ConstantsAssumption, RowsShape DEF TypeOK

\* Entries that a bulk update or deletion rewrites.
LEMMA RowsRewritten ==
  ASSUME TypeOK, \/ \E s \in Staff : Unblock(s)
                 \/ AdminDelete
  PROVE  rows' \in Seq(Entry) /\ Len(rows') = Len(rows) /\ DOMAIN rows' = DOMAIN rows
<1>1. \A i \in DOMAIN rows : rows[i] \in Entry /\ [rows[i] EXCEPT !.active = FALSE] \in Entry
  BY RowsShape, EntryColumns
<1>0. Deleted \in Entry
  BY ConstantsAssumption DEF Deleted, Entry, Until, NoExpiry
<1>2. rows' \in [1..Len(rows) -> Entry]
  <2>1. CASE \E s \in Staff : Unblock(s)
    BY <1>1, <2>1, RowsShape DEF Unblock
  <2>2. CASE AdminDelete
    BY <1>1, <1>0, <2>2, RowsShape DEF AdminDelete
  <2> QED
    BY <2>1, <2>2
<1> QED
  BY <1>2, RowsShape, SeqOfFunction

LEMMA GhostsTyped ==
  ASSUME TypeOK
  PROVE  /\ \A S : Altered(S) =>
              held' \in 0..MaxRows /\ promise' \in 0..NoExpiry /\ confirmed' \subseteq Caches
         /\ \A i \in 1..MaxRows, until \in Until : Blocked(i, until) =>
              held' \in 0..MaxRows /\ promise' \in 0..NoExpiry /\ confirmed' \subseteq Caches
<1>1. /\ 0 \in 0..MaxRows /\ 0 \in 0..NoExpiry
      /\ 1..MaxRows \subseteq 0..MaxRows /\ Until \subseteq 0..NoExpiry
  BY ConstantsAssumption DEF Until, NoExpiry
<1> QED
  BY <1>1 DEF TypeOK, Altered, Blocked

\* What a member of the staff goes on to do.
LEMMA StaffStages ==
  /\ Idle \in StaffStage /\ [stage |-> "cacheBlock"] \in StaffStage
  /\ \A until \in Until : /\ [stage |-> "lookup", until |-> until] \in StaffStage
                         /\ [stage |-> "insert", until |-> until] \in StaffStage
  /\ \A i \in 0..MaxRows : [stage |-> "cacheDelete", row |-> i] \in StaffStage
  /\ \A i \in 1..MaxRows : /\ [stage |-> "softDelete", row |-> i] \in StaffStage
                          /\ [stage |-> "edit", row |-> i] \in StaffStage
  BY DEF StaffStage, Idle

LEMMA CheckStages ==
  /\ Idle \in CheckStage /\ [stage |-> "query"] \in CheckStage
  /\ \A i \in 1..MaxRows, until \in Until :
       [stage |-> "judge", row |-> i, until |-> until] \in CheckStage
  /\ \A i \in 1..MaxRows : [stage |-> "deactivate", row |-> i] \in CheckStage
  /\ \A v \in Verdict : [stage |-> "store", verdict |-> v] \in CheckStage
  BY DEF CheckStage

\* The newest of the entries in effect is one of them.
LEMMA NewestInEffect ==
  ASSUME TypeOK, InEffect # {}
  PROVE  Newest \in InEffect /\ Newest \in 1..MaxRows /\ rows[Newest].until \in Until
<1>1. InEffect \subseteq 1..Len(rows) /\ Len(rows) \in Nat
  BY RowsShape DEF InEffect
<1>2. \E x \in InEffect : \A y \in InEffect : x >= y
  <2> DEFINE after == {Len(rows) - i : i \in InEffect}
  <2>1. after \subseteq Nat /\ after # {}
    <3>1. ASSUME NEW i \in InEffect PROVE Len(rows) - i \in Nat
      <4>1. i \in 1..Len(rows)
        BY <1>1
      <4> QED
        BY <1>1, <4>1
    <3> QED
      BY <3>1
  <2>2. PICK m \in after : \A n \in after : ~(<<n, m>> \in OpToRel(<, Nat))
    <3> HIDE DEF after
    <3> QED
      BY <2>1, NatLessThanWellFounded, WFMin
  <2>3. \A n \in after : ~(n < m)
    BY <2>1, <2>2 DEF OpToRel
  <2>4. PICK x \in InEffect : m = Len(rows) - x
    OBVIOUS
  <2>5. ASSUME NEW y \in InEffect PROVE x >= y
    <3>1. Len(rows) - y \in after
      OBVIOUS
    <3>2. ~(Len(rows) - y < m)
      BY <2>3, <3>1
    <3> QED
      BY <1>1, <2>4, <3>2
  <2> QED
    BY <2>5
<1>3. Newest \in InEffect
  BY <1>2 DEF Newest, Max
<1>4. Newest \in DOMAIN rows
  BY <1>3 DEF InEffect, Living
<1> QED
  BY <1>3, <1>4, RowsShape DEF Entry

LEMMA TypeStep == TypeOK /\ [Next]_vars => TypeOK'
<1> SUFFICES ASSUME TypeOK, [Next]_vars PROVE TypeOK'
  OBVIOUS
<1> USE ConstantsAssumption
<1>1. ASSUME NEW c \in Checks, CheckMiss(c) PROVE TypeOK'
  BY <1>1, CheckStages, CheckDoTyped DEF CheckMiss, TypeOK
<1>2. ASSUME NEW c \in Checks, Query(c) PROVE TypeOK'
  <2>1. CASE InEffect = {}
    BY <1>2, <2>1, CheckStages, CheckDoTyped DEF Query, TypeOK, Verdict
  <2>2. CASE InEffect # {}
    <3>1. Newest \in 1..MaxRows /\ rows[Newest].until \in Until
      BY <2>2, NewestInEffect
    <3>2. CheckDo(c, [stage |-> "judge", row |-> Newest, until |-> rows[Newest].until])
      BY <1>2, <2>2 DEF Query
    <3> QED
      BY <1>2, <3>1, <3>2, CheckStages, CheckDoTyped DEF Query, TypeOK
  <2> QED
    BY <2>1, <2>2
<1>2a. ASSUME NEW c \in Checks, Judge(c) PROVE TypeOK'
  <2>1. check' \in [Checks -> CheckStage]
    BY <1>2a, CheckRecord, CheckStages, CheckDoTyped DEF Judge, Verdict
  <2> QED
    BY <1>2a, <2>1 DEF Judge, TypeOK
<1>3. ASSUME NEW c \in Checks, Deactivate(c) PROVE TypeOK'
  <2>1. check' \in [Checks -> CheckStage]
    BY <1>3, CheckStages, CheckDoTyped DEF Deactivate, Verdict
  <2> QED
    BY <1>3, <2>1, ActiveCleared DEF Deactivate, TypeOK
<1>4. ASSUME NEW c \in Checks, StoreVerdict(c) PROVE TypeOK'
  BY <1>4, CheckRecord, CheckStages, CheckDoTyped DEF StoreVerdict, TypeOK
<1>5. ASSUME NEW s \in Staff, Block(s) PROVE TypeOK'
  <2>1. PICK until \in (now + 1)..NoExpiry : StaffDo(s, [stage |-> "lookup", until |-> until])
    BY <1>5 DEF Block
  <2>2. until \in Until
    BY DEF TypeOK, Until, NoExpiry
  <2> QED
    BY <1>5, <2>1, <2>2, StaffStages, StaffDoTyped DEF Block, TypeOK
<1>6. ASSUME NEW s \in Staff, Create(s) PROVE TypeOK'
  <2>1. staff' \in [Staff -> StaffStage]
    <3>1. NoExpiry \in Until
      BY DEF NoExpiry, Until
    <3> QED
      BY <1>6, <3>1, StaffStages, StaffDoTyped DEF Create
  <2>2. rows' \in Seq(Entry) /\ Len(rows') <= MaxRows
    <3>1. PICK until \in Until, active \in BOOLEAN :
            rows' = Append(rows, [live |-> TRUE, active |-> active, until |-> until])
      BY <1>6 DEF Create
    <3>2. [live |-> TRUE, active |-> active, until |-> until] \in Entry
      BY DEF Entry
    <3> QED
      BY <1>6, <3>1, <3>2, RowAppended DEF Create
  <2> QED
    BY <1>6, <2>1, <2>2, GhostsTyped DEF Create, TypeOK
<1>7. ASSUME NEW s \in Staff, Unblock(s) PROVE TypeOK'
  <2>1. staff' \in [Staff -> StaffStage]
    <3>1. \E i \in 0..MaxRows : StaffDo(s, [stage |-> "cacheDelete", row |-> i])
      BY <1>7, RowsShape DEF Unblock
    <3> QED
      BY <3>1, StaffStages, StaffDoTyped
  <2> QED
    BY <1>7, <2>1, RowsRewritten, GhostsTyped DEF Unblock, TypeOK
<1>8. ASSUME NEW s \in Staff, EditRead(s) PROVE TypeOK'
  <2>1. staff' \in [Staff -> StaffStage]
    BY <1>8, RowsShape, StaffStages, StaffDoTyped DEF EditRead
  <2> QED
    BY <1>8, <2>1 DEF EditRead, TypeOK
<1>9. ASSUME NEW s \in Staff, BlockUpdate(s) PROVE TypeOK'
  <2>1. staff' \in [Staff -> StaffStage]
    BY <1>9, StaffStages, StaffDoTyped DEF BlockUpdate
  <2>2. staff[s].until \in Until
    BY <1>9, StaffRecord DEF BlockUpdate
  <2>3. PICK i \in Living :
          /\ rows' = [rows EXCEPT ![i] = [live |-> TRUE, active |-> TRUE, until |-> staff[s].until]]
          /\ Blocked(i, staff[s].until)
    BY <1>9 DEF BlockUpdate
  <2>4. [live |-> TRUE, active |-> TRUE, until |-> staff[s].until] \in Entry
    BY <2>2 DEF Entry
  <2>5. rows' \in Seq(Entry) /\ Len(rows') = Len(rows) /\ i \in 1..MaxRows
    BY <2>3, <2>4, RowReplaced, RowsShape
  <2> QED
    BY <1>9, <2>1, <2>2, <2>3, <2>5, GhostsTyped DEF BlockUpdate, TypeOK
<1>10. ASSUME NEW s \in Staff, BlockMiss(s) PROVE TypeOK'
  <2>1. staff[s].until \in Until
        /\ staff[s] = [stage |-> "lookup", until |-> staff[s].until]
    BY <1>10, StaffRecord DEF BlockMiss
  <2>2. StaffDo(s, [stage |-> "insert", until |-> staff[s].until])
    BY <1>10, <2>1 DEF BlockMiss
  <2> QED
    BY <1>10, <2>1, <2>2, StaffStages, StaffDoTyped DEF BlockMiss, TypeOK
<1>11. ASSUME NEW s \in Staff, BlockInsert(s) PROVE TypeOK'
  <2>1. staff' \in [Staff -> StaffStage]
    BY <1>11, StaffStages, StaffDoTyped DEF BlockInsert
  <2>2. staff[s].until \in Until
    BY <1>11, StaffRecord DEF BlockInsert
  <2>3. [live |-> TRUE, active |-> TRUE, until |-> staff[s].until] \in Entry
    BY <2>2 DEF Entry
  <2>4. rows' \in Seq(Entry) /\ Len(rows') <= MaxRows
    BY <1>11, <2>3, RowAppended DEF BlockInsert
  <2>5. Len(rows) + 1 \in 1..MaxRows
    BY <1>11, RowsShape DEF BlockInsert
  <2> QED
    BY <1>11, <2>1, <2>2, <2>4, <2>5, GhostsTyped DEF BlockInsert, TypeOK
<1>12. ASSUME NEW s \in Staff, BlockAmbiguous(s) PROVE TypeOK'
  BY <1>12, StaffStages, StaffDoTyped DEF BlockAmbiguous, TypeOK
<1>13. ASSUME NEW s \in Staff, BlockCache(s) PROVE TypeOK'
  <2>1. staff' \in [Staff -> StaffStage] /\ confirmed' \subseteq Caches
    BY <1>13, StaffStages, StaffDoTyped DEF BlockCache, Return
  <2> QED
    BY <1>13, <2>1 DEF BlockCache, TypeOK, Verdict
<1>14. ASSUME NEW s \in Staff, UnblockCache(s) PROVE TypeOK'
  <2>1. staff[s].row \in 0..MaxRows
        /\ staff[s] = [stage |-> "cacheDelete", row |-> staff[s].row]
    BY <1>14, StaffRecord DEF UnblockCache
  <2>2. staff' \in [Staff -> StaffStage]
    <3>1. CASE staff[s].row = 0
      BY <1>14, <3>1, StaffStages, StaffDoTyped DEF UnblockCache
    <3>2. CASE staff[s].row # 0
      <4>1. StaffDo(s, [stage |-> "softDelete", row |-> staff[s].row])
        BY <1>14, <2>1, <3>2 DEF UnblockCache
      <4>2. staff[s].row \in 1..MaxRows
        BY <2>1, <3>2
      <4>3. [stage |-> "softDelete", row |-> staff[s].row] \in StaffStage
        BY <4>2, StaffStages
      <4> QED
        BY <4>1, <4>3, StaffDoTyped
    <3> QED
      BY <3>1, <3>2
  <2> QED
    BY <1>14, <2>2 DEF UnblockCache, TypeOK
<1>15. ASSUME NEW s \in Staff, SoftDelete(s) PROVE TypeOK'
  <2>1. staff' \in [Staff -> StaffStage]
    BY <1>15, StaffStages, StaffDoTyped DEF SoftDelete
  <2> QED
    BY <1>15, <2>1, RowDeleted, GhostsTyped DEF SoftDelete, TypeOK
<1>16. ASSUME NEW s \in Staff, EditSave(s) PROVE TypeOK'
  <2>1. staff' \in [Staff -> StaffStage]
    BY <1>16, StaffStages, StaffDoTyped DEF EditSave
  <2>2. rows' \in Seq(Entry) /\ Len(rows') = Len(rows)
    <3>1. ASSUME NEW active \in BOOLEAN, NEW until \in Until,
                 rows' = [rows EXCEPT ![staff[s].row] =
                            [live |-> TRUE, active |-> active, until |-> until]]
          PROVE  rows' \in Seq(Entry) /\ Len(rows') = Len(rows)
      <4>1. [live |-> TRUE, active |-> active, until |-> until] \in Entry
        BY DEF Entry
      <4> QED
        BY <3>1, <4>1, RowReplaced
    <3> QED
      BY <1>16, <3>1, RowDeleted DEF EditSave
  <2> QED
    BY <1>16, <2>1, <2>2, GhostsTyped DEF EditSave, TypeOK
<1>17. CASE AdminDelete
  <2>1. PICK S \in (SUBSET Living) \ {{}} : Altered(S) /\ UNCHANGED <<now, cache, check, staff>>
    BY <1>17 DEF AdminDelete
  <2> QED
    BY <1>17, <2>1, RowsRewritten, GhostsTyped DEF TypeOK
<1>18. CASE AdminAdd
  <2>1. PICK until \in Until, active \in BOOLEAN :
          rows' = Append(rows, [live |-> TRUE, active |-> active, until |-> until])
    BY <1>18 DEF AdminAdd
  <2>2. [live |-> TRUE, active |-> active, until |-> until] \in Entry
    BY DEF Entry
  <2> QED
    BY <1>18, <2>1, <2>2, RowAppended, GhostsTyped DEF AdminAdd, TypeOK
<1>19. ASSUME NEW k \in Caches, CacheExpires(k) PROVE TypeOK'
  BY <1>19 DEF CacheExpires, TypeOK
<1>20. CASE Tick \/ UNCHANGED vars
  BY <1>20 DEF Tick, TypeOK, vars
<1> QED
  BY <1>1, <1>2, <1>2a, <1>3, <1>4, <1>5, <1>6, <1>7, <1>8, <1>9, <1>10, <1>11, <1>12,
     <1>13, <1>14, <1>15, <1>16, <1>17, <1>18, <1>19, <1>20 DEF Next, CheckStep, StaffStep

-----------------------------------------------------------------------------
(* What each kind of step does to the block of record. *)

\* A check goes on to something that does not undo the block.
LEMMA CheckGoesOn ==
  ASSUME IInv, NEW c \in Checks, NEW stage \in CheckStage, CheckDo(c, stage),
         UNCHANGED <<now, rows, held, promise, confirmed>>,
         held # 0 /\ stage.stage = "judge" /\ stage.row = held => stage.until = promise,
         held # 0 /\ now < promise => ~(stage.stage = "deactivate" /\ stage.row = held),
         confirmed # {} /\ now < promise =>
           /\ CacheOf[c] \in confirmed => ~Outdated(stage)
           /\ \A k \in confirmed : cache'[k] # "allow"
  PROVE  HeldIsKept' /\ ConfirmedIsAlone'
<1>1. \A d \in Checks : check'[d] = IF d = c THEN stage ELSE check[d]
  BY CheckDoTyped DEF IInv
<1>2. HeldIsKept'
  BY <1>1 DEF IInv, HeldIsKept
<1>3. ConfirmedIsAlone'
  BY <1>1 DEF IInv, ConfirmedIsAlone, Living, Outdated
<1> QED
  BY <1>2, <1>3

\* Entries are changed that are not the block of record, or it is given up.
LEMMA OthersAltered ==
  ASSUME IInv, NEW S, Altered(S), UNCHANGED <<now, check>>,
         held \notin S /\ held \in DOMAIN rows =>
           held \in DOMAIN rows' /\ rows'[held] = rows[held]
  PROVE  HeldIsKept' /\ ConfirmedIsAlone'
<1>1. HeldIsKept'
  BY DEF IInv, HeldIsKept, Altered
<1> QED
  BY <1>1 DEF ConfirmedIsAlone, Altered

\* block_ip writes an entry.
LEMMA NowBlocked ==
  ASSUME IInv, NEW i \in Nat \ {0}, NEW until, Blocked(i, until), UNCHANGED <<now, check>>,
         i \in DOMAIN rows',
         rows'[i] = [live |-> TRUE, active |-> TRUE, until |-> until]
  PROVE  HeldIsKept' /\ ConfirmedIsAlone'
<1>1. HeldIsKept'
  <2>1. CASE Claimed(i)
    BY <2>1 DEF HeldIsKept, Blocked
  <2>2. CASE ~Claimed(i)
    BY <2>2 DEF HeldIsKept, Blocked, Claimed
  <2> QED
    BY <2>1, <2>2
<1> QED
  BY <1>1 DEF ConfirmedIsAlone, Blocked

\* The entry in effect under a confirmed block is the block.
LEMMA ConfirmedDecides ==
  ASSUME IInv, confirmed # {}, now < promise
  PROVE  InEffect = {held} /\ Newest = held /\ ~Expired(rows[held].until)
         /\ TableVerdict = "block"
<1>1. held # 0 /\ Living = {held} /\ rows[held].active /\ rows[held].until = promise
  BY DEF IInv, ConfirmedIsAlone, HeldIsKept
<1>2. InEffect = {held}
  BY <1>1 DEF InEffect
<1>3. Newest = held
  BY <1>2, NewestInEffect DEF IInv
<1>4. ~(now >= promise)
  BY ConstantsAssumption DEF IInv, TypeOK, Until, NoExpiry
<1> QED
  BY <1>1, <1>2, <1>3, <1>4 DEF Expired, TableVerdict

LEMMA QueryStep ==
  ASSUME IInv, NEW c \in Checks, Query(c)
  PROVE  HeldIsKept' /\ ConfirmedIsAlone'
<1>1. UNCHANGED <<now, rows, cache, held, promise, confirmed>>
  BY DEF Query
<1>2. /\ confirmed # {} /\ now < promise => InEffect # {} /\ Newest = held
      /\ confirmed # {} /\ now < promise => \A k \in confirmed : cache[k] # "allow"
  BY ConfirmedDecides DEF IInv, ConfirmedIsAlone
<1>3. CASE InEffect = {}
  <2>1. CheckDo(c, [stage |-> "store", verdict |-> "allow"])
    BY <1>3 DEF Query
  <2> QED
    BY <1>1, <1>2, <1>3, <2>1, CheckStages, CheckGoesOn DEF Verdict
<1>4. CASE InEffect # {}
  <2>1. PICK stage : stage = [stage |-> "judge", row |-> Newest, until |-> rows[Newest].until]
    OBVIOUS
  <2>2. CheckDo(c, stage) /\ stage \in CheckStage
    BY <1>4, <2>1, NewestInEffect, CheckStages DEF Query, IInv
  <2>3. stage.stage = "judge" /\ stage.row = Newest /\ stage.until = rows[Newest].until
    BY <2>1
  <2>4. held # 0 /\ Newest = held => rows[Newest].until = promise
    BY DEF IInv, HeldIsKept
  <2>5. Newest = held => ~Outdated(stage)
    BY <2>1, <2>3 DEF Outdated
  <2> QED
    BY <1>1, <1>2, <2>2, <2>3, <2>4, <2>5, CheckGoesOn
<1> QED
  BY <1>3, <1>4

LEMMA JudgeStep ==
  ASSUME IInv, NEW c \in Checks, Judge(c)
  PROVE  HeldIsKept' /\ ConfirmedIsAlone'
<1>1. UNCHANGED <<now, rows, cache, held, promise, confirmed>> /\ check[c].stage = "judge"
  BY DEF Judge
<1>2. confirmed # {} /\ now < promise =>
        /\ \A k \in confirmed : cache[k] # "allow"
        /\ CacheOf[c] \in confirmed => held # 0 /\ check[c].row = held
  BY <1>1 DEF IInv, ConfirmedIsAlone, Outdated
<1>3. held # 0 /\ now < promise /\ check[c].row = held => ~Expired(check[c].until)
  BY <1>1, ConstantsAssumption DEF IInv, HeldIsKept, Expired, TypeOK, NoExpiry
<1>4. CASE Expired(check[c].until)
  <2>1. PICK stage : stage = [stage |-> "deactivate", row |-> check[c].row]
    OBVIOUS
  <2>2. CheckDo(c, stage) /\ stage \in CheckStage
    BY <1>1, <1>4, <2>1, CheckRecord, CheckStages DEF Judge, IInv
  <2>3. stage.stage = "deactivate" /\ stage.row = check[c].row
    BY <2>1
  <2> QED
    BY <1>1, <1>2, <1>3, <1>4, <2>2, <2>3, CheckGoesOn
<1>5. CASE ~Expired(check[c].until)
  <2>1. PICK stage : stage = [stage |-> "store", verdict |-> "block"]
    OBVIOUS
  <2>2. CheckDo(c, stage) /\ stage \in CheckStage
    BY <1>5, <2>1, CheckStages DEF Judge, Verdict
  <2>3. stage.stage = "store" /\ ~Outdated(stage)
    BY <2>1 DEF Outdated
  <2> QED
    BY <1>1, <1>2, <2>2, <2>3, CheckGoesOn
<1> QED
  BY <1>4, <1>5

LEMMA DeactivateStep ==
  ASSUME IInv, NEW c \in Checks, Deactivate(c)
  PROVE  HeldIsKept' /\ ConfirmedIsAlone'
<1>0. PICK i : i = check[c].row
  OBVIOUS
<1>1. UNCHANGED <<now, cache, held, promise, confirmed>> /\ check[c].stage = "deactivate"
  BY DEF Deactivate
<1>2. /\ DOMAIN rows' = DOMAIN rows
      /\ \A j \in DOMAIN rows :
           rows'[j] = IF j = i THEN [rows[j] EXCEPT !.active = FALSE] ELSE rows[j]
  <2>1. rows' = [rows EXCEPT ![i].active = FALSE]
    BY <1>0 DEF Deactivate
  <2> QED
    BY <2>1, ActiveCleared DEF IInv
<1>3. \A j \in DOMAIN rows : /\ rows'[j].live <=> rows[j].live
                             /\ rows'[j].until = rows[j].until
                             /\ j # i => rows'[j] = rows[j]
  <2>1. ASSUME NEW j \in DOMAIN rows
        PROVE  /\ rows'[j].live <=> rows[j].live
               /\ rows'[j].until = rows[j].until
               /\ j # i => rows'[j] = rows[j]
    <3>1. PICK r \in Entry : r = rows[j]
      BY RowsShape DEF IInv
    <3>2. rows'[j] = IF j = i THEN [r EXCEPT !.active = FALSE] ELSE r
      BY <1>2, <3>1
    <3>3. /\ [r EXCEPT !.active = FALSE].live = r.live
          /\ [r EXCEPT !.active = FALSE].until = r.until
      BY EntryColumns
    <3> QED
      BY <3>1, <3>2, <3>3
  <2> QED
    BY <2>1
<1>4. \A d \in Checks :
        check'[d] = IF d = c THEN [stage |-> "store", verdict |-> "allow"] ELSE check[d]
  BY CheckStages, CheckDoTyped DEF Deactivate, IInv, Verdict
<1>5. held # 0 /\ now < promise => held # i
  BY <1>0, <1>1 DEF IInv, HeldIsKept
<1>6. HeldIsKept'
  <2> SUFFICES ASSUME held # 0 PROVE HeldIsKept'
    BY <1>1 DEF HeldIsKept
  <2>1. held \in DOMAIN rows /\ rows[held].live /\ rows[held].until = promise
    BY DEF IInv, HeldIsKept
  <2>2. held \in DOMAIN rows' /\ rows'[held].live /\ rows'[held].until = promise
    BY <1>2, <1>3, <2>1
  <2>3. ASSUME now < promise PROVE rows'[held].active
    <3>1. held # i /\ rows[held].active
      BY <1>5, <2>3 DEF IInv, HeldIsKept
    <3>2. rows'[held] = rows[held]
      BY <1>3, <2>1, <3>1
    <3> QED
      BY <3>1, <3>2
  <2>4. ASSUME now < promise, NEW d \in Checks, check'[d].stage = "deactivate"
        PROVE  check'[d].row # held
    BY <1>4, <2>4 DEF IInv, HeldIsKept
  <2>5. ASSUME NEW d \in Checks, check'[d].stage = "judge", check'[d].row = held
        PROVE  check'[d].until = promise
    BY <1>4, <2>5 DEF IInv, HeldIsKept
  <2> QED
    BY <1>1, <2>2, <2>3, <2>4, <2>5 DEF HeldIsKept
<1>7. Living' = Living
  BY <1>2, <1>3, Zenon DEF Living
<1>8. ConfirmedIsAlone'
  BY <1>1, <1>4, <1>7 DEF IInv, ConfirmedIsAlone, Outdated
<1> QED
  BY <1>6, <1>8

LEMMA InvStep ==
  ASSUME IInv, [Next]_vars
  PROVE  HeldIsKept' /\ ConfirmedIsAlone'
<1> USE ConstantsAssumption
<1>1. ASSUME NEW c \in Checks, CheckMiss(c) PROVE HeldIsKept' /\ ConfirmedIsAlone'
  <2>1. confirmed # {} /\ now < promise => \A k \in confirmed : cache[k] # "allow"
    BY DEF IInv, ConfirmedIsAlone
  <2>2. ~Outdated([stage |-> "query"])
    BY DEF Outdated
  <2> QED
    BY <1>1, <2>1, <2>2, CheckStages, CheckGoesOn DEF CheckMiss
<1>2. ASSUME NEW c \in Checks, Query(c) PROVE HeldIsKept' /\ ConfirmedIsAlone'
  BY <1>2, QueryStep
<1>2a. ASSUME NEW c \in Checks, Judge(c) PROVE HeldIsKept' /\ ConfirmedIsAlone'
  BY <1>2a, JudgeStep
<1>3. ASSUME NEW c \in Checks, Deactivate(c) PROVE HeldIsKept' /\ ConfirmedIsAlone'
  BY <1>3, DeactivateStep
<1>4. ASSUME NEW c \in Checks, StoreVerdict(c) PROVE HeldIsKept' /\ ConfirmedIsAlone'
  <2>1. confirmed # {} /\ now < promise => \A k \in confirmed : cache'[k] # "allow"
    <3>1. ASSUME confirmed # {}, now < promise, NEW k \in confirmed PROVE cache'[k] # "allow"
      <4>1. cache[k] # "allow" /\ (CacheOf[c] = k => ~Outdated(check[c]))
        BY <3>1 DEF IInv, ConfirmedIsAlone
      <4>2. check[c] = [stage |-> "store", verdict |-> check[c].verdict]
        BY <1>4, CheckRecord DEF StoreVerdict, IInv
      <4>3. CacheOf[c] = k => check[c].verdict # "allow"
        BY <4>1, <4>2 DEF Outdated
      <4>4. k \in Caches /\ cache' = [cache EXCEPT ![CacheOf[c]] = check[c].verdict]
        BY <1>4 DEF StoreVerdict, IInv, TypeOK
      <4> QED
        BY <4>1, <4>3, <4>4 DEF IInv, TypeOK
    <3> QED
      BY <3>1
  <2>2. Idle.stage = "idle" /\ ~Outdated(Idle)
    BY DEF Idle, Outdated
  <2> QED
    BY <1>4, <2>1, <2>2, CheckStages, CheckGoesOn DEF StoreVerdict
<1>5. ASSUME NEW s \in Staff,
             \/ Block(s) \/ EditRead(s) \/ BlockMiss(s) \/ BlockAmbiguous(s)
             \/ UnblockCache(s)
      PROVE  HeldIsKept' /\ ConfirmedIsAlone'
  <2>1. UNCHANGED <<now, rows, check, held, promise, confirmed>>
    BY <1>5 DEF Block, EditRead, BlockMiss, BlockAmbiguous, UnblockCache
  <2>2. \A k \in Caches : cache'[k] \in {cache[k], "none"}
    BY <1>5 DEF Block, EditRead, BlockMiss, BlockAmbiguous, UnblockCache, IInv, TypeOK
  <2> QED
    BY <2>1, <2>2 DEF IInv, TypeOK, HeldIsKept, ConfirmedIsAlone, Living, Outdated
<1>6. ASSUME NEW s \in Staff, Create(s) PROVE HeldIsKept' /\ ConfirmedIsAlone'
  <2>1. PICK until \in Until, active \in BOOLEAN :
          rows' = Append(rows, [live |-> TRUE, active |-> active, until |-> until])
    BY <1>6 DEF Create
  <2>2. [live |-> TRUE, active |-> active, until |-> until] \in Entry
    BY DEF Entry
  <2>3. held \in DOMAIN rows => held \in DOMAIN rows' /\ rows'[held] = rows[held]
    BY <1>6, <2>1, <2>2, RowAppended, RowsShape DEF Create, IInv
  <2> QED
    BY <1>6, <2>3, OthersAltered DEF Create
<1>7. ASSUME NEW s \in Staff, Unblock(s) PROVE HeldIsKept' /\ ConfirmedIsAlone'
  BY <1>7, OthersAltered DEF Unblock
<1>8. ASSUME NEW s \in Staff, BlockUpdate(s) PROVE HeldIsKept' /\ ConfirmedIsAlone'
  <2>1. PICK i \in Living :
          /\ rows' = [rows EXCEPT ![i] = [live |-> TRUE, active |-> TRUE, until |-> staff[s].until]]
          /\ Blocked(i, staff[s].until)
    BY <1>8 DEF BlockUpdate
  <2>2. i \in Nat \ {0} /\ i \in DOMAIN rows
    BY <2>1, RowsShape DEF IInv
  <2> QED
    BY <1>8, <2>1, <2>2, NowBlocked DEF BlockUpdate
<1>9. ASSUME NEW s \in Staff, BlockInsert(s) PROVE HeldIsKept' /\ ConfirmedIsAlone'
  <2>1. [live |-> TRUE, active |-> TRUE, until |-> staff[s].until] \in Entry
    BY <1>9, StaffRecord DEF BlockInsert, IInv, Entry
  <2>2. /\ Len(rows) + 1 \in Nat \ {0} /\ Len(rows) + 1 \in DOMAIN rows'
        /\ rows'[Len(rows) + 1] = [live |-> TRUE, active |-> TRUE, until |-> staff[s].until]
    BY <1>9, <2>1, RowAppended, RowsShape DEF BlockInsert, IInv
  <2> QED
    BY <1>9, <2>2, NowBlocked DEF BlockInsert
<1>10. ASSUME NEW s \in Staff, BlockCache(s) PROVE HeldIsKept' /\ ConfirmedIsAlone'
  <2>1. /\ UNCHANGED <<now, rows, check, held, promise>>
        /\ cache' = [cache EXCEPT ![CacheOf[s]] = "block"]
        /\ \A k \in confirmed' :
             /\ k \in Caches /\ Living = {held}
             /\ k = CacheOf[s] \/ cache[k] # "allow"
             /\ \A c \in Checks : CacheOf[c] = k => ~Outdated(check[c])
    BY <1>10 DEF BlockCache, Return
  <2>2. Living = {held} => held # 0
    BY RowsShape DEF IInv
  <2>3. HeldIsKept'
    BY <2>1 DEF IInv, HeldIsKept
  <2>4. \A k \in confirmed' : cache'[k] # "allow"
    BY <2>1 DEF IInv, TypeOK
  <2>5. \A c \in Checks : CacheOf[c] \in confirmed' => ~Outdated(check[c])'
    BY <2>1 DEF Outdated
  <2> QED
    BY <2>1, <2>2, <2>3, <2>4, <2>5 DEF ConfirmedIsAlone, Living
<1>11. ASSUME NEW s \in Staff, SoftDelete(s) PROVE HeldIsKept' /\ ConfirmedIsAlone'
  BY <1>11, RowDeleted, OthersAltered DEF SoftDelete, IInv
<1>12. ASSUME NEW s \in Staff, EditSave(s) PROVE HeldIsKept' /\ ConfirmedIsAlone'
  <2>1. held # staff[s].row /\ held \in DOMAIN rows =>
          held \in DOMAIN rows' /\ rows'[held] = rows[held]
    BY <1>12, RowsShape DEF EditSave, IInv
  <2> QED
    BY <1>12, <2>1, OthersAltered DEF EditSave
<1>13. CASE AdminDelete
  <2>1. PICK S \in (SUBSET Living) \ {{}} :
          /\ rows' = [i \in DOMAIN rows |->
                        IF i \in S THEN Deleted ELSE rows[i]]
          /\ Altered(S)
          /\ UNCHANGED <<now, check>>
    BY <1>13 DEF AdminDelete
  <2>2. held \notin S /\ held \in DOMAIN rows =>
          held \in DOMAIN rows' /\ rows'[held] = rows[held]
    BY <2>1
  <2> QED
    BY <2>1, <2>2, OthersAltered
<1>14. CASE Tick
  <2>1. now \in Int /\ promise \in Int /\ now' = now + 1
    BY <1>14 DEF Tick, IInv, TypeOK, NoExpiry
  <2> QED
    BY <1>14, <2>1 DEF Tick, IInv, HeldIsKept, ConfirmedIsAlone, Living, Outdated
<1>15. CASE AdminAdd
  <2>1. PICK until \in Until, active \in BOOLEAN :
          rows' = Append(rows, [live |-> TRUE, active |-> active, until |-> until])
    BY <1>15 DEF AdminAdd
  <2>2. [live |-> TRUE, active |-> active, until |-> until] \in Entry
    BY DEF Entry
  <2>3. held \in DOMAIN rows => held \in DOMAIN rows' /\ rows'[held] = rows[held]
    BY <1>15, <2>1, <2>2, RowAppended, RowsShape DEF AdminAdd, IInv
  <2> QED
    BY <1>15, <2>3, OthersAltered DEF AdminAdd
<1>16. ASSUME NEW k \in Caches, CacheExpires(k) PROVE HeldIsKept' /\ ConfirmedIsAlone'
  <2>1. \A j \in Caches : cache'[j] \in {cache[j], "none"}
    BY <1>16 DEF CacheExpires, IInv, TypeOK
  <2> QED
    BY <1>16, <2>1
    DEF CacheExpires, IInv, TypeOK, HeldIsKept, ConfirmedIsAlone, Living, Outdated
<1>17. CASE UNCHANGED vars
  BY <1>17 DEF vars, IInv, HeldIsKept, ConfirmedIsAlone, Living, Outdated
<1> QED
  BY <1>1, <1>2, <1>2a, <1>3, <1>4, <1>5, <1>6, <1>7, <1>8, <1>9, <1>10, <1>11, <1>12,
     <1>13, <1>14, <1>15, <1>16, <1>17 DEF Next, CheckStep, StaffStep

LEMMA IInvHolds == Spec => []IInv
<1>1. Init => IInv
  <2> SUFFICES ASSUME Init PROVE IInv
    OBVIOUS
  <2>1. rows \in Seq(Entry) /\ Len(rows) = 0
    BY DEF Init
  <2>2. check \in [Checks -> CheckStage] /\ staff \in [Staff -> StaffStage]
    BY CheckStages, StaffStages DEF Init
  <2>3. TypeOK
    <3>1. 0 \in 0..MaxTime /\ 0 \in 0..MaxRows /\ 0 \in 0..NoExpiry /\ 0 <= MaxRows
      BY ConstantsAssumption DEF NoExpiry
    <3> QED
      BY <2>1, <2>2, <3>1 DEF Init, TypeOK
  <2> QED
    BY <2>3 DEF Init, IInv, HeldIsKept, ConfirmedIsAlone
<1>2. IInv /\ [Next]_vars => IInv'
  BY TypeStep, InvStep DEF IInv
<1> QED
  BY <1>1, <1>2, PTL DEF Spec

-----------------------------------------------------------------------------
\* Every variable keeps its type (services.py:36-98), whatever overlaps.
THEOREM TypeCorrect == Spec => []TypeOK
<1>1. IInv => TypeOK
  BY DEF IInv
<1> QED
  BY <1>1, IInvHolds, PTL

\* What block_ip wrote (services.py:78-85) stays until it expires or until
\* somebody alters it afterwards: no check that reads it undoes it, only one
\* that holds a copy from before (services.py:48-57).
THEOREM BlocksSurvive == Spec => []BlockSurvives
<1>1. ASSUME IInv PROVE BlockSurvives
  <2>1. \A i \in DOMAIN rows :
          rows[i] = [live |-> rows[i].live, active |-> rows[i].active, until |-> rows[i].until]
    BY <1>1, RowsShape, EntryColumns DEF IInv
  <2>2. \A i \in DOMAIN rows : rows[i].live \in BOOLEAN /\ rows[i].active \in BOOLEAN
    BY <1>1, RowsShape, EntryColumns DEF IInv
  <2> SUFFICES ASSUME held # 0, now < promise
               PROVE  held \in DOMAIN rows
                      /\ rows[held] = [live |-> TRUE, active |-> TRUE, until |-> promise]
    BY DEF BlockSurvives
  <2>3. /\ held \in DOMAIN rows /\ rows[held].until = promise
        /\ rows[held].live = TRUE /\ rows[held].active = TRUE
    BY <1>1, <2>2 DEF IInv, HeldIsKept
  <2> QED
    BY <2>1, <2>3
<1> QED
  BY <1>1, IInvHolds, PTL

\* Once block_ip has returned (services.py:86-88), whether processes share a
\* cache or not, the address does not pass while the block lasts where no older
\* verdict was cached or under way.
THEOREM ConfirmedBlocksAreEnforced == Spec => []ConfirmedBlockIsEnforced
<1>1. IInv => ConfirmedBlockIsEnforced
  BY ConfirmedDecides DEF IInv, ConfirmedIsAlone, ConfirmedBlockIsEnforced, Outdated
<1> QED
  BY <1>1, IInvHolds, PTL
-----------------------------------------------------------------------------
(* Once caches and table agree, they part by nothing but the table *)

\* The caches, the checks under way and the staff give the verdict v, or none.
AgreeOn(v) ==
  /\ \A k \in Caches : cache[k] \in {v, "none"}
  /\ \A c \in Checks :
       /\ check[c].stage = "store" => check[c].verdict = v
       /\ check[c].stage = "judge" => (Expired(check[c].until) <=> v = "allow")
       /\ check[c].stage = "deactivate" => v = "allow"
  /\ v = "allow" => \A s \in Staff : staff[s].stage # "cacheBlock"

\* A block is about to be written that has expired since it was asked for:
\* block_ip caches it all the same.
BlockedTooLate ==
  \E s \in Staff : staff[s].stage \in {"lookup", "insert"} /\ Expired(staff[s].until)

\* The expiry a check has read passes before it is judged; the entry may have
\* been renewed since.
CopyRunsOut ==
  \E c \in Checks : /\ check[c].stage = "judge"
                    /\ now < check[c].until /\ check[c].until <= now'

LEMMA MaxIs ==
  ASSUME NEW S \in SUBSET Nat, NEW x \in S, \A y \in S : x >= y
  PROVE  Max(S) = x
<1>1. Max(S) \in S /\ \A y \in S : Max(S) >= y
  BY DEF Max
<1>2. Max(S) >= x /\ x >= Max(S) /\ Max(S) \in Nat /\ x \in Nat
  BY <1>1
<1> QED
  BY <1>2

\* A block written in time is what the table answers: it is the only living
\* entry, or the newest.
LEMMA WrittenDecides ==
  ASSUME TypeOK, NEW s \in Staff, BlockUpdate(s) \/ BlockInsert(s),
         ~Expired(staff[s].until)
  PROVE  TableVerdict' = "block"
<1> DEFINE new == [live |-> TRUE, active |-> TRUE, until |-> staff[s].until]
<1>1. new \in Entry /\ new.live /\ new.active /\ new.until = staff[s].until
  BY StaffRecord DEF BlockUpdate, BlockInsert, Entry
<1>2. \E i \in InEffect' : /\ rows'[i] = new
                           /\ InEffect' \subseteq Nat /\ \A j \in InEffect' : i >= j
  <2>1. CASE BlockUpdate(s)
    <3>1. PICK i \in Living : Living = {i} /\ rows' = [rows EXCEPT ![i] = new]
      BY <2>1 DEF BlockUpdate
    <3> HIDE DEF new
    <3>2. /\ DOMAIN rows' = DOMAIN rows
          /\ \A j \in DOMAIN rows : rows'[j] = IF j = i THEN new ELSE rows[j]
      BY <1>1, <3>1, RowReplaced
    <3>3. i \in DOMAIN rows /\ i \in Nat
      BY RowsShape
    <3>4. InEffect' = {i}
      BY <1>1, <3>1, <3>2, <3>3 DEF InEffect, Living
    <3> QED
      BY <3>2, <3>3, <3>4
  <2>2. CASE BlockInsert(s)
    <3>1. rows' = Append(rows, new) /\ Len(rows) < MaxRows
      BY <2>2 DEF BlockInsert
    <3> HIDE DEF new
    <3>2. DOMAIN rows' = 1..(Len(rows) + 1) /\ rows'[Len(rows) + 1] = new /\ Len(rows) \in Nat
      BY <1>1, <3>1, RowAppended, RowsShape
    <3>3. InEffect' \subseteq 1..(Len(rows) + 1) /\ Len(rows) + 1 \in InEffect'
      BY <1>1, <3>2 DEF InEffect, Living
    <3> QED
      BY <3>2, <3>3
  <2> QED
    BY <2>1, <2>2
<1>3. PICK i \in InEffect' : /\ rows'[i] = new /\ InEffect' \subseteq Nat
                             /\ \A j \in InEffect' : i >= j
  BY <1>2
<1>4. Newest' = i
  BY <1>3, MaxIs DEF Newest
<1>5. now' = now
  BY DEF BlockUpdate, BlockInsert
<1> QED
  BY <1>1, <1>3, <1>4, <1>5 DEF TableVerdict, Expired

LEMMA AgreementStep ==
  ASSUME TypeOK, [Next]_vars, ~BlockedTooLate, ~CopyRunsOut, NEW v \in Verdict, AgreeOn(v),
         TableVerdict = v, TableVerdict' = v
  PROVE  AgreeOn(v)'
<1>1. ASSUME NEW c \in Checks, CheckMiss(c) PROVE AgreeOn(v)'
  BY <1>1, CheckStages, CheckDoTyped DEF CheckMiss, AgreeOn, Expired
<1>2. ASSUME NEW c \in Checks, Query(c) PROVE AgreeOn(v)'
  <2>1. CASE InEffect = {}
    <3>1. CheckDo(c, [stage |-> "store", verdict |-> v])
      BY <1>2, <2>1 DEF Query, TableVerdict
    <3> QED
      BY <1>2, <3>1, CheckStages, CheckDoTyped DEF Query, AgreeOn, Expired
  <2>2. CASE InEffect # {}
    <3>1. PICK stage : stage = [stage |-> "judge", row |-> Newest, until |-> rows[Newest].until]
      OBVIOUS
    <3>2. CheckDo(c, stage) /\ stage \in CheckStage
      BY <1>2, <2>2, <3>1, NewestInEffect, CheckStages DEF Query
    <3>3. stage.stage = "judge" /\ stage.until = rows[Newest].until
      BY <3>1
    <3>4. Expired(stage.until) <=> v = "allow"
      BY <2>2, <3>3 DEF TableVerdict
    <3> QED
      BY <1>2, <3>2, <3>3, <3>4, CheckDoTyped DEF Query, AgreeOn, Expired
  <2> QED
    BY <2>1, <2>2
<1>2a. ASSUME NEW c \in Checks, Judge(c) PROVE AgreeOn(v)'
  <2>1. Expired(check[c].until) <=> v = "allow"
    BY <1>2a DEF Judge, AgreeOn
  <2>2. PICK stage : stage = IF v = "allow" THEN [stage |-> "deactivate", row |-> check[c].row]
                                            ELSE [stage |-> "store", verdict |-> "block"]
    OBVIOUS
  <2>3. CheckDo(c, stage) /\ stage \in CheckStage
    BY <1>2a, <2>1, <2>2, CheckRecord, CheckStages DEF Judge, Verdict
  <2>4. \/ stage.stage = "deactivate" /\ v = "allow"
        \/ stage.stage = "store" /\ stage.verdict = v
    BY <2>2 DEF Verdict
  <2> QED
    BY <1>2a, <2>3, <2>4, CheckDoTyped DEF Judge, AgreeOn, Expired
<1>3. ASSUME NEW c \in Checks, Deactivate(c) PROVE AgreeOn(v)'
  BY <1>3, CheckStages, CheckDoTyped DEF Deactivate, AgreeOn, Verdict, Expired
<1>4. ASSUME NEW c \in Checks, StoreVerdict(c) PROVE AgreeOn(v)'
  <2>1. Idle.stage = "idle"
    BY DEF Idle
  <2>2. \A k \in Caches : cache'[k] \in {v, "none"}
    BY <1>4 DEF StoreVerdict, AgreeOn, TypeOK
  <2> QED
    BY <1>4, <2>1, <2>2, CheckStages, CheckDoTyped DEF StoreVerdict, AgreeOn, Expired
<1>5. ASSUME NEW s \in Staff, BlockUpdate(s) \/ BlockInsert(s) PROVE AgreeOn(v)'
  <2>1. v = "block"
    BY <1>5, WrittenDecides DEF BlockedTooLate, BlockUpdate, BlockInsert
  <2> QED
    BY <1>5, <2>1 DEF BlockUpdate, BlockInsert, AgreeOn, Expired
<1>6. ASSUME NEW s \in Staff, BlockCache(s) PROVE AgreeOn(v)'
  <2>1. v = "block"
    BY <1>6 DEF BlockCache, AgreeOn, Verdict
  <2>2. \A k \in Caches : cache'[k] \in {v, "none"}
    BY <1>6, <2>1 DEF BlockCache, AgreeOn, TypeOK
  <2> QED
    BY <1>6, <2>1, <2>2 DEF BlockCache, AgreeOn, Expired
<1>7. ASSUME NEW s \in Staff,
             \/ Block(s) \/ Create(s) \/ Unblock(s) \/ EditRead(s) \/ BlockMiss(s)
             \/ BlockAmbiguous(s) \/ UnblockCache(s) \/ SoftDelete(s) \/ EditSave(s)
      PROVE  AgreeOn(v)'
  <2>1. check' = check /\ now' = now /\ \A k \in Caches : cache'[k] \in {cache[k], "none"}
    BY <1>7 DEF TypeOK, Block, Create, Unblock, EditRead, BlockMiss, BlockAmbiguous, UnblockCache,
                SoftDelete, EditSave
  <2>2. \A u \in Staff : staff'[u].stage = "cacheBlock" => staff[u].stage = "cacheBlock"
    <3>1. ASSUME NEW next, StaffDo(s, next), next.stage # "cacheBlock"
          PROVE  \A u \in Staff : staff'[u].stage = "cacheBlock" => staff[u].stage = "cacheBlock"
      BY <3>1 DEF StaffDo, TypeOK
    <3>2. CASE Block(s)
      <4>1. PICK until \in (now + 1)..NoExpiry : StaffDo(s, [stage |-> "lookup", until |-> until])
        BY <3>2 DEF Block
      <4> QED
        BY <3>1, <4>1
    <3>3. CASE Create(s) \/ BlockAmbiguous(s) \/ SoftDelete(s) \/ EditSave(s)
      <4>1. \/ StaffDo(s, [stage |-> "lookup", until |-> NoExpiry])
            \/ StaffDo(s, Idle)
        BY <3>3 DEF Create, BlockAmbiguous, SoftDelete, EditSave
      <4> QED
        BY <3>1, <4>1 DEF Idle
    <3>4. CASE Unblock(s) \/ EditRead(s)
      <4>1. PICK i : \/ StaffDo(s, [stage |-> "cacheDelete", row |-> i])
                     \/ StaffDo(s, [stage |-> "edit", row |-> i])
        BY <3>4 DEF Unblock, EditRead
      <4> QED
        BY <3>1, <4>1
    <3>5. CASE BlockMiss(s)
      <4>1. staff[s] = [stage |-> "lookup", until |-> staff[s].until]
        BY <3>5, StaffRecord DEF BlockMiss
      <4>2. StaffDo(s, [stage |-> "insert", until |-> staff[s].until])
        BY <3>5, <4>1 DEF BlockMiss
      <4> QED
        BY <3>1, <4>2
    <3>6. CASE UnblockCache(s)
      <4>1. staff[s] = [stage |-> "cacheDelete", row |-> staff[s].row]
        BY <3>6, StaffRecord DEF UnblockCache
      <4>2. StaffDo(s, Idle) \/ StaffDo(s, [stage |-> "softDelete", row |-> staff[s].row])
        BY <3>6, <4>1 DEF UnblockCache
      <4> QED
        BY <3>1, <4>2 DEF Idle
    <3> QED
      BY <1>7, <3>2, <3>3, <3>4, <3>5, <3>6
  <2> QED
    BY <2>1, <2>2 DEF AgreeOn, Expired
<1>8. CASE \/ AdminAdd \/ AdminDelete \/ UNCHANGED vars
           \/ \E k \in Caches : CacheExpires(k)
  <2>1. /\ check' = check /\ staff' = staff /\ now' = now
        /\ \A k \in Caches : cache'[k] \in {cache[k], "none"}
    BY <1>8 DEF AdminAdd, AdminDelete, CacheExpires, vars, TypeOK
  <2> QED
    BY <2>1 DEF AgreeOn, Expired
<1>9. CASE Tick
  <2>1. cache' = cache /\ check' = check /\ staff' = staff /\ now' = now + 1
    BY <1>9 DEF Tick
  <2>2. ASSUME NEW c \in Checks, check[c].stage = "judge"
        PROVE  Expired(check[c].until) <=> now' >= check[c].until
    <3>1. check[c].until \in Int /\ now \in Int
      BY <2>2, CheckRecord, ConstantsAssumption DEF TypeOK, Until, NoExpiry
    <3> QED
      BY <2>1, <2>2, <3>1 DEF CopyRunsOut, Expired
  <2> QED
    BY <2>1, <2>2 DEF AgreeOn, Expired
<1> QED
  BY <1>1, <1>2, <1>2a, <1>3, <1>4, <1>5, <1>6, <1>7, <1>8, <1>9
  DEF Next, CheckStep, StaffStep

\* Whatever races, once the caches and everybody about to write to one agree
\* with the table, no step parts them while the table keeps its verdict: no
\* check, block, unblock, edit or deletion under way brings an old verdict
\* back, but for a block written after its own expiry and a check whose copy of
\* the entry expires while it holds it.  (The safety half of CacheFollowsTable.)
THEOREM AgreementLasts ==
  Spec => [][\A v \in Verdict :
               ~BlockedTooLate /\ ~CopyRunsOut /\ TableVerdict = v /\ TableVerdict' = v
                 => (AgreeOn(v) => AgreeOn(v)')]_vars
<1>1. IInv /\ [Next]_vars =>
        [\A v \in Verdict :
           ~BlockedTooLate /\ ~CopyRunsOut /\ TableVerdict = v /\ TableVerdict' = v
             => (AgreeOn(v) => AgreeOn(v)')]_vars
  BY AgreementStep DEF IInv
<1> QED
  BY <1>1, IInvHolds, PTL DEF Spec
=============================================================================
