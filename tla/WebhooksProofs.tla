---------------------------- MODULE WebhooksProofs ----------------------------
(***************************************************************************)
(* Proofs about Webhooks for any deliveries and threads: what the delivery *)
(* log says is true whatever races, and what it counts, and the secret it  *)
(* signs with, are right as long as requests do not overlap.               *)
(***************************************************************************)
EXTENDS Webhooks, TLAPS

\* What an outcome about to be stored says of its delivery.
Truthful(d, row) ==
  /\ row.status = "SUCCESS" \/ row.status = "FAILED"
  /\ row.status = "SUCCESS" => d \in accepted
  /\ row.retry => row.status = "FAILED" /\ row.attempt < MaxRetries

CopiesTruthful ==
  \A t \in Threads :
    /\ proc[t].stage \in {"create", "edit"} => proc[t].of = NoDelivery
    /\ proc[t].stage \in {"retry", "post"} => proc[t].row.status = "PENDING"
    /\ proc[t].stage = "save" => Truthful(proc[t].of, proc[t].row)

\* What holds whatever races.
RaceInv == /\ TypeOK
           /\ CopiesTruthful
           /\ SuccessWasAccepted
           /\ PendingHasSender
           /\ ScheduleIsSound

\* How the attempt of a delivery relates to the calls made for it, n of which
\* are still to come.
Counts(d, n) ==
  /\ tries[d] + n <= delivery[d].attempt
  /\ d \notin orphaned => tries[d] + n = delivery[d].attempt

\* At most one request is in progress ...
Alone == \A t, u \in Threads : proc[t] # Idle /\ proc[u] # Idle => t = u

\* ... its copies are those of the rows ...
CopiesFresh ==
  \A t \in Threads :
    /\ proc[t].stage \in {"create", "retry", "post", "edit"} =>
         proc[t].copy.secret = rotations
    /\ proc[t].stage = "retry" =>
         proc[t].row.attempt = delivery[proc[t].of].attempt + 1
    /\ proc[t].stage \in {"post", "save"} =>
         proc[t].row.attempt = delivery[proc[t].of].attempt

\* ... and the attempt is ahead of the calls only while one is being made.
TriesCounted ==
  /\ \A d \in Deliveries :
       (\A t \in Threads : proc[t].stage = "post" => proc[t].of # d) => Counts(d, 0)
  /\ \A t \in Threads : proc[t].stage = "post" => Counts(proc[t].of, 1)

\* What holds as long as requests do not overlap.
SerialInv ==
  ~overlapped => /\ endpoint.secret = rotations
                 /\ Alone
                 /\ CopiesFresh
                 /\ TriesCounted

-----------------------------------------------------------------------------
\* The two columns a retry writes, into a row or into one that is missing,
\* make it a PENDING row.
LEMMA RetryColumns ==
  ASSUME NEW r \in Row \cup {Absent}, NEW n \in Nat
  PROVE  /\ [r EXCEPT !.attempt = n, !.status = "PENDING"] \in Row
         /\ [r EXCEPT !.attempt = n, !.status = "PENDING"].status = "PENDING"
         /\ [r EXCEPT !.attempt = n, !.status = "PENDING"].attempt = n
<1>1. CASE r \in Row
  BY <1>1 DEF Row, Status
<1>2. CASE r = Absent
  BY <1>2 DEF Row, Status, Absent
<1> QED
  BY <1>1, <1>2

LEMMA RaceInit == Init => RaceInv
<1> SUFFICES ASSUME Init PROVE RaceInv
  OBVIOUS
<1> USE DEF Init
<1>1. TypeOK
  <2>1. endpoint \in Endpoint
    BY ConstantsAssumption DEF Endpoint, Secret
  <2>2. rotations \in Secret
    BY ConstantsAssumption DEF Secret
  <2> QED
    BY <2>1, <2>2 DEF TypeOK, Idle
<1>2. CopiesTruthful
  BY DEF CopiesTruthful, Idle
<1>3. SuccessWasAccepted /\ PendingHasSender /\ ScheduleIsSound
  BY DEF SuccessWasAccepted, PendingHasSender, ScheduleIsSound, Absent
<1> QED
  BY <1>1, <1>2, <1>3 DEF RaceInv

\* A step that only starts a request about no delivery, or one that carries a
\* PENDING copy of an existing row, or that ends an edit.
LEMMA RaceStart ==
  ASSUME RaceInv, NEW t \in Threads, NEW next \in Request, Start(t, next),
         next.stage \in {"create", "retry", "edit"},
         next.stage # "retry" => next.of = NoDelivery,
         next.stage = "retry" => next.of \in Deliveries /\ next.row \in Row
                                   /\ next.row.status = "PENDING",
         UNCHANGED <<rows, history>>
  PROVE  RaceInv'
<1> USE DEF RaceInv
<1>1. /\ proc' = [proc EXCEPT ![t] = next] /\ proc[t] = Idle
      /\ requests' = requests + 1 /\ overlapped' \in BOOLEAN /\ UNCHANGED crashes
  BY DEF Start, Count, TypeOK
<1>2. proc'[t] = next /\ \A u \in Threads : u # t => proc'[u] = proc[u]
  BY <1>1 DEF TypeOK
<1>3. TypeOK'
  BY <1>1, <1>2 DEF TypeOK, rows, history
<1>4. CopiesTruthful'
  BY <1>2 DEF CopiesTruthful, Truthful, history
<1>5. SuccessWasAccepted' /\ ScheduleIsSound'
  BY DEF SuccessWasAccepted, ScheduleIsSound, rows, history
<1>6. PendingHasSender'
  <2> SUFFICES ASSUME NEW d \in Deliveries, delivery'[d].status = "PENDING"
               PROVE  d \in orphaned' \/ \E u \in Threads : proc'[u].of = d
    BY DEF PendingHasSender
  <2>1. d \in orphaned \/ \E u \in Threads : proc[u].of = d
    BY DEF PendingHasSender, rows
  <2>2. proc[t].of # d
    BY <1>1, ConstantsAssumption DEF Idle
  <2> QED
    BY <2>1, <2>2, <1>2 DEF history
<1> QED
  BY <1>3, <1>4, <1>5, <1>6

LEMMA RaceStep == RaceInv /\ [Next]_vars => RaceInv'
<1> SUFFICES ASSUME RaceInv, [Next]_vars PROVE RaceInv'
  OBVIOUS
<1> USE ConstantsAssumption DEF RaceInv
<1>1. CASE UNCHANGED vars
  BY <1>1 DEF vars, TypeOK, CopiesTruthful, Truthful, SuccessWasAccepted,
              PendingHasSender, ScheduleIsSound
<1>2. ASSUME NEW t \in Threads, DispatchEvent(t) \/ PingEndpoint(t) PROVE RaceInv'
  <2> DEFINE next == [Idle EXCEPT !.stage = "create", !.copy = endpoint]
  <2>1. next \in Request /\ next.stage = "create" /\ next.of = NoDelivery
    BY DEF Request, Idle, TypeOK
  <2>2. Start(t, next) /\ UNCHANGED <<rows, history>>
    BY <1>2 DEF DispatchEvent, PingEndpoint
  <2> HIDE DEF next
  <2> QED
    BY <2>1, <2>2, RaceStart
<1>3. ASSUME NEW t \in Threads, EditEndpoint(t) PROVE RaceInv'
  <2> DEFINE next == [Idle EXCEPT !.stage = "edit", !.copy = endpoint]
  <2>1. next \in Request /\ next.stage = "edit" /\ next.of = NoDelivery
    BY DEF Request, Idle, TypeOK
  <2>2. Start(t, next) /\ UNCHANGED <<rows, history>>
    BY <1>3 DEF EditEndpoint
  <2> HIDE DEF next
  <2> QED
    BY <2>1, <2>2, RaceStart
<1>4. ASSUME NEW t \in Threads, NEW d \in Deliveries, RetryDelivery(t, d) PROVE RaceInv'
  <2> DEFINE row == [delivery[d] EXCEPT !.attempt = @ + 1, !.status = "PENDING"]
             next == [stage |-> "retry", copy |-> endpoint, of |-> d, row |-> row]
  <2>1. delivery[d] \in Row
    BY <1>4 DEF RetryDelivery, Exists, TypeOK
  <2>2. row \in Row /\ row.status = "PENDING"
    <3>1. PICK r \in Row : r = delivery[d]
      BY <2>1
    <3>2. r.attempt + 1 \in Nat
      BY DEF Row
    <3>3. /\ [r EXCEPT !.attempt = r.attempt + 1, !.status = "PENDING"] \in Row
          /\ [r EXCEPT !.attempt = r.attempt + 1, !.status = "PENDING"].status = "PENDING"
      BY <3>2, RetryColumns
    <3> QED
      BY <3>1, <3>3
  <2>3. next \in Request /\ next.stage = "retry" /\ next.of \in Deliveries
        /\ next.row \in Row /\ next.row.status = "PENDING"
    BY <2>2 DEF Request, TypeOK
  <2>4. Start(t, next) /\ UNCHANGED <<rows, history>>
    BY <1>4 DEF RetryDelivery
  <2> HIDE DEF next, row
  <2> QED
    BY <2>3, <2>4, RaceStart
<1>5. ASSUME NEW t \in Threads, NEW d \in Deliveries, CreateDelivery(t, d) PROVE RaceInv'
  <2> DEFINE new == [status |-> "PENDING", attempt |-> 1, retry |-> FALSE]
             next == [stage |-> "post", copy |-> proc[t].copy, of |-> d, row |-> new]
  <2>1. new \in Row /\ new.status = "PENDING"
    BY DEF Row, Status
  <2>2. proc[t] \in Request /\ proc[t].of = NoDelivery
    BY <1>5 DEF CreateDelivery, TypeOK, Idle, CopiesTruthful
  <2>3. next \in Request /\ next.stage = "post" /\ next.of = d /\ next.row = new
    BY <2>1, <2>2 DEF Request
  <2>4. /\ delivery' = [delivery EXCEPT ![d] = new]
        /\ proc' = [proc EXCEPT ![t] = next]
        /\ UNCHANGED <<endpoint, history, budget>>
    BY <1>5 DEF CreateDelivery
  <2> HIDE DEF next, new
  <2>5. proc'[t] = next /\ \A u \in Threads : u # t => proc'[u] = proc[u]
    BY <2>4 DEF TypeOK
  <2>6. delivery'[d] = new /\ \A e \in Deliveries : e # d => delivery'[e] = delivery[e]
    BY <2>4 DEF TypeOK
  <2>7. TypeOK'
    BY <2>1, <2>3, <2>4, <2>5, <2>6 DEF TypeOK, history, budget
  <2>8. CopiesTruthful'
    BY <2>1, <2>3, <2>4, <2>5 DEF CopiesTruthful, Truthful, history
  <2>9. SuccessWasAccepted' /\ ScheduleIsSound'
    BY <2>1, <2>4, <2>6 DEF SuccessWasAccepted, ScheduleIsSound, history
  <2>10. PendingHasSender'
    BY <2>2, <2>3, <2>4, <2>5, <2>6 DEF PendingHasSender, history
  <2> QED
    BY <2>7, <2>8, <2>9, <2>10
<1>6. ASSUME NEW t \in Threads, RetrySave(t) PROVE RaceInv'
  <2> DEFINE d == proc[t].of
  <2>1. proc[t] \in Request /\ d \in Deliveries /\ proc[t].row \in Row
        /\ proc[t].row.status = "PENDING"
    BY <1>6 DEF RetrySave, TypeOK, Idle, CopiesTruthful
  <2>2. PICK loaded \in {proc[t].copy, endpoint} :
          proc' = [proc EXCEPT ![t].stage = "post", ![t].copy = loaded]
    BY <1>6 DEF RetrySave
  <2>3. /\ proc'[t] \in Request /\ proc'[t].stage = "post"
        /\ proc'[t].of = d /\ proc'[t].row = proc[t].row
        /\ \A u \in Threads : u # t => proc'[u] = proc[u]
        /\ proc' \in [Threads -> Request \cup {Idle}]
    BY <2>1, <2>2 DEF TypeOK, Request
  <2>4. /\ delivery' = [delivery EXCEPT ![d].attempt = proc[t].row.attempt,
                                        ![d].status = "PENDING"]
        /\ UNCHANGED <<endpoint, history, budget>>
    BY <1>6 DEF RetrySave
  <2>5. delivery[d] \in Row \cup {Absent}
    BY <2>1 DEF TypeOK
  <2>6. delivery'[d] \in Row /\ delivery'[d].status = "PENDING"
        /\ \A e \in Deliveries : e # d => delivery'[e] = delivery[e]
    <3>1. proc[t].row.attempt \in Nat
      BY <2>1 DEF Row
    <3>2. delivery'[d] = [delivery[d] EXCEPT !.attempt = proc[t].row.attempt,
                                             !.status = "PENDING"]
      BY <2>1, <2>4 DEF TypeOK
    <3>3. delivery'[d] \in Row /\ delivery'[d].status = "PENDING"
      <4>1. PICK r \in Row \cup {Absent} : r = delivery[d]
        BY <2>5
      <4>2. PICK n \in Nat : n = proc[t].row.attempt
        BY <3>1
      <4>3. /\ [r EXCEPT !.attempt = n, !.status = "PENDING"] \in Row
            /\ [r EXCEPT !.attempt = n, !.status = "PENDING"].status = "PENDING"
        BY RetryColumns
      <4> QED
        BY <4>1, <4>2, <4>3, <3>2
    <3>4. \A e \in Deliveries : e # d => delivery'[e] = delivery[e]
      BY <2>4 DEF TypeOK
    <3> QED
      BY <3>3, <3>4
  <2>61. delivery' \in [Deliveries -> Row \cup {Absent}]
    BY <2>1, <2>4, <2>6 DEF TypeOK
  <2> HIDE DEF d
  <2>7. TypeOK'
    BY <2>1, <2>3, <2>4, <2>61 DEF TypeOK, history, budget
  <2>8. CopiesTruthful'
    BY <2>1, <2>3, <2>4 DEF CopiesTruthful, Truthful, history
  <2>9. SuccessWasAccepted' /\ ScheduleIsSound'
    BY <2>1, <2>4, <2>6 DEF SuccessWasAccepted, ScheduleIsSound, history
  <2>10. PendingHasSender'
    BY <2>3, <2>4, <2>6 DEF PendingHasSender, history, d
  <2> QED
    BY <2>7, <2>8, <2>9, <2>10
<1>7. ASSUME NEW t \in Threads, Post(t) PROVE RaceInv'
  <2> DEFINE d == proc[t].of
  <2>1. proc[t] \in Request /\ d \in Deliveries /\ proc[t].row \in Row
    BY <1>7 DEF Post, TypeOK, Idle
  <2>2. PICK answer \in Answers, took \in BOOLEAN :
          /\ answer = "OK" => took
          /\ proc' = [proc EXCEPT ![t].stage = "save",
                                  ![t].row = RowAfter(proc[t].row, answer)]
          /\ accepted' = IF took THEN accepted \cup {d} ELSE accepted
    BY <1>7 DEF Post
  <2> DEFINE row == RowAfter(proc[t].row, answer)
  <2>3. row \in Row
    BY <2>1 DEF RowAfter, Row, Status
  <2>4. /\ row.status = "SUCCESS" \/ row.status = "FAILED"
        /\ row.status = "SUCCESS" => d \in accepted'
        /\ row.retry => row.status = "FAILED" /\ row.attempt < MaxRetries
    <3>1. CASE answer = "OK"
      BY <3>1, <2>1, <2>2 DEF RowAfter, Row
    <3>2. CASE answer # "OK"
      BY <3>2, <2>1 DEF RowAfter, Row
    <3> QED
      BY <3>1, <3>2
  <2> HIDE DEF row
  <2>5. /\ proc' \in [Threads -> Request \cup {Idle}]
        /\ proc'[t].stage = "save" /\ proc'[t].of = d /\ proc'[t].row = row
        /\ \A u \in Threads : u # t => proc'[u] = proc[u]
    BY <2>1, <2>2, <2>3 DEF TypeOK, Request, row
  <2>6. UNCHANGED <<rows, rotations, orphaned, budget>>
        /\ tries' \in [Deliveries -> Nat] /\ accepted \subseteq accepted'
        /\ accepted' \in SUBSET Deliveries
    BY <1>7, <2>1, <2>2 DEF Post, TypeOK
  <2> HIDE DEF d
  <2>7. TypeOK'
    BY <2>1, <2>3, <2>5, <2>6 DEF TypeOK, rows, budget
  <2>8. CopiesTruthful'
    <3> SUFFICES ASSUME NEW u \in Threads
                 PROVE  /\ proc'[u].stage \in {"create", "edit"} => proc'[u].of = NoDelivery
                        /\ proc'[u].stage \in {"retry", "post"} => proc'[u].row.status = "PENDING"
                        /\ proc'[u].stage = "save" => Truthful(proc[u].of, proc[u].row)'
      BY DEF CopiesTruthful
    <3>1. CASE u = t
      <4>1. Truthful(proc[t].of, proc[t].row)'
        BY <2>4, <2>5 DEF Truthful
      <4> QED
        BY <4>1, <3>1, <2>5
    <3>2. CASE u # t
      BY <3>2, <2>5, <2>6 DEF CopiesTruthful, Truthful
    <3> QED
      BY <3>1, <3>2
  <2>9. SuccessWasAccepted' /\ ScheduleIsSound'
    BY <2>6 DEF SuccessWasAccepted, ScheduleIsSound, rows
  <2>10. PendingHasSender'
    BY <2>5, <2>6 DEF PendingHasSender, rows, d
  <2> QED
    BY <2>7, <2>8, <2>9, <2>10
<1>8. ASSUME NEW t \in Threads, SaveOutcome(t) PROVE RaceInv'
  <2> DEFINE d == proc[t].of
  <2>1. d \in Deliveries /\ proc[t].row \in Row /\ Truthful(d, proc[t].row)
    BY <1>8 DEF SaveOutcome, TypeOK, CopiesTruthful
  <2>2. /\ delivery' = [delivery EXCEPT ![d] = proc[t].row]
        /\ proc' = [proc EXCEPT ![t] = Idle]
        /\ UNCHANGED <<endpoint, history, budget>>
    BY <1>8 DEF SaveOutcome
  <2>3. proc'[t] = Idle /\ \A u \in Threads : u # t => proc'[u] = proc[u]
    BY <2>2 DEF TypeOK
  <2>4. delivery'[d] = proc[t].row
        /\ \A e \in Deliveries : e # d => delivery'[e] = delivery[e]
    BY <2>1, <2>2 DEF TypeOK
  <2>5. TypeOK'
    BY <2>1, <2>2, <2>3 DEF TypeOK, history, budget, Idle
  <2>6. CopiesTruthful'
    BY <2>2, <2>3 DEF CopiesTruthful, Truthful, history, Idle
  <2>7. SuccessWasAccepted' /\ ScheduleIsSound'
    BY <2>1, <2>2, <2>4 DEF SuccessWasAccepted, ScheduleIsSound, Truthful, history
  <2>8. PendingHasSender'
    BY <2>1, <2>2, <2>3, <2>4 DEF PendingHasSender, Truthful, history
  <2> QED
    BY <2>5, <2>6, <2>7, <2>8
<1>9. ASSUME NEW t \in Threads, Crash(t) PROVE RaceInv'
  <2>1. /\ proc' = [proc EXCEPT ![t] = Idle]
        /\ crashes' = crashes + 1
        /\ UNCHANGED <<rows, accepted, tries, rotations, overlapped, requests>>
    BY <1>9 DEF Crash
  <2>2. proc'[t] = Idle /\ \A u \in Threads : u # t => proc'[u] = proc[u]
    BY <2>1 DEF TypeOK
  <2>3. proc[t].of \in Deliveries \cup {NoDelivery}
    BY DEF TypeOK, Request, Idle
  <2>4. /\ orphaned' \in SUBSET Deliveries /\ orphaned \subseteq orphaned'
        /\ proc[t].of \in Deliveries => proc[t].of \in orphaned'
    BY <1>9, <2>3 DEF Crash, TypeOK
  <2>5. TypeOK'
    BY <2>1, <2>2, <2>4 DEF TypeOK, rows, Idle
  <2>6. CopiesTruthful'
    BY <2>1, <2>2 DEF CopiesTruthful, Truthful, Idle
  <2>7. SuccessWasAccepted' /\ ScheduleIsSound'
    BY <2>1 DEF SuccessWasAccepted, ScheduleIsSound, rows
  <2>8. PendingHasSender'
    BY <2>1, <2>2, <2>4 DEF PendingHasSender, rows
  <2> QED
    BY <2>5, <2>6, <2>7, <2>8
<1>10. ASSUME NEW t \in Threads, SaveEdit(t) PROVE RaceInv'
  <2>1. proc[t] \in Request /\ proc[t].of = NoDelivery
    BY <1>10 DEF SaveEdit, TypeOK, Idle, CopiesTruthful
  <2>2. endpoint' \in Endpoint
    BY <1>10, <2>1 DEF SaveEdit, Request, Endpoint
  <2>3. /\ proc' = [proc EXCEPT ![t] = Idle]
        /\ UNCHANGED <<delivery, history, budget>>
    BY <1>10 DEF SaveEdit
  <2>4. proc'[t] = Idle /\ \A u \in Threads : u # t => proc'[u] = proc[u]
    BY <2>3 DEF TypeOK
  <2>5. TypeOK'
    BY <2>2, <2>3, <2>4 DEF TypeOK, history, budget, Idle
  <2>6. CopiesTruthful'
    BY <2>3, <2>4 DEF CopiesTruthful, Truthful, history, Idle
  <2>7. SuccessWasAccepted' /\ ScheduleIsSound'
    BY <2>3 DEF SuccessWasAccepted, ScheduleIsSound, history
  <2>8. PendingHasSender'
    BY <2>1, <2>3, <2>4 DEF PendingHasSender, history
  <2> QED
    BY <2>5, <2>6, <2>7, <2>8
<1>11. ASSUME RotateSecret \/ \E b \in BOOLEAN : SetDeleted(b) \/ SetActive(b)
       PROVE  RaceInv'
  <2>1. /\ endpoint' \in Endpoint /\ rotations' \in Secret
        /\ UNCHANGED <<delivery, proc, accepted, tries, orphaned>>
    <3>1. CASE RotateSecret
      BY <3>1 DEF RotateSecret, TypeOK, Endpoint, Secret
    <3>2. CASE \E b \in BOOLEAN : SetDeleted(b) \/ SetActive(b)
      BY <3>2 DEF SetDeleted, SetActive, TypeOK, Endpoint, history
    <3> QED
      BY <1>11, <3>1, <3>2
  <2>2. Count
    BY <1>11 DEF RotateSecret, SetDeleted, SetActive
  <2>3. requests' \in Nat /\ overlapped' \in BOOLEAN /\ crashes' \in Nat
    BY <2>2 DEF Count, TypeOK
  <2>4. TypeOK'
    BY <2>1, <2>3 DEF TypeOK
  <2> QED
    BY <2>1, <2>4 DEF CopiesTruthful, Truthful, SuccessWasAccepted,
                      PendingHasSender, ScheduleIsSound
<1> QED
  BY <1>1, <1>2, <1>3, <1>4, <1>5, <1>6, <1>7, <1>8, <1>9, <1>10, <1>11 DEF Next

-----------------------------------------------------------------------------
(* Whatever races *)

THEOREM RaceInvariance == Spec => []RaceInv
BY RaceInit, RaceStep, PTL DEF Spec

\* Every variable keeps its type.
THEOREM TypeCorrect == Spec => []TypeOK
BY RaceInvariance, PTL DEF RaceInv

\* A delivery reported SUCCESS was accepted by the receiver.
THEOREM SuccessIsTrue == Spec => []SuccessWasAccepted
BY RaceInvariance, PTL DEF RaceInv

\* A PENDING delivery is being worked on, or was orphaned by a crash.
THEOREM PendingIsOwned == Spec => []PendingHasSender
BY RaceInvariance, PTL DEF RaceInv

\* A next attempt is scheduled only where one is due.
THEOREM SchedulesAreSound == Spec => []ScheduleIsSound
BY RaceInvariance, PTL DEF RaceInv

-----------------------------------------------------------------------------
(* As long as requests do not overlap *)

LEMMA SerialInit == Init => SerialInv
<1> SUFFICES ASSUME Init PROVE SerialInv
  OBVIOUS
<1> USE DEF Init
<1>1. endpoint.secret = rotations /\ Alone
  BY DEF Alone
<1>2. CopiesFresh
  BY DEF CopiesFresh, Idle
<1>3. TriesCounted
  BY DEF TriesCounted, Counts, Idle, Absent
<1> QED
  BY <1>1, <1>2, <1>3 DEF SerialInv

\* A request that starts without overlapping another finds all threads idle.
LEMMA SerialStart ==
  ASSUME RaceInv, SerialInv, NEW t \in Threads, NEW next \in Request, Start(t, next),
         next.stage \in {"create", "retry", "edit"}, next.copy = endpoint,
         next.stage = "retry" => next.row.attempt = delivery[next.of].attempt + 1,
         UNCHANGED <<rows, history>>
  PROVE  SerialInv'
<1> SUFFICES ASSUME ~overlapped' PROVE SerialInv'
  BY DEF SerialInv
<1>1. ~overlapped /\ \A u \in Threads : proc[u] = Idle
  BY DEF Start, Count
<1>2. proc' = [proc EXCEPT ![t] = next]
  BY DEF Start
<1>3. proc'[t] = next /\ \A u \in Threads : u # t => proc'[u] = Idle
  BY <1>1, <1>2 DEF RaceInv, TypeOK
<1>4. endpoint' = endpoint /\ delivery' = delivery /\ rotations' = rotations
      /\ tries' = tries /\ orphaned' = orphaned
  BY DEF rows, history
<1>5. endpoint.secret = rotations /\ TriesCounted
  BY <1>1 DEF SerialInv
<1>6. Alone'
  BY <1>3 DEF Alone
<1>7. CopiesFresh'
  BY <1>3, <1>4, <1>5 DEF CopiesFresh, Idle
<1>8. TriesCounted'
  BY <1>1, <1>3, <1>4, <1>5 DEF TriesCounted, Counts, Idle
<1> QED
  BY <1>4, <1>5, <1>6, <1>7, <1>8 DEF SerialInv

\* A request that goes on without overlapping another is the only one, so
\* that what it leaves behind has only to fit its own next step.
LEMMA SerialContinue ==
  ASSUME RaceInv, SerialInv, ~overlapped, NEW t \in Threads, proc[t] # Idle,
         NEW next \in Request \cup {Idle}, proc' = [proc EXCEPT ![t] = next]
  PROVE  /\ proc'[t] = next
         /\ \A u \in Threads : u # t => proc[u] = Idle /\ proc'[u] = Idle
         /\ Alone'
<1>1. proc'[t] = next /\ \A u \in Threads : u # t => proc'[u] = proc[u]
  BY DEF RaceInv, TypeOK
<1>2. \A u \in Threads : u # t => proc[u] = Idle
  BY DEF SerialInv, Alone
<1> QED
  BY <1>1, <1>2 DEF Alone

LEMMA SerialStep == RaceInv /\ RaceInv' /\ SerialInv /\ [Next]_vars => SerialInv'
<1> SUFFICES ASSUME RaceInv, RaceInv', SerialInv, [Next]_vars PROVE SerialInv'
  OBVIOUS
<1> USE ConstantsAssumption
<1>1. CASE UNCHANGED vars
  BY <1>1 DEF vars, SerialInv, Alone, CopiesFresh, TriesCounted, Counts
<1>2. ASSUME NEW t \in Threads, DispatchEvent(t) \/ PingEndpoint(t) PROVE SerialInv'
  <2> DEFINE next == [Idle EXCEPT !.stage = "create", !.copy = endpoint]
  <2>1. next \in Request /\ next.stage = "create" /\ next.copy = endpoint
    BY DEF Request, Idle, RaceInv, TypeOK
  <2>2. Start(t, next) /\ UNCHANGED <<rows, history>>
    BY <1>2 DEF DispatchEvent, PingEndpoint
  <2> HIDE DEF next
  <2> QED
    BY <2>1, <2>2, SerialStart
<1>3. ASSUME NEW t \in Threads, EditEndpoint(t) PROVE SerialInv'
  <2> DEFINE next == [Idle EXCEPT !.stage = "edit", !.copy = endpoint]
  <2>1. next \in Request /\ next.stage = "edit" /\ next.copy = endpoint
    BY DEF Request, Idle, RaceInv, TypeOK
  <2>2. Start(t, next) /\ UNCHANGED <<rows, history>>
    BY <1>3 DEF EditEndpoint
  <2> HIDE DEF next
  <2> QED
    BY <2>1, <2>2, SerialStart
<1>4. ASSUME NEW t \in Threads, NEW d \in Deliveries, RetryDelivery(t, d) PROVE SerialInv'
  <2>1. PICK r \in Row : r = delivery[d]
    BY <1>4 DEF RetryDelivery, Exists, RaceInv, TypeOK
  <2>2. r.attempt + 1 \in Nat
    BY DEF Row
  <2> DEFINE row == [r EXCEPT !.attempt = r.attempt + 1, !.status = "PENDING"]
             next == [stage |-> "retry", copy |-> endpoint, of |-> d, row |-> row]
  <2>3. row \in Row /\ row.attempt = delivery[d].attempt + 1
    BY <2>1, <2>2, RetryColumns
  <2>4. Start(t, next) /\ UNCHANGED <<rows, history>>
    BY <1>4, <2>1 DEF RetryDelivery
  <2> HIDE DEF row
  <2>5. next \in Request
    BY <2>3 DEF Request, RaceInv, TypeOK
  <2>6. next.stage = "retry" /\ next.copy = endpoint
        /\ next.row.attempt = delivery[next.of].attempt + 1
    BY <2>3
  <2> HIDE DEF next
  <2> QED
    BY <2>4, <2>5, <2>6, SerialStart
<1>5. ASSUME NEW t \in Threads, NEW d \in Deliveries, CreateDelivery(t, d) PROVE SerialInv'
  <2> SUFFICES ASSUME ~overlapped' PROVE SerialInv'
    BY DEF SerialInv
  <2> DEFINE new == [status |-> "PENDING", attempt |-> 1, retry |-> FALSE]
             next == [stage |-> "post", copy |-> proc[t].copy, of |-> d, row |-> new]
  <2>1. /\ delivery' = [delivery EXCEPT ![d] = new]
        /\ proc' = [proc EXCEPT ![t] = next]
        /\ delivery[d] = Absent /\ proc[t].stage = "create"
        /\ UNCHANGED <<endpoint, history, budget>>
    BY <1>5 DEF CreateDelivery, Exists
  <2>2. proc[t] \in Request /\ proc[t] # Idle /\ ~overlapped
    BY <2>1 DEF RaceInv, TypeOK, Idle, budget
  <2>3. next \in Request
    BY <2>2 DEF Request, Row, Status
  <2>4. next.stage = "post" /\ next.copy = proc[t].copy /\ next.of = d /\ next.row = new
        /\ new.attempt = 1
    OBVIOUS
  <2> HIDE DEF next, new
  <2>5. /\ proc'[t] = next /\ Alone'
        /\ \A u \in Threads : u # t => proc[u] = Idle /\ proc'[u] = Idle
    BY <2>1, <2>2, <2>3, SerialContinue
  <2>6. delivery'[d] = new /\ \A e \in Deliveries : e # d => delivery'[e] = delivery[e]
    BY <2>1 DEF RaceInv, TypeOK
  <2>7. CopiesFresh'
    BY <2>1, <2>2, <2>4, <2>5, <2>6 DEF CopiesFresh, SerialInv, Idle, history
  <2>8. \A e \in Deliveries : Counts(e, 0)
    BY <2>1, <2>2, <2>5 DEF SerialInv, TriesCounted, Idle
  <2>9. tries[d] = 0
    <3>1. tries[d] \in Nat /\ tries[d] <= 0
      BY <2>1, <2>8 DEF Counts, Absent, RaceInv, TypeOK
    <3> QED
      BY <3>1
  <2>10. TriesCounted'
    <3>1. tries' = tries /\ orphaned' = orphaned
      BY <2>1 DEF history
    <3>2. Counts(d, 1)'
      BY <3>1, <2>4, <2>6, <2>9 DEF Counts
    <3>3. \A e \in Deliveries : e # d => Counts(e, 0)'
      BY <3>1, <2>6, <2>8 DEF Counts
    <3> QED
      BY <3>2, <3>3, <2>4, <2>5 DEF TriesCounted, Idle
  <2> QED
    BY <2>1, <2>2, <2>5, <2>7, <2>10 DEF SerialInv, history
<1>6. ASSUME NEW t \in Threads, RetrySave(t) PROVE SerialInv'
  <2> SUFFICES ASSUME ~overlapped' PROVE SerialInv'
    BY DEF SerialInv
  <2>0. PICK d \in Deliveries, n \in Nat : d = proc[t].of /\ n = proc[t].row.attempt
    BY <1>6 DEF RetrySave, RaceInv, TypeOK, Row
  <2>1. PICK loaded \in {proc[t].copy, endpoint} :
          proc' = [proc EXCEPT ![t].stage = "post", ![t].copy = loaded]
    BY <1>6 DEF RetrySave
  <2>2. /\ proc[t].stage = "retry" /\ ~overlapped
        /\ delivery' = [delivery EXCEPT ![d].attempt = n, ![d].status = "PENDING"]
        /\ UNCHANGED <<endpoint, history, budget>>
    BY <1>6, <2>0 DEF RetrySave, budget
  <2>3. proc[t] \in Request /\ proc[t] # Idle
    BY <2>2 DEF RaceInv, TypeOK, Idle
  <2>4. PICK next \in Request : next = [proc[t] EXCEPT !.stage = "post", !.copy = loaded]
    BY <2>1, <2>3 DEF Request, RaceInv, TypeOK
  <2>5. next.stage = "post" /\ next.copy = loaded /\ next.of = d /\ next.row.attempt = n
    BY <2>0, <2>3, <2>4 DEF Request
  <2>6. /\ proc'[t] = next /\ Alone'
        /\ \A u \in Threads : u # t => proc[u] = Idle /\ proc'[u] = Idle
    <3>1. proc' = [proc EXCEPT ![t] = next]
      BY <2>1, <2>4
    <3> QED
      BY <3>1, <2>2, <2>3, SerialContinue
  <2>7. delivery'[d].attempt = n
        /\ \A e \in Deliveries : e # d => delivery'[e] = delivery[e]
    <3>1. delivery'[d] = [delivery[d] EXCEPT !.attempt = n, !.status = "PENDING"]
          /\ delivery[d] \in Row \cup {Absent}
          /\ \A e \in Deliveries : e # d => delivery'[e] = delivery[e]
      BY <2>2, <2>3 DEF RaceInv, TypeOK
    <3>2. PICK r \in Row \cup {Absent} : r = delivery[d]
      BY <3>1
    <3>3. [r EXCEPT !.attempt = n, !.status = "PENDING"].attempt = n
      BY <2>3, RetryColumns
    <3> QED
      BY <3>1, <3>2, <3>3
  <2>8. n = delivery[d].attempt + 1 /\ loaded.secret = rotations
    BY <2>0, <2>2 DEF SerialInv, CopiesFresh
  <2>9. CopiesFresh'
    <3>1. rotations' = rotations
      BY <2>2 DEF history
    <3>2. /\ proc'[t].copy.secret = rotations' /\ proc'[t].stage = "post"
          /\ proc'[t].row.attempt = delivery'[proc'[t].of].attempt
      BY <3>1, <2>5, <2>6, <2>7, <2>8
    <3>3. \A u \in Threads : u # t => proc'[u].stage = "idle"
      BY <2>6 DEF Idle
    <3> QED
      BY <3>2, <3>3 DEF CopiesFresh
  <2>10. \A e \in Deliveries : Counts(e, 0)
    BY <2>2, <2>6 DEF SerialInv, TriesCounted, Idle
  <2>11. TriesCounted'
    <3>1. tries' = tries /\ orphaned' = orphaned
      BY <2>2 DEF history
    <3>2. Counts(d, 1)'
      <4>1. tries[d] \in Nat /\ delivery[d].attempt \in Nat
        BY <2>3 DEF RaceInv, TypeOK, Row, Absent
      <4> QED
        BY <4>1, <3>1, <2>3, <2>7, <2>8, <2>10 DEF Counts
    <3>3. \A e \in Deliveries : e # d => Counts(e, 0)'
      BY <3>1, <2>7, <2>10 DEF Counts
    <3> QED
      BY <3>2, <3>3, <2>5, <2>6 DEF TriesCounted, Idle
  <2> QED
    BY <2>2, <2>6, <2>9, <2>11 DEF SerialInv, history
<1>7. ASSUME NEW t \in Threads, Post(t) PROVE SerialInv'
  <2> SUFFICES ASSUME ~overlapped' PROVE SerialInv'
    BY DEF SerialInv
  <2>1. PICK d \in Deliveries, r \in Row : d = proc[t].of /\ r = proc[t].row
    BY <1>7 DEF Post, RaceInv, TypeOK
  <2>2. PICK answer \in Answers :
          proc' = [proc EXCEPT ![t].stage = "save", ![t].row = RowAfter(r, answer)]
    BY <1>7, <2>1 DEF Post
  <2>3. /\ proc[t].stage = "post" /\ ~overlapped
        /\ tries' = [tries EXCEPT ![d] = @ + 1]
        /\ UNCHANGED <<endpoint, delivery, rotations, orphaned>>
    BY <1>7, <2>1 DEF Post, rows, budget
  <2>4. proc[t] \in Request /\ proc[t] # Idle
    BY <2>3 DEF RaceInv, TypeOK, Idle
  <2>5. RowAfter(r, answer) \in Row /\ RowAfter(r, answer).attempt = r.attempt
    BY DEF RowAfter, Row, Status
  <2>6. PICK next \in Request :
          next = [proc[t] EXCEPT !.stage = "save", !.row = RowAfter(r, answer)]
    BY <2>4, <2>5 DEF Request
  <2>7. next.stage = "save" /\ next.of = d /\ next.row.attempt = r.attempt
    BY <2>1, <2>4, <2>5, <2>6 DEF Request
  <2>8. /\ proc'[t] = next /\ Alone'
        /\ \A u \in Threads : u # t => proc[u] = Idle /\ proc'[u] = Idle
    <3>1. proc' = [proc EXCEPT ![t] = next]
      BY <2>2, <2>6
    <3> QED
      BY <3>1, <2>3, <2>4, SerialContinue
  <2>9. tries'[d] = tries[d] + 1 /\ tries[d] \in Nat
        /\ \A e \in Deliveries : e # d => tries'[e] = tries[e]
    BY <2>3 DEF RaceInv, TypeOK
  <2>10. CopiesFresh'
    <3>1. r.attempt = delivery[d].attempt
      BY <2>1, <2>3 DEF SerialInv, CopiesFresh
    <3>2. \A u \in Threads : u # t => proc'[u].stage = "idle"
      BY <2>8 DEF Idle
    <3> QED
      BY <3>1, <3>2, <2>3, <2>7, <2>8 DEF CopiesFresh
  <2>11. Counts(d, 1) /\ \A e \in Deliveries : e # d => Counts(e, 0)
    BY <2>1, <2>3, <2>8 DEF SerialInv, TriesCounted, Idle
  <2>12. \A e \in Deliveries : Counts(e, 0)'
    BY <2>3, <2>9, <2>11 DEF Counts
  <2>13. TriesCounted'
    BY <2>7, <2>8, <2>12 DEF TriesCounted, Idle
  <2> QED
    BY <2>3, <2>8, <2>10, <2>13 DEF SerialInv
<1>8. ASSUME NEW t \in Threads, SaveOutcome(t) PROVE SerialInv'
  <2> SUFFICES ASSUME ~overlapped' PROVE SerialInv'
    BY DEF SerialInv
  <2>1. PICK d \in Deliveries, r \in Row : d = proc[t].of /\ r = proc[t].row
    BY <1>8 DEF SaveOutcome, RaceInv, TypeOK
  <2>2. /\ delivery' = [delivery EXCEPT ![d] = r]
        /\ proc' = [proc EXCEPT ![t] = Idle]
        /\ proc[t].stage = "save" /\ ~overlapped
        /\ UNCHANGED <<endpoint, history>>
    BY <1>8, <2>1 DEF SaveOutcome, budget
  <2>3. /\ proc'[t] = Idle /\ Alone'
        /\ \A u \in Threads : u # t => proc[u] = Idle /\ proc'[u] = Idle
    <3>1. proc[t] # Idle
      BY <2>2 DEF Idle
    <3> QED
      BY <3>1, <2>2, SerialContinue
  <2>4. r.attempt = delivery[d].attempt
    BY <2>1, <2>2 DEF SerialInv, CopiesFresh
  <2>5. \A e \in Deliveries : delivery'[e].attempt = delivery[e].attempt
    BY <2>2, <2>4 DEF RaceInv, TypeOK
  <2>6. \A e \in Deliveries : Counts(e, 0)
    BY <2>2, <2>3 DEF SerialInv, TriesCounted, Idle
  <2>7. CopiesFresh'
    BY <2>3 DEF CopiesFresh, Idle
  <2>8. TriesCounted'
    BY <2>2, <2>3, <2>5, <2>6 DEF TriesCounted, Counts, Idle, history
  <2> QED
    BY <2>2, <2>3, <2>7, <2>8 DEF SerialInv, history
<1>9. ASSUME NEW t \in Threads, Crash(t) PROVE SerialInv'
  <2> SUFFICES ASSUME ~overlapped' PROVE SerialInv'
    BY DEF SerialInv
  <2>1. /\ proc' = [proc EXCEPT ![t] = Idle]
        /\ proc[t] # Idle /\ ~overlapped
        /\ UNCHANGED <<endpoint, delivery, tries, rotations>>
        /\ orphaned \subseteq orphaned'
        /\ proc[t].of # NoDelivery => proc[t].of \in orphaned'
    BY <1>9 DEF Crash, rows
  <2>2. /\ proc'[t] = Idle /\ Alone'
        /\ \A u \in Threads : u # t => proc[u] = Idle /\ proc'[u] = Idle
    BY <2>1, SerialContinue
  <2>3. CopiesFresh'
    BY <2>2 DEF CopiesFresh, Idle
  <2>4. \A d \in Deliveries : Counts(d, 0)'
    <3> TAKE d \in Deliveries
    <3>1. tries[d] \in Nat /\ delivery[d].attempt \in Nat
      BY DEF RaceInv, TypeOK, Row, Absent
    <3>2. CASE proc[t].stage = "post" /\ proc[t].of = d
      <4>1. Counts(d, 1)
        BY <3>2, <2>1 DEF SerialInv, TriesCounted
      <4> QED
        BY <4>1, <3>1, <3>2, <2>1 DEF Counts
    <3>3. CASE ~(proc[t].stage = "post" /\ proc[t].of = d)
      <4>1. Counts(d, 0)
        BY <3>3, <2>1, <2>2 DEF SerialInv, TriesCounted, Idle
      <4> QED
        BY <4>1, <2>1 DEF Counts
    <3> QED
      BY <3>2, <3>3
  <2>5. TriesCounted'
    BY <2>2, <2>4 DEF TriesCounted, Idle
  <2> QED
    BY <2>1, <2>2, <2>3, <2>5 DEF SerialInv
<1>10. ASSUME NEW t \in Threads, SaveEdit(t) PROVE SerialInv'
  <2> SUFFICES ASSUME ~overlapped' PROVE SerialInv'
    BY DEF SerialInv
  <2>1. PICK a \in BOOLEAN : endpoint' = [proc[t].copy EXCEPT !.active = a]
    BY <1>10 DEF SaveEdit
  <2>2. /\ proc' = [proc EXCEPT ![t] = Idle]
        /\ proc[t].stage = "edit" /\ ~overlapped
        /\ UNCHANGED <<delivery, history>>
    BY <1>10 DEF SaveEdit, budget
  <2>3. proc[t] \in Request
    BY <2>2 DEF RaceInv, TypeOK, Idle
  <2>4. endpoint'.secret = rotations
    BY <2>1, <2>2, <2>3 DEF Request, Endpoint, SerialInv, CopiesFresh
  <2>5. /\ proc'[t] = Idle /\ Alone'
        /\ \A u \in Threads : u # t => proc[u] = Idle /\ proc'[u] = Idle
    <3>1. proc[t] # Idle
      BY <2>2 DEF Idle
    <3> QED
      BY <3>1, <2>2, SerialContinue
  <2>6. CopiesFresh'
    BY <2>5 DEF CopiesFresh, Idle
  <2>7. TriesCounted'
    BY <2>2, <2>5 DEF SerialInv, TriesCounted, Counts, Idle, history
  <2> QED
    BY <2>2, <2>4, <2>5, <2>6, <2>7 DEF SerialInv, history
<1>11. ASSUME RotateSecret \/ \E b \in BOOLEAN : SetDeleted(b) \/ SetActive(b)
       PROVE  SerialInv'
  <2> SUFFICES ASSUME ~overlapped' PROVE SerialInv'
    BY DEF SerialInv
  <2>1. ~overlapped /\ \A t \in Threads : proc[t] = Idle
    BY <1>11 DEF RotateSecret, SetDeleted, SetActive, Count
  <2>2. UNCHANGED <<delivery, proc, tries, orphaned>>
    BY <1>11 DEF RotateSecret, SetDeleted, SetActive, history
  <2>3. endpoint'.secret = rotations'
    BY <1>11, <2>1 DEF RotateSecret, SetDeleted, SetActive, SerialInv, history,
                       RaceInv, TypeOK, Endpoint
  <2>4. Alone' /\ CopiesFresh'
    <3>1. \A t \in Threads : proc'[t] = Idle
      BY <2>1, <2>2
    <3>2. Idle.stage = "idle"
      BY DEF Idle
    <3> QED
      BY <3>1, <3>2 DEF Alone, CopiesFresh
  <2>5. TriesCounted'
    BY <2>1, <2>2 DEF SerialInv, TriesCounted, Counts
  <2> QED
    BY <2>3, <2>4, <2>5 DEF SerialInv
<1> QED
  BY <1>1, <1>2, <1>3, <1>4, <1>5, <1>6, <1>7, <1>8, <1>9, <1>10, <1>11 DEF Next

THEOREM SerialInvariance == Spec => [](RaceInv /\ SerialInv)
BY RaceInit, RaceStep, SerialInit, SerialStep, PTL DEF Spec

\* Without overlap, the row of a delivery counts the calls made for it.
THEOREM AttemptsAreCounted == Spec => []AttemptsCounted
<1>1. RaceInv /\ SerialInv => AttemptsCounted
  <2> SUFFICES ASSUME RaceInv, SerialInv, ~overlapped, NEW d \in Deliveries,
                      \A t \in Threads : proc[t].of # d
               PROVE  tries[d] <= delivery[d].attempt
                      /\ (d \notin orphaned => delivery[d].attempt = tries[d])
    BY DEF AttemptsCounted
  <2>1. Counts(d, 0) /\ tries[d] \in Nat
    BY DEF SerialInv, TriesCounted, RaceInv, TypeOK
  <2> QED
    BY <2>1 DEF Counts
<1> QED
  BY <1>1, SerialInvariance, PTL

\* Without overlap, the endpoint keeps the latest secret, and what is posted
\* is signed with it.
THEOREM SecretIsTheLatest == Spec => []SecretIsLatest
<1>1. SerialInv => SecretIsLatest
  BY DEF SerialInv, CopiesFresh, SecretIsLatest
<1> QED
  BY <1>1, SerialInvariance, PTL
=============================================================================
