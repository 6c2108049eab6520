------------------------- MODULE NotificationsProofs -------------------------
(***************************************************************************)
(* Proofs about Notifications for any sets of rows, workers and clients    *)
(* and any bounds.  The safety properties follow from one inductive        *)
(* invariant, IInv; the last theorem is the refinement of                  *)
(* NotificationLifecycle.                                                  *)
(***************************************************************************)
EXTENDS Notifications, TLAPS

\* Some worker has dispatched l in a transaction that is still open.
Attempted(l) == \E w \in Workers : outcome[w][l] # "none"

\* A worker's open transaction only updates rows it has locked, and only
\* reports what a provider accepted.
OutcomesOwned ==
  \A w \in Workers, l \in Logs :
    /\ outcome[w][l] # "none" => l \in batch[w]
    /\ outcome[w][l] = "SENT" => l \in delivered

\* What a request is about to save still makes sense for its row, even
\* though the row may have changed since it was read.
RequestsSound ==
  \A c \in Clients : client[c] # Idle =>
    /\ log[client[c].log].status # "ABSENT"
    /\ client[c].stage = "dispatch" => client[c].status = "PENDING"
    /\ client[c].stage = "save" =>
         /\ client[c].status \in {"SENT", "FAILED", "CANCELLED", "SCHEDULED"}
         /\ client[c].status = "SENT" => client[c].log \in delivered
         /\ client[c].status \in {"CANCELLED", "SCHEDULED"} =>
              log[client[c].log].status # "PENDING"

\* A SCHEDULED row that no open transaction has dispatched still has an
\* unused chance.
ChancesCover ==
  \A l \in Logs :
    /\ attempts[l] <= chances[l]
    /\ log[l].status = "SCHEDULED" /\ ~Attempted(l) => attempts[l] + 1 <= chances[l]

IInv == /\ TypeOK
        /\ ClaimsHold
        /\ OutcomesOwned
        /\ RequestsSound
        /\ ChancesCover
        /\ SentWasDelivered
        /\ PendingHasOwner

-----------------------------------------------------------------------------
\* Every variable keeps its type: the API and the workers never store a
\* status or a time outside the model's (models.py:15-20).
THEOREM TypeCorrect == Spec => []TypeOK
<1>1. Init => TypeOK
  BY ConstantsAssumption DEF Init, TypeOK, Time, Row, Status, Outcome, NoOutcome
<1>2. TypeOK /\ [Next]_vars => TypeOK'
  <2> SUFFICES ASSUME TypeOK, [Next]_vars PROVE TypeOK'
    OBVIOUS
  <2> USE DEF TypeOK, tables, procs, history, budget
  <2>0. 0 \in Time
    BY ConstantsAssumption DEF Time
  <2>1. ASSUME NEW c \in Clients, NEW l \in Logs, SendNow(c, l) PROVE TypeOK'
    BY <2>0, <2>1 DEF SendNow, Serve, Row, Status, Request, Time
  <2>2. ASSUME NEW c \in Clients, NEW l \in Logs, Cancel(c, l) PROVE TypeOK'
    BY <2>0, <2>2 DEF Cancel, Serve, Request, Status, Time
  <2>3. ASSUME NEW c \in Clients, NEW l \in Logs, RetryFailed(c, l) PROVE TypeOK'
    BY <2>0, <2>3 DEF RetryFailed, Serve, Request, Status, Time
  <2>4. ASSUME NEW c \in Clients, NEW l \in Logs, NEW t \in Time, SendLater(c, l, t)
        PROVE  TypeOK'
    BY <2>4 DEF SendLater, Serve, Row, Status
  <2>5. ASSUME NEW c \in Clients, NEW l \in Logs, NEW t \in Time, Reschedule(c, l, t)
        PROVE  TypeOK'
    BY <2>5 DEF Reschedule, Serve, Request, Status
  <2>6. ASSUME NEW c \in Clients, ClientDispatch(c) PROVE TypeOK'
    <3>1. PICK reply \in Replies(client[c].log) :
            /\ HandOver(client[c].log, reply)
            /\ client' = [client EXCEPT ![c].stage = "save",
                                        ![c].status = StatusAfter(reply)]
      BY <2>6 DEF ClientDispatch
    <3>2. client[c] \in Request
      BY <2>6 DEF ClientDispatch, Idle
    <3>3. client' \in [Clients -> Request \cup {Idle}]
      BY <3>1, <3>2 DEF Request, StatusAfter, Status
    <3>4. delivered' \in SUBSET Logs
      BY <3>1, <3>2 DEF HandOver, Request
    <3> QED
      BY <2>6, <3>3, <3>4 DEF ClientDispatch
  <2>7. ASSUME NEW c \in Clients, ClientSave(c) PROVE TypeOK'
    <3>1. client[c] \in Request
      BY <2>7 DEF ClientSave, Idle
    <3> QED
      BY <2>7, <3>1 DEF ClientSave, Request, Row
  <2>8. ASSUME NEW c \in Clients, ClientCrash(c) PROVE TypeOK'
    <3>1. client[c] \in Request
      BY <2>0, <2>8 DEF ClientCrash
    <3> QED
      BY <2>8, <3>1 DEF ClientCrash, Request
  <2>9. ASSUME NEW w \in Workers, Fetch(w) PROVE TypeOK'
    BY <2>9 DEF Fetch
  <2>10. ASSUME NEW w \in Workers, WorkerDispatch(w) PROVE TypeOK'
    BY <2>10 DEF WorkerDispatch, HandOver, Outcome, StatusAfter
  <2>11. ASSUME NEW w \in Workers, Commit(w) PROVE TypeOK'
    <3>1. log' \in [Logs -> Row]
      BY <2>11 DEF Commit, Row, Outcome, Status
    <3> QED
      BY <2>11, <3>1 DEF Commit, NoOutcome, Outcome
  <2>12. ASSUME NEW w \in Workers, Abort(w) PROVE TypeOK'
    BY <2>12 DEF Abort, NoOutcome, Outcome
  <2>13. ASSUME NEW l \in Logs, SoftDelete(l) PROVE TypeOK'
    BY <2>13 DEF SoftDelete
  <2>14. CASE Tick
    BY <2>14, ConstantsAssumption DEF Tick, Time
  <2>15. CASE UNCHANGED vars
    BY <2>15 DEF vars
  <2> QED
    BY <2>1, <2>2, <2>3, <2>4, <2>5, <2>6, <2>7, <2>8, <2>9, <2>10, <2>11,
       <2>12, <2>13, <2>14, <2>15 DEF Next, ClientStep, WorkerStep
<1> QED
  BY <1>1, <1>2, PTL DEF Spec

\* IInv is inductive, hence an invariant: the row locks make ClaimsHold
\* survive every request, and ClaimsHold makes a dispatch spend the chance
\* ChancesCover has kept for it.
THEOREM Invariance == Spec => []IInv
<1>1. Init => IInv
  <2> SUFFICES ASSUME Init PROVE IInv
    OBVIOUS
  <2>1. TypeOK
    BY ConstantsAssumption DEF Init, TypeOK, Time, Row, Status, Outcome, NoOutcome
  <2>2. ClaimsHold /\ OutcomesOwned /\ RequestsSound
    BY DEF Init, ClaimsHold, OutcomesOwned, RequestsSound, NoOutcome
  <2>3. ChancesCover /\ SentWasDelivered /\ PendingHasOwner
    BY DEF Init, ChancesCover, SentWasDelivered, PendingHasOwner
  <2> QED
    BY <2>1, <2>2, <2>3 DEF IInv
<1>2. IInv /\ TypeOK' /\ [Next]_vars => IInv'
  <2> SUFFICES ASSUME IInv, TypeOK', [Next]_vars PROVE IInv'
    OBVIOUS
  <2> USE DEF IInv, tables, procs, history, budget
  <2>1. ASSUME NEW c \in Clients, NEW l \in Logs, SendNow(c, l) PROVE IInv'
    <3>1. ClaimsHold'
      BY <2>1 DEF TypeOK, SendNow, Serve, ClaimsHold, Due, Idle, Request, Row
    <3>2. OutcomesOwned'
      BY <2>1 DEF TypeOK, SendNow, Serve, OutcomesOwned, Idle, Request, Row
    <3>3. RequestsSound'
      BY <2>1 DEF TypeOK, SendNow, Serve, RequestsSound, Idle, Request, Row
    <3>4. ChancesCover'
      BY <2>1 DEF TypeOK, SendNow, Serve, ChancesCover, Attempted, Idle, Request, Row
    <3>5. SentWasDelivered'
      BY <2>1 DEF TypeOK, SendNow, Serve, SentWasDelivered, Idle, Request, Row
    <3>6. PendingHasOwner'
      <4> SUFFICES ASSUME NEW k \in Logs, k # l, log[k].status = "PENDING", k \notin orphaned
                   PROVE  \E d \in Clients : client'[d].log = k
        BY <2>1 DEF SendNow, Serve, PendingHasOwner, TypeOK
      <4>1. PICK d \in Clients : client[d].log = k
        BY DEF PendingHasOwner
      <4>2. d # c
        BY <2>1, <4>1, ConstantsAssumption DEF SendNow, Serve, Idle
      <4> QED
        BY <2>1, <4>1, <4>2 DEF SendNow, Serve, TypeOK
    <3> QED
      BY <3>1, <3>2, <3>3, <3>4, <3>5, <3>6
  <2>2. ASSUME NEW c \in Clients, NEW l \in Logs, Cancel(c, l) PROVE IInv'
    <3>1. ClaimsHold'
      BY <2>2 DEF TypeOK, Cancel, Serve, ClaimsHold, Due, Idle, Request, Row
    <3>2. OutcomesOwned'
      BY <2>2 DEF TypeOK, Cancel, Serve, OutcomesOwned, Idle, Request, Row
    <3>3. RequestsSound'
      BY <2>2 DEF TypeOK, Cancel, Serve, RequestsSound, Idle, Request, Row
    <3>4. ChancesCover'
      BY <2>2 DEF TypeOK, Cancel, Serve, ChancesCover, Attempted, Idle, Request, Row
    <3>5. SentWasDelivered'
      BY <2>2 DEF TypeOK, Cancel, Serve, SentWasDelivered, Idle, Request, Row
    <3>6. PendingHasOwner'
      <4> SUFFICES ASSUME NEW k \in Logs, log'[k].status = "PENDING", k \notin orphaned'
                   PROVE  \E d \in Clients : client'[d].log = k
        BY DEF PendingHasOwner
      <4>1. PICK d \in Clients : client[d].log = k
        BY <2>2 DEF Cancel, Serve, PendingHasOwner, TypeOK
      <4>2. d # c
        BY <2>2, <4>1, ConstantsAssumption DEF Cancel, Serve, Idle
      <4> QED
        BY <2>2, <4>1, <4>2 DEF Cancel, Serve, TypeOK
    <3> QED
      BY <3>1, <3>2, <3>3, <3>4, <3>5, <3>6
  <2>3. ASSUME NEW c \in Clients, NEW l \in Logs, RetryFailed(c, l)
       PROVE  IInv'
    <3>1. ClaimsHold'
      BY <2>3 DEF TypeOK, RetryFailed, Serve, ClaimsHold, Due, Idle, Request, Row
    <3>2. OutcomesOwned'
      BY <2>3 DEF TypeOK, RetryFailed, Serve, OutcomesOwned, Idle, Request, Row
    <3>3. RequestsSound'
      BY <2>3 DEF TypeOK, RetryFailed, Serve, Visible, RequestsSound, Idle, Request, Row
    <3>4. ChancesCover'
      BY <2>3 DEF TypeOK, RetryFailed, Serve, ChancesCover, Attempted, Idle, Request, Row
    <3>5. SentWasDelivered'
      BY <2>3 DEF TypeOK, RetryFailed, Serve, SentWasDelivered, Idle, Request, Row
    <3>6. PendingHasOwner'
      <4> SUFFICES ASSUME NEW k \in Logs, log'[k].status = "PENDING", k \notin orphaned'
                   PROVE  \E d \in Clients : client'[d].log = k
        BY DEF PendingHasOwner
      <4>1. PICK d \in Clients : client[d].log = k
        BY <2>3 DEF RetryFailed, Serve, PendingHasOwner, TypeOK
      <4>2. d # c
        BY <2>3, <4>1, ConstantsAssumption DEF RetryFailed, Serve, Idle
      <4> QED
        BY <2>3, <4>1, <4>2 DEF RetryFailed, Serve, TypeOK
    <3> QED
      BY <3>1, <3>2, <3>3, <3>4, <3>5, <3>6
  <2>4. ASSUME NEW c \in Clients, NEW l \in Logs, NEW t \in Time, SendLater(c, l, t)
       PROVE  IInv'
    <3>1. ClaimsHold'
      BY <2>4 DEF TypeOK, SendLater, Serve, ClaimsHold, Due, Idle, Request, Row
    <3>2. OutcomesOwned'
      BY <2>4 DEF TypeOK, SendLater, Serve, OutcomesOwned, Idle, Request, Row
    <3>3. RequestsSound'
      BY <2>4 DEF TypeOK, SendLater, Serve, RequestsSound, Idle, Request, Row
    <3>4. ChancesCover'
      BY <2>4 DEF TypeOK, SendLater, Serve, ChancesCover, Attempted, Idle, Request, Row
    <3>5. SentWasDelivered'
      BY <2>4 DEF TypeOK, SendLater, Serve, SentWasDelivered, Idle, Request, Row
    <3>6. PendingHasOwner'
      BY <2>4 DEF TypeOK, SendLater, Serve, PendingHasOwner, Idle, Request, Row
    <3> QED
      BY <3>1, <3>2, <3>3, <3>4, <3>5, <3>6
  <2>5. ASSUME NEW c \in Clients, NEW l \in Logs, NEW t \in Time, Reschedule(c, l, t)
       PROVE  IInv'
    <3>1. ClaimsHold'
      BY <2>5 DEF TypeOK, Reschedule, Serve, ClaimsHold, Due, Idle, Request, Row
    <3>2. OutcomesOwned'
      BY <2>5 DEF TypeOK, Reschedule, Serve, OutcomesOwned, Idle, Request, Row
    <3>3. RequestsSound'
      BY <2>5 DEF TypeOK, Reschedule, Serve, RequestsSound, Idle, Request, Row
    <3>4. ChancesCover'
      BY <2>5 DEF TypeOK, Reschedule, Serve, ChancesCover, Attempted, Idle, Request, Row
    <3>5. SentWasDelivered'
      BY <2>5 DEF TypeOK, Reschedule, Serve, SentWasDelivered, Idle, Request, Row
    <3>6. PendingHasOwner'
      <4> SUFFICES ASSUME NEW k \in Logs, log'[k].status = "PENDING", k \notin orphaned'
                   PROVE  \E d \in Clients : client'[d].log = k
        BY DEF PendingHasOwner
      <4>1. PICK d \in Clients : client[d].log = k
        BY <2>5 DEF Reschedule, Serve, PendingHasOwner, TypeOK
      <4>2. d # c
        BY <2>5, <4>1, ConstantsAssumption DEF Reschedule, Serve, Idle
      <4> QED
        BY <2>5, <4>1, <4>2 DEF Reschedule, Serve, TypeOK
    <3> QED
      BY <3>1, <3>2, <3>3, <3>4, <3>5, <3>6
  <2>6. ASSUME NEW c \in Clients, ClientDispatch(c) PROVE IInv'
    <3>1. ClaimsHold'
      BY <2>6 DEF TypeOK, ClientDispatch, HandOver, StatusAfter, ClaimsHold, Due, Idle, Request, Row
    <3>2. OutcomesOwned'
      BY <2>6 DEF TypeOK, ClientDispatch, HandOver, StatusAfter, OutcomesOwned, Idle, Request, Row
    <3>3. RequestsSound'
      BY <2>6 DEF TypeOK, ClientDispatch, HandOver, StatusAfter, RequestsSound, Idle, Request, Row
    <3>4. ChancesCover'
      BY <2>6 DEF TypeOK, ClientDispatch, HandOver, StatusAfter, ChancesCover, Attempted, Idle, Request, Row
    <3>5. SentWasDelivered'
      BY <2>6 DEF TypeOK, ClientDispatch, HandOver, StatusAfter, SentWasDelivered, Idle, Request, Row
    <3>6. PendingHasOwner'
      <4>1. client[c] \in Request /\ \A d \in Clients : client'[d].log = client[d].log
        BY <2>6 DEF ClientDispatch, TypeOK, Request, Idle
      <4> QED
        BY <2>6, <4>1 DEF ClientDispatch, PendingHasOwner
    <3> QED
      BY <3>1, <3>2, <3>3, <3>4, <3>5, <3>6
  <2>7. ASSUME NEW c \in Clients, ClientSave(c) PROVE IInv'
    <3>1. ClaimsHold'
      BY <2>7 DEF TypeOK, ClientSave, Locked, ClaimsHold, Due, Idle, Request, Row
    <3>2. OutcomesOwned'
      BY <2>7 DEF TypeOK, ClientSave, Locked, OutcomesOwned, Idle, Request, Row
    <3>3. RequestsSound'
      BY <2>7 DEF TypeOK, ClientSave, Locked, RequestsSound, Idle, Request, Row
    <3>4. ChancesCover'
      BY <2>7 DEF TypeOK, ClientSave, Locked, ChancesCover, Attempted, Idle, Request, Row
    <3>5. SentWasDelivered'
      <4>1. client[c].status = "SENT" => client[c].log \in delivered
        BY <2>7 DEF ClientSave, RequestsSound, Idle
      <4> QED
        BY <2>7, <4>1 DEF ClientSave, SentWasDelivered, TypeOK
    <3>6. PendingHasOwner'
      <4>1. client[c].status # "PENDING" /\ client[c].log \in Logs
        BY <2>7 DEF ClientSave, RequestsSound, TypeOK, Request, Idle
      <4> SUFFICES ASSUME NEW k \in Logs, log'[k].status = "PENDING", k \notin orphaned'
                   PROVE  \E d \in Clients : client'[d].log = k
        BY DEF PendingHasOwner
      <4>2. k # client[c].log /\ log[k].status = "PENDING" /\ k \notin orphaned
        BY <2>7, <4>1 DEF ClientSave, TypeOK
      <4>3. PICK d \in Clients : client[d].log = k
        BY <4>2 DEF PendingHasOwner
      <4> QED
        BY <2>7, <4>2, <4>3 DEF ClientSave, TypeOK
    <3> QED
      BY <3>1, <3>2, <3>3, <3>4, <3>5, <3>6
  <2>8. ASSUME NEW c \in Clients, ClientCrash(c) PROVE IInv'
    <3>1. ClaimsHold'
      BY <2>8 DEF TypeOK, ClientCrash, ClaimsHold, Due, Idle, Request, Row
    <3>2. OutcomesOwned'
      BY <2>8 DEF TypeOK, ClientCrash, OutcomesOwned, Idle, Request, Row
    <3>3. RequestsSound'
      BY <2>8 DEF TypeOK, ClientCrash, RequestsSound, Idle, Request, Row
    <3>4. ChancesCover'
      BY <2>8 DEF TypeOK, ClientCrash, ChancesCover, Attempted, Idle, Request, Row
    <3>5. SentWasDelivered'
      BY <2>8 DEF TypeOK, ClientCrash, SentWasDelivered, Idle, Request, Row
    <3>6. PendingHasOwner'
      BY <2>8 DEF TypeOK, ClientCrash, PendingHasOwner, Idle, Request, Row
    <3> QED
      BY <3>1, <3>2, <3>3, <3>4, <3>5, <3>6
  <2>9. ASSUME NEW w \in Workers, Fetch(w) PROVE IInv'
    <3>1. ClaimsHold'
      BY <2>9 DEF TypeOK, Fetch, EarliestDue, Locked, ClaimsHold, Due, Idle, Request, Row
    <3>2. OutcomesOwned'
      BY <2>9 DEF TypeOK, Fetch, EarliestDue, Locked, OutcomesOwned, Idle, Request, Row
    <3>3. RequestsSound'
      BY <2>9 DEF TypeOK, Fetch, EarliestDue, Locked, RequestsSound, Idle, Request, Row
    <3>4. ChancesCover'
      BY <2>9 DEF TypeOK, Fetch, EarliestDue, Locked, ChancesCover, Attempted, Idle, Request, Row
    <3>5. SentWasDelivered'
      BY <2>9 DEF TypeOK, Fetch, EarliestDue, Locked, SentWasDelivered, Idle, Request, Row
    <3>6. PendingHasOwner'
      BY <2>9 DEF TypeOK, Fetch, EarliestDue, Locked, PendingHasOwner, Idle, Request, Row
    <3> QED
      BY <3>1, <3>2, <3>3, <3>4, <3>5, <3>6
  <2>10. ASSUME NEW w \in Workers, WorkerDispatch(w) PROVE IInv'
    <3>1. ClaimsHold'
      BY <2>10 DEF TypeOK, WorkerDispatch, HandOver, StatusAfter, ClaimsHold, Due, Idle, Request, Row
    <3>2. OutcomesOwned'
      BY <2>10 DEF TypeOK, WorkerDispatch, HandOver, StatusAfter, OutcomesOwned, Idle, Request, Row
    <3>3. RequestsSound'
      BY <2>10 DEF TypeOK, WorkerDispatch, HandOver, StatusAfter, RequestsSound, Idle, Request, Row
    <3>4. ChancesCover'
      <4>1. PICK l \in batch[w], reply \in {"SENT", "FAILED", "LOST"} :
              /\ outcome[w][l] = "none"
              /\ outcome' = [outcome EXCEPT ![w][l] = StatusAfter(reply)]
              /\ attempts' = [attempts EXCEPT ![l] = @ + 1]
              /\ UNCHANGED <<log, chances>>
        BY <2>10 DEF WorkerDispatch
      <4>2. l \in Logs /\ log[l].status = "SCHEDULED" /\ ~Attempted(l)
        BY <4>1 DEF TypeOK, ClaimsHold, Due, OutcomesOwned, Attempted
      <4>3. outcome'[w][l] # "none"
        BY <4>1, <4>2 DEF TypeOK, StatusAfter
      <4>4. \A k \in Logs : k # l => (Attempted(k) <=> Attempted(k)')
        BY <4>1 DEF Attempted, TypeOK
      <4>5. attempts[l] + 1 <= chances[l] /\ Attempted(l)'
        BY <4>2, <4>3 DEF ChancesCover, Attempted
      <4> QED
        BY <4>1, <4>2, <4>4, <4>5 DEF ChancesCover, TypeOK
    <3>5. SentWasDelivered'
      BY <2>10 DEF TypeOK, WorkerDispatch, HandOver, StatusAfter, SentWasDelivered, Idle, Request, Row
    <3>6. PendingHasOwner'
      BY <2>10 DEF TypeOK, WorkerDispatch, HandOver, StatusAfter, PendingHasOwner, Idle, Request, Row
    <3> QED
      BY <3>1, <3>2, <3>3, <3>4, <3>5, <3>6
  <2>11. ASSUME NEW w \in Workers, Commit(w) PROVE IInv'
    <3>0. /\ \A l \in batch[w] : outcome[w][l] \in {"SENT", "FAILED"}
          /\ batch[w] \subseteq Logs
          /\ \A l \in Logs : log'[l].status =
                IF l \in batch[w] THEN outcome[w][l] ELSE log[l].status
          /\ UNCHANGED <<client, delivered, attempts, chances, orphaned>>
      BY <2>11 DEF Commit, TypeOK, Outcome
    <3>1. ClaimsHold'
      BY <2>11 DEF TypeOK, Commit, NoOutcome, ClaimsHold, Due, Idle, Request, Row
    <3>2. OutcomesOwned'
      BY <2>11 DEF TypeOK, Commit, NoOutcome, OutcomesOwned, Idle, Request, Row
    <3>3. RequestsSound'
      <4> SUFFICES ASSUME NEW c \in Clients, client[c] # Idle
                   PROVE  /\ log'[client[c].log].status # "ABSENT"
                          /\ client[c].stage = "save" /\ client[c].status \in {"CANCELLED", "SCHEDULED"}
                               => log'[client[c].log].status # "PENDING"
        BY <3>0 DEF RequestsSound
      <4>1. client[c].log \in Logs
        BY DEF TypeOK, Request
      <4> QED
        BY <3>0, <4>1 DEF RequestsSound
    <3>4. ChancesCover'
      <4>1. \A l \in Logs : log'[l].status = "SCHEDULED" =>
              log[l].status = "SCHEDULED" /\ l \notin batch[w]
        BY <3>0
      <4>2. \A l \in Logs : l \notin batch[w] => (Attempted(l) <=> Attempted(l)')
        BY <2>11 DEF Commit, NoOutcome, Attempted, OutcomesOwned, TypeOK
      <4> QED
        BY <3>0, <4>1, <4>2 DEF ChancesCover
    <3>5. SentWasDelivered'
      BY <3>0 DEF SentWasDelivered, OutcomesOwned
    <3>6. PendingHasOwner'
      BY <3>0 DEF PendingHasOwner
    <3> QED
      BY <3>1, <3>2, <3>3, <3>4, <3>5, <3>6
  <2>12. ASSUME NEW w \in Workers, Abort(w) PROVE IInv'
    <3>1. ClaimsHold'
      BY <2>12 DEF TypeOK, Abort, NoOutcome, ClaimsHold, Due, Idle, Request, Row
    <3>2. OutcomesOwned'
      BY <2>12 DEF TypeOK, Abort, NoOutcome, OutcomesOwned, Idle, Request, Row
    <3>3. RequestsSound'
      BY <2>12 DEF TypeOK, Abort, NoOutcome, RequestsSound, Idle, Request, Row
    <3>4. ChancesCover'
      BY <2>12 DEF TypeOK, Abort, NoOutcome, ChancesCover, Attempted, Idle, Request, Row
    <3>5. SentWasDelivered'
      BY <2>12 DEF TypeOK, Abort, NoOutcome, SentWasDelivered, Idle, Request, Row
    <3>6. PendingHasOwner'
      BY <2>12 DEF TypeOK, Abort, NoOutcome, PendingHasOwner, Idle, Request, Row
    <3> QED
      BY <3>1, <3>2, <3>3, <3>4, <3>5, <3>6
  <2>13. ASSUME NEW l \in Logs, SoftDelete(l) PROVE IInv'
    <3>1. ClaimsHold'
      BY <2>13 DEF TypeOK, SoftDelete, Locked, ClaimsHold, Due, Idle, Request, Row
    <3>2. OutcomesOwned'
      BY <2>13 DEF TypeOK, SoftDelete, Locked, OutcomesOwned, Idle, Request, Row
    <3>3. RequestsSound'
      BY <2>13 DEF TypeOK, SoftDelete, Locked, RequestsSound, Idle, Request, Row
    <3>4. ChancesCover'
      BY <2>13 DEF TypeOK, SoftDelete, Locked, ChancesCover, Attempted, Idle, Request, Row
    <3>5. SentWasDelivered'
      BY <2>13 DEF TypeOK, SoftDelete, Locked, SentWasDelivered, Idle, Request, Row
    <3>6. PendingHasOwner'
      BY <2>13 DEF TypeOK, SoftDelete, Locked, PendingHasOwner, Idle, Request, Row
    <3> QED
      BY <3>1, <3>2, <3>3, <3>4, <3>5, <3>6
  <2>14. CASE Tick
    <3>1. ClaimsHold'
      BY <2>14 DEF Tick, ClaimsHold, Due, TypeOK, Row, Time
    <3>2. OutcomesOwned' /\ RequestsSound' /\ SentWasDelivered' /\ PendingHasOwner'
      BY <2>14 DEF Tick, OutcomesOwned, RequestsSound, SentWasDelivered, PendingHasOwner
    <3>3. ChancesCover'
      BY <2>14 DEF Tick, ChancesCover, Attempted
    <3> QED
      BY <3>1, <3>2, <3>3
  <2>15. CASE UNCHANGED vars
    BY <2>15 DEF vars, ClaimsHold, Due, OutcomesOwned, RequestsSound,
       ChancesCover, Attempted, SentWasDelivered, PendingHasOwner
  <2> QED
    BY <2>1, <2>2, <2>3, <2>4, <2>5, <2>6, <2>7, <2>8, <2>9, <2>10, <2>11,
       <2>12, <2>13, <2>14, <2>15 DEF Next, ClientStep, WorkerStep
<1> QED
  BY <1>1, <1>2, TypeCorrect, PTL DEF Spec

-----------------------------------------------------------------------------
\* No two workers ever hold the same row and no request changes a row under
\* a worker, for any number of workers and requests.
THEOREM ExclusiveClaims == Spec => []ClaimsHold
<1>1. IInv => ClaimsHold
  BY DEF IInv
<1> QED
  BY <1>1, Invariance, PTL

\* Workers dispatch a row at most once for each time it was scheduled and
\* each rollback that forgot its dispatch.
THEOREM OneDispatchPerChance == Spec => []DispatchedOncePerChance
<1>1. IInv => DispatchedOncePerChance
  BY DEF IInv, ChancesCover, DispatchedOncePerChance
<1> QED
  BY <1>1, Invariance, PTL

\* A row that reads SENT was accepted by a provider.
THEOREM SentIsTrue == Spec => []SentWasDelivered
<1>1. IInv => SentWasDelivered
  BY DEF IInv
<1> QED
  BY <1>1, Invariance, PTL

\* Only a killed request leaves a row PENDING without an owner.
THEOREM PendingIsOwned == Spec => []PendingHasOwner
<1>1. IInv => PendingHasOwner
  BY DEF IInv
<1> QED
  BY <1>1, Invariance, PTL

-----------------------------------------------------------------------------
\* The service implements the lifecycle: whatever the requests and workers
\* race on, a reader sees only the status changes NotificationLifecycle
\* allows.
THEOREM RefinesLifecycle == Spec => ImplementsLifecycle
<1> DEFINE st == [l \in Logs |-> log[l].status]
<1>1. Init => Lifecycle!Init
  BY DEF Init, Lifecycle!Init
<1>2. IInv /\ [Next]_vars => [Lifecycle!Next]_(Lifecycle!vars)
  <2> SUFFICES ASSUME IInv, [Next]_vars
               PROVE  Lifecycle!Next \/ UNCHANGED <<st, delivered>>
    BY DEF Lifecycle!vars
  <2> USE DEF IInv, TypeOK, tables, procs, history, budget
  <2>1. ASSUME NEW c \in Clients, NEW l \in Logs, SendNow(c, l)
        PROVE  Lifecycle!Accept(l)
    BY <2>1 DEF SendNow, Lifecycle!Accept, Row
  <2>2. ASSUME NEW c \in Clients, NEW l \in Logs, NEW t \in Time, SendLater(c, l, t)
        PROVE  Lifecycle!Accept(l)
    BY <2>2 DEF SendLater, Lifecycle!Accept, Row
  <2>3. ASSUME NEW c \in Clients, NEW l \in Logs,
               \/ Cancel(c, l) \/ RetryFailed(c, l)
               \/ \E t \in Time : Reschedule(c, l, t)
        PROVE  UNCHANGED <<st, delivered>>
    BY <2>3 DEF Cancel, RetryFailed, Reschedule
  <2>4. ASSUME NEW c \in Clients, NEW l \in Logs, l = client[c].log, ClientDispatch(c)
        PROVE  Lifecycle!HandOver(l) \/ UNCHANGED <<st, delivered>>
    <3>1. log[l].status # "ABSENT"
      BY <2>4 DEF ClientDispatch, RequestsSound, Request, Idle
    <3> QED
      BY <2>4, <3>1 DEF ClientDispatch, HandOver, Lifecycle!HandOver
  <2>5. ASSUME NEW c \in Clients, NEW l \in Logs, l = client[c].log, ClientSave(c)
        PROVE  Lifecycle!Report({l}) \/ Lifecycle!Revise(l)
    <3> DEFINE s == client[c].status
    <3>1. /\ log[l].status # "ABSENT"
          /\ s \in {"SENT", "FAILED", "CANCELLED", "SCHEDULED"}
          /\ s = "SENT" => l \in delivered
          /\ s \in {"CANCELLED", "SCHEDULED"} => log[l].status # "PENDING"
      BY <2>5 DEF ClientSave, RequestsSound, Request, Idle
    <3>2. /\ st' = [st EXCEPT ![l] = s]
          /\ delivered' = delivered
      BY <2>5, <3>1 DEF ClientSave
    <3>3. CASE s \in {"CANCELLED", "SCHEDULED"}
      BY <3>1, <3>2, <3>3 DEF Lifecycle!Revise
    <3>4. CASE s \in {"SENT", "FAILED"}
      <4> DEFINE result == [k \in {l} |-> s]
      <4>1. result \in [{l} -> {"SENT", "FAILED"}] /\ result[l] = s
        BY <3>4
      <4>2. st' = [k \in Logs |-> IF k \in {l} THEN result[k] ELSE st[k]]
        BY <3>1, <3>2
      <4>3. \A k \in {l} : st[k] # "ABSENT" /\ (result[k] = "SENT" => k \in delivered)
        BY <3>1, <4>1
      <4> HIDE DEF result
      <4> QED
        BY <3>2, <4>1, <4>2, <4>3 DEF Lifecycle!Report
    <3> QED
      BY <3>1, <3>3, <3>4
  <2>6. ASSUME NEW w \in Workers, WorkerDispatch(w)
        PROVE  \/ \E l \in Logs : Lifecycle!HandOver(l)
               \/ UNCHANGED <<st, delivered>>
    BY <2>6 DEF WorkerDispatch, HandOver, ClaimsHold, Due, Lifecycle!HandOver
  <2>7. ASSUME NEW w \in Workers, NEW S \in SUBSET Logs, S = batch[w], Commit(w)
        PROVE  Lifecycle!Report(S)
    <3> DEFINE result == [l \in S |-> outcome[w][l]]
    <3>1. \A l \in S : /\ outcome[w][l] \in {"SENT", "FAILED"}
                       /\ st[l] # "ABSENT"
                       /\ result[l] = "SENT" => l \in delivered
      BY <2>7 DEF Commit, Outcome, ClaimsHold, Due, OutcomesOwned
    <3>2. st' = [l \in Logs |-> IF l \in S THEN result[l] ELSE st[l]]
      BY <2>7, <3>1 DEF Commit
    <3>3. result \in [S -> {"SENT", "FAILED"}] /\ delivered' = delivered
      BY <2>7, <3>1 DEF Commit
    <3> QED
      BY <3>1, <3>2, <3>3 DEF Lifecycle!Report
  <2>8. ASSUME \/ \E c \in Clients : ClientCrash(c)
               \/ \E w \in Workers : Fetch(w) \/ Abort(w)
               \/ \E l \in Logs : SoftDelete(l)
               \/ Tick \/ UNCHANGED vars
        PROVE  UNCHANGED <<st, delivered>>
    BY <2>8 DEF ClientCrash, Fetch, Abort, SoftDelete, Tick, vars
  <2>9. \A l \in Logs : Lifecycle!Accept(l) \/ Lifecycle!HandOver(l) \/ Lifecycle!Revise(l)
                         => Lifecycle!Next
    BY DEF Lifecycle!Next
  <2>10. \A S \in SUBSET Logs : Lifecycle!Report(S) => Lifecycle!Next
    BY DEF Lifecycle!Next
  <2>11. ASSUME NEW c \in Clients, ClientStep(c)
         PROVE  Lifecycle!Next \/ UNCHANGED <<st, delivered>>
    <3>1. CASE ClientDispatch(c) \/ ClientSave(c)
      <4>1. PICK l \in Logs : l = client[c].log
        BY <3>1 DEF ClientDispatch, ClientSave, Request, Idle
      <4>2. {l} \in SUBSET Logs
        OBVIOUS
      <4> QED
        BY <2>4, <2>5, <2>9, <2>10, <3>1, <4>1, <4>2
    <3>2. CASE \E l \in Logs : SendNow(c, l)
      BY <2>1, <2>9, <3>2
    <3>3. CASE \E l \in Logs, t \in Time : SendLater(c, l, t)
      BY <2>2, <2>9, <3>3
    <3>4. CASE \E l \in Logs : \/ Cancel(c, l) \/ RetryFailed(c, l)
                               \/ \E t \in Time : Reschedule(c, l, t)
      BY <2>3, <3>4
    <3>5. CASE ClientCrash(c)
      BY <2>8, <3>5
    <3> QED
      BY <2>11, <3>1, <3>2, <3>3, <3>4, <3>5 DEF ClientStep
  <2>12. ASSUME NEW w \in Workers, WorkerStep(w)
         PROVE  Lifecycle!Next \/ UNCHANGED <<st, delivered>>
    <3>1. CASE WorkerDispatch(w)
      BY <2>6, <2>9, <3>1
    <3>2. CASE Commit(w)
      <4>1. PICK S \in SUBSET Logs : S = batch[w]
        OBVIOUS
      <4> QED
        BY <2>7, <2>10, <3>2, <4>1
    <3>3. CASE Fetch(w) \/ Abort(w)
      BY <2>8, <3>3
    <3> QED
      BY <2>12, <3>1, <3>2, <3>3 DEF WorkerStep
  <2> QED
    BY <2>8, <2>11, <2>12 DEF Next
<1> QED
  BY <1>1, <1>2, Invariance, PTL DEF Spec, ImplementsLifecycle, Lifecycle!Spec
=============================================================================
