---------------------------- MODULE Notifications ----------------------------
(***************************************************************************)
(* apps/notifications: rows of NotificationLog, the API requests that      *)
(* create, cancel, reschedule and retry them, and the background workers   *)
(* (process_scheduled_notifications) that dispatch the due ones.           *)
(*                                                                         *)
(* Requests run in autocommit: the SELECT of NotificationLog.objects.get   *)
(* and the UPDATE of save(update_fields=...) are two steps, and anything   *)
(* may happen between them.  A worker fetches its batch with               *)
(* select_for_update(skip_locked=True) and keeps the row locks until the   *)
(* one transaction around the whole batch commits or rolls back; its       *)
(* updates are invisible before that.  The locks are those of PostgreSQL,  *)
(* the database of docker-compose.yml.                                     *)
(***************************************************************************)
EXTENDS Naturals, FiniteSets

CONSTANTS
  Logs,         \* identities of NotificationLog rows
  Unrouted,     \* rows whose channel has no registered provider
  Workers,      \* processes running process_scheduled_notifications
  Clients,      \* threads serving API or admin requests
  NoLog,        \* the "log" of an idle client
  BatchSize,    \* --batch-size
  MaxTime,      \* bound: the clock stops here
  MaxRequests,  \* bound: requests served in a behaviour
  MaxCrashes    \* bound: processes killed in a behaviour

ASSUME ConstantsAssumption ==
  /\ NoLog \notin Logs
  /\ Unrouted \subseteq Logs
  /\ BatchSize \in Nat \ {0}
  /\ MaxTime \in Nat /\ MaxRequests \in Nat /\ MaxCrashes \in Nat

VARIABLES
  clock,      \* timezone.now()
  log,        \* the committed status and scheduled_for of each row
  deleted,    \* the rows whose is_deleted is set
  client,     \* what each request thread is about to do
  batch,      \* batch[w]: the rows worker w has locked
  outcome,    \* outcome[w][l]: w's uncommitted update of l's status
  delivered,  \* history: rows some provider has accepted
  attempts,   \* history: dispatches of each row by workers
  chances,    \* history: dispatches the workers owe each row
  orphaned,   \* history: rows whose request was killed before its save
  requests,   \* requests served so far
  crashes     \* processes killed so far

tables  == <<clock, log, deleted>>
procs   == <<client, batch, outcome>>
history == <<delivered, attempts, chances, orphaned>>
budget  == <<requests, crashes>>
vars    == <<clock, log, deleted, client, batch, outcome,
             delivered, attempts, chances, orphaned, requests, crashes>>

Time    == 0..MaxTime
Status  == {"ABSENT", "PENDING", "SCHEDULED", "SENT", "FAILED", "CANCELLED"}
Outcome == {"none", "SENT", "FAILED"}

\* due = 0 in a client's save means that update_fields leaves scheduled_for
\* alone: a new time is always later than now.
Row     == [status : Status, due : Time]
Request == [stage : {"dispatch", "save"}, log : Logs, status : Status, due : Time]
Idle    == [stage |-> "idle", log |-> NoLog, status |-> "ABSENT", due |-> 0]
NoOutcome == [l \in Logs |-> "none"]

TypeOK ==
  /\ clock \in Time
  /\ log \in [Logs -> Row]
  /\ deleted \in SUBSET Logs
  /\ client \in [Clients -> Request \cup {Idle}]
  /\ batch \in [Workers -> SUBSET Logs]
  /\ outcome \in [Workers -> [Logs -> Outcome]]
  /\ delivered \in SUBSET Logs
  /\ attempts \in [Logs -> Nat]
  /\ chances \in [Logs -> Nat]
  /\ orphaned \in SUBSET Logs
  /\ requests \in Nat
  /\ crashes \in Nat

Init ==
  /\ clock = 0
  /\ log = [l \in Logs |-> [status |-> "ABSENT", due |-> 0]]
  /\ deleted = {}
  /\ client = [c \in Clients |-> Idle]
  /\ batch = [w \in Workers |-> {}]
  /\ outcome = [w \in Workers |-> NoOutcome]
  /\ delivered = {} /\ orphaned = {}
  /\ attempts = [l \in Logs |-> 0]
  /\ chances = [l \in Logs |-> 0]
  /\ requests = 0 /\ crashes = 0

-----------------------------------------------------------------------------
Locked(l) == \E w \in Workers : l \in batch[w]

\* objects.get(): the row exists and is not soft-deleted.
Visible(l) == log[l].status # "ABSENT" /\ l \notin deleted

\* The filter of process_due_notifications.
Due(l) == log[l].status = "SCHEDULED" /\ log[l].due <= clock /\ l \notin deleted

\* A provider's answer: "SENT" and "FAILED" say what happened, "LOST" is a
\* message the provider took although the call raised (a read timeout).
\* Without a provider for the channel the row fails at once.
Replies(l) == IF l \in Unrouted THEN {"FAILED"} ELSE {"SENT", "FAILED", "LOST"}

\* Mutants of StatusAfter: the provider's answer is stored as it comes; any
\* call that returns counts as a delivery.
StatusAsReplied(reply) == reply
StatusAlwaysSent(reply) == "SENT"

StatusAfter(reply) == IF reply = "SENT" THEN "SENT" ELSE "FAILED"
HandOver(l, reply) ==
  delivered' = IF reply = "FAILED" THEN delivered ELSE delivered \cup {l}

\* An idle thread takes a request that leaves it at the given stage.
Serve(c, next) ==
  /\ client[c] = Idle
  /\ requests < MaxRequests
  /\ requests' = requests + 1
  /\ client' = [client EXCEPT ![c] = next]

-----------------------------------------------------------------------------
(* NotificationService.send, for a future time and for now. *)

SendLater(c, l, t) ==
  /\ log[l].status = "ABSENT"
  /\ t > clock
  /\ Serve(c, Idle)
  /\ log' = [log EXCEPT ![l] = [status |-> "SCHEDULED", due |-> t]]
  /\ chances' = [chances EXCEPT ![l] = @ + 1]
  /\ UNCHANGED <<clock, deleted, batch, outcome>>
  /\ UNCHANGED <<delivered, attempts, orphaned, crashes>>

SendNow(c, l) ==
  /\ log[l].status = "ABSENT"
  /\ Serve(c, [stage |-> "dispatch", log |-> l, status |-> "PENDING", due |-> 0])
  /\ log' = [log EXCEPT ![l].status = "PENDING"]
  /\ UNCHANGED <<clock, deleted, batch, outcome, history, crashes>>

(* The reads of cancel_scheduled, reschedule and retry_failed. *)

Cancel(c, l) ==
  /\ Visible(l)
  /\ log[l].status = "SCHEDULED"
  /\ Serve(c, [stage |-> "save", log |-> l, status |-> "CANCELLED", due |-> 0])
  /\ UNCHANGED <<tables, batch, outcome, history, crashes>>

Reschedule(c, l, t) ==
  /\ t > clock
  /\ Visible(l)
  /\ log[l].status \in {"SCHEDULED", "CANCELLED"}
  /\ Serve(c, [stage |-> "save", log |-> l, status |-> "SCHEDULED", due |-> t])
  /\ UNCHANGED <<tables, batch, outcome, history, crashes>>

\* Mutant of RetryFailed: the row is put back to PENDING at once.
RetryMarksPending(c, l) ==
  /\ Visible(l)
  /\ ~Locked(l)
  /\ Serve(c, [stage |-> "dispatch", log |-> l, status |-> "PENDING", due |-> 0])
  /\ log' = [log EXCEPT ![l].status = "PENDING"]
  /\ UNCHANGED <<clock, deleted, batch, outcome, history, crashes>>

RetryFailed(c, l) ==
  /\ Visible(l)
  /\ Serve(c, [stage |-> "dispatch", log |-> l, status |-> "PENDING", due |-> 0])
  /\ UNCHANGED <<tables, batch, outcome, history, crashes>>

\* _dispatch_log in a request: the provider call, before the save.
ClientDispatch(c) ==
  /\ client[c].stage = "dispatch"
  /\ \E reply \in Replies(client[c].log) :
       /\ HandOver(client[c].log, reply)
       /\ client' = [client EXCEPT ![c].stage = "save",
                                   ![c].status = StatusAfter(reply)]
  /\ UNCHANGED <<tables, batch, outcome, attempts, chances, orphaned, budget>>

\* Mutant of ClientSave: a failed dispatch returns without saving.
SaveUnlessFailed(c) ==
  LET l == client[c].log IN
  /\ client[c].stage = "save"
  /\ ~Locked(l)
  /\ log' = IF client[c].status = "FAILED" THEN log
            ELSE [log EXCEPT ![l].status = client[c].status]
  /\ client' = [client EXCEPT ![c] = Idle]
  /\ UNCHANGED <<clock, deleted, batch, outcome, history, budget>>

\* log.save(update_fields=...) of any request: it waits for a worker's row
\* lock and then overwrites whatever it finds.
ClientSave(c) ==
  LET l == client[c].log
      s == client[c].status
      due == IF client[c].due = 0 THEN log[l].due ELSE client[c].due
  IN
  /\ client[c].stage = "save"
  /\ ~Locked(l)
  /\ log' = [log EXCEPT ![l] = [status |-> s, due |-> due]]
  /\ chances' = IF s = "SCHEDULED" THEN [chances EXCEPT ![l] = @ + 1] ELSE chances
  /\ client' = [client EXCEPT ![c] = Idle]
  /\ UNCHANGED <<clock, deleted, batch, outcome>>
  /\ UNCHANGED <<delivered, attempts, orphaned, budget>>

\* The server process dies with the request half done.
ClientCrash(c) ==
  /\ client[c] # Idle
  /\ crashes < MaxCrashes
  /\ crashes' = crashes + 1
  /\ orphaned' = orphaned \cup {client[c].log}
  /\ client' = [client EXCEPT ![c] = Idle]
  /\ UNCHANGED <<tables, batch, outcome, delivered, attempts, chances, requests>>

\* Soft deletion from the admin: it touches no other column.
SoftDelete(l) ==
  /\ Visible(l)
  /\ ~Locked(l)
  /\ requests < MaxRequests
  /\ requests' = requests + 1
  /\ deleted' = deleted \cup {l}
  /\ UNCHANGED <<clock, log, procs, history, crashes>>

-----------------------------------------------------------------------------
(* process_due_notifications *)

\* Mutants of EarliestDue: the query has no skip_locked, or asks for the rows
\* whose time is exactly now.
DueLockedOrNot(S) ==
  LET free == {l \in Logs : Due(l)}
  IN S # {} /\ S \subseteq free /\ Cardinality(S) <= BatchSize
DueExactlyNow(S) ==
  LET free == {l \in Logs : Due(l) /\ ~Locked(l) /\ log[l].due = clock}
  IN S # {} /\ S \subseteq free /\ Cardinality(S) <= BatchSize

\* The due rows nobody has locked, the earliest first, at most BatchSize.
EarliestDue(S) ==
  LET free == {l \in Logs : Due(l) /\ ~Locked(l)}
  IN /\ S \subseteq free
     /\ S # {}
     /\ Cardinality(S) <= BatchSize
     /\ Cardinality(S) < BatchSize => S = free
     /\ \A l \in S, m \in free \ S : log[l].due <= log[m].due

Fetch(w) ==
  /\ batch[w] = {}
  /\ \E S \in SUBSET Logs :
       /\ EarliestDue(S)
       /\ batch' = [batch EXCEPT ![w] = S]
  /\ UNCHANGED <<tables, client, outcome, history, budget>>

\* _dispatch_log for the next row of the batch, inside the transaction.
WorkerDispatch(w) ==
  LET todo == {l \in batch[w] : outcome[w][l] = "none"}
  IN \E l \in todo, reply \in {"SENT", "FAILED", "LOST"} :
       /\ \A m \in todo : log[l].due <= log[m].due
       /\ reply \in Replies(l)
       /\ HandOver(l, reply)
       /\ outcome' = [outcome EXCEPT ![w][l] = StatusAfter(reply)]
       /\ attempts' = [attempts EXCEPT ![l] = @ + 1]
       /\ UNCHANGED <<tables, client, batch, chances, orphaned, budget>>

\* Mutant of Commit: only deliveries are recorded.
CommitSentOnly(w) ==
  /\ batch[w] # {}
  /\ \A l \in batch[w] : outcome[w][l] # "none"
  /\ log' = [l \in Logs |->
               IF outcome[w][l] = "SENT" THEN [log[l] EXCEPT !.status = "SENT"]
                                         ELSE log[l]]
  /\ batch' = [batch EXCEPT ![w] = {}]
  /\ outcome' = [outcome EXCEPT ![w] = NoOutcome]
  /\ UNCHANGED <<clock, deleted, client, history, budget>>

\* The transaction ends: every update becomes visible, every lock is freed.
Commit(w) ==
  /\ batch[w] # {}
  /\ \A l \in batch[w] : outcome[w][l] # "none"
  /\ log' = [l \in Logs |->
               IF l \in batch[w] THEN [status |-> outcome[w][l], due |-> log[l].due]
                                 ELSE log[l]]
  /\ batch' = [batch EXCEPT ![w] = {}]
  /\ outcome' = [outcome EXCEPT ![w] = NoOutcome]
  /\ UNCHANGED <<clock, deleted, client, history, budget>>

\* The worker is killed or a statement fails: the whole batch rolls back and
\* the rows already dispatched will be dispatched again.
Abort(w) ==
  /\ batch[w] # {}
  /\ crashes < MaxCrashes
  /\ crashes' = crashes + 1
  /\ chances' = [l \in Logs |-> IF outcome[w][l] = "none" THEN chances[l]
                                                           ELSE chances[l] + 1]
  /\ batch' = [batch EXCEPT ![w] = {}]
  /\ outcome' = [outcome EXCEPT ![w] = NoOutcome]
  /\ UNCHANGED <<tables, client, delivered, attempts, orphaned, requests>>

Tick ==
  /\ clock < MaxTime
  /\ clock' = clock + 1
  /\ UNCHANGED <<log, deleted, procs, history, budget>>

-----------------------------------------------------------------------------
ClientStep(c) ==
  \/ \E l \in Logs : SendNow(c, l) \/ Cancel(c, l) \/ RetryFailed(c, l)
  \/ \E l \in Logs, t \in Time : SendLater(c, l, t) \/ Reschedule(c, l, t)
  \/ ClientDispatch(c) \/ ClientSave(c) \/ ClientCrash(c)

WorkerStep(w) == Fetch(w) \/ WorkerDispatch(w) \/ Commit(w) \/ Abort(w)

Next ==
  \/ \E c \in Clients : ClientStep(c)
  \/ \E w \in Workers : WorkerStep(w)
  \/ \E l \in Logs : SoftDelete(l)
  \/ Tick

Spec == Init /\ [][Next]_vars

\* The daemon loop runs for ever, and where it was killed the command is
\* started again (by hand, or by cron, the other way of running it); nobody
\* is obliged to send a request, and a crash is never owed.
Fairness == \A w \in Workers : WF_vars(Fetch(w) \/ WorkerDispatch(w) \/ Commit(w))

FairSpec == Spec /\ Fairness

-----------------------------------------------------------------------------
(* Properties *)

\* Concurrent workers never hold the same row, and while a worker holds one
\* no cancellation, new time or deletion slips under its uncommitted batch.
ClaimsHold ==
  /\ \A v, w \in Workers : v # w => batch[v] \cap batch[w] = {}
  /\ \A w \in Workers : \A l \in batch[w] : Due(l)

\* However many workers run, a row is dispatched by them at most once for
\* each time it was scheduled, plus once for each batch rolled back after
\* its dispatch.
DispatchedOncePerChance == \A l \in Logs : attempts[l] <= chances[l]

\* A row reported SENT was accepted by a provider, whatever raced with it.
SentWasDelivered == \A l \in Logs : log[l].status = "SENT" => l \in delivered

\* A row is left PENDING only while its request is at work on it, or after
\* that request was killed: no worker ever picks PENDING rows up.
PendingHasOwner ==
  \A l \in Logs : log[l].status = "PENDING" =>
     l \in orphaned \/ \E c \in Clients : client[c].log = l

\* The service implements the lifecycle its readers rely on.
Lifecycle == INSTANCE NotificationLifecycle
               WITH status <- [l \in Logs |-> log[l].status]
ImplementsLifecycle == Lifecycle!Spec

\* A due row is eventually dispatched, unless it is revised or deleted first.
DueIsHandled == \A l \in Logs : Due(l) ~> ~Due(l)

\* "Only SCHEDULED can be cancelled" (services.py:184): no step turns a row
\* of another status into a CANCELLED one.
OnlyScheduledIsCancelled ==
  [][\A l \in Logs : log'[l].status = "CANCELLED" /\ log[l].status # "CANCELLED"
                       => log[l].status = "SCHEDULED"]_vars
=============================================================================
