------------------------------- MODULE Webhooks -------------------------------
(***************************************************************************)
(* apps/webhooks: one subscribed endpoint, the WebhookDelivery rows that   *)
(* record what was posted to it, and the requests that dispatch events,    *)
(* ping, retry, rotate the secret and edit the endpoint.                   *)
(*                                                                         *)
(* Every request works on copies: it loads the endpoint (and, for a retry, *)
(* the delivery), posts, and saves all columns of its copy, whatever has   *)
(* become of the rows.  Requests run in autocommit and lock nothing, so    *)
(* load, post and each save are separate steps.                            *)
(*                                                                         *)
(* Payload, headers, latency and the signature itself are left out: a post *)
(* is told apart by the secret it is signed with and by its answer.        *)
(***************************************************************************)
EXTENDS Naturals, FiniteSets

CONSTANTS
  Deliveries,   \* identities of WebhookDelivery rows
  Threads,      \* threads serving API or admin requests
  NoDelivery,   \* the "delivery" of a thread that has not stored one
  MaxRetries,   \* WebhookEndpoint.max_retries
  MaxRotations, \* bound: secrets generated in a behaviour
  MaxRequests,  \* bound: requests served in a behaviour
  MaxCrashes    \* bound: requests killed in a behaviour

ASSUME ConstantsAssumption ==
  /\ NoDelivery \notin Deliveries
  /\ MaxRetries \in Nat /\ MaxRotations \in Nat
  /\ MaxRequests \in Nat /\ MaxCrashes \in Nat

VARIABLES
  endpoint,   \* the WebhookEndpoint row
  delivery,   \* the WebhookDelivery rows
  proc,       \* what each thread is about to do, with its copies
  accepted,   \* history: deliveries the receiver has accepted
  tries,      \* history: calls of deliver_webhook for each delivery
  rotations,  \* history: secrets generated so far, the latest one
  orphaned,   \* history: deliveries whose request was killed
  overlapped, \* history: two requests have been in progress together
  requests,   \* requests served so far
  crashes     \* requests killed so far

rows    == <<endpoint, delivery>>
history == <<accepted, tries, rotations, orphaned>>
budget  == <<overlapped, requests, crashes>>
vars    == <<endpoint, delivery, proc, accepted, tries, rotations, orphaned,
             overlapped, requests, crashes>>

Secret   == 0..MaxRotations
Endpoint == [active : BOOLEAN, deleted : BOOLEAN, secret : Secret]
Status   == {"PENDING", "SUCCESS", "FAILED"}

\* retry says whether next_retry_at is set.
Row      == [status : Status, attempt : Nat, retry : BOOLEAN]
Absent   == [status |-> "ABSENT", attempt |-> 0, retry |-> FALSE]

\* A request at work: the endpoint it has loaded, the delivery it is about
\* (none before it is stored) and its copy of that row.
Request  == [stage : {"create", "retry", "post", "save", "edit"},
             copy : Endpoint, of : Deliveries \cup {NoDelivery}, row : Row \cup {Absent}]
Idle     == [stage |-> "idle",
             copy |-> [active |-> TRUE, deleted |-> FALSE, secret |-> 0],
             of |-> NoDelivery, row |-> Absent]

TypeOK ==
  /\ endpoint \in Endpoint
  /\ delivery \in [Deliveries -> Row \cup {Absent}]
  /\ proc \in [Threads -> Request \cup {Idle}]
  /\ \A t \in Threads : proc[t].stage \in {"retry", "post", "save"} =>
       proc[t].of \in Deliveries /\ proc[t].row \in Row
  /\ accepted \in SUBSET Deliveries
  /\ tries \in [Deliveries -> Nat]
  /\ rotations \in Secret
  /\ orphaned \in SUBSET Deliveries
  /\ overlapped \in BOOLEAN
  /\ requests \in Nat
  /\ crashes \in Nat

Init ==
  /\ endpoint = [active |-> TRUE, deleted |-> FALSE, secret |-> 0]
  /\ delivery = [d \in Deliveries |-> Absent]
  /\ proc = [t \in Threads |-> Idle]
  /\ accepted = {} /\ orphaned = {}
  /\ tries = [d \in Deliveries |-> 0]
  /\ rotations = 0
  /\ overlapped = FALSE
  /\ requests = 0 /\ crashes = 0

-----------------------------------------------------------------------------
Exists(d) == delivery[d] # Absent

\* A request is taken; it may find others in progress.
Count ==
  /\ requests < MaxRequests
  /\ requests' = requests + 1
  /\ overlapped' = (overlapped \/ \E t \in Threads : proc[t] # Idle)
  /\ UNCHANGED crashes

Start(t, next) ==
  /\ proc[t] = Idle
  /\ proc' = [proc EXCEPT ![t] = next]
  /\ Count

-----------------------------------------------------------------------------
(* dispatch_event, ping_endpoint *)

\* The endpoint is loaded and its subscription matches.  The endpoints of
\* one event are loaded together and served one after the other.
DispatchEvent(t) ==
  /\ endpoint.active /\ ~endpoint.deleted
  /\ Start(t, [Idle EXCEPT !.stage = "create", !.copy = endpoint])
  /\ UNCHANGED <<rows, history>>

\* A ping does not ask whether the endpoint is active.
PingEndpoint(t) ==
  /\ ~endpoint.deleted
  /\ Start(t, [Idle EXCEPT !.stage = "create", !.copy = endpoint])
  /\ UNCHANGED <<rows, history>>

CreateDelivery(t, d) ==
  LET new == [status |-> "PENDING", attempt |-> 1, retry |-> FALSE] IN
  /\ proc[t].stage = "create"
  /\ ~Exists(d)
  /\ delivery' = [delivery EXCEPT ![d] = new]
  /\ proc' = [proc EXCEPT ![t] = [stage |-> "post", copy |-> proc[t].copy,
                                  of |-> d, row |-> new]]
  /\ UNCHANGED <<endpoint, history, budget>>

(* retry_delivery *)

\* The delivery is loaded with its endpoint: neither its status nor its
\* attempt nor the state of the endpoint is looked at.
RetryDelivery(t, d) ==
  /\ Exists(d)
  /\ Start(t, [stage |-> "retry", copy |-> endpoint, of |-> d,
               row |-> [delivery[d] EXCEPT !.attempt = @ + 1, !.status = "PENDING"]])
  /\ UNCHANGED <<rows, history>>

\* Mutant of RetrySave: the attempt is not among the update_fields.
RetrySaveStatusOnly(t) ==
  LET d == proc[t].of IN
  /\ proc[t].stage = "retry"
  /\ delivery' = [delivery EXCEPT ![d].status = "PENDING"]
  /\ proc' = [proc EXCEPT ![t].stage = "post", ![t].row.attempt = delivery[d].attempt]
  /\ UNCHANGED <<endpoint, history, budget>>

\* save(update_fields=["attempt", "status", ...]).  A retry from the admin
\* loads the endpoint only now, one from the API has it already.
RetrySave(t) ==
  LET d == proc[t].of IN
  /\ proc[t].stage = "retry"
  /\ delivery' = [delivery EXCEPT ![d].attempt = proc[t].row.attempt,
                                  ![d].status = "PENDING"]
  /\ \E loaded \in {proc[t].copy, endpoint} :
       proc' = [proc EXCEPT ![t].stage = "post", ![t].copy = loaded]
  /\ UNCHANGED <<endpoint, history, budget>>

-----------------------------------------------------------------------------
(* deliver_webhook *)

\* "OK" is a 2xx answer; "ERROR" any other answer, no connection or none in
\* time; "BROKEN" an unexpected exception or a URL of another scheme.
Answers == {"OK", "ERROR", "BROKEN"}

\* Mutant of RowAfter: the next attempt is scheduled whatever max_retries.
RowAlwaysRetried(row, answer) ==
  IF answer = "OK"
  THEN [row EXCEPT !.status = "SUCCESS", !.retry = FALSE]
  ELSE [row EXCEPT !.status = "FAILED", !.retry = answer # "BROKEN"]

\* Mutant of RowAfter: whatever the server answered counts as a success.
RowSucceeded(row, answer) ==
  IF answer = "BROKEN" THEN [row EXCEPT !.status = "FAILED", !.retry = FALSE]
                       ELSE [row EXCEPT !.status = "SUCCESS", !.retry = FALSE]

\* Mutant of RowAfter: a status WebhookStatus does not have.
RowTimedOut(row, answer) ==
  [row EXCEPT !.status = IF answer = "ERROR" THEN "TIMEOUT" ELSE "SUCCESS"]

\* mark_success and mark_failure
RowAfter(row, answer) ==
  IF answer = "OK"
  THEN [row EXCEPT !.status = "SUCCESS", !.retry = FALSE]
  ELSE [row EXCEPT !.status = "FAILED",
                   !.retry = answer # "BROKEN" /\ row.attempt < MaxRetries]

\* The receiver may have accepted what never got a proper answer.
Post(t) ==
  LET d == proc[t].of IN
  /\ proc[t].stage = "post"
  /\ \E answer \in Answers, took \in BOOLEAN :
       /\ answer = "OK" => took
       /\ proc' = [proc EXCEPT ![t].stage = "save",
                               ![t].row = RowAfter(proc[t].row, answer)]
       /\ accepted' = IF took THEN accepted \cup {d} ELSE accepted
  /\ tries' = [tries EXCEPT ![d] = @ + 1]
  /\ UNCHANGED <<rows, rotations, orphaned, budget>>

\* Mutant of SaveOutcome: only successes are stored.
SaveSuccessOnly(t) ==
  /\ proc[t].stage = "save"
  /\ delivery' = IF proc[t].row.status = "SUCCESS"
                 THEN [delivery EXCEPT ![proc[t].of] = proc[t].row] ELSE delivery
  /\ proc' = [proc EXCEPT ![t] = Idle]
  /\ UNCHANGED <<endpoint, history, budget>>

\* self.save() writes every column of the copy, the attempt among them.
SaveOutcome(t) ==
  /\ proc[t].stage = "save"
  /\ delivery' = [delivery EXCEPT ![proc[t].of] = proc[t].row]
  /\ proc' = [proc EXCEPT ![t] = Idle]
  /\ UNCHANGED <<endpoint, history, budget>>

\* The server process dies in the middle of a request.
Crash(t) ==
  /\ proc[t] # Idle
  /\ crashes < MaxCrashes
  /\ crashes' = crashes + 1
  /\ proc' = [proc EXCEPT ![t] = Idle]
  /\ orphaned' = IF proc[t].of = NoDelivery THEN orphaned
                                             ELSE orphaned \cup {proc[t].of}
  /\ UNCHANGED <<rows, accepted, tries, rotations, overlapped, requests>>

-----------------------------------------------------------------------------
(* The endpoint *)

\* rotate_secret saves the secret column only, so that its own reading of
\* the row does not matter.
RotateSecret ==
  /\ ~endpoint.deleted
  /\ rotations < MaxRotations
  /\ Count
  /\ rotations' = rotations + 1
  /\ endpoint' = [endpoint EXCEPT !.secret = rotations']
  /\ UNCHANGED <<delivery, proc, accepted, tries, orphaned>>

\* PATCH and the admin form load the row ...
EditEndpoint(t) ==
  /\ ~endpoint.deleted
  /\ Start(t, [Idle EXCEPT !.stage = "edit", !.copy = endpoint])
  /\ UNCHANGED <<rows, history>>

\* Mutant of SaveEdit: save() replaces the secret of an edited endpoint.
SaveEditNewSecret(t) ==
  /\ proc[t].stage = "edit"
  /\ \E a \in BOOLEAN, s \in Secret :
       endpoint' = [proc[t].copy EXCEPT !.active = a, !.secret = s]
  /\ proc' = [proc EXCEPT ![t] = Idle]
  /\ UNCHANGED <<delivery, history, budget>>

\* ... and save every column of it, the secret and is_deleted among them.
SaveEdit(t) ==
  /\ proc[t].stage = "edit"
  /\ \E a \in BOOLEAN : endpoint' = [proc[t].copy EXCEPT !.active = a]
  /\ proc' = [proc EXCEPT ![t] = Idle]
  /\ UNCHANGED <<delivery, history, budget>>

\* Deletion, restoration and the admin's (de)activation: one column each.
SetDeleted(b) ==
  /\ endpoint.deleted # b
  /\ Count
  /\ endpoint' = [endpoint EXCEPT !.deleted = b]
  /\ UNCHANGED <<delivery, proc, history>>

SetActive(b) ==
  /\ Count
  /\ endpoint' = [endpoint EXCEPT !.active = b]
  /\ UNCHANGED <<delivery, proc, history>>

-----------------------------------------------------------------------------
Next ==
  \/ \E t \in Threads :
       \/ DispatchEvent(t) \/ PingEndpoint(t) \/ EditEndpoint(t)
       \/ \E d \in Deliveries : CreateDelivery(t, d) \/ RetryDelivery(t, d)
       \/ RetrySave(t) \/ Post(t) \/ SaveOutcome(t) \/ SaveEdit(t) \/ Crash(t)
  \/ RotateSecret
  \/ \E b \in BOOLEAN : SetDeleted(b) \/ SetActive(b)

Spec == Init /\ [][Next]_vars

-----------------------------------------------------------------------------
(* Properties *)

\* Whatever races, a delivery reported SUCCESS was accepted by the receiver.
SuccessWasAccepted ==
  \A d \in Deliveries : delivery[d].status = "SUCCESS" => d \in accepted

\* Whatever races, a delivery is PENDING only while a request is at work on
\* it, or after such a request was killed: nothing else ever picks it up.
PendingHasSender ==
  \A d \in Deliveries : delivery[d].status = "PENDING" =>
    d \in orphaned \/ \E t \in Threads : proc[t].of = d

\* Whatever races, a next attempt is scheduled only for a failed delivery
\* that has attempts left; retry_delivery, which saves two columns only,
\* never leaves a schedule that contradicts the outcome.
ScheduleIsSound ==
  \A d \in Deliveries : delivery[d].retry /\ delivery[d].status # "PENDING" =>
    delivery[d].status = "FAILED" /\ delivery[d].attempt < MaxRetries

\* "Current delivery attempt count" (models.py:175): as long as requests do
\* not overlap, the row of a delivery nobody is working on counts the calls
\* of deliver_webhook made for it; a killed request may have counted one
\* that was not made.
AttemptsCounted ==
  ~overlapped => \A d \in Deliveries :
    (\A t \in Threads : proc[t].of # d) =>
      /\ tries[d] <= delivery[d].attempt
      /\ d \notin orphaned => delivery[d].attempt = tries[d]

\* As long as requests do not overlap, the endpoint keeps the secret last
\* handed out, and what is about to be posted is signed with it.
SecretIsLatest ==
  ~overlapped =>
    /\ endpoint.secret = rotations
    /\ \A t \in Threads : proc[t].stage \in {"create", "retry", "post"} =>
         proc[t].copy.secret = rotations
=============================================================================
