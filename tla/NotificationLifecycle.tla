------------------------ MODULE NotificationLifecycle ------------------------
(***************************************************************************)
(* What the notification log promises to whoever reads it, without saying  *)
(* who writes it: which status a row may move to, and that a row reported  *)
(* SENT has really been handed to its channel provider.  The service, its  *)
(* background workers and the API requests are modelled by module          *)
(* Notifications, which is shown to implement this specification.          *)
(***************************************************************************)
CONSTANT Logs        \* rows of NotificationLog

VARIABLES status,    \* status[l]: the committed DeliveryStatus of row l
          delivered  \* rows a provider has accepted at least once

vars == <<status, delivered>>

DeliveryStatus == {"PENDING", "SCHEDULED", "SENT", "FAILED", "CANCELLED"}

Init == /\ status = [l \in Logs |-> "ABSENT"]
        /\ delivered = {}

\* A request stores a new row, either for later or for immediate dispatch.
Accept(l) ==
  /\ status[l] = "ABSENT"
  /\ \E s \in {"PENDING", "SCHEDULED"} : status' = [status EXCEPT ![l] = s]
  /\ UNCHANGED delivered

\* A provider accepts the message of an existing row.
HandOver(l) ==
  /\ status[l] # "ABSENT"
  /\ delivered' = delivered \cup {l}
  /\ UNCHANGED status

\* The outcomes of a set of dispatches become visible together.
Report(S) ==
  /\ \A l \in S : status[l] # "ABSENT"
  /\ \E result \in [S -> {"SENT", "FAILED"}] :
       /\ \A l \in S : result[l] = "SENT" => l \in delivered
       /\ status' = [l \in Logs |-> IF l \in S THEN result[l] ELSE status[l]]
  /\ UNCHANGED delivered

\* A row that waited for its time, now or earlier, is withdrawn or given a
\* new time.  PENDING rows are nobody's but their sender's.
Revise(l) ==
  /\ status[l] \notin {"ABSENT", "PENDING"}
  /\ \E s \in {"CANCELLED", "SCHEDULED"} : status' = [status EXCEPT ![l] = s]
  /\ UNCHANGED delivered

Next == \/ \E l \in Logs : Accept(l) \/ HandOver(l) \/ Revise(l)
        \/ \E S \in SUBSET Logs : Report(S)

Spec == Init /\ [][Next]_vars
=============================================================================
