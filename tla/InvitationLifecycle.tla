------------------------- MODULE InvitationLifecycle -------------------------
(***************************************************************************)
(* What the invitations of an organization promise, whoever sends, answers *)
(* and revokes them at the same time: each is sent once and to one         *)
(* address, where it replaces those that are still open; only one that was *)
(* sent and has not lapsed lets anybody in, and is accepted by that; and   *)
(* one that is closed is never open again.  The requests of the API are    *)
(* modelled by module Organizations, which is shown to implement this      *)
(* specification.                                                          *)
(***************************************************************************)
CONSTANTS Users, Invitations, NoOne

VARIABLES status,    \* the committed InvitationStatus of each invitation
          addressee, \* whom it was sent to
          lapsed,    \* invitations past their expires_at
          letIn      \* the users each invitation has let in

vars == <<status, addressee, lapsed, letIn>>

Init ==
  /\ status = [i \in Invitations |-> "ABSENT"]
  /\ addressee = [i \in Invitations |-> NoOne]
  /\ lapsed = {}
  /\ letIn = [i \in Invitations |-> {}]

Sent(i) == status[i] # "ABSENT"

Send(i, u) ==
  /\ ~Sent(i)
  /\ addressee' = [addressee EXCEPT ![i] = u]
  /\ status' = [j \in Invitations |->
                  IF j = i THEN "PENDING"
                  ELSE IF addressee[j] = u /\ status[j] = "PENDING" THEN "REVOKED"
                  ELSE status[j]]
  /\ UNCHANGED <<lapsed, letIn>>

\* Who holds the token is let in, be it the addressee or not.
LetIn(i, u) ==
  /\ Sent(i) /\ i \notin lapsed
  /\ status' = [status EXCEPT ![i] = "ACCEPTED"]
  /\ letIn' = [letIn EXCEPT ![i] = @ \cup {u}]
  /\ UNCHANGED <<addressee, lapsed>>

Decline(i) ==
  /\ Sent(i) /\ i \notin lapsed
  /\ status' = [status EXCEPT ![i] = "DECLINED"]
  /\ UNCHANGED <<addressee, lapsed, letIn>>

Revoke(i) ==
  /\ Sent(i)
  /\ status' = [status EXCEPT ![i] = "REVOKED"]
  /\ UNCHANGED <<addressee, lapsed, letIn>>

Lapse(i) ==
  /\ Sent(i)
  /\ lapsed' = lapsed \cup {i}
  /\ UNCHANGED <<status, addressee, letIn>>

Next == \E i \in Invitations :
          \/ \E u \in Users : Send(i, u) \/ LetIn(i, u)
          \/ Decline(i) \/ Revoke(i) \/ Lapse(i)

Spec == Init /\ [][Next]_vars
=============================================================================
