------------------------------- MODULE TwoFactor -------------------------------
(***************************************************************************)
(* apps/two_factor: the TOTP device and the recovery codes of one account, *)
(* under the requests of two_factor/views.py and the login of iam/views.py.*)
(*                                                                         *)
(* Each service method is one transaction under READ COMMITTED.  It reads  *)
(* the device and checks the code without locking anything, then writes by *)
(* primary key whatever it found; its writes commit together.  A request   *)
(* with a code is therefore two steps, and any other may come between them.*)
(* Transactions that write meet at the device row, whose UPDATE they all   *)
(* make, so writes and commit are one step.                                *)
(*                                                                         *)
(* A code stands for what it proves: a TOTP code is its secret and time    *)
(* step, a recovery code its batch and number.  Two steps whose six digits *)
(* happen to be equal are taken to be different codes.                     *)
(***************************************************************************)
EXTENDS Integers, FiniteSets

CONSTANTS
  Threads,       \* threads serving requests
  CodesPerBatch, \* recovery codes made at a time (8)
  ChallengeTTL,  \* CHALLENGE_TTL_SECONDS, in time steps
  MaxTime,       \* bound: the clock stops here
  MaxSetups,     \* bound: secrets generated in a behaviour
  MaxBatches,    \* bound: batches of recovery codes generated
  MaxRequests,   \* bound: codes submitted in a behaviour
  NoCode         \* the "code" of an idle thread

ASSUME ConstantsAssumption ==
  /\ IsFiniteSet(Threads)
  /\ CodesPerBatch \in Nat \ {0}
  /\ ChallengeTTL \in Nat
  /\ MaxTime \in Nat /\ MaxSetups \in Nat
  /\ MaxBatches \in Nat /\ MaxRequests \in Nat

VARIABLES
  clock,      \* time.time() // INTERVAL
  device,     \* the account's TOTPDevice row
  batch,      \* the batch of the codes that are not soft-deleted
  used,       \* recovery codes with is_used
  challenge,  \* when the latest challenge token was issued
  req,        \* what each thread has checked and is about to write
  accepted,   \* history: how often each code was answered with success
  overlapped, \* history: two requests have been in flight together
  requests    \* codes submitted so far

vars == <<clock, device, batch, used, challenge, req,
          accepted, overlapped, requests>>

None    == -1     \* last_used_step is NULL, no challenge was issued
Steps   == 0..(MaxTime + 1)
Secrets == 0..MaxSetups
Batches == 0..MaxBatches

TotpCodes     == [kind : {"totp"}, of : Secrets, nr : Steps]
RecoveryCodes == [kind : {"recovery"}, of : Batches, nr : 1..CodesPerBatch]
Codes         == TotpCodes \cup RecoveryCodes

Device == [state : {"none", "alive", "deleted"}, secret : Secrets,
           confirmed : BOOLEAN, last : Steps \cup {None}]
Ops == {"confirm", "challenge", "disable", "regenerate"}
Idle == [op |-> "idle", code |-> NoCode]
Request == [op : Ops, code : Codes]

TypeOK ==
  /\ clock \in 1..(MaxTime + 1)
  /\ device \in Device
  /\ batch \in Batches
  /\ used \in SUBSET RecoveryCodes
  /\ challenge \in Int
  /\ req \in [Threads -> Request \cup {Idle}]
  /\ accepted \in [Codes -> Nat]
  /\ overlapped \in BOOLEAN
  /\ requests \in Nat

Init ==
  /\ clock = 1
  /\ device = [state |-> "none", secret |-> 0, confirmed |-> FALSE, last |-> None]
  /\ batch = 0
  /\ used = {}
  /\ challenge = None
  /\ req = [t \in Threads |-> Idle]
  /\ accepted = [c \in Codes |-> 0]
  /\ overlapped = FALSE
  /\ requests = 0

-----------------------------------------------------------------------------
\* is_2fa_enabled
Enabled == device.state = "alive" /\ device.confirmed

\* TOTP.verify_code: one step of drift either way, and no step twice.
TotpMatches(c) ==
  /\ c \in TotpCodes
  /\ c.of = device.secret
  /\ c.nr \in (clock - 1)..(clock + 1)
  /\ c.nr > device.last

\* Mutant of RecoveryMatches: codes of earlier batches are found too.
RecoveryOfAnyBatch(c) == c \in RecoveryCodes /\ c.of <= batch /\ c \notin used

RecoveryMatches(c) == c \in RecoveryCodes /\ c.of = batch /\ c \notin used

Begin(t, op, c) ==
  /\ req[t] = Idle
  /\ requests < MaxRequests
  /\ requests' = requests + 1
  /\ req' = [req EXCEPT ![t] = [op |-> op, code |-> c]]
  /\ overlapped' = (overlapped \/ \E s \in Threads \ {t} : req[s] # Idle)
  /\ UNCHANGED <<clock, device, batch, used, challenge, accepted>>

-----------------------------------------------------------------------------
\* Mutant of SetupDevice: is_confirmed is not reset.
SetupStaysConfirmed ==
  /\ device.secret < MaxSetups /\ batch < MaxBatches
  /\ device' = [device EXCEPT !.state = "alive", !.secret = @ + 1, !.last = None]
  /\ batch' = batch + 1
  /\ overlapped' = (overlapped \/ \E s \in Threads : req[s] # Idle)
  /\ UNCHANGED <<clock, used, challenge, req, accepted, requests>>

\* setup_device reads nothing that it keeps: a new secret, unconfirmed, and a
\* new batch of codes replace whatever there was.
SetupDevice ==
  /\ device.secret < MaxSetups /\ batch < MaxBatches
  /\ device' = [state |-> "alive", secret |-> device.secret + 1,
                confirmed |-> FALSE, last |-> None]
  /\ batch' = batch + 1
  /\ overlapped' = (overlapped \/ \E s \in Threads : req[s] # Idle)
  /\ UNCHANGED <<clock, used, challenge, req, accepted, requests>>

\* A login with the right password, when a second factor is asked for.
Login ==
  /\ Enabled
  /\ challenge' = clock
  /\ UNCHANGED <<clock, device, batch, used, req, accepted, overlapped, requests>>

(* The reads and checks of the methods that take a code. *)

ConfirmDevice(t, c) ==
  /\ device.state = "alive" /\ ~device.confirmed
  /\ TotpMatches(c)
  /\ Begin(t, "confirm", c)

VerifyCode(t, op, c) ==
  /\ Enabled
  /\ op = "challenge" => challenge # None /\ clock - challenge <= ChallengeTTL
  /\ TotpMatches(c) \/ RecoveryMatches(c)
  /\ Begin(t, op, c)

(* Their writes. *)

\* Mutant of Take: mark_used() is not called.
TakeUnmarked(t, op) ==
  /\ req[t].op = op
  /\ req' = [req EXCEPT ![t] = Idle]
  /\ accepted' = [accepted EXCEPT ![req[t].code] = @ + 1]
  /\ UNCHANGED <<clock, used, challenge, overlapped, requests>>

\* The code is taken: last_used_step or is_used is stored, and the caller
\* told so.
Take(t, op) ==
  /\ req[t].op = op
  /\ req' = [req EXCEPT ![t] = Idle]
  /\ accepted' = [accepted EXCEPT ![req[t].code] = @ + 1]
  /\ used' = IF req[t].code \in RecoveryCodes THEN used \cup {req[t].code} ELSE used
  /\ UNCHANGED <<clock, challenge, overlapped, requests>>

\* Mutant of LastAfter: update_fields lacks last_used_step.
LastUnsaved(t) == device.last

LastAfter(t) ==
  IF req[t].code \in TotpCodes THEN req[t].code.nr ELSE device.last

ConfirmWrite(t) ==
  /\ Take(t, "confirm")
  /\ device' = [device EXCEPT !.confirmed = TRUE, !.last = LastAfter(t)]
  /\ UNCHANGED batch

ChallengeWrite(t) ==
  /\ Take(t, "challenge")
  /\ device' = [device EXCEPT !.last = LastAfter(t)]
  /\ UNCHANGED batch

\* Mutant of DisableWrite: a state no manager knows.
DisableAsRetired(t) ==
  /\ Take(t, "disable")
  /\ device' = [device EXCEPT !.state = "retired", !.last = LastAfter(t)]
  /\ UNCHANGED batch

DisableWrite(t) ==
  /\ Take(t, "disable")
  /\ device' = [device EXCEPT !.state = IF @ = "alive" THEN "deleted" ELSE @,
                              !.last = LastAfter(t)]
  /\ UNCHANGED batch

\* The confirmed device is read once more after the code was taken; without
\* one, everything is rolled back.
RegenerateWrite(t) ==
  /\ Enabled /\ batch < MaxBatches
  /\ Take(t, "regenerate")
  /\ device' = [device EXCEPT !.last = LastAfter(t)]
  /\ batch' = batch + 1

RegenerateFails(t) ==
  /\ ~Enabled
  /\ req[t].op = "regenerate"
  /\ req' = [req EXCEPT ![t] = Idle]
  /\ UNCHANGED <<clock, device, batch, used, challenge, accepted, overlapped,
                 requests>>

Tick ==
  /\ clock < MaxTime
  /\ clock' = clock + 1
  /\ UNCHANGED <<device, batch, used, challenge, req, accepted, overlapped, requests>>

-----------------------------------------------------------------------------
Read(t) ==
  \/ \E c \in TotpCodes : ConfirmDevice(t, c)
  \/ \E c \in Codes, op \in {"challenge", "disable", "regenerate"} : VerifyCode(t, op, c)

Write(t) == \/ ConfirmWrite(t) \/ ChallengeWrite(t) \/ DisableWrite(t)
            \/ RegenerateWrite(t) \/ RegenerateFails(t)

Next == \/ SetupDevice \/ Login \/ Tick
        \/ \E t \in Threads : Read(t) \/ Write(t)

Spec == Init /\ [][Next]_vars

-----------------------------------------------------------------------------
(* Properties *)

\* As long as no two requests overlapped, no code is answered with success
\* twice: neither a TOTP code within its window, whichever of the methods
\* takes it and whatever is disabled and set up again meanwhile, nor a
\* recovery code.
AcceptedOnce == ~overlapped => \A c \in Codes : accepted[c] <= 1

\* As long as no two requests overlapped, a confirmed device is one whose
\* present secret the user has proved to hold.
ConfirmedWasProven ==
  ~overlapped /\ device.confirmed =>
    \E c \in TotpCodes : c.of = device.secret /\ accepted[c] > 0

\* Whatever races, a recovery code is marked used as soon as it has been
\* taken, and it is taken at most once by each thread: only requests already
\* past their check can take it again.
RecoveryRaceIsBounded ==
  \A c \in RecoveryCodes :
    /\ accepted[c] > 0 => c \in used
    /\ accepted[c] <= Cardinality(Threads)

\* Codes of a replaced secret or batch are worthless: they are taken only by
\* requests that a replacement has overtaken.
OnlyCurrentCodes ==
  [][\A c \in Codes : accepted'[c] > accepted[c] /\ ~overlapped =>
       c.of = IF c \in TotpCodes THEN device.secret ELSE batch]_vars

\* "prevent code re-use within the same 30-second validity window" and
\* "single-use" recovery codes (README.md:17,18): whatever races, no code is
\* taken twice.
NeverTakenTwice == \A c \in Codes : accepted[c] <= 1
=============================================================================
