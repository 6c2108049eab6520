--------------------------- MODULE TwoFactorProofs ---------------------------
(***************************************************************************)
(* Proofs about TwoFactor for any number of threads, recovery codes, time  *)
(* steps and enrolments: one request at a time, no code is ever taken      *)
(* twice, and a confirmed device is one whose secret was proved; whatever  *)
(* races, a recovery code is taken at most once by each thread.            *)
(***************************************************************************)
EXTENDS TwoFactor, FiniteSetTheorems, TLAPS

Busy(t) == req[t] # Idle

\* What verification would accept, the drift window and the state aside.
Usable(c) ==
  \/ c \in TotpCodes /\ c.of = device.secret /\ c.nr > device.last
  \/ RecoveryMatches(c)

\* What it will never accept again.
Spent(c) ==
  /\ c \in TotpCodes => \/ c.of < device.secret
                        \/ c.of = device.secret /\ c.nr <= device.last
  /\ c \in RecoveryCodes => c.of < batch \/ c \in used

\* Alone, a request writes what its check has found.
CheckStillHolds ==
  ~overlapped =>
    /\ \A s, t \in Threads : Busy(s) /\ Busy(t) => s = t
    /\ \A t \in Threads : Busy(t) => Usable(req[t].code)

\* Alone, a code that was taken is spent.
TakenIsSpent ==
  ~overlapped =>
    \A c \in Codes : accepted[c] <= 1 /\ (accepted[c] > 0 => Spent(c))

\* A confirmation carries a TOTP code.
ConfirmsCarryTotp ==
  \A t \in Threads : req[t].op = "confirm" => req[t].code \in TotpCodes

IInv == /\ TypeOK
        /\ ConfirmsCarryTotp
        /\ CheckStillHolds
        /\ TakenIsSpent
        /\ ConfirmedWasProven

-----------------------------------------------------------------------------
(* Codes *)

LEMMA CodeKinds ==
  /\ TotpCodes \subseteq Codes /\ RecoveryCodes \subseteq Codes
  /\ \A c \in TotpCodes : c \notin RecoveryCodes
BY DEF Codes, TotpCodes, RecoveryCodes

LEMMA CodeFields ==
  /\ \A c \in TotpCodes : c.of \in Nat /\ c.nr \in Steps /\ c.nr \in Int
  /\ \A c \in RecoveryCodes : c.of \in Nat
BY ConstantsAssumption DEF TotpCodes, RecoveryCodes, Secrets, Steps, Batches

LEMMA UsableIsNotSpent ==
  ASSUME TypeOK, NEW c \in Codes, Usable(c)
  PROVE  ~Spent(c)
<1>1. device.secret \in Nat /\ device.last \in Int /\ batch \in Nat
  BY ConstantsAssumption DEF TypeOK, Device, Secrets, Steps, None, Batches
<1> QED
  BY <1>1, CodeKinds, CodeFields DEF Usable, Spent, RecoveryMatches

-----------------------------------------------------------------------------
(* What the steps do. *)

LEMMA ReadBegins ==
  ASSUME TypeOK, NEW t \in Threads, Read(t)
  PROVE  \E op \in Ops, c \in Codes :
           /\ Begin(t, op, c)
           /\ Usable(c)
           /\ op = "confirm" => c \in TotpCodes
<1>1. ASSUME NEW c \in TotpCodes, ConfirmDevice(t, c)
      PROVE  "confirm" \in Ops /\ c \in Codes /\ Begin(t, "confirm", c) /\ Usable(c)
  BY <1>1, CodeKinds DEF ConfirmDevice, TotpMatches, Usable, Ops
<1>2. ASSUME NEW c \in Codes, NEW op \in {"challenge", "disable", "regenerate"},
             VerifyCode(t, op, c)
      PROVE  op \in Ops /\ op # "confirm" /\ Begin(t, op, c) /\ Usable(c)
  BY <1>2 DEF VerifyCode, TotpMatches, Usable, Ops
<1> QED
  BY <1>1, <1>2 DEF Read

LEMMA TakeSpends ==
  ASSUME IInv, NEW t \in Threads, NEW op \in Ops, Take(t, op),
         device' \in Device, device'.secret = device.secret,
         device'.last = LastAfter(t), batch' \in {batch, batch + 1}, batch' \in Batches
  PROVE  /\ req' \in [Threads -> Request \cup {Idle}]
         /\ used' \in SUBSET RecoveryCodes /\ accepted' \in [Codes -> Nat]
         /\ req[t].code \in Codes
         /\ ConfirmsCarryTotp' /\ CheckStillHolds' /\ TakenIsSpent'
         /\ \A c \in Codes : accepted[c] > 0 => accepted'[c] > 0
         /\ accepted'[req[t].code] > 0
<1> DEFINE k == req[t].code
<1>1. req[t] \in Request /\ Busy(t)
  BY DEF IInv, TypeOK, Take, Idle, Ops, Busy
<1>2. k \in Codes
  BY <1>1 DEF Request
<1>3. req' = [req EXCEPT ![t] = Idle]
  BY DEF Take
<1>4. req' \in [Threads -> Request \cup {Idle}]
  BY <1>3 DEF IInv, TypeOK
<1>5. \A s \in Threads : req'[s] = IF s = t THEN Idle ELSE req[s]
  BY <1>3 DEF IInv, TypeOK
<1>6. used' \in SUBSET RecoveryCodes
  BY <1>2, CodeKinds DEF Take, IInv, TypeOK
<1>7. /\ accepted' \in [Codes -> Nat]
      /\ accepted'[k] = accepted[k] + 1
      /\ \A c \in Codes : c # k => accepted'[c] = accepted[c]
  <2>1. accepted' = [accepted EXCEPT ![k] = accepted[k] + 1] /\ accepted \in [Codes -> Nat]
    BY DEF Take, IInv, TypeOK
  <2> HIDE DEF k
  <2> QED
    BY <1>2, <2>1
<1>8. \A c \in Codes : accepted[c] \in Nat
  BY DEF IInv, TypeOK
<1>9. ConfirmsCarryTotp'
  BY <1>5 DEF IInv, ConfirmsCarryTotp, Idle
<1>10. CheckStillHolds'
  <2>1. ASSUME ~overlapped PROVE \A s \in Threads : req'[s] = Idle
    BY <1>1, <1>5, <2>1 DEF IInv, CheckStillHolds, Busy
  <2> QED
    BY <2>1 DEF Take, CheckStillHolds, Busy
<1>11. TakenIsSpent'
  <2> SUFFICES ASSUME ~overlapped, NEW c \in Codes
               PROVE  accepted'[c] <= 1 /\ (accepted'[c] > 0 => Spent(c)')
    BY DEF Take, TakenIsSpent
  <2>1. Usable(k) /\ accepted[k] = 0
    <3>1. Usable(k)
      BY <1>1 DEF IInv, CheckStillHolds
    <3>2. ~Spent(k)
      BY <1>2, <3>1, UsableIsNotSpent DEF IInv
    <3> QED
      BY <1>2, <1>8, <3>1, <3>2 DEF IInv, TakenIsSpent
  <2>2. device.secret \in Nat /\ device.last \in Int /\ batch \in Nat /\ batch' \in Nat
    BY ConstantsAssumption DEF IInv, TypeOK, Device, Secrets, Steps, None, Batches
  <2>3. device'.last = (IF k \in TotpCodes THEN k.nr ELSE device.last)
        /\ used' = (IF k \in RecoveryCodes THEN used \cup {k} ELSE used)
    BY DEF LastAfter, Take
  <2>4. CASE c = k
    <3>1. Spent(c)'
      BY <2>1, <2>2, <2>3, <2>4, CodeKinds, CodeFields DEF Usable, RecoveryMatches, Spent
    <3> QED
      BY <1>7, <2>1, <2>4, <3>1
  <2>5. CASE c # k
    <3>1. accepted'[c] = accepted[c] /\ accepted[c] <= 1
      BY <1>7, <2>5 DEF IInv, TakenIsSpent
    <3>2. ASSUME Spent(c) PROVE Spent(c)'
      BY <2>1, <2>2, <2>3, <3>2, CodeKinds, CodeFields DEF Usable, RecoveryMatches, Spent
    <3> QED
      BY <3>1, <3>2 DEF IInv, TakenIsSpent
  <2> QED
    BY <2>4, <2>5
<1> QED
  BY <1>2, <1>4, <1>6, <1>7, <1>8, <1>9, <1>10, <1>11

-----------------------------------------------------------------------------
LEMMA InvInit == Init => IInv
<1> SUFFICES ASSUME Init PROVE IInv
  OBVIOUS
<1>1. 0 \in Secrets /\ 0 \in Batches /\ 1 \in 1..(MaxTime + 1)
  BY ConstantsAssumption DEF Secrets, Batches
<1>2. TypeOK
  <2>1. device \in Device
    BY <1>1 DEF Init, Device
  <2>2. accepted \in [Codes -> Nat] /\ req \in [Threads -> Request \cup {Idle}]
    BY DEF Init
  <2>3. challenge \in Int
    BY DEF Init, None
  <2>4. overlapped \in BOOLEAN
    BY DEF Init
  <2> QED
    BY <1>1, <2>1, <2>2, <2>3, <2>4 DEF Init, TypeOK
<1>3. CheckStillHolds /\ TakenIsSpent
  BY DEF Init, CheckStillHolds, TakenIsSpent, Busy
<1>4. ConfirmsCarryTotp /\ ConfirmedWasProven
  BY DEF Init, ConfirmsCarryTotp, ConfirmedWasProven, Idle
<1> QED
  BY <1>2, <1>3, <1>4 DEF IInv

\* A replacement leaves every spent code spent.
LEMMA SetupKeepsInv == ASSUME IInv, SetupDevice PROVE IInv'
<1>1. /\ device.secret \in Nat /\ batch \in Nat
      /\ device'.secret = device.secret + 1 /\ device'.confirmed = FALSE
      /\ batch' = batch + 1 /\ used' = used
  BY ConstantsAssumption DEF IInv, TypeOK, Device, Secrets, Batches, SetupDevice
<1>2. TypeOK'
  <2>1. device' \in Device
    BY ConstantsAssumption DEF IInv, TypeOK, Device, Secrets, SetupDevice
  <2>2. batch' \in Batches
    BY ConstantsAssumption DEF IInv, TypeOK, Batches, SetupDevice
  <2>3. overlapped' \in BOOLEAN
    BY DEF SetupDevice
  <2> QED
    BY <2>1, <2>2, <2>3 DEF IInv, TypeOK, SetupDevice
<1>3. CheckStillHolds'
  BY DEF SetupDevice, CheckStillHolds, Busy
<1>4. TakenIsSpent'
  <2> SUFFICES ASSUME ~overlapped', NEW c \in Codes
               PROVE  accepted'[c] <= 1 /\ (accepted'[c] > 0 => Spent(c)')
    BY DEF TakenIsSpent
  <2>1. accepted' = accepted /\ ~overlapped
    BY DEF SetupDevice
  <2>2. ASSUME Spent(c) PROVE Spent(c)'
    <3>1. device.last \in Int
      BY ConstantsAssumption DEF IInv, TypeOK, Device, Steps, None
    <3> QED
      BY <1>1, <2>2, <3>1, CodeFields DEF Spent
  <2> QED
    BY <2>1, <2>2 DEF IInv, TakenIsSpent
<1>5. ConfirmsCarryTotp' /\ ConfirmedWasProven'
  BY <1>1 DEF IInv, SetupDevice, ConfirmsCarryTotp, ConfirmedWasProven
<1> QED
  BY <1>2, <1>3, <1>4, <1>5 DEF IInv

LEMMA ReadKeepsInv == ASSUME IInv, NEW t \in Threads, Read(t) PROVE IInv'
<1>1. PICK op \in Ops, c \in Codes :
        Begin(t, op, c) /\ Usable(c) /\ (op = "confirm" => c \in TotpCodes)
  BY ReadBegins DEF IInv
<1>2. req' \in [Threads -> Request \cup {Idle}]
  BY <1>1 DEF Begin, Request, IInv, TypeOK
<1>3. overlapped' \in BOOLEAN /\ requests' \in Nat
  BY <1>1 DEF Begin, IInv, TypeOK
<1>4. \A s \in Threads : req'[s] = IF s = t THEN [op |-> op, code |-> c] ELSE req[s]
  BY <1>1 DEF Begin, IInv, TypeOK
<1>5. TypeOK'
  BY <1>1, <1>2, <1>3 DEF Begin, IInv, TypeOK
<1>6. ConfirmsCarryTotp'
  BY <1>1, <1>4 DEF IInv, ConfirmsCarryTotp
<1>7. CheckStillHolds'
  <2>1. ASSUME ~overlapped' PROVE \A s \in Threads \ {t} : req'[s] = Idle
    BY <1>1, <1>4, <2>1 DEF Begin
  <2>2. Usable(c)'
    BY <1>1 DEF Begin, Usable, RecoveryMatches
  <2> QED
    BY <1>4, <2>1, <2>2 DEF CheckStillHolds, Busy
<1>8. TakenIsSpent' /\ ConfirmedWasProven'
  BY <1>1 DEF Begin, IInv, TakenIsSpent, Spent, ConfirmedWasProven
<1> QED
  BY <1>5, <1>6, <1>7, <1>8 DEF IInv

LEMMA WriteKeepsInv == ASSUME IInv, NEW t \in Threads, Write(t) PROVE IInv'
<1>1. /\ device \in Device /\ batch \in Batches
      /\ \A s \in Threads : req[s].code \in TotpCodes => req[s].code.nr \in Steps
  BY CodeFields DEF IInv, TypeOK
<1>2. LastAfter(t) \in Steps \cup {None}
  BY <1>1 DEF LastAfter, Device
<1>3. CASE ConfirmWrite(t)
  <2>1. "confirm" \in Ops /\ Take(t, "confirm")
    BY <1>3 DEF ConfirmWrite, Ops
  <2>2. device' \in Device /\ device'.secret = device.secret /\ device'.last = LastAfter(t)
    BY <1>1, <1>2, <1>3 DEF ConfirmWrite, Device
  <2>3. batch' = batch
    BY <1>3 DEF ConfirmWrite
  <2>4. /\ req' \in [Threads -> Request \cup {Idle}]
        /\ used' \in SUBSET RecoveryCodes /\ accepted' \in [Codes -> Nat]
        /\ ConfirmsCarryTotp' /\ CheckStillHolds' /\ TakenIsSpent'
        /\ accepted'[req[t].code] > 0
    BY <1>1, <2>1, <2>2, <2>3, TakeSpends
  <2>5. TypeOK'
    BY <1>3, <2>1, <2>2, <2>3, <2>4 DEF IInv, TypeOK, Take
  <2>6. ConfirmedWasProven'
    <3>1. req[t].code \in TotpCodes
      BY <2>1 DEF Take, IInv, ConfirmsCarryTotp
    <3>2. ~overlapped => req[t].code.of = device.secret
      BY <2>1, <3>1, CodeKinds DEF Take, IInv, CheckStillHolds, Usable,
         RecoveryMatches, Busy, Idle, Ops
    <3> QED
      BY <2>1, <2>2, <2>4, <3>1, <3>2 DEF Take, ConfirmedWasProven
  <2> QED
    BY <2>4, <2>5, <2>6 DEF IInv
<1>4. ASSUME NEW op \in Ops, Take(t, op), device' \in Device,
             device'.secret = device.secret, device'.confirmed = device.confirmed,
             device'.last = LastAfter(t), batch' \in {batch, batch + 1}, batch' \in Batches
      PROVE  IInv'
  <2>1. /\ req' \in [Threads -> Request \cup {Idle}]
        /\ used' \in SUBSET RecoveryCodes /\ accepted' \in [Codes -> Nat]
        /\ ConfirmsCarryTotp' /\ CheckStillHolds' /\ TakenIsSpent'
        /\ \A c \in Codes : accepted[c] > 0 => accepted'[c] > 0
    BY <1>4, TakeSpends
  <2>2. TypeOK'
    BY <1>4, <2>1 DEF IInv, TypeOK, Take
  <2>3. ConfirmedWasProven'
    BY <1>4, <2>1, CodeKinds DEF IInv, Take, ConfirmedWasProven
  <2> QED
    BY <2>1, <2>2, <2>3 DEF IInv
<1>5. CASE ChallengeWrite(t)
  <2>1. "challenge" \in Ops /\ Take(t, "challenge") /\ batch' = batch
    BY <1>5 DEF ChallengeWrite, Ops
  <2>2. /\ device' \in Device /\ device'.secret = device.secret
        /\ device'.confirmed = device.confirmed /\ device'.last = LastAfter(t)
    BY <1>1, <1>2, <1>5 DEF ChallengeWrite, Device
  <2> QED
    BY <1>1, <1>4, <2>1, <2>2
<1>6. CASE DisableWrite(t)
  <2>1. "disable" \in Ops /\ Take(t, "disable") /\ batch' = batch
    BY <1>6 DEF DisableWrite, Ops
  <2>2. /\ device' \in Device /\ device'.secret = device.secret
        /\ device'.confirmed = device.confirmed /\ device'.last = LastAfter(t)
    BY <1>1, <1>2, <1>6 DEF DisableWrite, Device
  <2> QED
    BY <1>1, <1>4, <2>1, <2>2
<1>7. CASE RegenerateWrite(t)
  <2>1. "regenerate" \in Ops /\ Take(t, "regenerate") /\ batch' = batch + 1
    BY <1>7 DEF RegenerateWrite, Ops
  <2>2. batch' \in Batches
    BY <1>1, <1>7, ConstantsAssumption DEF RegenerateWrite, Batches
  <2>3. /\ device' \in Device /\ device'.secret = device.secret
        /\ device'.confirmed = device.confirmed /\ device'.last = LastAfter(t)
    BY <1>1, <1>2, <1>7 DEF RegenerateWrite, Device
  <2> QED
    BY <1>4, <2>1, <2>2, <2>3
<1>8. CASE RegenerateFails(t)
  <2>1. req' \in [Threads -> Request \cup {Idle}]
    BY <1>8 DEF RegenerateFails, IInv, TypeOK
  <2>2. \A s \in Threads : req'[s] = IF s = t THEN Idle ELSE req[s]
    BY <1>8 DEF RegenerateFails, IInv, TypeOK
  <2>3. TypeOK'
    BY <1>8, <2>1 DEF RegenerateFails, IInv, TypeOK
  <2>4. ConfirmsCarryTotp'
    BY <2>2 DEF IInv, ConfirmsCarryTotp, Idle
  <2>5. CheckStillHolds'
    BY <1>8, <2>2 DEF RegenerateFails, IInv, CheckStillHolds, Busy, Usable, RecoveryMatches
  <2>6. TakenIsSpent' /\ ConfirmedWasProven'
    BY <1>8 DEF RegenerateFails, IInv, TakenIsSpent, Spent, ConfirmedWasProven
  <2> QED
    BY <2>3, <2>4, <2>5, <2>6 DEF IInv
<1> QED
  BY <1>3, <1>5, <1>6, <1>7, <1>8 DEF Write

\* The inductive invariant.
THEOREM Invariance == Spec => []IInv
<1>1. IInv /\ [Next]_vars => IInv'
  <2> SUFFICES ASSUME IInv, [Next]_vars PROVE IInv'
    OBVIOUS
  <2>1. CASE Login
    <3>1. TypeOK'
      BY <2>1, ConstantsAssumption DEF Login, IInv, TypeOK
    <3>2. UNCHANGED <<device, batch, used, req, accepted, overlapped>>
      BY <2>1 DEF Login
    <3> QED
      BY <3>1, <3>2 DEF IInv, ConfirmsCarryTotp, CheckStillHolds, Busy, Usable,
         RecoveryMatches, TakenIsSpent, Spent, ConfirmedWasProven
  <2>2. CASE Tick
    <3>1. TypeOK'
      BY <2>2, ConstantsAssumption DEF Tick, IInv, TypeOK
    <3>2. UNCHANGED <<device, batch, used, req, accepted, overlapped>>
      BY <2>2 DEF Tick
    <3> QED
      BY <3>1, <3>2 DEF IInv, ConfirmsCarryTotp, CheckStillHolds, Busy, Usable,
         RecoveryMatches, TakenIsSpent, Spent, ConfirmedWasProven
  <2>3. CASE UNCHANGED vars
    BY <2>3 DEF vars, IInv, TypeOK, ConfirmsCarryTotp, CheckStillHolds, Busy, Usable,
       RecoveryMatches, TakenIsSpent, Spent, ConfirmedWasProven
  <2> QED
    BY <2>1, <2>2, <2>3, SetupKeepsInv, ReadKeepsInv, WriteKeepsInv DEF Next
<1> QED
  BY <1>1, InvInit, PTL DEF Spec

\* Every variable keeps its type.
THEOREM TypeCorrect == Spec => []TypeOK
<1>1. IInv => TypeOK
  BY DEF IInv
<1> QED
  BY <1>1, Invariance, PTL

\* As long as no two requests have overlapped, no code is taken twice.
THEOREM NoCodeTwice == Spec => []AcceptedOnce
<1>1. IInv => AcceptedOnce
  BY DEF IInv, TakenIsSpent, AcceptedOnce
<1> QED
  BY <1>1, Invariance, PTL

\* As long as no two requests have overlapped, a device is confirmed only
\* after a code of its present secret was taken.
THEOREM ConfirmedIsProven == Spec => []ConfirmedWasProven
<1>1. IInv => ConfirmedWasProven
  BY DEF IInv
<1> QED
  BY <1>1, Invariance, PTL

\* Alone, a request takes a code of the present secret or batch only.
THEOREM OnlyCurrentCodesAreTaken == Spec => OnlyCurrentCodes
<1> DEFINE Current == \A c \in Codes : accepted'[c] > accepted[c] /\ ~overlapped =>
                        c.of = IF c \in TotpCodes THEN device.secret ELSE batch
<1>1. IInv /\ [Next]_vars => Current
  <2> SUFFICES ASSUME IInv, [Next]_vars, NEW c \in Codes,
                      accepted'[c] > accepted[c], ~overlapped
               PROVE  c.of = IF c \in TotpCodes THEN device.secret ELSE batch
    OBVIOUS
  <2>1. accepted' # accepted
    BY DEF IInv, TypeOK
  <2>2. PICK t \in Threads, op \in Ops : Take(t, op)
    <3>1. PICK t \in Threads : Write(t)
      BY <2>1 DEF Next, SetupDevice, Login, Tick, Read, ConfirmDevice, VerifyCode, Begin, vars
    <3> QED
      BY <2>1, <3>1 DEF Write, ConfirmWrite, ChallengeWrite, DisableWrite, RegenerateWrite,
         RegenerateFails, Ops
  <2>3. c = req[t].code
    BY <2>2 DEF Take, IInv, TypeOK
  <2>4. Usable(c)
    BY <2>2, <2>3 DEF Take, IInv, CheckStillHolds, Busy, Idle, Ops
  <2> QED
    BY <2>4, CodeKinds DEF Usable, RecoveryMatches
<1>2. IInv /\ [Next]_vars => [Current]_vars
  BY <1>1
<1> HIDE DEF Current
<1>3. Spec => [][Current]_vars
  BY <1>2, Invariance, PTL DEF Spec
<1> QED
  BY <1>3 DEF OnlyCurrentCodes, Current

-----------------------------------------------------------------------------
(* Recovery codes, whatever races. *)

\* The threads that have checked a code and are about to take it.
Holding(c) == {t \in Threads : Busy(t) /\ req[t].code = c}

\* A code is used as soon as it is taken, and from then on no thread joins
\* those that hold it: each of them may still take it once.
TakersAreHolders ==
  \A c \in RecoveryCodes :
    /\ c \notin used => accepted[c] = 0
    /\ c \in used => accepted[c] + Cardinality(Holding(c)) <= Cardinality(Threads)

LEMMA HoldingSize ==
  ASSUME NEW c
  PROVE  /\ IsFiniteSet(Holding(c)) /\ Cardinality(Holding(c)) \in Nat
         /\ Cardinality(Threads) \in Nat
         /\ Cardinality(Holding(c)) <= Cardinality(Threads)
<1>1. Holding(c) \subseteq Threads /\ IsFiniteSet(Threads)
  BY ConstantsAssumption DEF Holding
<1>2. IsFiniteSet(Holding(c)) /\ Cardinality(Holding(c)) <= Cardinality(Threads)
  BY <1>1, FS_Subset
<1> QED
  BY <1>1, <1>2, FS_CardinalityType

\* Fewer holders, or the same, and no success reported.
LEMMA HoldersLeave ==
  ASSUME TypeOK, TakersAreHolders, UNCHANGED <<used, accepted>>,
         \A c \in RecoveryCodes : c \in used => Holding(c)' \subseteq Holding(c)
  PROVE  TakersAreHolders'
<1> SUFFICES ASSUME NEW c \in RecoveryCodes, c \in used
             PROVE  accepted[c] + Cardinality(Holding(c)') <= Cardinality(Threads)
  BY DEF TakersAreHolders
<1>1. PICK H : H = Holding(c)'
  OBVIOUS
<1>2. H \subseteq Holding(c)
  BY <1>1
<1>3. IsFiniteSet(Holding(c)) /\ Cardinality(Holding(c)) \in Nat /\ Cardinality(Threads) \in Nat
  BY HoldingSize
<1>4. Cardinality(H) <= Cardinality(Holding(c)) /\ IsFiniteSet(H)
  BY <1>2, <1>3, FS_Subset
<1>5. Cardinality(H) \in Nat
  BY <1>4, FS_CardinalityType
<1>6. accepted[c] \in Nat
  BY CodeKinds DEF TypeOK
<1>7. accepted[c] + Cardinality(Holding(c)) <= Cardinality(Threads)
  BY DEF TakersAreHolders
<1>8. accepted[c] + Cardinality(H) <= Cardinality(Threads)
  BY <1>3, <1>4, <1>5, <1>6, <1>7
<1> QED
  BY <1>1, <1>8

\* A thread takes what it holds, and holds it no more.
LEMMA TakerLeaves ==
  ASSUME TypeOK, TakersAreHolders, NEW t \in Threads, NEW op \in Ops, Take(t, op)
  PROVE  TakersAreHolders'
<1>1. PICK k \in Codes : k = req[t].code
  BY DEF TypeOK, Take, Idle, Ops, Request
<1>2. Busy(t)
  BY DEF Take, Idle, Ops, Busy
<1>3. \A s \in Threads : req'[s] = IF s = t THEN Idle ELSE req[s]
  BY DEF Take, TypeOK
<1>4. \A c \in Codes : accepted'[c] = IF c = k THEN accepted[c] + 1 ELSE accepted[c]
  <2>1. accepted' = [accepted EXCEPT ![k] = accepted[k] + 1] /\ accepted \in [Codes -> Nat]
    BY <1>1 DEF Take, TypeOK
  <2> QED
    BY <2>1
<1>5. used' = IF k \in RecoveryCodes THEN used \cup {k} ELSE used
  BY <1>1 DEF Take
<1> SUFFICES ASSUME NEW c \in RecoveryCodes
             PROVE  /\ c \notin used' => accepted'[c] = 0
                    /\ c \in used' =>
                         accepted'[c] + Cardinality(Holding(c)') <= Cardinality(Threads)
  BY DEF TakersAreHolders
<1>6. /\ c \in Codes /\ accepted[c] \in Nat
      /\ c \notin used => accepted[c] = 0
      /\ c \in used => accepted[c] + Cardinality(Holding(c)) <= Cardinality(Threads)
  BY CodeKinds DEF TypeOK, TakersAreHolders
<1>7. PICK H : H = Holding(c)'
  OBVIOUS
<1>8. /\ IsFiniteSet(Holding(c)) /\ Cardinality(Holding(c)) \in Nat
      /\ Cardinality(Threads) \in Nat /\ Cardinality(Holding(c)) <= Cardinality(Threads)
  BY HoldingSize
<1>9. H = Holding(c) \ {t}
  BY <1>3, <1>7 DEF Holding, Busy
<1>10. CASE c = k
  <2>1. t \in Holding(c)
    BY <1>1, <1>2, <1>10 DEF Holding
  <2>2. Cardinality(H) = Cardinality(Holding(c)) - 1
    BY <1>8, <1>9, <2>1, FS_RemoveElement
  <2>3. c \in used' /\ accepted'[c] = accepted[c] + 1
    BY <1>4, <1>5, <1>6, <1>10
  <2>4. accepted[c] + Cardinality(Holding(c)) <= Cardinality(Threads)
    BY <1>6, <1>8
  <2>5. accepted[c] + 1 + Cardinality(H) <= Cardinality(Threads)
    BY <1>6, <1>8, <2>2, <2>4
  <2> QED
    BY <1>7, <2>3, <2>5
<1>11. CASE c # k
  <2>1. H = Holding(c)
    BY <1>1, <1>9, <1>11 DEF Holding
  <2>2. (c \in used' <=> c \in used) /\ accepted'[c] = accepted[c]
    BY <1>4, <1>5, <1>6, <1>11
  <2> QED
    BY <1>6, <1>7, <2>1, <2>2
<1> QED
  BY <1>10, <1>11

LEMMA TakersStep == TypeOK /\ TakersAreHolders /\ [Next]_vars => TakersAreHolders'
<1> SUFFICES ASSUME TypeOK, TakersAreHolders, [Next]_vars PROVE TakersAreHolders'
  OBVIOUS
<1>1. ASSUME NEW t \in Threads, Read(t) PROVE TakersAreHolders'
  <2>1. PICK op \in Ops, c \in Codes : Begin(t, op, c) /\ Usable(c)
    BY <1>1, ReadBegins
  <2>2. /\ UNCHANGED <<used, accepted>> /\ (c \in RecoveryCodes => c \notin used)
        /\ \A s \in Threads : req'[s] = IF s = t THEN [op |-> op, code |-> c] ELSE req[s]
    BY <2>1, CodeKinds DEF Begin, TypeOK, Usable, RecoveryMatches
  <2>3. ASSUME NEW d \in RecoveryCodes, d \in used PROVE Holding(d)' \subseteq Holding(d)
    BY <2>2, <2>3 DEF Holding, Busy
  <2> QED
    BY <2>2, <2>3, HoldersLeave
<1>2. ASSUME NEW t \in Threads, RegenerateFails(t) PROVE TakersAreHolders'
  <2>1. /\ UNCHANGED <<used, accepted>>
        /\ \A s \in Threads : req'[s] = IF s = t THEN Idle ELSE req[s]
    BY <1>2 DEF RegenerateFails, TypeOK
  <2>2. ASSUME NEW d \in RecoveryCodes PROVE Holding(d)' \subseteq Holding(d)
    BY <2>1 DEF Holding, Busy
  <2> QED
    BY <2>1, <2>2, HoldersLeave
<1>3. ASSUME NEW t \in Threads,
             ConfirmWrite(t) \/ ChallengeWrite(t) \/ DisableWrite(t) \/ RegenerateWrite(t)
      PROVE  TakersAreHolders'
  <2>1. \E op \in Ops : Take(t, op)
    BY <1>3 DEF ConfirmWrite, ChallengeWrite, DisableWrite, RegenerateWrite, Ops
  <2> QED
    BY <2>1, TakerLeaves
<1>4. CASE UNCHANGED <<req, used, accepted>>
  <2>1. \A d \in RecoveryCodes : Holding(d)' = Holding(d)
    BY <1>4 DEF Holding, Busy
  <2> QED
    BY <1>4, <2>1, HoldersLeave
<1>5. CASE SetupDevice \/ Login \/ Tick \/ UNCHANGED vars
  BY <1>4, <1>5 DEF SetupDevice, Login, Tick, vars
<1> QED
  BY <1>1, <1>2, <1>3, <1>5 DEF Next, Write

\* Whatever races, a recovery code that was taken is marked used, and it is
\* taken at most once by each thread.
THEOREM RecoveryRacesAreBounded == Spec => []RecoveryRaceIsBounded
<1>1. Init => TakersAreHolders
  BY DEF Init, TakersAreHolders, Codes
<1>2. TypeOK /\ TakersAreHolders => RecoveryRaceIsBounded
  <2> SUFFICES ASSUME TypeOK, TakersAreHolders, NEW c \in RecoveryCodes
               PROVE  /\ accepted[c] > 0 => c \in used
                      /\ accepted[c] <= Cardinality(Threads)
    BY DEF RecoveryRaceIsBounded
  <2>1. accepted[c] \in Nat
    BY CodeKinds DEF TypeOK
  <2> QED
    BY <2>1, HoldingSize DEF TakersAreHolders
<1> QED
  BY <1>1, <1>2, TakersStep, TypeCorrect, PTL DEF Spec
=============================================================================
