----------------------------- MODULE RateLimiter -----------------------------
(***************************************************************************)
(* apps/throttling: the sliding window rate limiter, for the requests of   *)
(* one client.  Each rule keeps in the cache the list of the times at      *)
(* which it let the client pass.  evaluate_request takes the rules that    *)
(* match the request in turn; each is checked and recorded before the next *)
(* one is looked at, and the first that is full rejects the request.       *)
(*                                                                         *)
(* The time is taken, the list read from the cache and the new list stored *)
(* by separate calls, so other requests may come between them.             *)
(*                                                                         *)
(* Time passes in ticks, several to a second: the limiter works with       *)
(* fractions of seconds, and its answers are in whole ones.  The list of   *)
(* active rules, which is cached for 300 seconds, does not change, and the *)
(* cache is one for all processes and drops nothing before its timeout.    *)
(***************************************************************************)
EXTENDS Integers, Sequences, FiniteSets, FiniteSetsExt

CONSTANTS
  Rules,          \* the active rules, numbered in the order of the query
  RateLimit,      \* rate_limit of each rule
  BurstLimit,     \* burst_limit of each rule
  Period,         \* period_seconds of each rule, in ticks
  TicksPerSecond,
  Buffer,         \* ticks by which an entry outlives the period (10 s)
  Threads,        \* threads serving requests
  MaxDelay,       \* bound: ticks from time.time() to the answer of cache.get
  MaxTime,        \* bound: the clock stops here
  MaxRequests     \* bound: requests served in a behaviour

\* A rule whose two limits are both 0 raises IndexError on every request.  A
\* list must not time out between a request's time.time() and its cache.get.
ASSUME ConstantsAssumption ==
  /\ Rules \subseteq Nat
  /\ RateLimit \in [Rules -> Nat] /\ BurstLimit \in [Rules -> Nat]
  /\ \A r \in Rules : RateLimit[r] + BurstLimit[r] > 0
  /\ Period \in [Rules -> Nat \ {0}]
  /\ TicksPerSecond \in Nat \ {0}
  /\ Buffer \in Nat /\ MaxDelay \in 0..Buffer
  /\ MaxTime \in Nat /\ MaxRequests \in Nat

VARIABLES
  clock,      \* time.time()
  history,    \* the cached list of each rule
  storedAt,   \* when it was stored
  proc,       \* what each thread is about to do, or has answered
  passes,     \* history: the times of all requests r has recorded, in that order
  overlapped, \* history: two requests have been in progress together
  requests    \* requests served so far

vars == <<clock, history, storedAt, proc, passes, overlapped, requests>>

Time == 0..MaxTime
Idle == [stage |-> "idle"]
Proc == [stage : {"check"}, todo : SUBSET Rules, now : Time]
          \cup [stage : {"record"}, todo : SUBSET Rules, now : Time, list : Seq(Time)]
          \cup [stage : {"rejected"}, wait : Nat \ {0}]

TypeOK ==
  /\ clock \in Time
  /\ history \in [Rules -> Seq(Time)]
  /\ storedAt \in [Rules -> Time]
  /\ proc \in [Threads -> Proc \cup {Idle}]
  /\ passes \in [Rules -> Seq(Time)]
  /\ overlapped \in BOOLEAN
  /\ requests \in Nat

Init ==
  /\ clock = 0
  /\ history = [r \in Rules |-> <<>>]
  /\ storedAt = [r \in Rules |-> 0]
  /\ proc = [t \in Threads |-> Idle]
  /\ passes = [r \in Rules |-> <<>>]
  /\ overlapped = FALSE
  /\ requests = 0

-----------------------------------------------------------------------------
EffectiveLimit(r) == RateLimit[r] + BurstLimit[r]

\* Mutant of Timeout: the period ends before its last second does.
TimeoutShort(r) == Period[r] - TicksPerSecond

\* The timeout of cache.set.
Timeout(r) == Period[r] + Buffer

\* cache.get(key, [])
Cached(r) == IF clock < storedAt[r] + Timeout(r) THEN history[r] ELSE <<>>

\* Mutant of InWindow: everything that is cached counts.
EverInWindow(r, list, now) == list

\* [ts for ts in history if ts > cutoff]
InWindow(r, list, now) ==
  LET kept[i \in 0..Len(list)] ==
        IF i = 0 THEN <<>>
        ELSE IF list[i] > now - Period[r] THEN Append(kept[i - 1], list[i])
        ELSE kept[i - 1]
  IN  kept[Len(list)]

Full(r, list) == Len(list) >= EffectiveLimit(r)

\* Mutants of Wait: at least a second, whatever is left; no least wait.
WaitASecond(r, list, now) == 1
WaitUnclamped(r, list, now) == (list[1] + Period[r] - now) \div TicksPerSecond

\* Whole seconds until the first entry leaves the window, at least one.
Wait(r, list, now) ==
  Max({1, (list[1] + Period[r] - now) \div TicksPerSecond})

InProgress(t) == proc[t].stage \in {"check", "record"}

\* The rule a request is at.
Current(t) == Min(proc[t].todo)

-----------------------------------------------------------------------------
\* A request comes in; S are the rules whose method, path and scope match.
Request(t, S) ==
  /\ ~InProgress(t)
  /\ requests < MaxRequests
  /\ requests' = requests + 1
  /\ proc' = [proc EXCEPT ![t] = [stage |-> "check", todo |-> S, now |-> clock]]
  /\ overlapped' = (overlapped \/ \E u \in Threads : InProgress(u))
  /\ UNCHANGED <<clock, history, storedAt, passes>>

(* check_and_record *)

\* The rule has room; the request will be appended to the list just read.
Pass(t) ==
  /\ proc[t].stage = "check"
  /\ LET r == Current(t)
         now == proc[t].now
         list == InWindow(r, Cached(r), now)
     IN /\ ~Full(r, list)
        /\ proc' = [proc EXCEPT ![t] = [stage |-> "record", todo |-> proc[t].todo,
                                        now |-> now, list |-> Append(list, now)]]
  /\ UNCHANGED <<clock, history, storedAt, passes, overlapped, requests>>

\* The rule is full: 429, with the seconds to wait.
Reject(t) ==
  /\ proc[t].stage = "check"
  /\ LET r == Current(t)
         list == InWindow(r, Cached(r), proc[t].now)
     IN /\ Full(r, list)
        /\ proc' = [proc EXCEPT ![t] = [stage |-> "rejected",
                                        wait |-> Wait(r, list, proc[t].now)]]
  /\ UNCHANGED <<clock, history, storedAt, passes, overlapped, requests>>

\* cache.set; then the next rule is taken, or the request admitted.
Record(t) ==
  /\ proc[t].stage = "record"
  /\ LET r == Current(t)
         rest == proc[t].todo \ {r}
     IN /\ history' = [history EXCEPT ![r] = proc[t].list]
        /\ storedAt' = [storedAt EXCEPT ![r] = clock]
        /\ passes' = [passes EXCEPT ![r] = Append(@, proc[t].now)]
        /\ proc' = [proc EXCEPT ![t] =
                      IF rest = {} THEN Idle
                      ELSE [stage |-> "check", todo |-> rest, now |-> clock]]
  /\ UNCHANGED <<clock, overlapped, requests>>

Tick ==
  /\ clock < MaxTime
  /\ \A t \in Threads : proc[t].stage = "check" => clock < proc[t].now + MaxDelay
  /\ clock' = clock + 1
  /\ UNCHANGED <<history, storedAt, proc, passes, overlapped, requests>>

Next ==
  \/ \E t \in Threads :
       \/ \E S \in (SUBSET Rules) \ {{}} : Request(t, S)
       \/ Pass(t) \/ Reject(t) \/ Record(t)
  \/ Tick

Spec == Init /\ [][Next]_vars

-----------------------------------------------------------------------------
(* Properties *)

\* The requests that r recorded with a time in S.
Passed(r, S) == {i \in DOMAIN passes[r] : passes[r][i] \in S}

\* "Rolling sub-second precision rate calculation eliminating fixed-window
\* boundary spike vulnerabilities" (README.md:13): as long as requests do not
\* overlap, no rule lets pass more than its effective limit in any period,
\* wherever the period begins.
WithinLimit ==
  ~overlapped => \A r \in Rules, w \in Time :
    Cardinality(Passed(r, w..(w + Period[r] - 1))) <= EffectiveLimit(r)

\* Whatever races, a request is rejected only by a rule that has really let
\* pass as many as it may since a period ago: lost updates cost the limiter
\* strictness, never the client its quota.
RejectedOnlyWhenFull ==
  [][\A t \in Threads : proc[t].stage = "check" /\ proc'[t].stage = "rejected" =>
       LET r == Current(t) IN
       Cardinality(Passed(r, {n \in Time : n > proc[t].now - Period[r]}))
         >= EffectiveLimit(r)]_vars

\* Whatever races, a client that waits a second longer than it was told
\* finds room under the rule that rejected it, unless others have used it up
\* meanwhile.  (Without the extra second it may not: the wait is cut to whole
\* seconds.)
RetryAfterSuffices ==
  [][\A t \in Threads : proc[t].stage = "check" /\ proc'[t].stage = "rejected" =>
       LET r == Current(t)
           then == proc[t].now + (proc'[t].wait + 1) * TicksPerSecond
       IN ~Full(r, InWindow(r, Cached(r), then))]_vars
=============================================================================
