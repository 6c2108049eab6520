-------------------------- MODULE RateLimiterProofs --------------------------
(***************************************************************************)
(* Proofs about RateLimiter for any rules, limits, periods, threads and    *)
(* requests: the limit holds in every period without overlap, and whatever *)
(* races a rejection is justified and its waiting time long enough.        *)
(***************************************************************************)
EXTENDS RateLimiter, FiniteSetTheorems, WellFoundedInduction, TLAPS

\* A request at work has a rule to go to, took the time in the past, and
\* not too long ago if it has still to read the list.
Working ==
  \A t \in Threads :
    /\ InProgress(t) => proc[t].todo # {} /\ proc[t].now <= clock
    /\ proc[t].stage = "check" => clock <= proc[t].now + MaxDelay

\* No list is longer than the limit, be it cached or about to be.
ListsAreBounded ==
  /\ \A r \in Rules : Len(history[r]) <= EffectiveLimit(r)
  /\ \A t \in Threads :
       proc[t].stage = "record" => Len(proc[t].list) <= EffectiveLimit(Current(t))

\* The first n entries of a list are the times of different members of ps.
Among(list, n, ps) ==
  \E f \in Injection(1..n, DOMAIN ps) : \A a \in 1..n : ps[f[a]] = list[a]

\* Whatever races, every entry of a list is a request that was recorded, but
\* for the last entry of one that is about to be stored.
EntriesArePasses ==
  /\ \A r \in Rules : Among(history[r], Len(history[r]), passes[r])
  /\ \A t \in Threads :
       LET list == proc[t].list IN
       proc[t].stage = "record" =>
         /\ list # <<>> /\ list[Len(list)] = proc[t].now
         /\ Among(list, Len(list) - 1, passes[Current(t)])

IInv == TypeOK /\ Working /\ ListsAreBounded /\ EntriesArePasses

-----------------------------------------------------------------------------
(* Without overlap *)

OneRequest ==
  ~overlapped => \A t, u \in Threads : InProgress(t) /\ InProgress(u) => t = u

\* Nothing was recorded in the future, nor after the list was stored.
PassesArePast ==
  \A r \in Rules : /\ storedAt[r] <= clock
                   /\ \A i \in DOMAIN passes[r] : passes[r][i] <= storedAt[r]

\* A request took the time after its rules were last recorded, so that the
\* log of a rule is in the order of its times.
PassesInOrder ==
  ~overlapped =>
    /\ \A r \in Rules : \A i, j \in DOMAIN passes[r] : i <= j => passes[r][i] <= passes[r][j]
    /\ \A t \in Threads : InProgress(t) => \A r \in proc[t].todo : storedAt[r] <= proc[t].now

\* The first n entries of a list are the last of ps, and all others had left
\* the window of length p at the time given.
Latest(list, n, ps, time, p) ==
  \E k \in 0..Len(ps) :
    /\ n = Len(ps) - k
    /\ \A a \in 1..n : list[a] = ps[k + a]
    /\ \A i \in 1..k : ps[i] + p <= time

NothingForgotten ==
  ~overlapped =>
    /\ \A r \in Rules :
         Latest(history[r], Len(history[r]), passes[r], storedAt[r], Period[r])
    /\ \A t \in Threads :
         LET list == proc[t].list  r == Current(t) IN
         proc[t].stage = "record" =>
           Latest(list, Len(list) - 1, passes[r], proc[t].now, Period[r])

\* From one request to the one that is a whole limit later there is a period.
Spaced ==
  ~overlapped =>
    \A r \in Rules : \A i, j \in DOMAIN passes[r] :
      j = i + EffectiveLimit(r) => passes[r][i] + Period[r] <= passes[r][j]

SerialInv == IInv /\ OneRequest /\ PassesArePast /\ PassesInOrder /\ NothingForgotten /\ Spaced

-----------------------------------------------------------------------------
(* Numbers and lists. *)

\* A set of natural numbers has a least member: what is proved below by
\* induction over the entries of a list is proved from the least exception.
LEMMA LeastNat ==
  ASSUME NEW S \in SUBSET Nat, S # {}
  PROVE  \E m \in S : \A n \in S : m <= n
<1>1. PICK m \in S : \A n \in S : ~(<<n, m>> \in OpToRel(<, Nat))
  BY NatLessThanWellFounded, WFMin
<1>2. \A n \in S : ~(n < m)
  BY <1>1 DEF OpToRel
<1> QED
  BY <1>2

LEMMA MinOfNats ==
  ASSUME NEW S \in SUBSET Nat, S # {}
  PROVE  Min(S) \in S
BY LeastNat DEF Min

\* Whole seconds are cut: one more covers the rest.
LEMMA SecondsCoverTicks ==
  ASSUME NEW x \in Int, NEW T \in Nat \ {0}
  PROVE  x \div T \in Int /\ ((x \div T) + 1) * T > x
<1>1. x \div T \in Int /\ x % T \in 0..(T - 1) /\ x = T * (x \div T) + (x % T)
  OBVIOUS
<1> DEFINE q == x \div T
           m == x % T
<1>2. q \in Int /\ m \in Int /\ m < T /\ x = T * q + m
  BY <1>1
<1> HIDE DEF q, m
<1>3. (q + 1) * T = T * q + T
  BY <1>2
<1>4. (q + 1) * T > x
  <2> DEFINE p == T * q
  <2>1. p \in Int /\ x = p + m /\ (q + 1) * T = p + T
    BY <1>2, <1>3
  <2> HIDE DEF p
  <2> QED
    BY <1>2, <2>1
<1> QED
  BY <1>2, <1>4 DEF q

LEMMA MaxWithOne ==
  ASSUME NEW x \in Int
  PROVE  Max({1, x}) \in Nat \ {0} /\ Max({1, x}) >= x
<1>1. \E y \in {1, x} : \A z \in {1, x} : y >= z
  <2>1. CASE x >= 1
    BY <2>1
  <2>2. CASE ~(x >= 1)
    BY <2>2
  <2> QED
    BY <2>1, <2>2
<1>2. Max({1, x}) \in {1, x} /\ \A z \in {1, x} : Max({1, x}) >= z
  BY <1>1 DEF Max
<1> QED
  BY <1>2

LEMMA ListShape ==
  ASSUME NEW S, NEW list \in Seq(S)
  PROVE  /\ Len(list) \in Nat /\ DOMAIN list = 1..Len(list)
         /\ \A i \in 1..Len(list) : list[i] \in S
         /\ list # <<>> <=> Len(list) > 0
OBVIOUS

LEMMA ListAppended ==
  ASSUME NEW S, NEW list \in Seq(S), NEW x \in S
  PROVE  /\ Append(list, x) \in Seq(S) /\ Append(list, x) # <<>>
         /\ Len(Append(list, x)) = Len(list) + 1
         /\ DOMAIN Append(list, x) = 1..(Len(list) + 1)
         /\ \A i \in 1..Len(list) : Append(list, x)[i] = list[i]
         /\ Append(list, x)[Len(list) + 1] = x
OBVIOUS

-----------------------------------------------------------------------------
(* The filter. *)

\* k[i] is what the filter with this cutoff has kept of the first i entries.
Filtering(k, list, cutoff) ==
  /\ k[0] = <<>>
  /\ \A i \in 1..Len(list) :
       k[i] = IF list[i] > cutoff THEN Append(k[i - 1], list[i]) ELSE k[i - 1]

\* InWindow is computed by such a k: its recursive definition is sound.
LEMMA InWindowFilters ==
  ASSUME NEW r, NEW list \in Seq(Time), NEW now
  PROVE  \E k : /\ Filtering(k, list, now - Period[r])
                /\ InWindow(r, list, now) = k[Len(list)]
<1> DEFINE cutoff == now - Period[r]
           Step(f, i) == IF i = 0 THEN <<>>
                         ELSE IF list[i] > cutoff THEN Append(f[i - 1], list[i])
                         ELSE f[i - 1]
           Has(n) == \E f : f = [i \in 0..n |-> Step(f, i)]
           Bad == {n \in 0..Len(list) : ~Has(n)}
<1>0. Len(list) \in Nat
  BY ListShape
<1>1. Bad = {}
  <2> SUFFICES ASSUME Bad # {} PROVE FALSE
    OBVIOUS
  <2>1. PICK m \in Bad : \A n \in Bad : m <= n
    <3>1. Bad \in SUBSET Nat
      BY <1>0
    <3> HIDE DEF Bad
    <3> QED
      BY <3>1, LeastNat
  <2>2. m \in 0..Len(list) /\ m \in Nat /\ ~Has(m)
    BY <1>0, <2>1
  <2>3. CASE m = 0
    <3>1. [i \in 0..0 |-> <<>>] = [i \in 0..0 |-> Step([j \in 0..0 |-> <<>>], i)]
      OBVIOUS
    <3> QED
      BY <2>2, <2>3, <3>1
  <2>4. CASE m # 0
    <3>1. m - 1 \in 0..Len(list) /\ ~(m <= m - 1)
      BY <1>0, <2>2, <2>4
    <3>2. Has(m - 1)
      BY <2>1, <3>1
    <3>3. PICK f : f = [i \in 0..(m - 1) |-> Step(f, i)]
      BY <3>2
    <3> DEFINE g == [i \in 0..m |-> IF i = m THEN Step(f, m) ELSE f[i]]
    <3>4. ASSUME NEW i \in 0..m PROVE g[i] = Step(g, i)
      <4>1. CASE i = 0
        BY <2>2, <2>4, <3>3, <4>1
      <4>2. CASE i # 0
        <5>1. i - 1 \in 0..(m - 1) /\ g[i - 1] = f[i - 1]
          BY <2>2, <4>2
        <5>2. g[i] = Step(f, i)
          <6>1. CASE i = m
            BY <6>1
          <6>2. CASE i # m
            <7>1. i \in 0..(m - 1) /\ g[i] = f[i]
              BY <2>2, <6>2
            <7> HIDE DEF g, Step
            <7> QED
              BY <3>3, <7>1
          <6> QED
            BY <6>1, <6>2
        <5> QED
          BY <4>2, <5>1, <5>2
      <4> QED
        BY <4>1, <4>2
    <3>5. g = [i \in 0..m |-> Step(g, i)]
      <4>1. [i \in 0..m |-> g[i]] = [i \in 0..m |-> Step(g, i)]
        BY <3>4, Zenon
      <4> QED
        BY <4>1
    <3>6. Has(m)
      <4> HIDE DEF g
      <4> QED
        BY <3>5
    <3> QED
      BY <2>2, <3>6
  <2> QED
    BY <2>3, <2>4
<1>2. Has(Len(list))
  <2>1. Len(list) \in 0..Len(list)
    BY <1>0
  <2> HIDE DEF Has
  <2> QED
    BY <1>1, <2>1
<1> DEFINE kept == CHOOSE f : f = [i \in 0..Len(list) |-> Step(f, i)]
<1>3. kept = [i \in 0..Len(list) |-> Step(kept, i)]
  BY <1>2
<1>4. InWindow(r, list, now) = kept[Len(list)]
  BY DEF InWindow
<1>5. Filtering(kept, list, cutoff)
  <2> HIDE DEF kept
  <2>1. \A i \in 0..Len(list) : kept[i] = Step(kept, i)
    <3> HIDE DEF Step
    <3> QED
      BY <1>3
  <2>2. kept[0] = <<>>
    BY <1>0, <2>1
  <2>3. ASSUME NEW i \in 1..Len(list) PROVE i \in 0..Len(list) /\ i # 0
    BY <1>0, <2>3
  <2> HIDE DEF cutoff
  <2> QED
    BY <2>1, <2>2, <2>3 DEF Filtering
<1> HIDE DEF kept
<1> QED
  BY <1>4, <1>5

\* What the filter keeps of the first n entries are those over the cutoff,
\* each once and in their order.
Kept(out, list, n, cutoff) ==
  /\ out \in Seq(Time) /\ Len(out) <= n
  /\ Len(out) = n => \A j \in 1..n : out[j] = list[j]
  /\ \A a \in 1..Len(out) : out[a] > cutoff
  /\ \E g \in [1..Len(out) -> 1..n] :
       /\ \A a, b \in 1..Len(out) : a < b => g[a] < g[b]
       /\ \A a \in 1..Len(out) : out[a] = list[g[a]]
       /\ \A j \in 1..n : list[j] > cutoff => \E a \in 1..Len(out) : g[a] = j

LEMMA KeptNothing ==
  ASSUME NEW list, NEW cutoff
  PROVE  Kept(<<>>, list, 0, cutoff)
<1>1. <<>> \in Seq(Time) /\ Len(<<>>) = 0
  OBVIOUS
<1>2. \E g \in [1..0 -> 1..0] : TRUE
  <2>1. [a \in 1..0 |-> 0] \in [1..0 -> 1..0]
    OBVIOUS
  <2> QED
    BY <2>1
<1>3. \A a : a \notin 1..0
  OBVIOUS
<1>4. \E g \in [1..0 -> 1..0] :
        /\ \A a, b \in 1..0 : a < b => g[a] < g[b]
        /\ \A a \in 1..0 : <<>>[a] = list[g[a]]
        /\ \A j \in 1..0 : list[j] > cutoff => \E a \in 1..0 : g[a] = j
  BY <1>2, <1>3, Zenon
<1>5. 0 <= 0
  OBVIOUS
<1> QED
  BY <1>1, <1>3, <1>4, <1>5, Zenon DEF Kept

LEMMA KeptSkips ==
  ASSUME NEW list, NEW cutoff, NEW out, NEW n \in Nat,
         Kept(out, list, n, cutoff), ~(list[n + 1] > cutoff)
  PROVE  Kept(out, list, n + 1, cutoff)
<1>1. PICK g \in [1..Len(out) -> 1..n] :
        /\ \A a, b \in 1..Len(out) : a < b => g[a] < g[b]
        /\ \A a \in 1..Len(out) : out[a] = list[g[a]]
        /\ \A j \in 1..n : list[j] > cutoff => \E a \in 1..Len(out) : g[a] = j
  BY DEF Kept
<1>2. out \in Seq(Time) /\ Len(out) \in Nat /\ Len(out) <= n
  BY ListShape DEF Kept
<1>3. g \in [1..Len(out) -> 1..(n + 1)]
  OBVIOUS
<1>4. ASSUME NEW j \in 1..(n + 1), list[j] > cutoff
      PROVE  \E a \in 1..Len(out) : g[a] = j
  <2>1. j \in 1..n
    BY <1>4
  <2> QED
    BY <1>1, <1>4, <2>1
<1>5. \A a \in 1..Len(out) : out[a] > cutoff
  BY DEF Kept
<1>6. Len(out) <= n + 1 /\ Len(out) # n + 1
  BY <1>2
<1>7. \E f \in [1..Len(out) -> 1..(n + 1)] :
        /\ \A a, b \in 1..Len(out) : a < b => f[a] < f[b]
        /\ \A a \in 1..Len(out) : out[a] = list[f[a]]
        /\ \A j \in 1..(n + 1) : list[j] > cutoff => \E a \in 1..Len(out) : f[a] = j
  BY <1>1, <1>3, <1>4
<1> QED
  BY <1>2, <1>5, <1>6, <1>7 DEF Kept

LEMMA KeptTakes ==
  ASSUME NEW list, NEW cutoff \in Int, NEW out, NEW n \in Nat,
         Kept(out, list, n, cutoff), list[n + 1] \in Time, list[n + 1] > cutoff
  PROVE  Kept(Append(out, list[n + 1]), list, n + 1, cutoff)
<1> DEFINE new == Append(out, list[n + 1])
<1>1. PICK g \in [1..Len(out) -> 1..n] :
        /\ \A a, b \in 1..Len(out) : a < b => g[a] < g[b]
        /\ \A a \in 1..Len(out) : out[a] = list[g[a]]
        /\ \A j \in 1..n : list[j] > cutoff => \E a \in 1..Len(out) : g[a] = j
  BY DEF Kept
<1>2. out \in Seq(Time) /\ Len(out) \in Nat /\ Len(out) <= n
  BY ListShape DEF Kept
<1>3. /\ new \in Seq(Time) /\ Len(new) = Len(out) + 1
      /\ \A i \in 1..Len(out) : new[i] = out[i]
      /\ new[Len(out) + 1] = list[n + 1]
  BY <1>2, ListAppended
<1> HIDE DEF new
<1> DEFINE h == [a \in 1..Len(new) |-> IF a = Len(out) + 1 THEN n + 1 ELSE g[a]]
<1>4. \A a \in 1..Len(new) : a # Len(out) + 1 => a \in 1..Len(out)
  BY <1>2, <1>3
<1>5. /\ \A a \in 1..Len(out) : a \in 1..Len(new) /\ h[a] = g[a] /\ g[a] \in 1..n
      /\ Len(out) + 1 \in 1..Len(new) /\ h[Len(out) + 1] = n + 1
  BY <1>2, <1>3
<1>6. h \in [1..Len(new) -> 1..(n + 1)]
  <2>1. ASSUME NEW a \in 1..Len(new) PROVE h[a] \in 1..(n + 1)
    <3> HIDE DEF h
    <3> QED
      BY <1>4, <1>5
  <2> QED
    BY <2>1
<1> HIDE DEF h
<1>7. ASSUME NEW a \in 1..Len(new), NEW b \in 1..Len(new), a < b PROVE h[a] < h[b]
  <2>1. a \in 1..Len(out)
    BY <1>2, <1>3, <1>7
  <2>2. CASE b = Len(out) + 1
    BY <1>5, <2>1, <2>2
  <2>3. CASE b # Len(out) + 1
    BY <1>1, <1>4, <1>5, <1>7, <2>1, <2>3
  <2> QED
    BY <2>2, <2>3
<1>8. \A a \in 1..Len(new) : new[a] = list[h[a]]
  BY <1>1, <1>3, <1>4, <1>5
<1>9. ASSUME NEW j \in 1..(n + 1), list[j] > cutoff
      PROVE  \E a \in 1..Len(new) : h[a] = j
  <2>1. CASE j = n + 1
    BY <1>5, <2>1
  <2>2. CASE j # n + 1
    <3>1. j \in 1..n
      BY <2>2
    <3> QED
      BY <1>1, <1>5, <1>9, <3>1
  <2> QED
    BY <2>1, <2>2
<1>10. ASSUME Len(new) = n + 1, NEW j \in 1..(n + 1) PROVE new[j] = list[j]
  <2>1. Len(out) = n
    BY <1>2, <1>3, <1>10
  <2>2. CASE j = n + 1
    BY <1>3, <2>1, <2>2
  <2>3. CASE j # n + 1
    <3>1. j \in 1..n
      BY <2>3
    <3> QED
      BY <1>3, <2>1, <3>1 DEF Kept
  <2> QED
    BY <2>2, <2>3
<1>11. ASSUME NEW a \in 1..Len(new) PROVE new[a] > cutoff
  <2>1. CASE a = Len(out) + 1
    BY <1>3, <2>1
  <2>2. CASE a # Len(out) + 1
    BY <1>3, <1>4, <2>2 DEF Kept
  <2> QED
    BY <2>1, <2>2
<1>12. Len(new) <= n + 1
  BY <1>2, <1>3
<1>13. Kept(new, list, n + 1, cutoff)
  BY <1>3, <1>6, <1>7, <1>8, <1>9, <1>10, <1>11, <1>12 DEF Kept
<1> QED
  BY <1>13 DEF new

LEMMA FilterKeeps ==
  ASSUME NEW r \in Rules, NEW list \in Seq(Time), NEW now \in Int
  PROVE  Kept(InWindow(r, list, now), list, Len(list), now - Period[r])
<1> DEFINE cutoff == now - Period[r]
<1>1. PICK k : Filtering(k, list, cutoff) /\ InWindow(r, list, now) = k[Len(list)]
  BY InWindowFilters
<1>2. Len(list) \in Nat /\ \A i \in 1..Len(list) : list[i] \in Time
  BY ListShape
<1>3. cutoff \in Int
  BY ConstantsAssumption
<1> DEFINE Bad == {n \in 0..Len(list) : ~Kept(k[n], list, n, cutoff)}
<1> HIDE DEF cutoff
<1>4. Bad = {}
  <2> SUFFICES ASSUME Bad # {} PROVE FALSE
    OBVIOUS
  <2>1. PICK m \in Bad : \A n \in Bad : m <= n
    <3>1. Bad \in SUBSET Nat
      BY <1>2
    <3> HIDE DEF Bad
    <3> QED
      BY <3>1, LeastNat
  <2>2. m \in 0..Len(list) /\ m \in Nat /\ ~Kept(k[m], list, m, cutoff)
    BY <1>2, <2>1
  <2>3. CASE m = 0
    BY <1>1, <2>2, <2>3, KeptNothing DEF Filtering
  <2>4. CASE m # 0
    <3> DEFINE n == m - 1
    <3>1. n \in 0..Len(list) /\ n \in Nat /\ ~(m <= n) /\ m = n + 1 /\ m \in 1..Len(list)
      BY <1>2, <2>2, <2>4
    <3>2. Kept(k[n], list, n, cutoff)
      BY <2>1, <3>1
    <3>3. k[m] = IF list[m] > cutoff THEN Append(k[n], list[m]) ELSE k[n]
      BY <1>1, <3>1 DEF Filtering
    <3>4. list[n + 1] \in Time
      BY <1>2, <3>1
    <3> HIDE DEF n, Bad
    <3>5. CASE list[m] > cutoff
      BY <1>3, <2>2, <3>1, <3>2, <3>3, <3>4, <3>5, KeptTakes
    <3>6. CASE ~(list[m] > cutoff)
      BY <2>2, <3>1, <3>2, <3>3, <3>6, KeptSkips
    <3> QED
      BY <3>5, <3>6
  <2> QED
    BY <2>3, <2>4
<1>5. Len(list) \in 0..Len(list)
  BY <1>2
<1> QED
  BY <1>1, <1>4, <1>5 DEF cutoff

\* Of a list in order, the filter keeps all that comes after a certain entry.
Suffix(out, list, n, cutoff) ==
  \E d \in 0..n :
    /\ Len(out) = n - d
    /\ \A a \in 1..(n - d) : out[a] = list[d + a]
    /\ \A j \in 1..d : list[j] <= cutoff
    /\ \A j \in (d + 1)..n : list[j] > cutoff

InOrder(list) == \A i, j \in DOMAIN list : i <= j => list[i] <= list[j]

LEMMA SuffixStep ==
  ASSUME NEW list \in Seq(Time), InOrder(list), NEW cutoff \in Int,
         NEW n \in Nat, n + 1 <= Len(list),
         NEW out \in Seq(Time), Suffix(out, list, n, cutoff),
         NEW new, new = IF list[n + 1] > cutoff THEN Append(out, list[n + 1]) ELSE out
  PROVE  Suffix(new, list, n + 1, cutoff)
<1>1. PICK d \in 0..n :
        /\ Len(out) = n - d
        /\ \A a \in 1..(n - d) : out[a] = list[d + a]
        /\ \A j \in 1..d : list[j] <= cutoff
        /\ \A j \in (d + 1)..n : list[j] > cutoff
  BY DEF Suffix
<1>2. /\ Len(list) \in Nat /\ DOMAIN list = 1..Len(list)
      /\ \A i \in 1..Len(list) : list[i] \in Int
  BY ConstantsAssumption, ListShape DEF Time
<1>3. n + 1 \in 1..Len(list) /\ list[n + 1] \in Time
  BY <1>2, ListShape
<1>4. CASE list[n + 1] > cutoff
  <2>1. /\ Len(new) = Len(out) + 1
        /\ \A i \in 1..Len(out) : new[i] = out[i]
        /\ new[Len(out) + 1] = list[n + 1]
    BY <1>3, <1>4, ListAppended
  <2>2. d \in 0..(n + 1) /\ Len(new) = (n + 1) - d
    BY <1>1, <2>1
  <2>3. ASSUME NEW a \in 1..((n + 1) - d) PROVE new[a] = list[d + a]
    <3>1. CASE a = (n + 1) - d
      BY <1>1, <2>1, <3>1
    <3>2. CASE a # (n + 1) - d
      <4>1. a \in 1..(n - d)
        BY <3>2
      <4> QED
        BY <1>1, <2>1, <4>1
    <3> QED
      BY <3>1, <3>2
  <2>4. ASSUME NEW j \in (d + 1)..(n + 1) PROVE list[j] > cutoff
    <3>1. j = n + 1 \/ j \in (d + 1)..n
      OBVIOUS
    <3> QED
      BY <1>1, <1>4, <3>1
  <2> QED
    BY <1>1, <2>2, <2>3, <2>4 DEF Suffix
<1>5. CASE ~(list[n + 1] > cutoff)
  <2>1. ASSUME NEW j \in 1..(n + 1) PROVE list[j] <= cutoff
    <3>1. j \in 1..Len(list) /\ j <= n + 1
      BY <1>2
    <3>2. list[j] <= list[n + 1]
      BY <1>2, <1>3, <3>1 DEF InOrder
    <3> QED
      BY <1>2, <1>3, <1>5, <3>1, <3>2
  <2>2. d = n
    <3> SUFFICES ASSUME d # n PROVE FALSE
      OBVIOUS
    <3>1. n \in (d + 1)..n /\ n \in 1..(n + 1) /\ n \in 1..Len(list)
      BY <1>2
    <3>2. list[n] > cutoff /\ list[n] <= cutoff /\ list[n] \in Int
      BY <1>1, <1>2, <2>1, <3>1
    <3> QED
      BY <3>2
  <2>3. n + 1 \in 0..(n + 1) /\ Len(new) = (n + 1) - (n + 1)
    BY <1>1, <1>5, <2>2
  <2>4. /\ \A a \in 1..((n + 1) - (n + 1)) : new[a] = list[(n + 1) + a]
        /\ \A j \in ((n + 1) + 1)..(n + 1) : list[j] > cutoff
    OBVIOUS
  <2> QED
    BY <2>1, <2>3, <2>4 DEF Suffix
<1> QED
  BY <1>4, <1>5

LEMMA FilterOfOrdered ==
  ASSUME NEW r \in Rules, NEW list \in Seq(Time), InOrder(list), NEW now \in Int
  PROVE  Suffix(InWindow(r, list, now), list, Len(list), now - Period[r])
<1> DEFINE cutoff == now - Period[r]
<1>1. PICK k : Filtering(k, list, cutoff) /\ InWindow(r, list, now) = k[Len(list)]
  BY InWindowFilters
<1>2. Len(list) \in Nat /\ \A i \in 1..Len(list) : list[i] \in Time
  BY ListShape
<1>3. cutoff \in Int
  BY ConstantsAssumption
<1> DEFINE Good(n) == k[n] \in Seq(Time) /\ Suffix(k[n], list, n, cutoff)
           Bad == {n \in 0..Len(list) : ~Good(n)}
<1> HIDE DEF cutoff
<1>4. Bad = {}
  <2> SUFFICES ASSUME Bad # {} PROVE FALSE
    OBVIOUS
  <2>1. PICK m \in Bad : \A n \in Bad : m <= n
    <3>1. Bad \in SUBSET Nat
      BY <1>2
    <3> HIDE DEF Bad
    <3> QED
      BY <3>1, LeastNat
  <2>2. m \in 0..Len(list) /\ m \in Nat /\ ~Good(m)
    BY <1>2, <2>1
  <2>3. CASE m = 0
    <3>1. k[0] = <<>> /\ k[0] \in Seq(Time)
      BY <1>1 DEF Filtering
    <3>2. Suffix(<<>>, list, 0, cutoff)
      <4>1. 0 \in 0..0 /\ Len(<<>>) = 0 - 0 /\ 1..0 = {} /\ (0 + 1)..0 = {}
            /\ 1..(0 - 0) = {}
        OBVIOUS
      <4> QED
        BY <4>1, Zenon DEF Suffix
    <3> QED
      BY <2>2, <2>3, <3>1, <3>2
  <2>4. CASE m # 0
    <3> DEFINE n == m - 1
    <3>1. /\ n \in 0..Len(list) /\ n \in Nat /\ ~(m <= n) /\ m = n + 1
          /\ m \in 1..Len(list) /\ n + 1 <= Len(list)
      BY <1>2, <2>2, <2>4
    <3>2. Good(n)
      BY <2>1, <3>1
    <3>3. k[m] = IF list[m] > cutoff THEN Append(k[n], list[m]) ELSE k[n]
      BY <1>1, <3>1 DEF Filtering
    <3>4. list[n + 1] \in Time
      BY <1>2, <3>1
    <3> HIDE DEF n, Bad
    <3>5. k[m] \in Seq(Time)
      BY <3>1, <3>2, <3>3, <3>4, ListAppended
    <3>6. Suffix(k[m], list, n + 1, cutoff)
      BY <1>3, <3>1, <3>2, <3>3, SuffixStep
    <3> QED
      BY <2>2, <3>1, <3>5, <3>6
  <2> QED
    BY <2>3, <2>4
<1>5. Len(list) \in 0..Len(list)
  BY <1>2
<1> QED
  BY <1>1, <1>4, <1>5 DEF cutoff

-----------------------------------------------------------------------------
(* Requests at work. *)

LEMMA Stages ==
  ASSUME NEW S \in SUBSET Rules, NEW now \in Time
  PROVE  /\ [stage |-> "check", todo |-> S, now |-> now] \in Proc
         /\ \A list \in Seq(Time) :
              [stage |-> "record", todo |-> S, now |-> now, list |-> list] \in Proc
BY DEF Proc

LEMMA Answers ==
  ASSUME NEW n \in Nat \ {0}
  PROVE  [stage |-> "rejected", wait |-> n] \in Proc
BY DEF Proc

LEMMA AtWork ==
  ASSUME TypeOK, NEW t \in Threads
  PROVE  /\ proc[t].stage \in {"check", "record"} =>
              proc[t].todo \in SUBSET Rules /\ proc[t].now \in Time
         /\ proc[t].stage = "record" => proc[t].list \in Seq(Time)
<1>1. PICK p : p = proc[t]
  OBVIOUS
<1>2. p \in Proc \cup {Idle}
  BY <1>1 DEF TypeOK
<1>3. /\ p.stage \in {"check", "record"} => p.todo \in SUBSET Rules /\ p.now \in Time
      /\ p.stage = "record" => p.list \in Seq(Time)
  BY <1>2 DEF Proc, Idle
<1> QED
  BY <1>1, <1>3

\* A request at work is at one of its rules.
LEMMA CurrentIsARule ==
  ASSUME TypeOK, Working, NEW t \in Threads, proc[t].stage \in {"check", "record"}
  PROVE  Current(t) \in proc[t].todo /\ Current(t) \in Rules
<1>1. proc[t].todo \in SUBSET Rules /\ proc[t].todo # {}
  BY AtWork DEF Working, InProgress
<1>2. proc[t].todo \in SUBSET Nat
  BY <1>1, ConstantsAssumption
<1> QED
  BY <1>1, <1>2, MinOfNats DEF Current

LEMMA CachedList ==
  ASSUME TypeOK, NEW r \in Rules
  PROVE  Cached(r) \in Seq(Time) /\ Cached(r) \in {history[r], <<>>}
<1>1. history[r] \in Seq(Time)
  BY DEF TypeOK
<1> QED
  BY <1>1 DEF Cached

LEMMA Limits ==
  ASSUME NEW r \in Rules
  PROVE  /\ EffectiveLimit(r) \in Nat \ {0}
         /\ Period[r] \in Nat \ {0}
         /\ \A n \in Time : n - Period[r] \in Int
<1>1. RateLimit[r] \in Nat /\ BurstLimit[r] \in Nat /\ RateLimit[r] + BurstLimit[r] > 0
  BY ConstantsAssumption
<1>2. Period[r] \in Nat \ {0} /\ MaxTime \in Nat
  BY ConstantsAssumption
<1> QED
  BY <1>1, <1>2 DEF EffectiveLimit, Time

\* What a request at a rule finds in its window.
LEMMA Window ==
  ASSUME TypeOK, Working, NEW t \in Threads, proc[t].stage = "check"
  PROVE  LET r == Current(t)
             list == InWindow(r, Cached(r), proc[t].now)
         IN /\ r \in Rules /\ proc[t].todo \in SUBSET Rules /\ proc[t].now \in Time
            /\ list \in Seq(Time) /\ Len(list) \in Nat
            /\ Kept(list, Cached(r), Len(Cached(r)), proc[t].now - Period[r])
<1> DEFINE r == Current(t)
<1>1. r \in Rules /\ proc[t].todo \in SUBSET Rules /\ proc[t].now \in Time
  BY CurrentIsARule, AtWork
<1>2. proc[t].now \in Int
  BY <1>1, ConstantsAssumption DEF Time
<1>3. Cached(r) \in Seq(Time)
  BY <1>1, CachedList
<1> HIDE DEF r
<1>4. Kept(InWindow(r, Cached(r), proc[t].now), Cached(r), Len(Cached(r)),
           proc[t].now - Period[r])
  BY <1>1, <1>2, <1>3, FilterKeeps
<1> QED
  BY <1>1, <1>4, ListShape DEF Kept, r

\* A request that is told to wait is told to wait at least a second.
LEMMA WaitTyped ==
  ASSUME NEW r \in Rules, NEW list \in Seq(Time), Full(r, list), NEW now \in Time
  PROVE  /\ Len(list) > 0 /\ list[1] \in Time
         /\ Wait(r, list, now) \in Nat \ {0}
         /\ (Wait(r, list, now) + 1) * TicksPerSecond > list[1] + Period[r] - now
<1>1. Len(list) \in Nat /\ Len(list) >= 1
  BY ListShape, Limits DEF Full
<1>2. list[1] \in Time
  BY <1>1, ListShape
<1> DEFINE x == list[1] + Period[r] - now
           q == x \div TicksPerSecond
           m == Wait(r, list, now)
<1>3. x \in Int
  <2>1. list[1] \in Int /\ now \in Int
    BY <1>2, ConstantsAssumption DEF Time
  <2>2. Period[r] \in Int
    BY Limits
  <2> QED
    BY <2>1, <2>2
<1>4. TicksPerSecond \in Nat \ {0}
  BY ConstantsAssumption
<1> HIDE DEF x
<1>5. q \in Int /\ (q + 1) * TicksPerSecond > x
  BY <1>3, <1>4, SecondsCoverTicks
<1>6. m = Max({1, q})
  BY DEF Wait, x
<1> HIDE DEF q, m
<1>7. m \in Nat \ {0} /\ m >= q
  BY <1>5, <1>6, MaxWithOne
<1>8. (m + 1) * TicksPerSecond >= (q + 1) * TicksPerSecond
  <2>1. PICK d \in Nat : m = q + d
    <3>1. m - q \in Nat /\ m = q + (m - q)
      BY <1>5, <1>7
    <3> QED
      BY <3>1
  <2>2. d * TicksPerSecond \in Nat
    BY <1>4
  <2>3. (m + 1) * TicksPerSecond = (q + 1) * TicksPerSecond + d * TicksPerSecond
    BY <1>4, <1>5, <2>1
  <2>4. (q + 1) * TicksPerSecond \in Int
    BY <1>4, <1>5
  <2> QED
    BY <2>2, <2>3, <2>4
<1>9. (m + 1) * TicksPerSecond \in Int /\ (q + 1) * TicksPerSecond \in Int
  BY <1>4, <1>5, <1>7
<1>10. (m + 1) * TicksPerSecond > x
  BY <1>3, <1>5, <1>8, <1>9
<1> QED
  BY <1>1, <1>2, <1>7, <1>10 DEF m, x

-----------------------------------------------------------------------------
(* Types *)

LEMMA TypeInit == Init => TypeOK
<1> SUFFICES ASSUME Init PROVE TypeOK
  OBVIOUS
<1>1. 0 \in Time /\ <<>> \in Seq(Time)
  BY ConstantsAssumption DEF Time
<1>2. proc \in [Threads -> Proc \cup {Idle}]
  BY DEF Init
<1>3. /\ history \in [Rules -> Seq(Time)] /\ passes \in [Rules -> Seq(Time)]
      /\ storedAt \in [Rules -> Time]
  BY <1>1 DEF Init
<1> QED
  BY <1>1, <1>2, <1>3 DEF Init, TypeOK

LEMMA TypeStep == TypeOK /\ Working /\ [Next]_vars => TypeOK'
<1> SUFFICES ASSUME TypeOK, Working, [Next]_vars PROVE TypeOK'
  OBVIOUS
<1>1. ASSUME NEW t \in Threads, NEW S \in (SUBSET Rules) \ {{}}, Request(t, S)
      PROVE  TypeOK'
  <2>1. [stage |-> "check", todo |-> S, now |-> clock] \in Proc
    BY Stages DEF TypeOK
  <2>2. requests' \in Nat /\ overlapped' \in BOOLEAN
    BY <1>1 DEF Request, TypeOK
  <2> QED
    BY <1>1, <2>1, <2>2 DEF Request, TypeOK
<1>2. ASSUME NEW t \in Threads, Pass(t) PROVE TypeOK'
  <2> DEFINE list == InWindow(Current(t), Cached(Current(t)), proc[t].now)
             new == [stage |-> "record", todo |-> proc[t].todo,
                     now |-> proc[t].now, list |-> Append(list, proc[t].now)]
  <2>1. proc[t].todo \in SUBSET Rules /\ proc[t].now \in Time /\ list \in Seq(Time)
    BY <1>2, Window DEF Pass
  <2>2. new \in Proc
    BY <2>1, ListAppended, Stages
  <2>3. proc' = [proc EXCEPT ![t] = new]
    BY <1>2 DEF Pass
  <2> HIDE DEF new, list
  <2> QED
    BY <1>2, <2>2, <2>3 DEF Pass, TypeOK
<1>3. ASSUME NEW t \in Threads, Reject(t) PROVE TypeOK'
  <2> DEFINE r == Current(t)
             list == InWindow(r, Cached(r), proc[t].now)
             new == [stage |-> "rejected", wait |-> Wait(r, list, proc[t].now)]
  <2>1. r \in Rules /\ proc[t].now \in Time /\ list \in Seq(Time)
    BY <1>3, Window DEF Reject
  <2>2. Full(r, list) /\ proc' = [proc EXCEPT ![t] = new]
    BY <1>3 DEF Reject
  <2>3. new \in Proc
    BY <2>1, <2>2, WaitTyped, Answers
  <2> HIDE DEF new
  <2> QED
    BY <1>3, <2>2, <2>3 DEF Reject, TypeOK
<1>4. ASSUME NEW t \in Threads, Record(t) PROVE TypeOK'
  <2> DEFINE r == Current(t)
             rest == proc[t].todo \ {r}
  <2>1. /\ proc[t].todo \in SUBSET Rules /\ proc[t].now \in Time
        /\ proc[t].list \in Seq(Time) /\ r \in Rules
    BY <1>4, AtWork, CurrentIsARule DEF Record
  <2>2. /\ history' = [history EXCEPT ![r] = proc[t].list]
        /\ storedAt' = [storedAt EXCEPT ![r] = clock]
        /\ passes' = [passes EXCEPT ![r] = Append(passes[r], proc[t].now)]
        /\ proc' = [proc EXCEPT ![t] =
                      IF rest = {} THEN Idle
                      ELSE [stage |-> "check", todo |-> rest, now |-> clock]]
        /\ UNCHANGED <<clock, overlapped, requests>>
    BY <1>4 DEF Record
  <2>3. [stage |-> "check", todo |-> rest, now |-> clock] \in Proc
    BY <2>1, Stages DEF TypeOK
  <2>4. Append(passes[r], proc[t].now) \in Seq(Time)
    BY <2>1, ListAppended DEF TypeOK
  <2> HIDE DEF r, rest
  <2> QED
    BY <2>1, <2>2, <2>3, <2>4 DEF TypeOK
<1>5. CASE Tick
  BY <1>5, ConstantsAssumption DEF Tick, TypeOK, Time
<1>6. CASE UNCHANGED vars
  BY <1>6 DEF vars, TypeOK
<1> QED
  BY <1>1, <1>2, <1>3, <1>4, <1>5, <1>6 DEF Next

\* What the steps of a request make of its record, and of no other's.
LEMMA RequestMoves ==
  ASSUME TypeOK, NEW t \in Threads, NEW S \in (SUBSET Rules) \ {{}}, Request(t, S)
  PROVE  /\ proc'[t] = [stage |-> "check", todo |-> S, now |-> clock]
         /\ proc'[t].stage = "check" /\ proc'[t].todo = S /\ proc'[t].now = clock
         /\ \A u \in Threads : u # t => proc'[u] = proc[u]
BY DEF Request, TypeOK

LEMMA PassMoves ==
  ASSUME TypeOK, NEW t \in Threads, Pass(t)
  PROVE  LET r == Current(t)
             list == InWindow(r, Cached(r), proc[t].now)
         IN /\ proc[t].stage = "check" /\ proc'[t].stage = "record" /\ ~Full(r, list)
            /\ proc'[t].todo = proc[t].todo /\ proc'[t].now = proc[t].now
            /\ proc'[t].list = Append(list, proc[t].now)
            /\ Min(proc'[t].todo) = r
            /\ \A u \in Threads : u # t => proc'[u] = proc[u]
            /\ UNCHANGED <<clock, history, storedAt, passes, overlapped, requests>>
<1> DEFINE list == InWindow(Current(t), Cached(Current(t)), proc[t].now)
           new == [stage |-> "record", todo |-> proc[t].todo,
                   now |-> proc[t].now, list |-> Append(list, proc[t].now)]
<1>1. /\ proc[t].stage = "check" /\ ~Full(Current(t), list)
      /\ proc' = [proc EXCEPT ![t] = new]
      /\ UNCHANGED <<clock, history, storedAt, passes, overlapped, requests>>
  BY DEF Pass
<1>2. proc'[t] = new /\ \A u \in Threads : u # t => proc'[u] = proc[u]
  <2> HIDE DEF new
  <2> QED
    BY <1>1 DEF TypeOK
<1>3. /\ proc'[t].stage = "record" /\ proc'[t].todo = proc[t].todo
      /\ proc'[t].now = proc[t].now /\ proc'[t].list = Append(list, proc[t].now)
  <2> HIDE DEF list
  <2> QED
    BY <1>2
<1>4. Min(proc'[t].todo) = Current(t)
  BY <1>3 DEF Current
<1> QED
  BY <1>1, <1>2, <1>3, <1>4

LEMMA RejectMoves ==
  ASSUME TypeOK, NEW t \in Threads, Reject(t)
  PROVE  LET r == Current(t)
             list == InWindow(r, Cached(r), proc[t].now)
         IN /\ proc[t].stage = "check" /\ Full(r, list)
            /\ proc'[t] = [stage |-> "rejected", wait |-> Wait(r, list, proc[t].now)]
            /\ proc'[t].stage = "rejected" /\ proc'[t].wait = Wait(r, list, proc[t].now)
            /\ \A u \in Threads : u # t => proc'[u] = proc[u]
            /\ UNCHANGED <<clock, history, storedAt, passes, overlapped, requests>>
<1> DEFINE list == InWindow(Current(t), Cached(Current(t)), proc[t].now)
           w == Wait(Current(t), list, proc[t].now)
<1>1. /\ proc[t].stage = "check" /\ Full(Current(t), list)
      /\ proc' = [proc EXCEPT ![t] = [stage |-> "rejected", wait |-> w]]
      /\ UNCHANGED <<clock, history, storedAt, passes, overlapped, requests>>
  BY DEF Reject
<1> HIDE DEF w, list
<1>2. /\ proc'[t] = [stage |-> "rejected", wait |-> w]
      /\ proc'[t].stage = "rejected" /\ proc'[t].wait = w
      /\ \A u \in Threads : u # t => proc'[u] = proc[u]
  BY <1>1 DEF TypeOK
<1> QED
  BY <1>1, <1>2 DEF w, list

LEMMA RecordMoves ==
  ASSUME TypeOK, Working, NEW t \in Threads, Record(t)
  PROVE  LET r == Current(t)
             rest == proc[t].todo \ {r}
         IN /\ r \in Rules /\ r \in proc[t].todo /\ proc[t].stage = "record"
            /\ proc[t].list \in Seq(Time) /\ proc[t].now \in Time
            /\ \/ rest = {} /\ proc'[t] = Idle
               \/ /\ rest # {} /\ proc'[t].stage = "check"
                  /\ proc'[t].todo = rest /\ proc'[t].now = clock
            /\ proc'[t].stage \in {"idle", "check"}
            /\ \A u \in Threads : u # t => proc'[u] = proc[u]
            /\ history'[r] = proc[t].list /\ storedAt'[r] = clock
            /\ passes'[r] = Append(passes[r], proc[t].now)
            /\ \A q \in Rules : q # r => /\ history'[q] = history[q]
                                         /\ storedAt'[q] = storedAt[q]
                                         /\ passes'[q] = passes[q]
            /\ UNCHANGED <<clock, overlapped, requests>>
<1> DEFINE r == Current(t)
           rest == proc[t].todo \ {r}
           new == IF rest = {} THEN Idle
                  ELSE [stage |-> "check", todo |-> rest, now |-> clock]
<1>1. /\ proc[t].stage = "record"
      /\ history' = [history EXCEPT ![r] = proc[t].list]
      /\ storedAt' = [storedAt EXCEPT ![r] = clock]
      /\ passes' = [passes EXCEPT ![r] = Append(passes[r], proc[t].now)]
      /\ proc' = [proc EXCEPT ![t] = new]
      /\ UNCHANGED <<clock, overlapped, requests>>
  BY DEF Record
<1>2. /\ r \in Rules /\ r \in proc[t].todo
      /\ proc[t].list \in Seq(Time) /\ proc[t].now \in Time
  BY <1>1, AtWork, CurrentIsARule
<1> HIDE DEF r
<1>3. /\ \/ rest = {} /\ new = Idle
         \/ /\ rest # {} /\ new.stage = "check" /\ new.todo = rest /\ new.now = clock
      /\ new.stage \in {"idle", "check"}
  BY DEF Idle
<1> HIDE DEF rest, new
<1>4. proc'[t] = new /\ \A u \in Threads : u # t => proc'[u] = proc[u]
  BY <1>1 DEF TypeOK
<1>5. /\ history'[r] = proc[t].list /\ storedAt'[r] = clock
      /\ passes'[r] = Append(passes[r], proc[t].now)
      /\ \A q \in Rules : q # r => /\ history'[q] = history[q]
                                   /\ storedAt'[q] = storedAt[q]
                                   /\ passes'[q] = passes[q]
  BY <1>1, <1>2 DEF TypeOK
<1> QED
  BY <1>1, <1>2, <1>3, <1>4, <1>5 DEF r, rest

LEMMA WorkingInit == Init => Working
BY DEF Init, Working, InProgress, Idle

LEMMA WorkingStep == TypeOK /\ Working /\ [Next]_vars => Working'
<1> SUFFICES ASSUME TypeOK, Working, [Next]_vars PROVE Working'
  OBVIOUS
<1>0. clock \in Nat /\ MaxDelay \in Nat
  BY ConstantsAssumption DEF TypeOK, Time
<1>1. ASSUME NEW t \in Threads, NEW S \in (SUBSET Rules) \ {{}}, Request(t, S)
      PROVE  Working'
  <2>1. clock' = clock
    BY <1>1 DEF Request
  <2>2. /\ proc'[t].stage = "check" /\ proc'[t].todo = S /\ proc'[t].now = clock
        /\ \A u \in Threads : u # t => proc'[u] = proc[u]
    BY <1>1, RequestMoves
  <2>3. S # {}
    OBVIOUS
  <2>4. /\ InProgress(t)' => proc'[t].todo # {} /\ proc'[t].now <= clock'
        /\ proc'[t].stage = "check" => clock' <= proc'[t].now + MaxDelay
    BY <1>0, <2>1, <2>2, <2>3
  <2>5. \A u \in Threads : u # t =>
          /\ InProgress(u)' => proc'[u].todo # {} /\ proc'[u].now <= clock'
          /\ proc'[u].stage = "check" => clock' <= proc'[u].now + MaxDelay
    BY <2>1, <2>2 DEF Working, InProgress
  <2> QED
    BY <2>4, <2>5 DEF Working
<1>2. ASSUME NEW t \in Threads, Pass(t) PROVE Working'
  <2>1. /\ proc[t].stage = "check" /\ proc'[t].stage = "record"
        /\ proc'[t].todo = proc[t].todo /\ proc'[t].now = proc[t].now
        /\ \A u \in Threads : u # t => proc'[u] = proc[u]
        /\ clock' = clock
    BY <1>2, PassMoves
  <2> QED
    BY <2>1 DEF Working, InProgress
<1>3. ASSUME NEW t \in Threads, Reject(t) PROVE Working'
  <2>1. /\ proc'[t].stage = "rejected" /\ clock' = clock
        /\ \A u \in Threads : u # t => proc'[u] = proc[u]
    BY <1>3, RejectMoves
  <2> QED
    BY <2>1 DEF Working, InProgress
<1>4. ASSUME NEW t \in Threads, Record(t) PROVE Working'
  <2>1. /\ clock' = clock /\ \A u \in Threads : u # t => proc'[u] = proc[u]
        /\ \/ proc'[t] = Idle
           \/ /\ proc[t].todo \ {Current(t)} # {} /\ proc'[t].stage = "check"
              /\ proc'[t].todo = proc[t].todo \ {Current(t)} /\ proc'[t].now = clock
    BY <1>4, RecordMoves
  <2> QED
    BY <1>0, <2>1 DEF Working, InProgress, Idle
<1>5. CASE Tick
  <2>1. proc' = proc /\ clock' = clock + 1
    BY <1>5 DEF Tick
  <2>2. ASSUME NEW t \in Threads, proc[t].stage \in {"check", "record"}
        PROVE  /\ proc[t].todo # {} /\ proc[t].now <= clock + 1
               /\ proc[t].stage = "check" => clock + 1 <= proc[t].now + MaxDelay
    <3>1. proc[t].now \in Nat /\ proc[t].todo # {} /\ proc[t].now <= clock
      BY <2>2, AtWork, ConstantsAssumption DEF Working, InProgress, Time
    <3>2. proc[t].stage = "check" => clock < proc[t].now + MaxDelay
      BY <1>5 DEF Tick
    <3> QED
      BY <1>0, <3>1, <3>2
  <2> QED
    BY <2>1, <2>2 DEF Working, InProgress
<1>6. CASE UNCHANGED vars
  BY <1>6 DEF vars, Working, InProgress
<1> QED
  BY <1>1, <1>2, <1>3, <1>4, <1>5, <1>6 DEF Next

-----------------------------------------------------------------------------
(* Whatever races: lists are bounded, and their entries were recorded. *)

LEMMA BoundedStep ==
  TypeOK /\ Working /\ ListsAreBounded /\ [Next]_vars => ListsAreBounded'
<1> SUFFICES ASSUME TypeOK, Working, ListsAreBounded, [Next]_vars
             PROVE  ListsAreBounded'
  OBVIOUS
<1>1. ASSUME NEW t \in Threads, NEW S \in (SUBSET Rules) \ {{}}, Request(t, S)
      PROVE  ListsAreBounded'
  <2>1. /\ proc'[t].stage = "check" /\ history' = history
        /\ \A u \in Threads : u # t => proc'[u] = proc[u]
    BY <1>1, RequestMoves DEF Request
  <2> QED
    BY <2>1 DEF ListsAreBounded, EffectiveLimit, Current
<1>2. ASSUME NEW t \in Threads, Pass(t) PROVE ListsAreBounded'
  <2> DEFINE r == Current(t)
             list == InWindow(r, Cached(r), proc[t].now)
  <2>1. /\ proc[t].stage = "check" /\ ~Full(r, list)
        /\ proc'[t].list = Append(list, proc[t].now) /\ Min(proc'[t].todo) = r
        /\ \A u \in Threads : u # t => proc'[u] = proc[u]
        /\ history' = history
    BY <1>2, PassMoves
  <2>2. r \in Rules /\ proc[t].now \in Time /\ list \in Seq(Time) /\ Len(list) \in Nat
    BY <2>1, Window
  <2> HIDE DEF r, list
  <2>3. Len(proc'[t].list) = Len(list) + 1
    BY <2>1, <2>2, ListAppended
  <2>4. Len(proc'[t].list) <= EffectiveLimit(r)
    BY <2>1, <2>2, <2>3, Limits DEF Full
  <2> QED
    BY <2>1, <2>4 DEF ListsAreBounded, EffectiveLimit, Current
<1>3. ASSUME NEW t \in Threads, Reject(t) PROVE ListsAreBounded'
  <2>1. /\ proc'[t].stage = "rejected" /\ history' = history
        /\ \A u \in Threads : u # t => proc'[u] = proc[u]
    BY <1>3, RejectMoves
  <2> QED
    BY <2>1 DEF ListsAreBounded, EffectiveLimit, Current
<1>4. ASSUME NEW t \in Threads, Record(t) PROVE ListsAreBounded'
  <2> DEFINE r == Current(t)
  <2>1. /\ r \in Rules /\ proc[t].stage = "record" /\ proc'[t].stage \in {"idle", "check"}
        /\ history'[r] = proc[t].list
        /\ \A q \in Rules : q # r => history'[q] = history[q]
        /\ \A u \in Threads : u # t => proc'[u] = proc[u]
    BY <1>4, RecordMoves
  <2>2. Len(history'[r]) <= EffectiveLimit(r)
    BY <2>1 DEF ListsAreBounded
  <2> HIDE DEF r
  <2> QED
    BY <2>1, <2>2 DEF ListsAreBounded, EffectiveLimit, Current
<1>5. CASE Tick
  BY <1>5 DEF Tick, ListsAreBounded, EffectiveLimit, Current
<1>6. CASE UNCHANGED vars
  BY <1>6 DEF vars, ListsAreBounded, EffectiveLimit, Current
<1> QED
  BY <1>1, <1>2, <1>3, <1>4, <1>5, <1>6 DEF Next

\* What is among the recorded remains so as more is recorded.
LEMMA AmongMore ==
  ASSUME NEW list, NEW n, NEW ps \in Seq(Time), NEW x \in Time, Among(list, n, ps)
  PROVE  Among(list, n, Append(ps, x))
<1>1. PICK f \in Injection(1..n, DOMAIN ps) : \A a \in 1..n : ps[f[a]] = list[a]
  BY DEF Among
<1>2. /\ DOMAIN ps = 1..Len(ps) /\ Len(ps) \in Nat
      /\ DOMAIN Append(ps, x) = 1..(Len(ps) + 1)
      /\ \A i \in 1..Len(ps) : Append(ps, x)[i] = ps[i]
  BY ListShape, ListAppended
<1>3. f \in [1..n -> 1..Len(ps)] /\ IsInjective(f)
  BY <1>2 DEF Injection
<1>4. f \in Injection(1..n, DOMAIN Append(ps, x))
  BY <1>2, <1>3 DEF Injection
<1>5. \A a \in 1..n : Append(ps, x)[f[a]] = list[a]
  BY <1>1, <1>2, <1>3
<1> QED
  BY <1>4, <1>5 DEF Among

\* A list whose last entry is recorded now is all recorded.
LEMMA AmongRecorded ==
  ASSUME NEW list \in Seq(Time), list # <<>>, NEW ps \in Seq(Time),
         NEW x \in Time, list[Len(list)] = x, Among(list, Len(list) - 1, ps)
  PROVE  Among(list, Len(list), Append(ps, x))
<1> DEFINE n == Len(list)
           m == Len(ps) + 1
           qs == Append(ps, x)
<1>1. n \in Nat /\ n > 0
  BY ListShape
<1>2. PICK f \in Injection(1..(n - 1), DOMAIN ps) : \A a \in 1..(n - 1) : ps[f[a]] = list[a]
  BY DEF Among
<1>3. /\ DOMAIN ps = 1..Len(ps) /\ Len(ps) \in Nat /\ DOMAIN qs = 1..m
      /\ \A i \in 1..Len(ps) : qs[i] = ps[i]
      /\ qs[m] = x
  BY ListShape, ListAppended
<1>4. /\ f \in [1..(n - 1) -> 1..Len(ps)]
      /\ \A a, b \in 1..(n - 1) : f[a] = f[b] => a = b
  BY <1>2, <1>3 DEF Injection, IsInjective
<1> HIDE DEF n, qs
<1> DEFINE g == [a \in 1..n |-> IF a = n THEN m ELSE f[a]]
<1>5. ASSUME NEW a \in 1..n, a # n PROVE a \in 1..(n - 1) /\ g[a] = f[a]
  BY <1>1, <1>5
<1>6. n \in 1..n /\ g[n] = m
  BY <1>1
<1>7. g \in [1..n -> 1..m]
  <2>1. ASSUME NEW a \in 1..n PROVE g[a] \in 1..m
    <3>1. CASE a = n
      BY <1>3, <1>6, <3>1
    <3>2. CASE a # n
      <4>1. a \in 1..(n - 1) /\ g[a] = f[a]
        BY <1>5, <3>2
      <4>2. g[a] \in 1..Len(ps)
        BY <1>4, <4>1
      <4> QED
        BY <1>3, <4>2
    <3> QED
      BY <3>1, <3>2
  <2> QED
    BY <2>1
<1>8. \A a \in 1..n : a # n => g[a] \in 1..Len(ps)
  BY <1>4, <1>5
<1> HIDE DEF g
<1>9. ASSUME NEW a \in 1..n, NEW b \in 1..n, g[a] = g[b] PROVE a = b
  <2>1. ~(m \in 1..Len(ps))
    BY <1>3
  <2>2. CASE a = n \/ b = n
    BY <1>6, <1>8, <1>9, <2>1, <2>2
  <2>3. CASE a # n /\ b # n
    BY <1>4, <1>5, <1>9, <2>3
  <2> QED
    BY <2>2, <2>3
<1>10. g \in Injection(1..n, DOMAIN qs)
  BY <1>3, <1>7, <1>9 DEF Injection, IsInjective
<1>11. ASSUME NEW a \in 1..n PROVE qs[g[a]] = list[a]
  <2>1. CASE a = n
    BY <1>3, <1>6, <2>1 DEF n
  <2>2. CASE a # n
    <3>1. a \in 1..(n - 1) /\ g[a] = f[a] /\ g[a] \in 1..Len(ps)
      BY <1>5, <1>8, <2>2
    <3> QED
      BY <1>2, <1>3, <3>1 DEF n
  <2> QED
    BY <2>1, <2>2
<1>12. Among(list, n, qs)
  BY <1>10, <1>11 DEF Among
<1> QED
  BY <1>12 DEF n, qs

\* What a filter keeps of the recorded is among the recorded.
LEMMA AmongKept ==
  ASSUME NEW list \in Seq(Time), NEW ps \in Seq(Time), Among(list, Len(list), ps),
         NEW out, NEW cutoff, Kept(out, list, Len(list), cutoff)
  PROVE  Among(out, Len(out), ps)
<1> DEFINE n == Len(list)
           m == Len(out)
<1>1. PICK f \in Injection(1..n, DOMAIN ps) : \A a \in 1..n : ps[f[a]] = list[a]
  BY DEF Among
<1>2. PICK g \in [1..m -> 1..n] :
        /\ \A a, b \in 1..m : a < b => g[a] < g[b]
        /\ \A a \in 1..m : out[a] = list[g[a]]
  BY DEF Kept
<1>3. n \in Nat /\ m \in Nat
  BY ListShape DEF Kept
<1>4. /\ f \in [1..n -> DOMAIN ps]
      /\ \A a, b \in 1..n : f[a] = f[b] => a = b
  BY <1>1 DEF Injection, IsInjective
<1> HIDE DEF n, m
<1> DEFINE h == [a \in 1..m |-> f[g[a]]]
<1>5. h \in [1..m -> DOMAIN ps] /\ \A a \in 1..m : h[a] = f[g[a]]
  BY <1>2, <1>4
<1> HIDE DEF h
<1>6. ASSUME NEW a \in 1..m, NEW b \in 1..m, h[a] = h[b] PROVE a = b
  <2>1. g[a] = g[b] /\ g[a] \in 1..n
    BY <1>2, <1>4, <1>5, <1>6
  <2>2. ~(g[a] < g[b]) /\ ~(g[b] < g[a])
    BY <1>3, <2>1
  <2>3. ~(a < b) /\ ~(b < a)
    BY <1>2, <2>2
  <2> QED
    BY <2>3
<1>7. h \in Injection(1..m, DOMAIN ps)
  BY <1>5, <1>6 DEF Injection, IsInjective
<1>8. \A a \in 1..m : ps[h[a]] = out[a]
  BY <1>1, <1>2, <1>5
<1>9. Among(out, m, ps)
  BY <1>7, <1>8 DEF Among
<1> QED
  BY <1>9 DEF m

LEMMA AmongNone ==
  ASSUME NEW ps
  PROVE  Among(<<>>, Len(<<>>), ps)
<1>1. Len(<<>>) = 0 /\ \A a : a \notin 1..0
  OBVIOUS
<1> DEFINE f == [a \in 1..0 |-> 0]
<1>2. f \in [1..0 -> DOMAIN ps] /\ IsInjective(f)
  BY <1>1, Zenon DEF IsInjective
<1>3. f \in Injection(1..0, DOMAIN ps)
  BY <1>2 DEF Injection
<1> HIDE DEF f
<1> QED
  BY <1>1, <1>3, Zenon DEF Among

\* So what a request finds in its window was recorded.
LEMMA WindowIsPassed ==
  ASSUME TypeOK, Working, EntriesArePasses, NEW t \in Threads, proc[t].stage = "check"
  PROVE  LET r == Current(t)
             list == InWindow(r, Cached(r), proc[t].now)
         IN Among(list, Len(list), passes[r])
<1> DEFINE r == Current(t)
           list == InWindow(r, Cached(r), proc[t].now)
<1>1. r \in Rules /\ Kept(list, Cached(r), Len(Cached(r)), proc[t].now - Period[r])
  BY Window
<1> HIDE DEF r, list
<1>2. Cached(r) \in Seq(Time) /\ Cached(r) \in {history[r], <<>>}
  BY <1>1, CachedList
<1>3. Among(Cached(r), Len(Cached(r)), passes[r])
  <2>1. Among(history[r], Len(history[r]), passes[r])
    BY <1>1 DEF EntriesArePasses
  <2> QED
    BY <1>2, <2>1, AmongNone
<1>4. passes[r] \in Seq(Time)
  BY <1>1 DEF TypeOK
<1>5. Among(list, Len(list), passes[r])
  BY <1>1, <1>2, <1>3, <1>4, AmongKept
<1> QED
  BY <1>5 DEF r, list

\* A list whose last entry is put aside keeps its other entries.
LEMMA AmongAppended ==
  ASSUME NEW list \in Seq(Time), NEW x \in Time, NEW ps, Among(list, Len(list), ps)
  PROVE  Among(Append(list, x), Len(Append(list, x)) - 1, ps)
<1>1. /\ Len(list) \in Nat /\ Len(Append(list, x)) - 1 = Len(list)
      /\ \A i \in 1..Len(list) : Append(list, x)[i] = list[i]
  BY ListShape, ListAppended
<1> DEFINE new == Append(list, x)
<1> HIDE DEF new
<1>2. PICK f \in Injection(1..Len(list), DOMAIN ps) : \A a \in 1..Len(list) : ps[f[a]] = list[a]
  BY DEF Among
<1>3. Among(new, Len(list), ps)
  <2>1. \A a \in 1..Len(list) : ps[f[a]] = new[a]
    BY <1>1, <1>2 DEF new
  <2> QED
    BY <2>1 DEF Among
<1> QED
  BY <1>1, <1>3 DEF new

LEMMA EntriesInit == Init => EntriesArePasses
<1> SUFFICES ASSUME Init PROVE EntriesArePasses
  OBVIOUS
<1>1. \A r \in Rules : history[r] = <<>> /\ passes[r] = <<>>
  BY DEF Init
<1>2. \A t \in Threads : proc[t].stage = "idle"
  BY DEF Init, Idle
<1> QED
  BY <1>1, <1>2, AmongNone DEF EntriesArePasses

LEMMA EntriesStep ==
  TypeOK /\ Working /\ EntriesArePasses /\ [Next]_vars => EntriesArePasses'
<1> SUFFICES ASSUME TypeOK, Working, EntriesArePasses, [Next]_vars
             PROVE  EntriesArePasses'
  OBVIOUS
<1>1. ASSUME NEW t \in Threads, NEW S \in (SUBSET Rules) \ {{}}, Request(t, S)
      PROVE  EntriesArePasses'
  <2>1. /\ proc'[t].stage = "check" /\ history' = history /\ passes' = passes
        /\ \A u \in Threads : u # t => proc'[u] = proc[u]
    BY <1>1, RequestMoves DEF Request
  <2> QED
    BY <2>1 DEF EntriesArePasses, Current
<1>2. ASSUME NEW t \in Threads, Pass(t) PROVE EntriesArePasses'
  <2> DEFINE r == Current(t)
             list == InWindow(r, Cached(r), proc[t].now)
  <2>1. /\ proc[t].stage = "check" /\ proc'[t].now = proc[t].now
        /\ proc'[t].list = Append(list, proc[t].now) /\ Min(proc'[t].todo) = r
        /\ \A u \in Threads : u # t => proc'[u] = proc[u]
        /\ history' = history /\ passes' = passes
    BY <1>2, PassMoves
  <2>2. r \in Rules /\ proc[t].now \in Time /\ list \in Seq(Time)
    BY <2>1, Window
  <2>3. Among(list, Len(list), passes[r])
    BY <2>1, WindowIsPassed
  <2> HIDE DEF r, list
  <2> DEFINE new == Append(list, proc[t].now)
  <2>4. new # <<>> /\ new[Len(new)] = proc[t].now /\ Among(new, Len(new) - 1, passes[r])
    BY <2>2, <2>3, ListAppended, AmongAppended
  <2> HIDE DEF new
  <2>5. proc'[t].list = new
    BY <2>1 DEF new
  <2> QED
    BY <2>1, <2>4, <2>5 DEF EntriesArePasses, Current
<1>3. ASSUME NEW t \in Threads, Reject(t) PROVE EntriesArePasses'
  <2>1. /\ proc'[t].stage = "rejected" /\ history' = history /\ passes' = passes
        /\ \A u \in Threads : u # t => proc'[u] = proc[u]
    BY <1>3, RejectMoves
  <2> QED
    BY <2>1 DEF EntriesArePasses, Current
<1>4. ASSUME NEW t \in Threads, Record(t) PROVE EntriesArePasses'
  <2> DEFINE r == Current(t)
  <2>1. /\ r \in Rules /\ proc[t].stage = "record" /\ proc'[t].stage \in {"idle", "check"}
        /\ proc[t].list \in Seq(Time) /\ proc[t].now \in Time
        /\ history'[r] = proc[t].list
        /\ passes'[r] = Append(passes[r], proc[t].now)
        /\ \A q \in Rules : q # r => history'[q] = history[q] /\ passes'[q] = passes[q]
        /\ \A u \in Threads : u # t => proc'[u] = proc[u]
    BY <1>4, RecordMoves
  <2>2. /\ proc[t].list # <<>> /\ proc[t].list[Len(proc[t].list)] = proc[t].now
        /\ Among(proc[t].list, Len(proc[t].list) - 1, passes[r])
    BY <2>1 DEF EntriesArePasses
  <2> HIDE DEF r
  <2>3. passes[r] \in Seq(Time)
    BY <2>1 DEF TypeOK
  <2>4. Among(history'[r], Len(history'[r]), passes'[r])
    BY <2>1, <2>2, <2>3, AmongRecorded
  <2>5. ASSUME NEW q \in Rules PROVE Among(history'[q], Len(history'[q]), passes'[q])
    <3>1. CASE q = r
      BY <2>4, <3>1
    <3>2. CASE q # r
      BY <2>1, <3>2 DEF EntriesArePasses
    <3> QED
      BY <3>1, <3>2
  <2>6. ASSUME NEW u \in Threads, proc'[u].stage = "record"
        PROVE  LET list == proc'[u].list IN
               /\ list # <<>> /\ list[Len(list)] = proc'[u].now
               /\ Among(list, Len(list) - 1, passes'[Min(proc'[u].todo)])
    <3>1. u # t /\ proc'[u] = proc[u]
      BY <2>1, <2>6
    <3>2. PICK p : p = proc[u]
      OBVIOUS
    <3> DEFINE q == Min(p.todo)
    <3>3. /\ p.list # <<>> /\ p.list[Len(p.list)] = p.now
          /\ Among(p.list, Len(p.list) - 1, passes[q])
      BY <2>6, <3>1, <3>2 DEF EntriesArePasses, Current
    <3>4. q \in Rules
      BY <2>6, <3>1, <3>2, CurrentIsARule DEF Current
    <3> HIDE DEF q
    <3>5. Among(p.list, Len(p.list) - 1, passes'[q])
      BY <2>1, <2>3, <3>3, <3>4, AmongMore
    <3>6. proc'[u] = p
      BY <3>1, <3>2
    <3> QED
      BY <3>3, <3>5, <3>6 DEF q
  <2> QED
    BY <2>5, <2>6 DEF EntriesArePasses, Current
<1>5. CASE Tick
  BY <1>5 DEF Tick, EntriesArePasses, Current
<1>6. CASE UNCHANGED vars
  BY <1>6 DEF vars, EntriesArePasses, Current
<1> QED
  BY <1>1, <1>2, <1>3, <1>4, <1>5, <1>6 DEF Next

-----------------------------------------------------------------------------
(* Theorems: whatever races *)

LEMMA Inductive ==
  /\ Init => IInv
  /\ IInv /\ [Next]_vars => IInv'
<1>1. Init => ListsAreBounded
  <2> SUFFICES ASSUME Init PROVE ListsAreBounded
    OBVIOUS
  <2>1. \A r \in Rules : Len(history[r]) <= EffectiveLimit(r)
    <3>1. ASSUME NEW r \in Rules PROVE Len(history[r]) <= EffectiveLimit(r)
      <4>1. Len(history[r]) = 0
        BY DEF Init
      <4> QED
        BY <4>1, Limits
    <3> QED
      BY <3>1
  <2>2. \A t \in Threads : proc[t].stage = "idle"
    BY DEF Init, Idle
  <2> QED
    BY <2>1, <2>2 DEF ListsAreBounded
<1> QED
  BY <1>1, TypeInit, TypeStep, WorkingInit, WorkingStep, BoundedStep, EntriesInit,
     EntriesStep DEF IInv

LEMMA Always == Spec => []IInv
<1> QED
  BY Inductive, PTL DEF Spec

\* The type invariant holds; a request is never told to wait for less than a
\* second (engine.py:56).
THEOREM TypeCorrect == Spec => []TypeOK
<1>1. IInv => TypeOK
  BY DEF IInv
<1> QED
  BY <1>1, Always, PTL

\* Only Reject turns a request at a rule into a rejected one.
LEMMA RejectedByReject ==
  ASSUME TypeOK, Working, [Next]_vars, NEW t \in Threads,
         proc[t].stage = "check", proc'[t].stage = "rejected"
  PROVE  Reject(t)
<1>1. ASSUME NEW u \in Threads, NEW S \in (SUBSET Rules) \ {{}}, Request(u, S) PROVE FALSE
  <2>1. proc'[u].stage = "check" /\ (u # t => proc'[t] = proc[t])
    BY <1>1, RequestMoves
  <2> QED
    BY <2>1
<1>2. ASSUME NEW u \in Threads, Pass(u) PROVE FALSE
  <2>1. proc'[u].stage = "record" /\ (u # t => proc'[t] = proc[t])
    BY <1>2, PassMoves
  <2> QED
    BY <2>1
<1>3. ASSUME NEW u \in Threads, Record(u) PROVE FALSE
  <2>1. proc'[u].stage \in {"idle", "check"} /\ (u # t => proc'[t] = proc[t])
    BY <1>3, RecordMoves
  <2> QED
    BY <2>1
<1>4. ASSUME NEW u \in Threads, Reject(u) PROVE u = t
  <2>1. u # t => proc'[t] = proc[t]
    BY <1>4, RejectMoves
  <2> QED
    BY <2>1
<1>5. CASE Tick
  BY <1>5 DEF Tick
<1>6. CASE UNCHANGED vars
  BY <1>6 DEF vars
<1> QED
  BY <1>1, <1>2, <1>3, <1>4, <1>5, <1>6 DEF Next

LEMMA PassedIsFinite ==
  ASSUME TypeOK, NEW r \in Rules, NEW S
  PROVE  IsFiniteSet(Passed(r, S)) /\ Passed(r, S) \subseteq 1..Len(passes[r])
<1>1. passes[r] \in Seq(Time)
  BY DEF TypeOK
<1>2. DOMAIN passes[r] = 1..Len(passes[r]) /\ Len(passes[r]) \in Nat
  BY <1>1, ListShape
<1>3. Passed(r, S) \in SUBSET (1..Len(passes[r]))
  BY <1>2 DEF Passed
<1>4. IsFiniteSet(1..Len(passes[r]))
  BY <1>2, FS_Interval
<1> QED
  BY <1>3, <1>4, FS_Subset

LEMMA RejectedFull ==
  ASSUME IInv, NEW t \in Threads, Reject(t)
  PROVE  LET r == Current(t) IN
         Cardinality(Passed(r, {n \in Time : n > proc[t].now - Period[r]}))
           >= EffectiveLimit(r)
<1> DEFINE r == Current(t)
           list == InWindow(r, Cached(r), proc[t].now)
           P == Passed(r, {n \in Time : n > proc[t].now - Period[r]})
<1>1. proc[t].stage = "check" /\ Full(r, list)
  BY RejectMoves DEF IInv
<1>2. /\ r \in Rules /\ list \in Seq(Time) /\ Len(list) \in Nat
      /\ Kept(list, Cached(r), Len(Cached(r)), proc[t].now - Period[r])
  BY <1>1, Window DEF IInv
<1>3. Among(list, Len(list), passes[r])
  BY <1>1, WindowIsPassed DEF IInv
<1> HIDE DEF r, list
<1>4. PICK f \in Injection(1..Len(list), DOMAIN passes[r]) :
        \A a \in 1..Len(list) : passes[r][f[a]] = list[a]
  BY <1>3 DEF Among
<1>5. ASSUME NEW a \in 1..Len(list) PROVE f[a] \in P
  <2>1. f[a] \in DOMAIN passes[r] /\ passes[r][f[a]] = list[a]
    BY <1>4 DEF Injection
  <2>2. list[a] \in Time /\ list[a] > proc[t].now - Period[r]
    BY <1>2, ListShape DEF Kept
  <2> QED
    BY <2>1, <2>2 DEF Passed
<1>6. IsFiniteSet(P)
  BY <1>2, PassedIsFinite DEF IInv
<1> HIDE DEF P
<1>7. f \in Injection(1..Len(list), P)
  BY <1>4, <1>5 DEF Injection
<1>8. Cardinality(1..Len(list)) <= Cardinality(P)
  BY <1>6, <1>7, FS_Injection
<1>9. Cardinality(1..Len(list)) = Len(list)
  <2>1. Len(list) \in Int /\ 1 \in Int
    BY <1>2
  <2>2. Cardinality(1..Len(list)) = IF 1 > Len(list) THEN 0 ELSE Len(list) - 1 + 1
    BY <2>1, FS_Interval
  <2> QED
    BY <1>2, <2>2
<1>10. Cardinality(P) \in Nat /\ EffectiveLimit(r) \in Nat
  BY <1>2, <1>6, FS_CardinalityType, Limits
<1>11. Cardinality(P) >= EffectiveLimit(r)
  BY <1>1, <1>2, <1>8, <1>9, <1>10 DEF Full
<1> QED
  BY <1>11 DEF P, r

\* Whatever races between time.time(), cache.get and cache.set, a rejection is
\* justified: the rule has let pass its whole limit within the last period
\* (RejectedOnlyWhenFull).
THEOREM RejectionsAreJustified == Spec => RejectedOnlyWhenFull
<1>1. IInv /\ [Next]_vars =>
        [\A t \in Threads : proc[t].stage = "check" /\ proc'[t].stage = "rejected" =>
           LET r == Current(t) IN
           Cardinality(Passed(r, {n \in Time : n > proc[t].now - Period[r]}))
             >= EffectiveLimit(r)]_vars
  BY RejectedByReject, RejectedFull DEF IInv
<1> QED
  BY <1>1, Always, PTL DEF Spec, RejectedOnlyWhenFull

LEMMA WaitedLongEnough ==
  ASSUME IInv, NEW t \in Threads, Reject(t)
  PROVE  LET r == Current(t)
             then == proc[t].now + (proc'[t].wait + 1) * TicksPerSecond
         IN ~Full(r, InWindow(r, Cached(r), then))
<1> DEFINE r == Current(t)
           now == proc[t].now
           list == InWindow(r, Cached(r), now)
           then == now + (proc'[t].wait + 1) * TicksPerSecond
           later == InWindow(r, Cached(r), then)
           n == Len(Cached(r))
<1>1. proc[t].stage = "check" /\ Full(r, list) /\ proc'[t].wait = Wait(r, list, now)
  BY RejectMoves DEF IInv
<1>2. /\ r \in Rules /\ now \in Time /\ list \in Seq(Time) /\ Len(list) \in Nat
      /\ Kept(list, Cached(r), n, now - Period[r])
  BY <1>1, Window DEF IInv
<1> HIDE DEF r, list
<1>3. /\ Len(list) > 0 /\ list[1] \in Time
      /\ proc'[t].wait \in Nat
      /\ (proc'[t].wait + 1) * TicksPerSecond > list[1] + Period[r] - now
  BY <1>1, <1>2, WaitTyped
<1>4. now \in Int /\ list[1] \in Int /\ Period[r] \in Int /\ TicksPerSecond \in Int
      /\ EffectiveLimit(r) \in Nat \ {0}
  <2>1. \A m \in Time : m \in Int
    BY ConstantsAssumption DEF Time
  <2>2. Period[r] \in Int /\ EffectiveLimit(r) \in Nat \ {0}
    BY <1>2, Limits
  <2>3. TicksPerSecond \in Int
    BY ConstantsAssumption
  <2> HIDE DEF now
  <2> QED
    BY <1>2, <1>3, <2>1, <2>2, <2>3
<1>5. (proc'[t].wait + 1) * TicksPerSecond \in Int
  BY <1>3, <1>4
<1>6. then \in Int /\ then - Period[r] > list[1]
  BY <1>3, <1>4, <1>5
<1>7. Cached(r) \in Seq(Time) /\ Cached(r) \in {history[r], <<>>}
  BY <1>2, CachedList DEF IInv
<1> HIDE DEF then, now
<1>8. Kept(later, Cached(r), n, then - Period[r])
  BY <1>2, <1>6, <1>7, FilterKeeps
<1>9. n \in Nat /\ n <= EffectiveLimit(r)
  <2>1. Len(history[r]) <= EffectiveLimit(r)
    BY <1>2 DEF IInv, ListsAreBounded
  <2>2. Len(<<>>) = 0
    OBVIOUS
  <2> QED
    BY <1>4, <1>7, <2>1, <2>2, ListShape
<1> HIDE DEF later, n
<1>10. ASSUME Full(r, later) PROVE FALSE
  <2>1. Len(later) \in Nat /\ Len(later) <= n /\ Len(list) <= n
    BY <1>2, <1>8, ListShape DEF Kept
  <2>2. Len(later) = n /\ Len(list) = n /\ n > 0
    BY <1>1, <1>2, <1>4, <1>9, <1>10, <2>1 DEF Full
  <2>3. 1 \in 1..n /\ 1 \in 1..Len(later)
    BY <1>9, <2>2
  <2>4. later[1] = Cached(r)[1] /\ list[1] = Cached(r)[1]
    BY <1>2, <1>8, <2>2, <2>3 DEF Kept
  <2>5. later[1] > then - Period[r]
    BY <1>8, <2>3 DEF Kept
  <2> QED
    BY <1>4, <1>6, <2>4, <2>5
<1> QED
  BY <1>10 DEF r, then, later, now

\* Whatever races, who waits a second longer than Retry-After says finds room
\* in the rule's list as it stands (RetryAfterSuffices).
THEOREM WaitingIsEnough == Spec => RetryAfterSuffices
<1>1. IInv /\ [Next]_vars =>
        [\A t \in Threads : proc[t].stage = "check" /\ proc'[t].stage = "rejected" =>
           LET r == Current(t)
               then == proc[t].now + (proc'[t].wait + 1) * TicksPerSecond
           IN ~Full(r, InWindow(r, Cached(r), then))]_vars
  BY RejectedByReject, WaitedLongEnough DEF IInv
<1> QED
  BY <1>1, Always, PTL DEF Spec, RetryAfterSuffices

-----------------------------------------------------------------------------
(* Theorems: without overlap *)

LEMMA SerialInit == Init => SerialInv
<1> SUFFICES ASSUME Init PROVE SerialInv
  OBVIOUS
<1>1. /\ \A r \in Rules : history[r] = <<>> /\ passes[r] = <<>> /\ storedAt[r] = 0
      /\ \A t \in Threads : proc[t].stage = "idle"
      /\ clock = 0
  BY DEF Init, Idle
<1>2. Len(<<>>) = 0 /\ DOMAIN <<>> = {} /\ 0 <= 0
  OBVIOUS
<1>3. \A r \in Rules : DOMAIN passes[r] = {}
  BY <1>1, <1>2
<1>4. OneRequest /\ PassesArePast /\ PassesInOrder /\ Spaced
  BY <1>1, <1>2, <1>3 DEF OneRequest, PassesArePast, PassesInOrder, Spaced, InProgress
<1>5. ASSUME NEW time, NEW p PROVE Latest(<<>>, 0, <<>>, time, p)
  <2>1. 0 \in 0..Len(<<>>) /\ 0 = Len(<<>>) - 0 /\ \A a : a \notin 1..0
    BY <1>2
  <2> QED
    BY <2>1, Zenon DEF Latest
<1>6. NothingForgotten
  BY <1>1, <1>2, <1>5 DEF NothingForgotten
<1> QED
  BY <1>4, <1>6, Inductive DEF SerialInv

LEMMA Columns ==
  ASSUME TypeOK, NEW r \in Rules
  PROVE  /\ history[r] \in Seq(Time) /\ passes[r] \in Seq(Time)
         /\ storedAt[r] \in Int /\ clock \in Int /\ Period[r] \in Int
         /\ Len(passes[r]) \in Nat /\ DOMAIN passes[r] = 1..Len(passes[r])
         /\ \A i \in 1..Len(passes[r]) : passes[r][i] \in Time /\ passes[r][i] \in Int
<1>1. /\ history[r] \in Seq(Time) /\ passes[r] \in Seq(Time)
      /\ storedAt[r] \in Time /\ clock \in Time
  BY DEF TypeOK
<1>2. \A m \in Time : m \in Int
  BY ConstantsAssumption DEF Time
<1> QED
  BY <1>1, <1>2, ListShape, Limits

\* Without overlap nobody else is at work beside t.
LEMMA OneRequestStep == SerialInv /\ [Next]_vars => OneRequest'
<1> SUFFICES ASSUME SerialInv, [Next]_vars PROVE OneRequest'
  OBVIOUS
<1> USE DEF SerialInv, IInv
<1>1. ASSUME NEW t \in Threads, NEW S \in (SUBSET Rules) \ {{}}, Request(t, S)
      PROVE  OneRequest'
  <2>1. overlapped' = (overlapped \/ \E u \in Threads : InProgress(u))
    BY <1>1 DEF Request
  <2>2. \A u \in Threads : u # t => proc'[u] = proc[u]
    BY <1>1, RequestMoves
  <2> QED
    BY <2>1, <2>2 DEF OneRequest, InProgress
<1>2. ASSUME NEW t \in Threads, Pass(t) PROVE OneRequest'
  <2>1. proc[t].stage = "check" /\ overlapped' = overlapped
        /\ \A u \in Threads : u # t => proc'[u] = proc[u]
    BY <1>2, PassMoves
  <2> QED
    BY <2>1 DEF OneRequest, InProgress
<1>3. ASSUME NEW t \in Threads, Reject(t) PROVE OneRequest'
  <2>1. proc[t].stage = "check" /\ overlapped' = overlapped
        /\ \A u \in Threads : u # t => proc'[u] = proc[u]
    BY <1>3, RejectMoves
  <2> QED
    BY <2>1 DEF OneRequest, InProgress
<1>4. ASSUME NEW t \in Threads, Record(t) PROVE OneRequest'
  <2>1. proc[t].stage = "record" /\ overlapped' = overlapped
        /\ \A u \in Threads : u # t => proc'[u] = proc[u]
    BY <1>4, RecordMoves
  <2> QED
    BY <2>1 DEF OneRequest, InProgress
<1>5. CASE Tick
  BY <1>5 DEF Tick, OneRequest, InProgress
<1>6. CASE UNCHANGED vars
  BY <1>6 DEF vars, OneRequest, InProgress
<1> QED
  BY <1>1, <1>2, <1>3, <1>4, <1>5, <1>6 DEF Next

LEMMA PastStep == IInv /\ PassesArePast /\ [Next]_vars => PassesArePast'
<1> SUFFICES ASSUME IInv, PassesArePast, [Next]_vars PROVE PassesArePast'
  OBVIOUS
<1> USE DEF IInv
<1>1. ASSUME NEW t \in Threads, Record(t) PROVE PassesArePast'
  <2> DEFINE r == Current(t)
  <2>1. /\ r \in Rules /\ proc[t].now \in Time /\ proc[t].stage = "record"
        /\ storedAt'[r] = clock /\ clock' = clock
        /\ passes'[r] = Append(passes[r], proc[t].now)
        /\ \A q \in Rules : q # r => storedAt'[q] = storedAt[q] /\ passes'[q] = passes[q]
    BY <1>1, RecordMoves
  <2>2. proc[t].now <= clock /\ proc[t].now \in Int
    BY <2>1, ConstantsAssumption DEF Working, InProgress, Time
  <2> HIDE DEF r
  <2>3. /\ DOMAIN passes'[r] = 1..(Len(passes[r]) + 1)
        /\ \A i \in 1..Len(passes[r]) : passes'[r][i] = passes[r][i]
        /\ passes'[r][Len(passes[r]) + 1] = proc[t].now
    BY <2>1, Columns, ListAppended
  <2>4. ASSUME NEW i \in DOMAIN passes'[r] PROVE passes'[r][i] <= clock
    <3>1. CASE i = Len(passes[r]) + 1
      BY <2>2, <2>3, <3>1
    <3>2. CASE i # Len(passes[r]) + 1
      <4>1. i \in 1..Len(passes[r]) /\ i \in DOMAIN passes[r]
        BY <2>1, <2>3, <3>2, Columns
      <4>2. passes[r][i] <= storedAt[r] /\ storedAt[r] <= clock
        BY <2>1, <4>1 DEF PassesArePast
      <4> QED
        BY <2>1, <2>3, <4>1, <4>2, Columns
    <3> QED
      BY <3>1, <3>2
  <2>5. clock <= clock
    BY <2>1, Columns
  <2>6. \A i \in DOMAIN passes'[r] : passes'[r][i] <= storedAt'[r]
    BY <2>1, <2>4
  <2>7. storedAt'[r] <= clock'
    BY <2>1, <2>5
  <2> QED
    BY <2>1, <2>6, <2>7 DEF PassesArePast
<1>2. ASSUME NEW t \in Threads, NEW S \in (SUBSET Rules) \ {{}}, Request(t, S)
      PROVE  PassesArePast'
  BY <1>2 DEF Request, PassesArePast
<1>3. ASSUME NEW t \in Threads, Pass(t) \/ Reject(t) PROVE PassesArePast'
  BY <1>3 DEF Pass, Reject, PassesArePast
<1>4. CASE Tick
  <2>1. clock' = clock + 1 /\ storedAt' = storedAt /\ passes' = passes
    BY <1>4 DEF Tick
  <2>2. \A r \in Rules : storedAt[r] <= clock + 1
    BY Columns DEF PassesArePast
  <2> QED
    BY <2>1, <2>2 DEF PassesArePast
<1>5. CASE UNCHANGED vars
  BY <1>5 DEF vars, PassesArePast
<1> QED
  BY <1>1, <1>2, <1>3, <1>4, <1>5 DEF Next

LEMMA OrderStep == SerialInv /\ [Next]_vars => PassesInOrder'
<1> SUFFICES ASSUME SerialInv, [Next]_vars, ~overlapped' PROVE PassesInOrder'
  BY DEF PassesInOrder
<1> USE DEF SerialInv, IInv
<1>1. ASSUME NEW t \in Threads, NEW S \in (SUBSET Rules) \ {{}}, Request(t, S)
      PROVE  PassesInOrder'
  <2>1. /\ overlapped' = (overlapped \/ \E u \in Threads : InProgress(u))
        /\ passes' = passes /\ storedAt' = storedAt
    BY <1>1 DEF Request
  <2>2. /\ proc'[t].todo = S /\ proc'[t].now = clock
        /\ \A u \in Threads : u # t => proc'[u] = proc[u]
    BY <1>1, RequestMoves
  <2>3. \A u \in Threads : InProgress(u)' => u = t
    BY <2>1, <2>2 DEF InProgress
  <2>4. \A r \in S : storedAt[r] <= clock
    BY DEF PassesArePast
  <2> QED
    BY <2>1, <2>2, <2>3, <2>4 DEF PassesInOrder
<1>2. ASSUME NEW t \in Threads, Pass(t) PROVE PassesInOrder'
  <2>1. /\ proc[t].stage = "check" /\ overlapped' = overlapped
        /\ proc'[t].todo = proc[t].todo /\ proc'[t].now = proc[t].now
        /\ \A u \in Threads : u # t => proc'[u] = proc[u]
        /\ passes' = passes /\ storedAt' = storedAt
    BY <1>2, PassMoves
  <2> QED
    BY <2>1 DEF PassesInOrder, InProgress
<1>3. ASSUME NEW t \in Threads, Reject(t) PROVE PassesInOrder'
  <2>1. /\ proc'[t].stage = "rejected" /\ overlapped' = overlapped
        /\ \A u \in Threads : u # t => proc'[u] = proc[u]
        /\ passes' = passes /\ storedAt' = storedAt
    BY <1>3, RejectMoves
  <2> QED
    BY <2>1 DEF PassesInOrder, InProgress
<1>4. ASSUME NEW t \in Threads, Record(t) PROVE PassesInOrder'
  <2> DEFINE r == Current(t)
             rest == proc[t].todo \ {r}
             n == Len(passes[r]) + 1
  <2>1. /\ r \in Rules /\ r \in proc[t].todo /\ proc[t].now \in Time
        /\ proc[t].stage = "record" /\ overlapped' = overlapped
        /\ \/ proc'[t] = Idle
           \/ proc'[t].todo = rest /\ proc'[t].now = clock
        /\ storedAt'[r] = clock /\ clock' = clock
        /\ passes'[r] = Append(passes[r], proc[t].now)
        /\ \A q \in Rules : q # r => storedAt'[q] = storedAt[q] /\ passes'[q] = passes[q]
        /\ \A u \in Threads : u # t => proc'[u] = proc[u]
    BY <1>4, RecordMoves
  <2>2. rest \subseteq Rules
    BY <2>1, AtWork
  <2>3. storedAt[r] <= proc[t].now /\ proc[t].now \in Int
    BY <2>1, ConstantsAssumption DEF PassesInOrder, InProgress, Time
  <2>4. \A u \in Threads : InProgress(u)' => u = t
    BY <2>1 DEF OneRequest, InProgress
  <2> HIDE DEF r
  <2>5. /\ DOMAIN passes'[r] = 1..n
        /\ \A i \in 1..Len(passes[r]) : passes'[r][i] = passes[r][i]
        /\ passes'[r][n] = proc[t].now
    BY <2>1, Columns, ListAppended
  <2>6. ASSUME NEW i \in DOMAIN passes'[r], NEW j \in DOMAIN passes'[r], i <= j
        PROVE  passes'[r][i] <= passes'[r][j]
    <3>1. Len(passes[r]) \in Nat /\ DOMAIN passes[r] = 1..Len(passes[r])
      BY <2>1, Columns
    <3>2. CASE j # n
      <4>1. i \in 1..Len(passes[r]) /\ j \in 1..Len(passes[r])
        BY <2>5, <2>6, <3>1, <3>2
      <4>2. passes[r][i] <= passes[r][j]
        BY <2>1, <2>6, <3>1, <4>1 DEF PassesInOrder
      <4> QED
        BY <2>5, <4>1, <4>2
    <3>3. CASE j = n /\ i # n
      <4>1. i \in 1..Len(passes[r])
        BY <2>5, <3>1, <3>3
      <4>2. passes[r][i] <= storedAt[r] /\ passes[r][i] \in Int /\ storedAt[r] \in Int
        BY <2>1, <3>1, <4>1, Columns DEF PassesArePast
      <4> QED
        BY <2>3, <2>5, <3>3, <4>1, <4>2
    <3>4. CASE j = n /\ i = n
      BY <2>3, <2>5, <3>4
    <3> QED
      BY <3>2, <3>3, <3>4
  <2> HIDE DEF n
  <2>7. ASSUME NEW q \in Rules
        PROVE  \A i, j \in DOMAIN passes'[q] : i <= j => passes'[q][i] <= passes'[q][j]
    <3>1. CASE q = r
      BY <2>6, <3>1
    <3>2. CASE q # r
      BY <2>1, <3>2 DEF PassesInOrder
    <3> QED
      BY <3>1, <3>2
  <2>8. ASSUME InProgress(t)', NEW q \in proc'[t].todo PROVE storedAt'[q] <= proc'[t].now
    <3>1. proc'[t].todo = rest /\ proc'[t].now = clock
      BY <2>1, <2>8 DEF InProgress, Idle
    <3>2. q \in Rules /\ q # r
      BY <2>2, <3>1
    <3> QED
      BY <2>1, <3>1, <3>2 DEF PassesArePast
  <2> QED
    BY <2>4, <2>7, <2>8 DEF PassesInOrder
<1>5. CASE Tick
  BY <1>5 DEF Tick, PassesInOrder, InProgress
<1>6. CASE UNCHANGED vars
  BY <1>6 DEF vars, PassesInOrder, InProgress
<1> QED
  BY <1>1, <1>2, <1>3, <1>4, <1>5, <1>6 DEF Next

\* Without overlap, what a request finds in its window are the last of those
\* recorded; all others have left it, even if the cache dropped the list.
LEMMA WindowIsLatest ==
  ASSUME SerialInv, ~overlapped, NEW t \in Threads, proc[t].stage = "check"
  PROVE  LET r == Current(t)
             list == InWindow(r, Cached(r), proc[t].now)
         IN Latest(list, Len(list), passes[r], proc[t].now, Period[r])
<1> DEFINE r == Current(t)
           now == proc[t].now
           list == InWindow(r, Cached(r), now)
           ps == passes[r]
           n == Len(ps)
           p == Period[r]
<1> USE DEF SerialInv, IInv
<1>1. /\ r \in Rules /\ r \in proc[t].todo /\ now \in Time
      /\ Kept(list, Cached(r), Len(Cached(r)), now - p)
  BY Window, CurrentIsARule
<1>2. storedAt[r] <= now /\ clock <= now + MaxDelay
  BY <1>1 DEF PassesInOrder, InProgress, Working
<1> HIDE DEF r
<1>3. /\ now \in Int /\ clock \in Int /\ storedAt[r] \in Int /\ p \in Int
      /\ MaxDelay \in Int /\ Buffer \in Int /\ MaxDelay <= Buffer
      /\ ps \in Seq(Time) /\ n \in Nat /\ DOMAIN ps = 1..n
      /\ \A i \in 1..n : ps[i] \in Int
  BY <1>1, Columns, ConstantsAssumption DEF Time
<1>4. list \in Seq(Time) /\ Len(list) \in Nat
  BY <1>1, ListShape DEF Kept
<1>5. CASE clock < storedAt[r] + Timeout(r)
  <2> DEFINE h == history[r]
  <2>1. Cached(r) = h
    BY <1>5 DEF Cached
  <2>2. PICK k \in 0..n : /\ Len(h) = n - k
                          /\ \A a \in 1..Len(h) : h[a] = ps[k + a]
                          /\ \A i \in 1..k : ps[i] + p <= storedAt[r]
    BY <1>1 DEF NothingForgotten, Latest
  <2>3. h \in Seq(Time) /\ DOMAIN h = 1..Len(h)
    BY <1>1, Columns, ListShape
  <2>4. InOrder(h)
    <3>1. ASSUME NEW i \in DOMAIN h, NEW j \in DOMAIN h, i <= j PROVE h[i] <= h[j]
      <4>1. k + i \in 1..n /\ k + j \in 1..n /\ k + i <= k + j
        BY <1>3, <2>2, <2>3, <3>1
      <4>2. ps[k + i] <= ps[k + j]
        BY <1>1, <1>3, <4>1 DEF PassesInOrder
      <4> QED
        BY <2>2, <2>3, <4>2
    <3> QED
      BY <3>1 DEF InOrder
  <2>5. Suffix(list, h, Len(h), now - p)
    BY <1>1, <1>3, <2>1, <2>3, <2>4, FilterOfOrdered
  <2> HIDE DEF list, ps, n, p, now, h
  <2>6. PICK d \in 0..Len(h) :
          /\ Len(list) = Len(h) - d
          /\ \A a \in 1..(Len(h) - d) : list[a] = h[d + a]
          /\ \A j \in 1..d : h[j] <= now - p
    BY <2>5 DEF Suffix
  <2> DEFINE m == k + d
  <2>7. m \in 0..n /\ Len(list) = n - m
    BY <1>3, <2>2, <2>6
  <2>8. ASSUME NEW a \in 1..Len(list) PROVE list[a] = ps[m + a]
    <3>1. a \in 1..(Len(h) - d) /\ d + a \in 1..Len(h) /\ k + (d + a) = m + a
      BY <1>3, <2>2, <2>6
    <3> HIDE DEF m
    <3> QED
      BY <2>2, <2>6, <3>1
  <2>9. ASSUME NEW i \in 1..m PROVE ps[i] + p <= now
    <3>1. i \in 1..n
      BY <1>3, <2>7
    <3>2. CASE i <= k
      <4>1. ps[i] + p <= storedAt[r]
        BY <2>2, <3>2
      <4> QED
        BY <1>2, <1>3, <3>1, <4>1
    <3>3. CASE ~(i <= k)
      <4>1. i - k \in 1..d /\ i - k \in 1..Len(h) /\ k + (i - k) = i
        BY <1>3, <2>2, <2>6, <3>3
      <4>2. ps[i] <= now - p
        BY <2>2, <2>6, <4>1
      <4> QED
        BY <1>3, <3>1, <4>2
    <3> QED
      BY <3>2, <3>3
  <2>10. Latest(list, Len(list), ps, now, p)
    <3> HIDE DEF m
    <3> QED
      BY <2>7, <2>8, <2>9 DEF Latest, n
  <2> QED
    BY <2>10 DEF list, ps, p, now, r
<1>6. CASE ~(clock < storedAt[r] + Timeout(r))
  <2>1. Cached(r) = <<>> /\ Len(<<>>) = 0
    BY <1>6 DEF Cached
  <2>2. Len(list) = 0
    BY <1>1, <1>4, <2>1 DEF Kept
  <2>3. ASSUME NEW i \in 1..n PROVE ps[i] + p <= now
    <3>1. ps[i] <= storedAt[r]
      BY <1>1, <1>3 DEF PassesArePast
    <3>2. ~(clock < storedAt[r] + (p + Buffer))
      BY <1>6 DEF Timeout
    <3>3. ps[i] \in Int
      BY <1>3
    <3> HIDE DEF ps, n, p, now
    <3> QED
      BY <1>2, <1>3, <3>1, <3>2, <3>3
  <2>4. n \in 0..n /\ 0 = n - n /\ \A a : a \notin 1..0
    BY <1>3
  <2> HIDE DEF list, ps, p, now
  <2>5. Latest(list, Len(list), ps, now, p)
    BY <2>2, <2>3, <2>4 DEF Latest
  <2> QED
    BY <2>5 DEF list, ps, p, now, r
<1> QED
  BY <1>5, <1>6

\* A record that is appended to a list and to the log at once.
LEMMA LatestRecorded ==
  ASSUME NEW list \in Seq(Time), list # <<>>, NEW ps \in Seq(Time), NEW x \in Time,
         list[Len(list)] = x, NEW p \in Int, NEW time \in Int, x <= time,
         Latest(list, Len(list) - 1, ps, x, p)
  PROVE  Latest(list, Len(list), Append(ps, x), time, p)
<1> DEFINE n == Len(ps)
           l == Len(list)
           qs == Append(ps, x)
<1>1. l \in Nat /\ l > 0 /\ x \in Int
  BY ListShape, ConstantsAssumption DEF Time
<1>2. /\ n \in Nat /\ Len(qs) = n + 1 /\ qs[n + 1] = x
      /\ \A i \in 1..n : qs[i] = ps[i] /\ ps[i] \in Int
  <2>1. \A m \in Time : m \in Int
    BY ConstantsAssumption DEF Time
  <2> QED
    BY <2>1, ListShape, ListAppended
<1>3. PICK k \in 0..n : /\ l - 1 = n - k
                        /\ \A a \in 1..(l - 1) : list[a] = ps[k + a]
                        /\ \A i \in 1..k : ps[i] + p <= x
  BY DEF Latest
<1> HIDE DEF n, l, qs
<1>4. k \in 0..Len(qs) /\ l = Len(qs) - k
  BY <1>1, <1>2, <1>3
<1>5. ASSUME NEW a \in 1..l PROVE list[a] = qs[k + a]
  <2>1. CASE a = l
    <3>1. k + a = n + 1
      BY <1>1, <1>2, <1>3, <2>1
    <3>2. list[a] = x
      BY <2>1 DEF l
    <3> QED
      BY <1>2, <3>1, <3>2
  <2>2. CASE a # l
    <3>1. a \in 1..(l - 1) /\ k + a \in 1..n
      BY <1>1, <1>2, <1>3, <2>2
    <3> QED
      BY <1>2, <1>3, <3>1
  <2> QED
    BY <2>1, <2>2
<1>6. ASSUME NEW i \in 1..k PROVE qs[i] + p <= time
  <2>1. i \in 1..n
    BY <1>2
  <2>2. qs[i] = ps[i] /\ ps[i] \in Int /\ ps[i] + p <= x
    BY <1>2, <1>3, <2>1
  <2> QED
    BY <1>1, <2>2
<1>7. Latest(list, l, qs, time, p)
  BY <1>4, <1>5, <1>6 DEF Latest
<1> QED
  BY <1>7 DEF l, qs

LEMMA LatestPutAside ==
  ASSUME NEW list \in Seq(Time), NEW x \in Time, NEW ps, NEW p,
         Latest(list, Len(list), ps, x, p)
  PROVE  Latest(Append(list, x), Len(Append(list, x)) - 1, ps, x, p)
<1> DEFINE new == Append(list, x)
<1>1. /\ Len(list) \in Nat /\ Len(new) - 1 = Len(list)
      /\ \A i \in 1..Len(list) : new[i] = list[i]
  BY ListShape, ListAppended
<1> HIDE DEF new
<1>2. PICK k \in 0..Len(ps) : /\ Len(list) = Len(ps) - k
                              /\ \A a \in 1..Len(list) : list[a] = ps[k + a]
                              /\ \A i \in 1..k : ps[i] + p <= x
  BY DEF Latest
<1>3. Latest(new, Len(list), ps, x, p)
  BY <1>1, <1>2, Zenon DEF Latest
<1> QED
  BY <1>1, <1>3 DEF new

LEMMA ForgottenStep == SerialInv /\ [Next]_vars => NothingForgotten'
<1> SUFFICES ASSUME SerialInv, [Next]_vars, ~overlapped' PROVE NothingForgotten'
  BY DEF NothingForgotten
<1> USE DEF SerialInv, IInv
<1>1. ASSUME NEW t \in Threads, NEW S \in (SUBSET Rules) \ {{}}, Request(t, S)
      PROVE  NothingForgotten'
  <2>1. /\ overlapped' = (overlapped \/ \E u \in Threads : InProgress(u))
        /\ passes' = passes /\ storedAt' = storedAt /\ history' = history
    BY <1>1 DEF Request
  <2>2. /\ proc'[t].stage = "check" /\ \A u \in Threads : u # t => proc'[u] = proc[u]
    BY <1>1, RequestMoves
  <2> QED
    BY <2>1, <2>2 DEF NothingForgotten, Current
<1>2. ASSUME NEW t \in Threads, Pass(t) PROVE NothingForgotten'
  <2> DEFINE r == Current(t)
             now == proc[t].now
             list == InWindow(r, Cached(r), now)
  <2>1. /\ proc[t].stage = "check" /\ overlapped' = overlapped
        /\ proc'[t].now = now
        /\ proc'[t].list = Append(list, now) /\ Min(proc'[t].todo) = r
        /\ \A u \in Threads : u # t => proc'[u] = proc[u]
        /\ history' = history /\ passes' = passes /\ storedAt' = storedAt
    BY <1>2, PassMoves
  <2>2. r \in Rules /\ now \in Time /\ list \in Seq(Time)
    BY <2>1, Window
  <2>3. Latest(list, Len(list), passes[r], now, Period[r])
    BY <2>1, WindowIsLatest
  <2> HIDE DEF r, list
  <2> DEFINE new == Append(list, now)
  <2>4. Latest(new, Len(new) - 1, passes[r], now, Period[r])
    BY <2>2, <2>3, LatestPutAside
  <2>5. proc'[t].list = new
    BY <2>1
  <2> HIDE DEF new, now
  <2>6. ASSUME NEW u \in Threads, proc'[u].stage = "record"
        PROVE  LET l == proc'[u].list  q == Min(proc'[u].todo) IN
               Latest(l, Len(l) - 1, passes[q], proc'[u].now, Period[q])
    <3>1. CASE u = t
      BY <2>1, <2>4, <2>5, <3>1
    <3>2. CASE u # t
      BY <2>1, <2>6, <3>2 DEF NothingForgotten, Current
    <3> QED
      BY <3>1, <3>2
  <2>7. \A q \in Rules : Latest(history[q], Len(history[q]), passes[q], storedAt[q], Period[q])
    BY <2>1 DEF NothingForgotten
  <2> QED
    BY <2>1, <2>6, <2>7 DEF NothingForgotten, Current
<1>3. ASSUME NEW t \in Threads, Reject(t) PROVE NothingForgotten'
  <2>1. /\ proc'[t].stage = "rejected" /\ overlapped' = overlapped
        /\ \A u \in Threads : u # t => proc'[u] = proc[u]
        /\ history' = history /\ passes' = passes /\ storedAt' = storedAt
    BY <1>3, RejectMoves
  <2> QED
    BY <2>1 DEF NothingForgotten, Current
<1>4. ASSUME NEW t \in Threads, Record(t) PROVE NothingForgotten'
  <2> DEFINE r == Current(t)
             list == proc[t].list
             now == proc[t].now
  <2>1. /\ r \in Rules /\ now \in Time /\ proc[t].stage = "record" /\ list \in Seq(Time)
        /\ overlapped' = overlapped /\ proc'[t].stage \in {"idle", "check"}
        /\ history'[r] = list /\ storedAt'[r] = clock
        /\ passes'[r] = Append(passes[r], now)
        /\ \A q \in Rules : q # r => /\ history'[q] = history[q]
                                     /\ storedAt'[q] = storedAt[q]
                                     /\ passes'[q] = passes[q]
        /\ \A u \in Threads : u # t => proc'[u] = proc[u]
    BY <1>4, RecordMoves
  <2>2. now <= clock /\ clock \in Int /\ Period[r] \in Int /\ passes[r] \in Seq(Time)
    BY <2>1, Columns DEF Working, InProgress
  <2>3. list # <<>> /\ list[Len(list)] = now
    BY <2>1 DEF EntriesArePasses
  <2>4. Latest(list, Len(list) - 1, passes[r], now, Period[r])
    BY <2>1 DEF NothingForgotten
  <2>5. \A u \in Threads : proc'[u].stage # "record"
    BY <2>1 DEF OneRequest, InProgress
  <2> HIDE DEF r, list, now
  <2>6. Latest(list, Len(list), Append(passes[r], now), clock, Period[r])
    BY <2>1, <2>2, <2>3, <2>4, LatestRecorded
  <2>7. ASSUME NEW q \in Rules
        PROVE  Latest(history'[q], Len(history'[q]), passes'[q], storedAt'[q], Period[q])
    <3>1. CASE q = r
      BY <2>1, <2>6, <3>1
    <3>2. CASE q # r
      BY <2>1, <3>2 DEF NothingForgotten
    <3> QED
      BY <3>1, <3>2
  <2> QED
    BY <2>5, <2>7 DEF NothingForgotten
<1>5. CASE Tick
  BY <1>5 DEF Tick, NothingForgotten, Current
<1>6. CASE UNCHANGED vars
  BY <1>6 DEF vars, NothingForgotten, Current
<1> QED
  BY <1>1, <1>2, <1>3, <1>4, <1>5, <1>6 DEF Next

LEMMA SpacedStep == SerialInv /\ [Next]_vars => Spaced'
<1> SUFFICES ASSUME SerialInv, [Next]_vars, ~overlapped' PROVE Spaced'
  BY DEF Spaced
<1> USE DEF SerialInv, IInv
<1>1. CASE passes' = passes /\ overlapped' = overlapped
  BY <1>1 DEF Spaced, EffectiveLimit
<1>2. ASSUME NEW t \in Threads, NEW S \in (SUBSET Rules) \ {{}}, Request(t, S)
      PROVE  Spaced'
  BY <1>2 DEF Request, Spaced, EffectiveLimit
<1>3. ASSUME NEW t \in Threads, Pass(t) \/ Reject(t) PROVE Spaced'
  BY <1>1, <1>3 DEF Pass, Reject
<1>4. ASSUME NEW t \in Threads, Record(t) PROVE Spaced'
  <2> DEFINE r == Current(t)
             list == proc[t].list
             now == proc[t].now
             ps == passes[r]
             n == Len(ps)
             limit == EffectiveLimit(r)
  <2>1. /\ r \in Rules /\ now \in Time /\ proc[t].stage = "record" /\ list \in Seq(Time)
        /\ overlapped' = overlapped /\ passes'[r] = Append(ps, now)
        /\ \A q \in Rules : q # r => passes'[q] = passes[q]
    BY <1>4, RecordMoves
  <2>2. PICK k \in 0..n : /\ Len(list) - 1 = n - k
                          /\ \A i \in 1..k : ps[i] + Period[r] <= now
    BY <2>1 DEF NothingForgotten, Latest
  <2>3. Len(list) <= limit /\ Len(list) \in Nat
    BY <2>1, ListShape DEF ListsAreBounded
  <2> HIDE DEF r, list, now
  <2>4. n \in Nat /\ limit \in Nat \ {0} /\ DOMAIN ps = 1..n
    BY <2>1, Columns, Limits
  <2>5. /\ DOMAIN passes'[r] = 1..(n + 1)
        /\ \A i \in 1..n : passes'[r][i] = ps[i]
        /\ passes'[r][n + 1] = now
    BY <2>1, Columns, ListAppended
  <2>6. ASSUME NEW i \in DOMAIN passes'[r], NEW j \in DOMAIN passes'[r], j = i + limit
        PROVE  passes'[r][i] + Period[r] <= passes'[r][j]
    <3>1. i \in 1..n
      BY <2>4, <2>5, <2>6
    <3>2. CASE j = n + 1
      <4>1. i \in 1..k
        BY <2>2, <2>3, <2>4, <2>6, <3>1, <3>2
      <4> QED
        BY <2>2, <2>5, <3>1, <3>2, <4>1
    <3>3. CASE j # n + 1
      <4>1. j \in 1..n
        BY <2>4, <2>5, <3>3
      <4>2. ps[i] + Period[r] <= ps[j]
        BY <2>1, <2>4, <2>6, <3>1, <4>1 DEF Spaced
      <4> QED
        BY <2>5, <3>1, <4>1, <4>2
    <3> QED
      BY <3>2, <3>3
  <2>7. \A q \in Rules : EffectiveLimit(q)' = EffectiveLimit(q)
    BY DEF EffectiveLimit
  <2> HIDE DEF limit, ps, n
  <2>8. ASSUME NEW q \in Rules, NEW i \in DOMAIN passes'[q], NEW j \in DOMAIN passes'[q],
               j = i + EffectiveLimit(q)
        PROVE  passes'[q][i] + Period[q] <= passes'[q][j]
    <3>1. CASE q = r
      BY <2>6, <2>8, <3>1 DEF limit
    <3>2. CASE q # r
      BY <2>1, <2>8, <3>2 DEF Spaced
    <3> QED
      BY <3>1, <3>2
  <2> QED
    BY <2>7, <2>8 DEF Spaced, EffectiveLimit
<1>5. CASE Tick
  BY <1>1, <1>5 DEF Tick
<1>6. CASE UNCHANGED vars
  BY <1>1, <1>6 DEF vars
<1> QED
  BY <1>2, <1>3, <1>4, <1>5, <1>6 DEF Next

\* All that a rule recorded in a period lies within a limit's reach of the
\* first, since the record a whole limit later is in the next period.
LEMMA LimitFromSpacing == SerialInv => WithinLimit
<1> SUFFICES ASSUME SerialInv, ~overlapped, NEW r \in Rules, NEW w \in Time
             PROVE  Cardinality(Passed(r, w..(w + Period[r] - 1))) <= EffectiveLimit(r)
  BY DEF WithinLimit
<1> USE DEF SerialInv, IInv
<1> DEFINE S == w..(w + Period[r] - 1)
           P == Passed(r, S)
           ps == passes[r]
           limit == EffectiveLimit(r)
<1>1. /\ Len(ps) \in Nat /\ DOMAIN ps = 1..Len(ps) /\ Period[r] \in Int
      /\ limit \in Nat \ {0} /\ w \in Int
      /\ \A i \in 1..Len(ps) : ps[i] \in Int
  <2>1. w \in Int
    BY ConstantsAssumption DEF Time
  <2>2. limit \in Nat \ {0}
    BY Limits
  <2> HIDE DEF limit
  <2> QED
    BY <2>1, <2>2, Columns
<1>2. IsFiniteSet(P) /\ P \subseteq 1..Len(ps)
  BY PassedIsFinite
<1>3. \A i \in P : ps[i] >= w /\ ps[i] < w + Period[r]
  BY <1>1 DEF Passed
<1> HIDE DEF P, S
<1>4. CASE P = {}
  <2>1. Cardinality(P) = 0
    BY <1>4, FS_EmptySet
  <2>2. Cardinality(P) <= limit
    BY <1>1, <2>1
  <2> QED
    BY <2>2 DEF P, S
<1>5. CASE P # {}
  <2>1. PICK a \in P : \A i \in P : a <= i
    <3>1. P \in SUBSET Nat
      BY <1>2
    <3> QED
      BY <1>5, <3>1, LeastNat
  <2>2. ASSUME NEW i \in P PROVE i \in a..(a + limit - 1)
    <3> DEFINE b == a + limit
    <3>1. i \in 1..Len(ps) /\ a \in 1..Len(ps) /\ a <= i
      BY <1>2, <2>1
    <3>2. ASSUME i >= b PROVE FALSE
      <4>1. b \in 1..Len(ps) /\ b <= i
        BY <1>1, <3>1, <3>2
      <4>2. ps[a] + Period[r] <= ps[b]
        BY <1>1, <3>1, <4>1 DEF Spaced
      <4>3. ps[b] <= ps[i]
        BY <1>1, <3>1, <4>1 DEF PassesInOrder
      <4>4. ps[a] \in Int /\ ps[b] \in Int /\ ps[i] \in Int
        BY <1>1, <3>1, <4>1
      <4>5. ps[a] >= w /\ ps[i] < w + Period[r]
        BY <1>3
      <4> HIDE DEF ps, b
      <4> QED
        BY <1>1, <4>2, <4>3, <4>4, <4>5
    <3> QED
      BY <1>1, <3>1, <3>2
  <2> DEFINE I == a..(a + limit - 1)
  <2>3. a \in Int /\ a + limit - 1 \in Int
    BY <1>1, <1>2
  <2>4. IsFiniteSet(I) /\ Cardinality(I) = limit
    <3>1. Cardinality(I) = IF a > a + limit - 1 THEN 0 ELSE (a + limit - 1) - a + 1
      BY <2>3, FS_Interval
    <3>2. ~(a > a + limit - 1) /\ (a + limit - 1) - a + 1 = limit
      BY <1>1, <2>3
    <3> HIDE DEF limit
    <3> QED
      BY <2>3, <3>1, <3>2, FS_Interval
  <2>5. P \in SUBSET I
    BY <2>2
  <2> HIDE DEF I
  <2>6. Cardinality(P) <= limit
    BY <2>4, <2>5, FS_Subset
  <2> QED
    BY <2>6 DEF P, S
<1> QED
  BY <1>4, <1>5

LEMMA AlwaysSerial == Spec => []SerialInv
<1>1. SerialInv /\ [Next]_vars => SerialInv'
  BY Inductive, OneRequestStep, PastStep, OrderStep, ForgottenStep, SpacedStep DEF SerialInv
<1> QED
  BY <1>1, SerialInit, PTL DEF Spec

\* As long as no two requests are at work at once, no rule lets pass more than
\* its limit in any period, wherever it begins: no boundary spike, and nothing
\* lost when the cache drops a list (WithinLimit).
THEOREM LimitHolds == Spec => []WithinLimit
  BY AlwaysSerial, LimitFromSpacing, PTL

LEMMA AdmittedBelowLimit ==
  ASSUME SerialInv, ~overlapped, NEW t \in Threads, Pass(t)
  PROVE  LET r == Current(t) IN
         Cardinality(Passed(r, {n \in Time : n > proc[t].now - Period[r]}))
           < EffectiveLimit(r)
<1> DEFINE r == Current(t)
           now == proc[t].now
           list == InWindow(r, Cached(r), now)
           ps == passes[r]
           S == {n \in Time : n > now - Period[r]}
           P == Passed(r, S)
           limit == EffectiveLimit(r)
<1> USE DEF SerialInv, IInv
<1>1. proc[t].stage = "check" /\ ~Full(r, list)
  BY PassMoves
<1>2. r \in Rules /\ now \in Time /\ Len(list) \in Nat
  BY <1>1, Window
<1>3. Latest(list, Len(list), ps, now, Period[r])
  BY <1>1, WindowIsLatest
<1> HIDE DEF r, list
<1>4. PICK k \in 0..Len(ps) : /\ Len(list) = Len(ps) - k
                              /\ \A i \in 1..k : ps[i] + Period[r] <= now
  BY <1>3 DEF Latest
<1>5. /\ Len(ps) \in Nat /\ DOMAIN ps = 1..Len(ps) /\ Period[r] \in Int /\ now \in Int
      /\ \A i \in 1..Len(ps) : ps[i] \in Int
  <2>1. now \in Int
    BY <1>2, ConstantsAssumption DEF Time
  <2> QED
    BY <1>2, <2>1, Columns
<1>6. limit \in Nat \ {0} /\ Len(list) < limit
  <2>1. limit \in Nat \ {0}
    BY <1>2, Limits
  <2> QED
    BY <1>1, <1>2, <2>1 DEF Full
<1>7. ASSUME NEW i \in P PROVE i \in (k + 1)..Len(ps)
  <2>1. i \in 1..Len(ps) /\ ps[i] > now - Period[r]
    BY <1>5 DEF Passed
  <2>2. ~(i \in 1..k)
    BY <1>4, <1>5, <2>1
  <2> QED
    BY <1>5, <2>1, <2>2
<1> HIDE DEF P, S, now, limit
<1> DEFINE I == (k + 1)..Len(ps)
<1>8. IsFiniteSet(I) /\ Cardinality(I) = Len(list)
  <2>1. k + 1 \in Int /\ Len(ps) \in Int
    BY <1>5
  <2>2. /\ IsFiniteSet(I)
        /\ Cardinality(I) = IF k + 1 > Len(ps) THEN 0 ELSE Len(ps) - (k + 1) + 1
    BY <2>1, FS_Interval
  <2>3. (IF k + 1 > Len(ps) THEN 0 ELSE Len(ps) - (k + 1) + 1) = Len(ps) - k
    BY <1>5
  <2> QED
    BY <1>4, <2>2, <2>3
<1>9. P \in SUBSET I
  BY <1>7
<1> HIDE DEF I, ps
<1>10. IsFiniteSet(P) /\ Cardinality(P) <= Len(list)
  BY <1>8, <1>9, FS_Subset
<1>11. Cardinality(P) \in Nat
  BY <1>10, FS_CardinalityType
<1>12. Cardinality(P) < limit
  BY <1>2, <1>6, <1>10, <1>11
<1> QED
  BY <1>12 DEF P, S, now, limit, r

\* Only Pass takes a request on from a rule it has to check.
LEMMA AdmittedByPass ==
  ASSUME TypeOK, Working, [Next]_vars, NEW t \in Threads,
         proc[t].stage = "check", proc'[t].stage = "record"
  PROVE  Pass(t)
<1>1. ASSUME NEW u \in Threads, NEW S \in (SUBSET Rules) \ {{}}, Request(u, S) PROVE FALSE
  <2>1. proc'[u].stage = "check" /\ (u # t => proc'[t] = proc[t])
    BY <1>1, RequestMoves
  <2> QED
    BY <2>1
<1>2. ASSUME NEW u \in Threads, Reject(u) PROVE FALSE
  <2>1. proc'[u].stage = "rejected" /\ (u # t => proc'[t] = proc[t])
    BY <1>2, RejectMoves
  <2> QED
    BY <2>1
<1>3. ASSUME NEW u \in Threads, Record(u) PROVE FALSE
  <2>1. proc'[u].stage \in {"idle", "check"} /\ (u # t => proc'[t] = proc[t])
    BY <1>3, RecordMoves
  <2> QED
    BY <2>1
<1>4. ASSUME NEW u \in Threads, Pass(u) PROVE u = t
  <2>1. u # t => proc'[t] = proc[t]
    BY <1>4, PassMoves
  <2> QED
    BY <2>1
<1>5. CASE Tick
  BY <1>5 DEF Tick
<1>6. CASE UNCHANGED vars
  BY <1>6 DEF vars
<1> QED
  BY <1>1, <1>2, <1>3, <1>4, <1>5, <1>6 DEF Next

\* Without overlap a rule lets a request pass only if it has recorded fewer than
\* its limit within the last period.  With RejectionsAreJustified: the decision
\* is exactly that of a limiter that keeps its whole log and never forgets.
THEOREM AdmissionsAreExact ==
  Spec => [][~overlapped =>
               \A t \in Threads : proc[t].stage = "check" /\ proc'[t].stage = "record" =>
                 LET r == Current(t) IN
                 Cardinality(Passed(r, {n \in Time : n > proc[t].now - Period[r]}))
                   < EffectiveLimit(r)]_vars
<1>1. SerialInv /\ [Next]_vars =>
        [~overlapped =>
           \A t \in Threads : proc[t].stage = "check" /\ proc'[t].stage = "record" =>
             LET r == Current(t) IN
             Cardinality(Passed(r, {n \in Time : n > proc[t].now - Period[r]}))
               < EffectiveLimit(r)]_vars
  BY AdmittedByPass, AdmittedBelowLimit DEF SerialInv, IInv
<1> QED
  BY <1>1, AlwaysSerial, PTL DEF Spec
=============================================================================
