------------------------- MODULE LwipTimeoutsProofs -------------------------
(***************************************************************************)
(* Proofs about LwipTimeouts for any timers, intervals, lag and clock: no  *)
(* timer is lost or early while no task connects as the thread unlinks.    *)
(***************************************************************************)
EXTENDS LwipTimeouts, TLAPS, FiniteSetTheorems, SequenceTheorems,
        WellFoundedInduction

Times == 0 .. Wrap - 1
Timeouts == [h : Timers, time : Times]

-----------------------------------------------------------------------------
(* A non-empty set of naturals has a least element. *)

LEMMA SmallestElement ==
    ASSUME NEW S \in SUBSET Nat, S # {}
    PROVE  \E x \in S : \A y \in S : x <= y
<1> DEFINE Upto(k) == S \intersect (0 .. k)
           Ts == {Upto(k) : k \in S}
<1>1. Ts \subseteq FiniteSubsetsOf(S)
  <2> SUFFICES ASSUME NEW k \in S PROVE Upto(k) \in FiniteSubsetsOf(S) OBVIOUS
  <2>1. IsFiniteSet(0 .. k) BY FS_Interval
  <2>2. IsFiniteSet(Upto(k)) BY <2>1, FS_Intersection
  <2> QED BY <2>2 DEF FiniteSubsetsOf
<1>2. Ts # {} OBVIOUS
<1>3. PICK T \in Ts : \A U \in Ts : <<U, T>> \notin StrictSubsetOrdering(S)
  <2> HIDE DEF Ts
  <2> QED BY <1>1, <1>2, FS_StrictSubsetOrderingWellFounded, WFMin
<1>4. PICK x \in S : T = Upto(x) BY <1>3
<1>5. ASSUME NEW y \in S PROVE x <= y
  <2> SUFFICES ASSUME y < x PROVE FALSE OBVIOUS
  <2>1. Upto(y) \subseteq Upto(x) /\ x \in Upto(x) /\ x \notin Upto(y) BY <1>5
  <2>2. <<Upto(y), Upto(x)>> \in StrictSubsetOrdering(S)
    <3>1. Upto(y) \in SUBSET S /\ Upto(x) \in SUBSET S /\ Upto(y) # Upto(x) BY <2>1
    <3> HIDE DEF Upto
    <3> QED BY <2>1, <3>1 DEF StrictSubsetOrdering
  <2> QED BY <1>3, <1>4, <2>2
<1> QED BY <1>5

LEMMA MinIs ==
    ASSUME NEW S \in SUBSET Nat, S # {}
    PROVE  Min(S) \in S /\ \A y \in S : Min(S) <= y
BY SmallestElement DEF Min

-----------------------------------------------------------------------------
(* The clock *)

LEMMA Intervals ==
    ASSUME TimeoutConstants
    PROVE  /\ Wrap \in Nat /\ Wrap > 2
           /\ \A h \in Timers : Interval[h] \in Nat /\ Interval[h] > 0 /\ 2 * Interval[h] < Wrap
<1>1. Interval \in [Timers -> Nat \ {0}] /\ Wrap \in Nat BY DEF TimeoutConstants, Timers
<1>2. \A h \in Timers : 2 * Interval[h] < Wrap BY <1>1 DEF TimeoutConstants
<1>3. Tcp \in Timers BY DEF Timers
<1> QED BY <1>1, <1>2, <1>3

LEMMA ModLow == ASSUME NEW w \in Nat, w > 2, NEW a \in 0 .. w - 1 PROVE a % w = a
OBVIOUS
LEMMA ModHigh == ASSUME NEW w \in Nat, w > 2, NEW a \in w .. 2 * w - 1 PROVE a % w = a - w
OBVIOUS

LEMMA WrapLow == ASSUME TimeoutConstants, NEW a \in 0 .. Wrap - 1 PROVE a % Wrap = a
BY Intervals, ModLow
LEMMA WrapHigh == ASSUME TimeoutConstants, NEW a \in Wrap .. 2 * Wrap - 1 PROVE a % Wrap = a - Wrap
BY Intervals, ModHigh

LEMMA SinceIs ==
    ASSUME TimeoutConstants, now \in Times, NEW t \in Times
    PROVE  /\ Since(t) = IF now >= t THEN now - t ELSE now - t + Wrap
           /\ Since(t) \in Times
<1>1. Wrap \in Nat BY DEF TimeoutConstants
<1>2. now \in Nat /\ t \in Nat /\ now < Wrap /\ t < Wrap BY <1>1 DEF Times
<1>3. PICK a \in Int : a = now - t + Wrap BY <1>1, <1>2
<1>4. CASE now >= t
  <2>1. a \in Wrap .. 2 * Wrap - 1 BY <1>1, <1>2, <1>3, <1>4
  <2>2. a % Wrap = a - Wrap BY <2>1, WrapHigh
  <2>3. Since(t) = a - Wrap BY <1>3, <2>2 DEF Since
  <2> QED BY <1>1, <1>2, <1>3, <1>4, <2>3 DEF Times
<1>5. CASE now < t
  <2>1. a \in 0 .. Wrap - 1 BY <1>1, <1>2, <1>3, <1>5
  <2>2. a % Wrap = a BY <2>1, WrapLow
  <2>3. Since(t) = a BY <1>3, <2>2 DEF Since
  <2> QED BY <1>1, <1>2, <1>3, <1>5, <2>3 DEF Times
<1> QED BY <1>2, <1>4, <1>5

\* What passes between two readings passes on the clock, around its end too.
LEMMA ClockGoesOn ==
    ASSUME TimeoutConstants, NEW a \in Times, NEW n \in Times
    PROVE  /\ (a + n) % Wrap = IF a + n < Wrap THEN a + n ELSE a + n - Wrap
           /\ (a + n) % Wrap \in Times
<1>1. Wrap \in Nat BY DEF TimeoutConstants
<1>2. a \in Nat /\ n \in Nat /\ a < Wrap /\ n < Wrap BY <1>1 DEF Times
<1>3. PICK b \in Nat : b = a + n BY <1>2
<1>4. CASE b < Wrap
  <2>1. b \in 0 .. Wrap - 1 BY <1>1, <1>4
  <2>2. b % Wrap = b BY <2>1, WrapLow
  <2> QED BY <1>1, <1>3, <1>4, <2>2 DEF Times
<1>5. CASE b >= Wrap
  <2>1. b \in Wrap .. 2 * Wrap - 1 BY <1>1, <1>2, <1>3, <1>5
  <2>2. b % Wrap = b - Wrap BY <2>1, WrapHigh
  <2> QED BY <1>1, <1>2, <1>3, <1>5, <2>2 DEF Times
<1> QED BY <1>1, <1>4, <1>5

\* timeouts_last_time moves up by what has passed.
LEMMA SinceMoved ==
    ASSUME TimeoutConstants, now \in Times, NEW t \in Times, NEW n \in Times, n <= Since(t)
    PROVE  Since((t + n) % Wrap) = Since(t) - n /\ (t + n) % Wrap \in Times
<1>1. Wrap \in Nat BY DEF TimeoutConstants
<1>2. PICK u \in Times : u = (t + n) % Wrap BY ClockGoesOn
<1>3. u = IF t + n < Wrap THEN t + n ELSE t + n - Wrap BY <1>2, ClockGoesOn
<1>4. PICK s \in Times : s = Since(t) BY SinceIs
<1>5. s = IF now >= t THEN now - t ELSE now - t + Wrap BY <1>4, SinceIs
<1>6. PICK s2 \in Times : s2 = Since(u) BY SinceIs
<1>7. s2 = IF now >= u THEN now - u ELSE now - u + Wrap BY <1>6, SinceIs
<1>8. now \in Nat /\ t \in Nat /\ n \in Nat /\ u \in Nat /\ s \in Nat
      /\ now < Wrap /\ t < Wrap /\ n < Wrap /\ n <= s
  BY <1>1, <1>4 DEF Times
<1>9. s2 = s - n
  <2>1. CASE now >= t
    <3>1. s = now - t /\ t + n <= now BY <1>5, <1>8, <2>1
    <3>2. u = t + n BY <1>1, <1>3, <1>8, <3>1
    <3> QED BY <1>7, <1>8, <3>1, <3>2
  <2>2. CASE now < t
    <3>1. s = now - t + Wrap /\ t + n <= now + Wrap BY <1>1, <1>5, <1>8, <2>2
    <3>2. CASE t + n < Wrap
      <4>1. u = t + n /\ now < u BY <1>3, <1>8, <2>2, <3>2
      <4> QED BY <1>1, <1>7, <1>8, <3>1, <4>1
    <3>3. CASE t + n >= Wrap
      <4>1. u = t + n - Wrap /\ u <= now BY <1>1, <1>3, <1>8, <3>1, <3>3
      <4> QED BY <1>1, <1>7, <1>8, <3>1, <4>1
    <3> QED BY <1>1, <1>8, <3>2, <3>3
  <2> QED BY <1>8, <2>1, <2>2
<1> QED BY <1>2, <1>4, <1>6, <1>9

\* A tick of the clock.
LEMMA SinceTicks ==
    ASSUME TimeoutConstants, now \in Times, NEW t \in Times,
           now' = (now + 1) % Wrap, Since(t) + 1 < Wrap
    PROVE  now' \in Times /\ (now' - t + Wrap) % Wrap = Since(t) + 1
<1>1. Wrap \in Nat /\ Wrap > 2 BY Intervals
<1>2. 1 \in Times BY <1>1 DEF Times
<1>3. PICK m \in Times : m = (now + 1) % Wrap BY <1>2, ClockGoesOn
<1>4. m = IF now + 1 < Wrap THEN now + 1 ELSE now + 1 - Wrap BY <1>2, <1>3, ClockGoesOn
<1>5. PICK s \in Times : s = Since(t) BY SinceIs
<1>6. s = IF now >= t THEN now - t ELSE now - t + Wrap BY <1>5, SinceIs
<1>7. now \in Nat /\ t \in Nat /\ m \in Nat /\ s \in Nat /\ now < Wrap /\ t < Wrap /\ s + 1 < Wrap
  BY <1>1, <1>5 DEF Times
<1>8. PICK a \in Int : a = m - t + Wrap BY <1>1, <1>7
<1>9. CASE m >= t
  <2>0. now + 1 < Wrap
    <3> SUFFICES ASSUME now + 1 = Wrap PROVE FALSE BY <1>1, <1>7
    <3>1. m = 0 /\ t = 0 BY <1>1, <1>4, <1>7, <1>9
    <3>2. s = now BY <1>6, <1>7, <3>1
    <3> QED BY <1>7, <3>2
  <2>1. a = s + 1 + Wrap
    <3>1. m = now + 1 BY <1>4, <2>0
    <3>2. now >= t
      <4> SUFFICES ASSUME now < t PROVE FALSE BY <1>7
      <4>1. t = now + 1 /\ s = now - t + Wrap BY <1>6, <1>7, <1>9, <3>1
      <4> QED BY <1>1, <1>7, <4>1
    <3>3. s = now - t BY <1>6, <3>2
    <3> QED BY <1>1, <1>7, <1>8, <3>1, <3>3
  <2>2. a \in Wrap .. 2 * Wrap - 1 BY <1>1, <1>7, <2>1
  <2>3. a % Wrap = a - Wrap BY <2>2, WrapHigh
  <2>4. a - Wrap = s + 1 BY <1>1, <1>7, <2>1
  <2> QED BY <1>3, <1>5, <1>8, <2>3, <2>4
<1>10. CASE m < t
  <2>1. a = s + 1 BY <1>1, <1>4, <1>6, <1>7, <1>8, <1>10
  <2>2. a \in 0 .. Wrap - 1 BY <1>1, <1>7, <2>1
  <2>3. a % Wrap = a BY <2>2, WrapLow
  <2> QED BY <1>1, <1>3, <1>5, <1>7, <1>8, <2>1, <2>3
<1> QED BY <1>7, <1>9, <1>10
-----------------------------------------------------------------------------
(* The times a list adds up to *)

IntTimed(list) == Len(list) \in Nat /\ \A i \in 1 .. Len(list) : list[i].time \in Int

Dues(list, n, f) ==
    /\ f \in [0 .. n -> Int] /\ f[0] = 0
    /\ \A i \in 1 .. n : f[i] = f[i - 1] + list[i].time

LEMMA DuesExist ==
    ASSUME NEW list, IntTimed(list), NEW n \in 0 .. Len(list)
    PROVE  \E f : Dues(list, n, f)
<1> DEFINE S == {k \in 0 .. Len(list) : ~\E f : Dues(list, k, f)}
<1>0. Len(list) \in Nat BY DEF IntTimed
<1> SUFFICES ASSUME S # {} PROVE FALSE OBVIOUS
<1>1. S \in SUBSET Nat BY <1>0
<1>2. PICK k \in S : \A j \in S : k <= j
  <2> HIDE DEF S
  <2> QED BY <1>1, SmallestElement
<1>3. k # 0
  <2>1. Dues(list, 0, [i \in 0 .. 0 |-> 0]) BY DEF Dues
  <2> QED BY <2>1
<1>4. k \in 1 .. Len(list) /\ k - 1 \in 0 .. Len(list) /\ k - 1 \notin S BY <1>0, <1>2, <1>3
<1>5. PICK f : Dues(list, k - 1, f) BY <1>4
<1> DEFINE g == [i \in 0 .. k |-> IF i = k THEN f[k - 1] + list[k].time ELSE f[i]]
<1>6. f[k - 1] + list[k].time \in Int BY <1>4, <1>5 DEF Dues, IntTimed
<1>7. g \in [0 .. k -> Int] BY <1>4, <1>5, <1>6 DEF Dues
<1>8. g[0] = 0 BY <1>4, <1>5 DEF Dues
<1>9. \A i \in 1 .. k : g[i] = g[i - 1] + list[i].time BY <1>4, <1>5 DEF Dues
<1>10. Dues(list, k, g)
  <2> HIDE DEF g
  <2> QED BY <1>7, <1>8, <1>9 DEF Dues
<1> QED BY <1>2, <1>10

Adds(list, n, f) ==
    /\ f = [i \in 0 .. n |-> f[i]] /\ f[0] = 0
    /\ \A i \in 1 .. n : f[i] = f[i - 1] + list[i].time

LEMMA AddsUnique ==
    ASSUME NEW list, NEW n \in Nat, NEW f, NEW g, Adds(list, n, f), Adds(list, n, g)
    PROVE  f = g
<1> DEFINE S == {k \in 0 .. n : f[k] # g[k]}
<1>1. S = {}
  <2> SUFFICES ASSUME S # {} PROVE FALSE OBVIOUS
  <2>1. S \in SUBSET Nat OBVIOUS
  <2>2. PICK k \in S : \A j \in S : k <= j
    <3> HIDE DEF S
    <3> QED BY <2>1, SmallestElement
  <2>3. k # 0 BY <2>2 DEF Adds
  <2>4. k \in 1 .. n /\ k - 1 \in 0 .. n /\ k - 1 \notin S BY <2>2, <2>3
  <2>5. f[k - 1] = g[k - 1] BY <2>4
  <2>6. f[k] = g[k] BY <2>4, <2>5 DEF Adds
  <2> QED BY <2>2, <2>6
<1>2. \A k \in 0 .. n : f[k] = g[k] BY <1>1
<1>3. [i \in 0 .. n |-> f[i]] = [i \in 0 .. n |-> g[i]] BY <1>2
<1> QED BY <1>3 DEF Adds

LEMMA DuesAdd ==
    ASSUME NEW list, NEW n \in Nat, NEW f, Dues(list, n, f) PROVE Adds(list, n, f)
BY DEF Dues, Adds

LEMMA SumsAreDues ==
    ASSUME NEW list, IntTimed(list)
    PROVE  Dues(list, Len(list), Sums(list))
<1> DEFINE n == Len(list)
           Recursive(f) == f = [i \in 0 .. n |-> IF i = 0 THEN 0 ELSE f[i - 1] + list[i].time]
<1>1. n \in Nat BY DEF IntTimed
<1>2. Sums(list) = CHOOSE f : Recursive(f) BY DEF Sums
<1>3. PICK f : Dues(list, n, f) BY <1>1, DuesExist
<1>4. Recursive(f) BY <1>1, <1>3 DEF Dues
<1>5. Recursive(Sums(list))
  <2> HIDE DEF Recursive
  <2> QED BY <1>2, <1>4
<1>6. Adds(list, n, Sums(list))
  <2>1. PICK g : g = Sums(list) OBVIOUS
  <2>2. g = [i \in 0 .. n |-> IF i = 0 THEN 0 ELSE g[i - 1] + list[i].time] BY <1>5, <2>1
  <2>3. \A i \in 0 .. n : g[i] = IF i = 0 THEN 0 ELSE g[i - 1] + list[i].time BY <2>2
  <2>4. g = [i \in 0 .. n |-> g[i]] BY <2>2, <2>3
  <2>5. g[0] = 0 BY <1>1, <2>3
  <2>6. \A i \in 1 .. n : g[i] = g[i - 1] + list[i].time
    <3> SUFFICES ASSUME NEW i \in 1 .. n PROVE g[i] = g[i - 1] + list[i].time OBVIOUS
    <3>1. i \in 0 .. n /\ i # 0 BY <1>1
    <3> QED BY <2>3, <3>1
  <2>7. Adds(list, n, g) BY <2>4, <2>5, <2>6 DEF Adds
  <2> QED BY <2>1, <2>7
<1>7. Adds(list, n, f) BY <1>1, <1>3, DuesAdd
<1>8. Sums(list) = f BY <1>1, <1>6, <1>7, AddsUnique
<1> QED BY <1>3, <1>8

LEMMA SumsAre ==
    ASSUME NEW list, IntTimed(list), NEW f, Dues(list, Len(list), f)
    PROVE  Sums(list) = f
<1>1. Len(list) \in Nat BY DEF IntTimed
<1>2. Adds(list, Len(list), f) BY <1>1, DuesAdd
<1>3. Adds(list, Len(list), Sums(list)) BY <1>1, SumsAreDues, DuesAdd
<1> QED BY <1>1, <1>2, <1>3, AddsUnique
-----------------------------------------------------------------------------
(* sys_timeout: where the new timeout goes, and what becomes of the others *)

\* The times of a list when a timeout of x is put in at p.
TimesPut(list, n, L, p, x, d) ==
    /\ L[p].time = x
    /\ \A k \in 1 .. p - 1 : L[k].time = list[k].time
    /\ \A k \in p .. n : L[k + 1].time = IF k = p THEN list[k].time - d ELSE list[k].time

\* L is list with a timeout of h and time x put in at p; the one after it
\* loses d.
Put(list, L, p, h, x, d) ==
    /\ L \in Seq(Timeouts) /\ Len(L) = Len(list) + 1
    /\ L[p].h = h
    /\ \A k \in 1 .. p - 1 : L[k] = list[k]
    /\ \A k \in p .. Len(list) : L[k + 1].h = list[k].h
    /\ TimesPut(list, Len(list), L, p, x, d)

LEMMA TimeoutsTimed ==
    ASSUME Wrap \in Nat, NEW list \in Seq(Timeouts)
    PROVE  /\ IntTimed(list)
           /\ \A i \in 1 .. Len(list) : /\ list[i] \in Timeouts /\ list[i].h \in Timers
                                        /\ list[i].time \in Times /\ list[i].time \in Nat
                                        /\ list[i].time < Wrap
           /\ DOMAIN list = 1 .. Len(list)
<1>2. Len(list) \in Nat /\ DOMAIN list = 1 .. Len(list) OBVIOUS
<1>3. \A i \in 1 .. Len(list) : list[i] \in Timeouts OBVIOUS
<1>4. \A i \in 1 .. Len(list) : list[i].h \in Timers /\ list[i].time \in Times BY <1>3 DEF Timeouts
<1>5. \A t \in Times : t \in Nat /\ t \in Int /\ t < Wrap BY DEF Times
<1> QED BY <1>2, <1>3, <1>4, <1>5 DEF IntTimed

\* The same of what comes due when.
Shifted(e, f, n, p, x, d) ==
    /\ \A k \in 0 .. p - 1 : f[k] = e[k]
    /\ f[p] = e[p - 1] + x
    /\ \A k \in p .. n : f[k + 1] = e[k] + (x - d)

LEMMA PutDues ==
    ASSUME NEW list, NEW n \in Nat, NEW e, Dues(list, n, e),
           NEW L, NEW p \in 1 .. n + 1, NEW x \in Int, NEW d \in Int,
           \A k \in 1 .. n : list[k].time \in Int,
           TimesPut(list, n, L, p, x, d)
    PROVE  \E f : Dues(L, n + 1, f) /\ Shifted(e, f, n, p, x, d)
<1> DEFINE f == [k \in 0 .. n + 1 |->
                   IF k < p THEN e[k] ELSE IF k = p THEN e[p - 1] + x ELSE e[k - 1] + (x - d)]
<1>1. e[0] = 0 /\ (\A k \in 0 .. n : e[k] \in Int) /\ \A k \in 1 .. n : e[k] = e[k - 1] + list[k].time
  BY DEF Dues
<1>2. p \in Nat /\ 1 <= p /\ p <= n + 1 OBVIOUS
<1>3. \A k \in 0 .. p - 1 : f[k] = e[k] /\ k \in 0 .. n BY <1>2
<1>4. f[p] = e[p - 1] + x /\ p - 1 \in 0 .. n BY <1>2
<1>5. \A k \in p .. n : f[k + 1] = e[k] + (x - d) /\ k \in 1 .. n BY <1>2
<1>6. f = [k \in 0 .. n + 1 |-> f[k]] OBVIOUS
<1> HIDE DEF f
<1>7. \A k \in 0 .. n + 1 : k \in 0 .. p - 1 \/ k = p \/ k - 1 \in p .. n BY <1>2
<1>0. L[p].time = x BY DEF TimesPut
<1>8. ASSUME NEW k \in 0 .. n + 1 PROVE f[k] \in Int
  <2>1. CASE k \in 0 .. p - 1 BY <1>1, <1>3, <2>1
  <2>2. CASE k = p BY <1>1, <1>4, <2>2
  <2>3. CASE k - 1 \in p .. n
    <3>1. PICK j \in p .. n : k = j + 1 BY <2>3
    <3> QED BY <1>1, <1>5, <3>1
  <2> QED BY <1>7, <2>1, <2>2, <2>3
<1>9. f \in [0 .. n + 1 -> Int] BY <1>6, <1>8
<1>10. f[0] = 0 BY <1>1, <1>2, <1>3
<1>11. ASSUME NEW k \in 1 .. n + 1 PROVE f[k] = f[k - 1] + L[k].time
  <2>1. CASE k \in 0 .. p - 1
    <3>1. k \in 1 .. p - 1 /\ k - 1 \in 0 .. p - 1 /\ k \in 1 .. n BY <1>2, <2>1
    <3>2. f[k] = e[k] /\ f[k - 1] = e[k - 1] /\ L[k].time = list[k].time BY <1>3, <3>1 DEF TimesPut
    <3> QED BY <1>1, <3>1, <3>2
  <2>2. CASE k = p
    <3>1. f[k - 1] = e[p - 1] BY <1>2, <1>3, <2>2
    <3> QED BY <1>0, <1>4, <2>2, <3>1
  <2>3. CASE k - 1 \in p .. n
    <3>1. PICK j \in p .. n : k = j + 1 BY <2>3
    <3>2. j \in 1 .. n /\ f[k] = e[j] + (x - d) BY <1>5, <3>1
    <3>3. e[j] = e[j - 1] + list[j].time /\ e[j - 1] \in Int /\ list[j].time \in Int BY <1>1, <3>2
    <3>4. CASE j = p
      <4>1. f[k - 1] = e[p - 1] + x BY <1>4, <3>1, <3>4
      <4>2. L[k].time = list[p].time - d BY <3>1, <3>4 DEF TimesPut
      <4> QED BY <3>2, <3>3, <3>4, <4>1, <4>2
    <3>5. CASE j # p
      <4>1. j - 1 \in p .. n BY <1>2, <3>1, <3>5
      <4>2. f[(j - 1) + 1] = e[j - 1] + (x - d) BY <1>5, <4>1
      <4>3. f[k - 1] = e[j - 1] + (x - d) BY <3>1, <3>2, <4>2
      <4>4. L[k].time = list[j].time BY <3>1, <3>5 DEF TimesPut
      <4> QED BY <3>2, <3>3, <4>3, <4>4
    <3> QED BY <3>4, <3>5
  <2> QED BY <1>7, <2>1, <2>2, <2>3
<1>12. Dues(L, n + 1, f) BY <1>9, <1>10, <1>11 DEF Dues
<1>13. Shifted(e, f, n, p, x, d) BY <1>3, <1>4, <1>5 DEF Shifted
<1> QED BY <1>12, <1>13

LEMMA SumsOf ==
    ASSUME Wrap \in Nat, NEW list \in Seq(Timeouts), NEW n \in Nat, n = Len(list)
    PROVE  /\ Sums(list)[0] = 0
           /\ \A k \in 0 .. n : Sums(list)[k] \in Int
           /\ \A k \in 1 .. n : Sums(list)[k] = Sums(list)[k - 1] + list[k].time
<1>1. Dues(list, n, Sums(list)) BY TimeoutsTimed, SumsAreDues
<1>2. PICK e : e = Sums(list) OBVIOUS
<1>3. Dues(list, n, e) BY <1>1, <1>2
<1> QED BY <1>2, <1>3 DEF Dues

LEMMA PutSums ==
    ASSUME Wrap \in Nat, NEW list \in Seq(Timeouts), NEW n \in Nat, n = Len(list),
           NEW L, NEW p \in 1 .. n + 1,
           NEW h, NEW x \in Int, NEW d \in Int, Put(list, L, p, h, x, d)
    PROVE  Shifted(Sums(list), Sums(L), n, p, x, d)
<1>1. IntTimed(list) BY TimeoutsTimed
<1>2. L \in Seq(Timeouts) /\ Len(L) = n + 1 /\ TimesPut(list, n, L, p, x, d)
  BY DEF Put
<1>3. IntTimed(L) BY <1>2, TimeoutsTimed
<1>4. Dues(list, n, Sums(list)) BY <1>1, SumsAreDues
<1>5. \A k \in 1 .. n : list[k].time \in Int BY <1>1 DEF IntTimed
<1>6. \E f : Dues(L, n + 1, f) /\ Shifted(Sums(list), f, n, p, x, d) BY <1>2, <1>4, <1>5, PutDues
<1>7. PICK f : Dues(L, Len(L), f) /\ Shifted(Sums(list), f, n, p, x, d) BY <1>2, <1>6
<1>8. Sums(L) = f BY <1>3, <1>7, SumsAre
<1> QED BY <1>7, <1>8
LEMMA TimeLost ==
    ASSUME Wrap \in Nat, NEW s \in Seq(Timeouts), s # <<>>, NEW d \in Nat, d <= s[1].time
    PROVE  /\ [s EXCEPT ![1].time = @ - d] \in Seq(Timeouts)
           /\ Len([s EXCEPT ![1].time = @ - d]) = Len(s)
           /\ [s EXCEPT ![1].time = @ - d][1].h = s[1].h
           /\ [s EXCEPT ![1].time = @ - d][1].time = s[1].time - d
           /\ \A k \in 2 .. Len(s) : [s EXCEPT ![1].time = @ - d][k] = s[k]
<1>1. PICK n \in Nat : n = Len(s) OBVIOUS
<1>2. s \in [1 .. n -> Timeouts] /\ n > 0 BY <1>1
<1>3. s[1] \in Timeouts /\ 1 \in 1 .. n BY <1>2
<1>4. s[1].h \in Timers /\ s[1].time \in Times BY <1>3 DEF Timeouts
<1>5. s[1].time - d \in Times BY <1>4 DEF Times
<1>6. PICK e : e = [s[1] EXCEPT !.time = @ - d] OBVIOUS
<1>7. e = [h |-> s[1].h, time |-> s[1].time - d] BY <1>3, <1>6 DEF Timeouts
<1>8. e \in Timeouts /\ e.h = s[1].h /\ e.time = s[1].time - d BY <1>4, <1>5, <1>7 DEF Timeouts
<1>9. [s EXCEPT ![1].time = @ - d] = [s EXCEPT ![1] = e] BY <1>6
<1>10. PICK t : t = [s EXCEPT ![1] = e] OBVIOUS
<1> HIDE DEF Timeouts
<1>11. t \in [1 .. n -> Timeouts] BY <1>2, <1>8, <1>10
<1>12. t \in Seq(Timeouts) /\ Len(t) = n BY <1>11
<1>13. t[1] = e /\ \A k \in 2 .. n : t[k] = s[k] BY <1>2, <1>10
<1> QED BY <1>1, <1>8, <1>9, <1>10, <1>12, <1>13

LEMMA FirstPut ==
    ASSUME Wrap \in Nat, NEW list \in Seq(Timeouts), list # <<>>, NEW e \in Timeouts,
           NEW d \in Nat, d <= list[1].time
    PROVE  Put(list, <<e>> \o [list EXCEPT ![1].time = @ - d], 1, e.h, e.time, d)
<1>1. PICK s \in Seq(Timeouts) : s = [list EXCEPT ![1].time = @ - d] BY TimeLost
<1>2. Len(s) = Len(list) /\ s[1].h = list[1].h /\ s[1].time = list[1].time - d
      /\ \A k \in 2 .. Len(list) : s[k] = list[k]
  BY <1>1, TimeLost
<1>3. PICK n \in Nat : n = Len(list) OBVIOUS
<1>4. PICK L : L = <<e>> \o s OBVIOUS
<1>5. L \in Seq(Timeouts) /\ Len(L) = n + 1 /\ L[1] = e BY <1>2, <1>3, <1>4
<1>6. \A k \in 1 .. n : L[k + 1] = s[k] BY <1>2, <1>3, <1>4
<1>7. \A k \in 1 .. n : /\ L[k + 1].h = list[k].h
                        /\ L[k + 1].time = IF k = 1 THEN list[k].time - d ELSE list[k].time
  BY <1>2, <1>3, <1>6
<1>8. TimesPut(list, n, L, 1, e.time, d) BY <1>5, <1>7 DEF TimesPut
<1> QED BY <1>1, <1>3, <1>4, <1>5, <1>7, <1>8 DEF Put

LEMMA LastPut ==
    ASSUME NEW list \in Seq(Timeouts), NEW e \in Timeouts
    PROVE  Put(list, Append(list, e), Len(list) + 1, e.h, e.time, 0)
<1>1. PICK n \in Nat : n = Len(list) OBVIOUS
<1>2. PICK L : L = Append(list, e) OBVIOUS
<1>3. L \in Seq(Timeouts) /\ Len(L) = n + 1 /\ L[n + 1] = e /\ \A k \in 1 .. n : L[k] = list[k]
  BY <1>1, <1>2
<1>4. TimesPut(list, n, L, n + 1, e.time, 0) BY <1>3 DEF TimesPut
<1> QED BY <1>1, <1>2, <1>3, <1>4 DEF Put

LEMMA Joined ==
    ASSUME NEW T, NEW a \in Seq(T), NEW b \in Seq(T), NEW m \in Nat, m = Len(a),
           NEW n \in Nat, n = Len(b)
    PROVE  /\ a \o b \in Seq(T) /\ Len(a \o b) = m + n
           /\ \A k \in 1 .. m : (a \o b)[k] = a[k]
           /\ \A k \in 1 .. n : (a \o b)[k + m] = b[k]
<1>1. /\ a \o b \in Seq(T) /\ Len(a \o b) = m + n
      /\ \A i \in 1 .. m + n : (a \o b)[i] = IF i <= m THEN a[i] ELSE b[i - m]
  BY ConcatProperties
<1>2. \A k \in 1 .. m : k \in 1 .. m + n /\ k <= m OBVIOUS
<1>3. \A k \in 1 .. n : k + m \in 1 .. m + n /\ ~(k + m <= m) /\ (k + m) - m = k OBVIOUS
<1> QED BY <1>1, <1>2, <1>3

LEMMA Part ==
    ASSUME NEW T, NEW s \in Seq(T), NEW n \in Nat, n = Len(s), NEW i \in 0 .. n, NEW j \in i .. n
    PROVE  /\ SubSeq(s, i + 1, j) \in Seq(T) /\ Len(SubSeq(s, i + 1, j)) = j - i
           /\ \A k \in 1 .. j - i : SubSeq(s, i + 1, j)[k] = s[k + i]
<1>1. \A k \in i + 1 .. j : s[k] \in T
  <2> SUFFICES ASSUME NEW k \in i + 1 .. j PROVE s[k] \in T OBVIOUS
  <2>1. k \in 1 .. Len(s) OBVIOUS
  <2> QED BY <2>1, ElementOfSeq
<1>2. i + 1 \in Int /\ j \in Int OBVIOUS
<1>3. /\ SubSeq(s, i + 1, j) \in Seq(T)
      /\ Len(SubSeq(s, i + 1, j)) = IF i + 1 <= j THEN j - (i + 1) + 1 ELSE 0
      /\ \A k \in 1 .. j - (i + 1) + 1 : SubSeq(s, i + 1, j)[k] = s[(i + 1) + k - 1]
  BY <1>1, <1>2, SubSeqProperties
<1>4. j - (i + 1) + 1 = j - i /\ (IF i + 1 <= j THEN j - (i + 1) + 1 ELSE 0) = j - i OBVIOUS
<1>5. \A k \in 1 .. j - i : (i + 1) + k - 1 = k + i OBVIOUS
<1> QED BY <1>3, <1>4, <1>5

LEMMA MiddlePut ==
    ASSUME Wrap \in Nat, NEW list \in Seq(Timeouts), NEW n \in Nat, n = Len(list),
           NEW i \in 1 .. n - 1, NEW e \in Timeouts,
           NEW d \in Nat, d <= list[i + 1].time
    PROVE  Put(list, SubSeq(list, 1, i) \o <<e>>
                       \o [SubSeq(list, i + 1, n) EXCEPT ![1].time = @ - d],
               i + 1, e.h, e.time, d)
<1>1. PICK r : r = SubSeq(list, i + 1, n) OBVIOUS
<1>2. r \in Seq(Timeouts) /\ Len(r) = n - i /\ \A k \in 1 .. n - i : r[k] = list[k + i]
  <2>1. i \in 0 .. n /\ n \in i .. n OBVIOUS
  <2> QED BY <1>1, <2>1, Part
<1>3. i \in Nat /\ 1 <= i /\ i < n OBVIOUS
<1>4. 1 \in 1 .. n - i /\ r # <<>> BY <1>2, <1>3
<1>5. r[1] = list[i + 1] BY <1>2, <1>4
<1>6. PICK s \in Seq(Timeouts) : s = [r EXCEPT ![1].time = @ - d] BY <1>2, <1>4, <1>5, TimeLost
<1>7. Len(s) = n - i /\ s[1].h = list[i + 1].h /\ s[1].time = list[i + 1].time - d
      /\ \A k \in 2 .. n - i : s[k] = r[k]
  BY <1>2, <1>4, <1>5, <1>6, TimeLost
<1>8. PICK q : q = SubSeq(list, 1, i) OBVIOUS
<1>9. q \in Seq(Timeouts) /\ Len(q) = i /\ \A k \in 1 .. i : q[k] = list[k]
  <2>1. 0 \in 0 .. n /\ i \in 0 .. n /\ i - 0 = i /\ 0 + 1 = 1 /\ \A k \in 1 .. i : k + 0 = k BY <1>3
  <2>2. /\ SubSeq(list, 0 + 1, i) \in Seq(Timeouts) /\ Len(SubSeq(list, 0 + 1, i)) = i - 0
        /\ \A k \in 1 .. i - 0 : SubSeq(list, 0 + 1, i)[k] = list[k + 0]
    BY <2>1, Part
  <2> QED BY <1>8, <2>1, <2>2
<1>10. PICK u : u = q \o <<e>> OBVIOUS
<1>11. u \in Seq(Timeouts) /\ Len(u) = i + 1 /\ u[i + 1] = e /\ \A k \in 1 .. i : u[k] = q[k]
  <2>1. <<e>> \in Seq(Timeouts) /\ Len(<<e>>) = 1 /\ <<e>>[1] = e OBVIOUS
  <2>2. 1 + i = i + 1 /\ 1 \in 1 .. 1 /\ 1 \in Nat BY <1>3
  <2>3. /\ q \o <<e>> \in Seq(Timeouts) /\ Len(q \o <<e>>) = i + 1
        /\ \A k \in 1 .. i : (q \o <<e>>)[k] = q[k]
        /\ \A k \in 1 .. 1 : (q \o <<e>>)[k + i] = <<e>>[k]
    BY <1>3, <1>9, <2>1, <2>2, Joined
  <2> QED BY <1>10, <2>1, <2>2, <2>3
<1>12. PICK L : L = u \o s OBVIOUS
<1>13. L \in Seq(Timeouts) /\ Len(L) = n + 1 /\ (\A k \in 1 .. i + 1 : L[k] = u[k])
       /\ \A k \in 1 .. n - i : L[k + (i + 1)] = s[k]
  <2>0. i + 1 \in Nat BY <1>3
  <2>1. PICK m \in Nat : m = i + 1 BY <2>0
  <2>2. PICK l \in Nat : l = n - i
    <3>1. n \in Nat /\ i \in Nat /\ i < n BY <1>3
    <3>2. n - i \in Nat BY <3>1
    <3> QED BY <3>2
  <2>3. u \in Seq(Timeouts) /\ m = Len(u) BY <1>11, <2>1
  <2>6. s \in Seq(Timeouts) /\ l = Len(s) BY <1>6, <1>7, <2>2
  <2>4. /\ u \o s \in Seq(Timeouts) /\ Len(u \o s) = m + l
        /\ \A k \in 1 .. m : (u \o s)[k] = u[k]
        /\ \A k \in 1 .. l : (u \o s)[k + m] = s[k]
    BY <2>3, <2>6, Joined
  <2>5. m + l = n + 1 BY <1>3, <2>1, <2>2
  <2> QED BY <1>12, <2>1, <2>2, <2>4, <2>5
<1>14. L[i + 1] = e BY <1>3, <1>11, <1>13
<1>15. \A k \in 1 .. (i + 1) - 1 : L[k] = list[k] BY <1>3, <1>9, <1>11, <1>13
<1>16. ASSUME NEW k \in i + 1 .. n
       PROVE  /\ L[k + 1].h = list[k].h
              /\ L[k + 1].time = IF k = i + 1 THEN list[k].time - d ELSE list[k].time
  <2>1. PICK j \in 1 .. n - i : k = j + i BY <1>3
  <2>2. j + (i + 1) = k + 1 BY <1>3, <2>1
  <2>3. L[k + 1] = s[j] BY <1>13, <2>2
  <2>4. CASE j = 1 BY <1>3, <1>7, <2>1, <2>3, <2>4
  <2>5. CASE j # 1
    <3>1. j \in 2 .. n - i BY <2>5
    <3>2. s[j] = list[k] BY <1>2, <1>7, <2>1, <3>1
    <3> QED BY <1>3, <2>1, <2>3, <2>5, <3>2
  <2> QED BY <2>4, <2>5
<1>17. TimesPut(list, n, L, i + 1, e.time, d) BY <1>14, <1>15, <1>16 DEF TimesPut
<1>18. Put(list, L, i + 1, e.h, e.time, d) BY <1>13, <1>14, <1>15, <1>16, <1>17 DEF Put
<1> QED BY <1>1, <1>6, <1>8, <1>10, <1>12, <1>18

\* What comes of it: the others are due no earlier, and the new one is not
\* early unless all were due.
Placed(list, L, h, msecs, late) ==
    \E p \in 1 .. Len(list) + 1, x \in Nat, d \in Nat :
       /\ Put(list, L, p, h, x, d) /\ d <= x
       /\ \/ AllDue(list, msecs, late)
          \/ msecs + (IF list = <<>> THEN 0 ELSE late) <= TimeUpTo(list, p - 1) + x

LEMMA BehindPut ==
    ASSUME Wrap \in Nat, NEW list \in Seq(Timeouts), list # <<>>, NEW h \in Timers,
           NEW msecs \in Nat, 2 * msecs < Wrap, NEW late \in Nat, list[1].time <= msecs
    PROVE  Placed(list, Behind(list, h, msecs, late), h, msecs, late)
<1>1. PICK n \in Nat : n = Len(list) /\ n >= 1 OBVIOUS
<1>2. PICK e : e = Sums(list) OBVIOUS
<1>3. /\ e[0] = 0
      /\ \A k \in 0 .. n : e[k] \in Int
      /\ \A k \in 1 .. n : e[k] = e[k - 1] + list[k].time
  BY <1>1, <1>2, SumsOf
<1>4. DOMAIN list = 1 .. n /\ \A k \in 1 .. n : /\ list[k].time \in Times /\ list[k].time \in Nat
                                                /\ list[k].time < Wrap
  BY <1>1, TimeoutsTimed
<1> DEFINE Remains(k) == msecs + late - e[k]
           S == {j \in 1 .. n : j = n \/ list[j + 1].time > Remains(j)}
<1>5. S \in SUBSET Nat /\ n \in S BY <1>1
<1>6. PICK i : i = Min(S) OBVIOUS
<1>7. i \in S /\ \A j \in S : i <= j
  <2> HIDE DEF S
  <2> QED BY <1>5, <1>6, MinIs
<1>8. i \in 1 .. n /\ (i = n \/ list[i + 1].time > Remains(i)) BY <1>7
<1>9. PICK r \in Int : r = Remains(i) BY <1>1, <1>3, <1>8
<1>10. r >= 0
  <2>1. CASE i = 1
    <3>1. 1 - 1 = 0 /\ e[1] = e[1 - 1] + list[1].time /\ list[1].time \in Nat BY <1>1, <1>3, <1>4
    <3>2. e[1] = list[1].time BY <1>3, <3>1
    <3> QED BY <1>9, <2>1, <3>1, <3>2
  <2>2. CASE i # 1
    <3>1. i - 1 \in 1 .. n /\ i - 1 # n /\ ~(i <= i - 1) /\ (i - 1) + 1 = i BY <1>1, <1>8, <2>2
    <3>2. i - 1 \notin S
      <4> HIDE DEF S
      <4> QED BY <1>7, <3>1
    <3>3. ~(list[i].time > Remains(i - 1)) BY <3>1, <3>2
    <3>4. e[i] = e[i - 1] + list[i].time /\ e[i - 1] \in Int /\ list[i].time \in Nat
      BY <1>1, <1>3, <1>4, <1>8, <3>1
    <3> QED BY <1>9, <3>3, <3>4
  <2> QED BY <2>1, <2>2
<1>11. msecs \in Times /\ msecs < Wrap BY DEF Times
<1>12. e[i] \in Int /\ r + e[i] = msecs + late BY <1>1, <1>3, <1>8, <1>9
<1>13. Behind(list, h, msecs, late) =
         IF i < n
           THEN SubSeq(list, 1, i) \o <<[h |-> h, time |-> r]>>
                  \o [SubSeq(list, i + 1, n) EXCEPT ![1].time = @ - r]
           ELSE Append(list, [h |-> h, time |-> IF r > msecs THEN msecs + list[1].time ELSE r])
  <2>1. \A k : Remains(k) = msecs + late - TimeUpTo(list, k) BY <1>2 DEF TimeUpTo
  <2>2. i = Min({j \in DOMAIN list : j = Len(list) \/ list[j + 1].time > msecs + late - TimeUpTo(list, j)})
    <3> HIDE DEF Remains
    <3>1. \A j \in 1 .. n : list[j + 1].time > Remains(j) <=> list[j + 1].time > msecs + late - TimeUpTo(list, j)
      BY <2>1
    <3>2. S = {j \in DOMAIN list : j = Len(list) \/ list[j + 1].time > msecs + late - TimeUpTo(list, j)}
      BY <1>1, <1>4, <3>1
    <3> HIDE DEF S
    <3> QED BY <1>6, <3>2
  <2>3. r = msecs + late - TimeUpTo(list, i) BY <1>9, <2>1
  <2> HIDE DEF Remains, S
  <2> QED BY <1>1, <2>2, <2>3 DEF Behind
<1> HIDE DEF Remains
<1>14. CASE i < n
  <2>1. i \in 1 .. n - 1 /\ i + 1 \in 1 .. n BY <1>1, <1>8, <1>14
  <2>2. list[i + 1].time \in Nat /\ r < list[i + 1].time /\ list[i + 1].time < Wrap
    BY <1>4, <1>8, <1>9, <1>14, <2>1
  <2>3. r \in Nat /\ r \in Times BY <1>10, <2>2 DEF Times
  <2>4. PICK t : t = [h |-> h, time |-> r] OBVIOUS
  <2>5. t \in Timeouts /\ t.h = h /\ t.time = r BY <2>3, <2>4 DEF Timeouts
  <2>6. Put(list, Behind(list, h, msecs, late), i + 1, h, r, r)
    <3>1. r <= list[i + 1].time BY <2>2, <2>3
    <3>2. Put(list, SubSeq(list, 1, i) \o <<t>> \o [SubSeq(list, i + 1, n) EXCEPT ![1].time = @ - r],
              i + 1, t.h, t.time, r)
      BY <1>1, <2>1, <2>3, <2>5, <3>1, MiddlePut
    <3> QED BY <1>13, <1>14, <2>4, <2>5, <3>2
  <2>7. i + 1 \in 1 .. Len(list) + 1 /\ (i + 1) - 1 = i BY <1>1, <2>1
  <2>8. msecs + (IF list = <<>> THEN 0 ELSE late) <= TimeUpTo(list, (i + 1) - 1) + r
    BY <1>2, <1>12, <2>7 DEF TimeUpTo
  <2>9. r <= r BY <2>3
  <2> QED BY <2>3, <2>6, <2>7, <2>8, <2>9 DEF Placed
<1>15. CASE i = n
  <2>0. list[1].time \in Nat BY <1>1, <1>4
  <2>1. PICK x \in Nat : x = IF r > msecs THEN msecs + list[1].time ELSE r BY <1>10, <2>0
  <2>2. x \in Times BY <1>10, <2>0, <2>1 DEF Times
  <2>3. PICK t : t = [h |-> h, time |-> x] OBVIOUS
  <2>4. t \in Timeouts /\ t.h = h /\ t.time = x BY <2>2, <2>3 DEF Timeouts
  <2>5. Behind(list, h, msecs, late) = Append(list, t) BY <1>13, <1>15, <2>1, <2>3
  <2>6. Put(list, Behind(list, h, msecs, late), n + 1, h, x, 0) BY <1>1, <2>4, <2>5, LastPut
  <2>7. AllDue(list, msecs, late) \/ msecs + (IF list = <<>> THEN 0 ELSE late) <= TimeUpTo(list, (n + 1) - 1) + x
    <3>1. (n + 1) - 1 = n /\ TimeUpTo(list, n) = e[n] BY <1>1, <1>2 DEF TimeUpTo
    <3>2. CASE r > msecs
      <4>1. e[n] < late BY <1>12, <1>15, <3>2
      <4> QED BY <1>1, <3>1, <4>1 DEF AllDue
    <3>3. CASE ~(r > msecs)
      <4>1. msecs + late <= e[n] + x BY <1>12, <1>15, <2>1, <3>3
      <4> QED BY <3>1, <4>1
    <3> QED BY <3>2, <3>3
  <2>8. n + 1 \in 1 .. Len(list) + 1 /\ 0 <= x /\ 0 \in Nat BY <1>1, <2>1
  <2> QED BY <2>1, <2>6, <2>7, <2>8 DEF Placed
<1> QED BY <1>1, <1>8, <1>14, <1>15

LEMMA InsertedPlaced ==
    ASSUME Wrap \in Nat, NEW list \in Seq(Timeouts), NEW h \in Timers,
           NEW msecs \in Nat, 2 * msecs < Wrap, NEW late \in Nat, msecs + late < Wrap
    PROVE  Placed(list, Inserted(list, h, msecs, late), h, msecs, late)
<1>1. CASE list = <<>>
  <2>1. PICK t : t = [h |-> h, time |-> msecs] OBVIOUS
  <2>2. t \in Timeouts /\ t.h = h /\ t.time = msecs BY <2>1 DEF Timeouts, Times
  <2>3. Len(list) = 0 /\ Append(list, t) = <<t>> BY <1>1
  <2>4. Put(list, <<t>>, 1, h, msecs, 0)
    <3>1. Put(list, Append(list, t), Len(list) + 1, t.h, t.time, 0) BY <2>2, LastPut
    <3> QED BY <2>2, <2>3, <3>1
  <2>5. Inserted(list, h, msecs, late) = <<t>> BY <1>1, <2>1 DEF Inserted
  <2>6. TimeUpTo(list, 1 - 1) = 0
    <3>1. Sums(list)[0] = 0 BY <2>3, SumsOf
    <3> QED BY <3>1 DEF TimeUpTo
  <2>7. msecs + (IF list = <<>> THEN 0 ELSE late) <= TimeUpTo(list, 1 - 1) + msecs BY <1>1, <2>6
  <2>8. 1 \in 1 .. Len(list) + 1 /\ 0 \in Nat /\ 0 <= msecs BY <2>3
  <2> QED BY <2>4, <2>5, <2>7, <2>8 DEF Placed
<1>2. CASE list # <<>> /\ list[1].time > msecs
  <2>1. PICK x \in Nat : x = msecs + late OBVIOUS
  <2>2. PICK t : t = [h |-> h, time |-> x] OBVIOUS
  <2>3. t \in Timeouts /\ t.h = h /\ t.time = x BY <2>1, <2>2 DEF Timeouts, Times
  <2>4. list[1].time \in Nat BY <1>2, TimeoutsTimed
  <2>5. msecs <= list[1].time BY <1>2, <2>4
  <2>6. Inserted(list, h, msecs, late) = <<t>> \o [list EXCEPT ![1].time = @ - msecs]
    BY <1>2, <2>1, <2>2 DEF Inserted
  <2>7. Put(list, Inserted(list, h, msecs, late), 1, h, x, msecs)
    BY <1>2, <2>3, <2>5, <2>6, FirstPut
  <2>8. PICK n \in Nat : n = Len(list) OBVIOUS
  <2>9. TimeUpTo(list, 1 - 1) = 0
    <3>1. Sums(list)[0] = 0 BY <2>8, SumsOf
    <3> QED BY <3>1 DEF TimeUpTo
  <2>10. msecs + (IF list = <<>> THEN 0 ELSE late) <= TimeUpTo(list, 1 - 1) + x BY <2>1, <2>9
  <2>11. 1 \in 1 .. Len(list) + 1 /\ msecs <= x BY <2>1, <2>8
  <2> QED BY <2>7, <2>10, <2>11 DEF Placed
<1>3. CASE list # <<>> /\ ~(list[1].time > msecs)
  <2>1. list[1].time \in Nat BY <1>3, TimeoutsTimed
  <2>2. list[1].time <= msecs BY <1>3, <2>1
  <2>3. Inserted(list, h, msecs, late) = Behind(list, h, msecs, late) BY <1>3 DEF Inserted
  <2> QED BY <1>3, <2>2, <2>3, BehindPut
<1> QED BY <1>1, <1>2, <1>3
-----------------------------------------------------------------------------
(* What a list is: no timer twice, and none before its time *)

Handlers(list) == {list[i].h : i \in 1 .. Len(list)}
NoTwice(list) == \A i, j \in 1 .. Len(list) : list[i].h = list[j].h => i = j

\* lft is what is left of each timer, late the time since timeouts_last_time.
OnTime(list, lft, ct, late) ==
    \A i \in 1 .. Len(list) : list[i].h \in ct \/ lft[list[i].h] <= Sums(list)[i] - late

\* h is at place p of L, and around it is list.
Around(list, n, L, p, h) ==
    /\ L[p].h = h
    /\ \A j \in 1 .. n + 1 : j < p => j \in 1 .. n /\ L[j].h = list[j].h
    /\ \A j \in 1 .. n + 1 : j > p => j - 1 \in p .. n /\ L[j].h = list[j - 1].h
    /\ \A k \in 1 .. n : IF k < p THEN L[k].h = list[k].h ELSE L[k + 1].h = list[k].h

\* Where each timeout of the list is after another was put in.
LEMMA PutPlaces ==
    ASSUME NEW list, NEW n \in Nat, n = Len(list), NEW L, NEW p \in 1 .. n + 1, NEW h, NEW x, NEW d,
           Put(list, L, p, h, x, d)
    PROVE  Around(list, n, L, p, h)
<1>1. p \in Nat /\ 1 <= p /\ p <= n + 1 OBVIOUS
<1>2. L[p].h = h /\ (\A k \in 1 .. p - 1 : L[k] = list[k]) /\ \A k \in p .. n : L[k + 1].h = list[k].h
  BY DEF Put
<1>3. ASSUME NEW j \in 1 .. n + 1, j < p PROVE j \in 1 .. n /\ L[j].h = list[j].h
  <2>1. j \in 1 .. p - 1 /\ j \in 1 .. n BY <1>1, <1>3
  <2> QED BY <1>2, <2>1
<1>4. ASSUME NEW j \in 1 .. n + 1, j > p PROVE j - 1 \in p .. n /\ L[j].h = list[j - 1].h
  <2>1. j - 1 \in p .. n /\ (j - 1) + 1 = j BY <1>1, <1>4
  <2> QED BY <1>2, <2>1
<1>5. ASSUME NEW k \in 1 .. n PROVE IF k < p THEN L[k].h = list[k].h ELSE L[k + 1].h = list[k].h
  <2>1. k < p \/ k \in p .. n BY <1>1
  <2> QED BY <1>1, <1>2, <2>1
<1> QED BY <1>2, <1>3, <1>4, <1>5 DEF Around

LEMMA PutHandlers ==
    ASSUME NEW list, NEW n \in Nat, n = Len(list), NEW L, NEW p \in 1 .. n + 1, NEW h, NEW x, NEW d,
           Put(list, L, p, h, x, d), NoTwice(list), h \notin Handlers(list)
    PROVE  NoTwice(L) /\ Handlers(L) = Handlers(list) \union {h}
<1>1. p \in Nat /\ 1 <= p /\ p <= n + 1 /\ Len(L) = n + 1 BY DEF Put
<1>2. /\ L[p].h = h
      /\ \A j \in 1 .. n + 1 : j < p => j \in 1 .. n /\ L[j].h = list[j].h
      /\ \A j \in 1 .. n + 1 : j > p => j - 1 \in p .. n /\ L[j].h = list[j - 1].h
      /\ \A k \in 1 .. n : IF k < p THEN L[k].h = list[k].h ELSE L[k + 1].h = list[k].h
  BY PutPlaces DEF Around
<1>3. \A k \in 1 .. n : list[k].h \in Handlers(list) /\ list[k].h # h BY DEF Handlers
<1>4. ASSUME NEW j \in 1 .. n + 1, j # p PROVE L[j].h # h /\ L[j].h \in Handlers(list)
  <2>1. CASE j < p BY <1>2, <1>3, <2>1
  <2>2. CASE j > p
    <3>1. j - 1 \in 1 .. n /\ L[j].h = list[j - 1].h BY <1>1, <1>2, <2>2
    <3> QED BY <1>3, <3>1
  <2> QED BY <1>1, <1>4, <2>1, <2>2
<1>5. ASSUME NEW i \in 1 .. n + 1, NEW j \in 1 .. n + 1, L[i].h = L[j].h PROVE i = j
  <2>1. CASE i = p \/ j = p BY <1>2, <1>4, <1>5, <2>1
  <2>2. CASE i # p /\ j # p
    <3>1. PICK a \in 1 .. n : L[i].h = list[a].h /\ (a = IF i < p THEN i ELSE i - 1)
      <4>1. CASE i < p BY <1>2, <4>1
      <4>2. CASE i > p
        <5>1. i - 1 \in 1 .. n /\ L[i].h = list[i - 1].h BY <1>1, <1>2, <4>2
        <5> QED BY <1>1, <4>2, <5>1
      <4> QED BY <1>1, <2>2, <4>1, <4>2
    <3>2. PICK b \in 1 .. n : L[j].h = list[b].h /\ (b = IF j < p THEN j ELSE j - 1)
      <4>1. CASE j < p BY <1>2, <4>1
      <4>2. CASE j > p
        <5>1. j - 1 \in 1 .. n /\ L[j].h = list[j - 1].h BY <1>1, <1>2, <4>2
        <5> QED BY <1>1, <4>2, <5>1
      <4> QED BY <1>1, <2>2, <4>1, <4>2
    <3>3. a = b BY <1>5, <3>1, <3>2 DEF NoTwice
    <3>4. (a = IF i < p THEN i ELSE i - 1) /\ (a = IF j < p THEN j ELSE j - 1) BY <3>1, <3>2, <3>3
    <3> QED BY <1>1, <2>2, <3>4
  <2> QED BY <2>1, <2>2
<1>6. NoTwice(L) BY <1>1, <1>5 DEF NoTwice
<1>7. Handlers(L) \subseteq Handlers(list) \union {h}
  <2> SUFFICES ASSUME NEW j \in 1 .. n + 1 PROVE L[j].h \in Handlers(list) \union {h} BY <1>1 DEF Handlers
  <2> QED BY <1>2, <1>4
<1>8. ASSUME NEW k \in 1 .. n PROVE list[k].h \in Handlers(L)
  <2>1. \A j \in 1 .. n + 1 : L[j].h \in Handlers(L) BY <1>1 DEF Handlers
  <2>2. k \in 1 .. n + 1 /\ k + 1 \in 1 .. n + 1 OBVIOUS
  <2> QED BY <1>2, <2>1, <2>2
<1>9. Handlers(list) \subseteq Handlers(L) BY <1>8 DEF Handlers
<1>10. h \in Handlers(L)
  <2>1. p \in 1 .. Len(L) BY <1>1
  <2> QED BY <1>2, <2>1 DEF Handlers
<1> QED BY <1>6, <1>7, <1>9, <1>10

LEMMA PlacedKeeps ==
    ASSUME Wrap \in Nat, NEW list \in Seq(Timeouts), NEW L, NEW h \in Timers, NEW msecs \in Nat,
           NEW late \in Nat, list # <<>> \/ late = 0, Placed(list, L, h, msecs, late),
           NoTwice(list), h \notin Handlers(list),
           NEW lft \in [Timers -> Int], NEW ct, OnTime(list, lft, ct, late)
    PROVE  /\ L \in Seq(Timeouts) /\ L # <<>> /\ NoTwice(L)
           /\ Handlers(L) = Handlers(list) \union {h}
           /\ OnTime(L, [lft EXCEPT ![h] = msecs],
                     IF AllDue(list, msecs, late) THEN ct \union {h} ELSE ct \ {h}, late)
<1>1. PICK n \in Nat : n = Len(list) OBVIOUS
<1>2. PICK p \in 1 .. n + 1, x \in Nat, d \in Nat :
        /\ Put(list, L, p, h, x, d) /\ d <= x
        /\ \/ AllDue(list, msecs, late)
           \/ msecs + (IF list = <<>> THEN 0 ELSE late) <= TimeUpTo(list, p - 1) + x
  BY <1>1 DEF Placed
<1>3. L \in Seq(Timeouts) /\ Len(L) = n + 1 BY <1>1, <1>2 DEF Put
<1>4. L # <<>> BY <1>3
<1>20. p \in 1 .. n + 1 /\ Put(list, L, p, h, x, d) BY <1>2
<1>5. NoTwice(L) /\ Handlers(L) = Handlers(list) \union {h} BY <1>1, <1>20, PutHandlers
<1>6. PICK lf : lf = [lft EXCEPT ![h] = msecs] OBVIOUS
<1>7. PICK c : c = IF AllDue(list, msecs, late) THEN ct \union {h} ELSE ct \ {h} OBVIOUS
<1>8. lf[h] = msecs /\ \A g \in Timers \ {h} : lf[g] = lft[g] BY <1>6
<1>9. \A g : g # h => (g \in c <=> g \in ct) BY <1>7
<1>10. PICK e : e = Sums(list) OBVIOUS
<1>11. PICK f : f = Sums(L) OBVIOUS
<1>12. Shifted(e, f, n, p, x, d)
  <2>1. x \in Int /\ d \in Int OBVIOUS
  <2> QED BY <1>1, <1>2, <1>10, <1>11, <2>1, PutSums
<1>13. \A k \in 0 .. n : e[k] \in Int BY <1>1, <1>10, SumsOf
<1>14. p \in Nat /\ 1 <= p /\ p <= n + 1 OBVIOUS
<1>15. /\ L[p].h = h
       /\ \A j \in 1 .. n + 1 : j < p => j \in 1 .. n /\ L[j].h = list[j].h
       /\ \A j \in 1 .. n + 1 : j > p => j - 1 \in p .. n /\ L[j].h = list[j - 1].h
  <2>1. Around(list, n, L, p, h) BY <1>1, <1>20, PutPlaces
  <2> QED BY <2>1 DEF Around
<1>16. \A k \in 1 .. n : list[k].h \in Timers /\ list[k].h # h /\ list[k].h \in Handlers(list)
  <2>1. \A k \in 1 .. n : list[k].h \in Timers BY <1>1, TimeoutsTimed
  <2>2. \A k \in 1 .. Len(list) : list[k].h \in Handlers(list) BY DEF Handlers
  <2>3. \A k \in 1 .. n : list[k].h \in Handlers(list) BY <1>1, <2>2
  <2>4. \A g \in Handlers(list) : g # h BY Zenon
  <2> QED BY <2>1, <2>3, <2>4
<1>17. \A k \in 1 .. n : list[k].h \in c \/ lf[list[k].h] <= e[k] - late
  BY <1>1, <1>8, <1>9, <1>10, <1>16 DEF OnTime
<1>18. ASSUME NEW j \in 1 .. n + 1 PROVE L[j].h \in c \/ lf[L[j].h] <= f[j] - late
  <2>1. CASE j < p
    <3>1. f[j] = e[j]
      <4>1. j \in 0 .. p - 1 BY <1>14, <2>1
      <4> QED BY <1>12, <4>1 DEF Shifted
    <3> QED BY <1>15, <1>17, <2>1, <3>1
  <2>2. CASE j = p
    <3>1. f[j] = e[p - 1] + x /\ e[p - 1] \in Int /\ L[j].h = h
      <4>1. p - 1 \in 0 .. n BY <1>14
      <4> QED BY <1>12, <1>13, <1>15, <2>2, <4>1 DEF Shifted
    <3>2. CASE AllDue(list, msecs, late) BY <1>7, <3>1, <3>2
    <3>3. CASE ~AllDue(list, msecs, late)
      <4>0. (IF list = <<>> THEN 0 ELSE late) = late OBVIOUS
      <4>3. TimeUpTo(list, p - 1) = e[p - 1] BY <1>10 DEF TimeUpTo
      <4>1. msecs + late <= e[p - 1] + x BY <1>2, <3>3, <4>0, <4>3
      <4>2. msecs <= f[j] - late BY <3>1, <4>1
      <4> QED BY <1>8, <3>1, <4>2
    <3> QED BY <3>2, <3>3
  <2>3. CASE j > p
    <3>1. PICK k \in p .. n : k = j - 1 /\ L[j].h = list[k].h BY <1>15, <2>3
    <3>2. k \in 1 .. n /\ k + 1 = j BY <1>14, <3>1
    <3>3. f[k + 1] = e[k] + (x - d) BY <1>12, <3>1 DEF Shifted
    <3>4. e[k] \in Int /\ f[j] = e[k] + (x - d) BY <1>13, <3>2, <3>3
    <3>5. CASE L[j].h \in c BY <3>5
    <3>6. CASE L[j].h \notin c
      <4>1. lf[L[j].h] <= e[k] - late BY <1>17, <3>1, <3>2, <3>6
      <4>2. lf[L[j].h] \in Int
        <5>1. L[j].h \in Timers BY <1>16, <3>1, <3>2
        <5> QED BY <1>6, <5>1
      <4>3. x \in Nat /\ d \in Nat /\ d <= x BY <1>2
      <4>4. e[k] <= f[j]
        <5>1. x - d \in Nat BY <4>3
        <5> QED BY <3>4, <5>1
      <4>8. f[j] \in Int BY <3>4, <4>3
      <4>5. PICK y \in Int, z \in Int, u \in Int : y = e[k] /\ z = f[j] /\ u = lf[L[j].h]
        <5>1. e[k] \in Int BY <3>4
        <5> QED BY <4>2, <4>8, <5>1, Zenon
      <4>6. u <= y - late /\ y <= z BY <4>1, <4>4, <4>5
      <4>7. u <= z - late BY <4>6
      <4> QED BY <4>5, <4>7
    <3> QED BY <3>5, <3>6
  <2> QED BY <1>14, <2>1, <2>2, <2>3
<1>19. OnTime(L, lf, c, late) BY <1>3, <1>11, <1>18 DEF OnTime
<1> QED BY <1>3, <1>4, <1>5, <1>6, <1>7, <1>19

\* What is left when the first is taken.
Taken(list, L, lft, ct, late) ==
    /\ L \in Seq(Timeouts) /\ NoTwice(L)
    /\ Handlers(L) = Handlers(list) \ {list[1].h}
    /\ OnTime(L, lft, ct, late)

LEMMA TailKeeps ==
    ASSUME Wrap \in Nat, NEW list \in Seq(Timeouts), NEW n \in Nat, n = Len(list), n > 1,
           NoTwice(list), NEW L, L = SubSeq(list, 2, n), NEW lft \in [Timers -> Int], NEW ct,
           NEW late \in Int, OnTime(list, lft, ct, late + list[1].time)
    PROVE  Taken(list, L, lft, ct, late)
<1>1. PICK m \in Nat : n = m + 1
  <2>1. n - 1 \in Nat /\ n = (n - 1) + 1 OBVIOUS
  <2> QED BY <2>1
<1>2. L \in Seq(Timeouts) /\ Len(L) = m /\ \A k \in 1 .. m : L[k] = list[k + 1]
  <2>1. 1 \in 0 .. n /\ n \in 1 .. n /\ 1 + 1 = 2 /\ n - 1 = m BY <1>1
  <2>2. /\ SubSeq(list, 1 + 1, n) \in Seq(Timeouts) /\ Len(SubSeq(list, 1 + 1, n)) = n - 1
        /\ \A k \in 1 .. n - 1 : SubSeq(list, 1 + 1, n)[k] = list[k + 1]
    BY <2>1, Part
  <2>3. SubSeq(list, 1 + 1, n) = L BY <2>1
  <2> QED BY <2>1, <2>2, <2>3
<1>3. \A k \in 1 .. m : k \in 1 .. n /\ k + 1 \in 1 .. n /\ k + 1 # 1 BY <1>1
<1>4. NoTwice(L)
  <2> SUFFICES ASSUME NEW i \in 1 .. m, NEW j \in 1 .. m, L[i].h = L[j].h PROVE i = j BY <1>2 DEF NoTwice
  <2>1. i + 1 = j + 1 BY <1>2, <1>3 DEF NoTwice
  <2> QED BY <2>1
<1>5. Handlers(L) = Handlers(list) \ {list[1].h}
  <2>1. \A k \in 1 .. m : L[k].h \in Handlers(list) /\ L[k].h # list[1].h
    <3> SUFFICES ASSUME NEW k \in 1 .. m PROVE L[k].h \in Handlers(list) /\ L[k].h # list[1].h OBVIOUS
    <3>1. L[k].h = list[k + 1].h /\ k + 1 \in 1 .. n /\ k + 1 # 1 /\ 1 \in 1 .. n BY <1>2, <1>3
    <3> QED BY <3>1 DEF Handlers, NoTwice
  <2>2. \A i \in 1 .. n : list[i].h # list[1].h => list[i].h \in Handlers(L)
    <3> SUFFICES ASSUME NEW i \in 1 .. n, list[i].h # list[1].h PROVE list[i].h \in Handlers(L) OBVIOUS
    <3>1. PICK k \in 1 .. m : i = k + 1
      <4>1. i # 1 OBVIOUS
      <4>2. i - 1 \in 1 .. m /\ i = (i - 1) + 1 BY <1>1, <4>1
      <4> QED BY <4>2
    <3> QED BY <1>2, <3>1 DEF Handlers
  <2>3. Handlers(L) \subseteq Handlers(list) \ {list[1].h}
    <3>1. Handlers(L) = {L[k].h : k \in 1 .. m} BY <1>2 DEF Handlers
    <3> QED BY <2>1, <3>1
  <2>4. Handlers(list) \ {list[1].h} \subseteq Handlers(L)
    <3>1. Handlers(list) = {list[k].h : k \in 1 .. n} BY DEF Handlers
    <3> QED BY <2>2, <3>1
  <2> QED BY <2>3, <2>4
<1>6. PICK e : e = Sums(list) OBVIOUS
<1>7. /\ e[0] = 0 /\ \A k \in 0 .. n : e[k] \in Int
      /\ \A k \in 1 .. n : e[k] = e[k - 1] + list[k].time
  BY <1>6, SumsOf
<1>8. PICK t \in Nat : t = list[1].time
  <2>1. 1 \in 1 .. n OBVIOUS
  <2> QED BY <2>1, TimeoutsTimed
<1>9. e[1] = t
  <2>1. 1 \in 1 .. n /\ 1 - 1 = 0 OBVIOUS
  <2>2. e[1] = e[0] + list[1].time BY <1>7, <2>1
  <2> QED BY <1>7, <1>8, <2>2
<1> DEFINE f == [k \in 0 .. m |-> e[k + 1] - t]
<1>10. Dues(L, m, f)
  <2>1. \A k \in 0 .. m : k + 1 \in 0 .. n BY <1>1
  <2>2. f \in [0 .. m -> Int] BY <1>7, <2>1
  <2>3. f[0] = 0 BY <1>9
  <2>4. ASSUME NEW k \in 1 .. m PROVE f[k] = f[k - 1] + L[k].time
    <3>1. k \in 0 .. m /\ k - 1 \in 0 .. m /\ (k - 1) + 1 = k OBVIOUS
    <3>2. f[k] = e[k + 1] - t /\ f[k - 1] = e[k] - t BY <3>1
    <3>3. k + 1 \in 1 .. n /\ (k + 1) - 1 = k BY <1>3
    <3>4. e[k + 1] = e[k] + list[k + 1].time BY <1>7, <3>3
    <3>5. L[k].time = list[k + 1].time BY <1>2
    <3>6. PICK b \in Nat : b = list[k + 1].time BY <3>3, TimeoutsTimed
    <3>7. PICK a \in Int : a = e[k]
      <4>1. k \in 0 .. n BY <1>1
      <4>2. e[k] \in Int BY <1>7, <4>1
      <4> QED BY <4>2
    <3> HIDE DEF f
    <3>8. f[k] = (a + b) - t BY <3>2, <3>4, <3>6, <3>7
    <3>9. f[k - 1] = a - t /\ L[k].time = b BY <3>2, <3>5, <3>6, <3>7
    <3>10. (a + b) - t = (a - t) + b OBVIOUS
    <3> QED BY <3>8, <3>9, <3>10
  <2> HIDE DEF f
  <2> QED BY <2>2, <2>3, <2>4 DEF Dues
<1>11. Sums(L) = f
  <2> HIDE DEF f
  <2>1. IntTimed(L) BY <1>2, TimeoutsTimed
  <2> QED BY <1>2, <1>10, <2>1, SumsAre
<1>12. ASSUME NEW k \in 1 .. m PROVE L[k].h \in ct \/ lft[L[k].h] <= Sums(L)[k] - late
  <2>1. Sums(L)[k] = e[k + 1] - t BY <1>11
  <2>2. k + 1 \in 1 .. n /\ L[k] = list[k + 1] BY <1>2, <1>3
  <2>3. L[k].h \in ct \/ lft[L[k].h] <= e[k + 1] - (late + t) BY <1>6, <1>8, <2>2 DEF OnTime
  <2>4. e[k + 1] \in Int
    <3>1. k + 1 \in 0 .. n BY <1>1
    <3> QED BY <1>7, <3>1
  <2>5. e[k + 1] - (late + t) = (e[k + 1] - t) - late BY <2>4
  <2> QED BY <2>1, <2>3, <2>5
<1>13. OnTime(L, lft, ct, late) BY <1>2, <1>12 DEF OnTime
<1> QED BY <1>2, <1>4, <1>5, <1>13 DEF Taken

\* The times never add up to less than nothing.
LEMMA SumsNatural ==
    ASSUME Wrap \in Nat, NEW list \in Seq(Timeouts), NEW n \in Nat, n = Len(list)
    PROVE  \A k \in 0 .. n : Sums(list)[k] \in Nat
<1>1. PICK e : e = Sums(list) OBVIOUS
<1>2. /\ e[0] = 0 /\ \A k \in 0 .. n : e[k] \in Int
      /\ \A k \in 1 .. n : e[k] = e[k - 1] + list[k].time
  BY <1>1, SumsOf
<1> DEFINE S == {k \in 0 .. n : e[k] \notin Nat}
<1> SUFFICES ASSUME S # {} PROVE FALSE BY <1>1
<1>3. S \in SUBSET Nat OBVIOUS
<1>4. PICK k \in S : \A j \in S : k <= j
  <2> HIDE DEF S
  <2> QED BY <1>3, SmallestElement
<1>5. k \in 1 .. n /\ k - 1 \in 0 .. n /\ k - 1 \notin S BY <1>2, <1>4
<1>6. e[k - 1] \in Nat /\ e[k] = e[k - 1] + list[k].time BY <1>2, <1>5
<1>7. list[k].time \in Nat BY <1>5, TimeoutsTimed
<1> QED BY <1>4, <1>6, <1>7
-----------------------------------------------------------------------------
(* The invariant *)

TypeInv ==
    /\ now \in Times /\ timeouts_last_time \in Times
    /\ next_timeout \in Seq(Timeouts)
    /\ tcpip_tcp_timer_active \in BOOLEAN /\ connections \in BOOLEAN
    /\ pc \in ThreadPCs /\ sleep \in Times /\ diff \in Times
    /\ tmp \in Timers \union {None} /\ rest \in Timers \union {None}
    /\ lag \in 0 .. MaxLag /\ left \in [Timers -> Int] /\ cut \in SUBSET Timers

\* The timer that is in its handler.
Handling == IF pc = "handle" THEN {tmp} ELSE {}

KeptInv ==
    /\ NoTwice(next_timeout)
    /\ Cyclic \subseteq Handlers(next_timeout) \union Handling
    /\ Tcp \in Handlers(next_timeout) \union Handling <=> tcpip_tcp_timer_active
    /\ Handling \subseteq Timers \ Handlers(next_timeout)

\* What the thread has read is still so.
ThreadInv ==
    /\ pc \in {"elapse", "unlink", "store"} => next_timeout[1].h = tmp
    /\ pc = "elapse" => next_timeout[1].time <= diff
    /\ pc = "store" => rest = next_timeout[2].h

Late == Since(timeouts_last_time)

ClockInv ==
    /\ pc \in {"next", "elapse", "unlink", "store", "handle"} => diff <= Late
    /\ \A h \in Timers : Late + Interval[h] < Wrap

\* timeouts_last_time is counted on before the first is taken from the list.
Unlinked == IF pc \in {"unlink", "store"} THEN next_timeout[1].time ELSE 0

DueInv == OnTime(next_timeout, left, cut, Late + Unlinked)

IInv == TypeInv /\ KeptInv /\ ThreadInv /\ ClockInv /\ DueInv /\ NotEarly

LEMMA TwoCyclic ==
    ASSUME TimeoutConstants
    PROVE  \E a, b \in Cyclic : a # b
<1>1. /\ Order \in Seq(Cyclic) /\ Len(Order) > 1
      /\ \A i, j \in DOMAIN Order : Order[i] = Order[j] => i = j
  BY DEF TimeoutConstants
<1>2. 1 \in DOMAIN Order /\ 2 \in DOMAIN Order /\ Order[1] \in Cyclic /\ Order[2] \in Cyclic BY <1>1
<1>3. Order[1] # Order[2] BY <1>1, <1>2
<1> QED BY <1>2, <1>3

LEMMA Lengths ==
    ASSUME TimeoutConstants, TypeInv, KeptInv
    PROVE  /\ Len(next_timeout) \in Nat /\ Len(next_timeout) >= 1 /\ next_timeout # <<>>
           /\ DOMAIN next_timeout = 1 .. Len(next_timeout)
           /\ pc # "handle" => Len(next_timeout) > 1
<1>1. PICK a, b \in Cyclic : a # b BY TwoCyclic
<1>2. next_timeout \in Seq(Timeouts) BY DEF TypeInv
<1>3. PICK n \in Nat : n = Len(next_timeout) BY <1>2
<1>4. DOMAIN next_timeout = 1 .. n BY <1>2, <1>3
<1>5. \A h \in Cyclic \ Handling : \E i \in 1 .. n : next_timeout[i].h = h
  <2> SUFFICES ASSUME NEW h \in Cyclic \ Handling PROVE \E i \in 1 .. n : next_timeout[i].h = h OBVIOUS
  <2>1. h \in Handlers(next_timeout) BY DEF KeptInv
  <2> QED BY <1>3, <2>1 DEF Handlers
<1>6. n >= 1
  <2>1. a \notin Handling \/ b \notin Handling BY <1>1 DEF Handling
  <2>2. \E i \in 1 .. n : TRUE BY <1>5, <2>1
  <2> QED BY <2>2
<1>7. ASSUME pc # "handle" PROVE n > 1
  <2>1. Handling = {} BY <1>7 DEF Handling
  <2>2. PICK i \in 1 .. n : next_timeout[i].h = a BY <1>5, <2>1
  <2>3. PICK j \in 1 .. n : next_timeout[j].h = b BY <1>5, <2>1
  <2>4. i # j BY <1>1, <2>2, <2>3
  <2> QED BY <1>3, <2>2, <2>3, <2>4
<1>8. next_timeout # <<>> BY <1>3, <1>6
<1> QED BY <1>3, <1>4, <1>6, <1>7, <1>8

LEMMA LateIs ==
    ASSUME TimeoutConstants, TypeInv PROVE Late \in Times /\ Late \in Nat
<1>1. now \in Times /\ timeouts_last_time \in Times BY DEF TypeInv
<1>2. Late \in Times BY <1>1, SinceIs DEF Late
<1>3. Wrap \in Nat BY Intervals
<1> QED BY <1>2, <1>3 DEF Times

LEMMA LateStays ==
    ASSUME now' = now, timeouts_last_time' = timeouts_last_time PROVE Late' = Late
BY DEF Late, Since

\* What sys_timeout does to the list while no timeout is being unlinked.
LEMMA SysTimeoutKeeps ==
    ASSUME TimeoutConstants, TypeInv, KeptInv, ClockInv, DueInv, pc \notin {"unlink", "store"},
           NEW h \in Timers, h \notin Handlers(next_timeout), SysTimeout(h), now' = now
    PROVE  /\ timeouts_last_time' = timeouts_last_time /\ Late' = Late
           /\ next_timeout' \in Seq(Timeouts)
           /\ NoTwice(next_timeout)' /\ Handlers(next_timeout)' = Handlers(next_timeout) \union {h}
           /\ left' \in [Timers -> Int] /\ cut' \in SUBSET Timers
           /\ \A g \in Timers \ {h} : left'[g] = left[g] /\ (g \in cut' <=> g \in cut)
           /\ OnTime(next_timeout', left', cut', Late)
<1>1. PICK list \in Seq(Timeouts) : list = next_timeout BY DEF TypeInv
<1>2. PICK lft \in [Timers -> Int] : lft = left BY DEF TypeInv
<1>3. PICK ct \in SUBSET Timers : ct = cut BY DEF TypeInv
<1>4. PICK late \in Nat : late = Late BY LateIs
<1>5. PICK msecs \in Nat : msecs = Interval[h] BY Intervals
<1>6. Wrap \in Nat /\ 2 * msecs < Wrap BY <1>5, Intervals
<1>7. msecs + late < Wrap
  <2>1. Late + Interval[h] < Wrap BY DEF ClockInv
  <2> QED BY <1>4, <1>5, <2>1
<1>8. list # <<>> BY <1>1, Lengths
<1>9. NoTwice(list) /\ h \notin Handlers(list) BY <1>1 DEF KeptInv
<1>10. OnTime(list, lft, ct, late)
  <2>1. Unlinked = 0 BY DEF Unlinked
  <2>2. Late + Unlinked = late BY <1>4, <2>1
  <2>3. OnTime(next_timeout, left, cut, late) BY <2>2 DEF DueInv
  <2> QED BY <1>1, <1>2, <1>3, <2>3
<1>11. PICK L : L = Inserted(list, h, msecs, late) OBVIOUS
<1>12. Placed(list, L, h, msecs, late) BY <1>6, <1>7, <1>11, InsertedPlaced
<1>13. PICK lf : lf = [lft EXCEPT ![h] = msecs] OBVIOUS
<1>14. PICK c : c = IF AllDue(list, msecs, late) THEN ct \union {h} ELSE ct \ {h} OBVIOUS
<1>15. /\ L \in Seq(Timeouts) /\ L # <<>> /\ NoTwice(L)
       /\ Handlers(L) = Handlers(list) \union {h}
       /\ OnTime(L, lf, c, late)
  BY <1>6, <1>8, <1>9, <1>10, <1>12, <1>13, <1>14, PlacedKeeps
<1>16. next_timeout' = L /\ left' = lf /\ cut' = c /\ timeouts_last_time' = timeouts_last_time
  BY <1>1, <1>2, <1>3, <1>4, <1>5, <1>8, <1>11, <1>13, <1>14 DEF SysTimeout, Late
<1>17. Late' = Late BY <1>16, LateStays
<1>18. lf \in [Timers -> Int] /\ \A g \in Timers \ {h} : lf[g] = lft[g] BY <1>13
<1>19. c \in SUBSET Timers /\ \A g \in Timers \ {h} : g \in c <=> g \in ct BY <1>14
<1>20. NoTwice(next_timeout)' /\ Handlers(next_timeout)' = Handlers(next_timeout) \union {h}
  <2>1. Handlers(next_timeout)' = Handlers(L) BY <1>16 DEF Handlers
  <2>2. NoTwice(next_timeout)' BY <1>15, <1>16 DEF NoTwice
  <2> QED BY <1>1, <1>15, <2>1, <2>2
<1> QED BY <1>2, <1>3, <1>4, <1>15, <1>16, <1>17, <1>18, <1>19, <1>20
-----------------------------------------------------------------------------
(* Steps that put a timer in the list, and those that leave it alone *)

LEMMA PutStep ==
    ASSUME TimeoutConstants, IInv, NEW h \in Timers, h \notin Handlers(next_timeout), SysTimeout(h),
           now' = now, diff' = diff,
           pc \notin {"elapse", "unlink", "store"}, pc' \notin {"elapse", "unlink", "store"},
           pc' \in {"next", "handle"} => pc \in {"next", "handle"},
           pc' = "handle" => pc = "handle" /\ tmp' = tmp /\ tmp # h
    PROVE  /\ ThreadInv' /\ ClockInv' /\ DueInv' /\ NotEarly'
           /\ timeouts_last_time' = timeouts_last_time
           /\ next_timeout' \in Seq(Timeouts) /\ left' \in [Timers -> Int] /\ cut' \in SUBSET Timers
           /\ NoTwice(next_timeout)' /\ Handlers(next_timeout)' = Handlers(next_timeout) \union {h}
<1>1. TypeInv /\ KeptInv /\ ClockInv /\ DueInv /\ NotEarly BY DEF IInv
<1>2. /\ timeouts_last_time' = timeouts_last_time /\ Late' = Late
      /\ next_timeout' \in Seq(Timeouts)
      /\ NoTwice(next_timeout)' /\ Handlers(next_timeout)' = Handlers(next_timeout) \union {h}
      /\ left' \in [Timers -> Int] /\ cut' \in SUBSET Timers
      /\ \A g \in Timers \ {h} : left'[g] = left[g] /\ (g \in cut' <=> g \in cut)
      /\ OnTime(next_timeout', left', cut', Late)
  BY <1>1, SysTimeoutKeeps
<1>3. ThreadInv' BY DEF ThreadInv
<1>4. ClockInv'
  <2>1. (\A h1 \in Timers : Late + Interval[h1] < Wrap)' BY <1>1, <1>2 DEF ClockInv
  <2>2. (pc \in {"next", "elapse", "unlink", "store", "handle"} => diff <= Late)'
    BY <1>1, <1>2 DEF ClockInv
  <2> QED BY <2>1, <2>2 DEF ClockInv
<1>5. DueInv'
  <2>1. Unlinked' = 0 BY DEF Unlinked
  <2>2. Late \in Nat BY <1>1, LateIs
  <2>3. Late' + Unlinked' = Late BY <1>2, <2>1, <2>2
  <2>4. OnTime(next_timeout', left', cut', Late' + Unlinked') BY <1>2, <2>3
  <2>5. DueInv' <=> OnTime(next_timeout', left', cut', Late' + Unlinked') BY DEF DueInv, OnTime
  <2> QED BY <2>4, <2>5
<1>6. NotEarly'
  <2> SUFFICES ASSUME pc' = "handle" PROVE (left[tmp] <= 0 \/ tmp \in cut)' BY DEF NotEarly
  <2>1. pc = "handle" /\ tmp' = tmp /\ tmp # h OBVIOUS
  <2>2. left[tmp] <= 0 \/ tmp \in cut BY <1>1, <2>1 DEF NotEarly
  <2>3. tmp \in Timers \ {h} BY <1>1, <2>1 DEF KeptInv, Handling
  <2>4. left'[tmp] = left[tmp] /\ (tmp \in cut' <=> tmp \in cut) BY <1>2, <2>3
  <2> QED BY <2>1, <2>2, <2>4
<1> QED BY <1>2, <1>3, <1>4, <1>5, <1>6

\* The list and the clock stay as they are.
LEMMA ListStays ==
    ASSUME TimeoutConstants, IInv, UNCHANGED listVars, now' = now,
           tcpip_tcp_timer_active' = tcpip_tcp_timer_active,
           Handling' = Handling, Unlinked' = Unlinked, pc' = "handle" => pc = "handle"
    PROVE  KeptInv' /\ DueInv' /\ NotEarly' /\ Late' = Late
<1>1. TypeInv /\ KeptInv /\ ClockInv /\ DueInv /\ NotEarly BY DEF IInv
<1>2. timeouts_last_time' = timeouts_last_time /\ next_timeout' = next_timeout
      /\ left' = left /\ cut' = cut
  BY DEF listVars
<1>3. Late' = Late BY <1>2, LateStays
<1>4. KeptInv'
  <2>1. Handlers(next_timeout)' = Handlers(next_timeout) BY <1>2 DEF Handlers
  <2>2. NoTwice(next_timeout)' BY <1>1, <1>2 DEF KeptInv, NoTwice
  <2> QED BY <1>1, <2>1, <2>2 DEF KeptInv
<1>5. DueInv' BY <1>1, <1>2, <1>3 DEF DueInv, OnTime
<1>6. NotEarly'
  <2> SUFFICES ASSUME pc' = "handle" PROVE (left[tmp] <= 0 \/ tmp \in cut)' BY DEF NotEarly
  <2>0. pc = "handle" OBVIOUS
  <2>2. Handling = {tmp} BY <2>0 DEF Handling
  <2>3. Handling' = {tmp'} BY DEF Handling
  <2>1. tmp' = tmp BY <2>2, <2>3
  <2> QED BY <1>1, <1>2, <2>0, <2>1 DEF NotEarly
<1> QED BY <1>3, <1>4, <1>5, <1>6

\* Only the connections change.
LEMMA ConnectionsStep ==
    ASSUME TimeoutConstants, IInv, connections' \in BOOLEAN,
           UNCHANGED <<listVars, tcpip_tcp_timer_active, threadVars, timeVars>>
    PROVE  IInv'
<1>1. TypeInv /\ KeptInv /\ ThreadInv /\ ClockInv BY DEF IInv
<1>2. pc' = pc /\ tmp' = tmp /\ diff' = diff /\ rest' = rest /\ sleep' = sleep /\ now' = now /\ lag' = lag
      /\ tcpip_tcp_timer_active' = tcpip_tcp_timer_active
  BY DEF threadVars, timeVars
<1>3. timeouts_last_time' = timeouts_last_time /\ next_timeout' = next_timeout
      /\ left' = left /\ cut' = cut
  BY DEF listVars
<1>4. Handling' = Handling /\ Unlinked' = Unlinked BY <1>2, <1>3 DEF Handling, Unlinked
<1>5. KeptInv' /\ DueInv' /\ NotEarly' /\ Late' = Late BY <1>2, <1>4, ListStays
<1>6. TypeInv' BY <1>1, <1>2, <1>3 DEF TypeInv
<1>7. ThreadInv' BY <1>1, <1>2, <1>3 DEF ThreadInv
<1>8. ClockInv' BY <1>1, <1>2, <1>5 DEF ClockInv
<1> QED BY <1>5, <1>6, <1>7, <1>8 DEF IInv

LEMMA ConnectStep ==
    ASSUME TimeoutConstants, ~Overlap, IInv, Connect PROVE IInv'
<1>1. TypeInv /\ KeptInv BY DEF IInv
<1>2. /\ pc \notin {"elapse", "unlink", "store"} /\ connections' = TRUE
      /\ TcpTimerNeeded /\ UNCHANGED <<threadVars, timeVars>>
  BY DEF Connect
<1>3. CASE tcpip_tcp_timer_active
  <2>1. UNCHANGED <<listVars, tcpip_tcp_timer_active>> BY <1>2, <1>3 DEF TcpTimerNeeded
  <2> QED BY <1>2, <2>1, ConnectionsStep
<1>4. CASE ~tcpip_tcp_timer_active
  <2>1. tcpip_tcp_timer_active' = TRUE /\ SysTimeout(Tcp) BY <1>2, <1>4 DEF TcpTimerNeeded
  <2>2. Tcp \in Timers /\ Tcp \notin Handlers(next_timeout) /\ Tcp \notin Handling
    BY <1>1, <1>4 DEF KeptInv, Timers
  <2>3. pc' = pc /\ tmp' = tmp /\ diff' = diff /\ rest' = rest /\ sleep' = sleep /\ now' = now /\ lag' = lag
    BY <1>2 DEF threadVars, timeVars
  <2>4. pc' = "handle" => pc = "handle" /\ tmp' = tmp /\ tmp # Tcp BY <2>2, <2>3 DEF Handling
  <2>5. /\ ThreadInv' /\ ClockInv' /\ DueInv' /\ NotEarly'
        /\ timeouts_last_time' = timeouts_last_time
        /\ next_timeout' \in Seq(Timeouts) /\ left' \in [Timers -> Int] /\ cut' \in SUBSET Timers
        /\ NoTwice(next_timeout)' /\ Handlers(next_timeout)' = Handlers(next_timeout) \union {Tcp}
    BY <1>2, <2>1, <2>2, <2>3, <2>4, PutStep
  <2>6. TypeInv' BY <1>1, <1>2, <2>1, <2>3, <2>5 DEF TypeInv
  <2>7. Handling' = Handling BY <2>3 DEF Handling
  <2>8. KeptInv' BY <1>1, <2>1, <2>2, <2>5, <2>7 DEF KeptInv
  <2> QED BY <2>5, <2>6, <2>8 DEF IInv
<1> QED BY <1>3, <1>4

LEMMA HandleMessageStep ==
    ASSUME TimeoutConstants, IInv, HandleMessage PROVE IInv'
<1>1. TypeInv /\ KeptInv /\ ClockInv BY DEF IInv
<1>2. /\ pc = "message" /\ pc' = "fetch" /\ connections' \in BOOLEAN
      /\ sleep' = sleep /\ diff' = diff /\ tmp' = tmp /\ rest' = rest /\ now' = now /\ lag' = lag
  BY DEF HandleMessage, ThreadAt, timeVars
<1>3. Handling = {} /\ Handling' = {} BY <1>2 DEF Handling
<1>4. CASE connections' /\ ~connections /\ ~tcpip_tcp_timer_active
  <2>1. tcpip_tcp_timer_active' = TRUE /\ SysTimeout(Tcp) BY <1>4 DEF HandleMessage, TcpTimerNeeded
  <2>2. Tcp \in Timers /\ Tcp \notin Handlers(next_timeout) BY <1>1, <1>4 DEF KeptInv, Timers
  <2>3. /\ ThreadInv' /\ ClockInv' /\ DueInv' /\ NotEarly'
        /\ timeouts_last_time' = timeouts_last_time
        /\ next_timeout' \in Seq(Timeouts) /\ left' \in [Timers -> Int] /\ cut' \in SUBSET Timers
        /\ NoTwice(next_timeout)' /\ Handlers(next_timeout)' = Handlers(next_timeout) \union {Tcp}
    BY <1>2, <2>1, <2>2, PutStep
  <2>4. TypeInv' BY <1>1, <1>2, <2>1, <2>3 DEF TypeInv, ThreadPCs
  <2>5. KeptInv' BY <1>1, <1>3, <2>1, <2>3 DEF KeptInv
  <2> QED BY <2>3, <2>4, <2>5 DEF IInv
<1>5. CASE ~(connections' /\ ~connections /\ ~tcpip_tcp_timer_active)
  <2>1. UNCHANGED <<listVars, tcpip_tcp_timer_active>> BY <1>5 DEF HandleMessage, TcpTimerNeeded
  <2>2. Unlinked' = Unlinked BY <1>2 DEF Unlinked
  <2>3. KeptInv' /\ DueInv' /\ NotEarly' /\ Late' = Late BY <1>2, <1>3, <2>1, <2>2, ListStays
  <2>4. TypeInv' BY <1>1, <1>2, <2>1 DEF TypeInv, ThreadPCs, listVars
  <2>5. ThreadInv' BY <1>2 DEF ThreadInv
  <2>6. ClockInv' BY <1>1, <1>2, <2>3 DEF ClockInv
  <2> QED BY <2>3, <2>4, <2>5, <2>6 DEF IInv
<1> QED BY <1>4, <1>5
-----------------------------------------------------------------------------
(* The steps of the tcpip thread *)

\* Where the thread is in its loop, before or after it has read how late it is.
LEMMA LoopStep ==
    ASSUME TimeoutConstants, IInv, UNCHANGED <<listVars, tcpVars>>, now' = now,
           pc \in {"fetch", "sleep", "message", "check", "next"},
           pc' \in {"fetch", "sleep", "message", "check", "next", "elapse"},
           sleep' \in Times, diff' \in Times, tmp' \in Timers \union {None}, rest' = rest,
           lag' \in 0 .. MaxLag,
           pc' \in {"next", "elapse"} => diff' <= Late,
           pc' = "elapse" => next_timeout[1].h = tmp' /\ next_timeout[1].time <= diff'
    PROVE  IInv'
<1>1. TypeInv /\ ClockInv BY DEF IInv
<1>2. timeouts_last_time' = timeouts_last_time /\ next_timeout' = next_timeout
      /\ left' = left /\ cut' = cut /\ tcpip_tcp_timer_active' = tcpip_tcp_timer_active
      /\ connections' = connections
  BY DEF listVars, tcpVars
<1>3. Handling = {} /\ Handling' = {} BY DEF Handling
<1>4. Unlinked = 0 /\ Unlinked' = 0 BY DEF Unlinked
<1>5. KeptInv' /\ DueInv' /\ NotEarly' /\ Late' = Late BY <1>2, <1>3, <1>4, ListStays
<1>6. TypeInv'
  <2>1. pc' \in ThreadPCs BY DEF ThreadPCs
  <2> QED BY <1>1, <1>2, <2>1 DEF TypeInv
<1>7. ThreadInv' BY <1>2 DEF ThreadInv
<1>8. ClockInv'
  <2>1. pc' \in {"next", "elapse", "unlink", "store", "handle"} => diff' <= Late' BY <1>5
  <2>2. \A h \in Timers : Late' + Interval[h] < Wrap BY <1>1, <1>5 DEF ClockInv
  <2> QED BY <2>1, <2>2 DEF ClockInv
<1> QED BY <1>5, <1>6, <1>7, <1>8 DEF IInv

LEMMA FirstOfList ==
    ASSUME TimeoutConstants, TypeInv, KeptInv
    PROVE  /\ Head(next_timeout) = next_timeout[1] /\ next_timeout[1] \in Timeouts
           /\ next_timeout[1].h \in Timers
           /\ next_timeout[1].time \in Times /\ next_timeout[1].time \in Nat
<1>1. next_timeout \in Seq(Timeouts) BY DEF TypeInv
<1>2. next_timeout # <<>> /\ Len(next_timeout) \in Nat /\ Len(next_timeout) >= 1 BY Lengths
<1>3. Wrap \in Nat BY Intervals
<1>4. 1 \in 1 .. Len(next_timeout) BY <1>2
<1>5. /\ next_timeout[1] \in Timeouts /\ next_timeout[1].h \in Timers
      /\ next_timeout[1].time \in Times /\ next_timeout[1].time \in Nat
  BY <1>1, <1>3, <1>4, TimeoutsTimed
<1>6. Head(next_timeout) = next_timeout[1] BY <1>1, <1>2
<1> QED BY <1>5, <1>6

LEMMA FetchStep ==
    ASSUME TimeoutConstants, IInv, Fetch PROVE IInv'
<1>1. TypeInv /\ KeptInv BY DEF IInv
<1>2. /\ pc = "fetch" /\ UNCHANGED <<listVars, tcpVars>>
      /\ diff' = diff /\ tmp' = tmp /\ rest' = rest /\ now' = now
  BY DEF Fetch
<1>3. PICK t \in Times : t = Head(next_timeout).time BY <1>1, FirstOfList
<1>4. PICK late \in Nat : late = Late BY <1>1, LateIs
<1>5. Wrap \in Nat BY Intervals
<1>6. sleep' = IF late > t THEN 0 ELSE t - late BY <1>3, <1>4 DEF Fetch, Late
<1>7. t \in Nat /\ t < Wrap BY <1>5 DEF Times
<1>8. sleep' \in Times BY <1>4, <1>5, <1>6, <1>7 DEF Times
<1>9. pc' = IF sleep' = 0 THEN "check" ELSE "sleep" BY DEF Fetch
<1>10. lag' \in 0 .. MaxLag
  <2>1. lag' = IF pc' = "sleep" THEN 0 ELSE lag BY DEF Fetch
  <2>2. lag \in 0 .. MaxLag /\ MaxLag \in Nat BY <1>1 DEF TypeInv, TimeoutConstants
  <2> QED BY <2>1, <2>2
<1>11. diff \in Times /\ tmp \in Timers \union {None} BY <1>1 DEF TypeInv
<1> QED BY <1>2, <1>8, <1>9, <1>10, <1>11, LoopStep

LEMMA AwakeStep ==
    ASSUME TimeoutConstants, IInv, TimeOut \/ Message PROVE IInv'
<1>1. TypeInv BY DEF IInv
<1>2. /\ pc = "sleep" /\ pc' \in {"check", "message"} /\ UNCHANGED <<listVars, tcpVars>>
      /\ diff' = diff /\ tmp' = tmp /\ rest' = rest /\ now' = now /\ lag' = lag
      /\ sleep' \in {sleep, 0}
  BY DEF TimeOut, Message, ThreadAt, timeVars
<1>3. Wrap \in Nat /\ Wrap > 2 BY Intervals
<1>4. 0 \in Times BY <1>3 DEF Times
<1>5. sleep' \in Times BY <1>1, <1>2, <1>4 DEF TypeInv
<1>6. diff \in Times /\ tmp \in Timers \union {None} /\ lag \in 0 .. MaxLag BY <1>1 DEF TypeInv
<1> QED BY <1>2, <1>5, <1>6, LoopStep

LEMMA CheckStep ==
    ASSUME TimeoutConstants, IInv, Check PROVE IInv'
<1>1. TypeInv BY DEF IInv
<1>2. /\ pc = "check" /\ pc' = "next" /\ UNCHANGED <<listVars, tcpVars>>
      /\ diff' = Late /\ tmp' = tmp /\ rest' = rest /\ now' = now /\ lag' = lag /\ sleep' = sleep
  BY DEF Check, ThreadAt, timeVars, Late
<1>3. Late \in Times /\ Late \in Nat BY <1>1, LateIs
<1>4. sleep \in Times /\ tmp \in Timers \union {None} /\ lag \in 0 .. MaxLag BY <1>1 DEF TypeInv
<1>5. diff' <= Late BY <1>2, <1>3
<1> QED BY <1>2, <1>3, <1>4, <1>5, LoopStep

LEMMA NextTimeoutStep ==
    ASSUME TimeoutConstants, IInv, NextTimeout PROVE IInv'
<1>1. TypeInv /\ KeptInv /\ ClockInv BY DEF IInv
<1>2. /\ pc = "next" /\ UNCHANGED <<listVars, tcpVars>>
      /\ rest' = rest /\ now' = now /\ lag' = lag /\ sleep' = sleep
  BY DEF NextTimeout, timeVars
<1>3. Wrap \in Nat /\ Wrap > 2 BY Intervals
<1>4. 0 \in Times BY <1>3 DEF Times
<1>5. diff \in Times /\ sleep \in Times /\ tmp \in Timers \union {None} /\ lag \in 0 .. MaxLag
  BY <1>1 DEF TypeInv
<1>6. diff <= Late BY <1>1, <1>2 DEF ClockInv
<1>7. Head(next_timeout) = next_timeout[1] /\ next_timeout[1].h \in Timers BY <1>1, FirstOfList
<1>8. CASE next_timeout[1].time <= diff
  <2>1. pc' = "elapse" /\ tmp' = next_timeout[1].h /\ diff' = diff BY <1>7, <1>8 DEF NextTimeout
  <2> QED BY <1>2, <1>5, <1>6, <1>7, <1>8, <2>1, LoopStep
<1>9. CASE ~(next_timeout[1].time <= diff)
  <2>1. pc' = "fetch" /\ diff' = 0 /\ tmp' = tmp BY <1>7, <1>9 DEF NextTimeout
  <2> QED BY <1>2, <1>4, <1>5, <2>1, LoopStep
<1> QED BY <1>8, <1>9

LEMMA StillLess ==
    ASSUME NEW l \in Nat, NEW t \in Nat, NEW i \in Nat, NEW w \in Nat, l + i < w
    PROVE  (l - t) + i < w
OBVIOUS

LEMMA OneMore ==
    ASSUME NEW l \in Nat, NEW i \in Nat, NEW w \in Nat, l + i + 1 < w PROVE (l + 1) + i < w
OBVIOUS

LEMMA NoMore ==
    ASSUME NEW a \in Int, NEW l \in Nat, NEW t \in Nat, a <= t - (l + t) PROVE a <= 0
OBVIOUS

LEMMA ElapseStep ==
    ASSUME TimeoutConstants, IInv, Elapse PROVE IInv'
<1>1. TypeInv /\ KeptInv /\ ThreadInv /\ ClockInv /\ DueInv BY DEF IInv
<1>2. /\ pc = "elapse" /\ pc' = "unlink" /\ next_timeout' = next_timeout /\ left' = left /\ cut' = cut
      /\ tcpip_tcp_timer_active' = tcpip_tcp_timer_active /\ connections' = connections
      /\ sleep' = sleep /\ tmp' = tmp /\ rest' = rest /\ now' = now /\ lag' = lag
  BY DEF Elapse, ThreadAt, tcpVars, timeVars
<1>3. next_timeout[1].h = tmp /\ next_timeout[1].time <= diff BY <1>1, <1>2 DEF ThreadInv
<1>4. PICK t \in Times : t = next_timeout[1].time BY <1>1, FirstOfList
<1>5. timeouts_last_time' = (timeouts_last_time + t) % Wrap /\ diff' = diff - t
  <2>1. PICK i \in DOMAIN next_timeout :
          /\ next_timeout[i].h = tmp
          /\ timeouts_last_time' = (timeouts_last_time + next_timeout[i].time) % Wrap
          /\ diff' = diff - next_timeout[i].time
    BY DEF Elapse
  <2>2. DOMAIN next_timeout = 1 .. Len(next_timeout) /\ 1 \in 1 .. Len(next_timeout)
    <3>1. /\ Len(next_timeout) \in Nat /\ Len(next_timeout) >= 1
          /\ DOMAIN next_timeout = 1 .. Len(next_timeout)
      BY <1>1, Lengths
    <3> QED BY <3>1
  <2>3. i = 1 BY <1>1, <1>3, <2>1, <2>2 DEF KeptInv, NoTwice
  <2> QED BY <1>4, <2>1, <2>3
<1>6. PICK late \in Nat : late = Late BY <1>1, LateIs
<1>7. Wrap \in Nat /\ t \in Nat /\ t < Wrap BY Intervals DEF Times
<1>8. diff \in Nat /\ diff < Wrap /\ diff <= late /\ t <= diff
  <2>1. diff \in Times BY <1>1 DEF TypeInv
  <2>2. diff <= Late BY <1>1, <1>2 DEF ClockInv
  <2> QED BY <1>3, <1>4, <1>6, <1>7, <2>1, <2>2 DEF Times
<1>9. Late' = late - t /\ timeouts_last_time' \in Times
  <2>1. now \in Times /\ timeouts_last_time \in Times BY <1>1 DEF TypeInv
  <2>2. t <= Since(timeouts_last_time) BY <1>6, <1>7, <1>8 DEF Late
  <2>3. /\ Since((timeouts_last_time + t) % Wrap) = Since(timeouts_last_time) - t
        /\ (timeouts_last_time + t) % Wrap \in Times
    BY <2>1, <2>2, SinceMoved
  <2>4. PICK u : u = (timeouts_last_time + t) % Wrap OBVIOUS
  <2>5. Since(u) = late - t BY <1>6, <2>3, <2>4 DEF Late
  <2>6. Late' = (now - u + Wrap) % Wrap BY <1>2, <1>5, <2>4 DEF Late, Since
  <2>7. Since(u) = (now - u + Wrap) % Wrap BY DEF Since
  <2> QED BY <1>5, <2>3, <2>5, <2>6, <2>7
<1>10. TypeInv'
  <2>1. diff' \in Times BY <1>5, <1>7, <1>8 DEF Times
  <2>2. pc' \in ThreadPCs BY <1>2 DEF ThreadPCs
  <2> QED BY <1>1, <1>2, <1>9, <2>1, <2>2 DEF TypeInv
<1>11. KeptInv'
  <2>1. Handling = {} /\ Handling' = {} BY <1>2 DEF Handling
  <2>2. Handlers(next_timeout)' = Handlers(next_timeout) BY <1>2 DEF Handlers
  <2>3. NoTwice(next_timeout)' BY <1>1, <1>2 DEF KeptInv, NoTwice
  <2> QED BY <1>1, <1>2, <2>1, <2>2, <2>3 DEF KeptInv
<1>12. ThreadInv' BY <1>2, <1>3 DEF ThreadInv
<1>13. ClockInv'
  <2>1. diff' <= Late' BY <1>5, <1>7, <1>8, <1>9
  <2>2. ASSUME NEW h \in Timers PROVE Late' + Interval[h] < Wrap
    <3>1. late + Interval[h] < Wrap BY <1>1, <1>6 DEF ClockInv
    <3>2. PICK i \in Nat : i = Interval[h] BY Intervals
    <3>3. late + i < Wrap BY <3>1, <3>2
    <3>4. (late - t) + i < Wrap BY <1>6, <1>7, <3>2, <3>3, StillLess
    <3> QED BY <1>9, <3>2, <3>4
  <2> QED BY <2>1, <2>2 DEF ClockInv
<1>14. DueInv'
  <2>1. Unlinked = 0 BY <1>2 DEF Unlinked
  <2>2. Unlinked' = t BY <1>2, <1>4 DEF Unlinked
  <2>3. Late + Unlinked = late /\ Late' + Unlinked' = late BY <1>6, <1>7, <1>9, <2>1, <2>2
  <2>4. OnTime(next_timeout, left, cut, late) BY <1>1, <2>3 DEF DueInv
  <2>5. OnTime(next_timeout', left', cut', Late' + Unlinked') BY <1>2, <2>3, <2>4
  <2>6. DueInv' <=> OnTime(next_timeout', left', cut', Late' + Unlinked') BY DEF DueInv, OnTime
  <2> QED BY <2>5, <2>6
<1>15. NotEarly' BY <1>2 DEF NotEarly
<1> QED BY <1>10, <1>11, <1>12, <1>13, <1>14, <1>15 DEF IInv

LEMMA UnlinkStep ==
    ASSUME TimeoutConstants, IInv, Unlink PROVE IInv'
<1>1. TypeInv /\ KeptInv /\ ThreadInv /\ ClockInv BY DEF IInv
<1>2. /\ pc = "unlink" /\ pc' = "store" /\ UNCHANGED listVars
      /\ tcpip_tcp_timer_active' = tcpip_tcp_timer_active /\ connections' = connections
      /\ sleep' = sleep /\ diff' = diff /\ tmp' = tmp /\ now' = now /\ lag' = lag
  BY DEF Unlink, ThreadAt, tcpVars, timeVars
<1>3. timeouts_last_time' = timeouts_last_time /\ next_timeout' = next_timeout
      /\ left' = left /\ cut' = cut
  BY <1>2 DEF listVars
<1>4. PICK n \in Nat : n = Len(next_timeout) /\ n > 1 /\ DOMAIN next_timeout = 1 .. n
  BY <1>1, <1>2, Lengths
<1>5. rest' = next_timeout[2].h
  <2>1. PICK i \in DOMAIN next_timeout :
          /\ next_timeout[i].h = tmp
          /\ rest' = IF i = Len(next_timeout) THEN None ELSE next_timeout[i + 1].h
    BY DEF Unlink
  <2>2. next_timeout[1].h = tmp BY <1>1, <1>2 DEF ThreadInv
  <2>3. 1 \in 1 .. n /\ i \in 1 .. n BY <1>4, <2>1
  <2>4. i = 1 BY <1>1, <1>4, <2>1, <2>2, <2>3 DEF KeptInv, NoTwice
  <2>5. i # n /\ i + 1 = 2
    <3>1. n > 1 BY <1>4
    <3> QED BY <2>4, <3>1
  <2> QED BY <1>4, <2>1, <2>5
<1>6. next_timeout[2].h \in Timers
  <2>1. 2 \in 1 .. n /\ next_timeout \in Seq(Timeouts) BY <1>1, <1>4 DEF TypeInv
  <2>2. Wrap \in Nat BY Intervals
  <2> QED BY <1>4, <2>1, <2>2, TimeoutsTimed
<1>7. Handling' = Handling /\ Unlinked' = Unlinked BY <1>2, <1>3 DEF Handling, Unlinked
<1>8. KeptInv' /\ DueInv' /\ NotEarly' /\ Late' = Late BY <1>2, <1>7, ListStays
<1>9. TypeInv'
  <2>1. pc' \in ThreadPCs BY <1>2 DEF ThreadPCs
  <2> QED BY <1>1, <1>2, <1>3, <1>5, <1>6, <2>1 DEF TypeInv
<1>10. ThreadInv' BY <1>1, <1>2, <1>3, <1>5 DEF ThreadInv
<1>11. ClockInv' BY <1>1, <1>2, <1>8 DEF ClockInv
<1> QED BY <1>8, <1>9, <1>10, <1>11 DEF IInv

LEMMA StoreNextStep ==
    ASSUME TimeoutConstants, IInv, StoreNext PROVE IInv'
<1>1. TypeInv /\ KeptInv /\ ThreadInv /\ ClockInv /\ DueInv BY DEF IInv
<1>2. /\ pc = "store" /\ pc' = "handle" /\ rest' = None
      /\ timeouts_last_time' = timeouts_last_time /\ left' = left /\ cut' = cut
      /\ tcpip_tcp_timer_active' = tcpip_tcp_timer_active /\ connections' = connections
      /\ sleep' = sleep /\ diff' = diff /\ tmp' = tmp /\ now' = now /\ lag' = lag
  BY DEF StoreNext, ThreadAt, tcpVars, timeVars
<1>3. PICK n \in Nat : n = Len(next_timeout) /\ n > 1 /\ DOMAIN next_timeout = 1 .. n
  BY <1>1, <1>2, Lengths
<1>4. PICK list \in Seq(Timeouts) : list = next_timeout BY <1>1 DEF TypeInv
<1>5. list[1].h = tmp /\ rest = list[2].h BY <1>1, <1>2, <1>4 DEF ThreadInv
<1>6. NoTwice(list) BY <1>1, <1>4 DEF KeptInv
<1> DEFINE S == {i \in DOMAIN next_timeout : next_timeout[i].h = rest} \union {Len(next_timeout) + 1}
<1>7. Min(S) = 2
  <2>1. \A i \in 1 .. n : list[i].h = rest <=> i = 2
    <3>1. 2 \in 1 .. n BY <1>3
    <3> QED BY <1>3, <1>4, <1>5, <1>6, <3>1 DEF NoTwice
  <2>2. S = {2, n + 1} BY <1>3, <1>4, <2>1
  <2>3. S \in SUBSET Nat /\ S # {}
    <3> HIDE DEF S
    <3>1. 2 \in Nat /\ n + 1 \in Nat BY <1>3
    <3> QED BY <2>2, <3>1
  <2>4. Min(S) \in S /\ \A y \in S : Min(S) <= y
    <3> HIDE DEF S
    <3> QED BY <2>3, MinIs
  <2>5. 2 \in S /\ n + 1 > 2
    <3> HIDE DEF S
    <3> QED BY <1>3, <2>2
  <2>6. PICK m : m = Min(S) OBVIOUS
  <2>7. m \in {2, n + 1} /\ m <= 2
    <3> HIDE DEF S
    <3> QED BY <2>2, <2>4, <2>5, <2>6
  <2>8. m = 2 BY <1>3, <2>5, <2>7
  <2> HIDE DEF S
  <2> QED BY <2>6, <2>8
<1>8. PICK L : L = SubSeq(list, 2, n) OBVIOUS
<1>9. next_timeout' = L
  <2>1. next_timeout' = SubSeq(next_timeout, Min(S), Len(next_timeout)) BY DEF StoreNext
  <2> HIDE DEF S
  <2> QED BY <1>3, <1>4, <1>7, <1>8, <2>1
<1>10. PICK lft \in [Timers -> Int] : lft = left BY <1>1 DEF TypeInv
<1>11. PICK ct : ct = cut OBVIOUS
<1>12. PICK late \in Nat : late = Late BY <1>1, LateIs
<1>13. OnTime(list, lft, ct, late + list[1].time)
  <2>1. Unlinked = list[1].time BY <1>2, <1>4 DEF Unlinked
  <2> QED BY <1>1, <1>4, <1>10, <1>11, <1>12, <2>1 DEF DueInv
<1>14. /\ L \in Seq(Timeouts) /\ NoTwice(L)
       /\ Handlers(L) = Handlers(list) \ {list[1].h}
       /\ OnTime(L, lft, ct, late)
  <2>1. Wrap \in Nat BY Intervals
  <2>2. n \in Nat /\ n > 1 /\ n = Len(list) BY <1>3, <1>4
  <2>3. late \in Int BY <1>12
  <2>4. list \in Seq(Timeouts) /\ lft \in [Timers -> Int] BY <1>4, <1>10
  <2>5. OnTime(list, lft, ct, late + list[1].time) BY <1>13
  <2>6. Taken(list, L, lft, ct, late)
    BY <1>6, <1>8, <2>1, <2>2, <2>3, <2>4, <2>5, TailKeeps
  <2> QED BY <2>6 DEF Taken
<1>15. PICK h \in Timers : h = tmp /\ h = list[1].h /\ h \in Handlers(list)
  <2>1. 1 \in 1 .. Len(list) BY <1>3, <1>4
  <2>2. list[1].h \in Handlers(list) BY <2>1 DEF Handlers
  <2>3. list[1].h \in Timers BY <1>1, <1>4, FirstOfList
  <2> QED BY <1>5, <2>2, <2>3
<1>16. Late' = Late BY <1>2, LateStays
<1>17. TypeInv'
  <2>1. pc' \in ThreadPCs BY <1>2 DEF ThreadPCs
  <2>2. next_timeout' \in Seq(Timeouts) BY <1>9, <1>14
  <2> QED BY <1>1, <1>2, <2>1, <2>2 DEF TypeInv
<1>18. KeptInv'
  <2>1. Handling = {} /\ Handling' = {h} BY <1>2, <1>15 DEF Handling
  <2>2. Handlers(next_timeout)' = Handlers(L) BY <1>9 DEF Handlers
  <2>3. NoTwice(next_timeout)' BY <1>9, <1>14 DEF NoTwice
  <2>4. Handlers(next_timeout)' \union Handling' = Handlers(next_timeout) \union Handling
    <3>1. Handlers(L) \union {h} = Handlers(list) BY <1>14, <1>15
    <3> QED BY <1>4, <2>1, <2>2, <3>1
  <2>5. Handling' \subseteq Timers \ Handlers(next_timeout)' BY <1>14, <1>15, <2>1, <2>2
  <2> QED BY <1>1, <1>2, <2>3, <2>4, <2>5 DEF KeptInv
<1>19. ThreadInv' BY <1>2 DEF ThreadInv
<1>20. ClockInv' BY <1>1, <1>2, <1>16 DEF ClockInv
<1>21. DueInv'
  <2>1. Unlinked' = 0 BY <1>2 DEF Unlinked
  <2>2. Late' + Unlinked' = late BY <1>12, <1>16, <2>1
  <2>3. OnTime(next_timeout', left', cut', Late' + Unlinked')
    BY <1>2, <1>9, <1>10, <1>11, <1>14, <2>2
  <2>4. DueInv' <=> OnTime(next_timeout', left', cut', Late' + Unlinked') BY DEF DueInv, OnTime
  <2> QED BY <2>3, <2>4
<1>22. NotEarly'
  <2>1. h \in ct \/ lft[h] <= Sums(list)[1] - (late + list[1].time)
    <3>1. 1 \in 1 .. Len(list) BY <1>3, <1>4
    <3> QED BY <1>13, <1>15, <3>1 DEF OnTime
  <2>2. Sums(list)[1] = list[1].time /\ list[1].time \in Nat
    <3>1. Wrap \in Nat /\ n = Len(list) BY <1>3, <1>4, Intervals
    <3>2. /\ Sums(list)[0] = 0
          /\ \A k \in 1 .. n : Sums(list)[k] = Sums(list)[k - 1] + list[k].time
      BY <3>1, SumsOf
    <3>3. 1 \in 1 .. n /\ 1 - 1 = 0 BY <1>3
    <3>4. Sums(list)[1] = 0 + list[1].time BY <3>2, <3>3
    <3>9. next_timeout[1].time \in Nat BY <1>1, FirstOfList
    <3>5. PICK t \in Nat : t = list[1].time BY <1>4, <3>9
    <3>6. 0 + t = t OBVIOUS
    <3>7. Sums(list)[1] = list[1].time BY <3>4, <3>5, <3>6
    <3>8. list[1].time \in Nat BY <3>5
    <3> QED BY <3>7, <3>8
  <2>3. PICK t \in Nat : t = list[1].time BY <2>2
  <2>4. h \in ct \/ lft[h] <= t - (late + t) BY <2>1, <2>2, <2>3
  <2>5. lft[h] \in Int OBVIOUS
  <2>6. lft[h] <= t - (late + t) => lft[h] <= 0 BY <1>12, <2>3, <2>5, NoMore
  <2>7. h \in ct \/ lft[h] <= 0 BY <2>4, <2>6
  <2>8. left'[h] = lft[h] /\ cut' = ct /\ tmp' = h BY <1>2, <1>10, <1>11, <1>15
  <2> QED BY <2>7, <2>8 DEF NotEarly
<1> QED BY <1>17, <1>18, <1>19, <1>20, <1>21, <1>22 DEF IInv

\* The timer is back in the list when its handler ends.
LEMMA PutBack ==
    ASSUME TimeoutConstants, IInv, pc = "handle", pc' = "next", tmp' = None,
           UNCHANGED <<sleep, diff, rest, timeVars>>,
           tcpip_tcp_timer_active' \in BOOLEAN, connections' \in BOOLEAN,
           SysTimeout(tmp), tcpip_tcp_timer_active' <=> tcpip_tcp_timer_active
    PROVE  IInv'
<1>1. TypeInv /\ KeptInv BY DEF IInv
<1>2. Handling = {tmp} /\ Handling' = {} BY DEF Handling
<1>3. PICK h \in Timers : h = tmp /\ h \notin Handlers(next_timeout) BY <1>1, <1>2 DEF KeptInv
<1>4. now' = now /\ lag' = lag /\ sleep' = sleep /\ diff' = diff /\ rest' = rest BY DEF timeVars
<1>5. SysTimeout(h) BY <1>3
<1>6. /\ ThreadInv' /\ ClockInv' /\ DueInv' /\ NotEarly'
      /\ timeouts_last_time' = timeouts_last_time
      /\ next_timeout' \in Seq(Timeouts) /\ left' \in [Timers -> Int] /\ cut' \in SUBSET Timers
      /\ NoTwice(next_timeout)' /\ Handlers(next_timeout)' = Handlers(next_timeout) \union {h}
  BY <1>3, <1>4, <1>5, PutStep
<1>7. TypeInv'
  <2>1. pc' \in ThreadPCs BY DEF ThreadPCs
  <2>2. tmp' \in Timers \union {None} OBVIOUS
  <2>3. timeouts_last_time' \in Times /\ now' \in Times /\ lag' \in 0 .. MaxLag
        /\ sleep' \in Times /\ diff' \in Times /\ rest' \in Timers \union {None}
    BY <1>1, <1>4, <1>6 DEF TypeInv
  <2> QED BY <1>6, <2>1, <2>2, <2>3 DEF TypeInv
<1>8. KeptInv'
  <2>1. Handlers(next_timeout)' \union Handling' = Handlers(next_timeout) \union Handling
    BY <1>2, <1>3, <1>6
  <2> QED BY <1>1, <1>2, <1>6, <2>1 DEF KeptInv
<1> QED BY <1>6, <1>7, <1>8 DEF IInv

LEMMA HandleCyclicStep ==
    ASSUME TimeoutConstants, IInv, HandleCyclic PROVE IInv'
<1>1. TypeInv BY DEF IInv
<1>2. /\ pc = "handle" /\ pc' = "next" /\ tmp' = None /\ SysTimeout(tmp)
      /\ UNCHANGED <<sleep, diff, rest, timeVars>>
      /\ tcpip_tcp_timer_active' = tcpip_tcp_timer_active /\ connections' = connections
  BY DEF HandleCyclic, ThreadAt, tcpVars, timeVars
<1>3. tcpip_tcp_timer_active \in BOOLEAN /\ connections \in BOOLEAN BY <1>1 DEF TypeInv
<1>4. /\ tcpip_tcp_timer_active' \in BOOLEAN /\ connections' \in BOOLEAN
      /\ (tcpip_tcp_timer_active' <=> tcpip_tcp_timer_active)
  BY <1>2, <1>3
<1> QED BY <1>2, <1>4, PutBack

LEMMA HandleTcpStep ==
    ASSUME TimeoutConstants, IInv, HandleTcp PROVE IInv'
<1>1. TypeInv /\ KeptInv /\ ThreadInv /\ ClockInv /\ DueInv BY DEF IInv
<1>2. /\ pc = "handle" /\ pc' = "next" /\ tmp = Tcp /\ tmp' = None
      /\ connections' \in {FALSE, connections} /\ tcpip_tcp_timer_active' = connections'
      /\ sleep' = sleep /\ diff' = diff /\ rest' = rest /\ now' = now /\ lag' = lag
  BY DEF HandleTcp, ThreadAt, timeVars
<1>3. connections' \in BOOLEAN BY <1>1, <1>2 DEF TypeInv
<1>4. tcpip_tcp_timer_active' \in BOOLEAN BY <1>2, <1>3
<1>5. Handling = {Tcp} /\ Handling' = {} BY <1>2 DEF Handling
<1>6. tcpip_tcp_timer_active BY <1>1, <1>5 DEF KeptInv
<1>7. CASE connections'
  <2>1. SysTimeout(tmp) BY <1>2, <1>7 DEF HandleTcp
  <2>2. tcpip_tcp_timer_active' <=> tcpip_tcp_timer_active BY <1>2, <1>6, <1>7
  <2>3. UNCHANGED <<sleep, diff, rest, timeVars>> BY <1>2 DEF timeVars
  <2> QED BY <1>2, <1>3, <1>4, <2>1, <2>2, <2>3, PutBack
<1>8. CASE ~connections'
  <2>1. UNCHANGED listVars BY <1>8 DEF HandleTcp
  <2>2. timeouts_last_time' = timeouts_last_time /\ next_timeout' = next_timeout
        /\ left' = left /\ cut' = cut
    BY <2>1 DEF listVars
  <2>3. Late' = Late BY <1>2, <2>2, LateStays
  <2>4. TypeInv'
    <3>1. pc' \in ThreadPCs BY <1>2 DEF ThreadPCs
    <3>2. tmp' \in Timers \union {None} BY <1>2
    <3> QED BY <1>1, <1>2, <1>3, <1>4, <2>2, <3>1, <3>2 DEF TypeInv
  <2>5. KeptInv'
    <3>1. Handlers(next_timeout)' = Handlers(next_timeout) BY <2>2 DEF Handlers
    <3>2. NoTwice(next_timeout)' BY <1>1, <2>2 DEF KeptInv, NoTwice
    <3>3. Tcp \notin Cyclic BY DEF TimeoutConstants
    <3>4. Tcp \notin Handlers(next_timeout) BY <1>1, <1>5 DEF KeptInv
    <3>5. Cyclic \subseteq Handlers(next_timeout) BY <1>1, <1>5, <3>3 DEF KeptInv
    <3>6. ~tcpip_tcp_timer_active' BY <1>2, <1>8
    <3> QED BY <1>5, <3>1, <3>2, <3>4, <3>5, <3>6 DEF KeptInv
  <2>6. ThreadInv' BY <1>2 DEF ThreadInv
  <2>7. ClockInv' BY <1>1, <1>2, <2>3 DEF ClockInv
  <2>8. DueInv'
    <3>1. Unlinked = 0 /\ Unlinked' = 0 BY <1>2 DEF Unlinked
    <3> QED BY <1>1, <2>2, <2>3, <3>1 DEF DueInv, OnTime
  <2>9. NotEarly' BY <1>2 DEF NotEarly
  <2> QED BY <2>4, <2>5, <2>6, <2>7, <2>8, <2>9 DEF IInv
<1> QED BY <1>3, <1>7, <1>8
-----------------------------------------------------------------------------
(* Time passes *)

LEMMA Holding ==
    ASSUME TimeoutConstants, TypeInv, KeptInv, NEW h
    PROVE  Scheduled(h) <=> h \in Handlers(next_timeout) \union Handling
<1>1. DOMAIN next_timeout = 1 .. Len(next_timeout) BY Lengths
<1>2. (\E i \in DOMAIN next_timeout : next_timeout[i].h = h) <=> h \in Handlers(next_timeout)
  BY <1>1 DEF Handlers
<1>3. pc = "handle" /\ tmp = h <=> h \in Handling BY DEF Handling
<1> QED BY <1>2, <1>3 DEF Scheduled

LEMMA TickStep ==
    ASSUME TimeoutConstants, IInv, Tick PROVE IInv'
<1>1. TypeInv /\ KeptInv /\ ThreadInv /\ ClockInv /\ DueInv /\ NotEarly BY DEF IInv
<1>2. /\ timeouts_last_time' = timeouts_last_time /\ next_timeout' = next_timeout /\ cut' = cut
      /\ tcpip_tcp_timer_active' = tcpip_tcp_timer_active /\ connections' = connections
      /\ pc' = pc /\ diff' = diff /\ tmp' = tmp /\ rest' = rest
      /\ left' = [h \in Timers |-> IF Scheduled(h) THEN left[h] - 1 ELSE 0]
      /\ now' = (now + 1) % Wrap
  BY DEF Tick, tcpVars
<1>3. PICK late \in Nat : late = Late BY <1>1, LateIs
<1>4. \A h \in Timers : late + Interval[h] + 1 < Wrap BY <1>3 DEF Tick, Late
<1>5. Wrap \in Nat /\ \A h \in Timers : Interval[h] \in Nat BY Intervals
<1>6. late + 1 < Wrap
  <2>1. Tcp \in Timers BY DEF Timers
  <2>2. PICK i \in Nat : i = Interval[Tcp] BY <1>5, <2>1
  <2>3. late + i + 1 < Wrap BY <1>4, <2>1, <2>2
  <2> QED BY <1>5, <2>2, <2>3
<1>7. now' \in Times /\ Late' = late + 1
  <2>1. now \in Times /\ timeouts_last_time \in Times BY <1>1 DEF TypeInv
  <2>2. Since(timeouts_last_time) + 1 < Wrap BY <1>3, <1>6 DEF Late
  <2>3. now' \in Times /\ (now' - timeouts_last_time + Wrap) % Wrap = Since(timeouts_last_time) + 1
    BY <1>2, <2>1, <2>2, SinceTicks
  <2>4. Late' = (now' - timeouts_last_time + Wrap) % Wrap BY <1>2 DEF Late, Since
  <2> QED BY <1>3, <2>3, <2>4 DEF Late
<1>8. PICK lft \in [Timers -> Int] : lft = left BY <1>1 DEF TypeInv
<1>9. left' = [h \in Timers |-> IF Scheduled(h) THEN lft[h] - 1 ELSE 0] BY <1>2, <1>8
<1>10. \A h \in Timers : left'[h] = IF Scheduled(h) THEN lft[h] - 1 ELSE 0 BY <1>9
<1>11. left' \in [Timers -> Int]
  <2>1. \A h \in Timers : (IF Scheduled(h) THEN lft[h] - 1 ELSE 0) \in Int BY <1>8
  <2> QED BY <1>9, <2>1
<1>12. sleep' \in Times /\ lag' \in 0 .. MaxLag
  <2>1. sleep \in Times /\ lag \in 0 .. MaxLag /\ MaxLag \in Nat BY <1>1 DEF TypeInv, TimeoutConstants
  <2>2. CASE pc = "sleep" /\ sleep > 0
    <3>1. sleep' = sleep - 1 /\ lag' = lag BY <2>2 DEF Tick
    <3> QED BY <1>5, <2>1, <2>2, <3>1 DEF Times
  <2>3. CASE ~(pc = "sleep" /\ sleep > 0)
    <3>1. sleep' = sleep /\ lag' = lag + 1 /\ lag < MaxLag BY <2>3 DEF Tick
    <3>2. PICK l \in Nat, m \in Nat : l = lag /\ m = MaxLag BY <2>1
    <3>3. l < m => l + 1 \in 0 .. m OBVIOUS
    <3> QED BY <2>1, <3>1, <3>2, <3>3
  <2> QED BY <2>2, <2>3
<1>13. TypeInv' BY <1>1, <1>2, <1>7, <1>11, <1>12 DEF TypeInv
<1>14. Handling' = Handling /\ Unlinked' = Unlinked BY <1>2 DEF Handling, Unlinked
<1>15. KeptInv'
  <2>1. Handlers(next_timeout)' = Handlers(next_timeout) BY <1>2 DEF Handlers
  <2>2. NoTwice(next_timeout)' BY <1>1, <1>2 DEF KeptInv, NoTwice
  <2> QED BY <1>1, <1>2, <1>14, <2>1, <2>2 DEF KeptInv
<1>16. ThreadInv' BY <1>1, <1>2 DEF ThreadInv
<1>17. ClockInv'
  <2>1. pc' \in {"next", "elapse", "unlink", "store", "handle"} => diff' <= Late'
    <3>1. diff \in Nat BY <1>1, <1>5 DEF TypeInv, Times
    <3>2. pc \in {"next", "elapse", "unlink", "store", "handle"} => diff <= late
      BY <1>1, <1>3 DEF ClockInv
    <3> QED BY <1>2, <1>3, <1>7, <3>1, <3>2
  <2>2. ASSUME NEW h \in Timers PROVE Late' + Interval[h] < Wrap
    <3>1. PICK i \in Nat : i = Interval[h] BY <1>5
    <3>2. late + i + 1 < Wrap BY <1>4, <3>1
    <3>3. (late + 1) + i < Wrap BY <1>3, <1>5, <3>1, <3>2, OneMore
    <3> QED BY <1>7, <3>1, <3>3
  <2> QED BY <2>1, <2>2 DEF ClockInv
<1>18. PICK list \in Seq(Timeouts) : list = next_timeout BY <1>1 DEF TypeInv
<1>19. Unlinked \in Nat
  <2>1. next_timeout[1].time \in Nat BY <1>1, FirstOfList
  <2> QED BY <2>1 DEF Unlinked
<1>20. PICK base \in Nat : base = Late + Unlinked BY <1>3, <1>19
<1>21. Late' + Unlinked' = base + 1 BY <1>3, <1>7, <1>14, <1>19, <1>20
<1>22. ASSUME NEW i \in 1 .. Len(list)
       PROVE  list[i].h \in cut \/ left'[list[i].h] <= Sums(list)[i] - (base + 1)
  <2>1. list[i].h \in cut \/ lft[list[i].h] <= Sums(list)[i] - base
    BY <1>1, <1>8, <1>18, <1>20 DEF DueInv, OnTime
  <2>2. PICK h \in Timers : h = list[i].h BY <1>5, TimeoutsTimed
  <2>3. Scheduled(h)
    <3>1. h \in Handlers(next_timeout) BY <1>18, <2>2 DEF Handlers
    <3> QED BY <1>1, <3>1, Holding
  <2>4. left'[h] = lft[h] - 1 /\ lft[h] \in Int BY <1>8, <1>10, <2>3
  <2>5. PICK s \in Int : s = Sums(list)[i]
    <3>1. PICK n \in Nat : n = Len(list) BY <1>18
    <3>2. i \in 0 .. n BY <3>1
    <3> QED BY <1>5, <3>1, <3>2, SumsOf
  <2>6. lft[h] <= s - base => lft[h] - 1 <= s - (base + 1) BY <2>4
  <2> QED BY <2>1, <2>2, <2>4, <2>5, <2>6
<1>23. DueInv'
  <2>1. OnTime(list, left', cut, base + 1) BY <1>22 DEF OnTime
  <2>2. OnTime(next_timeout', left', cut', Late' + Unlinked') BY <1>2, <1>18, <1>21, <2>1
  <2>3. DueInv' <=> OnTime(next_timeout', left', cut', Late' + Unlinked') BY DEF DueInv, OnTime
  <2> QED BY <2>2, <2>3
<1>24. NotEarly'
  <2> SUFFICES ASSUME pc = "handle" PROVE left'[tmp] <= 0 \/ tmp \in cut
    BY <1>2 DEF NotEarly
  <2>1. Handling = {tmp} BY DEF Handling
  <2>2. PICK h \in Timers : h = tmp BY <1>1, <2>1 DEF KeptInv
  <2>3. Scheduled(h) BY <1>1, <2>1, <2>2, Holding
  <2>4. left'[h] = lft[h] - 1 /\ lft[h] \in Int BY <1>8, <1>10, <2>3
  <2>5. lft[h] <= 0 \/ h \in cut BY <1>1, <1>8, <2>2 DEF NotEarly
  <2>6. lft[h] <= 0 => lft[h] - 1 <= 0 BY <2>4
  <2> QED BY <2>2, <2>4, <2>5, <2>6
<1> QED BY <1>13, <1>15, <1>16, <1>17, <1>23, <1>24 DEF IInv
-----------------------------------------------------------------------------
(* sys_timeouts_init *)

PutInOrder(k, f) ==
    /\ f = [i \in 0 .. k |-> f[i]] /\ f[0] = <<>>
    /\ \A i \in 1 .. k : f[i] = Inserted(f[i - 1], Order[i], Interval[Order[i]], 0)

LEMMA PutInOrderExists ==
    ASSUME NEW n \in Nat PROVE \E f : PutInOrder(n, f)
<1> DEFINE S == {k \in 0 .. n : ~\E f : PutInOrder(k, f)}
<1> SUFFICES ASSUME S # {} PROVE FALSE OBVIOUS
<1>1. S \in SUBSET Nat OBVIOUS
<1>2. PICK k \in S : \A j \in S : k <= j
  <2> HIDE DEF S
  <2> QED BY <1>1, SmallestElement
<1>3. k # 0
  <2>1. PutInOrder(0, [i \in 0 .. 0 |-> <<>>]) BY DEF PutInOrder
  <2> QED BY <1>2, <2>1
<1>4. k \in 1 .. n /\ k - 1 \in 0 .. n /\ k - 1 \notin S BY <1>2, <1>3
<1>5. PICK f : PutInOrder(k - 1, f) BY <1>4
<1>6. PICK l : l = Inserted(f[k - 1], Order[k], Interval[Order[k]], 0) OBVIOUS
<1> DEFINE g == [i \in 0 .. k |-> IF i = k THEN l ELSE f[i]]
<1>7. \A i \in 0 .. k - 1 : g[i] = f[i] BY <1>4
<1>8. g[k] = l BY <1>4
<1>9. g = [i \in 0 .. k |-> g[i]] OBVIOUS
<1> HIDE DEF g
<1>10. g[0] = <<>> BY <1>4, <1>5, <1>7 DEF PutInOrder
<1>11. ASSUME NEW i \in 1 .. k PROVE g[i] = Inserted(g[i - 1], Order[i], Interval[Order[i]], 0)
  <2>1. i - 1 \in 0 .. k - 1 /\ g[i - 1] = f[i - 1] BY <1>4, <1>7
  <2>2. CASE i = k BY <1>6, <1>8, <2>1, <2>2
  <2>3. CASE i # k
    <3>1. i \in 1 .. k - 1 /\ i \in 0 .. k - 1 BY <1>4, <2>3
    <3>2. f[i] = Inserted(f[i - 1], Order[i], Interval[Order[i]], 0) BY <1>5, <3>1 DEF PutInOrder
    <3> QED BY <1>7, <2>1, <3>1, <3>2
  <2> QED BY <2>2, <2>3
<1>12. PutInOrder(k, g) BY <1>9, <1>10, <1>11 DEF PutInOrder
<1> QED BY <1>2, <1>12

LEMMA ListedIs ==
    ASSUME NEW n \in Nat, n = Len(Order)
    PROVE  /\ Listed[0] = <<>>
           /\ \A i \in 1 .. n : Listed[i] = Inserted(Listed[i - 1], Order[i], Interval[Order[i]], 0)
<1> DEFINE Recursive(f) ==
             f = [i \in 0 .. n |-> IF i = 0 THEN <<>>
                                   ELSE Inserted(f[i - 1], Order[i], Interval[Order[i]], 0)]
<1>1. Listed = CHOOSE f : Recursive(f) BY DEF Listed
<1>2. PICK f : PutInOrder(n, f) BY PutInOrderExists
<1>3. ASSUME NEW i \in 0 .. n
      PROVE  f[i] = IF i = 0 THEN <<>> ELSE Inserted(f[i - 1], Order[i], Interval[Order[i]], 0)
  <2>1. CASE i = 0 BY <1>2, <2>1 DEF PutInOrder
  <2>2. CASE i # 0
    <3>1. i \in 1 .. n BY <2>2
    <3>2. f[i] = Inserted(f[i - 1], Order[i], Interval[Order[i]], 0) BY <1>2, <3>1 DEF PutInOrder
    <3> QED BY <2>2, <3>2
  <2> QED BY <2>1, <2>2
<1>4. f = [i \in 0 .. n |-> f[i]] BY <1>2 DEF PutInOrder
<1>5. Recursive(f) BY <1>3, <1>4
<1>6. Recursive(Listed)
  <2> HIDE DEF Recursive
  <2> QED BY <1>1, <1>5
<1>7. PICK g : g = Listed OBVIOUS
<1>8. g = [i \in 0 .. n |-> IF i = 0 THEN <<>>
                            ELSE Inserted(g[i - 1], Order[i], Interval[Order[i]], 0)]
  BY <1>6, <1>7
<1>9. \A i \in 0 .. n : g[i] = IF i = 0 THEN <<>>
                               ELSE Inserted(g[i - 1], Order[i], Interval[Order[i]], 0)
  BY <1>8
<1>10. g[0] = <<>> BY <1>9
<1>11. ASSUME NEW i \in 1 .. n PROVE g[i] = Inserted(g[i - 1], Order[i], Interval[Order[i]], 0)
  <2>1. i \in 0 .. n /\ i # 0 OBVIOUS
  <2> QED BY <1>9, <2>1
<1> QED BY <1>7, <1>10, <1>11

LEMMA LessThanHalf ==
    ASSUME NEW m \in Nat, NEW w \in Nat, 2 * m < w PROVE m + 0 < w /\ 0 + m < w
OBVIOUS

LEMMA OneMoreOf ==
    ASSUME NEW i \in Nat, i >= 1 PROVE \A k : k \in 1 .. i <=> k \in 1 .. i - 1 \/ k = i
OBVIOUS

LEMMA Before ==
    ASSUME NEW n \in Nat, NEW i \in 1 .. n, NEW k \in 1 .. i - 1 PROVE k \in 1 .. n /\ k # i
OBVIOUS

\* The cyclic timers up to the ith are in the list, none before its time.
Started(list, i, lft) ==
    /\ list \in Seq(Timeouts) /\ NoTwice(list)
    /\ Handlers(list) = {Order[k] : k \in 1 .. i}
    /\ OnTime(list, lft, {}, 0)

LEMMA StartedNext ==
    ASSUME TimeoutConstants, NEW lft \in [Timers -> Int], \A h \in Cyclic : lft[h] = Interval[h],
           NEW n \in Nat, n = Len(Order), NEW i \in 1 .. n, NEW list, Started(list, i - 1, lft)
    PROVE  Started(Inserted(list, Order[i], Interval[Order[i]], 0), i, lft)
<1>1. PICK h \in Timers : h = Order[i] /\ h \in Cyclic
  <2>1. Order \in Seq(Cyclic) BY DEF TimeoutConstants
  <2>2. Order[i] \in Cyclic BY <2>1
  <2> QED BY <2>2 DEF Timers
<1>2. PICK msecs \in Nat : msecs = Interval[h] /\ 2 * msecs < Wrap BY Intervals
<1>3. Wrap \in Nat BY Intervals
<1>4. list \in Seq(Timeouts) /\ NoTwice(list) /\ OnTime(list, lft, {}, 0) BY DEF Started
<1>5. h \notin Handlers(list)
  <2>1. ASSUME NEW k \in 1 .. i - 1 PROVE Order[k] # Order[i]
    <3>1. Order \in Seq(Cyclic) /\ \A a, b \in DOMAIN Order : Order[a] = Order[b] => a = b
      BY DEF TimeoutConstants
    <3>2. DOMAIN Order = 1 .. n BY <3>1
    <3>3. k \in 1 .. n /\ k # i BY Before
    <3>4. i \in 1 .. n OBVIOUS
    <3> QED BY <3>1, <3>2, <3>3, <3>4
  <2>2. Handlers(list) = {Order[k] : k \in 1 .. i - 1} BY DEF Started
  <2> SUFFICES ASSUME h \in Handlers(list) PROVE FALSE OBVIOUS
  <2>3. PICK k \in 1 .. i - 1 : h = Order[k] BY <2>2
  <2>4. Order[k] # Order[i] BY <2>1
  <2> QED BY <1>1, <2>3, <2>4
<1>6. PICK L : L = Inserted(list, h, msecs, 0) OBVIOUS
<1>7. Placed(list, L, h, msecs, 0)
  <2>1. msecs + 0 < Wrap /\ 0 \in Nat BY <1>2, <1>3, LessThanHalf
  <2> QED BY <1>2, <1>3, <1>4, <1>6, <2>1, InsertedPlaced
<1>8. ~AllDue(list, msecs, 0)
  <2>1. PICK m \in Nat : m = Len(list) BY <1>4
  <2>2. Sums(list)[m] \in Nat
    <3>1. m \in 0 .. m OBVIOUS
    <3> QED BY <1>3, <1>4, <2>1, <3>1, SumsNatural
  <2>3. PICK t \in Nat : t = TimeUpTo(list, Len(list)) BY <2>1, <2>2 DEF TimeUpTo
  <2>4. ~(t < 0) OBVIOUS
  <2> QED BY <2>3, <2>4 DEF AllDue
<1>9. PICK lf : lf = [lft EXCEPT ![h] = msecs] OBVIOUS
<1>10. PICK c : c = IF AllDue(list, msecs, 0) THEN {} \union {h} ELSE {} \ {h} OBVIOUS
<1>11. /\ L \in Seq(Timeouts) /\ L # <<>> /\ NoTwice(L)
       /\ Handlers(L) = Handlers(list) \union {h}
       /\ OnTime(L, lf, c, 0)
  <2>1. 0 \in Nat /\ (list # <<>> \/ 0 = 0) OBVIOUS
  <2> QED BY <1>3, <1>4, <1>5, <1>7, <1>9, <1>10, <2>1, PlacedKeeps
<1>12. lf = lft BY <1>1, <1>2, <1>9
<1>13. c = {} BY <1>8, <1>10
<1>14. Handlers(L) = {Order[k] : k \in 1 .. i}
  <2>1. i \in Nat /\ i >= 1 OBVIOUS
  <2>2. \A k : k \in 1 .. i <=> k \in 1 .. i - 1 \/ k = i BY <2>1, OneMoreOf
  <2>3. Handlers(list) = {Order[k] : k \in 1 .. i - 1} BY DEF Started
  <2>4. \A g : g \in {Order[k] : k \in 1 .. i} <=> g \in Handlers(list) \/ g = Order[i]
    <3>1. \A g : g \in Handlers(list) <=> \E k \in 1 .. i - 1 : g = Order[k] BY <2>3
    <3>2. \A g : g \in {Order[k] : k \in 1 .. i} <=> \E k \in 1 .. i : g = Order[k] OBVIOUS
    <3>3. \A g : (\E k \in 1 .. i : g = Order[k]) <=> (\E k \in 1 .. i - 1 : g = Order[k]) \/ g = Order[i]
      BY <2>2, Zenon
    <3> QED BY <3>1, <3>2, <3>3, Zenon
  <2>5. Handlers(L) = Handlers(list) \union {Order[i]} BY <1>1, <1>11
  <2> QED BY <2>4, <2>5
<1>15. Started(L, i, lft) BY <1>11, <1>12, <1>13, <1>14 DEF Started
<1> QED BY <1>1, <1>2, <1>6, <1>15

LEMMA AllStarted ==
    ASSUME TimeoutConstants, NEW lft \in [Timers -> Int], \A h \in Cyclic : lft[h] = Interval[h]
    PROVE  Started(Listed[Len(Order)], Len(Order), lft)
<1>1. PICK n \in Nat : n = Len(Order) BY DEF TimeoutConstants
<1>2. Listed[0] = <<>>
      /\ \A i \in 1 .. n : Listed[i] = Inserted(Listed[i - 1], Order[i], Interval[Order[i]], 0)
  BY <1>1, ListedIs
<1> DEFINE S == {k \in 0 .. n : ~Started(Listed[k], k, lft)}
<1>3. S = {}
  <2> SUFFICES ASSUME S # {} PROVE FALSE OBVIOUS
  <2>1. S \in SUBSET Nat OBVIOUS
  <2>2. PICK k \in S : \A j \in S : k <= j
    <3> HIDE DEF S
    <3> QED BY <2>1, SmallestElement
  <2>3. k # 0
    <3>1. PICK e : e = Listed[0] OBVIOUS
    <3>2. e = <<>> /\ e \in Seq(Timeouts) /\ Len(e) = 0 BY <1>2, <3>1
    <3>3. 1 .. Len(e) = {} /\ 1 .. 0 = {} BY <3>2
    <3>4. NoTwice(e) /\ Handlers(e) = {} /\ OnTime(e, lft, {}, 0)
      BY <3>3 DEF NoTwice, Handlers, OnTime
    <3>5. Started(e, 0, lft) BY <3>2, <3>3, <3>4 DEF Started
    <3> QED BY <2>2, <3>1, <3>5
  <2>4. k \in 1 .. n /\ k - 1 \in 0 .. n /\ k - 1 \notin S
    <3>1. k \in 0 .. n BY <2>2
    <3> HIDE DEF S
    <3>2. k \in 1 .. n /\ k - 1 \in 0 .. n /\ ~(k <= k - 1) BY <2>3, <3>1
    <3> QED BY <2>2, <3>2
  <2>5. Started(Listed[k - 1], k - 1, lft) BY <2>4
  <2>6. PICK list : list = Listed[k - 1] OBVIOUS
  <2>7. Started(Inserted(list, Order[k], Interval[Order[k]], 0), k, lft)
    BY <1>1, <2>4, <2>5, <2>6, StartedNext
  <2>8. Started(Listed[k], k, lft) BY <1>2, <2>4, <2>6, <2>7
  <2> QED BY <2>2, <2>8
<1>4. n \in 0 .. n OBVIOUS
<1> QED BY <1>1, <1>3, <1>4

LEMMA InitStep ==
    ASSUME TimeoutConstants, Init PROVE IInv
<1>1. Wrap \in Nat /\ Wrap > 2 /\ \A h \in Timers : Interval[h] \in Nat /\ 2 * Interval[h] < Wrap
  BY Intervals
<1>2. /\ now = 0 /\ timeouts_last_time = 0 /\ cut = {} /\ next_timeout = Listed[Len(Order)]
      /\ left = [h \in Timers |-> IF h = Tcp THEN 0 ELSE Interval[h]]
      /\ tcpip_tcp_timer_active = FALSE /\ connections = FALSE
      /\ pc = "fetch" /\ sleep = 0 /\ diff = 0 /\ tmp = None /\ rest = None /\ lag = 0
  BY DEF Init
<1>3. left \in [Timers -> Int] /\ \A h \in Cyclic : left[h] = Interval[h]
  <2>1. \A h \in Timers : (IF h = Tcp THEN 0 ELSE Interval[h]) \in Int BY <1>1
  <2>2. Tcp \notin Cyclic BY DEF TimeoutConstants
  <2> QED BY <1>2, <2>1, <2>2 DEF Timers
<1>4. PICK lft \in [Timers -> Int] : lft = left BY <1>3
<1>5. Started(next_timeout, Len(Order), lft) BY <1>2, <1>3, <1>4, AllStarted
<1>6. 0 \in Times BY <1>1 DEF Times
<1>7. TypeInv
  <2>1. lag \in 0 .. MaxLag BY <1>2 DEF TimeoutConstants
  <2>2. pc \in ThreadPCs BY <1>2 DEF ThreadPCs
  <2>3. next_timeout \in Seq(Timeouts) BY <1>5 DEF Started
  <2> QED BY <1>2, <1>3, <1>6, <2>1, <2>2, <2>3 DEF TypeInv
<1>8. Handlers(next_timeout) = Cyclic
  <2>1. Order \in Seq(Cyclic) /\ \A h \in Cyclic : \E i \in DOMAIN Order : Order[i] = h
    BY DEF TimeoutConstants
  <2>2. DOMAIN Order = 1 .. Len(Order) /\ \A i \in 1 .. Len(Order) : Order[i] \in Cyclic BY <2>1
  <2>3. {Order[k] : k \in 1 .. Len(Order)} = Cyclic BY <2>1, <2>2
  <2> QED BY <1>5, <2>3 DEF Started
<1>9. KeptInv
  <2>1. Handling = {} BY <1>2 DEF Handling
  <2>2. Tcp \notin Cyclic BY DEF TimeoutConstants
  <2>3. NoTwice(next_timeout) BY <1>5 DEF Started
  <2> QED BY <1>2, <1>8, <2>1, <2>2, <2>3 DEF KeptInv
<1>10. ThreadInv BY <1>2 DEF ThreadInv
<1>11. Late = 0
  <2>1. now \in Times /\ timeouts_last_time \in Times BY <1>2, <1>6
  <2>2. Since(timeouts_last_time) = IF now >= timeouts_last_time THEN now - timeouts_last_time
                                    ELSE now - timeouts_last_time + Wrap
    BY <2>1, SinceIs
  <2>3. Late = 0 - 0 BY <1>2, <2>2 DEF Late
  <2> QED BY <2>3
<1>12. ClockInv
  <2>1. ASSUME NEW h \in Timers PROVE Late + Interval[h] < Wrap
    <3>1. PICK i \in Nat : i = Interval[h] /\ 2 * i < Wrap BY <1>1
    <3>2. 0 + i < Wrap BY <1>1, <3>1, LessThanHalf
    <3> QED BY <1>11, <3>1, <3>2
  <2> QED BY <1>2, <2>1 DEF ClockInv
<1>13. DueInv
  <2>1. Unlinked = 0 BY <1>2 DEF Unlinked
  <2>2. Late + Unlinked = 0 BY <1>11, <2>1
  <2>3. OnTime(next_timeout, lft, {}, 0) BY <1>5 DEF Started
  <2> QED BY <1>2, <1>4, <2>2, <2>3 DEF DueInv
<1>14. NotEarly BY <1>2 DEF NotEarly
<1> QED BY <1>7, <1>9, <1>10, <1>12, <1>13, <1>14 DEF IInv
-----------------------------------------------------------------------------
(* The theorems *)

LEMMA NextStep ==
    ASSUME TimeoutConstants, ~Overlap, IInv, [Next]_vars PROVE IInv'
<1>1. CASE Connect BY <1>1, ConnectStep
<1>2. CASE Abort
  <2>1. connections' \in BOOLEAN /\ UNCHANGED <<listVars, tcpip_tcp_timer_active, threadVars, timeVars>>
    BY <1>2 DEF Abort
  <2> QED BY <2>1, ConnectionsStep
<1>3. CASE Message BY <1>3, AwakeStep
<1>4. CASE Fetch BY <1>4, FetchStep
<1>5. CASE TimeOut BY <1>5, AwakeStep
<1>6. CASE HandleMessage BY <1>6, HandleMessageStep
<1>7. CASE Check BY <1>7, CheckStep
<1>8. CASE NextTimeout BY <1>8, NextTimeoutStep
<1>9. CASE Elapse BY <1>9, ElapseStep
<1>10. CASE Unlink BY <1>10, UnlinkStep
<1>11. CASE StoreNext BY <1>11, StoreNextStep
<1>12. CASE HandleCyclic BY <1>12, HandleCyclicStep
<1>13. CASE HandleTcp BY <1>13, HandleTcpStep
<1>14. CASE Tick BY <1>14, TickStep
<1>15. CASE UNCHANGED vars
  <2>1. connections' = connections
        /\ UNCHANGED <<listVars, tcpip_tcp_timer_active, threadVars, timeVars>>
    BY <1>15 DEF vars, tcpVars
  <2>2. connections \in BOOLEAN BY DEF IInv, TypeInv
  <2> QED BY <2>1, <2>2, ConnectionsStep
<1> QED
  BY <1>1, <1>2, <1>3, <1>4, <1>5, <1>6, <1>7, <1>8, <1>9, <1>10, <1>11, <1>12, <1>13, <1>14, <1>15
  DEF Next, Thread

LEMMA InvariantKeeps ==
    ASSUME TimeoutConstants, IInv PROVE TimersKept
<1>1. TypeInv /\ KeptInv BY DEF IInv
<1>2. TypeOK
  <2>1. {now, timeouts_last_time} \subseteq 0 .. Wrap - 1 BY <1>1 DEF TypeInv, Times
  <2>2. next_timeout \in Seq([h : Timers, time : 0 .. Wrap - 1])
    BY <1>1 DEF TypeInv, Timeouts, Times
  <2>3. {tcpip_tcp_timer_active, connections} \subseteq BOOLEAN
        /\ pc \in ThreadPCs /\ {tmp, rest} \subseteq Timers \union {None}
    BY <1>1 DEF TypeInv
  <2>4. {sleep, diff} \subseteq 0 .. Wrap - 1 BY <1>1 DEF TypeInv, Times
  <2>5. lag \in 0 .. MaxLag /\ left \in [Timers -> Int] /\ cut \subseteq Timers BY <1>1 DEF TypeInv
  <2> QED BY <2>1, <2>2, <2>3, <2>4, <2>5 DEF TypeOK
<1>3. DOMAIN next_timeout = 1 .. Len(next_timeout) BY <1>1, Lengths
<1>4. \A h \in Cyclic : Scheduled(h)
  <2> SUFFICES ASSUME NEW h \in Cyclic PROVE Scheduled(h) OBVIOUS
  <2>1. h \in Handlers(next_timeout) \union Handling BY <1>1 DEF KeptInv
  <2> QED BY <1>1, <2>1, Holding
<1>5. Scheduled(Tcp) <=> tcpip_tcp_timer_active
  <2>1. Scheduled(Tcp) <=> Tcp \in Handlers(next_timeout) \union Handling BY <1>1, Holding
  <2>2. Tcp \in Handlers(next_timeout) \union Handling <=> tcpip_tcp_timer_active
    BY <1>1 DEF KeptInv
  <2> QED BY <2>1, <2>2
<1>6. \A i, j \in DOMAIN next_timeout : next_timeout[i].h = next_timeout[j].h => i = j
  BY <1>1, <1>3 DEF KeptInv, NoTwice
<1>7. pc = "handle" => \A i \in DOMAIN next_timeout : next_timeout[i].h # tmp
  <2> SUFFICES ASSUME pc = "handle", NEW i \in DOMAIN next_timeout PROVE next_timeout[i].h # tmp
    OBVIOUS
  <2>1. next_timeout[i].h \in Handlers(next_timeout) BY <1>3 DEF Handlers
  <2>2. Handling = {tmp} BY DEF Handling
  <2>3. tmp \notin Handlers(next_timeout) BY <1>1, <2>2 DEF KeptInv
  <2> QED BY <2>1, <2>3
<1> QED BY <1>2, <1>4, <1>5, <1>6, <1>7 DEF TimersKept

\* While no task starts the TCP timer as the thread unlinks a timeout: the TCP
\* timer is in the list, or in its handler, exactly while
\* tcpip_tcp_timer_active is set, a cyclic timer always is, and no timer is
\* twice; no time in the list is negative (sys_timeout, sys_check_timeouts,
\* tcp_timer_needed, tcpip_tcp_timer and cyclic_timer).
THEOREM TimersAreKept ==
    ASSUME ~Overlap PROVE Spec => []TimersKept
<1>1. Init => IInv BY TimeoutConstants, InitStep
<1>2. IInv /\ [Next]_vars => IInv' BY TimeoutConstants, NextStep
<1>3. IInv => TimersKept BY TimeoutConstants, InvariantKeeps
<1> QED BY <1>1, <1>2, <1>3, PTL DEF Spec

\* Under the same condition no handler runs before its time, wherever
\* sys_timeout puts its timeout and however the clock wraps, but one that was
\* put in last when all others were due.
THEOREM NoTimerEarly ==
    ASSUME ~Overlap PROVE Spec => []NotEarly
<1>1. Init => IInv BY TimeoutConstants, InitStep
<1>2. IInv /\ [Next]_vars => IInv' BY TimeoutConstants, NextStep
<1>3. IInv => NotEarly BY DEF IInv
<1> QED BY <1>1, <1>2, <1>3, PTL DEF Spec
=============================================================================
