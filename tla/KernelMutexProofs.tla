------------------------- MODULE KernelMutexProofs -------------------------
(***************************************************************************)
(* Proofs about KernelMutex.  That what was inherited is returned and that *)
(* no give is lost holds for any tasks, priorities, mutexes and waits,     *)
(* nested ones too.  That holders inherit and that the right task runs     *)
(* holds where nobody waits for a mutex while holding one and the yields   *)
(* of xQueueGenericSend suffice (YieldsSuffice).                           *)
(***************************************************************************)
EXTENDS KernelMutex, FiniteSetTheorems, SequenceTheorems, TLAPS

Distinct(s) == \A i, j \in 1 .. Len(s) : s[i] = s[j] => i = j
Member(s, e) == \E i \in 1 .. Len(s) : s[i] = e
Waits(t, m) == Member(xTasksWaitingToReceive[m], t)

\* A task in a call does not hold the mutex it is to take.
CallInv ==
    \A t \in Tasks : pc[t] \in {"pass", "wait", "disinherit"} =>
        wants[t] \in Takes[t] /\ pxMutexHolder[wants[t]] # t

\* A blocked task is in one event list, once.
QueueInv ==
    /\ \A m \in Mutexes : Distinct(xTasksWaitingToReceive[m])
    /\ \A t \in Tasks, m \in Mutexes : Waits(t, m) <=> state[t] = "blocked" /\ wants[t] = m
    /\ \A t \in Tasks : state[t] = "blocked" => pc[t] = "pass" /\ xTicksToWait[t] = "left"

RunningReady == state[pxCurrentTCB] = "ready"

ValueInv == xItemValue = uxPriority

BaseInv == PriorityReturned /\ CallInv /\ QueueInv /\ RunningReady /\ ValueInv

\* Where xQueueGenericSend yields whenever it must.  It looks at the task it
\* woke or, if there was none, at its own disinheritance: a giver that gives
\* up an inherited priority and wakes a task of no higher priority than its
\* own does not yield to the task it had inherited from.  That cannot happen
\* to a task below all it shares mutexes with, nor to one that inherits only
\* from tasks that wait until they are woken, and for one mutex at a time.
Shares(t, u) == Takes[t] \intersect Takes[u] # {}
BelowAll(t) == \A u \in Tasks \ {t} : Shares(t, u) => BasePriority[u] > BasePriority[t]
Above(t) == {u \in Tasks : Shares(t, u) /\ BasePriority[u] > BasePriority[t]}
YieldsSuffice ==
    \A t \in Tasks :
        \/ BelowAll(t)
        \/ /\ Above(t) \subseteq Patient
           /\ Above(t) = {} \/ MaxHeld = 1 \/ \A m, n \in Takes[t] : m = n

HoldInv ==
    \A t \in Tasks :
        /\ Held(t) \subseteq Takes[t]
        /\ pc[t] # "app" /\ xTicksToWait[t] # "none" => Held(t) = {}
        /\ MaxHeld = 1 => /\ \A m, n \in Held(t) : m = n
                          /\ pc[t] # "app" => Held(t) = {}

Sorted(s) ==
    \A i, j \in 1 .. Len(s) : i < j => BasePriority[s[i]] >= BasePriority[s[j]]
SortedInv == \A m \in Mutexes : Sorted(xTasksWaitingToReceive[m])

Taker(u, m) == state[u] = "ready" /\ wants[u] = m /\ pc[u] \in {"pass", "wait"}

\* A free mutex with waiters is about to be taken, or wanted, by a task of no
\* lower priority than theirs.
FreeInv ==
    \A m \in Mutexes :
        pxMutexHolder[m] = NULL /\ xTasksWaitingToReceive[m] # << >> =>
            \E u \in Tasks : /\ Taker(u, m)
                             /\ \A t \in Tasks : Waits(t, m) => BasePriority[t] <= BasePriority[u]

\* A priority inherited from patient tasks is that of one that still waits.
LendInv ==
    \A t \in Tasks :
        \/ uxPriority[t] = BasePriority[t]
        \/ \E m \in Held(t), u \in Tasks : Waits(u, m) /\ BasePriority[u] >= uxPriority[t]
        \/ BelowAll(t)

PrioInv ==
    HoldInv /\ SortedInv /\ FreeInv /\ LendInv /\ HolderInherits /\ HighestPriorityRuns
-----------------------------------------------------------------------------
(* Sequences *)

LEMMA InsertAtElements ==
    ASSUME NEW S, NEW s \in Seq(S), NEW e \in S, NEW k \in 1 .. Len(s) + 1
    PROVE  /\ InsertAt(s, k, e) \in Seq(S)
           /\ Len(InsertAt(s, k, e)) = Len(s) + 1
           /\ \A i \in 1 .. Len(s) + 1 :
                InsertAt(s, k, e)[i] = IF i < k THEN s[i] ELSE IF i = k THEN e ELSE s[i - 1]
<1> DEFINE a == SubSeq(s, 1, k - 1)
           c == SubSeq(s, k, Len(s))
           ae == a \o <<e>>
<1>0. Len(s) \in Nat OBVIOUS
<1>1. a \in Seq(S) /\ Len(a) = k - 1 /\ \A i \in 1 .. k - 1 : a[i] = s[i]
  BY <1>0, SubSeqProperties
<1>2. /\ c \in Seq(S) /\ Len(c) = Len(s) - k + 1
      /\ \A i \in 1 .. Len(s) - k + 1 : c[i] = s[k + i - 1]
  BY <1>0, SubSeqProperties
<1>3. InsertAt(s, k, e) = ae \o c BY DEF InsertAt
<1> HIDE DEF a, c
<1>4. <<e>> \in Seq(S) /\ Len(<<e>>) = 1 /\ <<e>>[1] = e OBVIOUS
<1>5. ae \in Seq(S) /\ Len(ae) = k /\ \A i \in 1 .. k : ae[i] = IF i < k THEN s[i] ELSE e
  BY <1>1, <1>4, ConcatProperties
<1> HIDE DEF ae
<1>6. /\ ae \o c \in Seq(S) /\ Len(ae \o c) = Len(ae) + Len(c)
      /\ \A i \in 1 .. Len(ae) + Len(c) :
           (ae \o c)[i] = IF i <= Len(ae) THEN ae[i] ELSE c[i - Len(ae)]
  BY <1>2, <1>5, ConcatProperties
<1>7. Len(ae) + Len(c) = Len(s) + 1 BY <1>0, <1>2, <1>5
<1>8. ASSUME NEW i \in 1 .. Len(s) + 1
      PROVE  (ae \o c)[i] = IF i < k THEN s[i] ELSE IF i = k THEN e ELSE s[i - 1]
  <2>1. (ae \o c)[i] = IF i <= k THEN ae[i] ELSE c[i - k] BY <1>5, <1>6, <1>7
  <2>2. CASE i <= k BY <1>0, <1>5, <2>1, <2>2
  <2>3. CASE i > k
    <3>1. i - k \in 1 .. Len(s) - k + 1 /\ k + (i - k) - 1 = i - 1 BY <1>0, <2>3
    <3>2. c[i - k] = s[i - 1] BY <1>2, <3>1
    <3> QED BY <1>0, <2>1, <2>3, <3>2
  <2>4. i <= k \/ i > k BY <1>0
  <2> QED BY <2>2, <2>3, <2>4, Zenon
<1> QED BY <1>3, <1>6, <1>7, <1>8

LEMMA RemoveAtElements ==
    ASSUME NEW S, NEW s \in Seq(S), NEW k \in 1 .. Len(s)
    PROVE  /\ RemoveAt(s, k) \in Seq(S)
           /\ Len(RemoveAt(s, k)) = Len(s) - 1
           /\ \A i \in 1 .. Len(s) - 1 : RemoveAt(s, k)[i] = IF i < k THEN s[i] ELSE s[i + 1]
<1> DEFINE a == SubSeq(s, 1, k - 1)
           c == SubSeq(s, k + 1, Len(s))
<1>0. Len(s) \in Nat OBVIOUS
<1>1. a \in Seq(S) /\ Len(a) = k - 1 /\ \A i \in 1 .. k - 1 : a[i] = s[i]
  BY <1>0, SubSeqProperties
<1>2. c \in Seq(S) /\ Len(c) = Len(s) - k /\ \A i \in 1 .. Len(s) - k : c[i] = s[k + i]
  BY <1>0, SubSeqProperties
<1>3. RemoveAt(s, k) = a \o c BY DEF RemoveAt
<1> HIDE DEF a, c
<1>4. /\ a \o c \in Seq(S) /\ Len(a \o c) = Len(a) + Len(c)
      /\ \A i \in 1 .. Len(a) + Len(c) : (a \o c)[i] = IF i <= Len(a) THEN a[i] ELSE c[i - Len(a)]
  BY <1>1, <1>2, ConcatProperties
<1>5. Len(a) + Len(c) = Len(s) - 1 BY <1>0, <1>1, <1>2
<1>6. ASSUME NEW i \in 1 .. Len(s) - 1
      PROVE  (a \o c)[i] = IF i < k THEN s[i] ELSE s[i + 1]
  <2>1. (a \o c)[i] = IF i <= k - 1 THEN a[i] ELSE c[i - (k - 1)] BY <1>1, <1>4, <1>5
  <2>2. CASE i < k BY <1>0, <1>1, <2>1, <2>2
  <2>3. CASE i >= k
    <3>1. i - (k - 1) \in 1 .. Len(s) - k /\ k + (i - (k - 1)) = i + 1 BY <1>0, <2>3
    <3>2. c[i - (k - 1)] = s[i + 1] BY <1>2, <3>1
    <3> QED BY <1>0, <2>1, <2>3, <3>2
  <2>4. i < k \/ i >= k BY <1>0
  <2> QED BY <2>2, <2>3, <2>4, Zenon
<1> QED BY <1>3, <1>4, <1>5, <1>6

LEMMA InsertKeeps ==
    ASSUME NEW S, NEW s \in Seq(S), NEW e \in S, NEW k \in 1 .. Len(s) + 1,
           Distinct(s), ~Member(s, e)
    PROVE  /\ Distinct(InsertAt(s, k, e))
           /\ \A x : Member(InsertAt(s, k, e), x) <=> (Member(s, x) \/ x = e)
<1> DEFINE r == InsertAt(s, k, e)
<1>0. Len(s) \in Nat OBVIOUS
<1>1. /\ Len(r) = Len(s) + 1
      /\ \A i \in 1 .. Len(s) + 1 : r[i] = IF i < k THEN s[i] ELSE IF i = k THEN e ELSE s[i - 1]
  BY InsertAtElements
<1> HIDE DEF r
<1>2. \A i \in 1 .. Len(s) : s[i] # e BY DEF Member
<1>3. ASSUME NEW i \in 1 .. Len(r), NEW j \in 1 .. Len(r), r[i] = r[j] PROVE i = j
  <2>1. r[i] = IF i < k THEN s[i] ELSE IF i = k THEN e ELSE s[i - 1] BY <1>1
  <2>2. r[j] = IF j < k THEN s[j] ELSE IF j = k THEN e ELSE s[j - 1] BY <1>1
  <2>3. i # k => (IF i < k THEN i ELSE i - 1) \in 1 .. Len(s) BY <1>0, <1>1
  <2>4. j # k => (IF j < k THEN j ELSE j - 1) \in 1 .. Len(s) BY <1>0, <1>1
  <2>5. CASE i = k \/ j = k
    <3>1. ASSUME i = k, j # k PROVE FALSE
      <4>1. ~(k < k) BY <1>0
      <4>2. s[IF j < k THEN j ELSE j - 1] = e BY <1>3, <2>1, <2>2, <3>1, <4>1
      <4> QED BY <1>2, <2>4, <3>1, <4>2
    <3>2. ASSUME i # k, j = k PROVE FALSE
      <4>1. ~(k < k) BY <1>0
      <4>2. s[IF i < k THEN i ELSE i - 1] = e BY <1>3, <2>1, <2>2, <3>2, <4>1
      <4> QED BY <1>2, <2>3, <3>2, <4>2
    <3> QED BY <2>5, <3>1, <3>2
  <2>6. CASE i # k /\ j # k
    <3>1. s[IF i < k THEN i ELSE i - 1] = s[IF j < k THEN j ELSE j - 1]
      BY <1>3, <2>1, <2>2, <2>6
    <3>2. (IF i < k THEN i ELSE i - 1) = (IF j < k THEN j ELSE j - 1)
      BY <2>3, <2>4, <2>6, <3>1 DEF Distinct
    <3> QED BY <1>0, <1>1, <2>6, <3>2
  <2> QED BY <2>5, <2>6
<1>4. ASSUME NEW x, Member(r, x) PROVE Member(s, x) \/ x = e
  <2>1. PICK i \in 1 .. Len(r) : r[i] = x BY <1>4 DEF Member
  <2>2. r[i] = IF i < k THEN s[i] ELSE IF i = k THEN e ELSE s[i - 1] BY <1>1
  <2>3. i # k => (IF i < k THEN i ELSE i - 1) \in 1 .. Len(s) BY <1>0, <1>1
  <2> QED BY <2>1, <2>2, <2>3 DEF Member
<1>5. ASSUME NEW x, Member(s, x) PROVE Member(r, x)
  <2>1. PICK i \in 1 .. Len(s) : s[i] = x BY <1>5 DEF Member
  <2>2. (IF i < k THEN i ELSE i + 1) \in 1 .. Len(r) BY <1>0, <1>1
  <2>3. r[IF i < k THEN i ELSE i + 1] = x BY <1>0, <1>1, <2>1, <2>2
  <2> QED BY <2>2, <2>3 DEF Member
<1>6. Member(r, e)
  <2>1. k \in 1 .. Len(r) /\ r[k] = e BY <1>0, <1>1
  <2> QED BY <2>1 DEF Member
<1> QED BY <1>3, <1>4, <1>5, <1>6 DEF Distinct, r

LEMMA RemoveKeeps ==
    ASSUME NEW S, NEW s \in Seq(S), NEW k \in 1 .. Len(s), Distinct(s)
    PROVE  /\ Distinct(RemoveAt(s, k))
           /\ \A x : Member(RemoveAt(s, k), x) <=> (Member(s, x) /\ x # s[k])
<1> DEFINE r == RemoveAt(s, k)
<1>0. Len(s) \in Nat OBVIOUS
<1>1. /\ Len(r) = Len(s) - 1
      /\ \A i \in 1 .. Len(s) - 1 : r[i] = IF i < k THEN s[i] ELSE s[i + 1]
  BY RemoveAtElements
<1> HIDE DEF r
<1>2. \A i \in 1 .. Len(r) : /\ (IF i < k THEN i ELSE i + 1) \in 1 .. Len(s)
                             /\ (IF i < k THEN i ELSE i + 1) # k
                             /\ r[i] = s[IF i < k THEN i ELSE i + 1]
  BY <1>0, <1>1
<1>3. ASSUME NEW i \in 1 .. Len(r), NEW j \in 1 .. Len(r), r[i] = r[j] PROVE i = j
  <2>1. (IF i < k THEN i ELSE i + 1) = (IF j < k THEN j ELSE j + 1)
    BY <1>2, <1>3 DEF Distinct
  <2> QED BY <1>0, <1>1, <2>1
<1>4. ASSUME NEW x, Member(r, x) PROVE Member(s, x) /\ x # s[k]
  <2>1. PICK i \in 1 .. Len(r) : r[i] = x BY <1>4 DEF Member
  <2> QED BY <1>2, <2>1 DEF Member, Distinct
<1>5. ASSUME NEW x, Member(s, x), x # s[k] PROVE Member(r, x)
  <2>1. PICK i \in 1 .. Len(s) : s[i] = x BY <1>5 DEF Member
  <2>2. (IF i < k THEN i ELSE i - 1) \in 1 .. Len(r) BY <1>0, <1>1, <1>5, <2>1
  <2>3. r[IF i < k THEN i ELSE i - 1] = x BY <1>0, <1>1, <1>5, <2>1, <2>2
  <2> QED BY <2>2, <2>3 DEF Member
<1> QED BY <1>3, <1>4, <1>5 DEF Distinct, r

LEMMA TailKeeps ==
    ASSUME NEW S, NEW s \in Seq(S), s # << >>, Distinct(s)
    PROVE  /\ Tail(s) \in Seq(S) /\ Distinct(Tail(s)) /\ Member(s, Head(s))
           /\ \A x : Member(Tail(s), x) <=> (Member(s, x) /\ x # Head(s))
<1>0. Len(s) \in Nat \ {0} /\ Head(s) = s[1] OBVIOUS
<1>1. /\ Tail(s) \in Seq(S) /\ Len(Tail(s)) = Len(s) - 1
      /\ \A i \in 1 .. Len(s) - 1 : Tail(s)[i] = s[i + 1]
  BY HeadTailProperties
<1> DEFINE r == Tail(s)
<1> HIDE DEF r
<1>2. \A i \in 1 .. Len(r) : i + 1 \in 1 .. Len(s) /\ i + 1 # 1 /\ r[i] = s[i + 1]
  BY <1>0, <1>1 DEF r
<1>3. ASSUME NEW i \in 1 .. Len(r), NEW j \in 1 .. Len(r), r[i] = r[j] PROVE i = j
  <2>1. i + 1 = j + 1 BY <1>2, <1>3 DEF Distinct
  <2> QED BY <1>0, <1>1, <2>1 DEF r
<1>4. ASSUME NEW x, Member(r, x) PROVE Member(s, x) /\ x # s[1]
  <2>1. PICK i \in 1 .. Len(r) : r[i] = x BY <1>4 DEF Member
  <2>2. 1 \in 1 .. Len(s) BY <1>0
  <2> QED BY <1>2, <2>1, <2>2 DEF Member, Distinct
<1>5. ASSUME NEW x, Member(s, x), x # s[1] PROVE Member(r, x)
  <2>1. PICK i \in 1 .. Len(s) : s[i] = x BY <1>5 DEF Member
  <2>2. i - 1 \in 1 .. Len(r) BY <1>0, <1>1, <1>5, <2>1 DEF r
  <2>3. r[i - 1] = x BY <1>0, <1>2, <2>1, <2>2
  <2> QED BY <2>2, <2>3 DEF Member
<1>6. Member(s, s[1])
  <2>1. 1 \in 1 .. Len(s) BY <1>0
  <2> QED BY <2>1 DEF Member
<1> QED BY <1>0, <1>1, <1>3, <1>4, <1>5, <1>6 DEF Distinct, r

LEMMA UpTo ==
    ASSUME NEW n \in Nat
    PROVE  IsFiniteSet(1 .. n) /\ Cardinality(1 .. n) = n
<1>1. 1 \in Int /\ n \in Int OBVIOUS
<1>2. /\ IsFiniteSet(1 .. n)
      /\ Cardinality(1 .. n) = IF 1 > n THEN 0 ELSE n - 1 + 1
  BY <1>1, FS_Interval, Zenon
<1> QED BY <1>2

\* Where vListInsert puts an item.
LEMMA Passed ==
    ASSUME NEW s \in Seq(Tasks), NEW t \in Tasks, xItemValue \in [Tasks -> Nat]
    PROVE  \E k \in 1 .. Len(s) + 1 :
              /\ InsertWaiting(s, t) = InsertAt(s, k, t)
              /\ \A i \in 1 .. k - 1 : xItemValue[s[i]] >= xItemValue[t]
              /\ k <= Len(s) => xItemValue[s[k]] < xItemValue[t]
<1> DEFINE P(i) == xItemValue[s[i]] >= xItemValue[t]
           passed == {i \in 1 .. Len(s) : \A j \in 1 .. i : P(j)}
           n == Cardinality(passed)
<1>0. Len(s) \in Nat /\ \A i \in 1 .. Len(s) : s[i] \in Tasks OBVIOUS
<1>1. IsFiniteSet(passed) /\ n \in Nat /\ n <= Len(s)
  <2>1. IsFiniteSet(1 .. Len(s)) /\ Cardinality(1 .. Len(s)) = Len(s) BY <1>0, UpTo, Zenon
  <2>2. passed \subseteq 1 .. Len(s) OBVIOUS
  <2>3. IsFiniteSet(passed) /\ n <= Len(s) BY <2>1, <2>2, FS_Subset, Zenon
  <2> QED BY <2>3, FS_CardinalityType
<1>2. \A i \in passed : 1 .. i \subseteq passed BY <1>0
<1>3. passed \subseteq 1 .. n
  <2> SUFFICES ASSUME NEW i \in passed PROVE i \in 1 .. n OBVIOUS
  <2>1. i \in Nat /\ i >= 1 /\ 1 .. i \subseteq passed BY <1>0, <1>2
  <2>2. Cardinality(1 .. i) = i BY <2>1, UpTo
  <2>3. i <= n BY <1>1, <2>1, <2>2, FS_Subset
  <2> HIDE DEF passed
  <2> QED BY <1>1, <2>1, <2>3
<1>4. passed = 1 .. n
  <2>1. IsFiniteSet(1 .. n) /\ Cardinality(1 .. n) = n BY <1>1, UpTo
  <2> QED BY <1>3, <2>1, FS_Subset
<1>5. \A i \in 1 .. n : P(i)
  <2> SUFFICES ASSUME NEW i \in 1 .. n PROVE P(i) OBVIOUS
  <2>1. i \in passed BY <1>4
  <2> QED BY <2>1
<1>6. n + 1 <= Len(s) => ~P(n + 1)
  <2> SUFFICES ASSUME n + 1 <= Len(s), P(n + 1) PROVE FALSE OBVIOUS
  <2>1. \A j \in 1 .. n + 1 : P(j) BY <1>1, <1>5
  <2>2. n + 1 \in passed
    <3>1. n + 1 \in 1 .. Len(s) BY <1>0, <1>1
    <3> HIDE DEF n, P
    <3> QED BY <2>1, <3>1
  <2>3. n + 1 \in 1 .. n BY <1>4, <2>2, Zenon
  <2> QED BY <1>1, <2>3
<1>7. InsertWaiting(s, t) = InsertAt(s, n + 1, t) BY DEF InsertWaiting
<1> HIDE DEF n, passed
<1>8. n + 1 \in 1 .. Len(s) + 1 /\ (n + 1) - 1 = n BY <1>0, <1>1
<1>9. n + 1 <= Len(s) => xItemValue[s[n + 1]] < xItemValue[t]
  <2> SUFFICES ASSUME n + 1 <= Len(s) PROVE xItemValue[s[n + 1]] < xItemValue[t] OBVIOUS
  <2>1. s[n + 1] \in Tasks BY <1>0, <1>8
  <2> QED BY <1>6, <2>1
<1> QED BY <1>5, <1>7, <1>8, <1>9

LEMMA InsertWaitingKeeps ==
    ASSUME NEW s \in Seq(Tasks), NEW t \in Tasks, xItemValue \in [Tasks -> Nat],
           Distinct(s), ~Member(s, t)
    PROVE  /\ InsertWaiting(s, t) \in Seq(Tasks) /\ Distinct(InsertWaiting(s, t))
           /\ \A x : Member(InsertWaiting(s, t), x) <=> (Member(s, x) \/ x = t)
<1>1. PICK k \in 1 .. Len(s) + 1 : InsertWaiting(s, t) = InsertAt(s, k, t) BY Passed
<1>2. InsertAt(s, k, t) \in Seq(Tasks) BY InsertAtElements
<1>3. /\ Distinct(InsertAt(s, k, t))
      /\ \A x : Member(InsertAt(s, k, t), x) <=> (Member(s, x) \/ x = t)
  BY InsertKeeps
<1> QED BY <1>1, <1>2, <1>3, Zenon

LEMMA UnlinkKeeps ==
    ASSUME NEW s \in Seq(Tasks), NEW t \in Tasks, Distinct(s), Member(s, t)
    PROVE  /\ Unlink(s, t) \in Seq(Tasks) /\ Distinct(Unlink(s, t))
           /\ \A x : Member(Unlink(s, t), x) <=> (Member(s, x) /\ x # t)
<1>1. PICK k \in 1 .. Len(s) : s[k] = t /\ Unlink(s, t) = RemoveAt(s, k)
  <2> DEFINE c == CHOOSE i \in 1 .. Len(s) : s[i] = t
  <2>1. c \in 1 .. Len(s) /\ s[c] = t BY Zenon DEF Member
  <2>2. Unlink(s, t) = RemoveAt(s, c) BY DEF Unlink
  <2> HIDE DEF c
  <2> QED BY <2>1, <2>2
<1>2. RemoveAt(s, k) \in Seq(Tasks) BY RemoveAtElements
<1>3. /\ Distinct(RemoveAt(s, k))
      /\ \A x : Member(RemoveAt(s, k), x) <=> (Member(s, x) /\ x # s[k])
  BY RemoveKeeps
<1> QED BY <1>1, <1>2, <1>3, Zenon

LEMMA EmptyList ==
    ASSUME NEW s \in Seq(Tasks)
    PROVE  /\ s # << >> => Member(s, Head(s)) /\ Head(s) \in Tasks
           /\ s = << >> => \A x : ~Member(s, x)
<1>1. ASSUME s # << >> PROVE Member(s, Head(s)) /\ Head(s) \in Tasks
  <2>1. 1 \in 1 .. Len(s) /\ Head(s) = s[1] BY <1>1
  <2> QED BY <2>1 DEF Member
<1>2. ASSUME s = << >>, NEW x, Member(s, x) PROVE FALSE
  <2>1. Len(s) = 0 BY <1>2
  <2> QED BY <1>2, <2>1 DEF Member
<1> QED BY <1>1, <1>2
-----------------------------------------------------------------------------
(* Types, and what was inherited *)

LEMMA PrioritiesNat ==
    /\ Priorities \subseteq Nat
    /\ \A t \in Tasks : BasePriority[t] \in Priorities /\ BasePriority[t] \in Nat
    /\ Idle \in Tasks
  BY MutexConstants DEF Priorities

LEMMA HeldFinite ==
    ASSUME NEW S \in SUBSET Mutexes
    PROVE  IsFiniteSet(S) /\ Cardinality(S) \in 0 .. Cardinality(Mutexes)
<1>1. IsFiniteSet(Mutexes) BY MutexConstants
<1>2. IsFiniteSet(S) /\ Cardinality(S) <= Cardinality(Mutexes) BY <1>1, FS_Subset
<1>3. Cardinality(S) \in Nat /\ Cardinality(Mutexes) \in Nat BY <1>1, <1>2, FS_CardinalityType
<1> QED BY <1>2, <1>3

\* Whose priority a step sets, and to what.
LEMMA SetPriorityType ==
    ASSUME NEW h \in Tasks, NEW p \in Priorities, SetPriority(h, p),
           uxPriority \in [Tasks -> Priorities], ValueInv
    PROVE  /\ uxPriority' \in [Tasks -> Priorities] /\ ValueInv'
           /\ \A t \in Tasks : uxPriority'[t] = IF t = h THEN p ELSE uxPriority[t]
  BY DEF SetPriority, ValueInv

\* What Disinherit makes of the holder's priority.
LEMMA DisinheritEffect ==
    ASSUME BaseInv, NEW t \in Tasks, Disinherit(t)
    PROVE  /\ uxPriority' \in [Tasks -> Priorities] /\ ValueInv'
           /\ \A u \in Tasks :
                \/ uxPriority'[u] = uxPriority[u]
                \/ /\ pxMutexHolder[wants[t]] = u /\ uxMutexesHeld[u] = 1
                   /\ uxPriority'[u] = Maximum(BasePriority[u], HighestWaiting(wants[t]))
                   /\ uxPriority'[u] >= BasePriority[u]
                   /\ uxPriority'[u] >= HighestWaiting(wants[t])
           /\ pxMutexHolder[wants[t]] # t /\ wants[t] \in Mutexes
<1> DEFINE m == wants[t]
           h == pxMutexHolder[m]
<1>0. TypeOK BY DEF BaseInv, PriorityReturned
<1>1. pc[t] = "disinherit" BY DEF Disinherit
<1>2. m \in Mutexes /\ h # t BY <1>1, MutexConstants DEF BaseInv, CallInv
<1>3. h = NULL \/ h \in Tasks BY <1>0, <1>2 DEF TypeOK
<1> HIDE DEF m, h
<1>4. xTasksWaitingToReceive[m] \in Seq(Tasks) BY <1>0, <1>2 DEF TypeOK
<1>5. HighestWaiting(m) \in Priorities
  <2>1. xItemValue \in [Tasks -> Priorities] BY <1>0 DEF TypeOK
  <2>2. xTasksWaitingToReceive[m] # << >> => Head(xTasksWaitingToReceive[m]) \in Tasks
    BY <1>4, EmptyList
  <2> QED BY <2>1, <2>2, PrioritiesNat DEF HighestWaiting
<1>6. uxPriority \in [Tasks -> Priorities] /\ ValueInv BY <1>0 DEF TypeOK, BaseInv
<1>7. CASE h = NULL \/ (uxPriority' = uxPriority /\ xItemValue' = xItemValue)
  <2>1. uxPriority' = uxPriority /\ xItemValue' = xItemValue
    BY <1>7 DEF Disinherit, m, h
  <2> QED BY <1>2, <1>6, <2>1 DEF ValueInv, m, h
<1>8. CASE h # NULL /\ ~(uxPriority' = uxPriority /\ xItemValue' = xItemValue)
  <2>1. h \in Tasks BY <1>3, <1>8
  <2> DEFINE p == Maximum(BasePriority[h], HighestWaiting(m))
  <2>2. uxMutexesHeld[h] = 1 /\ SetPriority(h, p)
    BY <1>8 DEF Disinherit, DisinheritAfterTimeout, m, h
  <2>3. p \in Priorities /\ p >= BasePriority[h] /\ p >= HighestWaiting(m)
    <3> DEFINE b == BasePriority[h]
               w == HighestWaiting(m)
    <3>1. b \in Priorities /\ b \in Nat BY <2>1, PrioritiesNat
    <3>2. w \in Priorities /\ w \in Nat BY <1>5, PrioritiesNat
    <3> HIDE DEF b, w
    <3>3. Maximum(b, w) \in Priorities /\ Maximum(b, w) >= b /\ Maximum(b, w) >= w
      BY <3>1, <3>2 DEF Maximum
    <3> QED BY <3>3 DEF b, w
  <2> HIDE DEF p
  <2>4. /\ uxPriority' \in [Tasks -> Priorities] /\ ValueInv'
        /\ \A u \in Tasks : uxPriority'[u] = IF u = h THEN p ELSE uxPriority[u]
    BY <1>6, <2>1, <2>2, <2>3, SetPriorityType
  <2>5. \A u \in Tasks :
          \/ uxPriority'[u] = uxPriority[u]
          \/ /\ h = u /\ uxMutexesHeld[u] = 1
             /\ uxPriority'[u] = p /\ p = Maximum(BasePriority[u], HighestWaiting(m))
             /\ uxPriority'[u] >= BasePriority[u]
             /\ uxPriority'[u] >= HighestWaiting(m)
    <3> SUFFICES ASSUME NEW u \in Tasks, u = h
                 PROVE  /\ uxPriority'[u] = p /\ p = Maximum(BasePriority[u], HighestWaiting(m))
                        /\ p >= BasePriority[u] /\ p >= HighestWaiting(m)
      BY <2>2, <2>4
    <3> QED BY <2>3, <2>4 DEF p
  <2>6. \A u \in Tasks :
          \/ uxPriority'[u] = uxPriority[u]
          \/ /\ h = u /\ uxMutexesHeld[u] = 1
             /\ uxPriority'[u] = Maximum(BasePriority[u], HighestWaiting(m))
             /\ uxPriority'[u] >= BasePriority[u]
             /\ uxPriority'[u] >= HighestWaiting(m)
    BY <2>5
  <2> QED BY <1>2, <2>4, <2>6, Zenon DEF m, h
<1> QED BY <1>7, <1>8

\* What Block makes of it.
LEMMA BlockEffect ==
    ASSUME BaseInv, NEW t \in Tasks, Block(t)
    PROVE  LET h == pxMutexHolder[wants[t]] IN
           /\ wants[t] \in Mutexes /\ h \in Tasks \ {t}
           /\ uxPriority' \in [Tasks -> Priorities] /\ ValueInv'
           /\ \A u \in Tasks : uxPriority'[u] = IF u = h /\ uxPriority[h] < uxPriority[t]
                                                 THEN uxPriority[t] ELSE uxPriority[u]
           /\ xInheritanceOccurred' \in [Tasks -> BOOLEAN]
<1> DEFINE m == wants[t]
           h == pxMutexHolder[m]
<1>0. TypeOK /\ ValueInv BY DEF BaseInv, PriorityReturned
<1>1. m \in Mutexes BY MutexConstants DEF BaseInv, CallInv, Block
<1>2. h \in Tasks \ {t} BY <1>0, <1>1 DEF TypeOK, Block, BaseInv, CallInv
<1> HIDE DEF m, h
<1>3. PriorityInherit(t, h) BY DEF Block, m, h
<1>4. uxPriority \in [Tasks -> Priorities] BY <1>0 DEF TypeOK
<1>5. /\ uxPriority' \in [Tasks -> Priorities] /\ ValueInv'
      /\ \A u \in Tasks : uxPriority'[u] = IF u = h /\ uxPriority[h] < uxPriority[t]
                                            THEN uxPriority[t] ELSE uxPriority[u]
  <2>1. CASE uxPriority[h] < uxPriority[t]
    <3>1. SetPriority(h, uxPriority[t]) BY <1>3, <2>1 DEF PriorityInherit
    <3>2. uxPriority[t] \in Priorities BY <1>4
    <3>3. /\ uxPriority' \in [Tasks -> Priorities] /\ ValueInv'
          /\ \A u \in Tasks : uxPriority'[u] = IF u = h THEN uxPriority[t] ELSE uxPriority[u]
      BY <1>0, <1>2, <1>4, <3>1, <3>2, SetPriorityType
    <3> QED BY <2>1, <3>3
  <2>2. CASE ~(uxPriority[h] < uxPriority[t])
    <3>1. uxPriority' = uxPriority /\ xItemValue' = xItemValue
      BY <1>3, <2>2 DEF PriorityInherit
    <3> QED BY <1>0, <1>4, <2>2, <3>1 DEF ValueInv
  <2> QED BY <2>1, <2>2
<1>6. xInheritanceOccurred' \in [Tasks -> BOOLEAN]
  <2>1. xInheritanceOccurred \in [Tasks -> BOOLEAN] BY <1>0 DEF TypeOK
  <2> QED BY <1>3, <2>1 DEF PriorityInherit
<1> QED BY <1>1, <1>2, <1>5, <1>6 DEF m, h

\* ... and Give, with the list it takes a task from.
LEMMA GiveEffect ==
    ASSUME BaseInv, NEW t \in Tasks, NEW m \in Mutexes, Give(t, m)
    PROVE  /\ uxPriority' \in [Tasks -> Priorities] /\ ValueInv'
           /\ \A u \in Tasks : u # t => uxPriority'[u] = uxPriority[u]
           /\ uxPriority'[t] = uxPriority[t] \/ uxPriority'[t] = BasePriority[t]
           /\ uxMutexesHeld[t] = 1 => uxPriority'[t] = BasePriority[t]
           /\ uxMutexesHeld[t] # 1 => uxPriority'[t] = uxPriority[t]
           /\ pxMutexHolder' = [pxMutexHolder EXCEPT ![m] = NULL]
           /\ Held(t)' = Held(t) \ {m} /\ m \in Held(t)
           /\ \A u \in Tasks : u # t => Held(u)' = Held(u)
           /\ uxMutexesHeld' = [uxMutexesHeld EXCEPT ![t] = @ - 1]
<1>0. TypeOK /\ ValueInv BY DEF BaseInv, PriorityReturned
<1>1. uxPriority \in [Tasks -> Priorities] BY <1>0 DEF TypeOK
<1>2. /\ uxPriority' \in [Tasks -> Priorities] /\ ValueInv'
      /\ \A u \in Tasks : u # t => uxPriority'[u] = uxPriority[u]
      /\ uxPriority'[t] = uxPriority[t] \/ uxPriority'[t] = BasePriority[t]
      /\ uxMutexesHeld[t] = 1 => uxPriority'[t] = BasePriority[t]
      /\ uxMutexesHeld[t] # 1 => uxPriority'[t] = uxPriority[t]
  <2>1. CASE Disinherits(t)
    <3>1. SetPriority(t, BasePriority[t]) BY <2>1 DEF Give
    <3>2. /\ uxPriority' \in [Tasks -> Priorities] /\ ValueInv'
          /\ \A u \in Tasks : uxPriority'[u] = IF u = t THEN BasePriority[t] ELSE uxPriority[u]
      BY <1>0, <1>1, <3>1, PrioritiesNat, SetPriorityType
    <3> QED BY <2>1, <3>2 DEF Disinherits
  <2>2. CASE ~Disinherits(t)
    <3>1. uxPriority' = uxPriority /\ xItemValue' = xItemValue BY <2>2 DEF Give
    <3> QED BY <1>0, <1>1, <2>2, <3>1 DEF ValueInv, Disinherits
  <2> QED BY <2>1, <2>2
<1>3. pxMutexHolder' = [pxMutexHolder EXCEPT ![m] = NULL] /\ pxMutexHolder[m] = t BY DEF Give
<1>4. /\ Held(t)' = Held(t) \ {m} /\ m \in Held(t)
      /\ \A u \in Tasks : u # t => Held(u)' = Held(u)
  <2>1. NULL \notin Tasks /\ pxMutexHolder \in [Mutexes -> Tasks \union {NULL}]
    BY <1>0, MutexConstants DEF TypeOK
  <2>2. \A n \in Mutexes : pxMutexHolder'[n] = IF n = m THEN NULL ELSE pxMutexHolder[n]
    BY <1>3, <2>1
  <2>3. Held(t)' = {n \in Mutexes : pxMutexHolder'[n] = t} BY DEF Held
  <2>4. Held(t)' = Held(t) \ {m}
    BY <2>1, <2>2, <2>3 DEF Held
  <2>5. ASSUME NEW u \in Tasks, u # t PROVE Held(u)' = Held(u)
    BY <1>3, <2>1, <2>2, <2>5 DEF Held
  <2> QED BY <1>3, <2>4, <2>5 DEF Held
<1> QED BY <1>2, <1>3, <1>4 DEF Give, OneHeldLess

\* The holders' counts.
LEMMA CountsStep ==
    ASSUME BaseInv, [Next]_vars
    PROVE  /\ pxMutexHolder' \in [Mutexes -> Tasks \union {NULL}]
           /\ uxMutexesHeld' \in [Tasks -> 0 .. Cardinality(Mutexes)]
           /\ \A t \in Tasks : uxMutexesHeld'[t] = Cardinality(Held(t)')
<1>0. /\ pxMutexHolder \in [Mutexes -> Tasks \union {NULL}]
      /\ uxMutexesHeld \in [Tasks -> 0 .. Cardinality(Mutexes)]
      /\ \A t \in Tasks : uxMutexesHeld[t] = Cardinality(Held(t))
  BY DEF BaseInv, PriorityReturned, TypeOK
<1>1. CASE UNCHANGED <<pxMutexHolder, uxMutexesHeld>> BY <1>0, <1>1 DEF Held
<1>2. ASSUME NEW t \in Tasks, Take(t)
      PROVE  /\ pxMutexHolder' \in [Mutexes -> Tasks \union {NULL}]
             /\ \A u \in Tasks : uxMutexesHeld'[u] = Cardinality(Held(u)')
  <2> DEFINE m == wants[t]
  <2>1. m \in Mutexes /\ pxMutexHolder[m] = NULL /\ NULL \notin Tasks
    BY <1>2, MutexConstants DEF Take, BaseInv, CallInv
  <2>2. pxMutexHolder' = [pxMutexHolder EXCEPT ![m] = t] BY <1>2 DEF Take
  <2> HIDE DEF m
  <2>3. \A n \in Mutexes : pxMutexHolder'[n] = IF n = m THEN t ELSE pxMutexHolder[n]
    BY <1>0, <2>2
  <2>4. ASSUME NEW u \in Tasks PROVE uxMutexesHeld'[u] = Cardinality(Held(u)')
    <3>1. Held(u)' = {n \in Mutexes : pxMutexHolder'[n] = u} BY DEF Held
    <3>2. CASE u = t
      <4>1. Held(u)' = Held(u) \union {m} /\ m \notin Held(u)
        BY <2>1, <2>3, <3>1, <3>2 DEF Held
      <4>2. IsFiniteSet(Held(u)) BY HeldFinite DEF Held
      <4>3. Cardinality(Held(u) \union {m}) = Cardinality(Held(u)) + 1
        BY <4>1, <4>2, FS_AddElement
      <4>4. Cardinality(Held(u)') = Cardinality(Held(u)) + 1 BY <4>1, <4>3, Zenon
      <4>5. uxMutexesHeld' = [uxMutexesHeld EXCEPT ![t] = @ + 1] BY <1>2 DEF Take
      <4> QED BY <1>0, <3>2, <4>4, <4>5
    <3>3. CASE u # t
      <4>1. Held(u)' = Held(u) BY <2>1, <2>3, <3>1, <3>3 DEF Held
      <4>2. uxMutexesHeld' = [uxMutexesHeld EXCEPT ![t] = @ + 1] BY <1>2 DEF Take
      <4>3. uxMutexesHeld'[u] = uxMutexesHeld[u] BY <1>0, <3>3, <4>2
      <4> QED BY <1>0, <4>1, <4>3, Zenon
    <3> QED BY <3>2, <3>3
  <2> QED BY <1>0, <2>2, <2>4
<1>3. ASSUME NEW t \in Tasks, NEW m \in Mutexes, Give(t, m)
      PROVE  /\ pxMutexHolder' \in [Mutexes -> Tasks \union {NULL}]
             /\ \A u \in Tasks : uxMutexesHeld'[u] = Cardinality(Held(u)')
  <2>1. /\ pxMutexHolder' = [pxMutexHolder EXCEPT ![m] = NULL]
        /\ Held(t)' = Held(t) \ {m} /\ m \in Held(t)
        /\ \A u \in Tasks : u # t => Held(u)' = Held(u)
        /\ uxMutexesHeld' = [uxMutexesHeld EXCEPT ![t] = @ - 1]
    BY <1>3, GiveEffect
  <2>2. ASSUME NEW u \in Tasks PROVE uxMutexesHeld'[u] = Cardinality(Held(u)')
    <3>1. CASE u = t
      <4>1. IsFiniteSet(Held(t)) BY HeldFinite DEF Held
      <4>2. Cardinality(Held(t) \ {m}) = Cardinality(Held(t)) - 1
        BY <2>1, <4>1, FS_RemoveElement
      <4>3. Cardinality(Held(t)') = Cardinality(Held(t)) - 1 BY <2>1, <4>2, Zenon
      <4> QED BY <1>0, <2>1, <3>1, <4>3
    <3>2. CASE u # t
      <4>1. Held(u)' = Held(u) BY <2>1, <3>2
      <4>2. uxMutexesHeld'[u] = uxMutexesHeld[u] BY <1>0, <2>1, <3>2
      <4> QED BY <1>0, <4>1, <4>2, Zenon
    <3> QED BY <3>1, <3>2
  <2> QED BY <1>0, <2>1, <2>2
<1>4. /\ pxMutexHolder' \in [Mutexes -> Tasks \union {NULL}]
      /\ \A u \in Tasks : uxMutexesHeld'[u] = Cardinality(Held(u)')
  <2>1. CASE UNCHANGED <<pxMutexHolder, uxMutexesHeld>> BY <1>1, <2>1
  <2>2. CASE ~UNCHANGED <<pxMutexHolder, uxMutexesHeld>>
    <3>1. \/ \E t \in Tasks : Take(t)
          \/ \E t \in Tasks, m \in Mutexes : Give(t, m)
      BY <2>2 DEF Next, Step, vars, mutexVars, prioVars, callVars, TimeSlice, Call, FindTaken,
                  Block, Retry, TimeOut, Disinherit, Delay, Tick
    <3> QED BY <1>2, <1>3, <3>1
  <2> QED BY <2>1, <2>2
<1>5. uxMutexesHeld' \in [Tasks -> 0 .. Cardinality(Mutexes)]
  <2>1. \E f : uxMutexesHeld' = f /\ DOMAIN f = Tasks /\ f = [u \in Tasks |-> f[u]]
    BY <1>0 DEF Next, Step, vars, mutexVars, prioVars, callVars, TimeSlice, Call, Take, FindTaken,
                  Block, Retry, TimeOut, Disinherit, Delay, Tick, Give
  <2>2. \A u \in Tasks : uxMutexesHeld'[u] \in 0 .. Cardinality(Mutexes)
    <3> SUFFICES ASSUME NEW u \in Tasks PROVE uxMutexesHeld'[u] \in 0 .. Cardinality(Mutexes)
      OBVIOUS
    <3>1. Held(u)' \in SUBSET Mutexes BY DEF Held
    <3>2. Cardinality(Held(u)') \in 0 .. Cardinality(Mutexes) BY <3>1, HeldFinite
    <3> QED BY <1>4, <3>2, Zenon
  <2> QED BY <2>1, <2>2
<1> QED BY <1>4, <1>5

\* The lists.
LEMMA ListsStep ==
    ASSUME BaseInv, [Next]_vars
    PROVE  /\ xTasksWaitingToReceive' \in [Mutexes -> Seq(Tasks)]
           /\ QueueInv'
<1> DEFINE q == xTasksWaitingToReceive
<1>0. /\ q \in [Mutexes -> Seq(Tasks)] /\ \A m \in Mutexes : Distinct(q[m])
      /\ \A u \in Tasks, m \in Mutexes : Member(q[m], u) <=> state[u] = "blocked" /\ wants[u] = m
      /\ \A u \in Tasks : state[u] = "blocked" => pc[u] = "pass" /\ xTicksToWait[u] = "left"
      /\ state \in [Tasks -> {"ready", "blocked", "delayed"}]
      /\ xItemValue \in [Tasks -> Nat]
      /\ pc \in [Tasks -> {"app", "pass", "wait", "disinherit", "asserted"}]
      /\ wants \in [Tasks -> Mutexes \union {NULL}]
      /\ xTicksToWait \in [Tasks -> {"left", "expired", "none"}]
      /\ pxCurrentTCB \in Tasks /\ state[pxCurrentTCB] = "ready"
  <2>1. xItemValue \in [Tasks -> Nat]
    BY PrioritiesNat DEF BaseInv, PriorityReturned, TypeOK
  <2> QED BY <2>1 DEF BaseInv, PriorityReturned, TypeOK, QueueInv, RunningReady, Waits
<1> DEFINE Goal == /\ q' \in [Mutexes -> Seq(Tasks)]
                   /\ \A m \in Mutexes : Distinct(q'[m])
                   /\ \A u \in Tasks, m \in Mutexes :
                        Member(q'[m], u) <=> state'[u] = "blocked" /\ wants'[u] = m
                   /\ \A u \in Tasks :
                        state'[u] = "blocked" => pc'[u] = "pass" /\ xTicksToWait'[u] = "left"
<1>1. ASSUME UNCHANGED q, NEW t \in Tasks, state[t] # "blocked", state'[t] # "blocked",
             \A u \in Tasks \ {t} : /\ state'[u] = state[u] /\ wants'[u] = wants[u]
                                   /\ pc'[u] = pc[u] /\ xTicksToWait'[u] = xTicksToWait[u]
      PROVE  Goal
  <2>1. q' \in [Mutexes -> Seq(Tasks)] /\ \A m \in Mutexes : Distinct(q'[m])
    BY <1>0, <1>1, Zenon
  <2>2. ASSUME NEW u \in Tasks, NEW m \in Mutexes
        PROVE  Member(q'[m], u) <=> state'[u] = "blocked" /\ wants'[u] = m
    <3>1. Member(q'[m], u) <=> Member(q[m], u) BY <1>1, Zenon
    <3>2. Member(q[m], u) <=> state[u] = "blocked" /\ wants[u] = m BY <1>0, Zenon
    <3>3. CASE u = t BY <1>1, <3>1, <3>2, <3>3, Zenon
    <3>4. CASE u # t BY <1>1, <3>1, <3>2, <3>4
    <3> QED BY <3>3, <3>4
  <2>3. ASSUME NEW u \in Tasks, state'[u] = "blocked"
        PROVE  pc'[u] = "pass" /\ xTicksToWait'[u] = "left"
    <3>1. u # t BY <1>1, <2>3
    <3> QED BY <1>0, <1>1, <2>3, <3>1, Zenon
  <2> QED BY <2>1, <2>2, <2>3
<1>2. ASSUME UNCHANGED q, UNCHANGED state, UNCHANGED wants, UNCHANGED pc, UNCHANGED xTicksToWait
      PROVE  Goal
  <2>1. q' \in [Mutexes -> Seq(Tasks)] /\ \A m \in Mutexes : Distinct(q'[m])
    BY <1>0, <1>2, Zenon
  <2>2. \A u \in Tasks, m \in Mutexes :
            Member(q'[m], u) <=> state'[u] = "blocked" /\ wants'[u] = m
    BY <1>0, <1>2, Zenon
  <2>3. \A u \in Tasks :
            state'[u] = "blocked" => pc'[u] = "pass" /\ xTicksToWait'[u] = "left"
    BY <1>0, <1>2
  <2> QED BY <2>1, <2>2, <2>3
<1>3. ASSUME NEW t \in Tasks, Tick(t) PROVE Goal
  <2>1. CASE state[t] = "delayed"
    <3>1. UNCHANGED <<q, wants, pc, xTicksToWait>> /\ state' = [state EXCEPT ![t] = "ready"]
      BY <1>3, <2>1 DEF Tick
    <3> QED BY <1>0, <1>1, <2>1, <3>1
  <2>2. CASE state[t] = "blocked"
    <3> DEFINE m == wants[t]
    <3>1. m \in Mutexes
      BY <1>0, <2>2, MutexConstants DEF BaseInv, CallInv
    <3>2. /\ q' = [q EXCEPT ![m] = Unlink(@, t)] /\ state' = [state EXCEPT ![t] = "ready"]
          /\ xTicksToWait' = [xTicksToWait EXCEPT ![t] = "expired"] /\ UNCHANGED <<wants, pc>>
      BY <1>3, <2>2 DEF Tick
    <3>3. Member(q[m], t) BY <1>0, <2>2, <3>1
    <3> HIDE DEF m
    <3>4. q[m] \in Seq(Tasks) /\ Distinct(q[m]) BY <1>0, <3>1
    <3>5. /\ Unlink(q[m], t) \in Seq(Tasks) /\ Distinct(Unlink(q[m], t))
          /\ \A x : Member(Unlink(q[m], t), x) <=> (Member(q[m], x) /\ x # t)
      BY <3>3, <3>4, UnlinkKeeps
    <3>6. \A n \in Mutexes : q'[n] = IF n = m THEN Unlink(q[m], t) ELSE q[n]
      BY <1>0, <3>1, <3>2
    <3>7. q' \in [Mutexes -> Seq(Tasks)] BY <1>0, <3>1, <3>2, <3>5
    <3>8. ASSUME NEW u \in Tasks, NEW n \in Mutexes
          PROVE  Member(q'[n], u) <=> state'[u] = "blocked" /\ wants'[u] = n
      <4>1. CASE u = t
        <5>1. state'[u] # "blocked" BY <1>0, <3>2, <4>1
        <5>2. ~Member(q'[n], u)
          <6>1. CASE n = m
            <7>1. q'[n] = Unlink(q[m], t) BY <3>6, <6>1
            <7> QED BY <3>5, <4>1, <7>1, Zenon
          <6>2. CASE n # m
            <7>1. q'[n] = q[n] BY <3>6, <6>2
            <7>2. wants[u] # n BY <4>1, <6>2 DEF m
            <7>3. Member(q[n], u) <=> state[u] = "blocked" /\ wants[u] = n BY <1>0, Zenon
            <7> QED BY <7>1, <7>2, <7>3, Zenon
          <6> QED BY <6>1, <6>2
        <5> QED BY <5>1, <5>2
      <4>2. CASE u # t
        <5>1. Member(q'[n], u) <=> Member(q[n], u)
          <6>1. CASE n = m
            <7>1. q'[n] = Unlink(q[m], t) BY <3>6, <6>1
            <7>2. Member(Unlink(q[m], t), u) <=> Member(q[m], u) BY <3>5, <4>2, Zenon
            <7> QED BY <6>1, <7>1, <7>2, Zenon
          <6>2. CASE n # m
            <7>1. q'[n] = q[n] BY <3>6, <6>2
            <7> QED BY <7>1, Zenon
          <6> QED BY <6>1, <6>2
        <5>2. state'[u] = state[u] /\ wants'[u] = wants[u] BY <1>0, <3>2, <4>2
        <5>3. Member(q[n], u) <=> state[u] = "blocked" /\ wants[u] = n BY <1>0, Zenon
        <5> QED BY <5>1, <5>2, <5>3, Zenon
      <4> QED BY <4>1, <4>2
    <3>9. \A n \in Mutexes : Distinct(q'[n])
      <4> SUFFICES ASSUME NEW n \in Mutexes PROVE Distinct(q'[n]) OBVIOUS
      <4>1. q'[n] = Unlink(q[m], t) \/ q'[n] = q[n] BY <3>6
      <4> QED BY <1>0, <3>5, <4>1, Zenon
    <3>10. \A u \in Tasks : state'[u] = "blocked" => pc'[u] = "pass" /\ xTicksToWait'[u] = "left"
      <4> SUFFICES ASSUME NEW u \in Tasks, state'[u] = "blocked"
                   PROVE  pc'[u] = "pass" /\ xTicksToWait'[u] = "left"
        OBVIOUS
      <4>1. u # t /\ state[u] = "blocked" BY <1>0, <3>2
      <4> QED BY <1>0, <3>2, <4>1
    <3> QED BY <3>7, <3>8, <3>9, <3>10
  <2> QED BY <1>3, <2>1, <2>2 DEF Tick
<1>4. ASSUME NEW t \in Tasks, Block(t) PROVE Goal
  <2> DEFINE m == wants[t]
  <2>1. m \in Mutexes BY <1>4, MutexConstants DEF Block, BaseInv, CallInv
  <2>2. /\ q' = [q EXCEPT ![m] = InsertWaiting(@, t)] /\ state' = [state EXCEPT ![t] = "blocked"]
        /\ pc' = [pc EXCEPT ![t] = "pass"] /\ UNCHANGED <<wants, xTicksToWait>>
        /\ xTicksToWait[t] = "left" /\ t = pxCurrentTCB
    BY <1>4 DEF Block, Running
  <2>3. state[t] = "ready" BY <1>0, <2>2
  <2>4. ~Member(q[m], t) BY <1>0, <2>1, <2>3
  <2> HIDE DEF m
  <2>5. q[m] \in Seq(Tasks) /\ Distinct(q[m]) BY <1>0, <2>1
  <2>6. /\ InsertWaiting(q[m], t) \in Seq(Tasks) /\ Distinct(InsertWaiting(q[m], t))
        /\ \A x : Member(InsertWaiting(q[m], t), x) <=> (Member(q[m], x) \/ x = t)
    BY <1>0, <2>4, <2>5, InsertWaitingKeeps
  <2>7. \A n \in Mutexes : q'[n] = IF n = m THEN InsertWaiting(q[m], t) ELSE q[n]
    BY <1>0, <2>1, <2>2
  <2>8. q' \in [Mutexes -> Seq(Tasks)] BY <1>0, <2>1, <2>2, <2>6
  <2>9. ASSUME NEW u \in Tasks, NEW n \in Mutexes
        PROVE  Member(q'[n], u) <=> state'[u] = "blocked" /\ wants'[u] = n
    <3>1. CASE u = t
      <4>1. state'[u] = "blocked" /\ wants'[u] = m BY <1>0, <2>2, <3>1 DEF m
      <4>2. n = m => Member(q'[n], u) BY <2>6, <2>7, <3>1
      <4>3. n # m => ~Member(q'[n], u) BY <1>0, <2>3, <2>7, <3>1
      <4> QED BY <4>1, <4>2, <4>3
    <3>2. CASE u # t
      <4>1. Member(q'[n], u) <=> Member(q[n], u)
        <5>1. CASE n = m
          <6>1. q'[n] = InsertWaiting(q[m], t) BY <2>7, <5>1
          <6>2. Member(InsertWaiting(q[m], t), u) <=> Member(q[m], u) BY <2>6, <3>2, Zenon
          <6> QED BY <5>1, <6>1, <6>2, Zenon
        <5>2. CASE n # m
          <6>1. q'[n] = q[n] BY <2>7, <5>2
          <6> QED BY <6>1, Zenon
        <5> QED BY <5>1, <5>2
      <4>2. state'[u] = state[u] /\ wants'[u] = wants[u] BY <1>0, <2>2, <3>2
      <4>3. Member(q[n], u) <=> state[u] = "blocked" /\ wants[u] = n BY <1>0, Zenon
      <4> QED BY <4>1, <4>2, <4>3, Zenon
    <3> QED BY <3>1, <3>2
  <2>10. \A n \in Mutexes : Distinct(q'[n])
    <3> SUFFICES ASSUME NEW n \in Mutexes PROVE Distinct(q'[n]) OBVIOUS
    <3>1. q'[n] = InsertWaiting(q[m], t) \/ q'[n] = q[n] BY <2>7
    <3> QED BY <1>0, <2>6, <3>1, Zenon
  <2>11. \A u \in Tasks : state'[u] = "blocked" => pc'[u] = "pass" /\ xTicksToWait'[u] = "left"
    <3> SUFFICES ASSUME NEW u \in Tasks, state'[u] = "blocked"
                 PROVE  pc'[u] = "pass" /\ xTicksToWait'[u] = "left"
      OBVIOUS
    <3>1. CASE u = t BY <1>0, <2>2, <3>1
    <3>2. CASE u # t
      <4>1. state[u] = "blocked" BY <1>0, <2>2, <3>2
      <4> QED BY <1>0, <2>2, <3>2, <4>1
    <3> QED BY <3>1, <3>2
  <2> QED BY <2>8, <2>9, <2>10, <2>11
<1>5. ASSUME NEW t \in Tasks, NEW m \in Mutexes, Give(t, m) PROVE Goal
  <2>0. q[m] \in Seq(Tasks) /\ Distinct(q[m]) BY <1>0
  <2>1. /\ q' = [q EXCEPT ![m] = IF Woken(m) = {} THEN @ ELSE Tail(@)]
        /\ state' = [u \in Tasks |-> IF u \in Woken(m) THEN "ready" ELSE state[u]]
        /\ UNCHANGED <<pc, wants, xTicksToWait>>
    BY <1>5 DEF Give, callVars
  <2>2. CASE q[m] = << >>
    <3>1. Woken(m) = {} BY <2>2 DEF Woken
    <3>2. q' = q /\ state' = state BY <1>0, <2>1, <3>1
    <3> QED BY <1>2, <2>1, <3>2
  <2>3. CASE q[m] # << >>
    <3> DEFINE w == Head(q[m])
    <3>1. /\ Tail(q[m]) \in Seq(Tasks) /\ Distinct(Tail(q[m])) /\ Member(q[m], w)
          /\ \A x : Member(Tail(q[m]), x) <=> (Member(q[m], x) /\ x # w)
      BY <2>0, <2>3, TailKeeps
    <3>2. w \in Tasks BY <2>0, <2>3, EmptyList
    <3>3. Woken(m) = {w} BY <2>3 DEF Woken
    <3> HIDE DEF w
    <3>4. q' = [q EXCEPT ![m] = Tail(@)]
      <4>1. Woken(m) # {} BY <3>3
      <4> QED BY <2>1, <4>1
    <3>5. state' = [state EXCEPT ![w] = "ready"] BY <1>0, <2>1, <3>2, <3>3
    <3>6. \A n \in Mutexes : q'[n] = IF n = m THEN Tail(q[m]) ELSE q[n] BY <1>0, <3>4
    <3>7. q' \in [Mutexes -> Seq(Tasks)] BY <1>0, <3>1, <3>4
    <3>8. wants[w] = m BY <1>0, <3>1, <3>2
    <3>9. ASSUME NEW u \in Tasks, NEW n \in Mutexes
          PROVE  Member(q'[n], u) <=> state'[u] = "blocked" /\ wants'[u] = n
      <4>1. CASE u = w
        <5>1. state'[u] # "blocked" BY <1>0, <3>2, <3>5, <4>1
        <5>2. ~Member(q'[n], u) BY <1>0, <3>1, <3>6, <3>8, <4>1
        <5> QED BY <5>1, <5>2
      <4>2. CASE u # w
        <5>1. Member(q'[n], u) <=> Member(q[n], u)
          <6>1. CASE n = m
            <7>1. q'[n] = Tail(q[m]) BY <3>6, <6>1
            <7>2. Member(Tail(q[m]), u) <=> Member(q[m], u) BY <3>1, <4>2, Zenon
            <7> QED BY <6>1, <7>1, <7>2, Zenon
          <6>2. CASE n # m
            <7>1. q'[n] = q[n] BY <3>6, <6>2
            <7> QED BY <7>1, Zenon
          <6> QED BY <6>1, <6>2
        <5>2. state'[u] = state[u] /\ wants'[u] = wants[u] BY <1>0, <2>1, <3>5, <4>2
        <5>3. Member(q[n], u) <=> state[u] = "blocked" /\ wants[u] = n BY <1>0, Zenon
        <5> QED BY <5>1, <5>2, <5>3, Zenon
      <4> QED BY <4>1, <4>2
    <3>10. \A n \in Mutexes : Distinct(q'[n])
      <4> SUFFICES ASSUME NEW n \in Mutexes PROVE Distinct(q'[n]) OBVIOUS
      <4>1. q'[n] = Tail(q[m]) \/ q'[n] = q[n] BY <3>6
      <4> QED BY <1>0, <3>1, <4>1, Zenon
    <3>11. \A u \in Tasks : state'[u] = "blocked" => pc'[u] = "pass" /\ xTicksToWait'[u] = "left"
      <4> SUFFICES ASSUME NEW u \in Tasks, state'[u] = "blocked"
                   PROVE  pc'[u] = "pass" /\ xTicksToWait'[u] = "left"
        OBVIOUS
      <4>1. state[u] = "blocked" BY <1>0, <3>2, <3>5
      <4> QED BY <1>0, <2>1, <4>1
    <3> QED BY <3>7, <3>9, <3>10, <3>11
  <2> QED BY <2>2, <2>3
<1>6. ASSUME NEW t \in Tasks,
             Call(t) \/ Take(t) \/ FindTaken(t) \/ Retry(t) \/ TimeOut(t) \/ Disinherit(t) \/ Delay(t)
      PROVE  Goal
  <2>1. t = pxCurrentTCB BY <1>6 DEF Call, Take, FindTaken, Retry, TimeOut, Disinherit, Delay, Running
  <2>2. state[t] # "blocked" BY <1>0, <2>1
  <2>3. UNCHANGED q BY <1>6 DEF Call, Take, FindTaken, Retry, TimeOut, Disinherit, Delay, mutexVars
  <2>4. UNCHANGED state \/ state' = [state EXCEPT ![t] = "delayed"]
    BY <1>6 DEF Call, Take, FindTaken, Retry, TimeOut, Disinherit, Delay
  <2>5. \A u \in Tasks \ {t} : pc'[u] = pc[u]
    BY <1>0, <1>6 DEF Call, Take, FindTaken, Retry, TimeOut, Disinherit, Delay, Return, callVars
  <2>6. \A u \in Tasks \ {t} : wants'[u] = wants[u]
    BY <1>0, <1>6 DEF Call, Take, FindTaken, Retry, TimeOut, Disinherit, Delay, Return, callVars
  <2>7. \A u \in Tasks \ {t} : xTicksToWait'[u] = xTicksToWait[u]
    BY <1>0, <1>6 DEF Call, Take, FindTaken, Retry, TimeOut, Disinherit, Delay, Return, callVars
  <2>8. state'[t] # "blocked" /\ \A u \in Tasks \ {t} : state'[u] = state[u]
    BY <1>0, <2>2, <2>4
  <2> QED BY <1>1, <2>2, <2>3, <2>5, <2>6, <2>7, <2>8
<1>7. Goal
  <2>1. CASE UNCHANGED vars BY <1>2, <2>1 DEF vars, mutexVars, callVars
  <2>2. CASE TimeSlice BY <1>2, <2>2 DEF TimeSlice, mutexVars, callVars
  <2> QED BY <1>3, <1>4, <1>5, <1>6, <2>1, <2>2 DEF Next, Step
<1> QED BY <1>7 DEF QueueInv, Waits

\* Which tasks a step moves between the lists, and who runs after it.
LEMMA StatesStep ==
    ASSUME BaseInv, [Next]_vars
    PROVE  /\ state' \in [Tasks -> {"ready", "blocked", "delayed"}]
           /\ pxCurrentTCB' \in Tasks /\ RunningReady'
           /\ \A u \in Tasks : state'[u] # state[u] =>
                \/ Running(u) /\ state[u] = "ready" /\ SwitchContext
                \/ ~Running(u) /\ state'[u] = "ready"
<1>0. /\ state \in [Tasks -> {"ready", "blocked", "delayed"}]
      /\ pxCurrentTCB \in Tasks /\ state[pxCurrentTCB] = "ready"
  BY DEF BaseInv, PriorityReturned, TypeOK, RunningReady
<1> DEFINE Kept == \A u \in Tasks : state'[u] # state[u] => u # pxCurrentTCB /\ state'[u] = "ready"
           Goal == /\ pxCurrentTCB' \in Tasks /\ state'[pxCurrentTCB'] = "ready"
                   /\ \A u \in Tasks : state'[u] # state[u] =>
                        \/ u = pxCurrentTCB /\ state[u] = "ready" /\ SwitchContext
                        \/ u # pxCurrentTCB /\ state'[u] = "ready"
<1>1. SwitchContext => pxCurrentTCB' \in Tasks /\ state'[pxCurrentTCB'] = "ready"
  BY DEF SwitchContext, HighestReady
<1>2. ASSUME Kept, NEW b, SwitchIf(b) PROVE Goal
  <2>1. state'[pxCurrentTCB] = "ready" BY <1>0, <1>2
  <2>2. SwitchContext \/ pxCurrentTCB' = pxCurrentTCB BY <1>2, Zenon DEF SwitchIf
  <2> QED BY <1>0, <1>1, <1>2, <2>1, <2>2
<1>3. ASSUME NEW t \in Tasks, Running(t), NEW s, state' = [state EXCEPT ![t] = s], SwitchContext
      PROVE  Goal
  BY <1>0, <1>1, <1>3 DEF Running
<1>4. ASSUME UNCHANGED <<state, pxCurrentTCB>> PROVE Goal BY <1>0, <1>4
<1>5. ASSUME NEW t \in Tasks, Tick(t) PROVE Goal
  <2>1. Kept BY <1>0, <1>5 DEF Tick
  <2> QED BY <1>2, <1>5, <2>1 DEF Tick
<1>6. ASSUME NEW t \in Tasks, NEW m \in Mutexes, Give(t, m) PROVE Goal
  <2>1. state' = [u \in Tasks |-> IF u \in Woken(m) THEN "ready" ELSE state[u]]
    BY <1>6 DEF Give
  <2>2. Kept BY <1>0, <2>1
  <2> QED BY <1>2, <1>6, <2>2 DEF Give
<1>7. ASSUME NEW t \in Tasks,
             Call(t) \/ Take(t) \/ FindTaken(t) \/ Retry(t) \/ TimeOut(t) \/ Disinherit(t)
      PROVE  Goal
  BY <1>4, <1>7 DEF Call, Take, FindTaken, Retry, TimeOut, Disinherit
<1>8. Goal
  <2>1. CASE UNCHANGED vars BY <1>4, <2>1 DEF vars
  <2>2. CASE TimeSlice BY <1>0, <1>1, <2>2 DEF TimeSlice
  <2>3. ASSUME NEW t \in Tasks, Block(t) \/ Delay(t) PROVE Goal
    BY <1>3, <2>3 DEF Block, Delay
  <2> QED BY <1>5, <1>6, <1>7, <2>1, <2>2, <2>3 DEF Next, Step
<1>9. state' \in [Tasks -> {"ready", "blocked", "delayed"}]
  <2>1. UNCHANGED state \/ (\E u \in Tasks : \/ state' = [state EXCEPT ![u] = "ready"]
                                             \/ state' = [state EXCEPT ![u] = "blocked"]
                                             \/ state' = [state EXCEPT ![u] = "delayed"])
        \/ \E m \in Mutexes : state' = [u \in Tasks |-> IF u \in Woken(m) THEN "ready" ELSE state[u]]
    BY DEF Next, Step, vars, TimeSlice, Call, Take, FindTaken, Block, Retry, TimeOut,
           Disinherit, Delay, Tick, Give
  <2> QED BY <1>0, <2>1
<1> QED BY <1>8, <1>9 DEF RunningReady, Running

\* The calls.
LEMMA CallsStep ==
    ASSUME BaseInv, [Next]_vars
    PROVE  /\ pc' \in [Tasks -> {"app", "pass", "wait", "disinherit", "asserted"}]
           /\ wants' \in [Tasks -> Mutexes \union {NULL}]
           /\ xTicksToWait' \in [Tasks -> {"left", "expired", "none"}]
           /\ xInheritanceOccurred' \in [Tasks -> BOOLEAN]
           /\ CallInv'
<1>0. TypeOK BY DEF BaseInv, PriorityReturned
<1>1. pc' \in [Tasks -> {"app", "pass", "wait", "disinherit", "asserted"}]
  <2>1. pc \in [Tasks -> {"app", "pass", "wait", "disinherit", "asserted"}] BY <1>0 DEF TypeOK
  <2> QED
    BY <2>1 DEF Next, Step, vars, callVars, TimeSlice, Call, Take, FindTaken, Block, Retry,
                TimeOut, Disinherit, Delay, Tick, Give, Return
<1>2. wants' \in [Tasks -> Mutexes \union {NULL}]
  <2>1. wants \in [Tasks -> Mutexes \union {NULL}] BY <1>0 DEF TypeOK
  <2>2. Takes \in [Tasks -> SUBSET Mutexes] BY MutexConstants
  <2> QED
    BY <2>1, <2>2 DEF Next, Step, vars, callVars, TimeSlice, Call, Take, FindTaken, Block, Retry,
                TimeOut, Disinherit, Delay, Tick, Give, Return
<1>3. xTicksToWait' \in [Tasks -> {"left", "expired", "none"}]
  <2>1. xTicksToWait \in [Tasks -> {"left", "expired", "none"}] BY <1>0 DEF TypeOK
  <2> QED
    BY <2>1 DEF Next, Step, vars, callVars, TimeSlice, Call, Take, FindTaken, Block, Retry,
                TimeOut, Disinherit, Delay, Tick, Give, Return
<1>4. xInheritanceOccurred' \in [Tasks -> BOOLEAN]
  <2>1. xInheritanceOccurred \in [Tasks -> BOOLEAN] BY <1>0 DEF TypeOK
  <2>2. CASE \E t \in Tasks : Block(t) BY <2>2, BlockEffect
  <2>3. CASE ~\E t \in Tasks : Block(t)
    BY <2>1, <2>3 DEF Next, Step, vars, callVars, TimeSlice, Call, Take, FindTaken, Retry,
                TimeOut, Disinherit, Delay, Tick, Give, Return
  <2> QED BY <2>2, <2>3
<1>5. CallInv'
  <2>0. /\ pxMutexHolder \in [Mutexes -> Tasks \union {NULL}]
        /\ pc \in [Tasks -> {"app", "pass", "wait", "disinherit", "asserted"}]
        /\ wants \in [Tasks -> Mutexes \union {NULL}]
        /\ Takes \in [Tasks -> SUBSET Mutexes] /\ NULL \notin Tasks
        /\ \A t \in Tasks : pc[t] \in {"pass", "wait", "disinherit"} =>
                wants[t] \in Takes[t] /\ pxMutexHolder[wants[t]] # t
    BY <1>0, MutexConstants DEF TypeOK, BaseInv, CallInv
  <2> SUFFICES ASSUME NEW u \in Tasks, pc'[u] \in {"pass", "wait", "disinherit"}
               PROVE  wants'[u] \in Takes[u] /\ pxMutexHolder'[wants'[u]] # u
    BY DEF CallInv
  <2>1. ASSUME UNCHANGED <<pxMutexHolder, wants>>, pc[u] \in {"pass", "wait", "disinherit"}
        PROVE  wants'[u] \in Takes[u] /\ pxMutexHolder'[wants'[u]] # u
    BY <2>0, <2>1
  <2>2. ASSUME NEW t \in Tasks, Call(t)
        PROVE  wants'[u] \in Takes[u] /\ pxMutexHolder'[wants'[u]] # u
    <3>1. PICK m \in Takes[t] \ Held(t) : wants' = [wants EXCEPT ![t] = m] BY <2>2 DEF Call
    <3>2. pxMutexHolder' = pxMutexHolder /\ pc' = [pc EXCEPT ![t] = "pass"]
      BY <2>2 DEF Call, mutexVars
    <3>3. CASE u = t BY <2>0, <3>1, <3>2, <3>3 DEF Held
    <3>4. CASE u # t BY <2>0, <3>1, <3>2, <3>4
    <3> QED BY <3>3, <3>4
  <2>3. ASSUME NEW t \in Tasks, Take(t)
        PROVE  wants'[u] \in Takes[u] /\ pxMutexHolder'[wants'[u]] # u
    BY <2>0, <2>3 DEF Take, Return
  <2>4. ASSUME NEW t \in Tasks, NEW m \in Mutexes, Give(t, m)
        PROVE  wants'[u] \in Takes[u] /\ pxMutexHolder'[wants'[u]] # u
    <3>1. pxMutexHolder' = [pxMutexHolder EXCEPT ![m] = NULL] /\ UNCHANGED <<pc, wants>>
      BY <2>4 DEF Give, callVars
    <3> QED BY <2>0, <3>1
  <2>5. ASSUME NEW t \in Tasks, FindTaken(t) \/ TimeOut(t) \/ Disinherit(t)
        PROVE  wants'[u] \in Takes[u] /\ pxMutexHolder'[wants'[u]] # u
    BY <2>0, <2>5 DEF FindTaken, TimeOut, Disinherit, Return, mutexVars
  <2>6. ASSUME NEW t \in Tasks, Block(t) \/ Retry(t) \/ Delay(t) \/ Tick(t)
        PROVE  wants'[u] \in Takes[u] /\ pxMutexHolder'[wants'[u]] # u
    BY <2>0, <2>1, <2>6 DEF Block, Retry, Delay, Tick, mutexVars, callVars
  <2>7. CASE UNCHANGED vars \/ TimeSlice
    BY <2>0, <2>1, <2>7 DEF vars, TimeSlice, mutexVars, callVars
  <2> QED BY <2>2, <2>3, <2>4, <2>5, <2>6, <2>7 DEF Next, Step
<1> QED BY <1>1, <1>2, <1>3, <1>4, <1>5

\* The priorities.
LEMMA PrioritiesStep ==
    ASSUME BaseInv, [Next]_vars
    PROVE  /\ uxPriority' \in [Tasks -> Priorities]
           /\ xItemValue' \in [Tasks -> Priorities]
           /\ ValueInv'
           /\ \A u \in Tasks : /\ uxPriority'[u] >= BasePriority[u]
                               /\ Held(u)' = {} => uxPriority'[u] = BasePriority[u]
<1>0. /\ TypeOK /\ ValueInv
      /\ uxPriority \in [Tasks -> Priorities]
      /\ \A u \in Tasks : /\ uxPriority[u] >= BasePriority[u]
                          /\ Held(u) = {} => uxPriority[u] = BasePriority[u]
                          /\ uxMutexesHeld[u] = Cardinality(Held(u))
  BY DEF BaseInv, PriorityReturned, TypeOK
<1> DEFINE Goal == /\ uxPriority' \in [Tasks -> Priorities] /\ ValueInv'
                   /\ \A u \in Tasks : /\ uxPriority'[u] >= BasePriority[u]
                                       /\ Held(u)' = {} => uxPriority'[u] = BasePriority[u]
<1>1. ASSUME UNCHANGED prioVars, UNCHANGED pxMutexHolder PROVE Goal
  <2>1. uxPriority' = uxPriority /\ xItemValue' = xItemValue BY <1>1 DEF prioVars
  <2>2. \A u \in Tasks : Held(u)' = Held(u) BY <1>1 DEF Held
  <2> QED BY <1>0, <2>1, <2>2 DEF ValueInv
<1>2. ASSUME NEW t \in Tasks, Take(t) PROVE Goal
  <2>1. uxPriority' = uxPriority /\ xItemValue' = xItemValue BY <1>2 DEF Take
  <2>2. ASSUME NEW u \in Tasks, Held(u)' = {} PROVE Held(u) = {}
    <3>1. pxMutexHolder' = [pxMutexHolder EXCEPT ![wants[t]] = t] BY <1>2 DEF Take
    <3>2. pxMutexHolder[wants[t]] = NULL /\ NULL \notin Tasks BY <1>2, MutexConstants DEF Take
    <3>3. pxMutexHolder \in [Mutexes -> Tasks \union {NULL}] BY <1>0 DEF TypeOK
    <3>4. \A n \in Mutexes : pxMutexHolder[n] = u => pxMutexHolder'[n] = u
      BY <3>1, <3>2, <3>3
    <3> QED BY <2>2, <3>4 DEF Held
  <2> QED BY <1>0, <2>1, <2>2 DEF ValueInv
<1>3. ASSUME NEW t \in Tasks, Block(t) PROVE Goal
  <2> DEFINE h == pxMutexHolder[wants[t]]
  <2>1. /\ wants[t] \in Mutexes /\ h \in Tasks \ {t}
        /\ uxPriority' \in [Tasks -> Priorities] /\ ValueInv'
        /\ \A u \in Tasks : uxPriority'[u] = IF u = h /\ uxPriority[h] < uxPriority[t]
                                              THEN uxPriority[t] ELSE uxPriority[u]
    BY <1>3, BlockEffect
  <2>2. pxMutexHolder' = pxMutexHolder BY <1>3 DEF Block
  <2>3. \A u \in Tasks : Held(u)' = Held(u) BY <2>2 DEF Held
  <2>4. Held(h) # {} BY <2>1 DEF Held
  <2> HIDE DEF h
  <2>5. ASSUME NEW u \in Tasks PROVE uxPriority'[u] >= BasePriority[u]
    <3>1. uxPriority[u] \in Nat /\ BasePriority[u] \in Nat /\ uxPriority[t] \in Nat
      BY <1>0, PrioritiesNat
    <3> QED BY <1>0, <2>1, <3>1
  <2>6. ASSUME NEW u \in Tasks, Held(u)' = {} PROVE uxPriority'[u] = BasePriority[u]
    BY <1>0, <2>1, <2>3, <2>4, <2>6
  <2> QED BY <2>1, <2>5, <2>6
<1>4. ASSUME NEW t \in Tasks, Disinherit(t) PROVE Goal
  <2>1. /\ uxPriority' \in [Tasks -> Priorities] /\ ValueInv'
        /\ wants[t] \in Mutexes
        /\ \A u \in Tasks :
             \/ uxPriority'[u] = uxPriority[u]
             \/ pxMutexHolder[wants[t]] = u /\ uxPriority'[u] >= BasePriority[u]
    BY <1>4, DisinheritEffect
  <2>2. pxMutexHolder' = pxMutexHolder BY <1>4 DEF Disinherit, mutexVars
  <2>3. \A u \in Tasks : Held(u)' = Held(u) BY <2>2 DEF Held
  <2>4. \A u \in Tasks : pxMutexHolder[wants[t]] = u => Held(u) # {} BY <2>1 DEF Held
  <2> QED BY <1>0, <2>1, <2>3, <2>4
<1>5. ASSUME NEW t \in Tasks, NEW m \in Mutexes, Give(t, m) PROVE Goal
  <2>1. /\ uxPriority' \in [Tasks -> Priorities] /\ ValueInv'
        /\ \A u \in Tasks : u # t => uxPriority'[u] = uxPriority[u]
        /\ uxPriority'[t] = uxPriority[t] \/ uxPriority'[t] = BasePriority[t]
        /\ uxMutexesHeld[t] = 1 => uxPriority'[t] = BasePriority[t]
        /\ Held(t)' = Held(t) \ {m} /\ m \in Held(t)
        /\ \A u \in Tasks : u # t => Held(u)' = Held(u)
    BY <1>5, GiveEffect
  <2>2. Held(t)' = {} => uxMutexesHeld[t] = 1
    <3> SUFFICES ASSUME Held(t)' = {} PROVE uxMutexesHeld[t] = 1 OBVIOUS
    <3>1. Held(t) = {m} BY <2>1
    <3>2. Cardinality({m}) = 1 BY FS_Singleton
    <3>3. Cardinality(Held(t)) = 1 BY <3>1, <3>2, Zenon
    <3> QED BY <1>0, <3>3
  <2>3. BasePriority[t] >= BasePriority[t] BY PrioritiesNat
  <2> QED BY <1>0, <2>1, <2>2, <2>3
<1>6. ASSUME NEW t \in Tasks,
             Call(t) \/ FindTaken(t) \/ Retry(t) \/ TimeOut(t) \/ Delay(t) \/ Tick(t)
      PROVE  Goal
  BY <1>1, <1>6 DEF Call, FindTaken, Retry, TimeOut, Delay, Tick, mutexVars
<1>7. ASSUME UNCHANGED vars \/ TimeSlice PROVE Goal
  <2>1. UNCHANGED prioVars /\ UNCHANGED mutexVars BY <1>7, Zenon DEF vars, TimeSlice
  <2>2. UNCHANGED pxMutexHolder BY <2>1 DEF mutexVars
  <2> QED BY <1>1, <2>1, <2>2
<1>8. Goal BY <1>2, <1>3, <1>4, <1>5, <1>6, <1>7 DEF Next, Step
<1> QED BY <1>8 DEF ValueInv

LEMMA BaseStep ==
    ASSUME BaseInv, [Next]_vars
    PROVE  BaseInv'
<1>1. TypeOK' BY CountsStep, ListsStep, StatesStep, CallsStep, PrioritiesStep DEF TypeOK
<1>2. PriorityReturned' BY <1>1, CountsStep, PrioritiesStep DEF PriorityReturned
<1> QED BY <1>2, ListsStep, StatesStep, CallsStep, PrioritiesStep DEF BaseInv

LEMMA BaseInit == Init => BaseInv
<1> SUFFICES ASSUME Init PROVE BaseInv OBVIOUS
<1>1. /\ pxMutexHolder = [m \in Mutexes |-> NULL]
      /\ xTasksWaitingToReceive = [m \in Mutexes |-> << >>]
      /\ uxPriority = BasePriority /\ xItemValue = BasePriority
      /\ uxMutexesHeld = [t \in Tasks |-> 0]
      /\ state = [t \in Tasks |-> "ready"] /\ pc = [t \in Tasks |-> "app"]
      /\ pxCurrentTCB \in Tasks
  BY DEF Init
<1>2. NULL \notin Tasks BY MutexConstants
<1>3. \A t \in Tasks : Held(t) = {} BY <1>1, <1>2 DEF Held
<1>4. Cardinality({}) = 0 /\ 0 \in 0 .. Cardinality(Mutexes)
  <2>1. {} \in SUBSET Mutexes OBVIOUS
  <2>2. Cardinality({}) \in 0 .. Cardinality(Mutexes) BY <2>1, HeldFinite
  <2> QED BY <2>2, FS_EmptySet
<1>5. \A s \in Seq(Tasks) : s = << >> => Distinct(s) /\ \A x : ~Member(s, x)
  BY DEF Distinct, Member
<1>6. << >> \in Seq(Tasks) OBVIOUS
<1>7. QueueInv BY <1>1, <1>5, <1>6 DEF QueueInv, Waits
<1>8. BasePriority \in [Tasks -> Priorities] /\ \A t \in Tasks : BasePriority[t] >= BasePriority[t]
  BY PrioritiesNat, MutexConstants
<1>9. TypeOK BY <1>1, <1>4, <1>6, <1>8 DEF TypeOK, Init
<1>10. PriorityReturned BY <1>1, <1>3, <1>4, <1>8, <1>9 DEF PriorityReturned
<1> QED BY <1>1, <1>7, <1>10 DEF BaseInv, CallInv, RunningReady, ValueInv

\* What a task inherits it gives back with its last mutex, or when the task it
\* inherited from gives up, and no task is ever below its own priority; with
\* any nesting of takes and waits.  (xTaskPriorityDisinherit,
\* vTaskPriorityDisinheritAfterTimeout.)
THEOREM Returned == Spec => []PriorityReturned
<1>1. BaseInv /\ [Next]_vars => BaseInv' BY BaseStep
<1>2. BaseInv => PriorityReturned BY DEF BaseInv
<1> QED BY <1>1, <1>2, BaseInit, PTL DEF Spec
-----------------------------------------------------------------------------
(* Gives *)

\* A task that does not run stays where it is in its call.
LEMMA NotRunning ==
    ASSUME BaseInv, [Next]_vars, NEW u \in Tasks, ~Running(u)
    PROVE  /\ pc'[u] = pc[u] /\ wants'[u] = wants[u]
           /\ xTicksToWait'[u] # xTicksToWait[u] => Tick(u) /\ state[u] = "blocked"
           /\ Held(u)' = Held(u)
<1>0. TypeOK BY DEF BaseInv, PriorityReturned
<1>1. pc'[u] = pc[u]
  <2>1. pc \in [Tasks -> {"app", "pass", "wait", "disinherit", "asserted"}] BY <1>0 DEF TypeOK
  <2> QED
    BY <2>1 DEF Next, Step, vars, callVars, TimeSlice, Call, Take, FindTaken, Block, Retry,
                TimeOut, Disinherit, Delay, Tick, Give, Return, Running
<1>2. wants'[u] = wants[u]
  <2>1. wants \in [Tasks -> Mutexes \union {NULL}] BY <1>0 DEF TypeOK
  <2> QED
    BY <2>1 DEF Next, Step, vars, callVars, TimeSlice, Call, Take, FindTaken, Block, Retry,
                TimeOut, Disinherit, Delay, Tick, Give, Return, Running
<1>3. xTicksToWait'[u] # xTicksToWait[u] => Tick(u) /\ state[u] = "blocked"
  <2>1. xTicksToWait \in [Tasks -> {"left", "expired", "none"}] BY <1>0 DEF TypeOK
  <2>2. ASSUME NEW t \in Tasks, Tick(t), xTicksToWait'[u] # xTicksToWait[u]
        PROVE  t = u /\ state[u] = "blocked"
    BY <2>1, <2>2 DEF Tick
  <2>3. ASSUME NEW t \in Tasks, Step(t) PROVE xTicksToWait'[u] = xTicksToWait[u]
    BY <2>1, <2>3 DEF Step, callVars, Call, Take, FindTaken, Block, Retry,
                TimeOut, Disinherit, Delay, Give, Return, Running
  <2>4. CASE UNCHANGED vars \/ TimeSlice BY <2>4 DEF vars, TimeSlice, callVars
  <2> QED BY <2>2, <2>3, <2>4 DEF Next
<1>4. Held(u)' = Held(u)
  <2>1. pxMutexHolder \in [Mutexes -> Tasks \union {NULL}] /\ NULL \notin Tasks
    BY <1>0, MutexConstants DEF TypeOK
  <2>2. ASSUME NEW t \in Tasks, Take(t) PROVE Held(u)' = Held(u)
    <3>1. /\ pxMutexHolder' = [pxMutexHolder EXCEPT ![wants[t]] = t]
          /\ pxMutexHolder[wants[t]] = NULL /\ t # u
      BY <2>2 DEF Take, Running
    <3>2. \A n \in Mutexes : pxMutexHolder'[n] = u <=> pxMutexHolder[n] = u
      BY <2>1, <3>1
    <3> QED BY <3>2 DEF Held
  <2>3. ASSUME NEW t \in Tasks, NEW m \in Mutexes, Give(t, m) PROVE Held(u)' = Held(u)
    <3>1. t # u BY <2>3 DEF Give, Running
    <3> QED BY <2>3, <3>1, GiveEffect
  <2>4. ASSUME UNCHANGED pxMutexHolder PROVE Held(u)' = Held(u) BY <2>4 DEF Held
  <2>5. \/ UNCHANGED pxMutexHolder
        \/ \E t \in Tasks : Take(t)
        \/ \E t \in Tasks, m \in Mutexes : Give(t, m)
    BY DEF Next, Step, vars, mutexVars, TimeSlice, Call, FindTaken,
                Block, Retry, TimeOut, Disinherit, Delay, Tick
  <2> QED BY <2>2, <2>3, <2>4, <2>5
<1> QED BY <1>1, <1>2, <1>3, <1>4

\* Who waits for a mutex did so before, or has just started.
LEMMA WaitsStep ==
    ASSUME BaseInv, [Next]_vars, NEW u \in Tasks, NEW m \in Mutexes
    PROVE  /\ Waits(u, m)' => Waits(u, m) \/ (Block(u) /\ wants[u] = m)
           /\ Waits(u, m) => ~Running(u)
           /\ Waits(u, m) => Waits(u, m)' \/ state'[u] = "ready"
<1>0. /\ TypeOK /\ QueueInv /\ RunningReady
      /\ state \in [Tasks -> {"ready", "blocked", "delayed"}]
  BY DEF BaseInv, PriorityReturned, TypeOK
<1>1. Waits(u, m) <=> state[u] = "blocked" /\ wants[u] = m BY <1>0 DEF QueueInv
<1>2. Waits(u, m)' <=> state'[u] = "blocked" /\ wants'[u] = m BY ListsStep DEF QueueInv
<1>3. state[u] = "blocked" => ~Running(u) BY <1>0 DEF RunningReady, Running
<1>4. ASSUME Waits(u, m)', ~Waits(u, m) PROVE Block(u) /\ wants[u] = m
  <2>1. Running(u) BY <1>1, <1>2, <1>4, NotRunning, StatesStep
  <2>2. state'[u] = "blocked" /\ state[u] # "blocked" /\ wants'[u] = m
    BY <1>0, <1>2, <1>3, <1>4, <2>1
  <2>3. ASSUME NEW t \in Tasks, Tick(t) PROVE FALSE
    BY <1>0, <2>2, <2>3 DEF Tick
  <2>4. ASSUME NEW t \in Tasks, NEW n \in Mutexes, Give(t, n) PROVE FALSE
    BY <1>0, <2>2, <2>4 DEF Give
  <2>5. ASSUME NEW t \in Tasks, Delay(t) PROVE FALSE
    <3>1. state' = [state EXCEPT ![t] = "delayed"] BY <2>5 DEF Delay
    <3> QED BY <1>0, <2>2, <3>1
  <2>6. ASSUME NEW t \in Tasks, Block(t) PROVE t = u /\ wants[u] = m
    BY <2>1, <2>2, <2>6 DEF Block, Running
  <2> QED
    BY <2>2, <2>3, <2>4, <2>5, <2>6 DEF Next, Step, vars, TimeSlice, Call, Take, FindTaken,
                Retry, TimeOut, Disinherit
<1>5. ASSUME Waits(u, m), ~Waits(u, m)' PROVE state'[u] = "ready"
  <2>1. ~Running(u) /\ wants'[u] = m BY <1>1, <1>3, <1>5, NotRunning
  <2>2. state'[u] # state[u] BY <1>1, <1>2, <1>5, <2>1
  <2> QED BY <2>1, <2>2, StatesStep
<1> QED BY <1>1, <1>3, <1>4, <1>5

\* A task that is about to take a free mutex stays so while it is free.
LEMMA TakerKept ==
    ASSUME BaseInv, [Next]_vars, NEW u \in Tasks, NEW m \in Mutexes,
           Taker(u, m), pxMutexHolder[m] = NULL, pxMutexHolder'[m] = NULL
    PROVE  Taker(u, m)'
<1>0. TypeOK BY DEF BaseInv, PriorityReturned
<1>1. state[u] = "ready" /\ wants[u] = m /\ pc[u] \in {"pass", "wait"} BY DEF Taker
<1>2. pxMutexHolder \in [Mutexes -> Tasks \union {NULL}] /\ NULL \notin Tasks
      /\ pc \in [Tasks -> {"app", "pass", "wait", "disinherit", "asserted"}]
  BY <1>0, MutexConstants DEF TypeOK
<1>3. ~Take(u) BY <1>1, <1>2 DEF Take
<1>4. ~(Call(u) \/ FindTaken(u) \/ Block(u) \/ Disinherit(u) \/ Delay(u))
  BY <1>1 DEF Call, FindTaken, Block, Disinherit, Delay
<1>5. \A n \in Mutexes : ~Give(u, n) BY <1>1 DEF Give
<1>6. state'[u] = "ready"
  <2> SUFFICES ASSUME state'[u] # "ready" PROVE FALSE OBVIOUS
  <2>1. Running(u) BY <1>1, StatesStep
  <2>2. ASSUME NEW t \in Tasks, Tick(t) PROVE FALSE
    BY <1>0, <1>1, <2>2 DEF Tick, TypeOK
  <2>3. ASSUME NEW t \in Tasks, NEW n \in Mutexes, Give(t, n) PROVE FALSE
    BY <1>1, <2>3 DEF Give
  <2> QED
    BY <1>1, <1>4, <2>1, <2>2, <2>3 DEF Next, Step, vars, TimeSlice, Call, Take, FindTaken,
                Block, Delay, Retry, TimeOut, Disinherit, Running
<1>7. wants'[u] = m /\ pc'[u] \in {"pass", "wait"}
  <2>1. CASE ~Running(u) BY <1>1, <2>1, NotRunning
  <2>2. CASE UNCHANGED vars \/ TimeSlice \/ \E t \in Tasks : Tick(t)
    BY <1>1, <2>2 DEF vars, TimeSlice, callVars, Tick
  <2>3. CASE Running(u) /\ \E t \in Tasks : Step(t)
    <3>1. Step(u)
      BY <2>3 DEF Step, Call, Take, FindTaken, Block, Retry, TimeOut, Disinherit, Delay, Give, Running
    <3>2. Retry(u) \/ TimeOut(u) BY <1>3, <1>4, <1>5, <3>1 DEF Step
    <3> QED BY <1>1, <1>2, <3>2 DEF Retry, TimeOut
  <2> QED BY <2>1, <2>2, <2>3 DEF Next
<1> QED BY <1>6, <1>7 DEF Taker

\* A give makes the first of the waiters such a task.
LEMMA GiveWakes ==
    ASSUME BaseInv, [Next]_vars, NEW t \in Tasks, NEW m \in Mutexes, Give(t, m),
           xTasksWaitingToReceive[m] # << >>
    PROVE  \E w \in Tasks :
              w = Head(xTasksWaitingToReceive[m]) /\ Waits(w, m) /\ Taker(w, m)'
<1>0. TypeOK /\ QueueInv BY DEF BaseInv, PriorityReturned
<1>1. xTasksWaitingToReceive[m] \in Seq(Tasks) BY <1>0 DEF TypeOK
<1>2. PICK w \in Tasks : w = Head(xTasksWaitingToReceive[m]) /\ Waits(w, m)
  BY <1>1, EmptyList DEF Waits
<1>3. Woken(m) = {w} BY <1>2 DEF Woken
<1>4. state[w] = "blocked" /\ wants[w] = m /\ pc[w] = "pass" BY <1>0, <1>2 DEF QueueInv
<1>5. state' = [u \in Tasks |-> IF u \in Woken(m) THEN "ready" ELSE state[u]]
      /\ UNCHANGED <<pc, wants>>
  BY DEF Give, callVars
<1>6. Taker(w, m)' BY <1>2, <1>3, <1>4, <1>5 DEF Taker
<1> QED BY <1>2, <1>6

\* A step that makes a mutex free gives it.
LEMMA FreedByGive ==
    ASSUME BaseInv, [Next]_vars, NEW m \in Mutexes,
           pxMutexHolder[m] # NULL, pxMutexHolder'[m] = NULL
    PROVE  \E t \in Tasks : Give(t, m)
<1>0. pxMutexHolder \in [Mutexes -> Tasks \union {NULL}] /\ NULL \notin Tasks
  BY MutexConstants DEF BaseInv, PriorityReturned, TypeOK
<1>1. ASSUME NEW t \in Tasks, Take(t) PROVE FALSE
  BY <1>0, <1>1 DEF Take
<1>2. ASSUME NEW t \in Tasks, NEW n \in Mutexes, Give(t, n) PROVE n = m
  BY <1>0, <1>2 DEF Give
<1> QED
  BY <1>1, <1>2 DEF Next, Step, vars, mutexVars, TimeSlice, Call, FindTaken,
                Block, Retry, TimeOut, Disinherit, Delay, Tick

\* A list that is not empty after a step was not before, unless a task has
\* just started to wait for a mutex that is taken.
LEMMA FreeLists ==
    ASSUME BaseInv, [Next]_vars, NEW m \in Mutexes,
           pxMutexHolder'[m] = NULL, xTasksWaitingToReceive'[m] # << >>
    PROVE  /\ xTasksWaitingToReceive[m] # << >>
           /\ \A u \in Tasks : Waits(u, m)' => Waits(u, m)
<1>1. ASSUME NEW u \in Tasks, Waits(u, m)' PROVE Waits(u, m)
  <2>1. Waits(u, m) \/ (Block(u) /\ wants[u] = m) BY <1>1, WaitsStep
  <2>2. Block(u) /\ wants[u] = m => pxMutexHolder'[m] # NULL BY DEF Block
  <2> QED BY <2>1, <2>2
<1>2. xTasksWaitingToReceive'[m] \in Seq(Tasks) BY ListsStep
<1>3. /\ Member(xTasksWaitingToReceive'[m], Head(xTasksWaitingToReceive'[m]))
      /\ Head(xTasksWaitingToReceive'[m]) \in Tasks
  BY <1>2, EmptyList
<1>4. Waits(Head(xTasksWaitingToReceive'[m]), m) BY <1>1, <1>3 DEF Waits
<1>5. xTasksWaitingToReceive[m] \in Seq(Tasks) BY DEF BaseInv, PriorityReturned, TypeOK
<1> QED BY <1>1, <1>4, <1>5, EmptyList DEF Waits

LEMMA NoLostGiveStep ==
    ASSUME BaseInv, NoLostGive, [Next]_vars
    PROVE  NoLostGive'
<1> SUFFICES ASSUME NEW m \in Mutexes, pxMutexHolder'[m] = NULL, xTasksWaitingToReceive'[m] # << >>
             PROVE  \E u \in Tasks : Taker(u, m)'
  BY DEF NoLostGive, Taker
<1>1. xTasksWaitingToReceive[m] # << >> BY FreeLists
<1>2. CASE pxMutexHolder[m] = NULL
  <2>1. PICK u \in Tasks : Taker(u, m) BY <1>1, <1>2 DEF NoLostGive, Taker
  <2> QED BY <1>2, <2>1, TakerKept
<1>3. CASE pxMutexHolder[m] # NULL
  <2>1. PICK t \in Tasks : Give(t, m) BY <1>3, FreedByGive
  <2> QED BY <1>1, <2>1, GiveWakes
<1> QED BY <1>2, <1>3

\* A mutex given back while tasks wait for it wakes one of them, and as long
\* as nobody has taken it one of them, or a task that asked for it meanwhile,
\* is on its way to.  (xQueueGenericSend, xQueueSemaphoreTake.)
THEOREM GivesKept == Spec => []NoLostGive
<1>1. Init => BaseInv /\ NoLostGive BY BaseInit DEF Init, NoLostGive
<1>2. BaseInv /\ NoLostGive /\ [Next]_vars => (BaseInv /\ NoLostGive)'
  BY BaseStep, NoLostGiveStep
<1> QED BY <1>1, <1>2, PTL DEF Spec
-----------------------------------------------------------------------------
(* Sorted lists *)

LEMMA BaseNat == \A u \in Tasks : BasePriority[u] \in Nat
  BY PrioritiesNat

LEMMA HeadHighest ==
    ASSUME NEW s \in Seq(Tasks), Sorted(s), NEW u \in Tasks, Member(s, u)
    PROVE  /\ s # << >> /\ Head(s) \in Tasks /\ Member(s, Head(s))
           /\ BasePriority[Head(s)] >= BasePriority[u]
<1>1. PICK i \in 1 .. Len(s) : s[i] = u BY DEF Member
<1>2. s # << >> BY <1>1
<1>3. Head(s) = s[1] /\ 1 \in 1 .. Len(s) BY <1>2
<1>4. BasePriority[s[1]] >= BasePriority[u]
  <2>1. CASE i = 1 BY <1>1, <2>1, BaseNat
  <2>2. CASE i # 1 BY <1>1, <1>3, <2>2 DEF Sorted
  <2> QED BY <2>1, <2>2
<1> QED BY <1>2, <1>3, <1>4, EmptyList

LEMMA TailSorted ==
    ASSUME NEW s \in Seq(Tasks), s # << >>, Sorted(s)
    PROVE  Sorted(Tail(s))
<1>1. /\ Len(Tail(s)) = Len(s) - 1
      /\ \A i \in 1 .. Len(s) - 1 : Tail(s)[i] = s[i + 1]
  BY HeadTailProperties
<1>2. Len(s) \in Nat OBVIOUS
<1> SUFFICES ASSUME NEW i \in 1 .. Len(Tail(s)), NEW j \in 1 .. Len(Tail(s)), i < j
             PROVE  BasePriority[Tail(s)[i]] >= BasePriority[Tail(s)[j]]
  BY DEF Sorted
<1>3. Tail(s)[i] = s[i + 1] /\ Tail(s)[j] = s[j + 1] BY <1>1
<1>4. i + 1 \in 1 .. Len(s) /\ j + 1 \in 1 .. Len(s) /\ i + 1 < j + 1 BY <1>1, <1>2
<1> QED BY <1>3, <1>4 DEF Sorted

LEMMA UnlinkSorted ==
    ASSUME NEW s \in Seq(Tasks), NEW t \in Tasks, Member(s, t), Sorted(s)
    PROVE  Sorted(Unlink(s, t))
<1>0. Len(s) \in Nat OBVIOUS
<1>1. PICK k \in 1 .. Len(s) : Unlink(s, t) = RemoveAt(s, k)
  <2> DEFINE c == CHOOSE i \in 1 .. Len(s) : s[i] = t
  <2>1. c \in 1 .. Len(s) BY Zenon DEF Member
  <2>2. Unlink(s, t) = RemoveAt(s, c) BY DEF Unlink
  <2> HIDE DEF c
  <2> QED BY <2>1, <2>2
<1> DEFINE r == RemoveAt(s, k)
           p(i) == IF i < k THEN i ELSE i + 1
<1>2. /\ Len(r) = Len(s) - 1
      /\ \A i \in 1 .. Len(s) - 1 : r[i] = IF i < k THEN s[i] ELSE s[i + 1]
  BY RemoveAtElements
<1> HIDE DEF r
<1>3. ASSUME NEW i \in 1 .. Len(r), NEW j \in 1 .. Len(r), i < j
      PROVE  BasePriority[r[i]] >= BasePriority[r[j]]
  <2>1. r[i] = s[p(i)] /\ r[j] = s[p(j)] BY <1>2
  <2>2. p(i) \in 1 .. Len(s) /\ p(j) \in 1 .. Len(s) /\ p(i) < p(j) BY <1>0, <1>2, <1>3
  <2> HIDE DEF p
  <2> QED BY <2>1, <2>2 DEF Sorted
<1>4. Sorted(r) BY <1>3 DEF Sorted
<1> QED BY <1>1, <1>4 DEF r

LEMMA InsertSorted ==
    ASSUME NEW s \in Seq(Tasks), NEW t \in Tasks, NEW k \in 1 .. Len(s) + 1, Sorted(s),
           \A i \in 1 .. Len(s) : i < k => BasePriority[s[i]] >= BasePriority[t],
           \A i \in 1 .. Len(s) : i >= k => BasePriority[t] >= BasePriority[s[i]]
    PROVE  Sorted(InsertAt(s, k, t))
<1>0. Len(s) \in Nat OBVIOUS
<1> DEFINE r == InsertAt(s, k, t)
<1>5. /\ Len(r) = Len(s) + 1
      /\ \A i \in 1 .. Len(s) + 1 : r[i] = IF i < k THEN s[i] ELSE IF i = k THEN t ELSE s[i - 1]
  BY InsertAtElements
<1> HIDE DEF r
<1>6. ASSUME NEW i \in 1 .. Len(r), NEW j \in 1 .. Len(r), i < j
      PROVE  BasePriority[r[i]] >= BasePriority[r[j]]
  <2>0. /\ r[i] = IF i < k THEN s[i] ELSE IF i = k THEN t ELSE s[i - 1]
        /\ r[j] = IF j < k THEN s[j] ELSE IF j = k THEN t ELSE s[j - 1]
    BY <1>5
  <2>1. CASE j < k
    <3>1. i \in 1 .. Len(s) /\ j \in 1 .. Len(s) /\ i < k BY <1>0, <1>5, <1>6, <2>1
    <3> QED BY <1>6, <2>0, <2>1, <3>1 DEF Sorted
  <2>2. CASE j = k
    <3>1. i \in 1 .. Len(s) /\ i < k BY <1>0, <1>5, <1>6, <2>2
    <3> QED BY <2>0, <2>2, <3>1
  <2>3. CASE j > k /\ i < k
    <3>1. i \in 1 .. Len(s) /\ j - 1 \in 1 .. Len(s) /\ i < j - 1 BY <1>0, <1>5, <1>6, <2>3
    <3>2. r[i] = s[i] /\ r[j] = s[j - 1] BY <2>0, <2>3
    <3> QED BY <3>1, <3>2 DEF Sorted
  <2>4. CASE j > k /\ i = k
    <3>1. j - 1 \in 1 .. Len(s) /\ j - 1 >= k BY <1>0, <1>5, <2>4
    <3>2. r[i] = t /\ r[j] = s[j - 1] BY <2>0, <2>4
    <3> QED BY <3>1, <3>2
  <2>5. CASE j > k /\ i > k
    <3>1. i - 1 \in 1 .. Len(s) /\ j - 1 \in 1 .. Len(s) /\ i - 1 < j - 1
      BY <1>0, <1>5, <1>6, <2>5
    <3>2. r[i] = s[i - 1] /\ r[j] = s[j - 1] BY <2>0, <2>5
    <3> QED BY <3>1, <3>2 DEF Sorted
  <2> QED BY <1>0, <1>5, <2>1, <2>2, <2>3, <2>4, <2>5
<1>7. Sorted(r) BY <1>6 DEF Sorted
<1> QED BY <1>7 DEF r

LEMMA InsertWaitingSorted ==
    ASSUME NEW s \in Seq(Tasks), NEW t \in Tasks, xItemValue \in [Tasks -> Nat], Sorted(s),
           xItemValue[t] = BasePriority[t],
           \A u \in Tasks : Member(s, u) => xItemValue[u] = BasePriority[u]
    PROVE  Sorted(InsertWaiting(s, t))
<1>0. Len(s) \in Nat /\ \A i \in 1 .. Len(s) : s[i] \in Tasks OBVIOUS
<1>1. PICK k \in 1 .. Len(s) + 1 :
              /\ InsertWaiting(s, t) = InsertAt(s, k, t)
              /\ \A i \in 1 .. k - 1 : xItemValue[s[i]] >= xItemValue[t]
              /\ k <= Len(s) => xItemValue[s[k]] < xItemValue[t]
  BY Passed
<1>2. \A i \in 1 .. Len(s) : xItemValue[s[i]] = BasePriority[s[i]] BY <1>0 DEF Member
<1>3. \A i \in 1 .. Len(s) : i < k => BasePriority[s[i]] >= BasePriority[t]
  <2> SUFFICES ASSUME NEW i \in 1 .. Len(s), i < k PROVE BasePriority[s[i]] >= BasePriority[t]
    OBVIOUS
  <2>1. i \in 1 .. k - 1 BY <1>0
  <2>2. xItemValue[s[i]] >= xItemValue[t] BY <1>1, <2>1
  <2> QED BY <1>2, <2>2
<1>4. \A i \in 1 .. Len(s) : i >= k => BasePriority[t] >= BasePriority[s[i]]
  <2> SUFFICES ASSUME NEW i \in 1 .. Len(s), i >= k PROVE BasePriority[t] >= BasePriority[s[i]]
    OBVIOUS
  <2>1. k \in 1 .. Len(s) /\ k <= Len(s) BY <1>0
  <2>2. BasePriority[s[k]] < BasePriority[t] BY <1>1, <1>2, <2>1
  <2>3. i = k \/ BasePriority[s[k]] >= BasePriority[s[i]] BY <2>1 DEF Sorted
  <2>4. /\ BasePriority[s[k]] \in Nat /\ BasePriority[s[i]] \in Nat /\ BasePriority[t] \in Nat
    BY <1>0, <2>1, BaseNat
  <2> QED BY <2>2, <2>3, <2>4
<1>5. Sorted(InsertAt(s, k, t)) BY <1>3, <1>4, InsertSorted
<1> QED BY <1>1, <1>5
-----------------------------------------------------------------------------
(* Inheritance, where nobody waits for a mutex while holding one *)

\* A task that waits, or is about to, holds nothing: its priority is its own.
LEMMA WaiterBase ==
    ASSUME BaseInv, HoldInv, NEW u \in Tasks
    PROVE  /\ \A m \in Mutexes : Waits(u, m) => uxPriority[u] = BasePriority[u]
           /\ Block(u) => uxPriority[u] = BasePriority[u]
           /\ Block(u) => Held(u) = {}
<1>1. Held(u) = {} => uxPriority[u] = BasePriority[u] BY DEF BaseInv, PriorityReturned
<1>2. ASSUME NEW m \in Mutexes, Waits(u, m) PROVE Held(u) = {}
  <2>1. pc[u] = "pass" /\ xTicksToWait[u] = "left" BY <1>2 DEF BaseInv, QueueInv
  <2> QED BY <2>1 DEF HoldInv
<1>3. Block(u) => Held(u) = {} BY DEF Block, HoldInv
<1> QED BY <1>1, <1>2, <1>3

LEMMA OneHeld ==
    ASSUME BaseInv, NEW t \in Tasks, uxMutexesHeld[t] = 1, NEW m \in Held(t)
    PROVE  Held(t) = {m}
<1>1. Cardinality(Held(t)) = 1 BY DEF BaseInv, PriorityReturned
<1>2. IsFiniteSet(Held(t)) BY HeldFinite DEF Held
<1>3. PICK x : Held(t) = {x} BY <1>1, <1>2, FS_Singleton
<1> QED BY <1>3

LEMMA HoldStep ==
    ASSUME ~NestedWaits, BaseInv, HoldInv, [Next]_vars
    PROVE  HoldInv'
<1>0. TypeOK /\ CallInv BY DEF BaseInv, PriorityReturned
<1>1. ASSUME NEW u \in Tasks
      PROVE  /\ Held(u) \subseteq Takes[u]
             /\ pc[u] # "app" /\ xTicksToWait[u] # "none" => Held(u) = {}
             /\ MaxHeld = 1 => /\ \A m, n \in Held(u) : m = n
                               /\ pc[u] # "app" => Held(u) = {}
  BY DEF HoldInv
<1> SUFFICES ASSUME NEW u \in Tasks
             PROVE  /\ Held(u)' \subseteq Takes[u]
                    /\ pc'[u] # "app" /\ xTicksToWait'[u] # "none" => Held(u)' = {}
                    /\ MaxHeld = 1 => /\ \A m, n \in Held(u)' : m = n
                                      /\ pc'[u] # "app" => Held(u)' = {}
  BY DEF HoldInv
<1> DEFINE Goal == /\ Held(u)' \subseteq Takes[u]
                   /\ pc'[u] # "app" /\ xTicksToWait'[u] # "none" => Held(u)' = {}
                   /\ MaxHeld = 1 => /\ \A m, n \in Held(u)' : m = n
                                     /\ pc'[u] # "app" => Held(u)' = {}
<1>2. ASSUME ~Running(u) PROVE Goal
  <2>1. pc'[u] = pc[u] /\ Held(u)' = Held(u) BY <1>2, NotRunning
  <2>2. xTicksToWait'[u] # xTicksToWait[u] => pc[u] = "pass" /\ xTicksToWait[u] = "left"
    BY <1>2, NotRunning DEF BaseInv, QueueInv
  <2> QED BY <1>1, <2>1, <2>2
<1>3. ASSUME UNCHANGED <<pxMutexHolder, pc, xTicksToWait>> PROVE Goal
  <2>1. Held(u)' = Held(u) BY <1>3 DEF Held
  <2> QED BY <1>1, <1>3, <2>1
<1>4. ASSUME Call(u) PROVE Goal
  <2>1. Held(u)' = Held(u) BY <1>4 DEF Call, mutexVars, Held
  <2>2. Held(u) # {} => xTicksToWait'[u] = "none"
    <3>1. xTicksToWait \in [Tasks -> {"left", "expired", "none"}] BY <1>0 DEF TypeOK
    <3> QED BY <1>4, <3>1 DEF Call
  <2>3. MaxHeld = 1 => Held(u) = {}
    <3> SUFFICES ASSUME MaxHeld = 1 PROVE Held(u) = {} OBVIOUS
    <3>1. Cardinality(Held(u)) < 1 BY <1>4 DEF Call
    <3>2. IsFiniteSet(Held(u)) BY HeldFinite DEF Held
    <3>3. Cardinality(Held(u)) = 0 BY <3>1, <3>2, FS_CardinalityType
    <3> QED BY <3>2, <3>3, FS_EmptySet
  <2> QED BY <1>1, <2>1, <2>2, <2>3
<1>5. ASSUME Take(u) PROVE Goal
  <2>1. wants[u] \in Takes[u] /\ pxMutexHolder[wants[u]] = NULL
        /\ pxMutexHolder' = [pxMutexHolder EXCEPT ![wants[u]] = u]
    BY <1>0, <1>5 DEF CallInv, Take
  <2>2. pxMutexHolder \in [Mutexes -> Tasks \union {NULL}]
        /\ pc \in [Tasks -> {"app", "pass", "wait", "disinherit", "asserted"}]
    BY <1>0 DEF TypeOK
  <2>3. pc'[u] = "app" BY <1>5, <2>2 DEF Take, Return
  <2>4. Held(u)' \subseteq Held(u) \union {wants[u]} BY <2>1, <2>2 DEF Held
  <2>5. MaxHeld = 1 => Held(u) = {} BY <1>1, <1>5 DEF Take
  <2> QED BY <1>1, <2>1, <2>3, <2>4, <2>5
<1>6. ASSUME NEW m \in Mutexes, Give(u, m) PROVE Goal
  <2>1. Held(u)' = Held(u) \ {m} BY <1>6, GiveEffect
  <2>2. pc'[u] = "app" BY <1>6 DEF Give, callVars
  <2> QED BY <1>1, <2>1, <2>2
<1>7. ASSUME FindTaken(u) \/ Block(u) \/ Retry(u) \/ TimeOut(u) \/ Disinherit(u) PROVE Goal
  <2>1. Held(u)' = Held(u)
    BY <1>7 DEF FindTaken, Block, Retry, TimeOut, Disinherit, mutexVars, Held
  <2>2. pc[u] # "app" BY <1>7 DEF FindTaken, Block, Retry, TimeOut, Disinherit
  <2>3. /\ pc \in [Tasks -> {"app", "pass", "wait", "disinherit", "asserted"}]
        /\ xTicksToWait \in [Tasks -> {"left", "expired", "none"}]
    BY <1>0 DEF TypeOK
  <2>4. pc'[u] = "app" \/ xTicksToWait'[u] = xTicksToWait[u] \/ xTicksToWait'[u] = "none"
    BY <1>7, <2>3 DEF FindTaken, Block, Retry, TimeOut, Disinherit, Return
  <2> QED BY <1>1, <2>1, <2>2, <2>4
<1>8. CASE Running(u)
  <2>1. CASE UNCHANGED vars \/ TimeSlice \/ Delay(u)
    BY <1>3, <2>1 DEF vars, TimeSlice, Delay, mutexVars, callVars
  <2>2. ASSUME NEW t \in Tasks, Tick(t) PROVE Goal
    <3>1. t # u BY <1>8, <2>2 DEF Tick, BaseInv, RunningReady, Running
    <3>2. UNCHANGED <<pxMutexHolder, pc>> BY <2>2 DEF Tick
    <3>3. xTicksToWait'[u] = xTicksToWait[u]
      <4>1. xTicksToWait \in [Tasks -> {"left", "expired", "none"}] BY <1>0 DEF TypeOK
      <4> QED BY <2>2, <3>1, <4>1 DEF Tick
    <3>4. Held(u)' = Held(u) BY <3>2 DEF Held
    <3> QED BY <1>1, <3>2, <3>3, <3>4
  <2>3. ASSUME NEW t \in Tasks, Step(t) PROVE t = u
    BY <1>8, <2>3 DEF Step, Call, Take, FindTaken, Block, Retry, TimeOut, Disinherit, Delay, Give, Running
  <2> QED BY <1>4, <1>5, <1>6, <1>7, <2>1, <2>2, <2>3 DEF Next, Step
<1> QED BY <1>2, <1>8

LEMMA SortedStep ==
    ASSUME BaseInv, HoldInv, SortedInv, [Next]_vars
    PROVE  SortedInv'
<1> DEFINE q == xTasksWaitingToReceive
<1>0. /\ TypeOK /\ QueueInv /\ ValueInv
      /\ q \in [Mutexes -> Seq(Tasks)] /\ \A m \in Mutexes : Sorted(q[m])
      /\ wants \in [Tasks -> Mutexes \union {NULL}]
  BY DEF BaseInv, PriorityReturned, TypeOK, SortedInv
<1>1. ASSUME NEW m \in Mutexes, NEW l, Sorted(l), q' = [q EXCEPT ![m] = l]
      PROVE  \A n \in Mutexes : Sorted(q'[n])
  BY <1>0, <1>1
<1>2. ASSUME UNCHANGED q PROVE \A n \in Mutexes : Sorted(q'[n]) BY <1>0, <1>2
<1>3. ASSUME NEW t \in Tasks, Tick(t) PROVE \A n \in Mutexes : Sorted(q'[n])
  <2>1. CASE UNCHANGED q BY <1>2, <2>1
  <2>2. CASE ~UNCHANGED q
    <3> DEFINE m == wants[t]
    <3>1. state[t] = "blocked" /\ q' = [q EXCEPT ![m] = Unlink(q[m], t)]
      BY <1>3, <2>2 DEF Tick
    <3>2. m \in Mutexes
      BY <1>0, <3>1, MutexConstants DEF BaseInv, CallInv, QueueInv
    <3>3. Member(q[m], t) BY <1>0, <3>1, <3>2 DEF QueueInv, Waits
    <3> HIDE DEF m
    <3>4. Sorted(Unlink(q[m], t)) BY <1>0, <3>2, <3>3, UnlinkSorted
    <3> QED BY <1>1, <3>1, <3>2, <3>4
  <2> QED BY <2>1, <2>2
<1>4. ASSUME NEW t \in Tasks, Block(t) PROVE \A n \in Mutexes : Sorted(q'[n])
  <2> DEFINE m == wants[t]
  <2>1. m \in Mutexes BY <1>4, BlockEffect
  <2>2. q' = [q EXCEPT ![m] = InsertWaiting(q[m], t)] BY <1>4 DEF Block
  <2>3. xItemValue \in [Tasks -> Nat] BY <1>0, PrioritiesNat DEF TypeOK
  <2>4. xItemValue[t] = BasePriority[t] BY <1>0, <1>4, WaiterBase DEF ValueInv
  <2> HIDE DEF m
  <2>5. \A u \in Tasks : Member(q[m], u) => xItemValue[u] = BasePriority[u]
    BY <1>0, <2>1, WaiterBase DEF ValueInv, Waits
  <2>6. Sorted(InsertWaiting(q[m], t)) BY <1>0, <2>1, <2>3, <2>4, <2>5, InsertWaitingSorted
  <2> QED BY <1>1, <2>1, <2>2, <2>6
<1>5. ASSUME NEW t \in Tasks, NEW m \in Mutexes, Give(t, m) PROVE \A n \in Mutexes : Sorted(q'[n])
  <2>1. q' = [q EXCEPT ![m] = IF Woken(m) = {} THEN q[m] ELSE Tail(q[m])] BY <1>5 DEF Give
  <2>2. q[m] \in Seq(Tasks) /\ Sorted(q[m]) BY <1>0
  <2>3. CASE q[m] = << >>
    <3>1. Woken(m) = {} BY <2>3 DEF Woken
    <3> QED BY <1>1, <2>1, <2>2, <3>1
  <2>4. CASE q[m] # << >>
    <3>1. Woken(m) # {} BY <2>4 DEF Woken
    <3>2. Sorted(Tail(q[m])) BY <2>2, <2>4, TailSorted
    <3> QED BY <1>1, <2>1, <3>1, <3>2
  <2> QED BY <2>3, <2>4
<1>6. \A n \in Mutexes : Sorted(q'[n])
  <2>1. \/ UNCHANGED q
        \/ \E t \in Tasks : Tick(t) \/ Block(t) \/ \E m \in Mutexes : Give(t, m)
    BY DEF Next, Step, vars, mutexVars, TimeSlice, Call, Take, FindTaken, Retry, TimeOut,
           Disinherit, Delay
  <2> QED BY <1>2, <1>3, <1>4, <1>5, <2>1
<1> QED BY <1>6 DEF SortedInv

LEMMA FreeStep ==
    ASSUME BaseInv, SortedInv, FreeInv, [Next]_vars
    PROVE  FreeInv'
<1> SUFFICES ASSUME NEW m \in Mutexes, pxMutexHolder'[m] = NULL, xTasksWaitingToReceive'[m] # << >>
             PROVE  \E u \in Tasks : /\ Taker(u, m)'
                                     /\ \A t \in Tasks : Waits(t, m)' =>
                                            BasePriority[t] <= BasePriority[u]
  BY DEF FreeInv
<1>1. /\ xTasksWaitingToReceive[m] # << >>
      /\ \A u \in Tasks : Waits(u, m)' => Waits(u, m)
  BY FreeLists
<1>2. CASE pxMutexHolder[m] = NULL
  <2>1. PICK u \in Tasks :
            Taker(u, m) /\ \A t \in Tasks : Waits(t, m) => BasePriority[t] <= BasePriority[u]
    BY <1>1, <1>2 DEF FreeInv
  <2>2. Taker(u, m)' BY <1>2, <2>1, TakerKept
  <2> QED BY <1>1, <2>1, <2>2
<1>3. CASE pxMutexHolder[m] # NULL
  <2>1. PICK x \in Tasks : Give(x, m) BY <1>3, FreedByGive
  <2>2. PICK w \in Tasks : w = Head(xTasksWaitingToReceive[m]) /\ Waits(w, m) /\ Taker(w, m)'
    BY <1>1, <2>1, GiveWakes
  <2>3. xTasksWaitingToReceive[m] \in Seq(Tasks) /\ Sorted(xTasksWaitingToReceive[m])
    BY DEF BaseInv, PriorityReturned, TypeOK, SortedInv
  <2>4. ASSUME NEW t \in Tasks, Waits(t, m)' PROVE BasePriority[t] <= BasePriority[w]
    <3>1. Member(xTasksWaitingToReceive[m], t) BY <1>1, <2>4 DEF Waits
    <3>2. BasePriority[w] >= BasePriority[t] BY <2>2, <2>3, <3>1, HeadHighest
    <3> QED BY <3>2, BaseNat
  <2> QED BY <2>2, <2>4
<1> QED BY <1>2, <1>3

\* What ends a wait.
LEMMA WaitEnds ==
    ASSUME BaseInv, [Next]_vars, NEW u \in Tasks, NEW m \in Mutexes, Waits(u, m), ~Waits(u, m)'
    PROVE  u \notin Patient \/ \E t \in Tasks : Give(t, m)
<1>0. TypeOK /\ QueueInv BY DEF BaseInv, PriorityReturned
<1>1. state[u] = "blocked" /\ wants[u] = m BY <1>0 DEF QueueInv
<1>2. state'[u] = "ready" /\ ~Running(u) BY WaitsStep
<1>3. state \in [Tasks -> {"ready", "blocked", "delayed"}] BY <1>0 DEF TypeOK
<1>4. ASSUME NEW t \in Tasks, Tick(t) PROVE u \notin Patient
  <2>1. t = u BY <1>1, <1>2, <1>3, <1>4 DEF Tick
  <2> QED BY <1>1, <1>4, <2>1 DEF Tick
<1>5. ASSUME NEW t \in Tasks, NEW n \in Mutexes, Give(t, n) PROVE n = m
  <2>1. u \in Woken(n) BY <1>1, <1>2, <1>3, <1>5 DEF Give
  <2>2. xTasksWaitingToReceive[n] # << >> /\ u = Head(xTasksWaitingToReceive[n])
    BY <2>1 DEF Woken
  <2>3. xTasksWaitingToReceive[n] \in Seq(Tasks) BY <1>0 DEF TypeOK
  <2>4. Waits(u, n) BY <2>2, <2>3, EmptyList DEF Waits
  <2> QED BY <1>0, <1>1, <2>4 DEF QueueInv
<1>6. ASSUME NEW t \in Tasks, Block(t) \/ Delay(t) PROVE FALSE
  <2>1. t # u BY <1>2, <1>6 DEF Block, Delay
  <2>2. state'[u] = state[u] BY <1>3, <1>6, <2>1 DEF Block, Delay
  <2> QED BY <1>1, <1>2, <2>2
<1> QED
  BY <1>1, <1>2, <1>4, <1>5, <1>6 DEF Next, Step, vars, TimeSlice, Call, Take, FindTaken, Retry,
        TimeOut, Disinherit

\* Who lends is above the holder and shares the mutex with it.
LEMMA LenderAbove ==
    ASSUME BaseInv, HoldInv, NEW t \in Tasks, NEW u \in Tasks, NEW m \in Held(t), Waits(u, m)
    PROVE  /\ u # t /\ Shares(t, u)
           /\ BasePriority[u] > BasePriority[t] => u \in Above(t)
<1>0. TypeOK /\ QueueInv /\ CallInv BY DEF BaseInv, PriorityReturned
<1>1. m \in Mutexes /\ pxMutexHolder[m] = t /\ m \in Takes[t] BY DEF Held, HoldInv
<1>2. wants[u] = m /\ pc[u] = "pass" BY <1>0, <1>1 DEF QueueInv
<1>3. m \in Takes[u] /\ u # t BY <1>0, <1>1, <1>2 DEF CallInv
<1> QED BY <1>1, <1>3 DEF Shares, Above

\* A task whose priority a step leaves or makes other than its own inherits
\* from one that waits: either it did so before and the step leaves both, or
\* the step made it so.
LEMMA LendStep ==
    ASSUME ~NestedWaits, YieldsSuffice, BaseInv, PrioInv, [Next]_vars
    PROVE  LendInv'
<1>0. /\ TypeOK /\ ValueInv /\ HoldInv /\ SortedInv /\ LendInv
      /\ uxPriority \in [Tasks -> Priorities]
      /\ xTasksWaitingToReceive \in [Mutexes -> Seq(Tasks)]
  BY DEF BaseInv, PriorityReturned, TypeOK, PrioInv
<1> SUFFICES ASSUME NEW t \in Tasks, uxPriority'[t] # BasePriority[t], ~BelowAll(t)
             PROVE  \E m \in Held(t)', u \in Tasks :
                       Waits(u, m)' /\ BasePriority[u] >= uxPriority'[t]
  BY DEF LendInv
<1>1. /\ Above(t) \subseteq Patient
      /\ Above(t) = {} \/ MaxHeld = 1 \/ \A m, n \in Takes[t] : m = n
  BY DEF YieldsSuffice
<1>2. CASE uxPriority'[t] = uxPriority[t]
  <2>1. PICK m \in Held(t), u \in Tasks : Waits(u, m) /\ BasePriority[u] >= uxPriority[t]
    BY <1>0, <1>2 DEF LendInv
  <2>2. u \in Above(t)
    <3>1. uxPriority[t] >= BasePriority[t] BY DEF BaseInv, PriorityReturned
    <3>2. uxPriority[t] \in Nat /\ BasePriority[t] \in Nat /\ BasePriority[u] \in Nat
      BY <1>0, PrioritiesNat
    <3>3. BasePriority[u] > BasePriority[t] BY <1>2, <2>1, <3>1, <3>2
    <3> QED BY <1>0, <2>1, <3>3, LenderAbove
  <2>3. Held(t) = {m}
    <3>1. MaxHeld = 1 \/ \A n, o \in Takes[t] : n = o BY <1>1, <2>2
    <3> QED BY <1>0, <2>1, <3>1 DEF HoldInv
  <2>4. m \in Mutexes /\ pxMutexHolder[m] = t BY <2>1 DEF Held
  <2>5. ~\E x \in Tasks : Give(x, m)
    <3> SUFFICES ASSUME NEW x \in Tasks, Give(x, m) PROVE FALSE OBVIOUS
    <3>1. x = t BY <2>4 DEF Give
    <3>2. Cardinality(Held(t)) = 1
      <4>1. Cardinality({m}) = 1 BY FS_Singleton
      <4> QED BY <2>3, <4>1, Zenon
    <3>3. uxMutexesHeld[t] = 1 BY <3>2 DEF BaseInv, PriorityReturned
    <3>4. uxPriority'[t] = BasePriority[t] BY <2>4, <3>1, <3>3, GiveEffect
    <3> QED BY <3>4
  <2>6. m \in Held(t)'
    <3>1. pxMutexHolder \in [Mutexes -> Tasks \union {NULL}] /\ NULL \notin Tasks
      BY <1>0, MutexConstants DEF TypeOK
    <3>2. ASSUME NEW x \in Tasks, Take(x) PROVE pxMutexHolder'[m] = t
      BY <2>4, <3>1, <3>2 DEF Take
    <3>3. ASSUME NEW x \in Tasks, NEW n \in Mutexes, Give(x, n) PROVE pxMutexHolder'[m] = t
      BY <2>4, <2>5, <3>1, <3>3 DEF Give
    <3>4. pxMutexHolder'[m] = t
      BY <2>4, <3>2, <3>3 DEF Next, Step, vars, mutexVars, TimeSlice, Call, FindTaken,
                Block, Retry, TimeOut, Disinherit, Delay, Tick
    <3> QED BY <2>4, <3>4 DEF Held
  <2>7. Waits(u, m)' BY <1>1, <2>1, <2>2, <2>4, <2>5, WaitEnds
  <2> QED BY <1>2, <2>1, <2>6, <2>7
<1>3. ASSUME uxPriority'[t] # uxPriority[t], NEW x \in Tasks, Block(x)
      PROVE  \E m \in Held(t)', u \in Tasks :
                Waits(u, m)' /\ BasePriority[u] >= uxPriority'[t]
  <2>1. PICK m \in Mutexes :
            m = wants[x] /\ pxMutexHolder[m] = t /\ uxPriority'[t] = uxPriority[x]
    BY <1>3, BlockEffect
  <2>2. uxPriority[x] = BasePriority[x] /\ BasePriority[x] \in Nat
    BY <1>0, <1>3, WaiterBase, BaseNat
  <2>3. pxMutexHolder' = pxMutexHolder /\ state' = [state EXCEPT ![x] = "blocked"] /\ wants' = wants
    BY <1>3 DEF Block
  <2>4. state'[x] = "blocked" /\ wants'[x] = m BY <1>0, <2>1, <2>3 DEF TypeOK
  <2>5. Waits(x, m)' BY <2>4, ListsStep DEF QueueInv
  <2>6. m \in Held(t)' BY <2>1, <2>3 DEF Held
  <2> QED BY <2>1, <2>2, <2>5, <2>6
<1>4. ASSUME uxPriority'[t] # uxPriority[t], NEW x \in Tasks, Disinherit(x)
      PROVE  \E m \in Held(t)', u \in Tasks :
                Waits(u, m)' /\ BasePriority[u] >= uxPriority'[t]
  <2>1. PICK m \in Mutexes :
            /\ m = wants[x] /\ pxMutexHolder[m] = t
            /\ uxPriority'[t] = Maximum(BasePriority[t], HighestWaiting(m))
    BY <1>4, DisinheritEffect
  <2> DEFINE s == xTasksWaitingToReceive[m]
  <2>2. s \in Seq(Tasks) BY <1>0
  <2>3. uxPriority'[t] = HighestWaiting(m) BY <2>1 DEF Maximum
  <2>4. s # << >>
    <3> SUFFICES ASSUME s = << >> PROVE FALSE OBVIOUS
    <3>1. uxPriority'[t] = BasePriority[Idle] BY <2>3 DEF HighestWaiting
    <3>2. BasePriority[Idle] <= BasePriority[t] BY MutexConstants
    <3>3. uxPriority'[t] >= BasePriority[t] BY PrioritiesStep
    <3>4. BasePriority[Idle] \in Nat /\ BasePriority[t] \in Nat BY PrioritiesNat
    <3> QED BY <3>1, <3>2, <3>3, <3>4
  <2>5. PICK u \in Tasks : u = Head(s) /\ Waits(u, m) BY <2>2, <2>4, EmptyList DEF Waits
  <2>6. uxPriority'[t] = BasePriority[u] /\ BasePriority[u] \in Nat
    BY <1>0, <2>3, <2>4, <2>5, WaiterBase, BaseNat DEF HighestWaiting, ValueInv
  <2>7. UNCHANGED mutexVars BY <1>4 DEF Disinherit
  <2>8. Waits(u, m)' BY <2>5, <2>7 DEF Waits, mutexVars
  <2>9. m \in Held(t)' BY <2>1, <2>7 DEF Held, mutexVars
  <2> QED BY <2>6, <2>8, <2>9
<1>5. ASSUME uxPriority'[t] # uxPriority[t]
      PROVE  \E x \in Tasks : Block(x) \/ Disinherit(x)
  <2>1. ASSUME NEW x \in Tasks, NEW m \in Mutexes, Give(x, m) PROVE FALSE
    BY <1>5, <2>1, GiveEffect
  <2> QED
    BY <1>5, <2>1 DEF Next, Step, vars, prioVars, TimeSlice, Call, Take, FindTaken, Retry,
        TimeOut, Delay, Tick
<1> QED BY <1>2, <1>3, <1>4, <1>5

\* The holder of a mutex is never below a task that waits for it.
LEMMA InheritsStep ==
    ASSUME ~NestedWaits, BaseInv, PrioInv, [Next]_vars
    PROVE  HolderInherits'
<1>0. /\ TypeOK /\ ValueInv /\ HoldInv /\ SortedInv /\ FreeInv
      /\ uxPriority \in [Tasks -> Priorities]
      /\ xTasksWaitingToReceive \in [Mutexes -> Seq(Tasks)]
      /\ pxMutexHolder \in [Mutexes -> Tasks \union {NULL}] /\ NULL \notin Tasks
  BY MutexConstants DEF BaseInv, PriorityReturned, TypeOK, PrioInv
<1>a. /\ \A u \in Tasks : uxPriority[u] \in Nat /\ uxPriority'[u] \in Nat /\ BasePriority[u] \in Nat
      /\ \A u \in Tasks : uxPriority[u] >= BasePriority[u]
  <2>1. uxPriority' \in [Tasks -> Priorities] BY PrioritiesStep
  <2> QED BY <1>0, <2>1, PrioritiesNat DEF BaseInv, PriorityReturned
<1>1. ASSUME NEW m \in Mutexes, NEW h \in Tasks, pxMutexHolder'[m] = h,
             NEW u \in Tasks, Waits(u, m)'
      PROVE  uxPriority'[h] >= uxPriority'[u]
  <2>1. uxPriority'[u] = BasePriority[u]
    <3>1. HoldInv' BY <1>0, HoldStep
    <3>2. QueueInv' BY ListsStep
    <3>3. pc'[u] = "pass" /\ xTicksToWait'[u] = "left" BY <1>1, <3>2 DEF QueueInv
    <3>4. Held(u)' = {} BY <3>1, <3>3 DEF HoldInv
    <3> QED BY <3>4, PrioritiesStep
  <2>2. CASE Block(u) /\ wants[u] = m
    <3>1. uxPriority[u] = BasePriority[u] BY <1>0, <2>2, WaiterBase
    <3>2. pxMutexHolder[m] = h BY <1>1, <2>2 DEF Block
    <3>3. uxPriority'[h] = IF uxPriority[h] < uxPriority[u] THEN uxPriority[u] ELSE uxPriority[h]
      BY <2>2, <3>2, BlockEffect
    <3> QED BY <1>a, <2>1, <3>1, <3>3
  <2>3. CASE Waits(u, m) /\ pxMutexHolder[m] = NULL
    <3>1. Take(h)
      <4>1. ASSUME NEW x \in Tasks, Take(x) PROVE x = h BY <1>0, <1>1, <2>3, <4>1 DEF Take
      <4>2. ASSUME NEW x \in Tasks, NEW n \in Mutexes, Give(x, n) PROVE FALSE
        BY <1>0, <1>1, <2>3, <4>2 DEF Give
      <4> QED
        BY <1>0, <1>1, <2>3, <4>1, <4>2 DEF Next, Step, vars, mutexVars, TimeSlice, Call, FindTaken,
                Block, Retry, TimeOut, Disinherit, Delay, Tick
    <3>2. PICK w \in Tasks :
              Taker(w, m) /\ \A x \in Tasks : Waits(x, m) => BasePriority[x] <= BasePriority[w]
      <4>1. xTasksWaitingToReceive[m] # << >> BY <1>0, <2>3, EmptyList DEF Waits
      <4> QED BY <1>0, <2>3, <4>1 DEF FreeInv
    <3>3. uxPriority[w] <= uxPriority[h]
      BY <3>1, <3>2 DEF PrioInv, HighestPriorityRuns, HighestReady, Take, Running, Taker
    <3>4. uxPriority' = uxPriority BY <3>1 DEF Take
    <3>5. BasePriority[u] <= BasePriority[w] BY <2>3, <3>2
    <3> QED BY <1>a, <2>1, <3>3, <3>4, <3>5
  <2>4. CASE Waits(u, m) /\ pxMutexHolder[m] # NULL
    <3>1. pxMutexHolder[m] = h
      <4>1. ASSUME NEW x \in Tasks, Take(x) PROVE pxMutexHolder'[m] = pxMutexHolder[m]
        BY <1>0, <2>4, <4>1 DEF Take
      <4>2. ASSUME NEW x \in Tasks, NEW n \in Mutexes, Give(x, n)
            PROVE  pxMutexHolder'[m] = pxMutexHolder[m] \/ pxMutexHolder'[m] = NULL
        BY <1>0, <4>2 DEF Give
      <4> QED
        BY <1>0, <1>1, <4>1, <4>2 DEF Next, Step, vars, mutexVars, TimeSlice, Call, FindTaken,
                Block, Retry, TimeOut, Disinherit, Delay, Tick
    <3>2. uxPriority[h] >= BasePriority[u]
      <4>1. uxPriority[u] = BasePriority[u] BY <1>0, <2>4, WaiterBase
      <4>2. u \in ToSet(xTasksWaitingToReceive[m])
        <5>1. PICK i \in 1 .. Len(xTasksWaitingToReceive[m]) : xTasksWaitingToReceive[m][i] = u
          BY <2>4 DEF Waits, Member
        <5>2. DOMAIN xTasksWaitingToReceive[m] = 1 .. Len(xTasksWaitingToReceive[m]) BY <1>0
        <5> QED BY <5>1, <5>2 DEF ToSet
      <4> QED BY <2>4, <3>1, <4>1, <4>2 DEF PrioInv, HolderInherits
    <3>3. m \in Held(h) BY <3>1 DEF Held
    <3>4. CASE uxPriority'[h] = uxPriority[h] BY <2>1, <3>2, <3>4
    <3>5. CASE uxPriority'[h] # uxPriority[h]
      <4>1. ASSUME NEW x \in Tasks, NEW n \in Mutexes, Give(x, n) PROVE FALSE
        <5>1. x = h /\ uxMutexesHeld[h] = 1 /\ n \in Held(h) BY <3>5, <4>1, GiveEffect
        <5>2. n = m BY <3>3, <5>1, OneHeld
        <5> QED BY <1>0, <1>1, <4>1, <5>2 DEF Give
      <4>2. ASSUME NEW x \in Tasks, Block(x) PROVE uxPriority'[h] >= BasePriority[u]
        <5>1. uxPriority[h] < uxPriority[x] /\ uxPriority'[h] = uxPriority[x]
          BY <3>5, <4>2, BlockEffect
        <5> QED BY <1>a, <3>2, <5>1
      <4>3. ASSUME NEW x \in Tasks, Disinherit(x) PROVE uxPriority'[h] >= BasePriority[u]
        <5>1. PICK n \in Mutexes : /\ n = wants[x] /\ pxMutexHolder[n] = h /\ uxMutexesHeld[h] = 1
                                   /\ uxPriority'[h] >= HighestWaiting(n)
          BY <3>5, <4>3, DisinheritEffect
        <5>2. n = m
          <6>1. n \in Held(h) BY <5>1 DEF Held
          <6> QED BY <3>3, <5>1, <6>1, OneHeld
        <5> DEFINE s == xTasksWaitingToReceive[m]
        <5>3. s \in Seq(Tasks) /\ Sorted(s) /\ Member(s, u) BY <1>0, <2>4 DEF SortedInv, Waits
        <5>4. s # << >> /\ Head(s) \in Tasks /\ Member(s, Head(s))
              /\ BasePriority[Head(s)] >= BasePriority[u]
          BY <5>3, HeadHighest
        <5>5. HighestWaiting(m) = BasePriority[Head(s)]
          <6>1. uxPriority[Head(s)] = BasePriority[Head(s)] BY <1>0, <5>4, WaiterBase DEF Waits
          <6> QED BY <1>0, <5>4, <6>1 DEF HighestWaiting, ValueInv
        <5> QED BY <1>a, <5>1, <5>2, <5>4, <5>5
      <4>4. uxPriority'[h] >= BasePriority[u]
        BY <3>5, <4>1, <4>2, <4>3 DEF Next, Step, vars, prioVars, TimeSlice, Call, Take, FindTaken,
            Retry, TimeOut, Delay, Tick
      <4> QED BY <2>1, <4>4
    <3> QED BY <3>4, <3>5
  <2> QED BY <1>1, <2>2, <2>3, <2>4, WaitsStep
<1>2. pxMutexHolder' \in [Mutexes -> Tasks \union {NULL}] BY CountsStep
<1>3. xTasksWaitingToReceive' \in [Mutexes -> Seq(Tasks)] BY ListsStep
<1> SUFFICES ASSUME NEW m \in Mutexes, pxMutexHolder'[m] # NULL,
                    NEW u \in ToSet(xTasksWaitingToReceive'[m])
             PROVE  uxPriority'[pxMutexHolder'[m]] >= uxPriority'[u]
  BY DEF HolderInherits
<1>4. u \in Tasks /\ Waits(u, m)'
  <2> DEFINE s == xTasksWaitingToReceive'[m]
  <2>1. s \in Seq(Tasks) BY <1>3
  <2>2. PICK i \in DOMAIN s : s[i] = u BY DEF ToSet
  <2>3. i \in 1 .. Len(s) /\ u \in Tasks BY <2>1, <2>2
  <2> QED BY <2>2, <2>3 DEF Waits, Member
<1>5. pxMutexHolder'[m] \in Tasks BY <1>2
<1> QED BY <1>1, <1>4, <1>5

\* Unless the processor is given up, no ready task is above the running one.
LEMMA RunsStep ==
    ASSUME ~NestedWaits, YieldsSuffice, BaseInv, PrioInv, [Next]_vars
    PROVE  HighestPriorityRuns'
<1>0. /\ TypeOK /\ ValueInv /\ HoldInv /\ SortedInv /\ LendInv /\ QueueInv /\ CallInv
      /\ pxCurrentTCB \in Tasks /\ state[pxCurrentTCB] = "ready"
      /\ state \in [Tasks -> {"ready", "blocked", "delayed"}]
      /\ \A u \in Tasks : state[u] = "ready" => uxPriority[u] <= uxPriority[pxCurrentTCB]
  BY DEF BaseInv, PriorityReturned, TypeOK, PrioInv, HighestPriorityRuns, HighestReady
<1>a. /\ \A u \in Tasks : uxPriority[u] \in Nat /\ uxPriority'[u] \in Nat /\ BasePriority[u] \in Nat
      /\ \A u \in Tasks : uxPriority[u] >= BasePriority[u]
  <2>1. uxPriority' \in [Tasks -> Priorities] BY PrioritiesStep
  <2>2. uxPriority \in [Tasks -> Priorities] BY <1>0 DEF TypeOK
  <2> QED BY <2>1, <2>2, PrioritiesNat DEF BaseInv, PriorityReturned
<1>1. SwitchContext => HighestPriorityRuns' BY DEF SwitchContext, HighestPriorityRuns
<1>2. ASSUME UNCHANGED pxCurrentTCB,
             \A u \in Tasks : state'[u] = "ready" => uxPriority'[u] <= uxPriority'[pxCurrentTCB]
      PROVE  HighestPriorityRuns'
  <2>1. state'[pxCurrentTCB'] = "ready" /\ pxCurrentTCB' \in Tasks
    BY StatesStep DEF RunningReady
  <2> QED BY <1>2, <2>1 DEF HighestPriorityRuns, HighestReady
<1>3. ASSUME UNCHANGED <<state, uxPriority, pxCurrentTCB>> PROVE HighestPriorityRuns'
  BY <1>0, <1>2, <1>3
<1>4. ASSUME NEW t \in Tasks, Tick(t) PROVE HighestPriorityRuns'
  <2>1. /\ state' = [state EXCEPT ![t] = "ready"] /\ UNCHANGED uxPriority
        /\ SwitchIf(uxPriority[t] >= uxPriority[pxCurrentTCB])
    BY <1>4 DEF Tick, prioVars
  <2>2. CASE uxPriority[t] >= uxPriority[pxCurrentTCB] BY <1>1, <2>1, <2>2 DEF SwitchIf
  <2>3. CASE ~(uxPriority[t] >= uxPriority[pxCurrentTCB])
    <3>1. UNCHANGED pxCurrentTCB BY <2>1, <2>3 DEF SwitchIf
    <3>2. ASSUME NEW u \in Tasks, state'[u] = "ready" PROVE uxPriority'[u] <= uxPriority'[pxCurrentTCB]
      <4>1. u = t \/ state[u] = "ready" BY <1>0, <2>1, <3>2
      <4> QED BY <1>0, <1>a, <2>1, <2>3, <4>1
    <3> QED BY <1>2, <3>1, <3>2
  <2> QED BY <2>2, <2>3
<1>5. ASSUME NEW x \in Tasks, Disinherit(x) PROVE HighestPriorityRuns'
  <2>1. UNCHANGED <<state, pxCurrentTCB>> /\ x = pxCurrentTCB BY <1>5 DEF Disinherit, Running
  <2>2. PICK m \in Mutexes :
            /\ m = wants[x] /\ pxMutexHolder[m] # x
            /\ \A u \in Tasks : \/ uxPriority'[u] = uxPriority[u]
                                \/ /\ pxMutexHolder[m] = u
                                   /\ uxPriority'[u] = Maximum(BasePriority[u], HighestWaiting(m))
    BY <1>5, DisinheritEffect
  <2>3. uxPriority'[x] = uxPriority[x] BY <2>2
  <2>4. ASSUME NEW u \in Tasks PROVE uxPriority'[u] <= uxPriority[u]
    <3>1. CASE uxPriority'[u] = uxPriority[u] BY <1>a, <3>1
    <3>2. CASE pxMutexHolder[m] = u /\ uxPriority'[u] = Maximum(BasePriority[u], HighestWaiting(m))
      <4> DEFINE s == xTasksWaitingToReceive[m]
      <4>1. s \in Seq(Tasks) /\ u # NULL BY <1>0, MutexConstants DEF TypeOK
      <4>2. HighestWaiting(m) \in Nat /\ uxPriority[u] >= HighestWaiting(m)
        <5>1. CASE s = << >>
          <6>1. HighestWaiting(m) = BasePriority[Idle] BY <5>1 DEF HighestWaiting
          <6>2. BasePriority[Idle] <= BasePriority[u] /\ BasePriority[Idle] \in Nat
            BY MutexConstants, PrioritiesNat
          <6> QED BY <1>a, <6>1, <6>2
        <5>2. CASE s # << >>
          <6>1. Head(s) \in ToSet(s) /\ Head(s) \in Tasks
            <7>1. 1 \in DOMAIN s /\ Head(s) = s[1] /\ s[1] \in Tasks BY <4>1, <5>2
            <7> QED BY <7>1 DEF ToSet
          <6>2. uxPriority[u] >= uxPriority[Head(s)]
            BY <3>2, <4>1, <6>1 DEF PrioInv, HolderInherits
          <6>3. HighestWaiting(m) = uxPriority[Head(s)]
            BY <1>0, <5>2 DEF HighestWaiting, ValueInv
          <6> QED BY <1>a, <6>1, <6>2, <6>3
        <5> QED BY <5>1, <5>2
      <4> HIDE DEF s
      <4> QED BY <1>a, <3>2, <4>2 DEF Maximum
    <3> QED BY <2>2, <3>1, <3>2
  <2>5. ASSUME NEW u \in Tasks, state'[u] = "ready" PROVE uxPriority'[u] <= uxPriority'[pxCurrentTCB]
    <3>1. uxPriority[u] <= uxPriority[x] BY <1>0, <2>1, <2>5
    <3> QED BY <1>a, <2>1, <2>3, <2>4, <3>1
  <2> QED BY <1>2, <2>1, <2>5
<1>6. ASSUME NEW t \in Tasks, NEW m \in Mutexes, Give(t, m) PROVE HighestPriorityRuns'
  <2> DEFINE s == xTasksWaitingToReceive[m]
  <2>1. /\ t = pxCurrentTCB /\ pxMutexHolder[m] = t
        /\ state' = [u \in Tasks |-> IF u \in Woken(m) THEN "ready" ELSE state[u]]
        /\ SwitchIf(GiveYields(t, Woken(m)))
    BY <1>6 DEF Give, Running
  <2>2. /\ \A u \in Tasks : u # t => uxPriority'[u] = uxPriority[u]
        /\ uxPriority'[t] = uxPriority[t] \/ uxPriority'[t] = BasePriority[t]
        /\ uxMutexesHeld[t] # 1 => uxPriority'[t] = uxPriority[t]
    BY <1>6, GiveEffect
  <2>3. CASE GiveYields(t, Woken(m)) BY <1>1, <2>1, <2>3 DEF SwitchIf
  <2>4. CASE ~GiveYields(t, Woken(m)) /\ s = << >>
    <3>1. Woken(m) = {} BY <2>4 DEF Woken
    <3>2. ~Disinherits(t) BY <2>4, <3>1 DEF GiveYields
    <3>3. UNCHANGED uxPriority BY <1>6, <3>2 DEF Give
    <3>4. UNCHANGED state BY <1>0, <2>1, <3>1
    <3>5. UNCHANGED pxCurrentTCB BY <2>1, <2>4, Zenon DEF SwitchIf
    <3> QED BY <1>3, <3>3, <3>4, <3>5
  <2>5. CASE ~GiveYields(t, Woken(m)) /\ s # << >>
    <3>1. PICK w \in Tasks : w = Head(s) /\ Waits(w, m) /\ Taker(w, m)' BY <1>6, <2>5, GiveWakes
    <3>2. Woken(m) = {w} BY <2>5, <3>1 DEF Woken
    <3>3. ~(uxPriority'[w] > uxPriority'[t]) BY <2>5, <3>2 DEF GiveYields
    <3>4. w # t /\ wants[w] = m /\ pc[w] = "pass"
      BY <1>0, <2>1, <3>1 DEF QueueInv
    <3>5. uxPriority'[w] = BasePriority[w]
      BY <1>0, <2>2, <3>1, <3>4, WaiterBase
    <3>6. uxPriority'[t] = uxPriority[t]
      <4> SUFFICES ASSUME uxPriority'[t] # uxPriority[t] PROVE FALSE OBVIOUS
      <4>1. uxMutexesHeld[t] = 1 /\ uxPriority'[t] = BasePriority[t] BY <2>2
      <4>2. m \in Held(t) BY <2>1 DEF Held
      <4>3. CASE BelowAll(t)
        <5>1. m \in Takes[t] /\ m \in Takes[w] BY <1>0, <3>4, <4>2 DEF HoldInv, CallInv
        <5>2. Shares(t, w) BY <5>1 DEF Shares
        <5>3. BasePriority[w] > BasePriority[t] BY <3>4, <4>3, <5>2 DEF BelowAll
        <5> QED BY <3>3, <3>5, <4>1, <5>3
      <4>4. CASE ~BelowAll(t)
        <5>1. PICK n \in Held(t), u \in Tasks : Waits(u, n) /\ BasePriority[u] >= uxPriority[t]
          BY <1>0, <4>1, <4>4 DEF LendInv
        <5>2. n = m BY <4>1, <4>2, <5>1, OneHeld
        <5>3. s \in Seq(Tasks) /\ Sorted(s) /\ Member(s, u)
          BY <1>0, <5>1, <5>2 DEF TypeOK, SortedInv, Waits
        <5>4. BasePriority[w] >= BasePriority[u] BY <3>1, <5>3, HeadHighest
        <5>5. uxPriority[t] > BasePriority[t] BY <1>a, <4>1
        <5> QED BY <1>a, <3>3, <3>5, <4>1, <5>1, <5>4, <5>5
      <4> QED BY <4>3, <4>4
    <3>7. ASSUME NEW u \in Tasks, state'[u] = "ready"
          PROVE  uxPriority'[u] <= uxPriority'[pxCurrentTCB]
      <4>1. CASE u = w BY <1>a, <2>1, <3>3, <4>1
      <4>2. CASE u # w
        <5>1. state[u] = "ready" BY <1>0, <2>1, <3>2, <3>7, <4>2
        <5>2. uxPriority'[u] = uxPriority[u] BY <2>2, <3>6
        <5> QED BY <1>0, <2>1, <3>6, <5>1, <5>2
      <4> QED BY <4>1, <4>2
    <3>8. UNCHANGED pxCurrentTCB BY <2>1, <2>5, Zenon DEF SwitchIf
    <3> QED BY <1>2, <3>7, <3>8
  <2> QED BY <2>3, <2>4, <2>5
<1>7. ASSUME NEW t \in Tasks, Block(t) \/ Delay(t) PROVE HighestPriorityRuns'
  BY <1>1, <1>7 DEF Block, Delay
<1>8. ASSUME NEW t \in Tasks,
             Call(t) \/ Take(t) \/ FindTaken(t) \/ Retry(t) \/ TimeOut(t)
      PROVE  HighestPriorityRuns'
  BY <1>3, <1>8 DEF Call, Take, FindTaken, Retry, TimeOut, prioVars
<1>9. TimeSlice => HighestPriorityRuns' BY <1>1 DEF TimeSlice
<1>10. UNCHANGED vars => HighestPriorityRuns' BY <1>3 DEF vars, prioVars
<1> QED BY <1>4, <1>5, <1>6, <1>7, <1>8, <1>9, <1>10 DEF Next, Step

LEMMA PrioStep ==
    ASSUME ~NestedWaits, YieldsSuffice, BaseInv, PrioInv, [Next]_vars
    PROVE  PrioInv'
<1>1. HoldInv /\ SortedInv /\ FreeInv BY DEF PrioInv
<1> QED BY <1>1, HoldStep, SortedStep, FreeStep, LendStep, InheritsStep, RunsStep DEF PrioInv

LEMMA PrioInit == Init => PrioInv
<1> SUFFICES ASSUME Init PROVE PrioInv OBVIOUS
<1>1. /\ pxMutexHolder = [m \in Mutexes |-> NULL]
      /\ xTasksWaitingToReceive = [m \in Mutexes |-> << >>]
      /\ uxPriority = BasePriority
      /\ state = [t \in Tasks |-> "ready"] /\ pc = [t \in Tasks |-> "app"]
      /\ pxCurrentTCB \in {t \in Tasks : \A u \in Tasks : BasePriority[u] <= BasePriority[t]}
  BY DEF Init
<1>2. NULL \notin Tasks BY MutexConstants
<1>3. \A t \in Tasks : Held(t) = {} BY <1>1, <1>2 DEF Held
<1>4. HoldInv BY <1>1, <1>3 DEF HoldInv
<1>5. SortedInv BY <1>1 DEF SortedInv, Sorted
<1>6. FreeInv BY <1>1 DEF FreeInv
<1>7. LendInv BY <1>1 DEF LendInv
<1>8. HolderInherits BY <1>1 DEF HolderInherits
<1>9. HighestPriorityRuns BY <1>1 DEF HighestPriorityRuns, HighestReady
<1> QED BY <1>4, <1>5, <1>6, <1>7, <1>8, <1>9 DEF PrioInv

LEMMA BothInvariant ==
    ~NestedWaits /\ YieldsSuffice => (Spec => [](BaseInv /\ PrioInv))
<1> SUFFICES ASSUME ~NestedWaits, YieldsSuffice PROVE Spec => [](BaseInv /\ PrioInv)
  OBVIOUS
<1>1. Init => BaseInv /\ PrioInv BY BaseInit, PrioInit
<1>2. BaseInv /\ PrioInv /\ [Next]_vars => (BaseInv /\ PrioInv)' BY BaseStep, PrioStep
<1> QED BY <1>1, <1>2, PTL DEF Spec

\* Where tasks do not wait for one mutex while holding another and the yields
\* suffice, the holder of a mutex has at least the priority of each task that
\* waits for it: what timed out waiters take back leaves what the others lend.
\* (xTaskPriorityInherit, vTaskPriorityDisinheritAfterTimeout.)
THEOREM Inherits ==
    ~NestedWaits /\ YieldsSuffice => (Spec => []HolderInherits)
<1> SUFFICES ASSUME ~NestedWaits, YieldsSuffice PROVE Spec => []HolderInherits
  OBVIOUS
<1>1. BaseInv /\ PrioInv => HolderInherits BY DEF PrioInv
<1> QED BY <1>1, BothInvariant, PTL

\* ... and no ready task is above the one that runs, whatever was inherited
\* and given back: the yields of xQueueGenericSend are enough there.
THEOREM Preemptive ==
    ~NestedWaits /\ YieldsSuffice => (Spec => []HighestPriorityRuns)
<1> SUFFICES ASSUME ~NestedWaits, YieldsSuffice PROVE Spec => []HighestPriorityRuns
  OBVIOUS
<1>1. BaseInv /\ PrioInv => HighestPriorityRuns BY DEF PrioInv
<1> QED BY <1>1, BothInvariant, PTL
=============================================================================
