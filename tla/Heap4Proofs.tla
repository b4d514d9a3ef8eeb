----------------------------- MODULE Heap4Proofs -----------------------------
(***************************************************************************)
(* Proofs about Heap4 for any heap, any sizes asked for and any number of  *)
(* tasks: the blocks tile the heap, the list is merged and in order, the   *)
(* count of free bytes is right, and memory is refused only when no gap is *)
(* large enough.                                                           *)
(***************************************************************************)
EXTENDS Heap4, FiniteSetTheorems, TLAPS

-----------------------------------------------------------------------------
(* Least and greatest elements: what takes the place of induction here *)

LEMMA SmallestElement ==
    ASSUME NEW S \in SUBSET Nat, S # {}
    PROVE  \E x \in S : \A y \in S : x <= y
<1> DEFINE Upto(k) == S \intersect (0 .. k)
           Ts == {Upto(k) : k \in S}
<1>1. Ts \subseteq FiniteSubsetsOf(S)
  <2> SUFFICES ASSUME NEW k \in S PROVE Upto(k) \in FiniteSubsetsOf(S) OBVIOUS
  <2>1. IsFiniteSet(0 .. k) BY FS_Interval
  <2>2. IsFiniteSet(Upto(k)) BY <2>1, FS_Intersection
  <2> QED BY <2>2 DEF FiniteSubsetsOf
<1>2. Ts # {} OBVIOUS
<1>3. PICK T \in Ts : \A U \in Ts : <<U, T>> \notin StrictSubsetOrdering(S)
  <2> HIDE DEF Ts
  <2> QED BY <1>1, <1>2, FS_StrictSubsetOrderingWellFounded, WFMin
<1>4. PICK x \in S : T = Upto(x) BY <1>3
<1>5. ASSUME NEW y \in S PROVE x <= y
  <2> SUFFICES ASSUME y < x PROVE FALSE OBVIOUS
  <2>1. Upto(y) \subseteq Upto(x) /\ x \in Upto(x) /\ x \notin Upto(y) BY <1>5
  <2>2. <<Upto(y), Upto(x)>> \in StrictSubsetOrdering(S)
    <3>1. Upto(y) \in SUBSET S /\ Upto(x) \in SUBSET S /\ Upto(y) # Upto(x) BY <2>1
    <3> HIDE DEF Upto
    <3> QED BY <2>1, <3>1 DEF StrictSubsetOrdering
  <2> QED BY <1>3, <1>4, <2>2
<1> QED BY <1>5

LEMMA GreatestElement ==
    ASSUME NEW N \in Nat, NEW S \in SUBSET (0 .. N), S # {}
    PROVE  \E x \in S : \A y \in S : y <= x
<1> DEFINE T == {N - x : x \in S}
<1>1. T \in SUBSET Nat /\ T # {} OBVIOUS
<1>2. PICK z \in T : \A y \in T : z <= y
  <2> HIDE DEF T
  <2> QED BY <1>1, SmallestElement
<1>3. PICK x \in S : z = N - x BY <1>2
<1>4. ASSUME NEW y \in S PROVE y <= x
  <2>1. N - y \in T OBVIOUS
  <2>2. N - x <= N - y BY <1>2, <1>3, <2>1
  <2> QED BY <2>2
<1> QED BY <1>4

Least(S) == CHOOSE x \in S : \A y \in S : x <= y

LEMMA LeastIs ==
    ASSUME NEW S \in SUBSET Nat, S # {}
    PROVE  Least(S) \in S /\ \A y \in S : Least(S) <= y
BY SmallestElement DEF Least

-----------------------------------------------------------------------------
(* Addresses and sizes *)

Limit == xBlockAllocatedBit

LEMMA AlignFacts ==
    ASSUME NEW a \in Nat
    PROVE  /\ AlignDown(a) \in Nat /\ AlignDown(a) % 4 = 0
           /\ AlignDown(a) <= a /\ a < AlignDown(a) + 4
           /\ AlignUp(a) \in Nat /\ AlignUp(a) % 4 = 0
           /\ a <= AlignUp(a) /\ AlignUp(a) < a + 4
<1>1. \A x \in Nat : /\ AlignDown(x) \in Nat /\ AlignDown(x) % 4 = 0
                     /\ AlignDown(x) <= x /\ x < AlignDown(x) + 4
  <2> SUFFICES ASSUME NEW x \in Nat
               PROVE  /\ AlignDown(x) \in Nat /\ AlignDown(x) % 4 = 0
                      /\ AlignDown(x) <= x /\ x < AlignDown(x) + 4
    OBVIOUS
  <2>1. AlignDown(x) = x - (x % 4) BY DEF AlignDown, portBYTE_ALIGNMENT
  <2>2. x % 4 \in 0 .. 3 /\ x \div 4 \in Nat /\ x = 4 * (x \div 4) + (x % 4) OBVIOUS
  <2>3. AlignDown(x) = 4 * (x \div 4) BY <2>1, <2>2
  <2>4. (4 * (x \div 4)) % 4 = 0 BY <2>2
  <2> QED BY <2>1, <2>2, <2>3, <2>4
<1>2. AlignUp(a) = AlignDown(a + 3) BY DEF AlignUp, portBYTE_ALIGNMENT
<1>3. a + 3 \in Nat OBVIOUS
<1>4. /\ AlignUp(a) \in Nat /\ AlignUp(a) % 4 = 0
      /\ AlignUp(a) <= a + 3 /\ a + 3 < AlignUp(a) + 4
  BY <1>1, <1>2, <1>3
<1>5. a <= AlignUp(a) /\ AlignUp(a) < a + 4 BY <1>4
<1> QED BY <1>1, <1>4, <1>5

LEMMA HeapFacts ==
    ASSUME HeapConstants
    PROVE  /\ HeapStart \in Nat /\ pxEnd \in Nat /\ Limit \in Nat
           /\ HeapStart % 4 = 0 /\ pxEnd % 4 = 0 /\ Limit % 4 = 0
           /\ 0 < HeapStart /\ HeapStart + 8 < pxEnd /\ pxEnd < Limit
           /\ xStart = 0 /\ NULL = -1 /\ xHeapStructSize = 8
<1>1. ucHeap \in Nat /\ ucHeap > 0 /\ TotalHeapSize \in Nat /\ TotalHeapSize >= 24
      /\ Limit \in Nat /\ Limit % 4 = 0 /\ ucHeap + TotalHeapSize < Limit
  BY DEF HeapConstants, xHeapStructSize, portBYTE_ALIGNMENT, Limit
<1>2. HeapStart \in Nat /\ HeapStart % 4 = 0 /\ ucHeap <= HeapStart /\ HeapStart < ucHeap + 4
  BY <1>1, AlignFacts DEF HeapStart
<1>3. /\ pxEnd \in Nat /\ pxEnd % 4 = 0 /\ pxEnd <= ucHeap + TotalHeapSize - 8
      /\ ucHeap + TotalHeapSize - 8 < pxEnd + 4
  <2>1. ucHeap + TotalHeapSize - 8 \in Nat BY <1>1
  <2> QED BY <2>1, AlignFacts DEF pxEnd, xHeapStructSize
<1>4. HeapStart + 8 < pxEnd BY <1>1, <1>2, <1>3
<1> QED BY <1>1, <1>2, <1>3, <1>4 DEF xStart, NULL, xHeapStructSize

LEMMA LinkFacts ==
    ASSUME HeapConstants
    PROVE  /\ Links = Blocks \union {xStart, pxEnd}
           /\ Links \subseteq 0 .. pxEnd /\ Blocks \subseteq Nat
           /\ \A b \in Blocks : HeapStart <= b /\ b < pxEnd /\ b % 4 = 0 /\ b > 0
           /\ \A a \in HeapStart .. pxEnd - 1 : a % 4 = 0 => a \in Blocks
           /\ xStart \notin Blocks /\ pxEnd \notin Blocks /\ xStart # pxEnd
           /\ HeapStart \in Blocks
           /\ NULL \notin Links
BY HeapFacts DEF Links, Blocks, portBYTE_ALIGNMENT

LEMMA BitFacts ==
    ASSUME NEW B \in Nat, NEW s \in Nat
    PROVE  /\ s < B => s % B = s
           /\ B <= s /\ s < 2 * B => s % B = s - B
<1>1. s < B => s % B = s OBVIOUS
<1>2. ASSUME B <= s, s < 2 * B PROVE s % B = s - B
  <2>1. (s - B) % B = s - B BY <1>2
  <2>2. s = (s - B) + B /\ s - B \in Nat /\ B > 0 BY <1>2
  <2>3. s - B < B BY <1>2
  <2> DEFINE q == s \div B
             r == s % B
  <2>4. q \in Int /\ r \in 0 .. B - 1 /\ s = B * q + r BY <2>2
  <2> HIDE DEF q, r
  <2>5. CASE q >= 2
    <3>1. B * q >= B * 2 BY <2>2, <2>4, <2>5
    <3> QED BY <1>2, <2>4, <3>1
  <2>6. CASE q <= 0
    <3>1. B * q <= 0 BY <2>2, <2>4, <2>6
    <3> QED BY <1>2, <2>4, <3>1
  <2>7. CASE q = 1 BY <2>4, <2>7 DEF r
  <2> QED BY <2>4, <2>5, <2>6, <2>7
<1> QED BY <1>1, <1>2

-----------------------------------------------------------------------------
(* The list *)

\* The links of the list, in order: each leads to the next one.
Linked(next, F) ==
    /\ F \subseteq Blocks
    /\ \A a \in F \union {xStart} :
          /\ next[a] \in F \union {pxEnd} /\ a < next[a]
          /\ \A c \in F : c > a => c >= next[a]

\* A walk along the list ends at the first link it does not go on from.
LEMMA WalkEnds ==
    ASSUME HeapConstants, NEW next, NEW F, Linked(next, F),
           NEW G \in SUBSET Links, \A a \in G : next[a] \in F
    PROVE  LET w == Walk(next, G)
           IN  /\ w \in (F \union {xStart}) \ G
               /\ \A c \in F \union {xStart} : c < w => c \in G
<1> DEFINE L == F \union {xStart}
<1>0. /\ L \subseteq 0 .. pxEnd /\ L \subseteq Links /\ L \subseteq Nat /\ pxEnd \in Nat
      /\ xStart = 0
  BY HeapFacts, LinkFacts DEF Linked
<1>a. \A x \in L : x \in Nat /\ x >= xStart BY <1>0
<1>1. \A a \in G : next[a] \in L OBVIOUS
<1>2. \A a \in L : a \in G => next[a] > a /\ \A c \in L : c > a => c >= next[a]
  <2> SUFFICES ASSUME NEW a \in L, a \in G PROVE next[a] > a /\ \A c \in L : c > a => c >= next[a]
    OBVIOUS
  <2>1. next[a] \in Nat /\ next[a] > a /\ \A c \in F : c > a => c >= next[a]
    BY <1>0, <1>1 DEF Linked
  <2> QED BY <1>0, <2>1
<1> HIDE DEF L
\* From each link the walk would end at this one.
<1> DEFINE Stops(a) == {e \in L \ G : e >= a}
           Stop(a) == Least(Stops(a))
<1>3. ASSUME NEW a \in L PROVE Stops(a) # {}
  <2> SUFFICES ASSUME Stops(a) = {} PROVE FALSE OBVIOUS
  <2> DEFINE S == {e \in L : e >= a}
  <2>1. S \subseteq 0 .. pxEnd BY <1>0
  <2>2. a \in S BY <1>0
  <2>3. PICK x \in S : \A y \in S : y <= x
    <3> HIDE DEF S
    <3> QED BY <1>0, <2>1, <2>2, GreatestElement
  <2>4. x \in L /\ x >= a OBVIOUS
  <2>5. x \in G BY <1>3, <2>4
  <2>6. next[x] \in L /\ next[x] > x BY <1>1, <1>2, <2>4, <2>5
  <2>a. x \in Nat /\ a \in Nat /\ next[x] \in Nat BY <1>a, <1>3, <2>4, <2>6
  <2>b. next[x] >= a BY <2>4, <2>6, <2>a
  <2>7. next[x] \in S BY <2>6, <2>b
  <2>8. next[x] <= x BY <2>3, <2>7
  <2>9. x \in Nat /\ next[x] \in Nat BY <1>0, <2>4, <2>6
  <2> QED BY <2>6, <2>8, <2>9
<1>4. ASSUME NEW a \in L
      PROVE  /\ Stop(a) \in L \ G /\ Stop(a) >= a
             /\ \A d \in L \ G : d >= a => Stop(a) <= d
  <2>1. Stops(a) \subseteq Nat /\ Stops(a) # {} BY <1>0, <1>3
  <2>2. Stop(a) \in Stops(a) /\ \A d \in Stops(a) : Stop(a) <= d
    <3> HIDE DEF Stops
    <3> QED BY <2>1, LeastIs
  <2> QED BY <2>2
<1>5. ASSUME NEW a \in L, a \notin G PROVE Stop(a) = a
  <2>1. Stop(a) <= a /\ Stop(a) >= a /\ Stop(a) \in Nat /\ a \in Nat
    <3> HIDE DEF Stop
    <3> QED BY <1>a, <1>4, <1>5
  <2> HIDE DEF Stop
  <2> QED BY <2>1
<1>6. ASSUME NEW a \in L, a \in G PROVE Stop(a) = Stop(next[a])
  <2>1. next[a] \in L /\ next[a] > a /\ \A c \in L : c > a => c >= next[a] BY <1>1, <1>2, <1>6
  <2>2. Stops(a) = Stops(next[a])
    <3>1. ASSUME NEW e \in L \ G PROVE e >= a <=> e >= next[a]
      <4>1. e # a BY <1>6
      <4>2. e \in Nat /\ a \in Nat /\ next[a] \in Nat BY <1>0, <2>1, <3>1
      <4>3. e > a => e >= next[a] BY <2>1, <3>1
      <4> QED BY <2>1, <4>1, <4>2, <4>3
    <3> QED BY <3>1
  <2> QED BY <2>2
<1> HIDE DEF Stop
<1> DEFINE fn == [a \in Links |-> IF a \in G THEN Stop(next[a]) ELSE a]
<1>7. fn = [a \in Links |-> IF a \in G THEN fn[next[a]] ELSE a]
  <2>1. ASSUME NEW a \in Links, a \in G PROVE fn[next[a]] = Stop(next[a])
    <3>1. next[a] \in L /\ next[a] \in Links BY <1>0, <1>1, <2>1
    <3>2. CASE next[a] \in G BY <1>6, <3>1, <3>2
    <3>3. CASE next[a] \notin G BY <1>5, <3>1, <3>3
    <3> QED BY <3>2, <3>3
  <2> QED BY <2>1
<1> DEFINE walk == CHOOSE f : f = [a \in Links |-> IF a \in G THEN f[next[a]] ELSE a]
<1>8. walk = [a \in Links |-> IF a \in G THEN walk[next[a]] ELSE a]
  <2> HIDE DEF fn
  <2>1. \E f : f = [a \in Links |-> IF a \in G THEN f[next[a]] ELSE a] BY <1>7
  <2> QED BY <2>1
<1>9. Walk(next, G) = walk[xStart] BY DEF Walk
<1> HIDE DEF walk
<1>10. ASSUME NEW a \in L PROVE walk[a] = Stop(a)
  <2> DEFINE Wrong == {e \in L : walk[e] # Stop(e)}
  <2> SUFFICES ASSUME Wrong # {} PROVE FALSE BY <1>10
  <2>1. Wrong \in SUBSET (0 .. pxEnd) BY <1>0
  <2>2. PICK x \in Wrong : \A y \in Wrong : y <= x
    <3> HIDE DEF Wrong
    <3> QED BY <1>0, <2>1, GreatestElement
  <2>3. x \in L /\ x \in Links BY <1>0
  <2>4. CASE x \in G
    <3>1. next[x] \in L /\ next[x] > x BY <1>1, <1>2, <2>3, <2>4
    <3>2. x \in Nat /\ next[x] \in Nat BY <1>0, <2>3, <3>1
    <3>3. next[x] \notin Wrong BY <2>2, <3>1, <3>2
    <3>4. walk[next[x]] = Stop(next[x]) BY <3>1, <3>3
    <3>5. walk[x] = walk[next[x]] BY <1>8, <2>3, <2>4
    <3>6. walk[x] = Stop(x) BY <1>6, <2>3, <2>4, <3>4, <3>5
    <3> QED BY <3>6
  <2>5. CASE x \notin G
    <3>1. walk[x] = x BY <1>8, <2>3, <2>5
    <3>2. walk[x] = Stop(x) BY <1>5, <2>3, <2>5, <3>1
    <3> QED BY <3>2
  <2> QED BY <2>4, <2>5
<1>11. xStart \in L BY DEF L
<1>12. Walk(next, G) = Stop(xStart) BY <1>9, <1>10, <1>11
<1>13. /\ Stop(xStart) \in L \ G
       /\ \A d \in L \ G : d >= xStart => Stop(xStart) <= d
  BY <1>4, <1>11
<1>14. ASSUME NEW c \in L, c < Stop(xStart) PROVE c \in G
  <2>1. c \in Nat /\ Stop(xStart) \in Nat /\ c >= xStart BY <1>a, <1>13, <1>14
  <2> QED BY <1>13, <1>14, <2>1
<1> QED BY <1>12, <1>13, <1>14 DEF L

-----------------------------------------------------------------------------
(* Tiles *)

\* The blocks in all, of the lengths len, cover the heap and do not overlap.
Tiled(len, all) ==
    /\ HeapStart \in all /\ all \subseteq Blocks
    /\ \A b \in all :
          /\ len[b] \in Nat /\ len[b] > xHeapStructSize
          /\ b + len[b] \in all \union {pxEnd}
          /\ \A c \in all : c > b => c >= b + len[b]

\* The numbers in Tiled are natural.
LEMMA TileFacts ==
    ASSUME HeapConstants, NEW len, NEW all, Tiled(len, all)
    PROVE  /\ \A b \in all : /\ b \in Nat /\ len[b] \in Nat /\ len[b] > 8 /\ b % 4 = 0
                             /\ b >= HeapStart /\ b < pxEnd /\ b \in Blocks
                             /\ b + len[b] <= pxEnd
           /\ pxEnd \in Nat /\ pxEnd \notin all
<1>1. pxEnd \in Nat /\ pxEnd \notin all /\ \A b \in all : b \in Nat /\ b < pxEnd /\ b >= HeapStart /\ b % 4 = 0
  BY HeapFacts, LinkFacts DEF Tiled
<1>2. ASSUME NEW b \in all
      PROVE  len[b] \in Nat /\ len[b] > 8 /\ b + len[b] <= pxEnd /\ b \in Blocks
  <2>1. len[b] \in Nat /\ len[b] > 8 /\ b + len[b] \in all \union {pxEnd} /\ b \in Blocks
    BY <1>2 DEF Tiled, xHeapStructSize
  <2>2. b \in Nat /\ b + len[b] \in Nat BY <1>1, <2>1
  <2>3. b + len[b] <= pxEnd BY <1>1, <2>1, <2>2
  <2> QED BY <2>1, <2>3
<1> QED BY <1>1, <1>2

\* Different tiles end at different places.
LEMMA TilesApart ==
    ASSUME HeapConstants, NEW len, NEW all, Tiled(len, all),
           NEW b \in all, NEW c \in all, b + len[b] = c + len[c]
    PROVE  b = c
<1>1. b \in Nat /\ c \in Nat /\ len[b] \in Nat /\ len[c] \in Nat /\ len[b] > 8 /\ len[c] > 8
  BY TileFacts
<1>2. (c > b => c >= b + len[b]) /\ (b > c => b >= c + len[c]) BY DEF Tiled
<1> DEFINE lb == len[b]
           lc == len[c]
<1>3. lb \in Nat /\ lc \in Nat /\ lb > 8 /\ lc > 8 /\ b + lb = c + lc
      /\ (c > b => c >= b + lb) /\ (b > c => b >= c + lc)
  BY <1>1, <1>2
<1> HIDE DEF lb, lc
<1> QED BY <1>1, <1>3

\* Two neighbours become one.
OneOfTwo(len, all, x, y, len2) ==
    /\ Tiled(len, all)
    /\ x \in all /\ y \in all /\ y = x + len[x]
    /\ len2[x] = len[x] + len[y]
    /\ \A b \in all \ {x, y} : len2[b] = len[b]

LEMMA TileJoin ==
    ASSUME HeapConstants, NEW len, NEW all, NEW x, NEW y, NEW len2, OneOfTwo(len, all, x, y, len2)
    PROVE  Tiled(len2, all \ {y})
<1> USE DEF OneOfTwo
<1>1. /\ x \in Nat /\ y \in Nat /\ len[x] \in Nat /\ len[y] \in Nat /\ len[x] > 8 /\ len[y] > 8
      /\ HeapStart \in Nat /\ x >= HeapStart /\ y + len[y] <= pxEnd /\ pxEnd \in Nat
  BY TileFacts, HeapFacts
<1>2. y > x /\ y # HeapStart BY <1>1
<1>3. HeapStart \in all \ {y} /\ all \ {y} \subseteq Blocks BY <1>2 DEF Tiled
<1>4. /\ len2[x] \in Nat /\ len2[x] > xHeapStructSize
      /\ x + len2[x] \in (all \ {y}) \union {pxEnd}
      /\ \A c \in all \ {y} : c > x => c >= x + len2[x]
  <2>1. x + len2[x] = y + len[y] /\ len2[x] \in Nat /\ len2[x] > 8 /\ y + len[y] # y BY <1>1
  <2>2. y + len[y] \in all \union {pxEnd} BY DEF Tiled
  <2>3. ASSUME NEW c \in all \ {y}, c > x PROVE c >= y + len[y]
    <3>1. c \in Nat BY <2>3, TileFacts
    <3>2. c >= x + len[x] BY <2>3 DEF Tiled
    <3>3. c > y BY <1>1, <2>3, <3>1, <3>2
    <3> QED BY <2>3, <3>3 DEF Tiled
  <2> QED BY <2>1, <2>2, <2>3 DEF xHeapStructSize
<1>5. ASSUME NEW b \in all \ {x, y}
      PROVE  /\ len2[b] \in Nat /\ len2[b] > xHeapStructSize
             /\ b + len2[b] \in (all \ {y}) \union {pxEnd}
             /\ \A c \in all \ {y} : c > b => c >= b + len2[b]
  <2>1. len2[b] = len[b] BY <1>5
  <2>2. /\ len[b] \in Nat /\ len[b] > xHeapStructSize /\ b + len[b] \in all \union {pxEnd}
        /\ \A c \in all : c > b => c >= b + len[b]
    BY <1>5 DEF Tiled
  <2>3. b + len[b] # y BY <1>5, TilesApart
  <2> QED BY <2>1, <2>2, <2>3
<1> QED BY <1>3, <1>4, <1>5 DEF Tiled

\* One block becomes two.
LEMMA TileSplit ==
    ASSUME HeapConstants, NEW len, NEW all, Tiled(len, all),
           NEW x \in all, NEW n \in Nat, n > 8, len[x] - n > 8, x + n \in Blocks,
           NEW len2, len2[x] = n, len2[x + n] = len[x] - n,
           \A b \in all \ {x} : len2[b] = len[b]
    PROVE  /\ x + n \notin all
           /\ Tiled(len2, all \union {x + n})
<1> DEFINE z == x + n
<1>1. /\ x \in Nat /\ len[x] \in Nat /\ z \in Nat /\ z > x /\ z < x + len[x]
      /\ z + len2[z] = x + len[x] /\ len2[z] \in Nat /\ len2[z] > 8 /\ z \in Blocks
      /\ len2[x] = n /\ x + len2[x] = z /\ len2[x] > 8
  BY TileFacts
<1>2. /\ x + len[x] \in all \union {pxEnd}
      /\ \A c \in all : c > x => c >= x + len[x]
  BY DEF Tiled
<1>3. \A c \in all : c \in Nat BY TileFacts
<1>4. z \notin all
  <2>1. z \in all => z >= x + len[x] BY <1>1, <1>2
  <2> QED BY <1>1, <2>1
<1> HIDE DEF z
<1>5. ASSUME NEW c \in all, c > x PROVE c > z /\ c >= z + len2[z]
  <2>1. c >= x + len[x] BY <1>2, <1>5
  <2> QED BY <1>1, <1>3, <2>1
<1>6. ASSUME NEW b \in all \ {x}
      PROVE  /\ len2[b] \in Nat /\ len2[b] > xHeapStructSize
             /\ b + len2[b] \in all \union {pxEnd}
             /\ \A c \in all \union {z} : c > b => c >= b + len2[b]
  <2>1. len2[b] = len[b] BY <1>6
  <2>2. /\ len[b] \in Nat /\ len[b] > xHeapStructSize /\ b + len[b] \in all \union {pxEnd}
        /\ \A c \in all : c > b => c >= b + len[b]
    BY <1>6 DEF Tiled
  <2>3. ASSUME z > b PROVE z >= b + len[b]
    <3>1. b \in Nat /\ b # x BY <1>3, <1>6
    <3>2. ~(b > x) BY <1>1, <1>5, <1>6, <2>3, <3>1
    <3>3. x > b BY <1>1, <3>1, <3>2
    <3>4. x >= b + len[b] BY <2>2, <3>3
    <3> QED BY <1>1, <2>2, <3>1, <3>4
  <2> QED BY <2>1, <2>2, <2>3
<1>7. /\ HeapStart \in all /\ all \union {z} \subseteq Blocks BY <1>1 DEF Tiled
<1>8. /\ len2[x] \in Nat /\ len2[x] > xHeapStructSize
      /\ x + len2[x] \in all \union {z} \union {pxEnd}
      /\ \A c \in all \union {z} : c > x => c >= x + len2[x]
  <2>1. \A c \in all : c > x => c >= x + len2[x] BY <1>1, <1>3, <1>5
  <2> QED BY <1>1, <2>1 DEF xHeapStructSize
<1>9. /\ len2[z] \in Nat /\ len2[z] > xHeapStructSize
      /\ z + len2[z] \in all \union {z} \union {pxEnd}
      /\ \A c \in all \union {z} : c > z => c >= z + len2[z]
  <2>1. \A c \in all : c > z => c > x BY <1>1, <1>3
  <2>2. \A c \in all : c > z => c >= z + len2[z] BY <1>5, <2>1
  <2>3. ~(z > z) BY <1>1
  <2> QED BY <1>1, <1>2, <2>2, <2>3 DEF xHeapStructSize
<1>10. Tiled(len2, all \union {z}) BY <1>6, <1>7, <1>8, <1>9 DEF Tiled
<1> QED BY <1>4, <1>10 DEF z

\* Every address is in a tile.
LEMMA TileOf ==
    ASSUME HeapConstants, NEW len, NEW all, Tiled(len, all),
           NEW k \in HeapStart .. pxEnd - 1
    PROVE  \E x \in all : x <= k /\ k < x + len[x]
<1> DEFINE S == {x \in all : x <= k}
<1>0. /\ HeapStart \in Nat /\ pxEnd \in Nat /\ k \in Nat /\ HeapStart <= k /\ k < pxEnd
      /\ \A x \in all : x \in Nat /\ len[x] \in Nat
  BY HeapFacts, TileFacts
<1>1. S \subseteq 0 .. k BY <1>0
<1>2. HeapStart \in S BY <1>0 DEF Tiled
<1>3. PICK x \in S : \A y \in S : y <= x
  <2> HIDE DEF S
  <2> QED BY <1>0, <1>1, <1>2, GreatestElement
<1>4. x \in all /\ x <= k BY <1>3
<1>5. x + len[x] \in all \union {pxEnd} /\ len[x] > 8 BY <1>4, TileFacts DEF Tiled
<1>6. ASSUME x + len[x] <= k PROVE FALSE
  <2>1. x + len[x] \in Nat BY <1>0, <1>4
  <2>2. x + len[x] # pxEnd BY <1>0, <1>6, <2>1
  <2>3. x + len[x] \in S BY <1>5, <1>6, <2>2
  <2>4. x + len[x] <= x BY <1>3, <2>3
  <2> QED BY <1>0, <1>4, <1>5, <2>4
<1>7. k < x + len[x] BY <1>0, <1>4, <1>6
<1> QED BY <1>4, <1>7

-----------------------------------------------------------------------------
(* prvInsertBlockIntoFreeList *)

Lengths(size) == [a \in Links |-> size[a] % xBlockAllocatedBit]

\* A memory in which the blocks in F are free and linked and those in U are not.
Heap(m, F, U) ==
    /\ m = Memory(m.next, m.size)
    /\ m.next \in [Links -> Links \union {NULL}] /\ m.size \in [Links -> Sizes]
    /\ Linked(m.next, F)
    /\ \A a \in Links \ (F \union U \union {xStart}) : m.next[a] = NULL
    /\ F \intersect U = {}
    /\ Tiled(Lengths(m.size), F \union U)
    /\ \A b \in F : m.size[b] < xBlockAllocatedBit
    /\ m.size[pxEnd] = 0

\* The block behind b is not free.
Apart(m, b) == m.next[b] # pxEnd => m.next[b] > b + m.size[b]
Merged(m, F) == \A b \in F : Apart(m, b)

\* The addresses in the blocks.
Bytes(m, F) == UNION {b .. b + m.size[b] - 1 : b \in F}

LEMMA BytesIn ==
    ASSUME NEW m, NEW F, NEW k
    PROVE  k \in Bytes(m, F) <=> \E b \in F : k \in b .. b + m.size[b] - 1
BY DEF Bytes

\* The lengths of free blocks are their sizes.
LEMMA FreeFacts ==
    ASSUME HeapConstants, NEW m, NEW F, NEW U, Heap(m, F, U), NEW b \in F
    PROVE  /\ b \in Nat /\ b > 0 /\ b \in Blocks /\ b \in Links /\ b % 4 = 0
           /\ m.size[b] \in Nat /\ m.size[b] > 8 /\ m.size[b] < Limit
           /\ Lengths(m.size)[b] = m.size[b]
           /\ b + m.size[b] \in F \union U \union {pxEnd}
           /\ b + m.size[b] <= pxEnd
           /\ m.next[b] \in F \union {pxEnd} /\ m.next[b] \in Nat
           /\ b + m.size[b] <= m.next[b]
<1>1. b \in F \union U /\ Tiled(Lengths(m.size), F \union U) BY DEF Heap
<1>2. b \in Blocks /\ b \in Links /\ b > 0 BY <1>1, TileFacts, LinkFacts
<1>3. m.size[b] \in Nat /\ m.size[b] < Limit
  BY <1>2, HeapFacts DEF Heap, Sizes, SizeLimit, Limit
<1>4. Lengths(m.size)[b] = m.size[b] % Limit BY <1>2 DEF Lengths, Limit
<1>5. m.size[b] % Limit = m.size[b] BY <1>3, HeapFacts
<1>6. m.size[b] > 8 /\ b \in Nat /\ b + m.size[b] <= pxEnd /\ b % 4 = 0
  BY <1>1, <1>4, <1>5, TileFacts
<1>7. b + m.size[b] \in F \union U \union {pxEnd}
      /\ \A c \in F : c > b => c >= b + m.size[b]
  BY <1>1, <1>4, <1>5 DEF Tiled
<1>8. m.next[b] \in F \union {pxEnd} /\ b < m.next[b] BY DEF Heap, Linked
<1>9. m.next[b] \in Nat /\ b + m.size[b] <= m.next[b]
  <2>1. CASE m.next[b] = pxEnd BY <1>6, <2>1, HeapFacts
  <2>2. CASE m.next[b] \in F
    <3>1. m.next[b] >= b + m.size[b] BY <1>7, <1>8, <2>2
    <3>2. m.next[b] \in Nat BY <1>1, <2>2, TileFacts
    <3> QED BY <1>3, <1>6, <3>1, <3>2
  <2> QED BY <1>8, <2>1, <2>2
<1> QED BY <1>2, <1>3, <1>4, <1>5, <1>6, <1>7, <1>8, <1>9

\* Block x swallows the one behind it.
Joined(m, x) ==
    LET y == m.next[x]
    IN  Memory([a \in Links |-> IF a = y THEN NULL ELSE IF a = x THEN m.next[y] ELSE m.next[a]],
               [a \in Links |-> IF a = y THEN 0
                                ELSE IF a = x THEN m.size[x] + m.size[y] ELSE m.size[a]])

LEMMA JoinedIs ==
    ASSUME NEW m, NEW x, NEW y, y = m.next[x]
    PROVE  LET next == [a \in Links |-> IF a = y THEN NULL
                                        ELSE IF a = x THEN m.next[y] ELSE m.next[a]]
               size == [a \in Links |-> IF a = y THEN 0
                                        ELSE IF a = x THEN m.size[x] + m.size[y] ELSE m.size[a]]
           IN  /\ Joined(m, x) = Memory(next, size)
               /\ Joined(m, x).next = next /\ Joined(m, x).size = size
BY DEF Joined, Memory

\* ... leaves the heap in order, its other links and the free bytes as they were.
IsJoined(m, F, U, x, y, j) ==
    /\ Heap(j, F \ {y}, U)
    /\ \A a \in Links \ {x, y} : j.next[a] = m.next[a] /\ j.size[a] = m.size[a]
    /\ j.next[x] = m.next[y] /\ j.size[x] = m.size[x] + m.size[y]
    /\ Bytes(j, F \ {y}) = Bytes(m, F)

LEMMA JoinedHeap ==
    ASSUME HeapConstants, NEW m, NEW F, NEW U, Heap(m, F, U),
           NEW x \in F, NEW y \in F, m.next[x] = y, x + m.size[x] = y,
           NEW j, j = Joined(m, x)
    PROVE  IsJoined(m, F, U, x, y, j)
<1>1. /\ x \in Nat /\ y \in Nat /\ x > 0 /\ y > 0 /\ x \in Links /\ y \in Links
      /\ x \in Blocks /\ y \in Blocks
      /\ m.size[x] \in Nat /\ m.size[y] \in Nat /\ m.size[x] > 8 /\ m.size[y] > 8
      /\ y + m.size[y] <= pxEnd /\ pxEnd \in Nat /\ Limit \in Nat /\ pxEnd < Limit
      /\ m.next[y] \in F \union {pxEnd} /\ m.next[y] \in Nat /\ y + m.size[y] <= m.next[y]
      /\ Lengths(m.size)[x] = m.size[x] /\ Lengths(m.size)[y] = m.size[y]
  BY FreeFacts, HeapFacts
<1>2. x < y /\ m.size[x] + m.size[y] < Limit /\ y < m.next[y] BY <1>1
<1>3. /\ j = Memory(j.next, j.size)
      /\ j.next = [a \in Links |-> IF a = y THEN NULL
                                   ELSE IF a = x THEN m.next[y] ELSE m.next[a]]
      /\ j.size = [a \in Links |-> IF a = y THEN 0
                                   ELSE IF a = x THEN m.size[x] + m.size[y] ELSE m.size[a]]
  BY DEF Joined, Memory
<1>4. /\ \A a \in Links \ {x, y} : j.next[a] = m.next[a] /\ j.size[a] = m.size[a]
      /\ j.next[x] = m.next[y] /\ j.size[x] = m.size[x] + m.size[y]
      /\ j.next[y] = NULL /\ j.size[y] = 0
  BY <1>1, <1>2, <1>3
<1>5. F \subseteq Blocks /\ F \subseteq Links /\ Links \subseteq Nat /\ xStart \in Links /\ pxEnd \in Links
      /\ x # xStart /\ y # xStart /\ x # pxEnd /\ y # pxEnd /\ xStart \notin F
  BY LinkFacts DEF Heap, Linked
<1>6. m.next \in [Links -> Links \union {NULL}] /\ m.size \in [Links -> Sizes] BY DEF Heap
<1>7. j.next \in [Links -> Links \union {NULL}] BY <1>1, <1>3, <1>6
<1>8. m.size[x] + m.size[y] \in Sizes /\ 0 \in Sizes
  BY <1>1, <1>2 DEF Sizes, SizeLimit, Limit
<1>9. j.size \in [Links -> Sizes] BY <1>3, <1>6, <1>8
<1>10. Linked(j.next, F \ {y})
  <2>1. ASSUME NEW a \in (F \ {y}) \union {xStart}
        PROVE  /\ j.next[a] \in (F \ {y}) \union {pxEnd} /\ a < j.next[a]
               /\ \A c \in F \ {y} : c > a => c >= j.next[a]
    <3>0. a \in Links /\ a # y /\ a \in Nat BY <1>5
    <3>1. /\ m.next[a] \in F \union {pxEnd} /\ a < m.next[a]
          /\ \A c \in F : c > a => c >= m.next[a]
      BY <2>1 DEF Heap, Linked
    <3>2. /\ \A c \in F : c > y => c >= m.next[y]
          /\ \A c \in F : c > x => c >= m.next[x]
      BY DEF Heap, Linked
    <3>3. CASE a = x
      <4>1. m.next[y] \in (F \ {y}) \union {pxEnd} BY <1>1, <1>2
      <4>2. ASSUME NEW c \in F \ {y}, c > x PROVE c >= m.next[y]
        <5>1. c >= y /\ c # y /\ c \in Nat BY <1>5, <3>2, <4>2
        <5>2. c > y BY <1>1, <5>1
        <5> QED BY <3>2, <5>2
      <4>3. x < m.next[y] BY <1>1, <1>2
      <4>4. j.next[a] = m.next[y] BY <1>4, <3>3
      <4> QED BY <3>3, <4>1, <4>2, <4>3, <4>4
    <3>4. CASE a # x
      <4>1. j.next[a] = m.next[a] BY <1>4, <3>0, <3>4
      <4>2. m.next[a] # y
        <5>1. SUFFICES ASSUME m.next[a] = y PROVE FALSE OBVIOUS
        <5>2. x > a => x >= y BY <3>1, <5>1
        <5>3. ~(x > a) BY <1>1, <1>2, <5>2
        <5>4. a > x BY <1>1, <3>0, <3>4, <5>3
        <5>5. a \in F => a >= y BY <3>2, <5>4
        <5>6. a \in F BY <1>1, <2>1, <5>4, HeapFacts
        <5> QED BY <1>1, <3>0, <3>1, <5>1, <5>5, <5>6
      <4> QED BY <3>1, <4>1, <4>2
    <3> QED BY <3>3, <3>4
  <2> QED BY <1>5, <2>1 DEF Linked
<1>11. \A a \in Links \ ((F \ {y}) \union U \union {xStart}) : j.next[a] = NULL
  <2> SUFFICES ASSUME NEW a \in Links \ ((F \ {y}) \union U \union {xStart}) PROVE j.next[a] = NULL
    OBVIOUS
  <2>1. a # x BY <1>1, <1>2
  <2>2. CASE a = y BY <1>4, <2>2
  <2>3. CASE a # y
    <3>1. a \in Links \ (F \union U \union {xStart}) BY <2>3
    <3>2. m.next[a] = NULL BY <3>1 DEF Heap
    <3> QED BY <1>4, <2>1, <2>3, <3>2
  <2> QED BY <2>2, <2>3
<1>12. (F \ {y}) \intersect U = {} /\ y \notin U /\ x \notin U BY DEF Heap
<1>13. Tiled(Lengths(j.size), (F \ {y}) \union U)
  <2> DEFINE l1 == Lengths(m.size)
             l2 == Lengths(j.size)
             all == F \union U
  <2>1. Tiled(l1, all) BY DEF Heap
  <2>2. l2[x] = l1[x] + l1[y]
    <3>1. l2[x] = (m.size[x] + m.size[y]) % Limit
      <4>1. l2[x] = j.size[x] % Limit BY <1>1 DEF Lengths, Limit
      <4> QED BY <1>4, <4>1
    <3>2. m.size[x] + m.size[y] \in 0 .. Limit - 1 BY <1>1, <1>2
    <3>3. (m.size[x] + m.size[y]) % Limit = m.size[x] + m.size[y] BY <1>1, <3>2
    <3> QED BY <1>1, <3>1, <3>3
  <2>3. ASSUME NEW b \in all \ {x, y} PROVE l2[b] = l1[b]
    <3>1. b \in Links BY <2>1, LinkFacts DEF Tiled
    <3> QED BY <1>4, <2>3, <3>1 DEF Lengths
  <2>4. y = x + l1[x] BY <1>1
  <2>5. x \in all /\ y \in all OBVIOUS
  <2>6. all \ {y} = (F \ {y}) \union U BY <1>12
  <2>7. Tiled(l2, all \ {y})
    <3> HIDE DEF l1, l2, all
    <3>1. \A b \in all \ {x, y} : l2[b] = l1[b] BY <2>3
    <3>2. OneOfTwo(l1, all, x, y, l2) BY <2>1, <2>2, <3>1, <2>4, <2>5 DEF OneOfTwo
    <3> QED BY <3>2, TileJoin
  <2> QED BY <2>6, <2>7
<1>14. \A b \in F \ {y} : j.size[b] < xBlockAllocatedBit
  <2>1. \A b \in F : m.size[b] < xBlockAllocatedBit BY DEF Heap
  <2> QED BY <1>2, <1>4, <1>5, <2>1 DEF Limit
<1>15. j.size[pxEnd] = 0 BY <1>4, <1>5 DEF Heap
<1>16. Heap(j, F \ {y}, U)
  BY <1>3, <1>7, <1>9, <1>10, <1>11, <1>12, <1>13, <1>14, <1>15 DEF Heap
<1>17. Bytes(j, F \ {y}) = Bytes(m, F)
  <2> DEFINE X == x .. x + m.size[x] - 1
             Y == y .. y + m.size[y] - 1
             Rest == UNION {b .. b + m.size[b] - 1 : b \in F \ {x, y}}
  <2>1. Bytes(m, F) = X \union Y \union Rest BY DEF Bytes
  <2>2. Bytes(j, F \ {y}) = (x .. x + j.size[x] - 1) \union UNION {b .. b + j.size[b] - 1 : b \in F \ {x, y}}
    <3>1. x # y BY <1>1, <1>2
    <3>2. F \ {y} = {x} \union (F \ {x, y}) BY <3>1
    <3> QED BY <3>2 DEF Bytes
  <2>3. \A b \in F \ {x, y} : j.size[b] = m.size[b] BY <1>4, <1>5
  <2>4. UNION {b .. b + j.size[b] - 1 : b \in F \ {x, y}} = Rest BY <2>3
  <2>5. x .. x + j.size[x] - 1 = X \union Y
    <3>1. j.size[x] = m.size[x] + m.size[y] BY <1>4
    <3> QED BY <1>1, <3>1
  <2> HIDE DEF X, Y, Rest
  <2> QED BY <2>1, <2>2, <2>4, <2>5
<1> QED BY <1>4, <1>16, <1>17 DEF IsJoined

\* Block b goes into the list behind link before.
Placed(m, b, before) ==
    Memory([a \in Links |-> IF a = before THEN b
                            ELSE IF a = b THEN m.next[before] ELSE m.next[a]],
           m.size)

\* ... which leaves the heap in order and adds the bytes of the block.
IsPlaced(m, F, U, b, before, after, p) ==
    /\ Heap(p, F \union {b}, U)
    /\ \A a \in Links \ {before, b} : p.next[a] = m.next[a]
    /\ p.next[before] = b /\ p.next[b] = after /\ p.size = m.size
    /\ Bytes(p, F \union {b}) = Bytes(m, F) \union (b .. b + m.size[b] - 1)

LEMMA PlacedHeap ==
    ASSUME HeapConstants, NEW m, NEW F, NEW U, NEW b, Heap(m, F, U \union {b}), b \notin U,
           m.size[b] < xBlockAllocatedBit,
           NEW before \in F \union {xStart}, before < b,
           NEW after, after = m.next[before], b < after,
           NEW p, p = Placed(m, b, before)
    PROVE  IsPlaced(m, F, U, b, before, after, p)
<1>1. /\ F \subseteq Blocks /\ F \subseteq Links /\ Links \subseteq Nat /\ xStart \in Links
      /\ pxEnd \in Links /\ pxEnd \in Nat /\ xStart = 0 /\ xStart \notin F
  BY LinkFacts, HeapFacts DEF Heap, Linked
<1>2. b \in Blocks /\ b \in Links /\ b \in Nat /\ b > 0 /\ b < pxEnd /\ b \notin F
  <2>1. Tiled(Lengths(m.size), F \union (U \union {b})) BY DEF Heap
  <2>2. b \in F \union (U \union {b}) OBVIOUS
  <2>3. F \intersect (U \union {b}) = {} BY DEF Heap
  <2>4. b \in Blocks /\ b \in Nat /\ b < pxEnd BY <2>1, <2>2, TileFacts
  <2> QED BY <2>3, <2>4, LinkFacts
<1>3. before \in Links /\ before \in Nat /\ before # b
  <2>1. before \in Links BY <1>1
  <2>2. before \in Nat BY <1>1, <2>1
  <2> QED BY <1>2, <2>1, <2>2
<1>4. after \in F \union {pxEnd} /\ after \in Nat /\ \A c \in F : c > before => c >= after
  BY <1>1 DEF Heap, Linked
<1>5. /\ p = Memory(p.next, p.size) /\ p.size = m.size
      /\ p.next = [a \in Links |-> IF a = before THEN b ELSE IF a = b THEN after ELSE m.next[a]]
  BY DEF Placed, Memory
<1>6. /\ \A a \in Links \ {before, b} : p.next[a] = m.next[a]
      /\ p.next[before] = b /\ p.next[b] = after
  BY <1>2, <1>3, <1>5
<1>7. m.next \in [Links -> Links \union {NULL}] /\ m.size \in [Links -> Sizes] BY DEF Heap
<1>8. after \in Links BY <1>1, <1>4
<1>9. p.next \in [Links -> Links \union {NULL}] BY <1>2, <1>5, <1>7, <1>8
<1>10. Linked(p.next, F \union {b})
  <2>1. ASSUME NEW a \in (F \union {b}) \union {xStart}
        PROVE  /\ p.next[a] \in (F \union {b}) \union {pxEnd} /\ a < p.next[a]
               /\ \A c \in F \union {b} : c > a => c >= p.next[a]
    <3>0. a \in Links /\ a \in Nat BY <1>1, <1>2
    <3>1. CASE a = before
      <4>1. p.next[a] = b BY <1>6, <3>1
      <4>2. ASSUME NEW c \in F, c > before PROVE c >= b
        <5>1. c >= after /\ c \in Nat BY <1>1, <1>4, <4>2
        <5> QED BY <1>2, <1>4, <5>1
      <4> QED BY <1>2, <3>1, <4>1, <4>2
    <3>2. CASE a = b
      <4>1. p.next[a] = after BY <1>6, <3>2
      <4>2. ASSUME NEW c \in F, c > b PROVE c >= after
        <5>1. c > before BY <1>1, <1>2, <1>3, <4>2
        <5> QED BY <1>4, <5>1
      <4>3. ~(b > b) BY <1>2
      <4> QED BY <1>4, <3>2, <4>1, <4>2, <4>3
    <3>3. CASE a # before /\ a # b
      <4>1. p.next[a] = m.next[a] BY <1>6, <3>0, <3>3
      <4>2. a \in F \union {xStart} BY <3>3
      <4>3. /\ m.next[a] \in F \union {pxEnd} /\ a < m.next[a]
            /\ \A c \in F : c > a => c >= m.next[a]
        BY <4>2 DEF Heap, Linked
      <4>4. ASSUME b > a PROVE b >= m.next[a]
        <5>1. m.next[a] \in Nat BY <1>1, <4>3
        <5>2. CASE a < before
          <6>1. before \in F BY <1>1, <1>3, <3>0, <5>2
          <6>2. before >= m.next[a] BY <4>3, <5>2, <6>1, <3>0, <1>3
          <6> QED BY <1>2, <1>3, <5>1, <6>2
        <5>3. CASE a > before
          <6>1. a \in F BY <1>1, <1>3, <4>2, <5>3
          <6>2. a >= after BY <1>4, <5>3, <6>1
          <6> QED BY <1>2, <1>4, <3>0, <4>4, <6>2
        <5> QED BY <1>3, <3>0, <3>3, <5>2, <5>3
      <4> QED BY <4>1, <4>3, <4>4
    <3> QED BY <3>1, <3>2, <3>3
  <2> QED BY <1>1, <1>2, <2>1 DEF Linked
<1>11. \A a \in Links \ ((F \union {b}) \union U \union {xStart}) : p.next[a] = NULL
  <2> SUFFICES ASSUME NEW a \in Links \ ((F \union {b}) \union U \union {xStart})
               PROVE  p.next[a] = NULL
    OBVIOUS
  <2>1. a # before /\ a # b OBVIOUS
  <2>2. a \in Links \ (F \union (U \union {b}) \union {xStart}) OBVIOUS
  <2>3. m.next[a] = NULL BY <2>2 DEF Heap
  <2> QED BY <1>6, <2>1, <2>2, <2>3
<1>12. F \intersect (U \union {b}) = {} /\ m.size[pxEnd] = 0
       /\ \A c \in F : m.size[c] < xBlockAllocatedBit
  BY DEF Heap
<1>13. (F \union {b}) \intersect U = {} BY <1>12
<1>14. Tiled(Lengths(p.size), (F \union {b}) \union U)
  <2>1. Tiled(Lengths(m.size), F \union (U \union {b})) BY DEF Heap
  <2>2. F \union (U \union {b}) = (F \union {b}) \union U OBVIOUS
  <2> QED BY <1>5, <2>1, <2>2
<1>15. Heap(p, F \union {b}, U)
  BY <1>5, <1>7, <1>9, <1>10, <1>11, <1>12, <1>13, <1>14 DEF Heap
<1>16. Bytes(p, F \union {b}) = Bytes(m, F) \union (b .. b + m.size[b] - 1)
  BY <1>5 DEF Bytes
<1> QED BY <1>5, <1>6, <1>15, <1>16 DEF IsPlaced

\* The place that prvInsertBlockIntoFreeList finds for block b.
LEMMA PlaceFound ==
    ASSUME HeapConstants, NEW m, NEW F, NEW U, NEW b, Heap(m, F, U \union {b}), b \notin U,
           \A a \in U \union {b} : m.next[a] = NULL \/ m.next[a] > b
    PROVE  LET before == PlaceFor(m, b)
           IN  /\ before \in F \union {xStart} /\ before < b
               /\ m.next[before] \in F \union {pxEnd} /\ b < m.next[before]
<1> DEFINE before == PlaceFor(m, b)
           G == {a \in Links : m.next[a] # NULL /\ m.next[a] < b}
<1>1. /\ F \subseteq Blocks /\ F \subseteq Links /\ Links \subseteq Nat /\ xStart \in Links
      /\ pxEnd \in Links /\ pxEnd \in Nat /\ xStart = 0 /\ xStart \notin F /\ NULL \notin Links
  BY LinkFacts, HeapFacts DEF Heap, Linked
<1>2. b \in Links /\ b \in Nat /\ b > 0 /\ b < pxEnd /\ b \notin F
  <2>1. Tiled(Lengths(m.size), F \union (U \union {b})) BY DEF Heap
  <2>2. b \in F \union (U \union {b}) OBVIOUS
  <2>3. F \intersect (U \union {b}) = {} BY DEF Heap
  <2> QED BY <2>1, <2>2, <2>3, TileFacts, HeapFacts, LinkFacts
<1>3. Linked(m.next, F) BY DEF Heap
<1>4. \A a \in F \union {xStart} :
          /\ m.next[a] \in F \union {pxEnd} /\ a < m.next[a]
          /\ \A c \in F : c > a => c >= m.next[a]
  BY <1>3 DEF Linked
<1>5. ASSUME NEW a \in G PROVE m.next[a] \in F
  <2>1. m.next[a] # NULL /\ m.next[a] < b /\ a \in Links OBVIOUS
  <2>2. m.next[a] \in Nat
    <3>1. m.next[a] \in Links BY <2>1 DEF Heap
    <3> QED BY <1>1, <3>1
  <2>3. a \notin U \union {b} BY <1>2, <2>1, <2>2
  <2>4. a \in F \union {xStart}
    <3> SUFFICES ASSUME a \notin F \union {xStart} PROVE FALSE OBVIOUS
    <3>1. a \in Links \ (F \union (U \union {b}) \union {xStart}) BY <2>1, <2>3
    <3>2. m.next[a] = NULL BY <3>1 DEF Heap
    <3> QED BY <2>1, <3>2
  <2>5. m.next[a] # pxEnd BY <1>1, <1>2, <2>1
  <2> QED BY <1>4, <2>4, <2>5
<1>6. before = Walk(m.next, G) BY DEF PlaceFor
<1>7. /\ before \in (F \union {xStart}) \ G
      /\ \A c \in F \union {xStart} : c < before => c \in G
  <2> HIDE DEF G, before
  <2>1. G \in SUBSET Links BY DEF G
  <2> QED BY <1>3, <1>5, <1>6, <2>1, WalkEnds
<1> HIDE DEF before
<1>8. before \in Nat /\ before \in Links BY <1>1, <1>7
<1>9. m.next[before] \in F \union {pxEnd} /\ m.next[before] \in Nat /\ m.next[before] # NULL
      /\ m.next[before] \in Links
  BY <1>1, <1>4, <1>7
<1>10. ~(m.next[before] < b) BY <1>7, <1>8, <1>9
<1>11. m.next[before] # b BY <1>2, <1>9
<1>12. b < m.next[before] BY <1>2, <1>9, <1>10, <1>11
<1>13. before < b
  <2>1. CASE before = xStart BY <1>1, <1>2, <2>1
  <2>2. CASE before \in F
    <3> SUFFICES ASSUME ~(before < b) PROVE FALSE OBVIOUS
    <3> DEFINE S == {c \in F \union {xStart} : c < before}
    <3>1. S \subseteq 0 .. before
      <4> SUFFICES ASSUME NEW c \in S PROVE c \in 0 .. before OBVIOUS
      <4>1. c \in Nat /\ c < before BY <1>1
      <4> QED BY <1>8, <4>1
    <3>2. xStart \in S BY <1>1, <1>8, <2>2
    <3>3. PICK c \in S : \A d \in S : d <= c
      <4> HIDE DEF S
      <4> QED BY <1>8, <3>1, <3>2, GreatestElement
    <3>4. c \in F \union {xStart} /\ c < before /\ c \in Nat /\ c \in Links BY <1>1, <3>3
    <3>5. m.next[c] < b BY <1>7, <3>4
    <3>6. m.next[c] \in F \union {pxEnd} /\ c < m.next[c] /\ before >= m.next[c]
      BY <1>4, <1>8, <2>2, <3>4
    <3>7. m.next[c] \in Nat BY <1>1, <3>6
    <3>8. m.next[c] < before BY <1>2, <1>8, <3>5, <3>7
    <3>9. m.next[c] \in F BY <1>1, <1>2, <3>5, <3>6
    <3>10. m.next[c] \in S BY <3>8, <3>9
    <3>11. m.next[c] <= c BY <3>3, <3>10
    <3> QED BY <3>4, <3>6, <3>7, <3>11
  <2> QED BY <1>7, <2>1, <2>2
<1> QED BY <1>7, <1>9, <1>12, <1>13 DEF before

\* Joined with the block behind if they touch, and with the one in front.
JoinedBehind(m, b, after, p) ==
    IF b + m.size[b] = after /\ after # pxEnd THEN Joined(p, b) ELSE p
JoinedInFront(m, b, before, q) ==
    IF before # xStart /\ before + m.size[before] = b THEN Joined(q, before) ELSE q

\* What InsertBlock does: it places the block, then joins it with the one
\* behind and the one in front where they touch.
LEMMA InsertBlockIs ==
    ASSUME HeapConstants, NEW m,
           m.next \in [Links -> Links \union {NULL}], m.size \in [Links -> Sizes],
           NEW b \in Links, NEW before \in Links, NEW after \in Links,
           before = PlaceFor(m, b), after = m.next[before],
           before # b, b # after, before # after,
           NEW p, p = Placed(m, b, before),
           NEW q, q = JoinedBehind(m, b, after, p)
    PROVE  InsertBlock(m, b) = JoinedInFront(m, b, before, q)
<1> DEFINE front == before # xStart /\ before + m.size[before] = b
           back == b + m.size[b] = after /\ after # pxEnd
           blk == IF front THEN before ELSE b
           gone == (IF front THEN {b} ELSE {}) \union (IF back THEN {after} ELSE {})
           next2 == [[m.next EXCEPT ![before] = b] EXCEPT
                        ![blk] = IF back THEN m.next[after] ELSE after]
           size2 == [m.size EXCEPT ![blk] = m.size[b] + (IF front THEN m.size[before] ELSE 0)
                                                      + (IF back THEN m.size[after] ELSE 0)]
           r == InsertBlock(m, b)
<1>0. front \in BOOLEAN /\ back \in BOOLEAN OBVIOUS
<1>1. before \in Links /\ after \in Links OBVIOUS
<1>2. b \in Links OBVIOUS
<1>3. before # b /\ b # after /\ before # after OBVIOUS
<1>4. m.next \in [Links -> Links \union {NULL}] /\ m.size \in [Links -> Sizes] OBVIOUS
<1>5. m.size[before] \in Int /\ m.size[after] \in Int /\ m.size[b] \in Int
  BY <1>1, <1>2, <1>4, HeapFacts DEF Sizes, SizeLimit, Limit
<1>6. r = Insertion(m, b, before, front, back)
  BY DEF InsertBlock, TouchesFront, TouchesBack
<1>7. r = Memory([a \in Links |-> IF a \in gone THEN NULL ELSE next2[a]],
                 [a \in Links |-> IF a \in gone THEN 0 ELSE size2[a]])
  BY <1>6 DEF Insertion, Cleared, Memory
<1>8. /\ p = Memory(p.next, p.size) /\ p.size = m.size
      /\ p.next = [a \in Links |-> IF a = before THEN b ELSE IF a = b THEN after ELSE m.next[a]]
  BY DEF Placed, Memory
<1>9. p.next[before] = b /\ p.next[b] = after
      /\ \A a \in Links \ {before, b} : p.next[a] = m.next[a]
  <2> QED BY <1>1, <1>2, <1>3, <1>8
<1> HIDE DEF r
<1>10. p.next[after] = m.next[after] BY <1>1, <1>3, <1>9
<1>11. CASE front /\ back
  <2>1. q = Joined(p, b) BY <1>11 DEF JoinedBehind
  <2>2. /\ q.next = [a \in Links |-> IF a = after THEN NULL ELSE IF a = b THEN m.next[after] ELSE p.next[a]]
        /\ q.size = [a \in Links |-> IF a = after THEN 0 ELSE IF a = b THEN m.size[b] + m.size[after]
                                     ELSE m.size[a]]
    <3>1. after = p.next[b] BY <1>9
    <3>2. /\ Joined(p, b).next = [a \in Links |-> IF a = after THEN NULL
                                     ELSE IF a = b THEN p.next[after] ELSE p.next[a]]
          /\ Joined(p, b).size = [a \in Links |-> IF a = after THEN 0
                                     ELSE IF a = b THEN p.size[b] + p.size[after] ELSE p.size[a]]
      BY <3>1 DEF Joined, Memory
    <3> QED BY <1>8, <1>10, <2>1, <3>2
  <2>3. q.next[before] = b /\ q.size[before] = m.size[before] /\ q.next[b] = m.next[after]
        /\ q.size[b] = m.size[b] + m.size[after]
    <3> QED BY <1>1, <1>2, <1>3, <1>9, <2>2
  <2>4. Joined(q, before) =
          Memory([a \in Links |-> IF a = b THEN NULL ELSE IF a = before THEN m.next[after] ELSE q.next[a]],
                 [a \in Links |-> IF a = b THEN 0 ELSE IF a = before
                                  THEN m.size[before] + (m.size[b] + m.size[after]) ELSE q.size[a]])
    BY <2>3 DEF Joined
  <2>5. ASSUME NEW a \in Links
        PROVE  (IF a \in gone THEN NULL ELSE next2[a])
                 = (IF a = b THEN NULL ELSE IF a = before THEN m.next[after] ELSE q.next[a])
    BY <1>1, <1>2, <1>3, <1>4, <1>9, <1>11, <2>2
  <2>6. ASSUME NEW a \in Links
        PROVE  (IF a \in gone THEN 0 ELSE size2[a])
                 = (IF a = b THEN 0 ELSE IF a = before
                    THEN m.size[before] + (m.size[b] + m.size[after]) ELSE q.size[a])
    BY <1>1, <1>2, <1>3, <1>4, <1>5, <1>11, <2>2
  <2> HIDE DEF gone, next2, size2
  <2>7. r = Joined(q, before) BY <1>7, <2>4, <2>5, <2>6
  <2> QED BY <1>11, <2>7 DEF r, JoinedInFront, JoinedBehind
<1>12. CASE front /\ ~back
  <2>1. q = p BY <1>12 DEF JoinedBehind
  <2>2. Joined(p, before) =
          Memory([a \in Links |-> IF a = b THEN NULL ELSE IF a = before THEN after ELSE p.next[a]],
                 [a \in Links |-> IF a = b THEN 0 ELSE IF a = before
                                  THEN m.size[before] + m.size[b] ELSE m.size[a]])
    BY <1>8, <1>9, JoinedIs
  <2>3. ASSUME NEW a \in Links
        PROVE  (IF a \in gone THEN NULL ELSE next2[a])
                 = (IF a = b THEN NULL ELSE IF a = before THEN after ELSE p.next[a])
    BY <1>1, <1>2, <1>3, <1>4, <1>9, <1>12
  <2>4. ASSUME NEW a \in Links
        PROVE  (IF a \in gone THEN 0 ELSE size2[a])
                 = (IF a = b THEN 0 ELSE IF a = before THEN m.size[before] + m.size[b] ELSE m.size[a])
    BY <1>1, <1>2, <1>3, <1>4, <1>5, <1>12
  <2> HIDE DEF gone, next2, size2
  <2>5. r = Joined(p, before) BY <1>7, <2>2, <2>3, <2>4
  <2> QED BY <1>12, <2>1, <2>5 DEF r, JoinedInFront, JoinedBehind
<1>13. CASE ~front /\ back
  <2>1. Joined(p, b) =
          Memory([a \in Links |-> IF a = after THEN NULL ELSE IF a = b THEN m.next[after] ELSE p.next[a]],
                 [a \in Links |-> IF a = after THEN 0 ELSE IF a = b
                                  THEN m.size[b] + m.size[after] ELSE m.size[a]])
    BY <1>8, <1>9, <1>10, JoinedIs
  <2>2. ASSUME NEW a \in Links
        PROVE  (IF a \in gone THEN NULL ELSE next2[a])
                 = (IF a = after THEN NULL ELSE IF a = b THEN m.next[after] ELSE p.next[a])
    BY <1>1, <1>2, <1>3, <1>4, <1>9, <1>13
  <2>3. ASSUME NEW a \in Links
        PROVE  (IF a \in gone THEN 0 ELSE size2[a])
                 = (IF a = after THEN 0 ELSE IF a = b THEN m.size[b] + m.size[after] ELSE m.size[a])
    BY <1>1, <1>2, <1>3, <1>4, <1>5, <1>13
  <2> HIDE DEF gone, next2, size2
  <2>4. r = Joined(p, b) BY <1>7, <2>1, <2>2, <2>3
  <2> QED BY <1>13, <2>4 DEF r, JoinedInFront, JoinedBehind
<1>14. CASE ~front /\ ~back
  <2>1. ASSUME NEW a \in Links
        PROVE  (IF a \in gone THEN NULL ELSE next2[a]) = p.next[a]
    BY <1>1, <1>2, <1>3, <1>4, <1>9, <1>14
  <2>2. ASSUME NEW a \in Links
        PROVE  (IF a \in gone THEN 0 ELSE size2[a]) = m.size[a]
    BY <1>1, <1>2, <1>3, <1>4, <1>5, <1>14
  <2> HIDE DEF gone, next2, size2
  <2>3. r = Memory([a \in Links |-> p.next[a]], [a \in Links |-> m.size[a]]) BY <1>7, <2>1, <2>2
  <2>4. p.next = [a \in Links |-> p.next[a]] BY <1>8
  <2>5. m.size = [a \in Links |-> m.size[a]] BY <1>4
  <2>6. r = p BY <1>8, <2>3, <2>4, <2>5
  <2> QED BY <1>14, <2>6 DEF r, JoinedInFront, JoinedBehind
<1> QED BY <1>11, <1>12, <1>13, <1>14

\* prvInsertBlockIntoFreeList keeps the list linked and merged and takes in the
\* bytes of the block; blocks in use are left alone.
LEMMA Inserted ==
    ASSUME HeapConstants, NEW m, NEW F, NEW U, NEW b, Heap(m, F, U \union {b}), b \notin U,
           m.size[b] < xBlockAllocatedBit, Merged(m, F),
           \A a \in U \union {b} : m.next[a] = NULL \/ m.next[a] > b
    PROVE  LET r == InsertBlock(m, b)
           IN  \E F2 : /\ Heap(r, F2, U) /\ Merged(r, F2)
                       /\ \A a \in U : r.next[a] = m.next[a] /\ r.size[a] = m.size[a]
                       /\ Bytes(r, F2) = Bytes(m, F) \union (b .. b + m.size[b] - 1)
<1>0. PICK before, after, p, q, r :
         /\ before = PlaceFor(m, b) /\ after = m.next[before]
         /\ p = Placed(m, b, before)
         /\ q = JoinedBehind(m, b, after, p)
         /\ r = InsertBlock(m, b)
  OBVIOUS
<1> DEFINE front == before # xStart /\ before + m.size[before] = b
           back == b + m.size[b] = after /\ after # pxEnd
           Fp == F \union {b}
           Fq == IF back THEN Fp \ {after} ELSE Fp
           F2 == IF front THEN Fq \ {b} ELSE Fq
<1>1. /\ before \in F \union {xStart} /\ before < b /\ after \in F \union {pxEnd} /\ b < after
  BY <1>0, PlaceFound
<1>2. r = JoinedInFront(m, b, before, q)
  <2>1. InsertBlock(m, b) = JoinedInFront(m, b, before, q)
    <3>1. m.next \in [Links -> Links \union {NULL}] /\ m.size \in [Links -> Sizes] BY DEF Heap
    <3>2. /\ F \subseteq Links /\ Links \subseteq Nat /\ b \in Links /\ before \in Links
          /\ after \in Links
      <4>1. Tiled(Lengths(m.size), F \union (U \union {b})) BY DEF Heap
      <4>2. F \union (U \union {b}) \subseteq Blocks BY <4>1 DEF Tiled
      <4> QED BY <1>1, <4>2, LinkFacts
    <3>3. before \in Nat /\ after \in Nat /\ b \in Nat BY <3>2
    <3>4. before # b /\ b # after /\ before # after BY <1>1, <3>3
    <3> QED BY <1>0, <3>1, <3>2, <3>4, InsertBlockIs
  <2> QED BY <1>0, <2>1
<1>3. /\ Heap(p, Fp, U)
      /\ \A a \in Links \ {before, b} : p.next[a] = m.next[a]
      /\ p.next[before] = b /\ p.next[b] = after /\ p.size = m.size
      /\ Bytes(p, Fp) = Bytes(m, F) \union (b .. b + m.size[b] - 1)
  <2>1. IsPlaced(m, F, U, b, before, after, p) BY <1>0, <1>1, PlacedHeap
  <2> QED BY <2>1 DEF IsPlaced
<1>4. /\ F \subseteq Links /\ U \subseteq Links /\ Links \subseteq Nat /\ xStart = 0
      /\ b \in Links /\ b \notin F /\ F \intersect U = {} /\ xStart \notin F \union U
      /\ pxEnd \notin F \union U
  <2>1. Tiled(Lengths(m.size), F \union (U \union {b})) /\ F \intersect (U \union {b}) = {} BY DEF Heap
  <2>2. F \union (U \union {b}) \subseteq Blocks BY <2>1 DEF Tiled
  <2> QED BY <2>1, <2>2, LinkFacts, HeapFacts
<1>5. /\ b \in Nat /\ m.size[b] \in Nat /\ b + m.size[b] <= after /\ after \in Nat
      /\ before # b /\ after # b /\ after # before /\ before \in Nat
  <2>1. b \in Fp OBVIOUS
  <2>2. b \in Nat /\ p.size[b] \in Nat /\ b + p.size[b] <= p.next[b] /\ p.next[b] \in Nat
    BY <1>3, <2>1, FreeFacts
  <2>3. before \in Nat BY <1>1, <1>4
  <2> QED BY <1>1, <1>3, <2>2, <2>3
<1>6. ASSUME before \in F
      PROVE  m.size[before] \in Nat /\ before + m.size[before] <= b
  <2>1. before \in Fp BY <1>6
  <2>2. p.size[before] \in Nat /\ before + p.size[before] <= p.next[before]
    BY <1>3, <2>1, FreeFacts
  <2> QED BY <1>3, <2>2
<1>7. ASSUME NEW z \in F PROVE m.next[z] # pxEnd => m.next[z] > z + m.size[z]
  BY <1>7 DEF Merged, Apart
\* With the block behind ...
<1>8. /\ Heap(q, Fq, U) /\ Apart(q, b) /\ b \in Fq
      /\ \A a \in (F \union U) \ {before, after} : q.next[a] = m.next[a] /\ q.size[a] = m.size[a]
      /\ ~back => q.next[after] = p.next[after] /\ q.size[after] = m.size[after]
      /\ before \in F => before \in Fq /\ q.size[before] = m.size[before]
      /\ q.next[before] = b
      /\ Bytes(q, Fq) = Bytes(p, Fp)
  <2>1. CASE back
    <3>1. q = Joined(p, b) /\ Fq = Fp \ {after} BY <1>0, <2>1 DEF JoinedBehind
    <3>2. b \in Fp /\ after \in Fp /\ after \in F BY <1>1, <2>1
    <3>3. p.next[b] = after /\ b + p.size[b] = after BY <1>3, <2>1
    <3> HIDE DEF Fq, Fp, back
    <3>4. /\ Heap(q, Fq, U)
          /\ \A a \in Links \ {b, after} : q.next[a] = p.next[a] /\ q.size[a] = p.size[a]
          /\ q.next[b] = p.next[after] /\ q.size[b] = p.size[b] + p.size[after]
          /\ Bytes(q, Fq) = Bytes(p, Fp)
      <4>1. Heap(p, Fp, U) BY <1>3
      <4>2. IsJoined(p, Fp, U, b, after, q) BY <3>1, <3>2, <3>3, <4>1, JoinedHeap
      <4> QED BY <3>1, <4>2 DEF IsJoined
    <3>5. after \in Links /\ after # before /\ p.next[after] = m.next[after] BY <1>3, <1>4, <1>5, <3>2
    <3>6. Apart(q, b)
      <4>1. m.next[after] # pxEnd => m.next[after] > after + m.size[after] BY <1>7, <3>2
      <4>2. after \in Nat /\ p.size[after] \in Nat BY <1>3, <3>2, FreeFacts
      <4>3. b + q.size[b] = after + m.size[after] BY <1>3, <1>5, <3>3, <3>4, <4>2
      <4> QED BY <3>4, <3>5, <4>1, <4>3 DEF Apart
    <3>7. b \in Fq BY <1>5, <3>1, <3>2
    <3>8. \A a \in (F \union U) \ {before, after} : q.next[a] = m.next[a] /\ q.size[a] = m.size[a]
      <4> SUFFICES ASSUME NEW a \in (F \union U) \ {before, after}, a # b
                   PROVE  q.next[a] = m.next[a] /\ q.size[a] = m.size[a]
        BY <1>4
      <4>1. a \in Links \ {b, after} /\ a \in Links \ {before, b} BY <1>4
      <4> QED BY <1>3, <3>4, <4>1
    <3>9. before \in Links BY <1>1, <1>4, LinkFacts
    <3>10. q.next[before] = b /\ q.size[before] = m.size[before] BY <1>3, <1>5, <3>4, <3>9
    <3>11. before \in F => before \in Fq BY <1>5, <3>1 DEF Fp
    <3> QED BY <2>1, <3>4, <3>6, <3>7, <3>8, <3>10, <3>11
  <2>2. CASE ~back
    <3>1. q = p /\ Fq = Fp BY <1>0, <2>2 DEF JoinedBehind
    <3>2. Apart(p, b)
      <4>1. after # pxEnd => after > b + m.size[b] BY <1>5, <2>2
      <4> QED BY <1>3, <4>1 DEF Apart
    <3>3. \A a \in (F \union U) \ {before, after} : p.next[a] = m.next[a] /\ p.size[a] = m.size[a]
      BY <1>3, <1>4
    <3> QED BY <1>3, <3>1, <3>2, <3>3
  <2> QED BY <2>1, <2>2
<1>9. Merged(q, Fq \ {before})
  <2> SUFFICES ASSUME NEW z \in Fq \ {before} PROVE Apart(q, z) BY DEF Merged
  <2>1. CASE z = b BY <1>8, <2>1
  <2>2. CASE z # b /\ z # after
    <3>1. z \in F BY <2>2
    <3>2. q.next[z] = m.next[z] /\ q.size[z] = m.size[z] BY <1>8, <2>2, <3>1
    <3> QED BY <1>7, <3>1, <3>2 DEF Apart
  <2>3. CASE z # b /\ z = after
    <3>1. ~back /\ z \in F BY <2>3
    <3>2. p.next[z] = m.next[z] BY <1>3, <1>4, <2>3, <3>1
    <3>3. q.next[z] = m.next[z] /\ q.size[z] = m.size[z] BY <1>8, <2>3, <3>1, <3>2
    <3> QED BY <1>7, <3>1, <3>3 DEF Apart
  <2> QED BY <2>1, <2>2, <2>3
<1>10. \A a \in U : q.next[a] = m.next[a] /\ q.size[a] = m.size[a]
  BY <1>1, <1>4, <1>8
\* ... and with the one in front.
<1>11. /\ Heap(r, F2, U) /\ Merged(r, F2)
       /\ \A a \in U : r.next[a] = q.next[a] /\ r.size[a] = q.size[a]
       /\ Bytes(r, F2) = Bytes(q, Fq)
  <2>1. CASE front
    <3>1. r = Joined(q, before) /\ F2 = Fq \ {b} BY <1>2, <2>1 DEF JoinedInFront
    <3>2. before \in F /\ before \in Fq /\ q.next[before] = b /\ b \in Fq
          /\ before + q.size[before] = b
      BY <1>1, <1>8, <2>1
    <3> HIDE DEF Fq, F2, front
    <3>3. /\ Heap(r, F2, U)
          /\ \A a \in Links \ {before, b} : r.next[a] = q.next[a] /\ r.size[a] = q.size[a]
          /\ r.next[before] = q.next[b] /\ r.size[before] = q.size[before] + q.size[b]
          /\ Bytes(r, F2) = Bytes(q, Fq)
      <4>1. Heap(q, Fq, U) BY <1>8
      <4>2. IsJoined(q, Fq, U, before, b, r) BY <3>1, <3>2, <4>1, JoinedHeap
      <4> QED BY <3>1, <4>2 DEF IsJoined
    <3>4. Apart(r, before)
      <4>1. q.size[before] \in Nat /\ q.size[b] \in Nat BY <1>8, <3>2, FreeFacts
      <4>2. before + r.size[before] = b + q.size[b] BY <1>5, <3>2, <3>3, <4>1
      <4> QED BY <1>8, <3>3, <4>2 DEF Apart
    <3>5. ASSUME NEW z \in F2 PROVE Apart(r, z)
      <4>1. CASE z = before BY <3>4, <4>1
      <4>2. CASE z # before
        <5>1. z \in Fq /\ z # b BY <3>1
        <5>2. z \in Links BY <1>8, <5>1, FreeFacts
        <5>3. r.next[z] = q.next[z] /\ r.size[z] = q.size[z] BY <3>3, <4>2, <5>1, <5>2
        <5>4. Apart(q, z) BY <1>9, <4>2, <5>1 DEF Merged
        <5> QED BY <5>3, <5>4 DEF Apart
      <4> QED BY <4>1, <4>2
    <3>6. \A a \in U : r.next[a] = q.next[a] /\ r.size[a] = q.size[a]
      BY <1>1, <1>4, <3>2, <3>3
    <3> QED BY <3>3, <3>5, <3>6 DEF Merged
  <2>2. CASE ~front
    <3>1. r = q /\ F2 = Fq BY <1>2, <2>2 DEF JoinedInFront
    <3>2. ASSUME before \in F PROVE Apart(q, before)
      <4>1. before # xStart BY <1>4, <3>2
      <4>2. before + m.size[before] # b BY <2>2, <4>1
      <4>3. before + m.size[before] < b BY <1>5, <1>6, <3>2, <4>2
      <4> QED BY <1>8, <3>2, <4>3 DEF Apart
    <3>3. ASSUME NEW z \in Fq PROVE Apart(q, z)
      <4>1. CASE z = before
        <5>1. before \in F BY <1>5, <3>3, <4>1
        <5> QED BY <3>2, <4>1, <5>1
      <4>2. CASE z # before BY <1>9, <3>3, <4>2 DEF Merged
      <4> QED BY <4>1, <4>2
    <3> QED BY <1>8, <3>1, <3>3 DEF Merged
  <2> QED BY <2>1, <2>2
<1>12. Bytes(r, F2) = Bytes(m, F) \union (b .. b + m.size[b] - 1) BY <1>3, <1>8, <1>11
<1>13. \A a \in U : r.next[a] = m.next[a] /\ r.size[a] = m.size[a] BY <1>10, <1>11
<1> HIDE DEF F2
<1> QED BY <1>0, <1>11, <1>12, <1>13 

-----------------------------------------------------------------------------
(* Taking blocks out of the list, splitting and marking them *)

\* Link x passes over block y.
LEMMA Unlinked ==
    ASSUME HeapConstants, NEW next, NEW F, Linked(next, F),
           NEW x \in F \union {xStart}, NEW y \in F, next[x] = y,
           NEW n, n[x] = next[y], \A a \in (F \union {xStart}) \ {x, y} : n[a] = next[a]
    PROVE  Linked(n, F \ {y})
<1>1. /\ F \subseteq Blocks /\ F \subseteq Links /\ Links \subseteq Nat /\ xStart \in Links
      /\ pxEnd \in Nat /\ xStart = 0 /\ \A c \in F : c > 0
  BY LinkFacts, HeapFacts DEF Linked
<1>2. \A a \in F \union {xStart} :
          /\ next[a] \in F \union {pxEnd} /\ a < next[a]
          /\ \A c \in F : c > a => c >= next[a]
  BY DEF Linked
<1>3. /\ x \in Nat /\ y \in Nat /\ x < y /\ y < next[y] /\ next[y] \in Nat
      /\ next[y] \in F \union {pxEnd}
  BY <1>1, <1>2
<1>4. ASSUME NEW a \in (F \ {y}) \union {xStart}
      PROVE  /\ n[a] \in (F \ {y}) \union {pxEnd} /\ a < n[a]
             /\ \A c \in F \ {y} : c > a => c >= n[a]
  <2>0. a \in Nat /\ a # y BY <1>1, <1>3
  <2>1. CASE a = x
    <3>1. n[a] = next[y] BY <2>1
    <3>2. ASSUME NEW c \in F \ {y}, c > x PROVE c >= next[y]
      <4>1. c >= y /\ c # y /\ c \in Nat BY <1>1, <1>2, <3>2
      <4>2. c > y BY <1>3, <4>1
      <4> QED BY <1>2, <4>2
    <3>3. x < next[y] BY <1>3
    <3>4. next[y] \in (F \ {y}) \union {pxEnd} BY <1>3
    <3> QED BY <2>1, <3>1, <3>2, <3>3, <3>4
  <2>2. CASE a # x
    <3>1. n[a] = next[a] BY <2>0, <2>2
    <3>2. /\ next[a] \in F \union {pxEnd} /\ a < next[a]
          /\ \A c \in F : c > a => c >= next[a]
      BY <1>2
    <3>3. next[a] # y
      <4> SUFFICES ASSUME next[a] = y PROVE FALSE OBVIOUS
      <4>1. CASE x > a
        <5>1. x \in F BY <1>1, <2>0, <4>1
        <5>2. x >= y BY <3>2, <4>1, <5>1
        <5> QED BY <1>3, <5>2
      <4>2. CASE a > x
        <5>1. a \in F BY <1>1, <1>3, <4>2
        <5>2. a >= y BY <1>2, <4>2, <5>1
        <5>3. a < y BY <3>2
        <5> QED BY <1>3, <2>0, <5>2, <5>3
      <4> QED BY <1>3, <2>0, <2>2, <4>1, <4>2
    <3> QED BY <3>1, <3>2, <3>3
  <2> QED BY <2>1, <2>2
<1> QED BY <1>1, <1>4 DEF Linked

\* A block is taken out of the list.
LEMMA TakenHeap ==
    ASSUME HeapConstants, NEW m, NEW F, NEW U, Heap(m, F, U), Merged(m, F),
           NEW w \in F \union {xStart}, NEW b \in F, m.next[w] = b,
           NEW taken, taken = Memory([m.next EXCEPT ![w] = m.next[b]], m.size)
    PROVE  Heap(taken, F \ {b}, U \union {b}) /\ Merged(taken, F \ {b})
<1>1. /\ F \subseteq Links /\ Links \subseteq Nat /\ xStart \in Links /\ xStart # pxEnd
      /\ xStart \notin F /\ w \in Links
  BY LinkFacts, HeapFacts DEF Heap, Linked
<1>2. Linked(m.next, F) BY DEF Heap
<1>3. /\ taken = Memory(taken.next, taken.size) /\ taken.size = m.size
      /\ taken.next = [m.next EXCEPT ![w] = m.next[b]]
  BY DEF Memory
<1>4. m.next \in [Links -> Links \union {NULL}] /\ m.size \in [Links -> Sizes] BY DEF Heap
<1>5. b \in Links /\ m.next[b] \in Links \union {NULL} BY <1>1, <1>4
<1>6. /\ taken.next \in [Links -> Links \union {NULL}] /\ taken.next[w] = m.next[b]
      /\ \A a \in Links \ {w} : taken.next[a] = m.next[a]
  BY <1>1, <1>3, <1>4, <1>5
<1>7. Linked(taken.next, F \ {b})
  <2>1. \A a \in (F \union {xStart}) \ {w, b} : taken.next[a] = m.next[a] BY <1>1, <1>6
  <2> QED BY <1>2, <1>6, <2>1, Unlinked
<1>8. \A a \in Links \ ((F \ {b}) \union (U \union {b}) \union {xStart}) : taken.next[a] = NULL
  <2> SUFFICES ASSUME NEW a \in Links \ ((F \ {b}) \union (U \union {b}) \union {xStart})
               PROVE  taken.next[a] = NULL
    OBVIOUS
  <2>1. a \in Links \ (F \union U \union {xStart}) /\ a # w OBVIOUS
  <2>2. m.next[a] = NULL BY <2>1 DEF Heap
  <2> QED BY <1>6, <2>1, <2>2
<1>9. (F \ {b}) \intersect (U \union {b}) = {} BY DEF Heap
<1>10. Tiled(Lengths(taken.size), (F \ {b}) \union (U \union {b}))
  <2>1. (F \ {b}) \union (U \union {b}) = F \union U OBVIOUS
  <2> QED BY <1>3, <2>1 DEF Heap
<1>11. (\A c \in F \ {b} : taken.size[c] < xBlockAllocatedBit) /\ taken.size[pxEnd] = 0
  BY <1>3 DEF Heap
<1>12. Heap(taken, F \ {b}, U \union {b})
  BY <1>3, <1>4, <1>6, <1>7, <1>8, <1>9, <1>10, <1>11 DEF Heap
<1>13. ASSUME NEW z \in F \ {b} PROVE Apart(taken, z)
  <2>1. Apart(m, z) BY DEF Merged
  <2>2. CASE z # w BY <1>1, <1>3, <1>6, <2>1, <2>2 DEF Apart
  <2>3. CASE z = w
    <3>1. b # pxEnd /\ b < m.next[b] BY <1>2, LinkFacts DEF Linked
    <3>2. b > z + m.size[z] BY <2>1, <2>3, <3>1 DEF Apart
    <3>3. z \in Nat /\ m.size[z] \in Nat /\ b \in Nat /\ m.next[b] \in Nat BY FreeFacts
    <3>4. m.next[b] > z + m.size[z] BY <3>1, <3>2, <3>3
    <3> QED BY <1>3, <1>6, <2>3, <3>4 DEF Apart
  <2> QED BY <2>2, <2>3
<1> QED BY <1>12, <1>13 DEF Merged

\* The words of a block in use are changed, its length is not.
LEMMA MarkedHeap ==
    ASSUME HeapConstants, NEW m, NEW F, NEW U, Heap(m, F, U), Merged(m, F),
           NEW b \in U, NEW k, k = Memory(k.next, k.size),
           k.next \in [Links -> Links \union {NULL}], k.size \in [Links -> Sizes],
           \A a \in Links \ {b} : k.next[a] = m.next[a] /\ k.size[a] = m.size[a],
           k.size[b] % xBlockAllocatedBit = m.size[b] % xBlockAllocatedBit
    PROVE  /\ Heap(k, F, U) /\ Merged(k, F)
           /\ Bytes(k, F) = Bytes(m, F)
<1>1. /\ F \subseteq Links /\ U \subseteq Links /\ F \intersect U = {}
      /\ xStart \in Links /\ pxEnd \in Links /\ b # xStart /\ b # pxEnd
  <2>1. Tiled(Lengths(m.size), F \union U) /\ F \intersect U = {} BY DEF Heap
  <2>2. F \union U \subseteq Blocks BY <2>1 DEF Tiled
  <2> QED BY <2>1, <2>2, LinkFacts
<1>2. \A a \in F \union {xStart} : k.next[a] = m.next[a] /\ k.size[a] = m.size[a]
  BY <1>1
<1>3. Linked(k.next, F)
  <2>1. Linked(m.next, F) BY DEF Heap
  <2> QED BY <1>2, <2>1 DEF Linked
<1>4. \A a \in Links \ (F \union U \union {xStart}) : k.next[a] = NULL
  <2> SUFFICES ASSUME NEW a \in Links \ (F \union U \union {xStart}) PROVE k.next[a] = NULL
    OBVIOUS
  <2>1. m.next[a] = NULL BY DEF Heap
  <2> QED BY <2>1
<1>5. Lengths(k.size) = Lengths(m.size)
  <2> SUFFICES ASSUME NEW a \in Links
               PROVE  k.size[a] % xBlockAllocatedBit = m.size[a] % xBlockAllocatedBit
    BY DEF Lengths
  <2>1. CASE a = b BY <2>1
  <2>2. CASE a # b BY <2>2
  <2> QED BY <2>1, <2>2
<1>6. (\A c \in F : k.size[c] < xBlockAllocatedBit) /\ k.size[pxEnd] = 0
  <2>1. (\A c \in F : m.size[c] < xBlockAllocatedBit) /\ m.size[pxEnd] = 0 BY DEF Heap
  <2> QED BY <1>1, <1>2, <2>1
<1>7. Tiled(Lengths(k.size), F \union U) BY <1>5 DEF Heap
<1>8. Heap(k, F, U) BY <1>1, <1>3, <1>4, <1>6, <1>7 DEF Heap
<1>9. Merged(k, F) BY <1>2 DEF Merged, Apart
<1>10. Bytes(k, F) = Bytes(m, F) BY <1>2 DEF Bytes
<1> QED BY <1>8, <1>9, <1>10

LEMMA AlignedSum ==
    ASSUME NEW a \in Nat, NEW b \in Nat, a % 4 = 0, b % 4 = 0
    PROVE  (a + b) % 4 = 0
<1>1. a = 4 * (a \div 4) /\ b = 4 * (b \div 4) /\ a \div 4 \in Nat /\ b \div 4 \in Nat OBVIOUS
<1> DEFINE k == (a \div 4) + (b \div 4)
<1>2. k \in Nat /\ a + b = 4 * k BY <1>1
<1> HIDE DEF k
<1> QED BY <1>2

\* A block that is not in the list is split in two.
SplitAt(m, b, need) ==
    Memory(m.next, [m.size EXCEPT ![b] = need, ![b + need] = m.size[b] - need])

IsSplit(m, F, U, b, need, z, s) ==
    /\ z \in Blocks \ (F \union U) /\ b # z
    /\ s.next = m.next /\ s.size[b] = need /\ s.size[z] = m.size[b] - need
    /\ \A a \in Links \ {b, z} : s.size[a] = m.size[a]
    /\ Heap(s, F, U \union {z}) /\ Merged(s, F)
    /\ Bytes(s, F) = Bytes(m, F)

LEMMA SplitHeap ==
    ASSUME HeapConstants, NEW m, NEW F, NEW U, Heap(m, F, U), Merged(m, F),
           NEW b \in U, m.size[b] < xBlockAllocatedBit,
           NEW need \in Nat, need > 8, need % 4 = 0, m.size[b] - need > 8,
           NEW s, s = SplitAt(m, b, need), NEW z, z = b + need
    PROVE  IsSplit(m, F, U, b, need, z, s)
<1> DEFINE l1 == Lengths(m.size)
           l2 == Lengths(s.size)
           all == F \union U
<1>1. /\ F \subseteq Links /\ U \subseteq Links /\ F \intersect U = {} /\ b \in all
      /\ xStart \in Links /\ pxEnd \in Links /\ xStart \notin all /\ pxEnd \notin all
      /\ Tiled(l1, all) /\ pxEnd \in Nat /\ pxEnd < Limit /\ Limit \in Nat
  <2>1. Tiled(Lengths(m.size), F \union U) /\ F \intersect U = {} BY DEF Heap
  <2>2. F \union U \subseteq Blocks BY <2>1 DEF Tiled
  <2> QED BY <2>1, <2>2, LinkFacts, HeapFacts
<1>2. m.next \in [Links -> Links \union {NULL}] /\ m.size \in [Links -> Sizes] BY DEF Heap
<1>3. /\ b \in Nat /\ b \in Blocks /\ b \in Links /\ b % 4 = 0 /\ m.size[b] \in Nat /\ l1[b] = m.size[b]
      /\ b >= HeapStart /\ b + m.size[b] <= pxEnd
  <2>1. m.size[b] \in Nat /\ m.size[b] < Limit
    <3>1. b \in Links BY <1>1
    <3>2. m.size[b] \in Sizes BY <1>2, <3>1
    <3>3. m.size[b] \in Nat BY <1>1, <3>2 DEF Sizes, SizeLimit, Limit
    <3> QED BY <3>3 DEF Limit
  <2>2. l1[b] = m.size[b] % Limit BY <1>1 DEF Lengths, Limit
  <2>3. l1[b] = m.size[b] BY <1>1, <2>1, <2>2
  <2> QED BY <1>1, <2>1, <2>3, TileFacts
<1>4. z \in Blocks
  <2>1. z % 4 = 0 BY <1>3, AlignedSum
  <2>2. z \in HeapStart .. pxEnd - 1 BY <1>1, <1>3, HeapFacts
  <2> QED BY <2>1, <2>2, LinkFacts
<1>5. z \in Links /\ z # b /\ z \in Nat /\ z # xStart /\ z # pxEnd BY <1>3, <1>4, LinkFacts
<1>6. need \in Sizes /\ m.size[b] - need \in Sizes /\ need < Limit /\ m.size[b] - need < Limit
      /\ m.size[b] - need \in Nat
  BY <1>1, <1>3 DEF Sizes, SizeLimit, Limit
<1>7. /\ s = Memory(s.next, s.size) /\ s.next = m.next
      /\ s.size = [m.size EXCEPT ![b] = need, ![z] = m.size[b] - need]
  BY DEF SplitAt, Memory
<1>8. /\ s.size \in [Links -> Sizes] /\ s.size[b] = need /\ s.size[z] = m.size[b] - need
      /\ \A a \in Links \ {b, z} : s.size[a] = m.size[a]
  BY <1>2, <1>3, <1>5, <1>6, <1>7
<1>9. l2[b] = need /\ l2[z] = l1[b] - need
  <2>1. l2[b] = need % Limit /\ l2[z] = (m.size[b] - need) % Limit
    BY <1>3, <1>5, <1>8 DEF Lengths, Limit
  <2>2. need % Limit = need /\ (m.size[b] - need) % Limit = m.size[b] - need
    BY <1>1, <1>6
  <2> QED BY <1>3, <2>1, <2>2
<1>10. z \notin all /\ Tiled(l2, all \union {z})
  <2>0. z \notin all
    <3>1. \A c \in all : c > b => c >= b + l1[b]
      <4> HIDE DEF l1, all
      <4> QED BY <1>1 DEF Tiled
    <3>2. ~(z >= b + l1[b]) /\ z > b BY <1>3, <1>6
    <3> HIDE DEF all
    <3> QED BY <3>1, <3>2
  <2>1. ASSUME NEW a \in all \ {b} PROVE l2[a] = l1[a]
    <3>1. a \in Links \ {b, z} BY <1>1, <2>0, <2>1
    <3> QED BY <1>8, <3>1 DEF Lengths
  <2>2. l1[b] - need > 8 /\ b + need \in Blocks /\ l2[b + need] = l1[b] - need
    BY <1>3, <1>4, <1>9
  <2> HIDE DEF l1, l2, all
  <2>3. \A a \in all \ {b} : l2[a] = l1[a] BY <2>1
  <2>4. Tiled(l2, all \union {b + need})
    BY <1>1, <1>9, <2>2, <2>3, TileSplit, ZenonT(60)
  <2> QED BY <2>0, <2>4
<1>11. Heap(s, F, U \union {z})
  <2>1. all \union {z} = F \union (U \union {z}) OBVIOUS
  <2>2. Tiled(Lengths(s.size), F \union (U \union {z})) BY <1>10, <2>1
  <2>3. F \intersect (U \union {z}) = {} BY <1>1, <1>10
  <2>4. \A a \in Links \ (F \union (U \union {z}) \union {xStart}) : s.next[a] = NULL
    BY <1>7 DEF Heap
  <2>5. (\A c \in F : s.size[c] < xBlockAllocatedBit) /\ s.size[pxEnd] = 0
    <3>1. (\A c \in F : m.size[c] < xBlockAllocatedBit) /\ m.size[pxEnd] = 0 BY DEF Heap
    <3>2. \A c \in F : c \in Links \ {b, z} BY <1>1, <1>10
    <3>3. pxEnd \in Links \ {b, z} BY <1>1, <1>5
    <3> QED BY <1>8, <3>1, <3>2, <3>3
  <2>6. Linked(s.next, F) BY <1>7 DEF Heap
  <2> QED BY <1>2, <1>7, <1>8, <2>2, <2>3, <2>4, <2>5, <2>6 DEF Heap
<1>12. \A c \in F : s.size[c] = m.size[c]
  <2>1. \A c \in F : c \in Links \ {b, z} BY <1>1, <1>10
  <2> QED BY <1>8, <2>1
<1>13. Merged(s, F) BY <1>7, <1>12 DEF Merged, Apart
<1>14. Bytes(s, F) = Bytes(m, F) BY <1>12 DEF Bytes
<1> QED BY <1>4, <1>5, <1>7, <1>8, <1>10, <1>11, <1>13, <1>14 DEF IsSplit

-----------------------------------------------------------------------------
(* Counting bytes *)

\* No address is in two tiles.
LEMMA TilesDisjoint ==
    ASSUME HeapConstants, NEW len, NEW all, Tiled(len, all), NEW x \in all, NEW y \in all,
           NEW k, k \in x .. x + len[x] - 1, k \in y .. y + len[y] - 1
    PROVE  x = y
<1>1. x \in Nat /\ y \in Nat /\ len[x] \in Nat /\ len[y] \in Nat BY TileFacts
<1>2. (x > y => x >= y + len[y]) /\ (y > x => y >= x + len[x]) BY DEF Tiled
<1> DEFINE lx == len[x]
           ly == len[y]
<1>3. /\ lx \in Nat /\ ly \in Nat /\ k \in x .. x + lx - 1 /\ k \in y .. y + ly - 1
      /\ (x > y => x >= y + ly) /\ (y > x => y >= x + lx)
  BY <1>1, <1>2
<1> HIDE DEF lx, ly
<1> QED BY <1>1, <1>3

\* The free bytes are in the heap, and not in any block in use.
LEMMA FreeAddresses ==
    ASSUME HeapConstants, NEW m, NEW F, NEW U, Heap(m, F, U)
    PROVE  /\ Bytes(m, F) \subseteq HeapStart .. pxEnd - 1
           /\ IsFiniteSet(Bytes(m, F))
           /\ \A b \in U, k \in Bytes(m, F) : k \notin b .. b + Lengths(m.size)[b] - 1
<1>1. Bytes(m, F) \subseteq HeapStart .. pxEnd - 1
  <2> SUFFICES ASSUME NEW k \in Bytes(m, F) PROVE k \in HeapStart .. pxEnd - 1 OBVIOUS
  <2>1. PICK b \in F : k \in b .. b + m.size[b] - 1 BY BytesIn
  <2>2. /\ b \in Nat /\ m.size[b] \in Nat /\ b + m.size[b] <= pxEnd /\ b \in Blocks BY FreeFacts
  <2>3. HeapStart <= b /\ HeapStart \in Nat /\ pxEnd \in Nat BY <2>2, LinkFacts, HeapFacts
  <2> QED BY <2>1, <2>2, <2>3
<1>2. IsFiniteSet(Bytes(m, F))
  <2> DEFINE last == pxEnd - 1
  <2>a. HeapStart \in Int /\ last \in Int BY HeapFacts
  <2> HIDE DEF last
  <2>b. IsFiniteSet(HeapStart .. last) BY <2>a, FS_Interval
  <2>1. IsFiniteSet(HeapStart .. pxEnd - 1) BY <2>b DEF last
  <2> QED BY <1>1, <2>1, FS_Subset
<1>3. ASSUME NEW b \in U, NEW k \in Bytes(m, F), k \in b .. b + Lengths(m.size)[b] - 1
      PROVE  FALSE
  <2>1. PICK c \in F : k \in c .. c + m.size[c] - 1 BY BytesIn
  <2>2. k \in c .. c + Lengths(m.size)[c] - 1 BY <2>1, FreeFacts
  <2>3. Tiled(Lengths(m.size), F \union U) /\ F \intersect U = {} BY DEF Heap
  <2>4. b \in F \union U /\ c \in F \union U OBVIOUS
  <2>5. b = c
    <3> DEFINE len == Lengths(m.size)
               all == F \union U
    <3>1. k \in c .. c + len[c] - 1 /\ k \in b .. b + len[b] - 1 BY <1>3, <2>2
    <3> HIDE DEF len, all
    <3>2. Tiled(len, all) /\ b \in all /\ c \in all BY <2>3, <2>4 DEF len, all
    <3> QED BY <3>1, <3>2, TilesDisjoint
  <2> QED BY <2>3, <2>5
<1> QED BY <1>1, <1>2, <1>3

LEMMA AddedBytes ==
    ASSUME NEW S, IsFiniteSet(S), NEW a \in Nat, NEW n \in Nat, S \intersect (a .. a + n - 1) = {}
    PROVE  Cardinality(S \union (a .. a + n - 1)) = Cardinality(S) + n
<1> DEFINE I == a .. a + n - 1
<1>1. IsFiniteSet(I) /\ Cardinality(I) = n BY FS_Interval
<1>2. Cardinality(S) \in Nat BY FS_CardinalityType
<1>3. S \intersect I = {} OBVIOUS
<1> HIDE DEF I
<1>4. Cardinality(S \union I) = Cardinality(S) + Cardinality(I) - Cardinality(S \intersect I)
  BY <1>1, FS_Union
<1>5. Cardinality(S \intersect I) = 0 BY <1>3, FS_EmptySet
<1>6. Cardinality(S \union I) = Cardinality(S) + n BY <1>1, <1>2, <1>4, <1>5
<1> QED BY <1>6 DEF I

-----------------------------------------------------------------------------
(* The invariant *)

Mem == Memory(pxNextFreeBlock, xBlockSize)
FreeBlocks == {b \in Blocks : pxNextFreeBlock[b] # NULL}
UsedBlocks == Allocated \union InFree

\* The free blocks are linked in order of address and merged, and with those in
\* use they tile the heap.
HeapInv ==
    /\ Heap(Mem, FreeBlocks, UsedBlocks) /\ Merged(Mem, FreeBlocks)
    /\ \A b \in UsedBlocks : pxNextFreeBlock[b] = NULL

\* Block b bears the mark of one in use and holds what allocation a asked for.
Serves(a, b) == xBlockSize[b] >= xBlockAllocatedBit /\ a.pv + a.n <= b + SizeOf(b)

\* A block in use has one owner, bears the mark until it is freed, and holds what
\* was asked for.
UseInv ==
    /\ owned \in [Tasks -> SUBSET [pv : Nat, n : Wanted]]
    /\ freeing \in [Tasks -> Blocks \union {NULL}]
    /\ \A t \in Tasks : \A a \in owned[t] : Serves(a, a.pv - xHeapStructSize)
    /\ \A t, u \in Tasks : \A a \in owned[t], c \in owned[u] : a.pv = c.pv => t = u /\ a = c
    /\ \A t \in Tasks : freeing[t] # NULL =>
          /\ xBlockSize[freeing[t]] < xBlockAllocatedBit
          /\ \A u \in Tasks : freeing[u] = freeing[t] => u = t

CountInv ==
    /\ xFreeBytesRemaining = Cardinality(Bytes(Mem, FreeBlocks))
    /\ xMinimumEverFreeBytesRemaining \in 0 .. xFreeBytesRemaining

IInv == HeapInv /\ UseInv /\ CountInv

\* What is free can be told from the links.
LEMMA FreeIs ==
    ASSUME HeapConstants, NEW m, NEW F, NEW U, Heap(m, F, U), \A b \in U : m.next[b] = NULL
    PROVE  F = {b \in Blocks : m.next[b] # NULL}
<1>1. /\ F \subseteq Blocks /\ Blocks \subseteq Links /\ xStart \notin Blocks /\ NULL \notin Links
      /\ pxEnd \in Links
  BY LinkFacts DEF Heap, Linked
<1>2. ASSUME NEW b \in F PROVE m.next[b] # NULL
  <2>1. m.next[b] \in F \union {pxEnd} BY FreeFacts
  <2> QED BY <1>1, <2>1
<1>3. ASSUME NEW b \in Blocks, b \notin F PROVE m.next[b] = NULL
  <2>1. CASE b \in U BY <2>1
  <2>2. CASE b \notin U
    <3>1. b \in Links \ (F \union U \union {xStart}) BY <1>1, <1>3, <2>2
    <3> QED BY <3>1 DEF Heap
  <2> QED BY <2>1, <2>2
<1> QED BY <1>1, <1>2, <1>3

LEMMA MemFields == Mem.next = pxNextFreeBlock /\ Mem.size = xBlockSize
BY DEF Mem, Memory

\* Following the links from xStart one meets each free block.
LEMMA FreeListIs ==
    ASSUME HeapConstants, HeapInv
    PROVE  FreeList = FreeBlocks
<1> DEFINE F == FreeBlocks
           L == F \union {xStart}
           next == pxNextFreeBlock
           Rest(a) == {c \in F : c > a}
<1>1. /\ Linked(next, F) /\ F \intersect UsedBlocks = {}
      /\ \A a \in Links \ (F \union UsedBlocks \union {xStart}) : next[a] = NULL
      /\ \A b \in UsedBlocks : next[b] = NULL
  BY MemFields DEF HeapInv, Heap
<1>2. /\ L \subseteq Links /\ Links \subseteq 0 .. pxEnd /\ Links \subseteq Nat /\ F \subseteq Blocks
      /\ pxEnd \notin Blocks /\ pxEnd \in Nat /\ NULL \notin Blocks /\ xStart \in L
      /\ \A b \in F : b < pxEnd
  BY <1>1, LinkFacts, HeapFacts DEF Linked
<1>3. \A a \in L : /\ next[a] \in F \union {pxEnd} /\ a < next[a]
                   /\ \A c \in F : c > a => c >= next[a]
  BY <1>1 DEF Linked
<1> HIDE DEF F, next
<1>4. ASSUME NEW a \in L, next[a] \in Blocks
      PROVE  next[a] \in L /\ next[a] > a /\ Rest(a) = {next[a]} \union Rest(next[a])
  <2>1. next[a] \in F /\ next[a] \in Nat /\ a \in Nat /\ next[a] > a BY <1>2, <1>3, <1>4
  <2>2. ASSUME NEW c \in F PROVE c > a <=> c = next[a] \/ c > next[a]
    <3>1. c \in Nat BY <1>2
    <3>2. c > a => c >= next[a] BY <1>3
    <3> QED BY <2>1, <3>1, <3>2
  <2> QED BY <2>1, <2>2
<1>5. ASSUME NEW a \in L, next[a] \notin Blocks
      PROVE  Rest(a) = {}
  <2>1. next[a] = pxEnd BY <1>2, <1>3, <1>5
  <2> SUFFICES ASSUME NEW c \in F, c > a PROVE FALSE OBVIOUS
  <2>2. c >= pxEnd BY <1>3, <2>1
  <2>3. c < pxEnd /\ c \in Nat BY <1>2
  <2> QED BY <1>2, <2>2, <2>3
<1>6. ASSUME NEW a \in Links \ L PROVE next[a] \notin Blocks
  <2>1. next[a] = NULL BY <1>1
  <2> QED BY <1>2, <2>1
<1> DEFINE fn == [a \in Links |-> IF a \in L THEN Rest(a) ELSE {}]
<1>7. fn = [a \in Links |-> IF next[a] \in Blocks THEN {next[a]} \union fn[next[a]] ELSE {}]
  <2>1. ASSUME NEW a \in Links
        PROVE  fn[a] = IF next[a] \in Blocks THEN {next[a]} \union fn[next[a]] ELSE {}
    <3>1. CASE a \in L /\ next[a] \in Blocks
      <4>1. next[a] \in L /\ next[a] \in Links /\ Rest(a) = {next[a]} \union Rest(next[a])
        BY <1>2, <1>4, <3>1
      <4> HIDE DEF Rest, L
      <4>2. fn[a] = Rest(a) /\ fn[next[a]] = Rest(next[a]) BY <3>1, <4>1
      <4> QED BY <3>1, <4>1, <4>2
    <3>2. CASE a \in L /\ next[a] \notin Blocks
      <4>1. Rest(a) = {} BY <1>5, <3>2
      <4> HIDE DEF Rest, L
      <4> QED BY <3>2, <4>1
    <3>3. CASE a \notin L
      <4>1. next[a] \notin Blocks BY <1>6, <3>3
      <4> HIDE DEF Rest, L
      <4> QED BY <3>3, <4>1
    <3> QED BY <3>1, <3>2, <3>3
  <2>2. fn = [a \in Links |-> fn[a]]
    <3> HIDE DEF Rest, L
    <3> QED OBVIOUS
  <2> HIDE DEF fn
  <2> QED BY <2>1, <2>2
<1> DEFINE from == CHOOSE f : f = [a \in Links |-> IF next[a] \in Blocks
                                                   THEN {next[a]} \union f[next[a]] ELSE {}]
<1>8. from = [a \in Links |-> IF next[a] \in Blocks THEN {next[a]} \union from[next[a]] ELSE {}]
  <2> HIDE DEF fn
  <2>1. \E f : f = [a \in Links |-> IF next[a] \in Blocks THEN {next[a]} \union f[next[a]] ELSE {}]
    BY <1>7
  <2> QED BY <2>1
<1>9. FreeList = from[xStart] BY DEF FreeList, next
<1> HIDE DEF from, fn
<1>10. ASSUME NEW a \in L PROVE from[a] = Rest(a)
  <2> DEFINE Wrong == {e \in L : from[e] # Rest(e)}
  <2> SUFFICES ASSUME Wrong # {} PROVE FALSE BY <1>10
  <2>1. Wrong \in SUBSET (0 .. pxEnd) BY <1>2
  <2>2. PICK x \in Wrong : \A y \in Wrong : y <= x
    <3> HIDE DEF Wrong
    <3> QED BY <1>2, <2>1, GreatestElement
  <2>3. x \in L /\ x \in Links /\ x \in Nat BY <1>2
  <2>4. CASE next[x] \in Blocks
    <3>1. next[x] \in L /\ next[x] > x /\ Rest(x) = {next[x]} \union Rest(next[x])
      BY <1>4, <2>3, <2>4
    <3>2. next[x] \in Nat BY <1>2, <3>1
    <3>3. next[x] \notin Wrong BY <2>2, <2>3, <3>1, <3>2
    <3>4. from[next[x]] = Rest(next[x]) BY <3>1, <3>3
    <3> HIDE DEF Rest
    <3>5. from[x] = {next[x]} \union from[next[x]] BY <1>8, <2>3, <2>4
    <3>6. from[x] = Rest(x) BY <3>1, <3>4, <3>5
    <3> QED BY <3>6
  <2>5. CASE next[x] \notin Blocks
    <3>1. Rest(x) = {} BY <1>5, <2>3, <2>5
    <3> HIDE DEF Rest
    <3>2. from[x] = {} BY <1>8, <2>3, <2>5
    <3> QED BY <3>1, <3>2
  <2> QED BY <2>4, <2>5
<1>11. Rest(xStart) = F
  <2>1. \A c \in F : c > xStart BY <1>2, LinkFacts, HeapFacts
  <2> QED BY <2>1
<1>12. from[xStart] = F BY <1>2, <1>10, <1>11
<1> QED BY <1>9, <1>12 DEF F

\* The numbers in the invariant, for the blocks in use.
LEMMA UsedFacts ==
    ASSUME HeapConstants, HeapInv, NEW b \in UsedBlocks
    PROVE  /\ b \in Nat /\ b \in Blocks /\ b \in Links /\ b % 4 = 0 /\ b >= HeapStart
           /\ xBlockSize[b] \in Sizes /\ xBlockSize[b] \in Nat /\ xBlockSize[b] < 2 * Limit
           /\ SizeOf(b) \in Nat /\ SizeOf(b) > 8 /\ SizeOf(b) < Limit
           /\ Lengths(xBlockSize)[b] = SizeOf(b) /\ b + SizeOf(b) <= pxEnd
           /\ b \notin FreeBlocks
<1>1. Tiled(Lengths(xBlockSize), FreeBlocks \union UsedBlocks) /\ FreeBlocks \intersect UsedBlocks = {}
      /\ xBlockSize \in [Links -> Sizes]
  BY MemFields DEF HeapInv, Heap
<1>2. b \in Blocks /\ b \in Links BY <1>1, LinkFacts DEF Tiled
<1>3. Lengths(xBlockSize)[b] = SizeOf(b) BY <1>2 DEF Lengths, SizeOf
<1>4. b \in FreeBlocks \union UsedBlocks OBVIOUS
<1>5. /\ b \in Nat /\ b % 4 = 0 /\ b >= HeapStart /\ SizeOf(b) \in Nat /\ SizeOf(b) > 8
      /\ b + SizeOf(b) <= pxEnd
  BY <1>1, <1>3, <1>4, TileFacts
<1>6. SizeOf(b) < Limit BY <1>5, HeapFacts
<1>7. xBlockSize[b] \in Sizes BY <1>1, <1>2
<1>8. xBlockSize[b] \in Nat /\ xBlockSize[b] < 2 * Limit
  BY <1>7, HeapFacts DEF Sizes, SizeLimit, Limit
<1> QED BY <1>1, <1>2, <1>3, <1>5, <1>6, <1>7, <1>8

LEMMA FreeBlockFacts ==
    ASSUME HeapConstants, HeapInv, NEW b \in FreeBlocks
    PROVE  /\ b \in Nat /\ b > 0 /\ b \in Blocks /\ b \in Links /\ b % 4 = 0
           /\ xBlockSize[b] \in Nat /\ xBlockSize[b] > 8 /\ xBlockSize[b] < Limit
           /\ SizeOf(b) = xBlockSize[b] /\ Lengths(xBlockSize)[b] = xBlockSize[b]
           /\ b + xBlockSize[b] <= pxEnd
           /\ pxNextFreeBlock[b] \in FreeBlocks \union {pxEnd} /\ pxNextFreeBlock[b] \in Nat
           /\ pxNextFreeBlock[b] # pxEnd => pxNextFreeBlock[b] > b + xBlockSize[b]
<1>1. Heap(Mem, FreeBlocks, UsedBlocks) /\ Merged(Mem, FreeBlocks) BY DEF HeapInv
<1>2. /\ b \in Nat /\ b > 0 /\ b \in Blocks /\ b \in Links /\ b % 4 = 0
      /\ Mem.size[b] \in Nat /\ Mem.size[b] > 8 /\ Mem.size[b] < Limit
      /\ Lengths(Mem.size)[b] = Mem.size[b]
      /\ b + Mem.size[b] <= pxEnd
      /\ Mem.next[b] \in FreeBlocks \union {pxEnd} /\ Mem.next[b] \in Nat
  BY <1>1, FreeFacts
<1>3. SizeOf(b) = Lengths(Mem.size)[b] BY <1>2, MemFields DEF Lengths, SizeOf
<1>4. Apart(Mem, b) BY <1>1 DEF Merged
<1> QED BY <1>2, <1>3, <1>4, MemFields DEF Apart

LEMMA TypeConsequence ==
    ASSUME HeapConstants, IInv
    PROVE  TypeOK
<1>1. HeapInv /\ UseInv /\ CountInv BY DEF IInv
<1>2. Heap(Mem, FreeBlocks, UsedBlocks) BY <1>1 DEF HeapInv
<1>3. pxNextFreeBlock \in [Links -> Links \union {NULL}] /\ xBlockSize \in [Links -> Sizes]
  BY <1>2, MemFields DEF Heap
<1>4. xFreeBytesRemaining \in 0 .. pxEnd - HeapStart
  <2> DEFINE last == pxEnd - 1
             S == HeapStart .. last
             T == Bytes(Mem, FreeBlocks)
  <2>1. HeapStart \in Int /\ last \in Int /\ HeapStart < last /\ ~(HeapStart > last)
    BY HeapFacts
  <2>2. T \subseteq S /\ IsFiniteSet(T) BY <1>2, FreeAddresses
  <2>3. last - HeapStart + 1 = pxEnd - HeapStart BY HeapFacts
  <2> HIDE DEF last
  <2>4. IsFiniteSet(S) /\ Cardinality(S) = last - HeapStart + 1
    <3>1. /\ IsFiniteSet(HeapStart .. last)
          /\ Cardinality(HeapStart .. last) = last - HeapStart + 1
      BY <2>1, FS_Interval
    <3> QED BY <3>1
  <2> HIDE DEF S, T
  <2>5. Cardinality(T) <= Cardinality(S) BY <2>2, <2>4, FS_Subset
  <2>6. Cardinality(T) \in Nat BY <2>2, FS_CardinalityType
  <2>7. xFreeBytesRemaining = Cardinality(T) BY <1>1 DEF CountInv, T
  <2> QED BY <2>1, <2>3, <2>4, <2>5, <2>6, <2>7
<1>5. xMinimumEverFreeBytesRemaining \in 0 .. xFreeBytesRemaining BY <1>1 DEF CountInv
<1>6. ASSUME NEW t \in Tasks, NEW a \in owned[t]
      PROVE  a.pv \in HeapStart .. pxEnd /\ a.n \in Wanted
  <2>1. a \in [pv : Nat, n : Wanted] BY <1>1 DEF UseInv
  <2>2. a.pv - 8 \in UsedBlocks
    <3>1. a.pv - xHeapStructSize \in UsedBlocks BY DEF UsedBlocks, Allocated
    <3> QED BY <3>1 DEF xHeapStructSize
  <2> DEFINE b == a.pv - 8
  <2>3. /\ b \in Nat /\ b >= HeapStart /\ SizeOf(b) \in Nat /\ SizeOf(b) > 8
        /\ b + SizeOf(b) <= pxEnd
    BY <1>1, <2>2, UsedFacts
  <2>4. a.pv \in Nat /\ a.n \in Wanted /\ a.pv = b + 8 BY <2>1
  <2> HIDE DEF b
  <2> QED BY <2>3, <2>4, HeapFacts
<1>7. \A t \in Tasks : freeing[t] \in Blocks \union {NULL} BY <1>1 DEF UseInv
<1> QED BY <1>3, <1>4, <1>5, <1>6, <1>7 DEF TypeOK

LEMMA TiledConsequence ==
    ASSUME HeapConstants, IInv
    PROVE  HeapTiled
<1> DEFINE all == FreeList \union Allocated \union InFree
<1>1. HeapInv /\ UseInv BY DEF IInv
<1>2. FreeList = FreeBlocks BY <1>1, FreeListIs
<1>3. all = FreeBlocks \union UsedBlocks BY <1>2 DEF UsedBlocks
<1>4. Tiled(Lengths(xBlockSize), all) /\ FreeBlocks \intersect UsedBlocks = {}
  BY <1>1, <1>3, MemFields DEF HeapInv, Heap
<1>5. \A b \in all : Lengths(xBlockSize)[b] = SizeOf(b)
  BY <1>1, <1>3, UsedFacts, FreeBlockFacts
<1>6. /\ HeapStart \in all
      /\ \A b \in all : /\ b + SizeOf(b) \in all \union {pxEnd} /\ SizeOf(b) > xHeapStructSize
                        /\ \A c \in all : c > b => c >= b + SizeOf(b)
  <2> HIDE DEF all
  <2> QED BY <1>4, <1>5 DEF Tiled
<1>7. FreeList \intersect (Allocated \union InFree) = {} BY <1>2, <1>4 DEF UsedBlocks
<1>8. ASSUME NEW t \in Tasks, NEW a \in owned[t]
      PROVE  /\ a.pv - xHeapStructSize \in UsedBlocks
             /\ a.pv % portBYTE_ALIGNMENT = 0
             /\ a.pv + a.n <= a.pv - xHeapStructSize + SizeOf(a.pv - xHeapStructSize)
             /\ xBlockSize[a.pv - xHeapStructSize] >= xBlockAllocatedBit
             /\ pxNextFreeBlock[a.pv - xHeapStructSize] = NULL
  <2>1. a \in [pv : Nat, n : Wanted] BY <1>1 DEF UseInv
  <2>2. a.pv - xHeapStructSize \in UsedBlocks BY DEF UsedBlocks, Allocated
  <2>3. a.pv % 4 = 0
    <3> DEFINE b == a.pv - xHeapStructSize
    <3>1. b \in Nat /\ b % 4 = 0 BY <1>1, <2>2, UsedFacts
    <3>2. a.pv = b + 8 BY <2>1 DEF xHeapStructSize
    <3>3. 8 \in Nat /\ 8 % 4 = 0 OBVIOUS
    <3> HIDE DEF b
    <3>4. (b + 8) % 4 = 0 BY <3>1, <3>3, AlignedSum
    <3> QED BY <3>2, <3>4
  <2>4. pxNextFreeBlock[a.pv - xHeapStructSize] = NULL BY <1>1, <2>2 DEF HeapInv
  <2> QED BY <1>1, <2>2, <2>3, <2>4 DEF UseInv, Serves, portBYTE_ALIGNMENT
<1>9. Allocated \intersect InFree = {}
  <2> SUFFICES ASSUME NEW b \in Allocated, b \in InFree PROVE FALSE OBVIOUS
  <2>1. PICK t \in Tasks : \E a \in owned[t] : b = a.pv - xHeapStructSize BY DEF Allocated
  <2>2. PICK u \in Tasks : b = freeing[u] /\ freeing[u] # NULL BY DEF InFree
  <2>3. xBlockSize[b] < xBlockAllocatedBit BY <1>1, <2>2 DEF UseInv
  <2>4. xBlockSize[b] >= xBlockAllocatedBit BY <1>8, <2>1
  <2>5. b \in UsedBlocks BY DEF UsedBlocks
  <2>6. xBlockSize[b] \in Nat /\ xBlockAllocatedBit \in Nat BY <1>1, <2>5, UsedFacts, HeapFacts DEF Limit
  <2> QED BY <2>3, <2>4, <2>6
<1> HIDE DEF all
<1> QED BY <1>6, <1>7, <1>8, <1>9 DEF HeapTiled, all

LEMMA MergedConsequence ==
    ASSUME HeapConstants, IInv
    PROVE  ListMerged
<1>1. HeapInv BY DEF IInv
<1>2. FreeList = FreeBlocks BY <1>1, FreeListIs
<1>3. pxNextFreeBlock[pxEnd] = NULL /\ xBlockSize[pxEnd] = 0
  <2>1. Heap(Mem, FreeBlocks, UsedBlocks) BY <1>1 DEF HeapInv
  <2>2. pxEnd \in Links \ (FreeBlocks \union UsedBlocks \union {xStart})
    BY <2>1, LinkFacts, TileFacts DEF Heap
  <2> QED BY <2>1, <2>2, MemFields DEF Heap
<1>4. ASSUME NEW b \in FreeBlocks
      PROVE  /\ pxNextFreeBlock[b] \in FreeBlocks \union {pxEnd}
             /\ pxNextFreeBlock[b] > b + SizeOf(b) \/ pxNextFreeBlock[b] = pxEnd
             /\ xBlockSize[b] < xBlockAllocatedBit
  BY <1>1, FreeBlockFacts DEF Limit
<1> QED BY <1>2, <1>3, <1>4 DEF ListMerged

LEMMA CountConsequence ==
    ASSUME HeapConstants, IInv
    PROVE  FreeBytesCounted
<1>1. HeapInv /\ CountInv /\ TypeOK BY TypeConsequence DEF IInv
<1>2. FreeList = FreeBlocks BY <1>1, FreeListIs
<1>3. \A b \in FreeBlocks : SizeOf(b) = Mem.size[b] BY <1>1, FreeBlockFacts, MemFields
<1>4. UNION {b .. b + SizeOf(b) - 1 : b \in FreeList} = Bytes(Mem, FreeBlocks) BY <1>2, <1>3 DEF Bytes
<1> QED BY <1>1, <1>4 DEF FreeBytesCounted, CountInv

LEMMA HeaderFacts ==
    ASSUME HeapConstants, NEW n \in Wanted
    PROVE  /\ n \in Nat /\ WithHeader(n) \in Nat
           /\ WithHeader(n) # 0 <=> n > 0 /\ n < Limit
           /\ WithHeader(n) # 0 => WithHeader(n) % 4 = 0 /\ WithHeader(n) >= n + 8
                                   /\ WithHeader(n) > 8
<1>1. n \in Nat /\ Limit \in Nat /\ Limit > 12
  <2>1. n \in Nat BY HeapFacts DEF HeapConstants, Sizes, SizeLimit, Limit
  <2>2. HeapStart \in Nat /\ HeapStart % 4 = 0 /\ 0 < HeapStart BY HeapFacts
  <2>3. HeapStart >= 4 BY <2>2
  <2> QED BY <2>1, <2>3, HeapFacts
<1>2. CASE ~(n > 0 /\ n < Limit)
  <2>1. WithHeader(n) = 0 BY <1>2 DEF WithHeader, Limit
  <2> QED BY <1>1, <1>2, <2>1
<1>3. CASE n > 0 /\ n < Limit
  <2>1. WithHeader(n) = AlignUp(n + 8) % (2 * Limit)
    BY <1>3 DEF WithHeader, Limit, SizeLimit, xHeapStructSize
  <2> DEFINE k == AlignUp(n + 8)
  <2>2. n + 8 \in Nat BY <1>1
  <2>3. k \in Nat /\ k % 4 = 0 /\ n + 8 <= k /\ k < n + 12
    <3> DEFINE x == n + 8
    <3> HIDE DEF x
    <3>1. AlignUp(x) \in Nat /\ AlignUp(x) % 4 = 0 /\ x <= AlignUp(x) /\ AlignUp(x) < x + 4
      BY <2>2, AlignFacts DEF x
    <3> QED BY <1>1, <3>1 DEF x
  <2> HIDE DEF k
  <2>4. k < 2 * Limit BY <1>1, <1>3, <2>3
  <2>5. k % (2 * Limit) = k BY <1>1, <2>3, <2>4
  <2>6. WithHeader(n) = k BY <2>1, <2>5 DEF k
  <2> QED BY <1>1, <1>3, <2>3, <2>6
<1> QED BY <1>2, <1>3

\* Each block of the list is the next one of a link.
LEMMA Predecessor ==
    ASSUME HeapConstants, NEW next, NEW F, Linked(next, F), NEW c \in F
    PROVE  \E a \in F \union {xStart} : a < c /\ next[a] = c
<1> DEFINE S == {a \in F \union {xStart} : a < c}
<1>1. /\ F \subseteq Nat /\ xStart = 0 /\ \A a \in F : a > 0 /\ a < pxEnd
      /\ pxEnd \in Nat
  BY LinkFacts, HeapFacts DEF Linked
<1>2. c \in Nat /\ c > 0 /\ c < pxEnd BY <1>1
<1>3. S \subseteq 0 .. c
  <2> SUFFICES ASSUME NEW a \in S PROVE a \in 0 .. c OBVIOUS
  <2>1. a \in Nat /\ a < c BY <1>1
  <2> QED BY <1>2, <2>1
<1>4. xStart \in S BY <1>1, <1>2
<1>5. PICK a \in S : \A d \in S : d <= a
  <2> HIDE DEF S
  <2> QED BY <1>2, <1>3, <1>4, GreatestElement
<1>6. a \in F \union {xStart} /\ a < c /\ a \in Nat BY <1>1, <1>5
<1>7. next[a] \in F \union {pxEnd} /\ a < next[a] /\ c >= next[a] BY <1>2, <1>6 DEF Linked
<1>8. next[a] \in Nat BY <1>1, <1>7
<1>9. ASSUME next[a] # c PROVE FALSE
  <2>1. next[a] < c BY <1>2, <1>7, <1>8, <1>9
  <2>2. next[a] \in S BY <1>1, <1>2, <1>7, <2>1
  <2>3. next[a] <= a BY <1>5, <2>2
  <2> QED BY <1>6, <1>7, <1>8, <2>3
<1> QED BY <1>6, <1>9

\* The block that pvPortMalloc finds, or that there is none.
LEMMA FirstFit ==
    ASSUME HeapConstants, HeapInv, NEW need \in Nat,
           NEW w, w = BeforeFirstFit(need), NEW b, b = pxNextFreeBlock[w]
    PROVE  /\ w \in FreeBlocks \union {xStart} /\ b \in FreeBlocks \union {pxEnd}
           /\ b \in FreeBlocks => xBlockSize[b] >= need
           /\ b = pxEnd => \A c \in FreeBlocks : xBlockSize[c] < need
<1> DEFINE F == FreeBlocks
           next == pxNextFreeBlock
           G == {a \in Links : LET d == next[a]
                               IN  d # NULL /\ xBlockSize[d] < need /\ next[d] # NULL}
<1>1. /\ Linked(next, F)
      /\ \A a \in Links \ (F \union UsedBlocks \union {xStart}) : next[a] = NULL
      /\ \A a \in UsedBlocks : next[a] = NULL
      /\ next \in [Links -> Links \union {NULL}]
  BY MemFields DEF HeapInv, Heap
<1>2. /\ F \subseteq Blocks /\ F \subseteq Links /\ xStart \in Links /\ pxEnd \in Links
      /\ pxEnd \notin Blocks /\ pxEnd # xStart /\ UsedBlocks \subseteq Blocks
      /\ NULL \notin Links /\ pxEnd \in Nat /\ F \subseteq Nat /\ xStart \in Nat
      /\ \A c \in F : c < pxEnd
  BY <1>1, LinkFacts, HeapFacts, UsedFacts DEF Linked
<1>3. next[pxEnd] = NULL
  <2>1. pxEnd \in Links \ (F \union UsedBlocks \union {xStart}) BY <1>2
  <2> QED BY <1>1, <2>1
<1>4. ASSUME NEW a \in F \union {xStart}
      PROVE  next[a] \in F \union {pxEnd} /\ a < next[a] /\ \A c \in F : c > a => c >= next[a]
  BY <1>1 DEF Linked
<1>5. ASSUME NEW a \in G PROVE next[a] \in F
  <2>1. a \in Links /\ next[a] # NULL /\ next[next[a]] # NULL OBVIOUS
  <2>2. a \in F \union {xStart} BY <1>1, <2>1
  <2>3. next[a] # pxEnd BY <1>3, <2>1
  <2> QED BY <1>4, <2>2, <2>3
<1>6. w = Walk(next, G) BY DEF BeforeFirstFit
<1>7. w \in (F \union {xStart}) \ G /\ \A c \in F \union {xStart} : c < w => c \in G
  <2>1. G \in SUBSET Links OBVIOUS
  <2> HIDE DEF F, G, next
  <2> QED BY <1>1, <1>5, <1>6, <2>1, WalkEnds
<1>8. b = next[w] /\ b \in F \union {pxEnd} BY <1>4, <1>7
<1>9. ASSUME b \in F PROVE xBlockSize[b] >= need
  <2>1. w \in Links /\ b # NULL BY <1>2, <1>7, <1>9
  <2>2. next[b] # NULL BY <1>9 DEF FreeBlocks
  <2>3. ~(xBlockSize[b] < need) BY <1>7, <1>8, <2>1, <2>2
  <2>4. xBlockSize[b] \in Nat BY <1>9, FreeBlockFacts
  <2> QED BY <2>3, <2>4
<1>10. ASSUME b = pxEnd, NEW c \in F PROVE xBlockSize[c] < need
  <2>1. PICK a \in F \union {xStart} : a < c /\ next[a] = c
    <3> HIDE DEF F, next
    <3> QED BY <1>1, <1>10, Predecessor
  <2>2. ~(c > w)
    <3>1. c > w => c >= pxEnd BY <1>4, <1>7, <1>8, <1>10
    <3>2. c < pxEnd /\ c \in Nat BY <1>2, <1>10
    <3> QED BY <1>2, <3>1, <3>2
  <2>3. a < w
    <3>1. a \in Nat /\ c \in Nat /\ w \in Nat BY <1>2, <1>7, <1>10, <2>1
    <3> QED BY <2>1, <2>2, <3>1
  <2>4. a \in G BY <1>7, <2>3
  <2> QED BY <2>1, <2>4
<1> QED BY <1>7, <1>8, <1>9, <1>10

\* An address that no block in use has is in a free block.
LEMMA GapIsFree ==
    ASSUME HeapConstants, HeapInv, NEW k \in HeapStart .. pxEnd - 1,
           \A c \in UsedBlocks : ~(c <= k /\ k < c + SizeOf(c))
    PROVE  \E x \in FreeBlocks : x <= k /\ k < x + xBlockSize[x]
<1> DEFINE len == Lengths(xBlockSize)
           all == FreeBlocks \union UsedBlocks
<1>1. Tiled(len, all) BY MemFields DEF HeapInv, Heap
<1>2. PICK x \in all : x <= k /\ k < x + len[x]
  <2> HIDE DEF len, all
  <2> QED BY <1>1, TileOf
<1>3. x \notin UsedBlocks BY <1>2, UsedFacts
<1>4. x \in FreeBlocks BY <1>3
<1>5. len[x] = xBlockSize[x] BY <1>4, FreeBlockFacts
<1> QED BY <1>2, <1>4, <1>5

LEMMA FailsConsequence ==
    ASSUME HeapConstants, IInv
    PROVE  FailsOnlyWhenFull
<1> SUFFICES ASSUME NEW n \in Wanted \ {0}, MallocFails(n), n < xBlockAllocatedBit,
                    NEW b \in HeapStart .. pxEnd - 1,
                    b + WithHeader(n) <= pxEnd,
                    \A c \in Allocated \union InFree :
                        c + SizeOf(c) <= b \/ b + WithHeader(n) <= c
             PROVE  FALSE
  BY DEF FailsOnlyWhenFull
<1>1. HeapInv /\ CountInv BY DEF IInv
<1>2. PICK need \in Nat : need = WithHeader(n) BY HeaderFacts
<1>3. need # 0 /\ need > 8
  <2>1. n \in Nat /\ n > 0 /\ n < Limit BY HeaderFacts DEF Limit
  <2> QED BY <1>2, <2>1, HeaderFacts
<1>4. /\ b \in Nat /\ HeapStart \in Nat /\ pxEnd \in Nat /\ HeapStart <= b /\ b + need <= pxEnd
      /\ \A c \in UsedBlocks : c + SizeOf(c) <= b \/ b + need <= c
  BY <1>2, HeapFacts DEF UsedBlocks
<1>5. ASSUME NEW k \in b .. b + need - 1
      PROVE  \E x \in FreeBlocks : x <= k /\ k < x + xBlockSize[x]
  <2>1. k \in Nat /\ k \in HeapStart .. pxEnd - 1 /\ b <= k /\ k < b + need BY <1>4
  <2>2. ASSUME NEW c \in UsedBlocks PROVE ~(c <= k /\ k < c + SizeOf(c))
    <3>1. c \in Nat /\ SizeOf(c) \in Nat BY <1>1, UsedFacts
    <3>2. c + SizeOf(c) <= b \/ b + need <= c BY <1>4
    <3> QED BY <1>4, <2>1, <3>1, <3>2
  <2> QED BY <1>1, <2>1, <2>2, GapIsFree
\* There are enough free bytes ...
<1>6. need <= xFreeBytesRemaining
  <2> DEFINE I == b .. b + need - 1
             S == Bytes(Mem, FreeBlocks)
  <2>1. I \subseteq S
    <3> SUFFICES ASSUME NEW k \in I PROVE k \in S OBVIOUS
    <3>1. PICK x \in FreeBlocks : x <= k /\ k < x + xBlockSize[x] BY <1>5
    <3>2. x \in Nat /\ xBlockSize[x] \in Nat /\ k \in Nat BY <1>1, <1>4, FreeBlockFacts
    <3>3. k \in x .. x + Mem.size[x] - 1 BY <3>1, <3>2, MemFields
    <3> QED BY <3>3, BytesIn
  <2>2. IsFiniteSet(S) BY <1>1, FreeAddresses DEF HeapInv
  <2>3. Cardinality(I) = need
    <3> DEFINE last == b + need - 1
    <3>1. b \in Int /\ last \in Int /\ last - b + 1 = need /\ ~(b > last) BY <1>3, <1>4
    <3> HIDE DEF last
    <3>2. Cardinality(b .. last) = last - b + 1 BY <3>1, FS_Interval
    <3> QED BY <3>1, <3>2 DEF last
  <2> HIDE DEF I, S
  <2>4. Cardinality(I) <= Cardinality(S) BY <2>1, <2>2, FS_Subset
  <2> QED BY <1>1, <2>3, <2>4 DEF CountInv, S
\* ... and all of the gap is in one free block, as neighbours are merged.
<1>7. PICK x \in FreeBlocks : x <= b /\ b < x + xBlockSize[x]
  <2>1. b \in b .. b + need - 1 BY <1>3, <1>4
  <2> QED BY <1>5, <2>1
<1>8. /\ x \in Nat /\ xBlockSize[x] \in Nat /\ x + xBlockSize[x] <= pxEnd
      /\ pxNextFreeBlock[x] \in FreeBlocks \union {pxEnd} /\ pxNextFreeBlock[x] \in Nat
      /\ pxNextFreeBlock[x] # pxEnd => pxNextFreeBlock[x] > x + xBlockSize[x]
  BY <1>1, FreeBlockFacts
<1>9. xBlockSize[x] >= need
  <2> SUFFICES ASSUME xBlockSize[x] < need PROVE FALSE BY <1>8
  <2>1. PICK y \in Nat : y = x + xBlockSize[x] BY <1>8
  <2>2. y \in b .. b + need - 1 /\ y > x BY <1>4, <1>7, <1>8, <2>1
  <2>3. PICK z \in FreeBlocks : z <= y /\ y < z + xBlockSize[z] BY <1>5, <2>2
  <2>4. z \in Nat /\ xBlockSize[z] \in Nat /\ z < pxEnd
    <3>1. z \in Blocks BY <1>1, FreeBlockFacts
    <3> QED BY <1>1, <3>1, FreeBlockFacts, LinkFacts
  <2>5. z # x BY <1>8, <2>1, <2>3, <2>4
  <2>6. z > x
    <3> SUFFICES ASSUME z < x PROVE FALSE BY <1>8, <2>4, <2>5
    <3>1. Tiled(Lengths(xBlockSize), FreeBlocks \union UsedBlocks)
      BY <1>1, MemFields DEF HeapInv, Heap
    <3>2. x >= z + Lengths(xBlockSize)[z] BY <3>1 DEF Tiled
    <3>3. x >= z + xBlockSize[z] BY <1>1, <3>2, FreeBlockFacts
    <3> QED BY <1>8, <2>2, <2>3, <2>4, <3>3
  <2>7. z >= pxNextFreeBlock[x]
    <3>1. Linked(pxNextFreeBlock, FreeBlocks) BY <1>1, MemFields DEF HeapInv, Heap
    <3> QED BY <2>6, <3>1 DEF Linked
  <2>8. pxNextFreeBlock[x] # pxEnd BY <1>4, <1>8, <2>4, <2>7
  <2> QED BY <1>8, <2>1, <2>3, <2>4, <2>7, <2>8
<1>10. pxNextFreeBlock[BeforeFirstFit(need)] = pxEnd
  BY <1>2, <1>3, <1>6, CountConsequence DEF MallocFails, FreeBytesCounted, TypeOK
<1>11. xBlockSize[x] < need BY <1>1, <1>10, FirstFit
<1> QED BY <1>8, <1>9, <1>11

-----------------------------------------------------------------------------
(* The invariant holds at first and is kept *)

\* After prvHeapInit the heap is one free block.
LEMMA InitInv ==
    ASSUME HeapConstants, Init
    PROVE  IInv
<1> DEFINE F == {HeapStart}
           len == Lengths(xBlockSize)
<1>1. /\ HeapStart \in Blocks /\ HeapStart \in Links /\ xStart \in Links /\ pxEnd \in Links
      /\ Blocks \subseteq Links /\ xStart \notin Blocks /\ pxEnd \notin Blocks
      /\ HeapStart # xStart /\ HeapStart # pxEnd /\ xStart # pxEnd
      /\ NULL \notin Links /\ xStart = 0 /\ HeapStart \in Nat /\ pxEnd \in Nat /\ Limit \in Nat
      /\ 0 < HeapStart /\ HeapStart + 8 < pxEnd /\ pxEnd < Limit
  BY LinkFacts, HeapFacts
<1>2. PICK total \in Nat : total = pxEnd - HeapStart BY <1>1
<1>3. /\ total > 8 /\ total < Limit /\ total \in Sizes /\ 0 \in Sizes
      /\ HeapStart + total = pxEnd /\ HeapStart + total - 1 = pxEnd - 1
  BY <1>1, <1>2 DEF Sizes, SizeLimit, Limit
<1>4. /\ pxNextFreeBlock = [a \in Links |-> IF a = xStart THEN HeapStart
                                            ELSE IF a = HeapStart THEN pxEnd ELSE NULL]
      /\ xBlockSize = [a \in Links |-> IF a = HeapStart THEN total ELSE 0]
  <2>1. HeapStart # xStart BY <1>1
  <2>2. pxNextFreeBlock = [a \in Links |-> CASE a = xStart -> HeapStart
                                              [] a = HeapStart -> pxEnd
                                              [] OTHER -> NULL]
    BY DEF Init
  <2>3. ASSUME NEW a \in Links
        PROVE  (CASE a = xStart -> HeapStart [] a = HeapStart -> pxEnd [] OTHER -> NULL)
                 = (IF a = xStart THEN HeapStart ELSE IF a = HeapStart THEN pxEnd ELSE NULL)
    <3>1. CASE a = xStart BY <2>1, <3>1
    <3>2. CASE a = HeapStart BY <2>1, <3>2
    <3>3. CASE a # xStart /\ a # HeapStart BY <3>3
    <3> QED BY <3>1, <3>2, <3>3
  <2>4. xBlockSize = [a \in Links |-> IF a = HeapStart THEN total ELSE 0] BY <1>2 DEF Init
  <2> QED BY <2>2, <2>3, <2>4
<1>5. /\ pxNextFreeBlock \in [Links -> Links \union {NULL}] /\ xBlockSize \in [Links -> Sizes]
      /\ pxNextFreeBlock[xStart] = HeapStart /\ pxNextFreeBlock[HeapStart] = pxEnd
      /\ \A a \in Links \ {xStart, HeapStart} : pxNextFreeBlock[a] = NULL
      /\ xBlockSize[HeapStart] = total /\ xBlockSize[pxEnd] = 0
  BY <1>1, <1>3, <1>4
<1>6. UsedBlocks = {}
  <2>1. \A t \in Tasks : owned[t] = {} /\ freeing[t] = NULL BY DEF Init
  <2> QED BY <2>1 DEF UsedBlocks, Allocated, InFree
<1>7. FreeBlocks = F
  <2>1. pxEnd # NULL BY <1>1
  <2> QED BY <1>1, <1>5, <2>1 DEF FreeBlocks
<1>8. len[HeapStart] = total
  <2>1. len[HeapStart] = total % Limit BY <1>1, <1>5 DEF Lengths, Limit
  <2> QED BY <1>1, <1>3, <2>1
<1>9. Linked(pxNextFreeBlock, F) BY <1>1, <1>5 DEF Linked
<1>10. Tiled(len, F)
  <2>1. len[HeapStart] \in Nat /\ len[HeapStart] > xHeapStructSize
    BY <1>3, <1>8 DEF xHeapStructSize
  <2>2. HeapStart + len[HeapStart] \in F \union {pxEnd} BY <1>3, <1>8
  <2>3. \A c \in F : c > HeapStart => c >= HeapStart + len[HeapStart] BY <1>1
  <2> HIDE DEF len
  <2> QED BY <1>1, <2>1, <2>2, <2>3 DEF Tiled
<1>11. Heap(Mem, F, {})
  <2>1. Mem = Memory(Mem.next, Mem.size) BY DEF Mem, Memory
  <2>2. F \union {} = F /\ F \intersect {} = {} OBVIOUS
  <2>3. \A a \in Links \ (F \union {} \union {xStart}) : pxNextFreeBlock[a] = NULL BY <1>5
  <2>4. \A b \in F : xBlockSize[b] < xBlockAllocatedBit BY <1>3, <1>5 DEF Limit
  <2> HIDE DEF F
  <2> QED BY <1>5, <1>9, <1>10, <2>1, <2>2, <2>3, <2>4, MemFields DEF Heap, len
<1>12. Merged(Mem, F) BY <1>5, MemFields DEF Merged, Apart
<1>13. HeapInv BY <1>6, <1>7, <1>11, <1>12 DEF HeapInv
<1>14. UseInv
  <2>1. owned = [t \in Tasks |-> {}] /\ freeing = [t \in Tasks |-> NULL] BY DEF Init
  <2> QED BY <2>1 DEF UseInv
<1>15. CountInv
  <2>1. Bytes(Mem, F) = HeapStart .. HeapStart + total - 1 BY <1>5, MemFields DEF Bytes
  <2>2. Cardinality(HeapStart .. HeapStart + total - 1) = total
    <3> DEFINE last == HeapStart + total - 1
    <3>1. last \in Int /\ HeapStart \in Int /\ ~(HeapStart > last) /\ last - HeapStart + 1 = total
      BY <1>1, <1>3
    <3> HIDE DEF last
    <3>2. Cardinality(HeapStart .. last) = last - HeapStart + 1 BY <3>1, FS_Interval
    <3> QED BY <3>1, <3>2 DEF last
  <2>3. xFreeBytesRemaining = total /\ xMinimumEverFreeBytesRemaining = total BY <1>2 DEF Init
  <2>4. Cardinality(Bytes(Mem, FreeBlocks)) = total BY <1>7, <2>1, <2>2
  <2> QED BY <2>3, <2>4 DEF CountInv
<1> QED BY <1>13, <1>14, <1>15 DEF IInv

\* The steps of pvPortMalloc: a block leaves the list, is split, gives back what it
\* is not needed for, and is marked.
TakenFrom(m, w, b) == Memory([m.next EXCEPT ![w] = m.next[b]], m.size)
CutTo(m, b, need) ==
    IF Worth(m.size[b] - need) THEN InsertBlock(SplitAt(m, b, need), b + need) ELSE m
Handed(m, b) ==
    Memory([m.next EXCEPT ![b] = NULL], [m.size EXCEPT ![b] = @ + xBlockAllocatedBit])

\* What pvPortMalloc makes of the heap: the block found is in use, the rest of it
\* back in the list if that is worth it, and the other blocks in use are untouched.
IsMalloc(m, F, U, b, need, c, k) ==
    /\ c.size[b] \in Nat /\ c.size[b] >= need /\ c.size[b] < Limit
    /\ k.size[b] = c.size[b] + Limit /\ k.size[b] % xBlockAllocatedBit = c.size[b]
    /\ \A a \in U : k.size[a] = m.size[a]
    /\ \A a \in U \union {b} : k.next[a] = NULL
    /\ \E F2 : /\ Heap(k, F2, U \union {b}) /\ Merged(k, F2)
               /\ Bytes(m, F) = Bytes(k, F2) \union (b .. b + c.size[b] - 1)

LEMMA MallocHeap ==
    ASSUME HeapConstants, NEW m, NEW F, NEW U, Heap(m, F, U), Merged(m, F),
           \A a \in U : m.next[a] = NULL,
           NEW w \in F \union {xStart}, NEW b \in F, m.next[w] = b,
           NEW need \in Nat, need > 8, need % 4 = 0, m.size[b] >= need,
           NEW taken, taken = TakenFrom(m, w, b), NEW c, c = CutTo(taken, b, need),
           NEW k, k = Handed(c, b)
    PROVE  IsMalloc(m, F, U, b, need, c, k)
<1>1. /\ b \in Nat /\ b \in Blocks /\ b \in Links /\ m.size[b] \in Nat /\ m.size[b] < Limit
      /\ m.next[b] \in Nat /\ m.next[b] \in F \union {pxEnd}
      /\ b + m.size[b] <= m.next[b]
  BY FreeFacts
<1>2. /\ F \subseteq Links /\ F \intersect U = {} /\ U \subseteq Links /\ xStart \in Links
      /\ xStart \notin U /\ pxEnd \in Links /\ Limit \in Nat /\ NULL \notin Links
  <2>1. Tiled(Lengths(m.size), F \union U) /\ F \intersect U = {} BY DEF Heap
  <2>2. F \union U \subseteq Blocks BY <2>1 DEF Tiled
  <2> QED BY <2>1, <2>2, LinkFacts, HeapFacts
<1>3. w \in Links /\ w # b
  <2>1. w < m.next[w] BY DEF Heap, Linked
  <2> QED BY <1>1, <1>2, <2>1
<1>4. /\ taken.size = m.size /\ taken.next = [m.next EXCEPT ![w] = m.next[b]]
      /\ m.next \in [Links -> Links \union {NULL}]
  BY DEF TakenFrom, Memory, Heap
<1>5. taken.next[b] = m.next[b] /\ \A a \in U : taken.next[a] = NULL
  <2>1. \A a \in Links \ {w} : taken.next[a] = m.next[a] BY <1>4
  <2>2. w \notin U BY <1>2
  <2> QED BY <1>1, <1>2, <1>3, <2>1, <2>2
<1>6. Heap(taken, F \ {b}, U \union {b}) /\ Merged(taken, F \ {b}) BY TakenHeap DEF TakenFrom
<1>7. Bytes(m, F) = Bytes(taken, F \ {b}) \union (b .. b + m.size[b] - 1)
  <2>1. taken.size = m.size BY <1>4
  <2> QED BY <2>1 DEF Bytes
<1>8. PICK F1 : /\ Heap(c, F1, U \union {b}) /\ Merged(c, F1)
                /\ \A a \in U : c.next[a] = NULL /\ c.size[a] = m.size[a]
                /\ c.size[b] \in Nat /\ c.size[b] >= need /\ c.size[b] < Limit
                /\ Bytes(m, F) = Bytes(c, F1) \union (b .. b + c.size[b] - 1)
  <2>1. CASE ~Worth(taken.size[b] - need)
    <3>1. c = taken BY <2>1 DEF CutTo
    <3> QED BY <1>1, <1>4, <1>5, <1>6, <1>7, <3>1
  <2>2. CASE Worth(taken.size[b] - need)
    <3>1. PICK z, s, rest : z = b + need /\ s = SplitAt(taken, b, need) /\ rest = m.size[b] - need
      OBVIOUS
    <3>2. /\ rest \in Nat /\ rest > 8 /\ rest < Limit /\ z \in Nat /\ z > b
          /\ z + rest = b + m.size[b] /\ need < Limit /\ m.next[b] > z
      <4>1. rest > 16 BY <1>4, <2>2, <3>1 DEF Worth, heapMINIMUM_BLOCK_SIZE, xHeapStructSize
      <4> QED BY <1>1, <1>2, <3>1, <4>1
    <3>3. b \in U \union {b} /\ taken.size[b] < xBlockAllocatedBit
          /\ taken.size[b] - need > 8 /\ taken.size[b] - need = rest
      BY <1>1, <1>4, <3>1, <3>2 DEF Limit
    <3>4. IsSplit(taken, F \ {b}, U \union {b}, b, need, z, s)
      <4> DEFINE F0 == F \ {b}
                 U0 == U \union {b}
      <4>1. Heap(taken, F0, U0) /\ Merged(taken, F0) /\ b \in U0 BY <1>6
      <4> HIDE DEF F0, U0
      <4>2. IsSplit(taken, F0, U0, b, need, z, s)
        BY <3>1, <3>3, <4>1, SplitHeap, ZenonT(60)
      <4> QED BY <4>2 DEF F0, U0
    <3>5. /\ z \in Blocks \ ((F \ {b}) \union (U \union {b})) /\ b # z
          /\ s.next = taken.next /\ s.size[b] = need /\ s.size[z] = rest
          /\ \A a \in Links \ {b, z} : s.size[a] = taken.size[a]
          /\ Heap(s, F \ {b}, (U \union {b}) \union {z}) /\ Merged(s, F \ {b})
          /\ Bytes(s, F \ {b}) = Bytes(taken, F \ {b})
      BY <3>3, <3>4 DEF IsSplit
    <3>6. z \in Links /\ s.next[z] = NULL
      <4>1. z \in Links \ ((F \ {b}) \union (U \union {b}) \union {xStart}) BY <3>5, LinkFacts
      <4>2. taken.next[z] = NULL BY <1>6, <4>1 DEF Heap
      <4> QED BY <3>5, <4>1, <4>2
    <3>7. \A a \in (U \union {b}) \union {z} : s.next[a] = NULL \/ s.next[a] > z
      BY <1>5, <3>2, <3>5, <3>6
    <3>8. z \notin U \union {b} /\ s.size[z] < xBlockAllocatedBit BY <3>2, <3>5 DEF Limit
    <3>9. c = InsertBlock(s, z) BY <2>2, <3>1 DEF CutTo
    <3>10. PICK F2 : /\ Heap(c, F2, U \union {b}) /\ Merged(c, F2)
                     /\ \A a \in U \union {b} : c.next[a] = s.next[a] /\ c.size[a] = s.size[a]
                     /\ Bytes(c, F2) = Bytes(s, F \ {b}) \union (z .. z + s.size[z] - 1)
      <4> DEFINE F0 == F \ {b}
                 U0 == U \union {b}
      <4>1. /\ Heap(s, F0, U0 \union {z}) /\ z \notin U0 /\ Merged(s, F0)
            /\ \A a \in U0 \union {z} : s.next[a] = NULL \/ s.next[a] > z
        BY <3>5, <3>7, <3>8
      <4> HIDE DEF F0, U0
      <4>2. \E F2 : /\ Heap(c, F2, U0) /\ Merged(c, F2)
                    /\ \A a \in U0 : c.next[a] = s.next[a] /\ c.size[a] = s.size[a]
                    /\ Bytes(c, F2) = Bytes(s, F0) \union (z .. z + s.size[z] - 1)
        BY <3>8, <3>9, <4>1, Inserted
      <4> QED BY <4>2 DEF F0, U0
    <3>11. c.size[b] = need BY <3>5, <3>10
    <3>12. \A a \in U : c.next[a] = NULL /\ c.size[a] = m.size[a]
      <4> SUFFICES ASSUME NEW a \in U PROVE c.next[a] = NULL /\ c.size[a] = m.size[a] OBVIOUS
      <4>1. a \in Links \ {b, z} BY <1>2, <3>5
      <4> QED BY <1>4, <1>5, <3>5, <3>10, <4>1
    <3>13. Bytes(m, F) = Bytes(c, F2) \union (b .. b + c.size[b] - 1)
      <4>1. PICK l \in Nat : l = m.size[b] BY <1>1
      <4>2. b .. b + l - 1 = (b .. b + need - 1) \union (z .. z + rest - 1)
        BY <1>1, <3>1, <3>2, <4>1
      <4>3. Bytes(c, F2) = Bytes(taken, F \ {b}) \union (z .. z + rest - 1) BY <3>5, <3>10
      <4> QED BY <1>7, <3>11, <4>1, <4>2, <4>3
    <3>14. c.size[b] \in Nat /\ c.size[b] >= need /\ c.size[b] < Limit BY <3>2, <3>11
    <3> QED BY <3>10, <3>12, <3>13, <3>14
  <2> QED BY <2>1, <2>2
<1>9. /\ k = Memory(k.next, k.size) /\ k.next = [c.next EXCEPT ![b] = NULL]
      /\ k.size = [c.size EXCEPT ![b] = @ + xBlockAllocatedBit]
      /\ c.next \in [Links -> Links \union {NULL}] /\ c.size \in [Links -> Sizes]
  BY <1>8 DEF Handed, Memory, Heap
<1>10. c.size[b] + Limit \in Sizes BY <1>2, <1>8 DEF Sizes, SizeLimit, Limit
<1>11. /\ k.next \in [Links -> Links \union {NULL}] /\ k.size \in [Links -> Sizes]
       /\ k.next[b] = NULL /\ k.size[b] = c.size[b] + Limit
       /\ \A a \in Links \ {b} : k.next[a] = c.next[a] /\ k.size[a] = c.size[a]
  BY <1>1, <1>9, <1>10 DEF Limit
<1>12. k.size[b] % xBlockAllocatedBit = c.size[b]
       /\ c.size[b] % xBlockAllocatedBit = c.size[b]
  <2>1. PICK l \in Nat : l = c.size[b] /\ l < Limit BY <1>8
  <2>2. (l + Limit) \in Nat /\ Limit <= l + Limit /\ l + Limit < 2 * Limit /\ l + Limit - Limit = l
    BY <1>2, <2>1
  <2>3. (l + Limit) % Limit = l + Limit - Limit BY <1>2, <2>2, BitFacts
  <2>4. l % Limit = l BY <1>2, <2>1
  <2> QED BY <1>11, <2>1, <2>2, <2>3, <2>4 DEF Limit
<1>13. Heap(k, F1, U \union {b}) /\ Merged(k, F1) /\ Bytes(k, F1) = Bytes(c, F1)
  <2>1. b \in U \union {b} OBVIOUS
  <2>2. k.size[b] % xBlockAllocatedBit = c.size[b] % xBlockAllocatedBit BY <1>12
  <2> QED BY <1>8, <1>9, <1>11, <2>1, <2>2, MarkedHeap
<1>14. b \notin U BY <1>2
<1>15. \A a \in U : k.size[a] = m.size[a] /\ k.next[a] = NULL BY <1>2, <1>8, <1>11, <1>14
<1> QED BY <1>8, <1>11, <1>12, <1>13, <1>15 DEF IsMalloc

\* What a step leaves in memory is the invariant's heap.
LEMMA KeepHeap ==
    ASSUME HeapConstants, NEW k, NEW F2, NEW U2, Heap(k, F2, U2), Merged(k, F2),
           k.next = pxNextFreeBlock', k.size = xBlockSize', UsedBlocks' = U2,
           \A b \in U2 : k.next[b] = NULL
    PROVE  HeapInv' /\ FreeBlocks' = F2 /\ Mem' = k
<1>1. F2 = {b \in Blocks : k.next[b] # NULL} BY FreeIs
<1>2. FreeBlocks' = F2 BY <1>1 DEF FreeBlocks
<1>3. Mem' = k
  <2>1. k = Memory(k.next, k.size) BY DEF Heap
  <2> QED BY <2>1 DEF Mem
<1> QED BY <1>2, <1>3 DEF HeapInv

\* Whose blocks are in use.
LEMMA OwnedFacts ==
    ASSUME HeapConstants, IInv, NEW t \in Tasks, NEW a \in owned[t],
           NEW b, b = a.pv - xHeapStructSize
    PROVE  /\ a \in [pv : Nat, n : Wanted] /\ a.pv = b + 8
           /\ b \in Allocated /\ b \in UsedBlocks /\ b \in Nat /\ b \in Links
           /\ xBlockSize[b] \in Nat /\ xBlockSize[b] >= Limit /\ xBlockSize[b] < 2 * Limit
           /\ a.pv + a.n <= b + SizeOf(b)
<1>1. HeapInv /\ UseInv BY DEF IInv
<1>2. a \in [pv : Nat, n : Wanted] BY <1>1 DEF UseInv
<1>3. b \in Allocated BY DEF Allocated
<1>4. b \in UsedBlocks BY <1>3 DEF UsedBlocks
<1>5. xBlockSize[b] >= xBlockAllocatedBit /\ a.pv + a.n <= b + SizeOf(b) BY <1>1 DEF UseInv, Serves
<1>6. b \in Nat /\ b \in Links /\ xBlockSize[b] \in Nat /\ xBlockSize[b] < 2 * Limit
  BY <1>1, <1>4, UsedFacts
<1>7. a.pv = b + 8 BY <1>2 DEF xHeapStructSize
<1> QED BY <1>2, <1>3, <1>4, <1>5, <1>6, <1>7 DEF Limit

LEMMA FreeingFacts ==
    ASSUME HeapConstants, IInv, NEW t \in Tasks, freeing[t] # NULL, NEW b, b = freeing[t]
    PROVE  /\ b \in InFree /\ b \in UsedBlocks /\ b \in Nat /\ b \in Links
           /\ xBlockSize[b] \in Nat /\ xBlockSize[b] < Limit /\ b \notin Allocated
           /\ \A u \in Tasks : freeing[u] = b => u = t
<1>1. HeapInv /\ UseInv BY DEF IInv
<1>2. b \in InFree BY DEF InFree
<1>3. b \in UsedBlocks BY <1>2 DEF UsedBlocks
<1>4. xBlockSize[b] < xBlockAllocatedBit /\ \A u \in Tasks : freeing[u] = b => u = t
  BY <1>1 DEF UseInv
<1>5. b \in Nat /\ b \in Links /\ xBlockSize[b] \in Nat BY <1>1, <1>3, UsedFacts
<1>6. Limit \in Nat BY HeapFacts
<1>7. ASSUME b \in Allocated PROVE FALSE
  <2>1. PICK u \in Tasks : \E a \in owned[u] : b = a.pv - xHeapStructSize BY <1>7 DEF Allocated
  <2>2. xBlockSize[b] >= Limit BY <2>1, OwnedFacts
  <2> QED BY <1>4, <1>5, <1>6, <2>2 DEF Limit
<1> QED BY <1>2, <1>3, <1>4, <1>5, <1>7 DEF Limit

LEMMA MallocStep ==
    ASSUME HeapConstants, IInv, NEW t \in Tasks, NEW n \in Wanted, Malloc(t, n)
    PROVE  IInv'
<1>1. HeapInv /\ UseInv /\ CountInv BY DEF IInv
<1>2. PICK m, F, U : m = Mem /\ F = FreeBlocks /\ U = UsedBlocks OBVIOUS
<1>3. /\ Heap(m, F, U) /\ Merged(m, F) /\ m.next = pxNextFreeBlock /\ m.size = xBlockSize
      /\ \A a \in U : m.next[a] = NULL
  BY <1>1, <1>2, MemFields DEF HeapInv
<1>4. PICK need, w, b, taken, c, k :
         /\ need = WithHeader(n) /\ w = BeforeFirstFit(need) /\ b = pxNextFreeBlock[w]
         /\ taken = TakenFrom(m, w, b) /\ c = CutTo(taken, b, need) /\ k = Handed(c, b)
  OBVIOUS
<1>5. /\ freeing[t] = NULL /\ need > 0 /\ b # pxEnd
      /\ pxNextFreeBlock' = k.next /\ xBlockSize' = k.size
      /\ xFreeBytesRemaining' = xFreeBytesRemaining - c.size[b]
      /\ xMinimumEverFreeBytesRemaining' = LowWater(xFreeBytesRemaining - c.size[b])
      /\ owned' = [owned EXCEPT ![t] = @ \union {[pv |-> b + xHeapStructSize, n |-> n]}]
      /\ freeing' = freeing
  <2>1. taken.next = [m.next EXCEPT ![w] = m.next[b]] /\ taken.size = xBlockSize
    BY <1>3, <1>4 DEF TakenFrom, Memory
  <2>2. taken = Memory([pxNextFreeBlock EXCEPT ![w] = pxNextFreeBlock[b]], xBlockSize)
    BY <1>3, <1>4 DEF TakenFrom
  <2>3. c = IF Worth(xBlockSize[b] - need)
              THEN InsertBlock(Memory(taken.next, [taken.size EXCEPT ![b] = need,
                                                     ![b + need] = xBlockSize[b] - need]),
                               b + need)
              ELSE taken
    BY <1>4, <2>1 DEF CutTo, SplitAt
  <2>4. /\ k.next = [c.next EXCEPT ![b] = NULL]
        /\ k.size = [c.size EXCEPT ![b] = @ + xBlockAllocatedBit]
    BY <1>4 DEF Handed, Memory
  <2> QED BY <1>4, <2>2, <2>3, <2>4 DEF Malloc
<1>6. /\ n \in Nat /\ need \in Nat /\ need > 8 /\ need % 4 = 0 /\ need >= n + 8
  <2>1. need \in Nat /\ need # 0 BY <1>4, <1>5, HeaderFacts
  <2> QED BY <1>4, <2>1, HeaderFacts
<1>7. w \in F \union {xStart} /\ b \in F /\ m.size[b] >= need /\ m.next[w] = b
  <2>1. /\ w \in FreeBlocks \union {xStart} /\ b \in FreeBlocks \union {pxEnd}
        /\ b \in FreeBlocks => xBlockSize[b] >= need
    BY <1>1, <1>4, <1>6, FirstFit
  <2> QED BY <1>2, <1>3, <1>4, <1>5, <2>1
<1>8. IsMalloc(m, F, U, b, need, c, k)
  BY <1>3, <1>4, <1>6, <1>7, MallocHeap
<1>9. /\ c.size[b] \in Nat /\ c.size[b] >= need /\ c.size[b] < Limit
      /\ k.size[b] = c.size[b] + Limit /\ k.size[b] % xBlockAllocatedBit = c.size[b]
      /\ \A a \in U : k.size[a] = m.size[a]
      /\ \A a \in U \union {b} : k.next[a] = NULL
  BY <1>8 DEF IsMalloc
<1>10. PICK F2 : /\ Heap(k, F2, U \union {b}) /\ Merged(k, F2)
                 /\ Bytes(m, F) = Bytes(k, F2) \union (b .. b + c.size[b] - 1)
  BY <1>8 DEF IsMalloc
<1>11. b \in Nat /\ b \in Links /\ b \notin U
  <2>1. F \intersect U = {} BY <1>3 DEF Heap
  <2> QED BY <1>3, <1>7, <2>1, FreeFacts
<1>12. PICK new : new = [pv |-> b + xHeapStructSize, n |-> n] OBVIOUS
<1>13. /\ new \in [pv : Nat, n : Wanted] /\ new.pv = b + 8 /\ new.n = n
       /\ new.pv - xHeapStructSize = b
  BY <1>11, <1>12 DEF xHeapStructSize
<1>14. /\ owned' \in [Tasks -> SUBSET [pv : Nat, n : Wanted]]
       /\ owned'[t] = owned[t] \union {new} /\ \A u \in Tasks \ {t} : owned'[u] = owned[u]
  <2>1. owned \in [Tasks -> SUBSET [pv : Nat, n : Wanted]] BY <1>1 DEF UseInv
  <2>2. owned' = [owned EXCEPT ![t] = @ \union {new}] BY <1>5, <1>12
  <2> QED BY <1>13, <2>1, <2>2
<1>15. UsedBlocks' = U \union {b}
  <2>1. Allocated' = Allocated \union {b}
    <3>1. ASSUME NEW x \in Allocated' PROVE x \in Allocated \union {b}
      <4>1. PICK u \in Tasks : \E a \in owned'[u] : x = a.pv - xHeapStructSize
        BY <3>1 DEF Allocated
      <4>2. PICK a \in owned'[u] : x = a.pv - xHeapStructSize BY <4>1
      <4>3. a \in owned[u] \/ a = new BY <1>14
      <4> QED BY <1>13, <4>2, <4>3 DEF Allocated
    <3>2. ASSUME NEW x \in Allocated PROVE x \in Allocated'
      <4>1. PICK u \in Tasks : \E a \in owned[u] : x = a.pv - xHeapStructSize
        BY <3>2 DEF Allocated
      <4>2. PICK a \in owned[u] : x = a.pv - xHeapStructSize BY <4>1
      <4>3. a \in owned'[u] BY <1>14
      <4> QED BY <4>2, <4>3 DEF Allocated
    <3>3. b \in Allocated'
      <4>1. new \in owned'[t] BY <1>14
      <4> QED BY <1>13, <4>1 DEF Allocated
    <3> QED BY <3>1, <3>2, <3>3
  <2>2. InFree' = InFree BY <1>5 DEF InFree
  <2> QED BY <1>2, <2>1, <2>2 DEF UsedBlocks
<1>16. HeapInv' /\ FreeBlocks' = F2 /\ Mem' = k
  BY <1>5, <1>9, <1>10, <1>15, KeepHeap
<1>17. CountInv'
  <2>1. PICK l \in Nat : l = c.size[b] BY <1>9
  <2>2. Lengths(k.size)[b] = l BY <1>9, <1>11, <2>1 DEF Lengths
  <2> DEFINE S == Bytes(k, F2)
  <2>3. IsFiniteSet(S) /\ \A a \in S : a \notin b .. b + l - 1
    BY <1>10, <2>2, FreeAddresses
  <2>4. S \intersect (b .. b + l - 1) = {} BY <2>3
  <2>5. Bytes(m, F) = S \union (b .. b + l - 1) BY <1>10, <2>1
  <2> HIDE DEF S
  <2>6. Cardinality(Bytes(m, F)) = Cardinality(S) + l
    BY <1>11, <2>3, <2>4, <2>5, AddedBytes
  <2>7. Cardinality(S) \in Nat BY <2>3, FS_CardinalityType
  <2>8. xFreeBytesRemaining = Cardinality(S) + l
        /\ xMinimumEverFreeBytesRemaining \in 0 .. xFreeBytesRemaining
    BY <1>1, <1>2, <2>6 DEF CountInv
  <2>9. PICK free \in Nat : free = Cardinality(S) BY <2>7
  <2>10. xFreeBytesRemaining' = free /\ xMinimumEverFreeBytesRemaining' = LowWater(free)
         /\ xMinimumEverFreeBytesRemaining \in Nat
    BY <1>5, <2>1, <2>8, <2>9
  <2>11. LowWater(free) \in 0 .. free
    <3> DEFINE low == xMinimumEverFreeBytesRemaining
               T == {free, low}
    <3>1. \E x \in T : \A y \in T : x <= y
      <4>1. CASE free <= low BY <2>9, <2>10, <4>1
      <4>2. CASE low <= free BY <2>9, <2>10, <4>2
      <4> QED BY <2>9, <2>10, <4>1, <4>2
    <3>2. LowWater(free) \in T /\ \A y \in T : LowWater(free) <= y
      BY <3>1 DEF LowWater, Min
    <3> QED BY <2>9, <2>10, <3>2
  <2>12. xFreeBytesRemaining' = Cardinality(Bytes(Mem', FreeBlocks'))
    BY <1>16, <2>9, <2>10 DEF S
  <2> QED BY <2>10, <2>11, <2>12 DEF CountInv
<1>18. UseInv'
  <2>1. \A a \in U : xBlockSize'[a] = xBlockSize[a] BY <1>3, <1>5, <1>9
  <2>2. freeing' \in [Tasks -> Blocks \union {NULL}] BY <1>1, <1>5 DEF UseInv
  <2>3. ASSUME NEW u \in Tasks, NEW a \in owned[u]
        PROVE  a.pv # new.pv /\ Serves(a, a.pv - xHeapStructSize)'
    <3>1. PICK x : x = a.pv - xHeapStructSize OBVIOUS
    <3>2. /\ x \in UsedBlocks /\ a.pv = x + 8 /\ xBlockSize[x] >= Limit /\ x \in Nat
          /\ a.pv + a.n <= x + SizeOf(x)
      BY <2>3, <3>1, OwnedFacts
    <3>3. x \in U /\ x # b BY <1>2, <1>11, <3>2
    <3>4. a.pv # new.pv BY <1>11, <1>13, <3>2, <3>3
    <3>5. xBlockSize'[x] = xBlockSize[x] BY <2>1, <3>3
    <3>6. Serves(a, x)' BY <3>2, <3>5 DEF Limit, SizeOf, Serves
    <3> QED BY <3>1, <3>4, <3>6
  <2>4. Serves(new, b)'
    <3>1. xBlockSize'[b] = c.size[b] + Limit /\ xBlockSize'[b] % xBlockAllocatedBit = c.size[b]
      BY <1>5, <1>9
    <3>2. Limit \in Nat BY HeapFacts
    <3>3. c.size[b] + Limit >= Limit /\ b + 8 + n <= b + c.size[b] BY <1>6, <1>9, <1>11, <3>2
    <3>4. new.pv + new.n = b + 8 + n BY <1>13
    <3> QED BY <3>1, <3>3, <3>4 DEF Limit, Serves, SizeOf
  <2>5. ASSUME NEW u \in Tasks, NEW a \in owned'[u]
        PROVE  Serves(a, a.pv - xHeapStructSize)'
    <3>1. a \in owned[u] \/ a = new BY <1>14
    <3>2. CASE a \in owned[u] BY <2>3, <3>2
    <3>3. CASE a = new
      <4>1. a.pv - xHeapStructSize = b BY <1>13, <3>3
      <4> QED BY <2>4, <3>3, <4>1
    <3> QED BY <3>1, <3>2, <3>3
  <2>6. ASSUME NEW u \in Tasks, NEW v \in Tasks, NEW a \in owned'[u], NEW d \in owned'[v],
               a.pv = d.pv
        PROVE  u = v /\ a = d
    <3>1. (a \in owned[u] \/ (a = new /\ u = t)) /\ (d \in owned[v] \/ (d = new /\ v = t))
      BY <1>14
    <3>2. a = new <=> d = new BY <2>3, <2>6, <3>1
    <3>3. CASE a = new /\ d = new
      <4>1. a \notin owned[u] BY <2>3, <3>3
      <4>2. d \notin owned[v] BY <2>3, <3>3
      <4> QED BY <3>1, <3>3, <4>1, <4>2
    <3>4. CASE a \in owned[u] /\ d \in owned[v] BY <1>1, <2>6, <3>4 DEF UseInv
    <3> QED BY <3>1, <3>2, <3>3, <3>4
  <2>7. ASSUME NEW u \in Tasks, freeing'[u] # NULL
        PROVE  /\ xBlockSize'[freeing'[u]] < xBlockAllocatedBit
               /\ \A v \in Tasks : freeing'[v] = freeing'[u] => v = u
    <3>1. PICK x : x = freeing[u] OBVIOUS
    <3>2. /\ x \in UsedBlocks /\ xBlockSize[x] < Limit
          /\ \A v \in Tasks : freeing[v] = x => v = u
      BY <1>5, <2>7, <3>1, FreeingFacts
    <3>3. xBlockSize'[x] = xBlockSize[x] BY <1>2, <2>1, <3>2
    <3> QED BY <1>5, <3>1, <3>2, <3>3 DEF Limit
  <2> QED BY <1>14, <2>2, <2>5, <2>6, <2>7 DEF UseInv
<1> QED BY <1>16, <1>17, <1>18 DEF IInv

LEMMA StartFreeStep ==
    ASSUME HeapConstants, IInv, NEW t \in Tasks, StartFree(t)
    PROVE  IInv'
<1>1. HeapInv /\ UseInv /\ CountInv BY DEF IInv
<1>2. PICK a, b :
         /\ a \in owned[t] /\ b = a.pv - xHeapStructSize
         /\ freeing[t] = NULL
         /\ xBlockSize' = [xBlockSize EXCEPT ![b] = @ - xBlockAllocatedBit]
         /\ owned' = [owned EXCEPT ![t] = @ \ {a}]
         /\ freeing' = [freeing EXCEPT ![t] = b]
         /\ UNCHANGED <<pxNextFreeBlock, xFreeBytesRemaining, xMinimumEverFreeBytesRemaining>>
  BY DEF StartFree
<1>3. PICK m, F, U, k : /\ m = Mem /\ F = FreeBlocks /\ U = UsedBlocks /\ k = Mem'
  OBVIOUS
<1>4. /\ Heap(m, F, U) /\ Merged(m, F) /\ m.next = pxNextFreeBlock /\ m.size = xBlockSize
      /\ \A x \in U : m.next[x] = NULL
  BY <1>1, <1>3, MemFields DEF HeapInv
<1>5. k = Memory(k.next, k.size) /\ k.next = pxNextFreeBlock' /\ k.size = xBlockSize'
  BY <1>3 DEF Mem, Memory
<1>6. /\ b \in Allocated /\ b \in U /\ b \in Nat /\ b \in Links
      /\ xBlockSize[b] \in Nat /\ xBlockSize[b] >= Limit /\ xBlockSize[b] < 2 * Limit
      /\ Limit \in Nat
  BY <1>2, <1>3, OwnedFacts, HeapFacts
<1>7. PICK l \in Nat : l = xBlockSize[b] - Limit BY <1>6
<1>8. l < Limit /\ l \in Sizes BY <1>6, <1>7 DEF Sizes, SizeLimit, Limit
<1>9. /\ k.size \in [Links -> Sizes] /\ k.size[b] = l
      /\ \A x \in Links \ {b} : k.size[x] = m.size[x]
  <2>1. xBlockSize \in [Links -> Sizes] BY <1>4 DEF Heap
  <2>2. xBlockSize' = [xBlockSize EXCEPT ![b] = l] BY <1>2, <1>7 DEF Limit
  <2> QED BY <1>4, <1>5, <1>6, <1>8, <2>1, <2>2
<1>10. k.next = m.next /\ k.next \in [Links -> Links \union {NULL}]
  BY <1>2, <1>4, <1>5 DEF Heap
<1>11. k.size[b] % xBlockAllocatedBit = m.size[b] % xBlockAllocatedBit
  <2>1. xBlockSize[b] % Limit = l BY <1>6, <1>7, BitFacts
  <2>2. l % Limit = l BY <1>6, <1>8
  <2> QED BY <1>4, <1>9, <2>1, <2>2 DEF Limit
<1>12. Heap(k, F, U) /\ Merged(k, F) /\ Bytes(k, F) = Bytes(m, F)
  <2>1. \A x \in Links \ {b} : k.next[x] = m.next[x] /\ k.size[x] = m.size[x] BY <1>9, <1>10
  <2> QED BY <1>4, <1>5, <1>6, <1>9, <1>10, <1>11, <2>1, MarkedHeap
<1>13. /\ owned' \in [Tasks -> SUBSET [pv : Nat, n : Wanted]]
       /\ owned'[t] = owned[t] \ {a} /\ \A u \in Tasks \ {t} : owned'[u] = owned[u]
  <2>1. owned \in [Tasks -> SUBSET [pv : Nat, n : Wanted]] BY <1>1 DEF UseInv
  <2> QED BY <1>2, <2>1
<1>14. freeing' \in [Tasks -> Blocks \union {NULL}]
       /\ freeing'[t] = b /\ \A u \in Tasks \ {t} : freeing'[u] = freeing[u]
  <2>1. freeing \in [Tasks -> Blocks \union {NULL}] BY <1>1 DEF UseInv
  <2>2. b \in Blocks BY <1>1, <1>3, <1>6, UsedFacts
  <2> QED BY <1>2, <2>1, <2>2
\* What is still owned is in other blocks.
<1>15. ASSUME NEW u \in Tasks, NEW d \in owned'[u]
       PROVE  /\ d \in owned[u] /\ d.pv - xHeapStructSize # b
              /\ d.pv - xHeapStructSize \in Allocated /\ Serves(d, d.pv - xHeapStructSize)
  <2>1. d \in owned[u] /\ (u = t => d # a) BY <1>13
  <2>2. d.pv # a.pv
    <3>1. \A v, x \in Tasks : \A e \in owned[v], g \in owned[x] :
             e.pv = g.pv => v = x /\ e = g
      BY <1>1 DEF UseInv
    <3>2. a \in owned[t] BY <1>2
    <3> QED BY <2>1, <3>1, <3>2
  <2>3. d.pv = (d.pv - xHeapStructSize) + 8 BY <2>1, OwnedFacts
  <2>6. a.pv = b + 8 BY <1>2, OwnedFacts
  <2>4. Serves(d, d.pv - xHeapStructSize) BY <1>1, <2>1 DEF UseInv
  <2>5. d.pv - xHeapStructSize \in Allocated BY <2>1 DEF Allocated
  <2>7. d.pv - xHeapStructSize # b BY <2>2, <2>3, <2>6
  <2> QED BY <2>1, <2>4, <2>5, <2>7
<1>16. UsedBlocks' = U
  <2>1. ASSUME NEW x \in UsedBlocks' PROVE x \in U
    <3>1. CASE x \in Allocated'
      <4>1. PICK u \in Tasks : \E d \in owned'[u] : x = d.pv - xHeapStructSize
        BY <3>1 DEF Allocated
      <4>2. x \in Allocated BY <1>15, <4>1
      <4> QED BY <1>3, <4>2 DEF UsedBlocks
    <3>2. CASE x \in InFree'
      <4>1. PICK u \in Tasks : x = freeing'[u] /\ x # NULL BY <3>2 DEF InFree
      <4>2. CASE u = t BY <1>6, <1>14, <4>1, <4>2
      <4>3. CASE u # t
        <5>1. x = freeing[u] BY <1>14, <4>1, <4>3
        <5>2. x \in InFree BY <4>1, <5>1 DEF InFree
        <5> QED BY <1>3, <5>2 DEF UsedBlocks
      <4> QED BY <4>2, <4>3
    <3> QED BY <2>1, <3>1, <3>2 DEF UsedBlocks
  <2>2. ASSUME NEW x \in U PROVE x \in UsedBlocks'
    <3>1. CASE x = b
      <4>1. b \in InFree'
        <5>1. b # NULL BY <1>6, HeapFacts
        <5> QED BY <1>14, <5>1 DEF InFree
      <4> QED BY <3>1, <4>1 DEF UsedBlocks
    <3>2. CASE x # b /\ x \in Allocated
      <4>1. PICK u \in Tasks : \E d \in owned[u] : x = d.pv - xHeapStructSize
        BY <3>2 DEF Allocated
      <4>2. PICK d \in owned[u] : x = d.pv - xHeapStructSize BY <4>1
      <4>3. d # a BY <1>2, <3>2, <4>2
      <4>4. d \in owned'[u] BY <1>13, <4>3
      <4>5. x \in Allocated' BY <4>2, <4>4 DEF Allocated
      <4> QED BY <4>5 DEF UsedBlocks
    <3>3. CASE x \in InFree
      <4>1. PICK u \in Tasks : x = freeing[u] /\ x # NULL BY <3>3 DEF InFree
      <4>2. freeing'[u] = x BY <1>2, <1>14, <4>1
      <4>3. x \in InFree' BY <4>1, <4>2 DEF InFree
      <4> QED BY <4>3 DEF UsedBlocks
    <3> QED BY <1>3, <2>2, <3>1, <3>2, <3>3 DEF UsedBlocks
  <2> QED BY <2>1, <2>2
<1>17. HeapInv' /\ FreeBlocks' = F /\ Mem' = k
  <2>1. \A x \in U : k.next[x] = NULL BY <1>4, <1>10
  <2> QED BY <1>5, <1>12, <1>16, <2>1, KeepHeap
<1>18. CountInv'
  <2>1. Bytes(Mem', FreeBlocks') = Bytes(Mem, FreeBlocks) BY <1>3, <1>12, <1>17
  <2> QED BY <1>1, <1>2, <2>1 DEF CountInv
<1>19. UseInv'
  <2>1. \A x \in U \ {b} : xBlockSize'[x] = xBlockSize[x]
    <3>1. U \subseteq Links BY <1>1, <1>3, UsedFacts
    <3> QED BY <1>4, <1>5, <1>9, <3>1
  <2>2. ASSUME NEW u \in Tasks, NEW d \in owned'[u]
        PROVE  Serves(d, d.pv - xHeapStructSize)'
    <3>1. PICK x : x = d.pv - xHeapStructSize OBVIOUS
    <3>2. x \in U /\ x # b /\ Serves(d, x) BY <1>3, <1>15, <3>1 DEF UsedBlocks
    <3>3. xBlockSize'[x] = xBlockSize[x] BY <2>1, <3>2
    <3>4. Serves(d, x)' BY <3>2, <3>3 DEF Serves, SizeOf
    <3> QED BY <3>1, <3>4
  <2>3. \A u, v \in Tasks : \A d \in owned'[u], e \in owned'[v] : d.pv = e.pv => u = v /\ d = e
    <3>1. \A u, v \in Tasks : \A d \in owned[u], e \in owned[v] : d.pv = e.pv => u = v /\ d = e
      BY <1>1 DEF UseInv
    <3> QED BY <1>15, <3>1
  <2>4. ASSUME NEW u \in Tasks, freeing'[u] # NULL
        PROVE  /\ xBlockSize'[freeing'[u]] < xBlockAllocatedBit
               /\ \A v \in Tasks : freeing'[v] = freeing'[u] => v = u
    <3>0. \A v \in Tasks : freeing[v] # b
      <4> SUFFICES ASSUME NEW v \in Tasks, freeing[v] = b PROVE FALSE OBVIOUS
      <4>1. freeing[v] # NULL BY <1>6, HeapFacts
      <4>2. xBlockSize[b] < Limit BY <4>1, FreeingFacts
      <4> QED BY <1>6, <4>2
    <3>1. CASE u = t
      <4>1. freeing'[u] = b BY <1>14, <3>1
      <4>2. xBlockSize'[b] < xBlockAllocatedBit BY <1>5, <1>8, <1>9 DEF Limit
      <4>3. \A v \in Tasks : freeing'[v] = b => v = u BY <1>14, <3>0, <3>1
      <4> QED BY <4>1, <4>2, <4>3
    <3>2. CASE u # t
      <4>1. PICK x : x = freeing[u] /\ x = freeing'[u] BY <1>14, <3>2
      <4>2. /\ x \in U /\ xBlockSize[x] < Limit
            /\ \A v \in Tasks : freeing[v] = x => v = u
        BY <1>3, <2>4, <4>1, FreeingFacts
      <4>3. x # b BY <3>0, <4>1
      <4>4. xBlockSize'[x] = xBlockSize[x] BY <2>1, <4>2, <4>3
      <4>5. \A v \in Tasks : freeing'[v] = x => v = u BY <1>14, <4>2, <4>3
      <4> QED BY <4>1, <4>2, <4>4, <4>5 DEF Limit
    <3> QED BY <3>1, <3>2
  <2> QED BY <1>13, <1>14, <2>2, <2>3, <2>4 DEF UseInv
<1> QED BY <1>17, <1>18, <1>19 DEF IInv

LEMMA FreeStep ==
    ASSUME HeapConstants, IInv, NEW t \in Tasks, Free(t)
    PROVE  IInv'
<1>1. HeapInv /\ UseInv /\ CountInv BY DEF IInv
<1>2. PICK m, F, U, b, r : /\ m = Mem /\ F = FreeBlocks /\ U = UsedBlocks
                           /\ b = freeing[t] /\ r = InsertBlock(m, b)
  OBVIOUS
<1>3. /\ Heap(m, F, U) /\ Merged(m, F) /\ m.next = pxNextFreeBlock /\ m.size = xBlockSize
      /\ \A x \in U : m.next[x] = NULL
  BY <1>1, <1>2, MemFields DEF HeapInv
<1>4. /\ b # NULL /\ xFreeBytesRemaining' = xFreeBytesRemaining + xBlockSize[b]
      /\ pxNextFreeBlock' = r.next /\ xBlockSize' = r.size
      /\ freeing' = [freeing EXCEPT ![t] = NULL]
      /\ UNCHANGED <<xMinimumEverFreeBytesRemaining, owned>>
  BY <1>2 DEF Free, Mem
<1>5. /\ b \in InFree /\ b \in U /\ b \in Nat /\ b \in Links /\ b \notin Allocated
      /\ xBlockSize[b] \in Nat /\ xBlockSize[b] < Limit
      /\ \A u \in Tasks : freeing[u] = b => u = t
  BY <1>2, <1>4, FreeingFacts
<1>6. PICK U0 : U0 = U \ {b} OBVIOUS
<1>7. U = U0 \union {b} /\ b \notin U0 BY <1>5, <1>6
<1>8. PICK F2 : /\ Heap(r, F2, U0) /\ Merged(r, F2)
                /\ \A a \in U0 : r.next[a] = m.next[a] /\ r.size[a] = m.size[a]
                /\ Bytes(r, F2) = Bytes(m, F) \union (b .. b + m.size[b] - 1)
  <2>1. Heap(m, F, U0 \union {b}) BY <1>3, <1>7
  <2>2. \A a \in U0 \union {b} : m.next[a] = NULL \/ m.next[a] > b BY <1>3, <1>7
  <2>3. m.size[b] < xBlockAllocatedBit BY <1>3, <1>5 DEF Limit
  <2>4. \E F2 : /\ Heap(r, F2, U0) /\ Merged(r, F2)
                /\ \A a \in U0 : r.next[a] = m.next[a] /\ r.size[a] = m.size[a]
                /\ Bytes(r, F2) = Bytes(m, F) \union (b .. b + m.size[b] - 1)
    BY <1>2, <1>3, <1>7, <2>1, <2>2, <2>3, Inserted
  <2> QED BY <2>4
<1>9. freeing' \in [Tasks -> Blocks \union {NULL}]
      /\ freeing'[t] = NULL /\ \A u \in Tasks \ {t} : freeing'[u] = freeing[u]
  <2>1. freeing \in [Tasks -> Blocks \union {NULL}] BY <1>1 DEF UseInv
  <2> QED BY <1>4, <2>1
<1>10. UsedBlocks' = U0
  <2>1. Allocated' = Allocated BY <1>4 DEF Allocated
  <2>2. InFree' = InFree \ {b}
    <3>1. ASSUME NEW x \in InFree' PROVE x \in InFree \ {b}
      <4>1. PICK u \in Tasks : x = freeing'[u] /\ x # NULL BY <3>1 DEF InFree
      <4>2. u # t /\ x = freeing[u] BY <1>9, <4>1
      <4>3. x # b BY <1>5, <4>2
      <4> QED BY <4>1, <4>2, <4>3 DEF InFree
    <3>2. ASSUME NEW x \in InFree \ {b} PROVE x \in InFree'
      <4>1. PICK u \in Tasks : x = freeing[u] /\ x # NULL BY <3>2 DEF InFree
      <4>2. u # t BY <1>2, <3>2, <4>1
      <4>3. freeing'[u] = x BY <1>9, <4>1, <4>2
      <4> QED BY <4>1, <4>3 DEF InFree
    <3> QED BY <3>1, <3>2
  <2> QED BY <1>2, <1>5, <1>6, <2>1, <2>2 DEF UsedBlocks
<1>11. HeapInv' /\ FreeBlocks' = F2 /\ Mem' = r
  <2>1. \A x \in U0 : r.next[x] = NULL BY <1>3, <1>7, <1>8
  <2> QED BY <1>4, <1>8, <1>10, <2>1, KeepHeap
<1>12. CountInv'
  <2>1. PICK l \in Nat : l = m.size[b] BY <1>3, <1>5
  <2>2. l < Limit /\ Limit \in Nat BY <1>3, <1>5, <2>1, HeapFacts
  <2>3. Lengths(m.size)[b] = l
    <3>1. Lengths(m.size)[b] = l % Limit BY <1>5, <2>1 DEF Lengths, Limit
    <3> QED BY <2>2, <3>1
  <2> DEFINE S == Bytes(m, F)
  <2>4. IsFiniteSet(S) /\ \A a \in S : a \notin b .. b + l - 1
    BY <1>3, <1>5, <2>3, FreeAddresses
  <2>5. S \intersect (b .. b + l - 1) = {} BY <2>4
  <2>6. Bytes(r, F2) = S \union (b .. b + l - 1) BY <1>8, <2>1
  <2> HIDE DEF S
  <2>7. Cardinality(Bytes(r, F2)) = Cardinality(S) + l BY <1>5, <2>4, <2>5, <2>6, AddedBytes
  <2>8. xFreeBytesRemaining = Cardinality(S)
        /\ xMinimumEverFreeBytesRemaining \in 0 .. xFreeBytesRemaining
    BY <1>1, <1>2 DEF CountInv, S
  <2>9. Cardinality(S) \in Nat BY <2>4, FS_CardinalityType
  <2>10. xFreeBytesRemaining' = Cardinality(S) + l BY <1>3, <1>4, <2>1, <2>8
  <2>11. xMinimumEverFreeBytesRemaining' \in 0 .. xFreeBytesRemaining'
    <3>1. PICK free \in Nat : free = Cardinality(S) BY <2>9
    <3>2. xFreeBytesRemaining' = free + l /\ xMinimumEverFreeBytesRemaining \in 0 .. free
      BY <2>8, <2>10, <3>1
    <3> QED BY <1>4, <3>2
  <2>12. xFreeBytesRemaining' = Cardinality(Bytes(Mem', FreeBlocks')) BY <1>11, <2>7, <2>10
  <2> QED BY <2>11, <2>12 DEF CountInv
<1>13. UseInv'
  <2>1. \A x \in U0 : xBlockSize'[x] = xBlockSize[x] BY <1>3, <1>4, <1>8
  <2>2. ASSUME NEW u \in Tasks, NEW d \in owned[u]
        PROVE  Serves(d, d.pv - xHeapStructSize)'
    <3>1. PICK x : x = d.pv - xHeapStructSize OBVIOUS
    <3>2. x \in Allocated /\ Serves(d, x) BY <1>1, <3>1 DEF UseInv, Allocated
    <3>3. x \in U0 BY <1>2, <1>5, <1>6, <3>2 DEF UsedBlocks
    <3>4. xBlockSize'[x] = xBlockSize[x] BY <2>1, <3>3
    <3>5. Serves(d, x)' BY <3>2, <3>4 DEF Serves, SizeOf
    <3> QED BY <3>1, <3>5
  <2>3. ASSUME NEW u \in Tasks, freeing'[u] # NULL
        PROVE  /\ xBlockSize'[freeing'[u]] < xBlockAllocatedBit
               /\ \A v \in Tasks : freeing'[v] = freeing'[u] => v = u
    <3>1. u # t BY <1>9, <2>3
    <3>2. PICK x : x = freeing[u] /\ x = freeing'[u] BY <1>9, <3>1
    <3>3. /\ x \in U /\ xBlockSize[x] < Limit
          /\ \A v \in Tasks : freeing[v] = x => v = u
      BY <1>2, <2>3, <3>2, FreeingFacts
    <3>4. x # b BY <1>5, <3>1, <3>2
    <3>5. xBlockSize'[x] = xBlockSize[x] BY <1>6, <2>1, <3>3, <3>4
    <3>6. \A v \in Tasks : freeing'[v] = x => v = u BY <1>9, <2>3, <3>2, <3>3
    <3> QED BY <3>2, <3>3, <3>5, <3>6 DEF Limit
  <2>4. owned' = owned BY <1>4
  <2>5. /\ owned \in [Tasks -> SUBSET [pv : Nat, n : Wanted]]
        /\ \A u, v \in Tasks : \A d \in owned[u], e \in owned[v] : d.pv = e.pv => u = v /\ d = e
    BY <1>1 DEF UseInv
  <2> QED BY <1>9, <2>2, <2>3, <2>4, <2>5 DEF UseInv
<1> QED BY <1>11, <1>12, <1>13 DEF IInv

LEMMA StepInv ==
    ASSUME HeapConstants, IInv, [Next]_vars
    PROVE  IInv'
<1>1. CASE UNCHANGED vars
  <2>1. HeapInv' <=> HeapInv
    BY <1>1 DEF vars, heapVars, HeapInv, Mem, FreeBlocks, UsedBlocks, Allocated, InFree
  <2>2. UseInv' <=> UseInv BY <1>1 DEF vars, heapVars, UseInv, Serves, SizeOf
  <2>3. CountInv' <=> CountInv
    BY <1>1 DEF vars, heapVars, CountInv, Mem, FreeBlocks
  <2> QED BY <2>1, <2>2, <2>3 DEF IInv
<1>2. CASE Next
  <2>1. PICK t \in Tasks : (\E n \in Wanted : Malloc(t, n)) \/ StartFree(t) \/ Free(t)
    BY <1>2 DEF Next
  <2>2. CASE \E n \in Wanted : Malloc(t, n)
    <3>1. PICK n \in Wanted : Malloc(t, n) BY <2>2
    <3> QED BY <3>1, MallocStep
  <2>3. CASE StartFree(t) BY <2>3, StartFreeStep
  <2>4. CASE Free(t) BY <2>4, FreeStep
  <2> QED BY <2>1, <2>2, <2>3, <2>4
<1> QED BY <1>1, <1>2

-----------------------------------------------------------------------------
(* The theorems *)

\* The invariant of the heap: list, marks and counts agree after each step of
\* pvPortMalloc and vPortFree.
THEOREM Invariance == Spec => []IInv
<1>1. Init => IInv BY InitInv, HeapConstants
<1>2. IInv /\ [Next]_vars => IInv' BY StepInv, HeapConstants
<1> QED BY <1>1, <1>2, PTL DEF Spec

\* Types and ranges: sizes fit a size_t, links are links or NULL, and the two
\* counters are within the heap.
THEOREM TypeCorrect == Spec => []TypeOK
<1>1. IInv => TypeOK BY TypeConsequence, HeapConstants
<1> QED BY <1>1, Invariance, PTL

\* Free blocks, blocks in use and blocks on their way back tile the heap at every
\* point, between the two steps of a vPortFree too: nothing leaks, nothing is
\* given twice, and each caller has the aligned bytes it asked for.
THEOREM Tiles == Spec => []HeapTiled
<1>1. IInv => HeapTiled BY TiledConsequence, HeapConstants
<1> QED BY <1>1, Invariance, PTL

\* prvInsertBlockIntoFreeList leaves a list in order of address in which no two
\* blocks touch.
THEOREM Merges == Spec => []ListMerged
<1>1. IInv => ListMerged BY MergedConsequence, HeapConstants
<1> QED BY <1>1, Invariance, PTL

\* xFreeBytesRemaining is the number of bytes in the list's blocks, and the
\* low-water mark never passes it.
THEOREM Counted == Spec => []FreeBytesCounted
<1>1. IInv => FreeBytesCounted BY CountConsequence, HeapConstants
<1> QED BY <1>1, Invariance, PTL

\* pvPortMalloc refuses a legal size only when no gap between the blocks in use
\* would hold it.
THEOREM FailsWhenFull == Spec => []FailsOnlyWhenFull
<1>1. IInv => FailsOnlyWhenFull BY FailsConsequence, HeapConstants
<1> QED BY <1>1, Invariance, PTL
=============================================================================
