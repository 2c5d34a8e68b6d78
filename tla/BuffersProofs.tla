---------------------------- MODULE BuffersProofs ----------------------------
(***************************************************************************)
(* Proofs about the two buffers of a connection, for all values of their   *)
(* constants: the circular list of blocks that is sent from, and the ring  *)
(* of units that stream and messages are read from.  First what all proofs *)
(* about the parts need of numbers and loops.                              *)
(***************************************************************************)
EXTENDS SndBuffer, RcvBuffer, FiniteSetTheorems, SequenceTheorems, WellFoundedInduction, TLAPS

-----------------------------------------------------------------------------
(* Numbers.                                                                *)

\* A set of natural numbers has a least one.
LEMMA LeastOne ==
    ASSUME NEW S \in SUBSET Nat, S # {} PROVE \E n \in S : \A m \in S : n <= m
  <1> DEFINE Below == {0..x : x \in S}
  <1>1. Below \subseteq FiniteSubsetsOf(Nat) /\ Below # {}
    <2>1. \A x \in S : 0..x \in SUBSET Nat /\ IsFiniteSet(0..x)
      BY FS_Interval
    <2> QED BY <2>1, Zenon DEF FiniteSubsetsOf
  <1>2. PICK B \in Below : \A C \in Below : <<C, B>> \notin StrictSubsetOrdering(Nat)
    <2> HIDE DEF Below
    <2> QED BY <1>1, FS_StrictSubsetOrderingWellFounded, WFMin
  <1>3. PICK x \in S : B = 0..x
    OBVIOUS
  <1>4. \A y \in S : 0..y \subseteq 0..x => 0..y = 0..x
    <2> TAKE y \in S
    <2>1. 0..y \in SUBSET Nat /\ 0..x \in SUBSET Nat
      OBVIOUS
    <2>2. <<0..y, 0..x>> \notin StrictSubsetOrdering(Nat)
      BY <1>2, <1>3, Zenon
    <2>3. <<0..y, 0..x>> \in (SUBSET Nat) \X (SUBSET Nat)
      BY <2>1, Zenon
    <2> QED BY <2>2, <2>3, Zenon DEF StrictSubsetOrdering
  <1> QED BY <1>4

\* What holds of 0 and passes from each number to the next holds of all.
LEMMA ByInduction ==
    ASSUME NEW S \in SUBSET Nat, 0 \in S, \A n \in S : n + 1 \in S PROVE S = Nat
  <1> SUFFICES ASSUME Nat \ S # {} PROVE FALSE
    OBVIOUS
  <1>1. PICK n \in Nat \ S : \A m \in Nat \ S : n <= m
    BY LeastOne
  <1>2. n # 0 /\ n - 1 \in S
    BY <1>1
  <1> QED BY <1>1, <1>2

\* A number less than a round, or less than two.
LEMMA ModRound ==
    ASSUME NEW n \in Nat \ {0}, NEW a \in Nat
    PROVE  /\ a < n => a % n = a
           /\ n <= a /\ a < 2 * n => a % n = a - n
           /\ a % n \in 0..n - 1
  <1>1. a % n \in 0..n - 1 /\ a = n * (a \div n) + (a % n) /\ a \div n \in Nat
    OBVIOUS
  <1>2. CASE a \div n = 0
    BY <1>1, <1>2
  <1>3. CASE a \div n = 1
    BY <1>1, <1>3
  <1>4. CASE a \div n >= 2
    <2>1. n * (a \div n) >= n * 2
      BY <1>1, <1>4
    <2> QED BY <1>1, <2>1
  <1> QED BY <1>1, <1>2, <1>3, <1>4

\* A larger factor makes a larger product.
LEMMA ProductGrows ==
    ASSUME NEW x \in Nat, NEW y \in Nat, NEW z \in Nat PROVE y <= z => x * y <= x * z
  <1> SUFFICES ASSUME y <= z PROVE x * y <= x * z
    OBVIOUS
  <1>1. PICK d \in Nat : z = y + d
    <2>1. z - y \in Nat /\ z = y + (z - y)
      OBVIOUS
    <2> QED BY <2>1
  <1>2. x * z = x * y + x * d /\ x * d \in Nat /\ x * y \in Nat
    BY <1>1
  <1> QED BY <1>2

\* The loops of N steps from x, whose step k takes s to g[k][s], for s in S.
Loops(N, S, x, g) ==
    {f \in [0..N -> S] : f[0] = x /\ \A k \in 1..N : f[k] = g[k][f[k - 1]]}

\* There is one.
LEMMA LoopRuns ==
    ASSUME NEW N \in Nat, NEW S, NEW x \in S, NEW g \in [1..N -> [S -> S]]
    PROVE  Loops(N, S, x, g) # {}
  <1> DEFINE Runs(n) == \E f \in [0..n -> S] : f[0] = x /\ \A k \in 1..n : f[k] = g[k][f[k - 1]]
             Lengths == {n \in Nat : n <= N => Runs(n)}
  <1>1. 0 \in Lengths
    <2> DEFINE f == [k \in 0..0 |-> x]
    <2>1. f \in [0..0 -> S] /\ f[0] = x /\ \A k \in 1..0 : f[k] = g[k][f[k - 1]]
      OBVIOUS
    <2>2. Runs(0)
      <3> HIDE DEF f
      <3> QED BY <2>1
    <2> QED BY <2>2
  <1>2. ASSUME NEW n \in Lengths PROVE n + 1 \in Lengths
    <2> SUFFICES ASSUME n + 1 <= N PROVE Runs(n + 1)
      OBVIOUS
    <2>1. PICK f \in [0..n -> S] : f[0] = x /\ \A k \in 1..n : f[k] = g[k][f[k - 1]]
      OBVIOUS
    <2> DEFINE longer == [k \in 0..n + 1 |-> IF k <= n THEN f[k] ELSE g[n + 1][f[n]]]
    <2>2. g[n + 1] \in [S -> S] /\ f[n] \in S
      OBVIOUS
    <2>3. longer \in [0..n + 1 -> S]
      BY <2>2
    <2>4. longer[0] = x /\ \A k \in 1..n + 1 : longer[k] = g[k][longer[k - 1]]
      BY <2>1
    <2> QED BY <2>3, <2>4
  <1>3. Lengths = Nat
    <2> HIDE DEF Lengths
    <2>1. Lengths \in SUBSET Nat
      BY DEF Lengths
    <2> QED BY <1>1, <1>2, <2>1, ByInduction
  <1>4. Runs(N)
    BY <1>3
  <1> QED BY <1>4 DEF Loops

-----------------------------------------------------------------------------
(* The send buffer.                                                        *)

\* The links nx of n blocks form one circle, w of which gives the blocks in their
\* order from number a + 1 on.
Circle(nx, n, w, a) ==
    /\ w \in [a + 1..a + n -> 1..n]
    /\ \A i, j \in a + 1..a + n : w[i] = w[j] => i = j
    /\ \A p \in 1..n : \E i \in a + 1..a + n : w[i] = p
    /\ \A i \in a + 1..a + n : nx[w[i]] = IF i = a + n THEN w[a + 1] ELSE w[i + 1]

\* The block of number i, which may be one round further.
Spot(w, a, n, i) == IF i <= a + n THEN w[i] ELSE w[i - n]

LEMMA SbSizes == /\ InitBlocks \in Nat \ {0} /\ SndLimit \in Nat \ {0} /\ AllBlocks \in Nat \ {0}
                 /\ FirstMsgNo \in Nat \ {0} /\ MaxMsgNo \in Nat /\ MaxMsgNo > FirstMsgNo
  BY SndBufferAssumption

\* The walks of n steps from p along the links nx.
Walks(nx, S, p, n) == {f \in [0..n -> S] : f[0] = p /\ \A k \in 1..n : f[k] = nx[f[k - 1]]}

LEMMA BehindRuns ==
    ASSUME NEW b, NEW S, NEW p \in S, \A q \in S : b.next[q] \in S, NEW n \in Nat
    PROVE  \E f \in Walks(b.next, S, p, n) : Behind(b, p, n) = f[n]
  <1> DEFINE Body(f) == [k \in 0..n |-> IF k = 0 THEN p ELSE b.next[f[k - 1]]]
             g == [k \in 1..n |-> [q \in S |-> b.next[q]]]
             loop == CHOOSE f : f = Body(f)
  <1>1. g \in [1..n -> [S -> S]]
    OBVIOUS
  <1>2. PICK f : f \in Loops(n, S, p, g)
    <2> HIDE DEF g
    <2> QED BY <1>1, LoopRuns
  <1>3. f = Body(f)
    <2>1. /\ f \in [0..n -> S] /\ f[0] = p
          /\ \A k \in 1..n : f[k] = g[k][f[k - 1]]
      BY <1>2 DEF Loops
    <2>2. \A k \in 1..n : f[k] = b.next[f[k - 1]]
      <3> TAKE k \in 1..n
      <3>1. f[k - 1] \in S /\ f[k] = g[k][f[k - 1]]
        BY <2>1
      <3>2. g[k] = [q \in S |-> b.next[q]]
        OBVIOUS
      <3> QED BY <3>1, <3>2
    <2>3. \A k \in 0..n : f[k] = IF k = 0 THEN p ELSE b.next[f[k - 1]]
      BY <2>1, <2>2
    <2> HIDE DEF g
    <2> QED BY <2>1, <2>3
  <1>4. loop = Body(loop)
    BY <1>3, Zenon
  <1>5. Behind(b, p, n) = loop[n]
    BY DEF Behind
  <1> HIDE DEF loop
  <1>6. loop[0] = p /\ \A k \in 1..n : loop[k] = b.next[loop[k - 1]]
    BY <1>4
  <1>7. \A k \in 0..n : loop[k] \in S
    <2> DEFINE In == {k \in Nat : k <= n => loop[k] \in S}
    <2>1. 0 \in In
      BY <1>6
    <2>2. ASSUME NEW k \in In PROVE k + 1 \in In
      <3> SUFFICES ASSUME k + 1 <= n PROVE loop[k + 1] \in S
        OBVIOUS
      <3>1. loop[k] \in S /\ loop[k + 1] = b.next[loop[k]]
        BY <1>6
      <3> QED BY <3>1
    <2>3. In = Nat
      <3> HIDE DEF In
      <3>1. In \in SUBSET Nat
        BY DEF In
      <3> QED BY <2>1, <2>2, <3>1, ByInduction
    <2> QED BY <2>3
  <1>8. loop = [k \in 0..n |-> loop[k]]
    BY <1>4
  <1>9. loop \in [0..n -> S]
    BY <1>7, <1>8
  <1>10. loop \in Walks(b.next, S, p, n)
    BY <1>6, <1>9 DEF Walks
  <1> QED BY <1>5, <1>10

\* So many steps behind a block of the circle is the block of that number.
LEMMA BehindIs ==
    ASSUME NEW b, NEW n \in Nat \ {0}, NEW a \in Nat, NEW w, Circle(b.next, n, w, a),
           NEW i \in a + 1..a + n, NEW k \in 0..n
    PROVE  Behind(b, w[i], k) = Spot(w, a, n, i + k)
  <1>1. w[i] \in 1..n /\ \A p \in 1..n : b.next[p] \in 1..n
    <2>1. w \in [a + 1..a + n -> 1..n]
      BY DEF Circle
    <2>2. ASSUME NEW p \in 1..n PROVE b.next[p] \in 1..n
      <3>1. PICK j \in a + 1..a + n : w[j] = p
        BY DEF Circle
      <3>2. b.next[w[j]] = IF j = a + n THEN w[a + 1] ELSE w[j + 1]
        BY DEF Circle
      <3>3. a + 1 \in a + 1..a + n /\ (j # a + n => j + 1 \in a + 1..a + n)
        OBVIOUS
      <3> QED BY <2>1, <3>1, <3>2, <3>3
    <2> QED BY <2>1, <2>2
  <1>2. PICK f \in [0..k -> 1..n] : /\ f[0] = w[i]
                                    /\ \A m \in 1..k : f[m] = b.next[f[m - 1]]
                                    /\ Behind(b, w[i], k) = f[k]
    <2>1. k \in Nat
      OBVIOUS
    <2>2. \A p \in 1..n : b.next[p] \in 1..n
      BY <1>1
    <2>3. PICK f \in Walks(b.next, 1..n, w[i], k) : Behind(b, w[i], k) = f[k]
      BY ZenonT(30), <1>1, <2>1, <2>2, BehindRuns
    <2> QED BY <2>3 DEF Walks
  <1> DEFINE In == {m \in Nat : m <= k => f[m] = Spot(w, a, n, i + m)}
  <1>3. 0 \in In
    BY <1>2 DEF Spot
  <1>4. ASSUME NEW m \in In PROVE m + 1 \in In
    <2> SUFFICES ASSUME m + 1 <= k PROVE f[m + 1] = Spot(w, a, n, i + (m + 1))
      OBVIOUS
    <2>1. f[m + 1] = b.next[f[m]] /\ f[m] = Spot(w, a, n, i + m)
      BY <1>2
    <2>2. \A j \in a + 1..a + n : b.next[w[j]] = IF j = a + n THEN w[a + 1] ELSE w[j + 1]
      BY DEF Circle
    <2>3. CASE i + m < a + n
      <3>1. /\ i + m \in a + 1..a + n /\ i + m # a + n /\ i + m <= a + n
            /\ i + (m + 1) = (i + m) + 1 /\ i + (m + 1) <= a + n
        BY <2>3
      <3>2. b.next[w[i + m]] = w[(i + m) + 1]
        BY <2>2, <3>1
      <3>3. f[m] = w[i + m] /\ Spot(w, a, n, i + (m + 1)) = w[(i + m) + 1]
        BY <2>1, <3>1 DEF Spot
      <3> QED BY <2>1, <3>2, <3>3
    <2>4. CASE i + m = a + n
      <3>1. a + n \in a + 1..a + n /\ i + (m + 1) - n = a + 1 /\ i + (m + 1) > a + n
        BY <2>4
      <3>2. f[m + 1] = w[a + 1]
        <4>1. f[m] = w[a + n]
          BY <2>1, <2>4 DEF Spot
        <4> QED BY <2>1, <2>2, <3>1, <4>1
      <3>3. Spot(w, a, n, i + (m + 1)) = w[a + 1]
        BY <3>1 DEF Spot
      <3> QED BY <3>2, <3>3
    <2>5. CASE i + m > a + n
      <3>1. /\ i + m - n \in a + 1..a + n /\ i + m - n # a + n
            /\ i + (m + 1) - n = i + m - n + 1 /\ i + (m + 1) > a + n
        BY <2>5
      <3> QED BY <2>1, <2>2, <2>5, <3>1 DEF Spot
    <2> QED BY <2>3, <2>4, <2>5
  <1>5. In = Nat
    <2> HIDE DEF In
    <2>1. In \in SUBSET Nat
      BY DEF In
    <2> QED BY <1>3, <1>4, <2>1, ByInduction
  <1>6. k \in In
    <2> HIDE DEF In
    <2> QED BY <1>5
  <1> QED BY <1>2, <1>6

\* A block that is not a round further.
LEMMA BehindHere ==
    ASSUME NEW b, NEW n \in Nat \ {0}, NEW a \in Nat, NEW w, Circle(b.next, n, w, a)
    PROVE  \A i \in a + 1..a + n : \A k \in Nat :
               i + k <= a + n => Behind(b, w[i], k) = w[i + k]
  <1> SUFFICES ASSUME NEW i \in a + 1..a + n, NEW k \in Nat, i + k <= a + n
               PROVE  Behind(b, w[i], k) = w[i + k]
    OBVIOUS
  <1>1. k \in 0..n
    OBVIOUS
  <1>2. Behind(b, w[i], k) = Spot(w, a, n, i + k)
    BY <1>1, BehindIs
  <1> QED BY <1>2 DEF Spot

\* Links with m more blocks behind block q of n, and the order of the blocks with m
\* more behind number i.
LinksGrow(nx, ny, n, m, q) ==
    \A p \in 1..n + m : ny[p] = IF p = n + m THEN nx[q]
                                ELSE IF p > n THEN p + 1
                                ELSE IF p = q THEN n + 1 ELSE nx[p]
OrderGrown(w, a, n, i, m) ==
    [j \in a + 1..a + (n + m) |-> IF j <= i THEN w[j]
                                  ELSE IF j <= i + m THEN n + (j - i) ELSE w[j - m]]

LEMMA CircleGrows ==
    ASSUME NEW n \in Nat \ {0}, NEW a \in Nat, NEW nx, NEW w, Circle(nx, n, w, a),
           NEW i \in a + 1..a + n, NEW m \in Nat \ {0}, NEW ny, LinksGrow(nx, ny, n, m, w[i])
    PROVE  Circle(ny, n + m, OrderGrown(w, a, n, i, m), a)
  <1>1. /\ w \in [a + 1..a + n -> 1..n]
        /\ \A j, k \in a + 1..a + n : w[j] = w[k] => j = k
        /\ \A p \in 1..n : \E j \in a + 1..a + n : w[j] = p
        /\ \A j \in a + 1..a + n : nx[w[j]] = IF j = a + n THEN w[a + 1] ELSE w[j + 1]
    BY DEF Circle
  <1> DEFINE v == OrderGrown(w, a, n, i, m)
  <1>10. v = [j \in a + 1..a + (n + m) |-> IF j <= i THEN w[j]
                                           ELSE IF j <= i + m THEN n + (j - i) ELSE w[j - m]]
    BY DEF OrderGrown
  <1>11. \A p \in 1..n + m : ny[p] = IF p = n + m THEN nx[w[i]]
                                     ELSE IF p > n THEN p + 1
                                     ELSE IF p = w[i] THEN n + 1 ELSE nx[p]
    BY DEF LinksGrow
  <1> HIDE DEF v
  <1> DEFINE Early == a + 1..i
             New == i + 1..i + m
             Later == i + m + 1..a + (n + m)
  <1>2. \A j \in a + 1..a + (n + m) : j \in Early \/ j \in New \/ j \in Later
    OBVIOUS
  <1>3. \A j \in Early : v[j] = w[j] /\ j \in a + 1..a + n /\ v[j] \in 1..n
    BY <1>1, <1>10
  <1>4. \A j \in New : v[j] = n + (j - i) /\ v[j] \in n + 1..n + m
    BY <1>10
  <1>5. \A j \in Later : v[j] = w[j - m] /\ j - m \in a + 1..a + n /\ v[j] \in 1..n
    BY SMTT(30), <1>1, <1>10
  <1>6. v \in [a + 1..a + (n + m) -> 1..n + m]
    <2>1. ASSUME NEW j \in a + 1..a + (n + m) PROVE v[j] \in 1..n + m
      <3>1. \A q \in 1..n : q \in 1..n + m
        OBVIOUS
      <3>2. \A q \in n + 1..n + m : q \in 1..n + m
        OBVIOUS
      <3>3. CASE j \in Early
        BY <1>3, <3>1, <3>3
      <3>4. CASE j \in New
        BY <1>4, <3>2, <3>4
      <3>5. CASE j \in Later
        BY <1>5, <3>1, <3>5
      <3> QED BY <1>2, <3>3, <3>4, <3>5
    <2> QED BY <1>10, <2>1
  <1>7. ASSUME NEW j \in a + 1..a + (n + m), NEW k \in a + 1..a + (n + m), v[j] = v[k] PROVE j = k
    <2>1. CASE j \in New \/ k \in New
      BY <1>2, <1>3, <1>4, <1>5, <1>7, <2>1
    <2>2. CASE j \in Early /\ k \in Early
      BY <1>1, <1>3, <1>7, <2>2
    <2>3. CASE j \in Later /\ k \in Later
      <3>1. j - m = k - m
        BY <1>1, <1>5, <1>7, <2>3
      <3> QED BY <3>1
    <2>4. CASE j \in Early /\ k \in Later
      <3>1. j = k - m
        BY <1>1, <1>3, <1>5, <1>7, <2>4
      <3> QED BY <2>4, <3>1
    <2>5. CASE j \in Later /\ k \in Early
      <3>1. j - m = k
        BY <1>1, <1>3, <1>5, <1>7, <2>5
      <3> QED BY <2>5, <3>1
    <2> QED BY <1>2, <2>1, <2>2, <2>3, <2>4, <2>5, Zenon
  <1>8. ASSUME NEW p \in 1..n + m PROVE \E j \in a + 1..a + (n + m) : v[j] = p
    <2>1. CASE p > n
      <3>1. i + (p - n) \in New /\ i + (p - n) \in a + 1..a + (n + m)
        BY <2>1
      <3>2. v[i + (p - n)] = p
        BY <1>4, <2>1, <3>1
      <3> QED BY <3>1, <3>2
    <2>2. CASE p <= n
      <3>1. PICK j \in a + 1..a + n : w[j] = p
        BY <1>1, <2>2
      <3>2. CASE j <= i
        BY <1>3, <3>1, <3>2
      <3>3. CASE j > i
        <4>1. j + m \in Later /\ j + m - m = j /\ j + m \in a + 1..a + (n + m)
          BY <3>3
        <4>2. v[j + m] = p
          BY <1>5, <3>1, <4>1
        <4> QED BY <4>1, <4>2
      <3> QED BY <3>2, <3>3
    <2> QED BY <2>1, <2>2
  <1>9. ASSUME NEW j \in a + 1..a + (n + m)
        PROVE  ny[v[j]] = IF j = a + (n + m) THEN v[a + 1] ELSE v[j + 1]
    <2>0. v[j] \in 1..n + m /\ a + 1 \in Early /\ v[a + 1] = w[a + 1]
      BY <1>3, <1>6
    <2>1. CASE j \in Early /\ j # i
      <3>1. j + 1 \in Early /\ j # a + n /\ j # a + (n + m) /\ v[j + 1] = w[j + 1]
        BY <1>3, <2>1
      <3>2. w[j] # w[i] /\ nx[w[j]] = w[j + 1]
        BY <1>1, <1>3, <2>1, <3>1
      <3>3. ny[v[j]] = nx[w[j]]
        BY <1>3, <1>11, <2>0, <2>1, <3>2
      <3> QED BY <3>1, <3>2, <3>3
    <2>2. CASE j = i
      <3>1. v[j] = w[i] /\ w[i] \in 1..n /\ j + 1 \in New /\ j # a + (n + m)
        BY <1>3, <2>2
      <3>2. ny[v[j]] = n + 1
        BY <1>11, <2>0, <3>1
      <3>3. v[j + 1] = n + 1
        BY <1>4, <2>2, <3>1
      <3> QED BY <3>1, <3>2, <3>3
    <2>3. CASE j \in New /\ j # i + m
      <3>1. v[j] = n + (j - i) /\ j + 1 \in New /\ v[j + 1] = n + (j + 1 - i) /\ j # a + (n + m)
        BY <1>4, <2>3
      <3>2. ny[v[j]] = v[j] + 1
        BY <1>11, <2>0, <2>3, <3>1
      <3> QED BY <3>1, <3>2
    <2>4. CASE j = i + m
      <3>1. v[j] = n + m /\ j \in New
        BY <1>4, <2>4
      <3>2. ny[v[j]] = nx[w[i]]
        BY <1>11, <2>0, <3>1
      <3>3. nx[w[i]] = IF i = a + n THEN w[a + 1] ELSE w[i + 1]
        BY <1>1
      <3>4. i # a + n => j + 1 \in Later /\ j + 1 - m = i + 1
        BY <2>4
      <3>5. i # a + n => v[j + 1] = w[i + 1]
        BY <1>5, <3>4
      <3>6. i = a + n <=> j = a + (n + m)
        BY <2>4
      <3> QED BY <2>0, <3>2, <3>3, <3>5, <3>6
    <2>5. CASE j \in Later
      <3>1. /\ v[j] = w[j - m] /\ j - m \in a + 1..a + n /\ v[j] \in 1..n
            /\ j - m # i
        BY <1>5, <2>5
      <3>2. w[j - m] # w[i]
        BY <1>1, <3>1
      <3>3. ny[v[j]] = nx[w[j - m]]
        BY <1>11, <2>0, <3>1, <3>2
      <3>4. nx[w[j - m]] = IF j - m = a + n THEN w[a + 1] ELSE w[j - m + 1]
        BY <1>1, <3>1
      <3>5. j - m # a + n => j + 1 \in Later /\ j + 1 - m = j - m + 1
        BY <2>5
      <3>6. j - m # a + n => v[j + 1] = w[j - m + 1]
        BY <1>5, <3>5
      <3>7. j - m = a + n <=> j = a + (n + m)
        BY <2>5
      <3> QED BY <2>0, <3>3, <3>4, <3>6, <3>7
    <2> QED BY <1>2, <2>1, <2>2, <2>3, <2>4, <2>5, Zenon
  <1> QED BY <1>6, <1>7, <1>8, <1>9 DEF Circle, v

\* An ACK turns the circle.
LEMMA CircleTurns ==
    ASSUME NEW n \in Nat \ {0}, NEW a \in Nat, NEW nx, NEW w, Circle(nx, n, w, a),
           NEW k \in 0..n, NEW v, v = [i \in a + k + 1..a + k + n |-> Spot(w, a, n, i)]
    PROVE  Circle(nx, n, v, a + k)
  <1>1. /\ w \in [a + 1..a + n -> 1..n]
        /\ \A j, l \in a + 1..a + n : w[j] = w[l] => j = l
        /\ \A p \in 1..n : \E j \in a + 1..a + n : w[j] = p
        /\ \A j \in a + 1..a + n : nx[w[j]] = IF j = a + n THEN w[a + 1] ELSE w[j + 1]
    BY DEF Circle
  <1> DEFINE Base(i) == IF i <= a + n THEN i ELSE i - n
  <1>2. \A i \in a + k + 1..a + k + n : Base(i) \in a + 1..a + n /\ v[i] = w[Base(i)]
    BY DEF Spot
  <1>3. \A i, j \in a + k + 1..a + k + n : Base(i) = Base(j) => i = j
    OBVIOUS
  <1>4. ASSUME NEW p \in 1..n PROVE \E i \in a + k + 1..a + k + n : v[i] = p
    <2>1. PICK j \in a + 1..a + n : w[j] = p
      BY <1>1
    <2>2. PICK i \in a + k + 1..a + k + n : i = IF j > a + k THEN j ELSE j + n
      OBVIOUS
    <2>3. Base(i) = j
      BY <2>2
    <2> QED BY <1>2, <2>1, <2>3
  <1>5. ASSUME NEW i \in a + k + 1..a + k + n
        PROVE  nx[v[i]] = IF i = a + k + n THEN v[a + k + 1] ELSE v[i + 1]
    <2>1. v[i] = w[Base(i)] /\ Base(i) \in a + 1..a + n
      BY <1>2
    <2>2. nx[v[i]] = IF Base(i) = a + n THEN w[a + 1] ELSE w[Base(i) + 1]
      BY <1>1, <2>1
    <2>3. i # a + k + n => /\ i + 1 \in a + k + 1..a + k + n
                           /\ Base(i + 1) = IF Base(i) = a + n THEN a + 1 ELSE Base(i) + 1
      OBVIOUS
    <2>4. i = a + k + n => /\ a + k + 1 \in a + k + 1..a + k + n
                           /\ Base(a + k + 1) = IF Base(i) = a + n THEN a + 1 ELSE Base(i) + 1
      OBVIOUS
    <2> HIDE DEF Base
    <2> QED BY <1>2, <2>2, <2>3, <2>4
  <1>6. v \in [a + k + 1..a + k + n -> 1..n]
    BY <1>1, <1>2
  <1>7. \A i, j \in a + k + 1..a + k + n : v[i] = v[j] => i = j
    <2> HIDE DEF Base
    <2> QED BY SMTT(30), <1>1, <1>2, <1>3
  <1> QED BY <1>4, <1>5, <1>6, <1>7 DEF Circle

\* The message numbers go round: the number of message i.
Nth(i) == ((FirstMsgNo + i - 2) % (MaxMsgNo - 1)) + 1

\* A modulus is the remainder.
LEMMA ModIs ==
    ASSUME NEW m \in Nat \ {0}, NEW q \in Nat, NEW r \in 0..m - 1 PROVE (m * q + r) % m = r
  <1> DEFINE t == m * q + r
             d == t \div m
  <1>1. m * q \in Nat
    OBVIOUS
  <1>2. t \in Nat /\ d \in Nat /\ t = m * d + (t % m) /\ t % m \in 0..m - 1
    BY <1>1
  <1> HIDE DEF t, d
  <1>3. t = m * q + r
    BY DEF t
  <1>4. d = q
    <2>1. CASE d < q
      <3>1. m * (d + 1) <= m * q
        BY <1>2, <2>1, ProductGrows
      <3>2. m * (d + 1) = m * d + m
        BY <1>2
      <3> QED BY <1>1, <1>2, <1>3, <3>1, <3>2
    <2>2. CASE d > q
      <3>1. m * (q + 1) <= m * d
        BY <1>2, <2>2, ProductGrows
      <3>2. m * (q + 1) = m * q + m
        OBVIOUS
      <3>3. m * d \in Nat
        BY <1>2
      <3> QED BY <1>1, <1>2, <1>3, <3>1, <3>2, <3>3
    <2> QED BY <1>2, <2>1, <2>2
  <1>5. t % m = r
    <2>1. m * d = m * q
      BY <1>4
    <2>2. m * d \in Nat
      BY <1>1, <2>1
    <2> QED BY <1>1, <1>2, <1>3, <2>1, <2>2
  <1> QED BY <1>5 DEF t

LEMMA NthNext ==
    ASSUME NEW i \in Nat \ {0}
    PROVE  /\ Nth(i) \in 1..MaxMsgNo - 1
           /\ Nth(i + 1) = NextMsgNo(Nth(i))
           /\ Nth(1) = FirstMsgNo
  <1> DEFINE m == MaxMsgNo - 1
             t == FirstMsgNo + i - 2
             q == t \div m
  <1>1. m \in Nat \ {0} /\ t \in Nat /\ FirstMsgNo - 1 \in 0..m - 1
    BY SbSizes
  <1>2. q \in Nat /\ t = m * q + (t % m) /\ t % m \in 0..m - 1
    BY <1>1
  <1>3. Nth(i) = (t % m) + 1
    BY DEF Nth
  <1>4. Nth(i + 1) = ((t + 1) % m) + 1
    <2>1. FirstMsgNo + (i + 1) - 2 = t + 1
      BY SbSizes
    <2> QED BY <2>1 DEF Nth
  <1>5. Nth(1) = FirstMsgNo
    <2>1. FirstMsgNo + 1 - 2 = FirstMsgNo - 1 /\ (FirstMsgNo - 1) % m = FirstMsgNo - 1
      <3>1. FirstMsgNo - 1 \in Nat /\ FirstMsgNo - 1 < m
        BY SbSizes
      <3> HIDE DEF m
      <3>2. (FirstMsgNo - 1) % m = FirstMsgNo - 1
        BY <1>1, <3>1, ModRound
      <3> QED BY <3>2, SbSizes
    <2> HIDE DEF m
    <2>2. Nth(1) = ((FirstMsgNo + 1 - 2) % m) + 1
      BY DEF Nth, m
    <2> QED BY <2>1, <2>2, SbSizes
  <1>6. MaxMsgNo = m + 1
    BY SbSizes
  <1> HIDE DEF m, t, q
  <1>7. CASE (t % m) + 1 < m
    <2>1. t + 1 = m * q + ((t % m) + 1) /\ (t % m) + 1 \in 0..m - 1
      <3>1. m * q \in Nat
        BY <1>1, <1>2
      <3> QED BY <1>1, <1>2, <1>7, <3>1
    <2>2. (t + 1) % m = (t % m) + 1
      BY <1>1, <1>2, <2>1, ModIs
    <2> QED BY <1>1, <1>2, <1>3, <1>4, <1>5, <1>6, <1>7, <2>2 DEF NextMsgNo
  <1>8. CASE (t % m) + 1 = m
    <2>1. t + 1 = m * (q + 1) + 0
      <3>1. m * q \in Nat /\ m * (q + 1) = m * q + m
        BY <1>1, <1>2
      <3> QED BY <1>1, <1>2, <1>8, <3>1
    <2>2. (t + 1) % m = 0
      <3>1. q + 1 \in Nat /\ 0 \in 0..m - 1
        BY <1>1, <1>2
      <3> QED BY <1>1, <2>1, <3>1, ModIs
    <2> QED BY <1>1, <1>2, <1>3, <1>4, <1>5, <1>6, <1>8, <2>2 DEF NextMsgNo
  <1> QED BY <1>1, <1>2, <1>7, <1>8

\* Messages that are less than a round apart have different numbers.
LEMMA NthApart ==
    ASSUME NEW i \in Nat \ {0}, NEW j \in Nat \ {0}, i < j, j - i < MaxMsgNo - 1
    PROVE  Nth(i) # Nth(j)
  <1> DEFINE m == MaxMsgNo - 1
             t == FirstMsgNo + i - 2
             q == t \div m
             r == t % m
             d == j - i
             x == m * q
  <1>1. m \in Nat \ {0} /\ t \in Nat /\ d \in Nat /\ 1 <= d /\ d < m
    BY SbSizes
  <1>2. q \in Nat /\ t = x + r /\ r \in 0..m - 1
    BY <1>1
  <1>3. Nth(i) = r + 1
    BY DEF Nth
  <1>4. Nth(j) = ((t + d) % m) + 1
    <2>1. FirstMsgNo + j - 2 = t + d
      BY SbSizes
    <2> QED BY <2>1 DEF Nth
  <1> HIDE DEF m, t, d, q, r
  <1>5. x \in Nat /\ m * (q + 1) = x + m
    BY <1>1, <1>2
  <1>6. CASE r + d < m
    <2>1. r + d \in 0..m - 1
      BY <1>1, <1>2, <1>6
    <2>2. (m * q + (r + d)) % m = r + d
      BY <1>1, <1>2, <2>1, ModIs
    <2> HIDE DEF x
    <2>3. t + d = x + (r + d)
      BY <1>1, <1>2, <1>5
    <2>4. (t + d) % m = r + d
      BY <2>2, <2>3 DEF x
    <2> QED BY <1>1, <1>2, <1>3, <1>4, <2>4
  <1>7. CASE r + d >= m
    <2>1. r + d - m \in 0..m - 1 /\ q + 1 \in Nat
      BY <1>1, <1>2, <1>7
    <2>2. (m * (q + 1) + (r + d - m)) % m = r + d - m
      BY <1>1, <2>1, ModIs
    <2> HIDE DEF x
    <2>3. t + d = (x + m) + (r + d - m)
      BY <1>1, <1>2, <1>5
    <2>4. (t + d) % m = r + d - m
      BY <1>5, <2>2, <2>3
    <2> QED BY <1>1, <1>2, <1>3, <1>4, <2>4
  <1> QED BY <1>1, <1>2, <1>6, <1>7

-----------------------------------------------------------------------------
\* What is kept of the messages: their blocks follow each other, none missing, and
\* each was shorter than the circle of n blocks is.
SbMessages == [first : Nat, last : Nat]
SbMsgs(msgs, wr, n) ==
    /\ msgs \in Seq(SbMessages)
    /\ \A i \in DOMAIN msgs : /\ 1 <= msgs[i].first /\ msgs[i].first <= msgs[i].last
                              /\ msgs[i].last <= wr /\ msgs[i].last - msgs[i].first + 1 < n
    /\ \A i, j \in DOMAIN msgs : i < j => msgs[j].first - msgs[i].last >= j - i
    /\ \A k \in 1..wr : \E i \in DOMAIN msgs : k \in msgs[i].first..msgs[i].last

\* A message of size blocks has been added to msgs.
MoreMsgs(msgs, more, wr, size) ==
    /\ {msgs, more} \subseteq Seq(SbMessages) /\ Len(more) = Len(msgs) + 1
    /\ \A i \in DOMAIN msgs : i \in DOMAIN more /\ more[i] = msgs[i]
    /\ more[Len(msgs) + 1] = [first |-> wr + 1, last |-> wr + size]

WithMessage(msgs, wr, size) == Append(msgs, [first |-> wr + 1, last |-> wr + size])

LEMMA MsgAdded ==
    ASSUME NEW msgs, NEW wr \in Nat, NEW n \in Nat, SbMsgs(msgs, wr, n),
           NEW size \in Nat \ {0}, NEW l \in Nat, n <= l, size < l,
           NEW more, more = WithMessage(msgs, wr, size)
    PROVE  SbMsgs(more, wr + size, l) /\ MoreMsgs(msgs, more, wr, size)
  <1> DEFINE M == SbMessages
             e == [first |-> wr + 1, last |-> wr + size]
             z == Len(msgs)
  <1>1. msgs \in Seq(M) /\ e \in M /\ z \in Nat /\ DOMAIN msgs = 1..z
    BY DEF SbMsgs, SbMessages
  <1>2. /\ more \in Seq(M) /\ Len(more) = z + 1 /\ DOMAIN more = 1..z + 1
        /\ \A i \in 1..z : more[i] = msgs[i]
        /\ more[z + 1] = e
    BY <1>1 DEF WithMessage
  <1>3. \A i \in 1..z : msgs[i].first \in Nat /\ msgs[i].last \in Nat
    <2> TAKE i \in 1..z
    <2>1. msgs[i] \in M
      <3> HIDE DEF M
      <3> QED BY <1>1
    <2> QED BY <2>1 DEF SbMessages
  <1>4. e.first = wr + 1 /\ e.last = wr + size
    OBVIOUS
  <1>11. /\ \A i \in 1..z : /\ 1 <= msgs[i].first /\ msgs[i].first <= msgs[i].last
                            /\ msgs[i].last <= wr /\ msgs[i].last - msgs[i].first + 1 < n
         /\ \A i, j \in 1..z : i < j => msgs[j].first - msgs[i].last >= j - i
         /\ \A k \in 1..wr : \E i \in 1..z : k \in msgs[i].first..msgs[i].last
    BY <1>1 DEF SbMsgs
  <1> HIDE DEF e, z, M
  <1>5. ASSUME NEW i \in 1..z + 1
        PROVE  /\ 1 <= more[i].first /\ more[i].first <= more[i].last
               /\ more[i].last <= wr + size /\ more[i].last - more[i].first + 1 < l
    <2>1. CASE i = z + 1
      BY <1>2, <1>4, <2>1
    <2>2. CASE i # z + 1
      <3>1. i \in 1..z
        BY <1>1, <2>2
      <3>2. /\ 1 <= msgs[i].first /\ msgs[i].first <= msgs[i].last
            /\ msgs[i].last <= wr /\ msgs[i].last - msgs[i].first + 1 < n
        BY <1>11, <3>1
      <3>3. more[i] = msgs[i] /\ {msgs[i].first, msgs[i].last} \subseteq Nat
        BY <1>2, <1>3, <3>1
      <3> QED BY <3>2, <3>3
    <2> QED BY <2>1, <2>2
  <1>6. ASSUME NEW i \in 1..z + 1, NEW j \in 1..z + 1, i < j
        PROVE  more[j].first - more[i].last >= j - i
    <2>0. i \in 1..z
      BY <1>1, <1>6
    <2>1. CASE j = z + 1
      <3>1. more[j].first = wr + 1 /\ more[i].last = msgs[i].last
        BY <1>2, <1>4, <2>0, <2>1
      <3>2. CASE i = z
        <4>1. msgs[i].last <= wr
          BY <1>11, <2>0
        <4> QED BY <1>1, <1>3, <2>0, <2>1, <3>1, <3>2, <4>1
      <3>3. CASE i # z
        <4>1. z \in 1..z /\ i < z
          BY <1>1, <2>0, <3>3
        <4>2. msgs[z].first - msgs[i].last >= z - i /\ msgs[z].first <= msgs[z].last /\ msgs[z].last <= wr
          BY <1>11, <2>0, <4>1
        <4>3. msgs[z].first \in Nat /\ msgs[z].last \in Nat /\ msgs[i].last \in Nat
          BY <1>3, <2>0, <4>1
        <4>4. wr + 1 - msgs[i].last >= z + 1 - i
          BY SMTT(30), <1>1, <2>0, <4>2, <4>3
        <4> QED BY <1>1, <2>0, <2>1, <3>1, <4>3, <4>4
      <3> QED BY <3>2, <3>3
    <2>2. CASE j # z + 1
      <3>1. j \in 1..z
        BY <1>1, <2>2
      <3>2. msgs[j].first - msgs[i].last >= j - i
        BY <1>6, <1>11, <2>0, <3>1
      <3> QED BY <1>2, <2>0, <3>1, <3>2
    <2> QED BY <2>1, <2>2
  <1>7. ASSUME NEW k \in 1..wr + size
        PROVE  \E i \in 1..z + 1 : k \in more[i].first..more[i].last
    <2>1. CASE k <= wr
      <3>1. PICK i \in 1..z : k \in msgs[i].first..msgs[i].last
        <4>1. k \in 1..wr
          BY <2>1
        <4> QED BY <1>11, <4>1
      <3>2. i \in 1..z + 1 /\ more[i] = msgs[i]
        BY <1>1, <1>2
      <3> QED BY <3>1, <3>2
    <2>2. CASE k > wr
      <3>1. z + 1 \in 1..z + 1 /\ k \in more[z + 1].first..more[z + 1].last
        BY <1>1, <1>2, <1>4, <2>2
      <3> QED BY <3>1
    <2>3. k <= wr \/ k > wr
      OBVIOUS
    <2> QED BY <2>1, <2>2, <2>3, Zenon
  <1>8. SbMsgs(more, wr + size, l)
    BY <1>2, <1>5, <1>6, <1>7, Zenon DEF SbMsgs, M
  <1>10. \A i \in DOMAIN msgs : i \in DOMAIN more /\ more[i] = msgs[i]
    BY <1>1, <1>2
  <1> QED BY <1>1, <1>2, <1>8, <1>10 DEF MoreMsgs, z, e, M

SbRecords(n) ==
    [next : [1..n -> 1..n], data : [1..n -> Nat], msgNo : [1..n -> Nat], first : 1..n, curr : 1..n,
     last : 1..n, count : Nat, nextMsgNo : Nat]

\* The n blocks of b in their order w: block a was acknowledged, block s sent, block wr
\* written last, and a block from number lo on was never written, or a round before.
SbRing(b, n, w, a, wr, s, lo) ==
    /\ n \in Nat \ {0} /\ a \in Nat /\ wr \in Nat /\ s \in Nat
    /\ a <= s /\ s <= wr /\ wr < a + n
    /\ b \in SbRecords(n) /\ Circle(b.next, n, w, a)
    /\ b.first = w[a + 1] /\ b.curr = w[s + 1] /\ b.last = w[wr + 1] /\ b.count = wr - a
    /\ \A i \in a + 1..wr : b.data[w[i]] = i
    /\ \A i \in lo..a + n : b.data[w[i]] \in {0, i - n}

\* A block has the number of the message whose block it holds, or no message's number.
SbNumbered(b, n, msgs) ==
    \A p \in 1..n :
        /\ b.data[p] = 0 => b.msgNo[p] \notin 1..MaxMsgNo - 1
        /\ b.data[p] # 0 => \E i \in DOMAIN msgs : /\ b.data[p] \in msgs[i].first..msgs[i].last
                                                   /\ b.msgNo[p] = Nth(i)

LEMMA ArrayLen ==
    ASSUME NEW n \in Nat, NEW S, NEW f \in [1..n -> S] PROVE Len(f) = n /\ DOMAIN f = 1..n
  OBVIOUS

\* c is b with m blocks more.
BlocksGrown(b, c, n, m, g) ==
    /\ c \in SbRecords(n + m)
    /\ c.first = b.first /\ c.curr = b.curr /\ c.last = b.last
    /\ c.count = b.count /\ c.nextMsgNo = b.nextMsgNo
    /\ LinksGrow(b.next, c.next, n, m, b.last)
    /\ \A p \in 1..n + m : /\ c.data[p] = IF p > n THEN 0 ELSE b.data[p]
                           /\ c.msgNo[p] = IF p > n THEN g ELSE b.msgNo[p]

LEMMA RecordIn ==
    ASSUME NEW l, NEW next \in [1..l -> 1..l], NEW data \in [1..l -> Nat], NEW msgNo \in [1..l -> Nat],
           NEW first \in 1..l, NEW curr \in 1..l, NEW last \in 1..l, NEW count \in Nat, NEW no \in Nat
    PROVE  [next |-> next, data |-> data, msgNo |-> msgNo, first |-> first, curr |-> curr,
            last |-> last, count |-> count, nextMsgNo |-> no] \in SbRecords(l)
  BY DEF SbRecords

LEMMA IncreaseIs ==
    ASSUME NEW n \in Nat \ {0}, NEW b \in SbRecords(n), NEW g \in Nat, NEW c, c = Increase(b, g)
    PROVE  BlocksGrown(b, c, n, InitBlocks, g)
  <1> DEFINE l == n + InitBlocks
             next == [p \in 1..l |-> IF p = l THEN b.next[b.last]
                                     ELSE IF p > n THEN p + 1
                                     ELSE IF p = b.last THEN n + 1 ELSE b.next[p]]
             data == [p \in 1..l |-> IF p > n THEN 0 ELSE b.data[p]]
             msgNo == [p \in 1..l |-> IF p > n THEN g ELSE b.msgNo[p]]
  <1>1. /\ b.next \in [1..n -> 1..n] /\ b.data \in [1..n -> Nat] /\ b.msgNo \in [1..n -> Nat]
        /\ b.first \in 1..n /\ b.curr \in 1..n /\ b.last \in 1..n
        /\ b.count \in Nat /\ b.nextMsgNo \in Nat
    BY DEF SbRecords
  <1>2. Len(b.next) = n
    <2>1. n \in Nat
      OBVIOUS
    <2> QED BY <1>1, <2>1, ArrayLen
  <1>3. l \in Nat /\ n + 1 \in 1..l /\ \A q \in 1..n : q \in 1..l
    BY SbSizes
  <1>4. next \in [1..l -> 1..l]
    <2> SUFFICES ASSUME NEW p \in 1..l
                 PROVE  (IF p = l THEN b.next[b.last] ELSE IF p > n THEN p + 1
                         ELSE IF p = b.last THEN n + 1 ELSE b.next[p]) \in 1..l
      OBVIOUS
    <2>1. CASE p = l
      <3>1. b.next[b.last] \in 1..n
        BY <1>1
      <3> QED BY <1>3, <2>1, <3>1
    <2>2. CASE p # l /\ p > n
      BY <1>3, <2>2
    <2>3. CASE p # l /\ p <= n
      <3>1. b.next[p] \in 1..n /\ n + 1 \in 1..l
        <4>1. p \in 1..n
          BY <1>3, <2>3, SbSizes
        <4>2. b.next[p] \in 1..n
          BY <1>1, <4>1
        <4> QED BY <1>3, <4>2
      <3>2. (IF p = l THEN b.next[b.last] ELSE IF p > n THEN p + 1
             ELSE IF p = b.last THEN n + 1 ELSE b.next[p]) = IF p = b.last THEN n + 1 ELSE b.next[p]
        BY <2>3
      <3>3. \A q \in 1..n : q \in 1..l
        BY <1>3
      <3> QED BY <3>1, <3>2, <3>3
    <2>4. p <= n \/ p > n
      OBVIOUS
    <2> QED BY <2>1, <2>2, <2>3, <2>4, Zenon
  <1>5. data \in [1..l -> Nat] /\ msgNo \in [1..l -> Nat]
    <2>1. \A p \in 1..l : p > n \/ p \in 1..n
      BY <1>3
    <2>2. \A p \in 1..l : /\ (IF p > n THEN 0 ELSE b.data[p]) \in Nat
                          /\ (IF p > n THEN g ELSE b.msgNo[p]) \in Nat
      BY <1>1, <2>1
    <2> QED BY <2>2
  <1>6. c = [b EXCEPT !.next = next, !.data = data, !.msgNo = msgNo]
    BY <1>2 DEF Increase
  <1>7. c = [next |-> next, data |-> data, msgNo |-> msgNo, first |-> b.first, curr |-> b.curr,
             last |-> b.last, count |-> b.count, nextMsgNo |-> b.nextMsgNo]
    <2> HIDE DEF next, data, msgNo
    <2> QED BY <1>6 DEF SbRecords
  <1>8. c \in SbRecords(l)
    <2> HIDE DEF next, data, msgNo, l
    <2>1. b.first \in 1..l /\ b.curr \in 1..l /\ b.last \in 1..l
      BY <1>1, <1>3
    <2>2. [next |-> next, data |-> data, msgNo |-> msgNo, first |-> b.first, curr |-> b.curr,
           last |-> b.last, count |-> b.count, nextMsgNo |-> b.nextMsgNo] \in SbRecords(l)
      BY <1>1, <1>4, <1>5, <2>1, RecordIn
    <2> QED BY <1>7, <2>2
  <1>9. c.next = next /\ c.data = data /\ c.msgNo = msgNo
    <2> HIDE DEF next, data, msgNo
    <2> QED BY <1>7
  <1>10. /\ c.first = b.first /\ c.curr = b.curr /\ c.last = b.last
         /\ c.count = b.count /\ c.nextMsgNo = b.nextMsgNo
    <2> HIDE DEF next, data, msgNo
    <2> QED BY <1>7
  <1> QED BY <1>8, <1>9, <1>10 DEF BlocksGrown, LinksGrow

LEMMA IncreaseKeeps ==
    ASSUME NEW b, NEW n, NEW w, NEW a, NEW wr, NEW s, NEW lo, NEW msgs,
           SbRing(b, n, w, a, wr, s, lo), SbNumbered(b, n, msgs), lo \in {wr + 1, wr + 2},
           NEW g \in Garbage, Garbage \cap 1..MaxMsgNo - 1 = {}, NEW c, c = Increase(b, g)
    PROVE  /\ \E v : SbRing(c, n + InitBlocks, v, a, wr, s, wr + 2)
           /\ SbNumbered(c, n + InitBlocks, msgs)
           /\ c.count = b.count /\ c.nextMsgNo = b.nextMsgNo
  <1> DEFINE m == InitBlocks
             l == n + m
             i == wr + 1
             v == OrderGrown(w, a, n, i, m)
  <1>1. /\ n \in Nat \ {0} /\ a \in Nat /\ wr \in Nat /\ s \in Nat
        /\ a <= s /\ s <= wr /\ wr < a + n
        /\ b \in SbRecords(n) /\ Circle(b.next, n, w, a)
        /\ b.first = w[a + 1] /\ b.curr = w[s + 1] /\ b.last = w[wr + 1] /\ b.count = wr - a
        /\ \A j \in a + 1..wr : b.data[w[j]] = j
        /\ \A j \in lo..a + n : b.data[w[j]] \in {0, j - n}
    BY DEF SbRing
  <1>2. g \in Nat /\ m \in Nat \ {0} /\ g \notin 1..MaxMsgNo - 1
    BY SndBufferAssumption, SbSizes
  <1>3. BlocksGrown(b, c, n, m, g)
    <2>1. n \in Nat \ {0} /\ b \in SbRecords(n) /\ g \in Nat
      BY <1>1, <1>2
    <2> QED BY <2>1, IncreaseIs
  <1>16. /\ c \in SbRecords(n + m)
         /\ c.first = b.first /\ c.curr = b.curr /\ c.last = b.last
         /\ c.count = b.count /\ c.nextMsgNo = b.nextMsgNo
         /\ LinksGrow(b.next, c.next, n, m, w[i])
         /\ \A p \in 1..n + m : /\ c.data[p] = IF p > n THEN 0 ELSE b.data[p]
                                /\ c.msgNo[p] = IF p > n THEN g ELSE b.msgNo[p]
    BY <1>1, <1>3 DEF BlocksGrown
  <1>4. i \in a + 1..a + n /\ w \in [a + 1..a + n -> 1..n]
    BY <1>1 DEF Circle
  <1>5. Circle(c.next, n + m, v, a)
    <2>1. n \in Nat \ {0} /\ a \in Nat /\ i \in a + 1..a + n /\ m \in Nat \ {0}
      BY <1>1, <1>2, <1>4
    <2> HIDE DEF m, i
    <2> QED BY <1>1, <1>16, <2>1, CircleGrows
  <1>17. v = [j \in a + 1..a + (n + m) |-> IF j <= i THEN w[j]
                                           ELSE IF j <= i + m THEN n + (j - i) ELSE w[j - m]]
    BY DEF OrderGrown
  <1>6. \A j \in a + 1..i : v[j] = w[j] /\ w[j] \in 1..n
    <2> TAKE j \in a + 1..i
    <2>1. j \in a + 1..a + (n + m) /\ j \in a + 1..a + n /\ j <= i
      BY <1>1, <1>2
    <2> QED BY <1>4, <1>17, <2>1
  <1>7. \A j \in i + 1..i + m : v[j] > n /\ v[j] \in 1..n + m
    <2> TAKE j \in i + 1..i + m
    <2>1. j \in a + 1..a + (n + m) /\ ~(j <= i) /\ j <= i + m
      BY <1>1, <1>2
    <2>2. v[j] = n + (j - i)
      BY <1>17, <2>1
    <2> QED BY <1>1, <1>2, <2>1, <2>2
  <1>8. \A j \in i + m + 1..a + (n + m) : v[j] = w[j - m] /\ w[j - m] \in 1..n /\ j - m \in wr + 2..a + n
    <2> TAKE j \in i + m + 1..a + (n + m)
    <2>1. j \in a + 1..a + (n + m) /\ ~(j <= i) /\ ~(j <= i + m)
      BY <1>1, <1>2
    <2>2. v[j] = w[j - m]
      BY <1>17, <2>1
    <2>3. j - m \in wr + 2..a + n /\ j - m \in a + 1..a + n
      BY <1>1, <1>2
    <2> QED BY <1>4, <2>2, <2>3
  <1>9. \A j \in wr + 2..a + (n + m) : j \in i + 1..i + m \/ j \in i + m + 1..a + (n + m)
    BY <1>1, <1>2
  <1>10. \A q \in 1..n : q \in 1..n + m /\ ~(q > n)
    BY <1>1, <1>2
  <1>11. c.first = v[a + 1] /\ c.curr = v[s + 1] /\ c.last = v[wr + 1]
    <2>1. a + 1 \in a + 1..i /\ s + 1 \in a + 1..i /\ wr + 1 \in a + 1..i
      BY <1>1
    <2> QED BY <1>1, <1>6, <1>16, <2>1
  <1>12. ASSUME NEW j \in a + 1..wr PROVE c.data[v[j]] = j
    <2>1. j \in a + 1..i
      BY <1>1
    <2> QED BY <1>1, <1>6, <1>10, <1>16, <2>1
  <1>13. ASSUME NEW j \in wr + 2..a + (n + m) PROVE c.data[v[j]] \in {0, j - (n + m)}
    <2>1. CASE j \in i + 1..i + m
      BY <1>7, <1>16, <2>1
    <2>2. CASE j \in i + m + 1..a + (n + m)
      <3>1. v[j] = w[j - m] /\ w[j - m] \in 1..n /\ j - m \in wr + 2..a + n
        BY <1>8, <2>2
      <3>2. c.data[v[j]] = b.data[w[j - m]]
        BY <1>10, <1>16, <3>1
      <3>3. j - m \in lo..a + n
        BY <1>1, <1>2, <3>1
      <3>4. b.data[w[j - m]] \in {0, j - m - n}
        BY <1>1, <3>3
      <3>5. j - m - n = j - (n + m)
        BY <1>1, <1>2
      <3> QED BY <3>2, <3>4, <3>5
    <2> QED BY <1>9, <2>1, <2>2
  <1>14. SbRing(c, n + m, v, a, wr, s, wr + 2)
    <2>1. n + m \in Nat \ {0} /\ wr < a + (n + m)
      BY <1>1, <1>2
    <2> QED BY <1>1, <1>5, <1>11, <1>12, <1>13, <1>16, <2>1 DEF SbRing
  <1>15. SbNumbered(c, n + m, msgs)
    <2> SUFFICES ASSUME NEW p \in 1..n + m
                 PROVE  /\ c.data[p] = 0 => c.msgNo[p] \notin 1..MaxMsgNo - 1
                        /\ c.data[p] # 0 => \E k \in DOMAIN msgs :
                               c.data[p] \in msgs[k].first..msgs[k].last /\ c.msgNo[p] = Nth(k)
      BY DEF SbNumbered
    <2>1. CASE p > n
      BY <1>2, <1>16, <2>1
    <2>2. CASE ~(p > n)
      <3>1. p \in 1..n /\ c.data[p] = b.data[p] /\ c.msgNo[p] = b.msgNo[p]
        BY <1>1, <1>2, <1>16, <2>2
      <3> QED BY <3>1 DEF SbNumbered
    <2> QED BY <2>1, <2>2
  <1> QED BY <1>14, <1>15, <1>16

\* b has become c, of l blocks in the order v, at most `most` of them.
SbGrew(b, n, c, l, v, a, wr, s, msgs, most) ==
    /\ SbRing(c, l, v, a, wr, s, wr + 2) /\ SbNumbered(c, l, msgs)
    /\ c.nextMsgNo = b.nextMsgNo /\ n <= l /\ (l = n \/ l <= most)
SbGrowing(b, n, a, wr, s, msgs, most) ==
    {c \in UNION {SbRecords(l) : l \in Nat} :
        \E l \in Nat \ {0} : \E v : SbGrew(b, n, c, l, v, a, wr, s, msgs, most)}

RoomStep(c, size, g) == IF size + c.count >= Len(c.next) THEN Increase(c, g) ELSE c

\* A turn of the loop that makes room.
LEMMA RoomTurns ==
    ASSUME NEW n \in Nat \ {0}, NEW b, NEW a \in Nat, NEW wr \in Nat, NEW s, NEW msgs,
           NEW size \in Nat \ {0}, NEW g \in Garbage, Garbage \cap 1..MaxMsgNo - 1 = {},
           NEW c \in SbGrowing(b, n, a, wr, s, msgs, size + (wr - a) + InitBlocks)
    PROVE  /\ RoomStep(c, size, g) \in SbGrowing(b, n, a, wr, s, msgs, size + (wr - a) + InitBlocks)
           /\ \A k \in 0..size - 1 :
                  Len(c.next) > wr - a + k => Len(RoomStep(c, size, g).next) > wr - a + (k + 1)
  <1> DEFINE most == size + (wr - a) + InitBlocks
             d == RoomStep(c, size, g)
  <1>1. PICK l \in Nat \ {0} : \E v : SbGrew(b, n, c, l, v, a, wr, s, msgs, most)
    BY DEF SbGrowing
  <1>2. PICK v : SbGrew(b, n, c, l, v, a, wr, s, msgs, most)
    BY <1>1
  <1>3. /\ SbRing(c, l, v, a, wr, s, wr + 2) /\ SbNumbered(c, l, msgs)
        /\ c.nextMsgNo = b.nextMsgNo /\ n <= l /\ (l = n \/ l <= most)
    BY <1>2 DEF SbGrew
  <1>4. c.count = wr - a /\ c \in SbRecords(l) /\ a <= wr
    BY <1>3 DEF SbRing
  <1>5. Len(c.next) = l
    <2>1. l \in Nat /\ c.next \in [1..l -> 1..l]
      BY <1>4 DEF SbRecords
    <2> QED BY <2>1, ArrayLen
  <1>6. CASE size + c.count >= Len(c.next)
    <2>1. d = Increase(c, g)
      BY <1>6 DEF RoomStep
    <2>2. /\ \E u : SbRing(d, l + InitBlocks, u, a, wr, s, wr + 2)
          /\ SbNumbered(d, l + InitBlocks, msgs)
          /\ d.nextMsgNo = b.nextMsgNo
      <3>1. wr + 2 \in {wr + 1, wr + 2}
        OBVIOUS
      <3> HIDE DEF d
      <3> QED BY <1>3, <2>1, <3>1, IncreaseKeeps
    <2> HIDE DEF d
    <2>3. PICK u : SbRing(d, l + InitBlocks, u, a, wr, s, wr + 2)
      BY <2>2
    <2>4. d \in SbRecords(l + InitBlocks)
      BY <2>3 DEF SbRing
    <2>5. l + InitBlocks \in Nat \ {0} /\ n <= l + InitBlocks /\ l + InitBlocks <= most
      BY <1>3, <1>4, <1>5, <1>6, SbSizes
    <2>6. SbGrew(b, n, d, l + InitBlocks, u, a, wr, s, msgs, most)
      BY <2>2, <2>3, <2>5 DEF SbGrew
    <2>7. d \in SbGrowing(b, n, a, wr, s, msgs, most)
      <3> HIDE DEF most
      <3> QED BY <2>4, <2>5, <2>6 DEF SbGrowing
    <2>8. Len(d.next) = l + InitBlocks
      <3>1. l + InitBlocks \in Nat /\ d.next \in [1..l + InitBlocks -> 1..l + InitBlocks]
        BY <2>4, <2>5 DEF SbRecords
      <3> QED BY <3>1, ArrayLen
    <2>9. \A k \in 0..size - 1 : Len(c.next) > wr - a + k => Len(d.next) > wr - a + (k + 1)
      BY <1>4, <1>5, <2>8, SbSizes
    <2> QED BY <2>7, <2>9 DEF d
  <1>7. CASE ~(size + c.count >= Len(c.next))
    <2>1. d = c
      BY <1>7 DEF RoomStep
    <2>2. \A k \in 0..size - 1 : Len(d.next) > wr - a + (k + 1)
      BY <1>4, <1>5, <1>7, <2>1
    <2> QED BY <2>1, <2>2
  <1> QED BY <1>6, <1>7

LEMMA RoomyKeeps ==
    ASSUME NEW b, NEW n, NEW w, NEW a, NEW wr, NEW s, NEW msgs,
           SbRing(b, n, w, a, wr, s, wr + 1), SbNumbered(b, n, msgs), NEW size \in Nat \ {0},
           NEW g \in Garbage, Garbage \cap 1..MaxMsgNo - 1 = {}, NEW c, c = Roomy(b, size, g)
    PROVE  \E l \in Nat \ {0} : \E v :
               /\ SbGrew(b, n, c, l, v, a, wr, s, msgs, size + (wr - a) + InitBlocks)
               /\ l > size + (wr - a)
  <1> DEFINE S == SbGrowing(b, n, a, wr, s, msgs, size + (wr - a) + InitBlocks)
             step(x) == IF size + x.count >= Len(x.next) THEN Increase(x, g) ELSE x
             Body(f) == [k \in 0..size |-> IF k = 0 THEN b ELSE step(f[k - 1])]
             turns == [k \in 1..size |-> [x \in S |-> RoomStep(x, size, g)]]
             loop == CHOOSE f : f = Body(f)
  <1>1. /\ n \in Nat \ {0} /\ a \in Nat /\ wr \in Nat /\ a <= wr /\ wr < a + n
        /\ b \in SbRecords(n)
    BY DEF SbRing
  <1>2. b \in S
    <2>1. SbRing(b, n, w, a, wr, s, wr + 2)
      <3>1. \A i \in wr + 2..a + n : i \in wr + 1..a + n
        BY <1>1
      <3> QED BY <3>1 DEF SbRing
    <2>2. SbGrew(b, n, b, n, w, a, wr, s, msgs, size + (wr - a) + InitBlocks)
      BY <1>1, <2>1 DEF SbGrew
    <2> QED BY <1>1, <2>2 DEF SbGrowing
  <1> HIDE DEF S
  <1>3. \A x \in S : /\ RoomStep(x, size, g) \in S
                     /\ \A k \in 0..size - 1 :
                            Len(x.next) > wr - a + k => Len(RoomStep(x, size, g).next) > wr - a + (k + 1)
    BY <1>1, RoomTurns DEF S
  <1>4. turns \in [1..size -> [S -> S]] /\ size \in Nat
    BY <1>3
  <1>5. PICK f : f \in Loops(size, S, b, turns)
    <2> HIDE DEF turns
    <2> QED BY <1>2, <1>4, LoopRuns
  <1>6. f = Body(f)
    <2>1. /\ f \in [0..size -> S] /\ f[0] = b
          /\ \A k \in 1..size : f[k] = turns[k][f[k - 1]]
      BY <1>5 DEF Loops
    <2>2. \A k \in 1..size : f[k] = step(f[k - 1])
      <3> TAKE k \in 1..size
      <3>1. f[k - 1] \in S /\ f[k] = turns[k][f[k - 1]]
        BY <2>1
      <3>2. turns[k] = [x \in S |-> RoomStep(x, size, g)]
        OBVIOUS
      <3>3. f[k] = RoomStep(f[k - 1], size, g)
        BY <3>1, <3>2
      <3> QED BY <3>3 DEF RoomStep
    <2>3. \A k \in 0..size : f[k] = IF k = 0 THEN b ELSE step(f[k - 1])
      <3> HIDE DEF step
      <3> QED BY <2>1, <2>2
    <2> HIDE DEF step, turns
    <2> QED BY <2>1, <2>3
  <1>7. loop = Body(loop)
    <2> HIDE DEF Body
    <2> QED BY <1>6, Zenon
  <1>8. c = loop[size]
    BY DEF Roomy
  <1> HIDE DEF loop
  <1>9. loop[0] = b /\ \A k \in 1..size : loop[k] = RoomStep(loop[k - 1], size, g)
    <2>1. \A x : step(x) = RoomStep(x, size, g)
      BY DEF RoomStep
    <2> HIDE DEF step
    <2> QED BY <1>7, <2>1
  <1>10. \A k \in 0..size : loop[k] \in S /\ Len(loop[k].next) > wr - a + k
    <2> DEFINE In == {k \in Nat : k <= size => loop[k] \in S /\ Len(loop[k].next) > wr - a + k}
    <2>1. 0 \in In
      <3>1. Len(b.next) = n
        <4>1. n \in Nat /\ b.next \in [1..n -> 1..n]
          BY <1>1 DEF SbRecords
        <4> QED BY <4>1, ArrayLen
      <3> QED BY <1>1, <1>2, <1>9, <3>1
    <2>2. ASSUME NEW k \in In PROVE k + 1 \in In
      <3> SUFFICES ASSUME k + 1 <= size
                   PROVE  loop[k + 1] \in S /\ Len(loop[k + 1].next) > wr - a + (k + 1)
        OBVIOUS
      <3>1. loop[k] \in S /\ Len(loop[k].next) > wr - a + k /\ k \in 0..size - 1
        OBVIOUS
      <3>2. loop[k + 1] = RoomStep(loop[k], size, g)
        BY <1>9, <3>1
      <3> QED BY <1>3, <3>1, <3>2
    <2>3. In = Nat
      <3> HIDE DEF In
      <3>1. In \in SUBSET Nat
        BY DEF In
      <3> QED BY <2>1, <2>2, <3>1, ByInduction
    <2> QED BY <2>3
  <1>11. c \in S /\ Len(c.next) > size + (wr - a)
    BY <1>1, <1>8, <1>10
  <1>12. PICK l \in Nat \ {0} : \E v : SbGrew(b, n, c, l, v, a, wr, s, msgs, size + (wr - a) + InitBlocks)
    BY <1>11 DEF S, SbGrowing
  <1>13. PICK v : SbGrew(b, n, c, l, v, a, wr, s, msgs, size + (wr - a) + InitBlocks)
    BY <1>12
  <1>14. Len(c.next) = l
    <2>1. l \in Nat /\ c.next \in [1..l -> 1..l]
      BY <1>13 DEF SbGrew, SbRing, SbRecords
    <2> QED BY <2>1, ArrayLen
  <1> QED BY <1>11, <1>13, <1>14

\* c with a message in the size blocks from number wr + 1 on becomes d.
SbFilled(c, d, l, v, a, wr, size) ==
    /\ d \in SbRecords(l) /\ d.next = c.next /\ d.first = c.first /\ d.curr = c.curr
    /\ d.last = v[wr + size + 1] /\ d.count = wr - a + size
    /\ d.nextMsgNo = NextMsgNo(c.nextMsgNo)
    /\ \A i \in a + 1..a + l :
           IF i \in wr + 1..wr + size THEN d.data[v[i]] = i /\ d.msgNo[v[i]] = c.nextMsgNo
           ELSE d.data[v[i]] = c.data[v[i]] /\ d.msgNo[v[i]] = c.msgNo[v[i]]

LEMMA AddFills ==
    ASSUME NEW b, NEW size \in Nat \ {0}, NEW g, NEW c, c = Roomy(b, size, g),
           NEW l, NEW v, NEW a, NEW wr, NEW s, SbRing(c, l, v, a, wr, s, wr + 2), l > size + (wr - a),
           NEW d, d = AddBuffer(b, size, size, wr + 1, g)
    PROVE  SbFilled(c, d, l, v, a, wr, size)
  <1> DEFINE place(i) == Behind(c, c.last, i)
             filled == {place(i) : i \in 0..size - 1}
             at(p) == CHOOSE i \in 0..size - 1 : place(i) = p
             data == [p \in Blocks(c) |-> IF p \in filled THEN wr + 1 + at(p) ELSE c.data[p]]
             msgNo == [p \in Blocks(c) |-> IF p \in filled THEN c.nextMsgNo ELSE c.msgNo[p]]
             z == place(size)
             count == c.count + size
             no == NextMsgNo(c.nextMsgNo)
  <1>1. d = [c EXCEPT !.data = data, !.msgNo = msgNo, !.last = z, !.count = count, !.nextMsgNo = no]
    BY DEF AddBuffer
  <1>2. /\ l \in Nat \ {0} /\ a \in Nat /\ wr \in Nat /\ a <= wr
        /\ c \in SbRecords(l) /\ Circle(c.next, l, v, a)
        /\ c.last = v[wr + 1] /\ c.count = wr - a
    BY DEF SbRing
  <1>3. /\ v \in [a + 1..a + l -> 1..l]
        /\ \A i, j \in a + 1..a + l : v[i] = v[j] => i = j
        /\ \A p \in 1..l : \E i \in a + 1..a + l : v[i] = p
    BY <1>2 DEF Circle
  <1>4. /\ c.next \in [1..l -> 1..l] /\ c.data \in [1..l -> Nat] /\ c.msgNo \in [1..l -> Nat]
        /\ c.first \in 1..l /\ c.curr \in 1..l /\ c.nextMsgNo \in Nat
    BY <1>2 DEF SbRecords
  <1>5. \A i \in 0..size : wr + 1 + i \in a + 1..a + l /\ i \in 0..l
    BY <1>2
  <1>6. ASSUME NEW i \in 0..size PROVE place(i) = v[wr + 1 + i]
    <2>1. wr + 1 \in a + 1..a + l /\ i \in 0..l /\ wr + 1 + i <= a + l
      BY <1>2, <1>5
    <2>2. \A j \in a + 1..a + l : \A k \in Nat : j + k <= a + l => Behind(c, v[j], k) = v[j + k]
      BY <1>2, BehindHere
    <2> QED BY <1>2, <2>1, <2>2
  <1>7. Blocks(c) = 1..l
    BY <1>4 DEF Blocks
  <1>8. ASSUME NEW i \in wr + 1..wr + size PROVE v[i] \in filled /\ at(v[i]) = i - wr - 1
    <2>1. i - wr - 1 \in 0..size - 1 /\ wr + 1 + (i - wr - 1) = i
      BY <1>2
    <2>2. place(i - wr - 1) = v[i]
      BY <1>6, <2>1
    <2>3. \A k \in 0..size - 1 : place(k) = v[i] => k = i - wr - 1
      <3> SUFFICES ASSUME NEW k \in 0..size - 1, place(k) = v[i] PROVE k = i - wr - 1
        OBVIOUS
      <3>1. v[wr + 1 + k] = v[i] /\ wr + 1 + k \in a + 1..a + l /\ i \in a + 1..a + l
        BY <1>2, <1>5, <1>6
      <3>2. wr + 1 + k = i
        BY <1>3, <3>1
      <3> QED BY <1>2, <3>2
    <2> HIDE DEF place
    <2>4. at(v[i]) = i - wr - 1
      BY <2>1, <2>2, <2>3
    <2> QED BY <2>1, <2>2, <2>4
  <1>9. ASSUME NEW i \in a + 1..a + l, i \notin wr + 1..wr + size PROVE v[i] \notin filled
    <2> SUFFICES ASSUME NEW k \in 0..size - 1, place(k) = v[i] PROVE FALSE
      OBVIOUS
    <2>1. v[wr + 1 + k] = v[i] /\ wr + 1 + k \in a + 1..a + l
      BY <1>5, <1>6
    <2>2. wr + 1 + k = i
      BY <1>3, <2>1
    <2> QED BY <1>2, <1>9, <2>2
  <1>10. z = v[wr + size + 1] /\ z \in 1..l
    <2>1. wr + 1 + size = wr + size + 1 /\ size \in 0..size
      BY <1>2
    <2> QED BY <1>3, <1>5, <1>6, <2>1
  <1> HIDE DEF place, filled, at
  <1>11. \A i \in a + 1..a + l :
             IF i \in wr + 1..wr + size THEN data[v[i]] = i /\ msgNo[v[i]] = c.nextMsgNo
             ELSE data[v[i]] = c.data[v[i]] /\ msgNo[v[i]] = c.msgNo[v[i]]
    <2> TAKE i \in a + 1..a + l
    <2>1. v[i] \in Blocks(c)
      BY <1>3, <1>7
    <2>2. CASE i \in wr + 1..wr + size
      <3>1. v[i] \in filled /\ wr + 1 + at(v[i]) = i
        BY <1>2, <1>8, <2>2
      <3> QED BY <2>1, <2>2, <3>1
    <2>3. CASE i \notin wr + 1..wr + size
      BY <1>9, <2>1, <2>3
    <2> QED BY <2>2, <2>3
  <1>12. data \in [1..l -> Nat] /\ msgNo \in [1..l -> Nat]
    <2>1. ASSUME NEW p \in 1..l PROVE data[p] \in Nat /\ msgNo[p] \in Nat
      <3>1. PICK i \in a + 1..a + l : v[i] = p
        BY <1>3
      <3>2. i \in Nat /\ v[i] \in 1..l
        BY <1>2, <3>1
      <3> HIDE DEF data, msgNo
      <3>3. CASE i \in wr + 1..wr + size
        BY <1>4, <1>11, <3>1, <3>2, <3>3
      <3>4. CASE i \notin wr + 1..wr + size
        BY <1>4, <1>11, <3>1, <3>2, <3>4
      <3> QED BY <3>3, <3>4
    <2>2. data = [p \in 1..l |-> data[p]] /\ msgNo = [p \in 1..l |-> msgNo[p]]
      BY <1>7
    <2> HIDE DEF data, msgNo
    <2> QED BY <2>1, <2>2
  <1>13. count \in Nat /\ count = wr - a + size
    BY <1>2
  <1>14. no \in Nat
    <2>1. c.nextMsgNo + 1 \in Nat
      BY <1>4
    <2> QED BY <2>1 DEF NextMsgNo
  <1> HIDE DEF data, msgNo, z, count, no
  <1>15. d = [next |-> c.next, data |-> data, msgNo |-> msgNo, first |-> c.first, curr |-> c.curr,
              last |-> z, count |-> count, nextMsgNo |-> no]
    BY <1>1, <1>2 DEF SbRecords
  <1>16. /\ d.next = c.next /\ d.first = c.first /\ d.curr = c.curr /\ d.data = data
         /\ d.msgNo = msgNo /\ d.last = z /\ d.count = count /\ d.nextMsgNo = no
    BY <1>15
  <1>17. d \in SbRecords(l)
    <2>1. [next |-> c.next, data |-> data, msgNo |-> msgNo, first |-> c.first, curr |-> c.curr,
           last |-> z, count |-> count, nextMsgNo |-> no] \in SbRecords(l)
      BY <1>4, <1>10, <1>12, <1>13, <1>14, RecordIn
    <2> QED BY <1>15, <2>1
  <1> QED BY <1>10, <1>11, <1>13, <1>16, <1>17 DEF SbFilled, no

LEMMA FilledKeeps ==
    ASSUME NEW c, NEW d, NEW l, NEW v, NEW a, NEW wr, NEW s, NEW size \in Nat \ {0}, NEW msgs, NEW more,
           SbRing(c, l, v, a, wr, s, wr + 2), SbNumbered(c, l, msgs), l > size + (wr - a),
           SbFilled(c, d, l, v, a, wr, size), c.nextMsgNo = Nth(Len(msgs) + 1), MoreMsgs(msgs, more, wr, size)
    PROVE  /\ SbRing(d, l, v, a, wr + size, s, wr + size + 1) /\ SbNumbered(d, l, more)
           /\ d.nextMsgNo = Nth(Len(more) + 1)
  <1>1. /\ l \in Nat \ {0} /\ a \in Nat /\ wr \in Nat /\ s \in Nat
        /\ a <= s /\ s <= wr /\ wr < a + l
        /\ Circle(c.next, l, v, a)
        /\ c.first = v[a + 1] /\ c.curr = v[s + 1] /\ c.last = v[wr + 1]
        /\ \A i \in a + 1..wr : c.data[v[i]] = i
        /\ \A i \in wr + 2..a + l : c.data[v[i]] \in {0, i - l}
    BY DEF SbRing
  <1>2. /\ d \in SbRecords(l) /\ d.next = c.next /\ d.first = c.first /\ d.curr = c.curr
        /\ d.last = v[wr + size + 1] /\ d.count = wr - a + size
        /\ d.nextMsgNo = NextMsgNo(c.nextMsgNo)
        /\ \A i \in a + 1..a + l :
               IF i \in wr + 1..wr + size THEN d.data[v[i]] = i /\ d.msgNo[v[i]] = c.nextMsgNo
               ELSE d.data[v[i]] = c.data[v[i]] /\ d.msgNo[v[i]] = c.msgNo[v[i]]
    BY DEF SbFilled
  <1>3. /\ Len(msgs) \in Nat /\ Len(msgs) + 1 \in DOMAIN more /\ Len(more) = Len(msgs) + 1
        /\ \A i \in DOMAIN msgs : i \in DOMAIN more /\ more[i] = msgs[i]
    BY DEF MoreMsgs
  <1>9. more[Len(msgs) + 1].first = wr + 1 /\ more[Len(msgs) + 1].last = wr + size
    BY DEF MoreMsgs
  <1>4. d.nextMsgNo = Nth(Len(more) + 1)
    <2>1. Len(msgs) + 1 \in Nat \ {0} /\ Len(more) + 1 = Len(msgs) + 1 + 1
      BY <1>3
    <2> QED BY <1>2, <2>1, NthNext
  <1>5. ASSUME NEW i \in a + 1..wr + size PROVE d.data[v[i]] = i
    <2>1. i \in a + 1..a + l
      BY <1>1
    <2>2. CASE i <= wr
      <3>1. i \notin wr + 1..wr + size /\ i \in a + 1..wr
        BY <1>1, <2>2
      <3> QED BY <1>1, <1>2, <2>1, <3>1
    <2>3. CASE i > wr
      <3>1. i \in wr + 1..wr + size
        BY <1>1, <2>3
      <3> QED BY <1>2, <2>1, <3>1
    <2>4. i <= wr \/ i > wr
      BY <1>1
    <2> QED BY <2>2, <2>3, <2>4, Zenon
  <1>6. ASSUME NEW i \in wr + size + 1..a + l PROVE d.data[v[i]] \in {0, i - l}
    <2>1. i \in a + 1..a + l /\ i \notin wr + 1..wr + size
      BY <1>1
    <2>2. i \in wr + 2..a + l
      BY <1>1
    <2>3. d.data[v[i]] = c.data[v[i]]
      BY <1>2, <2>1
    <2> QED BY <1>1, <2>2, <2>3
  <1>7. SbRing(d, l, v, a, wr + size, s, wr + size + 1)
    <2>1. wr + size \in Nat /\ s <= wr + size /\ wr + size < a + l /\ wr - a + size = wr + size - a
      BY SMTT(30), <1>1
    <2> QED BY <1>1, <1>2, <1>5, <1>6, <2>1 DEF SbRing
  <1>8. SbNumbered(d, l, more)
    <2> SUFFICES ASSUME NEW p \in 1..l
                 PROVE  /\ d.data[p] = 0 => d.msgNo[p] \notin 1..MaxMsgNo - 1
                        /\ d.data[p] # 0 => \E k \in DOMAIN more :
                               d.data[p] \in more[k].first..more[k].last /\ d.msgNo[p] = Nth(k)
      BY DEF SbNumbered
    <2>1. PICK i \in a + 1..a + l : v[i] = p
      BY <1>1 DEF Circle
    <2>2. CASE i \in wr + 1..wr + size
      <3>1. d.data[p] = i /\ d.msgNo[p] = Nth(Len(msgs) + 1) /\ i # 0
        BY <1>1, <1>2, <2>1, <2>2
      <3>2. i \in more[Len(msgs) + 1].first..more[Len(msgs) + 1].last
        BY <1>9, <2>2
      <3> QED BY <1>3, <3>1, <3>2
    <2>3. CASE i \notin wr + 1..wr + size
      <3>1. d.data[p] = c.data[p] /\ d.msgNo[p] = c.msgNo[p]
        BY <1>2, <2>1, <2>3
      <3>2. /\ c.data[p] = 0 => c.msgNo[p] \notin 1..MaxMsgNo - 1
            /\ c.data[p] # 0 => \E k \in DOMAIN msgs :
                   c.data[p] \in msgs[k].first..msgs[k].last /\ c.msgNo[p] = Nth(k)
        BY DEF SbNumbered
      <3>3. ASSUME c.data[p] # 0
            PROVE  \E k \in DOMAIN more : c.data[p] \in more[k].first..more[k].last /\ c.msgNo[p] = Nth(k)
        <4>1. PICK k \in DOMAIN msgs : c.data[p] \in msgs[k].first..msgs[k].last /\ c.msgNo[p] = Nth(k)
          BY <3>2, <3>3
        <4>2. k \in DOMAIN more /\ more[k] = msgs[k]
          BY <1>3
        <4> QED BY <4>1, <4>2
      <3> QED BY <3>1, <3>2, <3>3
    <2> QED BY <2>2, <2>3
  <1> QED BY <1>4, <1>7, <1>8

\* A message written keeps the buffer sound.
SbAdded(d, more, n, l, v, a, wr, s, size) ==
    /\ SbRing(d, l, v, a, wr + size, s, wr + size + 1) /\ SbNumbered(d, l, more)
    /\ SbMsgs(more, wr + size, l) /\ d.nextMsgNo = Nth(Len(more) + 1)
    /\ (l = n \/ l <= size + (wr - a) + InitBlocks)

LEMMA AddKeeps ==
    ASSUME NEW b, NEW n, NEW w, NEW a, NEW wr, NEW s, NEW msgs,
           SbRing(b, n, w, a, wr, s, wr + 1), SbNumbered(b, n, msgs), SbMsgs(msgs, wr, n),
           b.nextMsgNo = Nth(Len(msgs) + 1), NEW size \in Nat \ {0},
           NEW g \in Garbage, Garbage \cap 1..MaxMsgNo - 1 = {},
           NEW d, d = AddBuffer(b, size, size, wr + 1, g),
           NEW more, more = WithMessage(msgs, wr, size)
    PROVE  \E l \in Nat \ {0} : \E v : SbAdded(d, more, n, l, v, a, wr, s, size)
  <1> DEFINE c == Roomy(b, size, g)
  <1>0. n \in Nat /\ wr \in Nat /\ a \in Nat /\ a <= wr
    BY DEF SbRing
  <1>1. PICK l \in Nat \ {0} : \E v : SbGrew(b, n, c, l, v, a, wr, s, msgs, size + (wr - a) + InitBlocks)
                                     /\ l > size + (wr - a)
    <2>1. \E x : x = c
      OBVIOUS
    <2> QED BY RoomyKeeps
  <1>2. PICK v : SbGrew(b, n, c, l, v, a, wr, s, msgs, size + (wr - a) + InitBlocks) /\ l > size + (wr - a)
    BY <1>1
  <1>3. /\ SbRing(c, l, v, a, wr, s, wr + 2) /\ SbNumbered(c, l, msgs)
        /\ c.nextMsgNo = b.nextMsgNo /\ n <= l /\ (l = n \/ l <= size + (wr - a) + InitBlocks)
    BY <1>2 DEF SbGrew
  <1>4. SbFilled(c, d, l, v, a, wr, size)
    BY <1>2, <1>3, AddFills
  <1>5. SbMsgs(more, wr + size, l) /\ MoreMsgs(msgs, more, wr, size)
    <2>1. size < l /\ l \in Nat
      BY <1>0, <1>2
    <2> QED BY <1>0, <1>3, <2>1, MsgAdded
  <1> HIDE DEF c
  <1>7. /\ SbRing(d, l, v, a, wr + size, s, wr + size + 1) /\ SbNumbered(d, l, more)
        /\ d.nextMsgNo = Nth(Len(more) + 1)
    BY <1>2, <1>3, <1>4, <1>5, FilledKeeps
  <1> QED BY <1>3, <1>5, <1>7 DEF SbAdded

LEMMA MsgParts ==
    ASSUME NEW msgs \in Seq(SbMessages)
    PROVE  \A i \in DOMAIN msgs : i \in Nat \ {0} /\ msgs[i].first \in Nat /\ msgs[i].last \in Nat
  <1> TAKE i \in DOMAIN msgs
  <1>1. msgs[i] \in SbMessages /\ i \in Nat \ {0}
    OBVIOUS
  <1> QED BY <1>1 DEF SbMessages

\* A block is in one message.
LEMMA OneMessage ==
    ASSUME NEW msgs, NEW wr, NEW n, SbMsgs(msgs, wr, n), NEW i \in DOMAIN msgs, NEW j \in DOMAIN msgs,
           NEW k \in Nat, k \in msgs[i].first..msgs[i].last, k \in msgs[j].first..msgs[j].last
    PROVE  i = j
  <1>1. /\ i \in Nat /\ j \in Nat
        /\ {msgs[i].first, msgs[i].last, msgs[j].first, msgs[j].last} \subseteq Nat
    <2>1. msgs \in Seq(SbMessages)
      BY DEF SbMsgs
    <2> QED BY <2>1, MsgParts
  <1>2. /\ i < j => msgs[j].first - msgs[i].last >= j - i
        /\ j < i => msgs[i].first - msgs[j].last >= i - j
    BY DEF SbMsgs
  <1>3. ~(i < j)
    BY <1>1, <1>2
  <1>4. ~(j < i)
    BY <1>1, <1>2
  <1> QED BY <1>1, <1>3, <1>4

\* The blocks that are expired with block m are the rest of its message.
LEMMA ExpiredIs ==
    ASSUME MaxMsgNo >= 2 * SndLimit + InitBlocks,
           NEW b, NEW n, NEW w, NEW a, NEW wr, NEW s, NEW msgs,
           SbRing(b, n, w, a, wr, s, wr + 1), SbNumbered(b, n, msgs), SbMsgs(msgs, wr, n),
           n <= 2 * SndLimit - 1 + InitBlocks,
           NEW offset \in Nat, a + 1 + offset <= s,
           NEW i \in DOMAIN msgs, a + 1 + offset \in msgs[i].first..msgs[i].last
    PROVE  /\ ExpiredEnd(b, offset) = msgs[i].last - (a + 1 + offset) + 1
           /\ Behind(b, b.first, offset) = w[a + 1 + offset]
           /\ msgs[i].last \in a + 1 + offset..wr
  <1> DEFINE m == a + 1 + offset
             end == msgs[i].last
             L == end - m + 1
             p == Behind(b, b.first, offset)
             follows(k) == b.msgNo[Behind(b, p, k)] = b.msgNo[p]
  <1>1. /\ n \in Nat \ {0} /\ a \in Nat /\ wr \in Nat /\ s \in Nat
        /\ a <= s /\ s <= wr /\ wr < a + n
        /\ b \in SbRecords(n) /\ Circle(b.next, n, w, a)
        /\ b.first = w[a + 1]
        /\ \A j \in a + 1..wr : b.data[w[j]] = j
        /\ \A j \in wr + 1..a + n : b.data[w[j]] \in {0, j - n}
    BY DEF SbRing
  <1>2. /\ msgs \in Seq(SbMessages)
        /\ 1 <= msgs[i].first /\ msgs[i].first <= msgs[i].last
        /\ msgs[i].last <= wr /\ msgs[i].last - msgs[i].first + 1 < n
        /\ \A k \in DOMAIN msgs : /\ k < i => msgs[i].first - msgs[k].last >= i - k
                                  /\ i < k => msgs[k].first - msgs[i].last >= k - i
    BY DEF SbMsgs
  <1>3. \A k \in DOMAIN msgs : k \in Nat \ {0} /\ msgs[k].first \in Nat /\ msgs[k].last \in Nat
    BY <1>2, MsgParts
  <1>4. w \in [a + 1..a + n -> 1..n]
    BY <1>1 DEF Circle
  <1>5. end \in Nat /\ m \in Nat \ {0} /\ m <= end /\ end <= wr /\ L \in 1..n - 1
    <2>1. end \in Nat /\ m \in Nat \ {0} /\ end <= wr
      BY <1>1, <1>2, <1>3
    <2>2. m <= end
      BY <1>3
    <2> QED BY <1>1, <2>1, <2>2
  <1>18. \A j \in a + 1..a + n : \A k \in Nat : j + k <= a + n => Behind(b, w[j], k) = w[j + k]
    BY <1>1, BehindHere
  <1>6. p = w[m]
    <2>1. a + 1 \in a + 1..a + n /\ a + 1 + offset <= a + n
      BY <1>1
    <2> QED BY <1>1, <1>18, <2>1
  <1>7. \A k \in 0..L : Behind(b, p, k) = w[m + k] /\ m + k \in a + 1..a + n
    <2> TAKE k \in 0..L
    <2>1. m \in a + 1..a + n /\ k \in Nat /\ m + k <= a + n /\ m + k \in a + 1..a + n
      BY <1>1, <1>5
    <2> HIDE DEF m, p, L, end
    <2> QED BY <1>6, <1>18, <2>1
  <1>8. \A k \in m..end : b.msgNo[w[k]] = Nth(i)
    <2> TAKE k \in m..end
    <2>1. k \in a + 1..wr /\ k \in a + 1..a + n /\ k # 0 /\ k \in Nat
      BY <1>1, <1>5
    <2>2. b.data[w[k]] = k /\ w[k] \in 1..n
      BY <1>1, <1>4, <2>1
    <2>3. PICK j \in DOMAIN msgs : k \in msgs[j].first..msgs[j].last /\ b.msgNo[w[k]] = Nth(j)
      BY <2>1, <2>2 DEF SbNumbered
    <2>4. k \in msgs[i].first..msgs[i].last
      BY <1>3, <1>5
    <2>5. i = j
      BY <2>1, <2>3, <2>4, OneMessage
    <2> QED BY <2>3, <2>5
  <1>9. b.msgNo[w[end + 1]] # Nth(i)
    <2>0. end + 1 \in a + 1..a + n /\ w[end + 1] \in 1..n
      <3>1. end + 1 \in a + 1..a + n
        BY <1>1, <1>5
      <3> HIDE DEF end
      <3> QED BY <1>4, <3>1
    <2>1. CASE end < wr
      <3>1. b.data[w[end + 1]] = end + 1 /\ end + 1 # 0
        <4>1. end + 1 \in a + 1..wr
          BY <1>1, <1>5, <2>1
        <4> QED BY <1>1, <1>5, <4>1
      <3>2. PICK j \in DOMAIN msgs : /\ end + 1 \in msgs[j].first..msgs[j].last
                                     /\ b.msgNo[w[end + 1]] = Nth(j)
        BY <2>0, <3>1 DEF SbNumbered
      <3>3. i < j /\ j - i <= 1
        <4>1. /\ j < i => msgs[i].first - msgs[j].last >= i - j
              /\ i < j => msgs[j].first - end >= j - i
          BY <1>2
        <4>2. {i, j, msgs[i].first, end, msgs[j].first, msgs[j].last} \subseteq Nat /\ msgs[i].first <= end
          BY <1>2, <1>3
        <4>3. msgs[j].first <= end + 1 /\ end + 1 <= msgs[j].last
          BY <3>2, <4>2
        <4> HIDE DEF end
        <4>4. ~(j < i)
          BY <4>1, <4>2, <4>3
        <4>5. i # j
          BY <4>2, <4>3 DEF end
        <4>6. i < j
          BY <4>2, <4>4, <4>5
        <4> QED BY <4>1, <4>2, <4>3, <4>6
      <3>4. 1 < MaxMsgNo - 1
        BY SbSizes
      <3>5. Nth(i) # Nth(j)
        <4>1. i \in Nat \ {0} /\ j \in Nat \ {0} /\ j - i < MaxMsgNo - 1
          BY <1>3, <3>3, <3>4, SbSizes
        <4> QED BY <3>3, <4>1, NthApart
      <3> QED BY <3>2, <3>5
    <2>2. CASE end = wr
      <3>1. b.data[w[end + 1]] \in {0, end + 1 - n}
        BY <1>1, <2>0, <2>2
      <3>2. CASE b.data[w[end + 1]] = 0
        <4>1. b.msgNo[w[end + 1]] \notin 1..MaxMsgNo - 1
          BY <2>0, <3>2 DEF SbNumbered
        <4> QED BY <1>3, <4>1, NthNext
      <3>3. CASE b.data[w[end + 1]] # 0
        <4>1. PICK j \in DOMAIN msgs : /\ end + 1 - n \in msgs[j].first..msgs[j].last
                                       /\ b.msgNo[w[end + 1]] = Nth(j)
          BY <2>0, <3>1, <3>3 DEF SbNumbered
        <4>2. /\ {i, j, n, wr, a, m, end, msgs[i].first, msgs[j].first, msgs[j].last} \subseteq Nat
              /\ msgs[i].first <= m /\ m <= end /\ end - msgs[i].first + 1 < n
          BY <1>1, <1>2, <1>3, <1>5
        <4>3. /\ j < i => msgs[i].first - msgs[j].last >= i - j
              /\ i < j => msgs[j].first - end >= j - i
          BY <1>2
        <4>4. msgs[j].first <= end + 1 - n /\ end + 1 - n <= msgs[j].last
          BY <1>1, <1>5, <4>1, <4>2
        <4>7. i # j
          BY <4>2, <4>4
        <4> HIDE DEF end, m
        <4>8. ~(i < j)
          BY <1>1, <4>2, <4>3, <4>4
        <4>9. j < i
          BY <4>2, <4>7, <4>8
        <4>10. i - j <= n - 1
          BY <4>2, <4>3, <4>4, <4>9
        <4>5. i - j < MaxMsgNo - 1
          BY <4>2, <4>10, SbSizes
        <4>6. Nth(j) # Nth(i)
          BY <1>3, <4>5, <4>9, NthApart
        <4> QED BY <4>1, <4>6
      <3> QED BY <3>2, <3>3
    <2> QED BY <1>1, <1>5, <2>1, <2>2
  <1>10. \A j \in 1..L - 1 : follows(j)
    <2> TAKE j \in 1..L - 1
    <2>1. j \in 0..L /\ m + j \in m..end /\ m \in m..end
      BY <1>5
    <2>2. Behind(b, p, j) = w[m + j]
      BY <1>7, <2>1
    <2> HIDE DEF p, L, m, end
    <2> QED BY <1>6, <1>8, <2>1, <2>2
  <1>11. ~follows(L)
    <2>1. L \in 0..L /\ m + L = end + 1 /\ m \in m..end
      BY <1>5
    <2>2. Behind(b, p, L) = w[end + 1]
      BY <1>7, <2>1
    <2> HIDE DEF p, L, m, end
    <2> QED BY <1>6, <1>8, <1>9, <2>1, <2>2
  <1>12. Len(b.next) = n
    <2>1. n \in Nat /\ b.next \in [1..n -> 1..n]
      BY <1>1 DEF SbRecords
    <2> QED BY <2>1, ArrayLen
  <1> DEFINE EndsAt(k) == /\ k = Len(b.next) \/ ~follows(k)
                        /\ \A j \in 1..k - 1 : follows(j)
  <1>13. ExpiredEnd(b, offset) = CHOOSE k \in 1..Len(b.next) : EndsAt(k)
    BY DEF ExpiredEnd
  <1> HIDE DEF follows
  <1>14. L \in 1..Len(b.next) /\ EndsAt(L)
    BY <1>1, <1>5, <1>10, <1>11, <1>12
  <1>15. ASSUME NEW k \in 1..Len(b.next), EndsAt(k) PROVE k = L
    <2>1. k < L => k # n /\ k \in 1..L - 1
      BY <1>1, <1>5, <1>12
    <2>2. k > L => L \in 1..k - 1
      BY <1>1, <1>5, <1>12
    <2> HIDE DEF L
    <2>3. ~(k < L)
      BY <1>10, <1>12, <1>15, <2>1
    <2>4. ~(k > L)
      BY <1>11, <1>15, <2>2
    <2> QED BY <1>1, <1>5, <1>12, <2>3, <2>4
  <1>16. ExpiredEnd(b, offset) = L
    <2> HIDE DEF EndsAt, L
    <2> QED BY <1>13, <1>14, <1>15
  <1> QED BY <1>5, <1>6, <1>16

\* What holds of the send buffer throughout.
SbSound(n, w) ==
    /\ SbRing(sb, n, w, sbAcked, Written, sbSent, Written + 1)
    /\ SbNumbered(sb, n, sbMsgs) /\ SbMsgs(sbMsgs, Written, n)
    /\ sb.nextMsgNo = Nth(Len(sbMsgs) + 1) /\ n <= 2 * SndLimit - 1 + InitBlocks
SndBufferInv == (\E n \in Nat \ {0} : \E w : SbSound(n, w)) /\ ExpiredNamed

LEMMA SndBufferStart ==
    ASSUME Garbage \cap 1..MaxMsgNo - 1 = {}, SndBufferInit PROVE SndBufferInv
  <1> DEFINE n == InitBlocks
             w == [i \in 1..n |-> i]
             next == [p \in 1..n |-> IF p = n THEN 1 ELSE p + 1]
             data == [p \in 1..n |-> 0]
  <1>1. PICK g \in Garbage : sb = SndBufferEmpty(g)
    BY DEF SndBufferInit
  <1> DEFINE msgNo == [p \in 1..n |-> IF p = n THEN g ELSE 0]
  <1>2. n \in Nat \ {0} /\ g \in Nat /\ g \notin 1..MaxMsgNo - 1 /\ n <= 2 * SndLimit - 1 + InitBlocks
        /\ FirstMsgNo \in Nat
    BY SndBufferAssumption, SbSizes
  <1>3. sb = [next |-> next, data |-> data, msgNo |-> msgNo, first |-> 1, curr |-> 1, last |-> 1,
              count |-> 0, nextMsgNo |-> FirstMsgNo]
    BY <1>1 DEF SndBufferEmpty
  <1>4. sbMsgs = <<>> /\ Written = 0 /\ sbSent = 0 /\ sbAcked = 0 /\ ExpiredNamed
    BY DEF SndBufferInit, Written, ExpiredNamed
  <1>5. next \in [1..n -> 1..n] /\ data \in [1..n -> Nat] /\ msgNo \in [1..n -> Nat] /\ 1 \in 1..n
    BY <1>2
  <1>6. Circle(next, n, w, 0)
    <2>1. 0 + 1..0 + n = 1..n /\ 0 + 1 = 1 /\ 0 + n = n
      BY <1>2
    <2>2. w \in [1..n -> 1..n]
      OBVIOUS
    <2>3. \A i \in 1..n : next[w[i]] = IF i = n THEN w[1] ELSE w[i + 1]
      BY <1>2
    <2> QED BY <2>1, <2>2, <2>3 DEF Circle
  <1>7. sb \in SbRecords(n)
    <2> HIDE DEF next, data, msgNo, n
    <2> QED BY <1>2, <1>3, <1>5 DEF SbRecords
  <1>8. /\ sb.next = next /\ sb.data = data /\ sb.msgNo = msgNo /\ sb.first = 1 /\ sb.curr = 1
        /\ sb.last = 1 /\ sb.count = 0 /\ sb.nextMsgNo = FirstMsgNo
    <2> HIDE DEF next, data, msgNo
    <2> QED BY <1>3
  <1>9. SbRing(sb, n, w, 0, 0, 0, 1)
    <2>1. /\ w[0 + 1] = 1 /\ \A i \in 1..0 + n : w[i] = i /\ i \in 1..n
      BY <1>2
    <2>2. \A i \in 1..n : data[i] = 0
      OBVIOUS
    <2> HIDE DEF next, data, w, n
    <2> QED BY <1>2, <1>6, <1>7, <1>8, <2>1, <2>2 DEF SbRing
  <1>10. SbNumbered(sb, n, <<>>)
    <2> SUFFICES ASSUME NEW p \in 1..n PROVE sb.data[p] = 0 /\ sb.msgNo[p] \notin 1..MaxMsgNo - 1
      BY DEF SbNumbered
    <2>1. data[p] = 0 /\ msgNo[p] \in {0, g}
      OBVIOUS
    <2> HIDE DEF data, msgNo
    <2> QED BY <1>2, <1>8, <2>1
  <1>11. SbMsgs(<<>>, 0, n)
    BY <1>2 DEF SbMsgs
  <1>12. Nth(Len(<<>>) + 1) = FirstMsgNo
    <2>1. Len(<<>>) + 1 = 1 /\ 1 \in Nat \ {0}
      OBVIOUS
    <2> QED BY <2>1, NthNext
  <1>13. SbSound(n, w)
    <2>1. 0 + 1 = 1
      OBVIOUS
    <2> HIDE DEF n, w
    <2> QED BY <1>2, <1>4, <1>8, <1>9, <1>10, <1>11, <1>12, <2>1 DEF SbSound, n
  <1> QED BY <1>2, <1>4, <1>13 DEF SndBufferInv

LEMMA WrittenGrows ==
    ASSUME NEW size \in Nat \ {0}, NEW n, SbMsgs(sbMsgs, Written, n), Written \in Nat,
           sbMsgs' = Append(sbMsgs, [first |-> Written + 1, last |-> Written + size])
    PROVE  Written' = Written + size
  <1> DEFINE e == [first |-> Written + 1, last |-> Written + size]
  <1>1. sbMsgs \in Seq(SbMessages) /\ e \in SbMessages /\ e.last = Written + size
    BY DEF SbMsgs, SbMessages
  <1> HIDE DEF e
  <1>2. sbMsgs' # <<>> /\ sbMsgs'[Len(sbMsgs')] = e
    <2>1. sbMsgs' = Append(sbMsgs, e)
      BY DEF e
    <2> QED BY <1>1, <2>1
  <1> QED BY <1>1, <1>2 DEF Written

LEMMA SbSendKeeps ==
    ASSUME Garbage \cap 1..MaxMsgNo - 1 = {}, SndBufferInv, NEW size \in Nat \ {0},
           size + sb.count <= 2 * SndLimit - 1,
           \E g \in Garbage : sb' = AddBuffer(sb, size, size, Written + 1, g),
           sbMsgs' = Append(sbMsgs, [first |-> Written + 1, last |-> Written + size]),
           UNCHANGED <<sbSent, sbAcked, sbNamed>>
    PROVE  SndBufferInv'
  <1>1. PICK n \in Nat \ {0} : \E w : SbSound(n, w)
    BY DEF SndBufferInv
  <1>2. PICK w : SbSound(n, w)
    BY <1>1
  <1>3. PICK g \in Garbage : sb' = AddBuffer(sb, size, size, Written + 1, g)
    OBVIOUS
  <1>4. /\ SbRing(sb, n, w, sbAcked, Written, sbSent, Written + 1)
        /\ SbNumbered(sb, n, sbMsgs) /\ SbMsgs(sbMsgs, Written, n)
        /\ sb.nextMsgNo = Nth(Len(sbMsgs) + 1) /\ n <= 2 * SndLimit - 1 + InitBlocks
    BY <1>2 DEF SbSound
  <1>5. PICK l \in Nat \ {0} : \E v :
            SbAdded(sb', sbMsgs', n, l, v, sbAcked, Written, sbSent, size)
    <2>1. sbMsgs' = WithMessage(sbMsgs, Written, size)
      BY DEF WithMessage
    <2> QED BY <1>3, <1>4, <2>1, AddKeeps
  <1>12. PICK v : SbAdded(sb', sbMsgs', n, l, v, sbAcked, Written, sbSent, size)
    BY <1>5
  <1>6. /\ SbRing(sb', l, v, sbAcked, Written + size, sbSent, Written + size + 1)
        /\ SbNumbered(sb', l, sbMsgs')
        /\ SbMsgs(sbMsgs', Written + size, l) /\ sb'.nextMsgNo = Nth(Len(sbMsgs') + 1)
        /\ (l = n \/ l <= size + (Written - sbAcked) + InitBlocks)
    BY <1>12 DEF SbAdded
  <1>7. sb.count = Written - sbAcked /\ Written \in Nat /\ sbAcked \in Nat
    BY <1>4 DEF SbRing
  <1>8. Written' = Written + size
    BY <1>4, <1>7, WrittenGrows
  <1>9. l <= 2 * SndLimit - 1 + InitBlocks
    BY <1>4, <1>6, <1>7, SbSizes
  <1>10. SbSound(l, v)'
    BY <1>6, <1>8, <1>9 DEF SbSound
  <1>11. ExpiredNamed'
    BY DEF SndBufferInv, ExpiredNamed
  <1> QED BY <1>10, <1>11 DEF SndBufferInv

LEMMA SbPackKeeps == ASSUME SndBufferInv, SbPack PROVE SndBufferInv'
  <1>1. PICK n \in Nat \ {0} : \E w : SbSound(n, w)
    BY DEF SndBufferInv
  <1>2. PICK w : SbSound(n, w)
    BY <1>1
  <1> DEFINE a == sbAcked
             wr == Written
             s == sbSent
  <1>3. /\ SbRing(sb, n, w, a, wr, s, wr + 1)
        /\ SbNumbered(sb, n, sbMsgs) /\ SbMsgs(sbMsgs, wr, n)
        /\ sb.nextMsgNo = Nth(Len(sbMsgs) + 1) /\ n <= 2 * SndLimit - 1 + InitBlocks
    BY <1>2 DEF SbSound
  <1>4. /\ a \in Nat /\ wr \in Nat /\ s \in Nat /\ a <= s /\ s <= wr /\ wr < a + n
        /\ sb \in SbRecords(n) /\ Circle(sb.next, n, w, a)
        /\ sb.first = w[a + 1] /\ sb.curr = w[s + 1] /\ sb.last = w[wr + 1] /\ sb.count = wr - a
        /\ \A i \in a + 1..wr : sb.data[w[i]] = i
        /\ \A i \in wr + 1..a + n : sb.data[w[i]] \in {0, i - n}
    BY <1>3 DEF SbRing
  <1>5. /\ sb.curr # sb.last /\ sb' = [sb EXCEPT !.curr = sb.next[sb.curr]] /\ sbSent' = sb.data[sb.curr]
        /\ sbMsgs' = sbMsgs /\ sbAcked' = sbAcked /\ sbNamed' = sbNamed /\ Written' = Written
    BY DEF SbPack, ReadNext, Written
  <1>6. s < wr
    BY <1>4, <1>5
  <1>7. sbSent' = s + 1
    <2>1. s + 1 \in a + 1..wr
      BY <1>4, <1>6
    <2> QED BY <1>4, <1>5, <2>1
  <1>8. sb.next[sb.curr] = w[s + 2] /\ w[s + 2] \in 1..n
    <2>1. s + 1 \in a + 1..a + n /\ s + 2 \in a + 1..a + n /\ s + 1 # a + n /\ s + 1 + 1 = s + 2
      BY <1>4, <1>6
    <2> QED BY <1>4, <2>1 DEF Circle
  <1>14. ExpiredNamed
    BY DEF SndBufferInv
  <1>9. /\ sb' \in SbRecords(n) /\ sb'.next = sb.next /\ sb'.data = sb.data /\ sb'.msgNo = sb.msgNo
        /\ sb'.first = sb.first /\ sb'.curr = w[s + 2] /\ sb'.last = sb.last /\ sb'.count = sb.count
        /\ sb'.nextMsgNo = sb.nextMsgNo
    BY <1>4, <1>5, <1>8 DEF SbRecords
  <1>10. SbRing(sb', n, w, a, wr, s + 1, wr + 1)
    <2>1. s + 1 \in Nat /\ a <= s + 1 /\ s + 1 <= wr /\ s + 1 + 1 = s + 2
      BY <1>4, <1>6
    <2> QED BY <1>4, <1>9, <2>1 DEF SbRing
  <1>11. SbNumbered(sb', n, sbMsgs)
    BY <1>3, <1>9 DEF SbNumbered
  <1>12. SbSound(n, w)'
    BY <1>3, <1>5, <1>7, <1>9, <1>10, <1>11 DEF SbSound
  <1>13. ExpiredNamed'
    BY <1>5, <1>14 DEF ExpiredNamed
  <1> QED BY <1>12, <1>13 DEF SndBufferInv

LEMMA SbAckKeeps == ASSUME SndBufferInv, NEW offset \in Nat, SbAck(offset) PROVE SndBufferInv'
  <1>1. PICK n \in Nat \ {0} : \E w : SbSound(n, w)
    BY DEF SndBufferInv
  <1>2. PICK w : SbSound(n, w)
    BY <1>1
  <1> DEFINE a == sbAcked
             wr == Written
             s == sbSent
  <1>15. PICK v : v = [i \in a + offset + 1..a + offset + n |-> Spot(w, a, n, i)]
    OBVIOUS
  <1>3. /\ SbRing(sb, n, w, a, wr, s, wr + 1)
        /\ SbNumbered(sb, n, sbMsgs) /\ SbMsgs(sbMsgs, wr, n)
        /\ sb.nextMsgNo = Nth(Len(sbMsgs) + 1) /\ n <= 2 * SndLimit - 1 + InitBlocks
    BY <1>2 DEF SbSound
  <1>4. /\ a \in Nat /\ wr \in Nat /\ s \in Nat /\ a <= s /\ s <= wr /\ wr < a + n
        /\ sb \in SbRecords(n) /\ Circle(sb.next, n, w, a)
        /\ sb.first = w[a + 1] /\ sb.curr = w[s + 1] /\ sb.last = w[wr + 1] /\ sb.count = wr - a
        /\ \A i \in a + 1..wr : sb.data[w[i]] = i
        /\ \A i \in wr + 1..a + n : sb.data[w[i]] \in {0, i - n}
    BY <1>3 DEF SbRing
  <1>5. /\ offset > 0 /\ a + offset <= s /\ sbAcked' = a + offset
        /\ sb' = [sb EXCEPT !.first = Behind(sb, sb.first, offset), !.count = sb.count - offset]
        /\ sbMsgs' = sbMsgs /\ sbSent' = sbSent /\ sbNamed' = sbNamed /\ Written' = Written
    BY DEF SbAck, AckBlocks, Written
  <1>14. ExpiredNamed
    BY DEF SndBufferInv
  <1>6. Circle(sb.next, n, v, a + offset)
    <2>1. offset \in 0..n /\ n \in Nat \ {0} /\ a \in Nat /\ Circle(sb.next, n, w, a)
      BY <1>4, <1>5
    <2> HIDE DEF a
    <2> QED BY <1>15, <2>1, CircleTurns
  <1>7. /\ \A i \in a + offset + 1..a + n : v[i] = w[i]
        /\ \A i \in a + n + 1..a + offset + n : v[i] = w[i - n]
    <2>1. ASSUME NEW i \in a + offset + 1..a + offset + n PROVE v[i] = Spot(w, a, n, i)
      BY <1>15
    <2>2. ASSUME NEW i \in a + offset + 1..a + n PROVE v[i] = w[i]
      <3>1. i \in a + offset + 1..a + offset + n /\ i <= a + n
        BY <1>4
      <3> QED BY <2>1, <3>1 DEF Spot
    <2>3. ASSUME NEW i \in a + n + 1..a + offset + n PROVE v[i] = w[i - n]
      <3>1. i \in a + offset + 1..a + offset + n /\ ~(i <= a + n)
        BY <1>4, <1>5
      <3> QED BY <2>1, <3>1 DEF Spot
    <2> QED BY <2>2, <2>3
  <1>8. Behind(sb, sb.first, offset) = v[a + offset + 1] /\ v[a + offset + 1] \in 1..n
    <2>1. /\ a + 1 \in a + 1..a + n /\ a + 1 + offset = a + offset + 1
          /\ a + offset + 1 \in a + offset + 1..a + n /\ a + offset + 1 <= a + n
          /\ a + offset + 1 \in a + offset + 1..a + offset + n
      BY <1>4, <1>5
    <2>2. \A j \in a + 1..a + n : \A k \in Nat : j + k <= a + n => Behind(sb, w[j], k) = w[j + k]
      <3> HIDE DEF a
      <3> QED BY <1>4, BehindHere
    <2>4. Behind(sb, w[a + 1], offset) = w[a + 1 + offset]
      BY <2>1, <2>2
    <2>3. v \in [a + offset + 1..a + offset + n -> 1..n]
      BY <1>6 DEF Circle
    <2> QED BY <1>4, <1>7, <2>1, <2>3, <2>4
  <1>9. /\ sb' \in SbRecords(n) /\ sb'.next = sb.next /\ sb'.data = sb.data /\ sb'.msgNo = sb.msgNo
        /\ sb'.first = v[a + offset + 1] /\ sb'.curr = sb.curr /\ sb'.last = sb.last
        /\ sb'.count = wr - (a + offset) /\ sb'.nextMsgNo = sb.nextMsgNo
    <2> DEFINE first == Behind(sb, sb.first, offset)
               count == sb.count - offset
    <2>1. first \in 1..n /\ count \in Nat /\ count = wr - (a + offset)
      BY <1>4, <1>5, <1>8
    <2>2. sb' = [sb EXCEPT !.first = first, !.count = count]
      BY <1>5
    <2>3. first = v[a + offset + 1]
      BY <1>8
    <2> HIDE DEF first, count, a, wr
    <2> QED BY <1>4, <2>1, <2>2, <2>3 DEF SbRecords
  <1>10. SbRing(sb', n, v, a + offset, wr, s, wr + 1)
    <2>1. a + offset \in Nat /\ a + offset <= s /\ wr < a + offset + n
      BY <1>4, <1>5
    <2>2. v[s + 1] = w[s + 1] /\ v[wr + 1] = w[wr + 1]
      <3>1. s + 1 \in a + offset + 1..a + n /\ wr + 1 \in a + offset + 1..a + n
        BY <1>4, <1>5
      <3> QED BY <1>7, <3>1
    <2>3. ASSUME NEW i \in a + offset + 1..wr PROVE sb.data[v[i]] = i
      <3>1. i \in a + offset + 1..a + n /\ i \in a + 1..wr
        BY <1>4, <1>5
      <3> QED BY <1>4, <1>7, <3>1
    <2>4. ASSUME NEW i \in wr + 1..a + offset + n PROVE sb.data[v[i]] \in {0, i - n}
      <3>1. CASE i <= a + n
        <4>1. i \in a + offset + 1..a + n /\ i \in wr + 1..a + n
          BY <1>4, <1>5, <3>1
        <4> QED BY <1>4, <1>7, <4>1
      <3>2. CASE i > a + n
        <4>1. i \in a + n + 1..a + offset + n /\ i - n \in a + 1..wr
          BY <1>4, <1>5, <3>2
        <4> QED BY <1>4, <1>7, <4>1
      <3>3. i <= a + n \/ i > a + n
        BY <1>4
      <3> QED BY <3>1, <3>2, <3>3, Zenon
    <2> HIDE DEF a, wr, s
    <2> QED BY <1>4, <1>6, <1>9, <2>1, <2>2, <2>3, <2>4 DEF SbRing
  <1>11. SbNumbered(sb', n, sbMsgs)
    BY <1>3, <1>9 DEF SbNumbered
  <1>12. SbSound(n, v)'
    BY <1>3, <1>5, <1>9, <1>10, <1>11 DEF SbSound
  <1>13. ExpiredNamed'
    BY <1>5, <1>14 DEF ExpiredNamed
  <1> QED BY <1>12, <1>13 DEF SndBufferInv

LEMMA SbExpireKeeps ==
    ASSUME MaxMsgNo >= 2 * SndLimit + InitBlocks, SndBufferInv, NEW offset \in Nat, SbExpire(offset)
    PROVE  SndBufferInv'
  <1>1. PICK n \in Nat \ {0} : \E w : SbSound(n, w)
    BY DEF SndBufferInv
  <1>2. PICK w : SbSound(n, w)
    BY <1>1
  <1> DEFINE a == sbAcked
             wr == Written
             s == sbSent
             m == a + 1 + offset
             end == sbMsgs[OfBlock(m)].last
             L == ExpiredEnd(sb, offset)
             p == Behind(sb, sb.first, offset)
             passed == \E k \in 1..L - 1 : Behind(sb, p, k) = sb.curr
  <1>3. /\ SbRing(sb, n, w, a, wr, s, wr + 1)
        /\ SbNumbered(sb, n, sbMsgs) /\ SbMsgs(sbMsgs, wr, n)
        /\ sb.nextMsgNo = Nth(Len(sbMsgs) + 1) /\ n <= 2 * SndLimit - 1 + InitBlocks
    BY <1>2 DEF SbSound
  <1>4. /\ a \in Nat /\ wr \in Nat /\ s \in Nat /\ a <= s /\ s <= wr /\ wr < a + n
        /\ sb \in SbRecords(n) /\ Circle(sb.next, n, w, a)
        /\ sb.first = w[a + 1] /\ sb.curr = w[s + 1] /\ sb.last = w[wr + 1] /\ sb.count = wr - a
        /\ \A i \in a + 1..wr : sb.data[w[i]] = i
        /\ \A i \in wr + 1..a + n : sb.data[w[i]] \in {0, i - n}
    BY <1>3 DEF SbRing
  <1>5. /\ m <= s /\ sbNamed' = <<L, end - m + 1>>
        /\ sb' = IF passed THEN [sb EXCEPT !.curr = Behind(sb, p, L)] ELSE sb
        /\ sbSent' = IF end > s THEN end ELSE s
        /\ sbMsgs' = sbMsgs /\ sbAcked' = sbAcked /\ Written' = Written
    BY DEF SbExpire, ReadExpired, Written
  <1>6. OfBlock(m) \in DOMAIN sbMsgs /\ m \in sbMsgs[OfBlock(m)].first..sbMsgs[OfBlock(m)].last
    <2>1. m \in 1..wr
      BY <1>4, <1>5
    <2> HIDE DEF m
    <2>2. \E i \in DOMAIN sbMsgs : m \in sbMsgs[i].first..sbMsgs[i].last
      BY <1>3, <2>1 DEF SbMsgs
    <2> QED BY <2>2 DEF OfBlock
  <1>7. L = end - m + 1 /\ p = w[m] /\ end \in m..wr
    <2> DEFINE i == OfBlock(m)
    <2>1. a + 1 + offset <= s /\ i \in DOMAIN sbMsgs /\ a + 1 + offset \in sbMsgs[i].first..sbMsgs[i].last
      BY <1>5, <1>6
    <2>2. /\ ExpiredEnd(sb, offset) = sbMsgs[i].last - (a + 1 + offset) + 1
          /\ Behind(sb, sb.first, offset) = w[a + 1 + offset]
          /\ sbMsgs[i].last \in a + 1 + offset..wr
      <3> HIDE DEF i, a, wr, s
      <3> QED BY <1>3, <2>1, ExpiredIs
    <2> QED BY <2>2
  <1> HIDE DEF L, p, end
  <1>8. \A k \in 0..L : Behind(sb, p, k) = w[m + k] /\ m + k \in a + 1..a + n
    <2> TAKE k \in 0..L
    <2>1. /\ m \in a + 1..a + n /\ k \in Nat /\ m + k <= a + n /\ m + k \in a + 1..a + n
          /\ n \in Nat \ {0} /\ a \in Nat
      BY <1>4, <1>7
    <2> HIDE DEF m, a
    <2>2. \A j \in a + 1..a + n : \A d \in Nat : j + d <= a + n => Behind(sb, w[j], d) = w[j + d]
      <3>1. Circle(sb.next, n, w, a)
        BY <1>4
      <3> QED BY <2>1, <3>1, BehindHere
    <2> QED BY <1>7, <2>1, <2>2
  <1>9. passed <=> end > s
    <2>0. s + 1 \in a + 1..a + n
      BY <1>4
    <2>1. ASSUME end > s PROVE passed
      <3>1. s + 1 - m \in 1..L - 1 /\ s + 1 - m \in 0..L /\ m + (s + 1 - m) = s + 1
        BY <1>4, <1>5, <1>7, <2>1
      <3>2. Behind(sb, p, s + 1 - m) = sb.curr
        BY <1>4, <1>8, <3>1
      <3> QED BY <3>1, <3>2
    <2>2. ASSUME NEW k \in 1..L - 1, Behind(sb, p, k) = sb.curr PROVE end > s
      <3>1. k \in 0..L
        BY <1>4, <1>7
      <3>2. w[m + k] = w[s + 1] /\ m + k \in a + 1..a + n
        BY <1>4, <1>8, <2>2, <3>1
      <3>3. m + k = s + 1
        BY <1>4, <2>0, <3>2 DEF Circle
      <3> QED BY <1>4, <1>7, <3>3
    <2> QED BY <2>1, <2>2
  <1>10. Behind(sb, p, L) = w[end + 1] /\ w[end + 1] \in 1..n
    <2>1. L \in 0..L /\ m + L = end + 1
      BY <1>4, <1>7
    <2>2. w \in [a + 1..a + n -> 1..n] /\ end + 1 \in a + 1..a + n
      BY <1>4, <1>8, <2>1 DEF Circle
    <2> QED BY <1>8, <2>1, <2>2
  <1>11. PICK t \in Nat : t = IF end > s THEN end ELSE s
    BY <1>4, <1>7
  <1>12. sb' = [sb EXCEPT !.curr = w[t + 1]] /\ w[t + 1] \in 1..n
    <2>1. CASE end > s
      BY <1>5, <1>9, <1>10, <1>11, <2>1
    <2>2. CASE ~(end > s)
      <3>1. sb' = sb /\ sb.curr = w[t + 1]
        BY <1>4, <1>5, <1>9, <1>11, <2>2
      <3>2. sb.curr \in 1..n /\ sb = [sb EXCEPT !.curr = sb.curr]
        BY <1>4 DEF SbRecords
      <3> QED BY <3>1, <3>2
    <2> QED BY <2>1, <2>2
  <1>13. a <= t /\ t <= wr /\ sbSent' = t
    BY <1>4, <1>5, <1>7, <1>11
  <1>14. /\ sb' \in SbRecords(n) /\ sb'.next = sb.next /\ sb'.data = sb.data /\ sb'.msgNo = sb.msgNo
         /\ sb'.first = sb.first /\ sb'.curr = w[t + 1] /\ sb'.last = sb.last /\ sb'.count = sb.count
         /\ sb'.nextMsgNo = sb.nextMsgNo
    BY <1>4, <1>12 DEF SbRecords
  <1>15. SbRing(sb', n, w, a, wr, t, wr + 1)
    <2> HIDE DEF a, wr, s
    <2> QED BY <1>4, <1>13, <1>14 DEF SbRing
  <1>16. SbNumbered(sb', n, sbMsgs)
    BY <1>3, <1>14 DEF SbNumbered
  <1>17. SbSound(n, w)'
    BY <1>3, <1>5, <1>13, <1>14, <1>15, <1>16 DEF SbSound
  <1>18. ExpiredNamed'
    BY <1>5, <1>7 DEF ExpiredNamed
  <1> QED BY <1>17, <1>18 DEF SndBufferInv

LEMMA SndBufferRests == ASSUME SndBufferInv, UNCHANGED sndBufferVars PROVE SndBufferInv'
  BY DEF SndBufferInv, SbSound, ExpiredNamed, Written, sndBufferVars

LEMMA SndBufferStep ==
    ASSUME FileShort = FALSE, Garbage \cap 1..MaxMsgNo - 1 = {}, MaxMsgNo >= 2 * SndLimit + InitBlocks,
           SndBufferInv, SndBufferNext
    PROVE  SndBufferInv'
  <1>1. ASSUME NEW size \in 1..SndLimit, SbSend(size) PROVE SndBufferInv'
    <2>1. size \in Nat \ {0} /\ size + sb.count <= 2 * SndLimit - 1
      <3>1. size + sb.count <= SndLimit /\ SndLimit <= 2 * SndLimit - 1
        BY <1>1, SbSizes DEF SbSend
      <3>2. sb.count \in Nat
        BY DEF SndBufferInv, SbSound, SbRing, SbRecords
      <3> QED BY <3>1, <3>2, SbSizes
    <2> QED BY <1>1, <2>1, SbSendKeeps DEF SbSend
  <1>2. ASSUME NEW size \in 1..SndLimit, NEW read \in 1..size, SbSendFile(size, read) PROVE SndBufferInv'
    <2>1. read = size
      BY <1>2 DEF SbSendFile
    <2>2. size \in Nat \ {0} /\ size + sb.count <= 2 * SndLimit - 1
      <3>1. sb.count < SndLimit
        BY <1>2 DEF SbSendFile
      <3>2. sb.count \in Nat
        BY DEF SndBufferInv, SbSound, SbRing, SbRecords
      <3> QED BY <3>1, <3>2, SbSizes
    <2> QED BY <1>2, <2>1, <2>2, SbSendKeeps DEF SbSendFile
  <1>3. ASSUME SbPack PROVE SndBufferInv'
    BY <1>3, SbPackKeeps
  <1>4. ASSUME NEW offset \in 0..AllBlocks, SbExpire(offset) PROVE SndBufferInv'
    <2>1. offset \in Nat
      BY SbSizes
    <2> QED BY <1>4, <2>1, SbExpireKeeps
  <1>5. ASSUME NEW offset \in 0..AllBlocks, SbAck(offset) PROVE SndBufferInv'
    <2>1. offset \in Nat
      BY SbSizes
    <2> QED BY <1>5, <2>1, SbAckKeeps
  <1> QED BY <1>1, <1>2, <1>3, <1>4, <1>5 DEF SndBufferNext

LEMMA SndBufferInvSound == ASSUME SndBufferInv PROVE SndBufferExact
  <1>1. PICK n \in Nat \ {0} : \E w : SbSound(n, w)
    BY DEF SndBufferInv
  <1>2. PICK w : SbSound(n, w)
    BY <1>1
  <1> DEFINE a == sbAcked
             wr == Written
             s == sbSent
  <1>3. SbRing(sb, n, w, a, wr, s, wr + 1)
    BY <1>2 DEF SbSound
  <1>4. /\ a \in Nat /\ wr \in Nat /\ s \in Nat /\ a <= s /\ s <= wr /\ wr < a + n
        /\ sb \in SbRecords(n) /\ Circle(sb.next, n, w, a)
        /\ sb.first = w[a + 1] /\ sb.curr = w[s + 1] /\ sb.last = w[wr + 1] /\ sb.count = wr - a
        /\ \A i \in a + 1..wr : sb.data[w[i]] = i
    BY <1>3 DEF SbRing
  <1>5. /\ w \in [a + 1..a + n -> 1..n]
        /\ \A q \in 1..n : \E i \in a + 1..a + n : w[i] = q
    BY <1>4 DEF Circle
  <1>6. Len(sb.next) = n /\ Blocks(sb) = 1..n
    <2>1. n \in Nat /\ sb.next \in [1..n -> 1..n]
      BY <1>4 DEF SbRecords
    <2> QED BY <2>1, ArrayLen DEF Blocks
  <1>14. ExpiredNamed
    BY DEF SndBufferInv
  <1> HIDE DEF a, wr, s
  <1>7. \A i \in a + 1..a + n : \A k \in 0..n : Behind(sb, w[i], k) = Spot(w, a, n, i + k)
    BY <1>4, BehindIs
  <1>8. \A k \in 0..n : a + 1 + k <= a + n => Behind(sb, sb.first, k) = w[a + 1 + k]
    <2> TAKE k \in 0..n
    <2> HAVE a + 1 + k <= a + n
    <2>1. a + 1 \in a + 1..a + n
      BY <1>4
    <2> QED BY <1>4, <1>7, <2>1 DEF Spot
  <1>9. ASSUME NEW k \in 0..wr - a - 1 PROVE ReadLost(sb, k) = a + 1 + k
    <2>1. k \in 0..n /\ a + 1 + k <= a + n /\ a + 1 + k \in a + 1..wr
      BY <1>4
    <2>2. Behind(sb, sb.first, k) = w[a + 1 + k]
      BY <1>8, <2>1
    <2> QED BY <1>4, <2>1, <2>2 DEF ReadLost
  <1>10. sb.curr = Behind(sb, sb.first, s - a) /\ sb.last = Behind(sb, sb.first, wr - a)
    <2>1. /\ s - a \in 0..n /\ a + 1 + (s - a) <= a + n /\ a + 1 + (s - a) = s + 1
          /\ wr - a \in 0..n /\ a + 1 + (wr - a) <= a + n /\ a + 1 + (wr - a) = wr + 1
      BY <1>4
    <2> QED BY <1>4, <1>8, <2>1
  <1>11. {Behind(sb, sb.last, k) : k \in 1..n} = 1..n
    <2>0. wr + 1 \in a + 1..a + n
      BY <1>4
    <2>1. \A k \in 1..n : Behind(sb, sb.last, k) = Spot(w, a, n, wr + 1 + k)
      <3> TAKE k \in 1..n
      <3>1. k \in 0..n
        OBVIOUS
      <3> QED BY <1>4, <1>7, <2>0, <3>1
    <2>2. ASSUME NEW k \in 1..n PROVE Behind(sb, sb.last, k) \in 1..n
      <3> DEFINE i == wr + 1 + k
      <3>1. CASE i <= a + n
        <4>1. i \in a + 1..a + n
          BY <1>4, <3>1
        <4> QED BY <1>5, <2>1, <3>1, <4>1 DEF Spot
      <3>2. CASE ~(i <= a + n)
        <4>1. i - n \in a + 1..a + n
          BY <1>4, <3>2
        <4>2. Behind(sb, sb.last, k) = w[i - n]
          BY <2>1, <3>2 DEF Spot
        <4> QED BY <1>5, <4>1, <4>2
      <3> QED BY <3>1, <3>2
    <2>3. ASSUME NEW q \in 1..n PROVE \E k \in 1..n : Behind(sb, sb.last, k) = q
      <3>1. PICK i \in a + 1..a + n : w[i] = q
        BY <1>5
      <3>2. CASE i > wr + 1
        <4>1. i - wr - 1 \in 1..n /\ wr + 1 + (i - wr - 1) = i /\ i <= a + n
          BY <1>4, <3>2
        <4>2. Behind(sb, sb.last, i - wr - 1) = q
          BY <2>1, <3>1, <4>1 DEF Spot
        <4> QED BY <4>1, <4>2
      <3>3. CASE i <= wr + 1
        <4>1. /\ i + n - wr - 1 \in 1..n /\ wr + 1 + (i + n - wr - 1) = i + n
              /\ ~(i + n <= a + n) /\ i + n - n = i
          BY <1>4, <3>3
        <4>2. Behind(sb, sb.last, i + n - wr - 1) = q
          BY <2>1, <3>1, <4>1 DEF Spot
        <4> QED BY <4>1, <4>2
      <3>4. i > wr + 1 \/ i <= wr + 1
        BY <1>4
      <3> QED BY <3>2, <3>3, <3>4, Zenon
    <2> QED BY <2>2, <2>3
  <1>12. wr - a < n
    BY <1>4
  <1> QED BY <1>4, <1>6, <1>9, <1>10, <1>11, <1>12, <1>14 DEF SndBufferExact, BlocksInOrder, a, wr, s

-----------------------------------------------------------------------------
(* The receive buffer: the ring.                                           *)

RingRecord ==
    [unit : [RingSlots -> Int], flag : [RingSlots -> 0..2], start : RingSlots, ackPos : RingSlots,
     maxPos : Nat, notch : Int, count : Int]

\* The ring begins with packet f, d packets are acknowledged, and each unit lies where its
\* number puts it, within reach of the search and not in the slot before the start.
Ring(b, f, d) ==
    /\ b \in RingRecord /\ d \in 0..BufSize - 1
    /\ b.ackPos = SlotAt(b, d) /\ b.maxPos + d <= BufSize - 1
    /\ \A i \in RingSlots : b.unit[i] = NoUnit <=> b.flag[i] = 0
    /\ \A k \in 0..BufSize - 1 : b.flag[SlotAt(b, k)] # 0 =>
          b.unit[SlotAt(b, k)] = f + k /\ k <= d + b.maxPos /\ k <= BufSize - 2
    /\ b.count = Cardinality({i \in RingSlots : b.unit[i] # NoUnit})

\* The flag of packet n.
FlagOf(b, f, n) == IF n \in f..f + BufSize - 1 THEN b.flag[SlotAt(b, n - f)] ELSE 0

LEMMA RbSizes == /\ BufSize \in Nat /\ BufSize >= 2 /\ Packets \in Nat /\ Packets >= 1
                 /\ DropReach \in Nat /\ RingSlots = 0..BufSize - 1 /\ NoUnit = 0
  BY RcvBufferAssumption DEF RingSlots, NoUnit

LEMMA SlotIs ==
    ASSUME NEW b, b.start \in RingSlots, NEW k \in 0..BufSize
    PROVE  /\ SlotAt(b, k) = IF b.start + k < BufSize THEN b.start + k ELSE b.start + k - BufSize
           /\ SlotAt(b, k) \in RingSlots
  <1>1. BufSize \in Nat \ {0} /\ b.start + k \in Nat /\ b.start + k < 2 * BufSize
    BY RbSizes
  <1>2. PICK a \in Nat : a = b.start + k /\ a < 2 * BufSize
    BY <1>1
  <1>3. a % BufSize = IF a < BufSize THEN a ELSE a - BufSize
    <2>1. CASE a < BufSize
      BY <1>1, <2>1, ModRound
    <2>2. CASE BufSize <= a
      BY <1>1, <1>2, <2>2, ModRound
    <2> QED BY <1>1, <2>1, <2>2
  <1>4. a % BufSize \in 0..BufSize - 1
    BY <1>1, ModRound
  <1> QED BY <1>2, <1>3, <1>4, RbSizes DEF SlotAt

LEMMA SlotNext ==
    ASSUME NEW b, b.start \in RingSlots, NEW k \in 0..BufSize - 1
    PROVE  After(SlotAt(b, k)) = SlotAt(b, k + 1)
  <1>1. k \in 0..BufSize /\ k + 1 \in 0..BufSize
    BY RbSizes
  <1>2. SlotAt(b, k) = IF b.start + k < BufSize THEN b.start + k ELSE b.start + k - BufSize
    BY <1>1, SlotIs
  <1>3. SlotAt(b, k + 1) = IF b.start + (k + 1) < BufSize THEN b.start + (k + 1)
                           ELSE b.start + (k + 1) - BufSize
    BY <1>1, SlotIs
  <1>4. BufSize \in Nat /\ b.start \in 0..BufSize - 1
    BY RbSizes
  <1> QED BY <1>2, <1>3, <1>4 DEF After

LEMMA SlotZero ==
    ASSUME NEW b, b.start \in RingSlots
    PROVE  SlotAt(b, 0) = b.start /\ SlotAt(b, BufSize) = b.start
  <1>1. 0 \in 0..BufSize /\ BufSize \in 0..BufSize
    BY RbSizes
  <1> QED BY <1>1, SlotIs, RbSizes

LEMMA SlotDiffer ==
    ASSUME NEW b, b.start \in RingSlots, NEW k \in 0..BufSize - 1, NEW j \in 0..BufSize - 1,
           SlotAt(b, k) = SlotAt(b, j)
    PROVE  k = j
  <1>1. k \in 0..BufSize /\ j \in 0..BufSize /\ BufSize \in Nat /\ b.start \in 0..BufSize - 1
    BY RbSizes
  <1>2. SlotAt(b, k) = IF b.start + k < BufSize THEN b.start + k ELSE b.start + k - BufSize
    BY <1>1, SlotIs
  <1>3. SlotAt(b, j) = IF b.start + j < BufSize THEN b.start + j ELSE b.start + j - BufSize
    BY <1>1, SlotIs
  <1> DEFINE s == b.start
  <1>4. /\ BufSize \in Nat /\ s \in Nat /\ k \in Nat /\ j \in Nat
        /\ s < BufSize /\ k < BufSize /\ j < BufSize
    BY <1>1
  <1>5. (IF s + k < BufSize THEN s + k ELSE s + k - BufSize)
           = (IF s + j < BufSize THEN s + j ELSE s + j - BufSize)
    BY <1>2, <1>3
  <1> HIDE DEF s
  <1> QED BY <1>4, <1>5

\* Every slot is some number of slots behind the start.
LEMMA SlotOfSome ==
    ASSUME NEW b, b.start \in RingSlots, NEW i \in RingSlots
    PROVE  \E k \in 0..BufSize - 1 : SlotAt(b, k) = i /\ (i - b.start + BufSize) % BufSize = k
  <1>1. BufSize \in Nat \ {0} /\ b.start \in 0..BufSize - 1 /\ i \in 0..BufSize - 1
    BY RbSizes
  <1>2. PICK k \in 0..BufSize - 1 : k = IF b.start <= i THEN i - b.start ELSE i - b.start + BufSize
    BY <1>1
  <1>3. SlotAt(b, k) = i
    <2>1. k \in 0..BufSize
      BY <1>1
    <2> QED BY <1>1, <1>2, <2>1, SlotIs
  <1>4. (i - b.start + BufSize) % BufSize = k
    <2>1. PICK a \in Nat : a = i - b.start + BufSize
      BY <1>1
    <2>2. CASE a < BufSize
      BY <1>1, <1>2, <2>1, <2>2, ModRound
    <2>3. CASE BufSize <= a
      BY <1>1, <1>2, <2>1, <2>3, ModRound
    <2> QED BY <1>1, <2>2, <2>3
  <1> QED BY <1>3, <1>4

\* The slots behind another start.
LEMMA SlotOn ==
    ASSUME NEW b, b.start \in RingSlots, NEW c, NEW k \in 0..BufSize - 1, c.start = SlotAt(b, k),
           NEW j \in 0..BufSize - 1
    PROVE  SlotAt(c, j) = IF k + j < BufSize THEN SlotAt(b, k + j) ELSE SlotAt(b, k + j - BufSize)
  <1>1. /\ BufSize \in Nat /\ BufSize >= 2 /\ b.start \in 0..BufSize - 1
        /\ k \in 0..BufSize /\ j \in 0..BufSize
    BY RbSizes
  <1>2. /\ c.start = IF b.start + k < BufSize THEN b.start + k ELSE b.start + k - BufSize
        /\ c.start \in RingSlots
    BY <1>1, SlotIs
  <1>3. SlotAt(c, j) = IF c.start + j < BufSize THEN c.start + j ELSE c.start + j - BufSize
    BY <1>1, <1>2, SlotIs
  <1>4. CASE k + j < BufSize
    <2>1. k + j \in 0..BufSize
      BY <1>1, <1>4
    <2>2. SlotAt(b, k + j) = IF b.start + (k + j) < BufSize THEN b.start + (k + j)
                             ELSE b.start + (k + j) - BufSize
      BY <2>1, SlotIs
    <2> QED BY <1>1, <1>2, <1>3, <1>4, <2>2
  <1>5. CASE ~(k + j < BufSize)
    <2>1. k + j - BufSize \in 0..BufSize
      BY <1>1, <1>5
    <2>2. SlotAt(b, k + j - BufSize) =
             IF b.start + (k + j - BufSize) < BufSize THEN b.start + (k + j - BufSize)
             ELSE b.start + (k + j - BufSize) - BufSize
      BY <2>1, SlotIs
    <2> QED BY <1>1, <1>2, <1>3, <1>5, <2>2
  <1> QED BY <1>4, <1>5

\* getRcvDataSize.
LEMMA RingSize ==
    ASSUME NEW b, NEW d \in 0..BufSize - 1, b.start \in RingSlots, b.ackPos = SlotAt(b, d)
    PROVE  RcvDataSize(b) = d /\ AvailSize(b) = BufSize - d - 1
  <1>1. d \in 0..BufSize /\ BufSize \in Nat /\ b.start \in 0..BufSize - 1
    BY RbSizes
  <1>2. RcvDataSize(b) = d
    <2>1. b.ackPos = IF b.start + d < BufSize THEN b.start + d ELSE b.start + d - BufSize
      BY <1>1, SlotIs
    <2> QED BY <1>1, <2>1 DEF RcvDataSize
  <1> QED BY <1>2 DEF AvailSize

\* Packets between the first and the last slot.
LEMMA UnitOf ==
    ASSUME NEW b, NEW f \in Nat, NEW d, Ring(b, f, d), NEW n \in Int, FlagOf(b, f, n) # 0
    PROVE  /\ n \in f..f + BufSize - 2 /\ n <= f + d + b.maxPos
           /\ b.unit[SlotAt(b, n - f)] = n /\ b.flag[SlotAt(b, n - f)] = FlagOf(b, f, n)
  <1>1. n \in f..f + BufSize - 1 /\ b.flag[SlotAt(b, n - f)] = FlagOf(b, f, n)
    BY DEF FlagOf
  <1>2. n - f \in 0..BufSize - 1
    BY <1>1, RbSizes
  <1>3. b.unit[SlotAt(b, n - f)] = f + (n - f) /\ n - f <= d + b.maxPos /\ n - f <= BufSize - 2
    BY <1>1, <1>2 DEF Ring
  <1>4. d \in Nat /\ b.maxPos \in Nat
    BY RbSizes DEF Ring, RingRecord
  <1> QED BY <1>1, <1>3, <1>4, RbSizes

LEMMA FlagsAre ==
    ASSUME NEW b, NEW f \in Nat, NEW d, Ring(b, f, d), NEW n \in Int
    PROVE  FlagOf(b, f, n) \in 0..2
  <1>1. CASE n \in f..f + BufSize - 1
    <2>1. n - f \in 0..BufSize /\ b.start \in RingSlots /\ b.flag \in [RingSlots -> 0..2]
      BY <1>1, RbSizes DEF Ring, RingRecord
    <2>2. SlotAt(b, n - f) \in RingSlots
      BY <2>1, SlotIs
    <2> QED BY <1>1, <2>1, <2>2 DEF FlagOf
  <1>2. CASE n \notin f..f + BufSize - 1
    BY <1>2 DEF FlagOf
  <1> QED BY <1>1, <1>2

\* What has not been read.
LEMMA UnreadAre ==
    ASSUME NEW b, NEW f \in Nat, NEW d, Ring(b, f, d)
    PROVE  Unread(b) = {n \in Int : FlagOf(b, f, n) = 1}
  <1>1. b.start \in RingSlots
    BY DEF Ring, RingRecord
  <1>2. ASSUME NEW i \in RingSlots, b.flag[i] = 1
        PROVE  b.unit[i] \in Int /\ FlagOf(b, f, b.unit[i]) = 1
    <2>1. PICK k \in 0..BufSize - 1 : SlotAt(b, k) = i
      BY <1>1, SlotOfSome
    <2>2. b.unit[i] = f + k
      BY <1>2, <2>1 DEF Ring
    <2>3. f + k \in f..f + BufSize - 1 /\ f + k - f = k
      BY RbSizes
    <2> QED BY <1>2, <2>1, <2>2, <2>3 DEF FlagOf
  <1>3. ASSUME NEW n \in Int, FlagOf(b, f, n) = 1
        PROVE  \E i \in RingSlots : b.flag[i] = 1 /\ b.unit[i] = n
    <2>1. n \in f..f + BufSize - 2 /\ b.unit[SlotAt(b, n - f)] = n /\ b.flag[SlotAt(b, n - f)] = 1
      <3>1. FlagOf(b, f, n) # 0
        BY <1>3
      <3> QED BY <1>3, <3>1, UnitOf
    <2>2. n - f \in 0..BufSize
      BY <2>1, RbSizes
    <2> QED BY <1>1, <2>1, <2>2, SlotIs
  <1> QED BY <1>2, <1>3 DEF Unread

-----------------------------------------------------------------------------
(* The messages.                                                           *)

\* The message of each packet.
Owner == [n \in Sent |-> MsgOf(n)]

\* The packets are divided into messages.
Divided ==
    /\ \A m \in rbMsgs :
          /\ m.first \in Sent /\ m.last \in m.first..Packets /\ m.ordered \in BOOLEAN
          /\ \A n \in m.first..m.last : Owner[n] = m
    /\ \A n \in Sent : Owner[n] \in rbMsgs /\ n \in Owner[n].first..Owner[n].last

LEMMA EndExists ==
    ASSUME NEW heads \in SUBSET Sent, NEW n \in Sent
    PROVE  /\ EndOf(heads, n) \in n..Packets /\ EndOf(heads, n) + 1 \in heads \union {Packets + 1}
           /\ n + 1..EndOf(heads, n) \intersect heads = {}
  <1> DEFINE Ends1 == {l \in n..Packets : l + 1 \in heads \union {Packets + 1}}
  <1>1. n \in Nat /\ Packets \in Nat /\ n <= Packets
    BY RbSizes DEF Sent
  <1>2. Ends1 \subseteq Nat /\ Packets \in Ends1
    BY <1>1
  <1>3. PICK l \in Ends1 : \A x \in Ends1 : l <= x
    <2> HIDE DEF Ends1
    <2> QED BY <1>2, LeastOne
  <1>4. ASSUME NEW h \in heads, h \in n + 1..l PROVE FALSE
    <2>1. h - 1 \in n..Packets /\ h - 1 + 1 = h
      BY <1>1, <1>3, <1>4
    <2>2. h - 1 \in Ends1
      BY <2>1
    <2> QED BY <1>1, <1>3, <1>4, <2>2
  <1>5. l \in n..Packets /\ l + 1 \in heads \union {Packets + 1} /\ n + 1..l \intersect heads = {}
    BY <1>3, <1>4
  <1> HIDE DEF Ends1
  <1> QED BY <1>5 DEF EndOf

LEMMA MessagesCover == ASSUME rbMsgs \in Partitions PROVE Divided /\ rbMsgs # {}
  <1>1. PICK heads \in SUBSET Sent, inOrder \in [Sent -> BOOLEAN] :
           /\ 1 \in heads
           /\ rbMsgs = {[first |-> n, last |-> EndOf(heads, n), ordered |-> inOrder[n]] : n \in heads}
    BY DEF Partitions
  <1> DEFINE Msg(n) == [first |-> n, last |-> EndOf(heads, n), ordered |-> inOrder[n]]
  <1>2. \A n \in Sent : n \in Nat /\ n >= 1 /\ n <= Packets
    BY RbSizes DEF Sent
  <1>3. ASSUME NEW h \in heads
        PROVE  /\ EndOf(heads, h) \in h..Packets /\ EndOf(heads, h) + 1 \in heads \union {Packets + 1}
               /\ h + 1..EndOf(heads, h) \intersect heads = {}
    BY EndExists
  <1>4. ASSUME NEW n \in Sent PROVE \E h \in heads : n \in h..EndOf(heads, h)
    <2> DEFINE Above == {n - h : h \in {x \in heads : x <= n}}
    <2>1. Above \subseteq Nat /\ Above # {}
      BY <1>1, <1>2
    <2>2. PICK a \in Above : \A x \in Above : a <= x
      <3> HIDE DEF Above
      <3> QED BY <2>1, LeastOne
    <2>3. PICK h \in heads : h <= n /\ a = n - h
      BY <2>2
    <2>4. \A x \in heads : x <= n => x <= h
      <3> TAKE x \in heads
      <3> HAVE x <= n
      <3>1. n - x \in Above
        OBVIOUS
      <3> HIDE DEF Above
      <3> QED BY <1>2, <2>2, <2>3, <3>1
    <2>5. n <= EndOf(heads, h)
      <3> SUFFICES ASSUME EndOf(heads, h) < n PROVE FALSE
        BY <1>2, <1>3
      <3>1. EndOf(heads, h) \in Nat /\ h <= EndOf(heads, h) /\ EndOf(heads, h) + 1 <= n
        BY <1>2, <1>3
      <3>2. EndOf(heads, h) + 1 \in heads
        BY <1>2, <1>3, <3>1, RbSizes
      <3> QED BY <1>2, <2>4, <3>1, <3>2
    <2> QED BY <1>2, <1>3, <2>3, <2>5
  <1>5. ASSUME NEW n \in Sent, NEW h \in heads, NEW k \in heads,
               n \in h..EndOf(heads, h), n \in k..EndOf(heads, k)
        PROVE  h = k
    <2>1. h \in Nat /\ k \in Nat /\ n \in Nat
      BY <1>2
    <2>2. CASE h < k
      <3>1. k \in h + 1..EndOf(heads, h)
        BY <1>3, <1>5, <2>1, <2>2
      <3> QED BY <1>3, <3>1
    <2>3. CASE k < h
      <3>1. h \in k + 1..EndOf(heads, k)
        BY <1>3, <1>5, <2>1, <2>3
      <3> QED BY <1>3, <3>1
    <2> QED BY <2>1, <2>2, <2>3
  <1>6. ASSUME NEW m \in rbMsgs
        PROVE  /\ m.first \in heads /\ m = Msg(m.first) /\ m.last = EndOf(heads, m.first)
               /\ m.ordered \in BOOLEAN
    BY <1>1
  <1>7. ASSUME NEW n \in Sent, NEW m \in rbMsgs, n \in m.first..m.last PROVE Owner[n] = m
    <2>1. \A x \in rbMsgs : n \in x.first..x.last => x = m
      <3> TAKE x \in rbMsgs
      <3> HAVE n \in x.first..x.last
      <3>1. x.first = m.first
        BY <1>5, <1>6, <1>7
      <3> QED BY <1>6, <3>1
    <2>2. MsgOf(n) = m
      BY <1>7, <2>1 DEF MsgOf
    <2> QED BY <2>2 DEF Owner
  <1>8. ASSUME NEW m \in rbMsgs
        PROVE  m.first \in Sent /\ m.last \in m.first..Packets /\ m.first..m.last \subseteq Sent
    <2>1. m.first \in Sent /\ m.first \in Nat /\ m.first >= 1
      BY <1>2, <1>6
    <2>2. m.last \in m.first..Packets
      BY <1>3, <1>6
    <2> QED BY <2>1, <2>2, RbSizes DEF Sent
  <1>9. ASSUME NEW n \in Sent PROVE Owner[n] \in rbMsgs /\ n \in Owner[n].first..Owner[n].last
    <2>1. PICK h \in heads : n \in h..EndOf(heads, h)
      BY <1>4
    <2>2. Msg(h) \in rbMsgs /\ Msg(h).first = h /\ Msg(h).last = EndOf(heads, h)
      BY <1>1
    <2>3. Owner[n] = Msg(h)
      <3> HIDE DEF Msg
      <3> QED BY <1>7, <2>1, <2>2
    <2> QED BY <2>1, <2>2, <2>3
  <1>10. rbMsgs # {}
    BY <1>1
  <1>11. \A m \in rbMsgs : \A n \in m.first..m.last : Owner[n] = m
    BY <1>7, <1>8
  <1> HIDE DEF Msg
  <1> QED BY <1>6, <1>8, <1>9, <1>10, <1>11 DEF Divided

\* getMsgBoundary.
LEMMA BoundaryIs ==
    ASSUME Divided, NEW n \in Sent
    PROVE  /\ Boundary(n) = (IF n = Owner[n].first THEN 2 ELSE 0) + (IF n = Owner[n].last THEN 1 ELSE 0)
           /\ Boundary(n) > 1 <=> n = Owner[n].first
           /\ Boundary(n) \in {2, 3} <=> n = Owner[n].first
           /\ Boundary(n) \in {1, 3} <=> n = Owner[n].last
           /\ Boundary(n) = 3 <=> n = Owner[n].first /\ n = Owner[n].last
           /\ Boundary(n) = 1 <=> n # Owner[n].first /\ n = Owner[n].last
  <1>1. MsgOf(n) = Owner[n]
    BY DEF Owner
  <1>2. Boundary(n) = (IF n = Owner[n].first THEN 2 ELSE 0) + (IF n = Owner[n].last THEN 1 ELSE 0)
    BY <1>1 DEF Boundary
  <1> QED BY <1>2

-----------------------------------------------------------------------------
(* What the operations do to the ring.                                     *)

\* g is b without the first k slots.
Skipped(b, f, d, g, k) ==
    /\ Ring(g, f + k, d - k)
    /\ \A n \in Int : FlagOf(g, f + k, n) = IF n < f + k THEN 0 ELSE FlagOf(b, f, n)

LEMMA UsedFinite ==
    ASSUME NEW S \in SUBSET RingSlots PROVE IsFiniteSet(S) /\ Cardinality(S) \in Nat
  <1>1. IsFiniteSet(RingSlots)
    BY RbSizes, FS_Interval
  <1> QED BY <1>1, FS_Subset, FS_CardinalityType

LEMMA FreedRing ==
    ASSUME NEW b, NEW f \in Nat, NEW d, Ring(b, f, d), NEW k \in 0..d
    PROVE  Skipped(b, f, d, FreeFirst(b, k), k)
  <1> DEFINE g == FreeFirst(b, k)
             freed == {SlotAt(b, j) : j \in 0..k - 1}
  <1>1. /\ BufSize \in Nat /\ BufSize >= 2 /\ d \in 0..BufSize - 1 /\ k \in 0..BufSize - 1
        /\ d \in Nat /\ k \in Nat /\ k <= d /\ b.start \in RingSlots /\ b \in RingRecord
    BY RbSizes DEF Ring, RingRecord
  <1>2. SlotAt(b, k) \in RingSlots
    <2>1. k \in 0..BufSize
      BY <1>1
    <2> QED BY <1>1, <2>1, SlotIs
  <1>3. /\ g.unit = [i \in RingSlots |-> IF i \in freed THEN NoUnit ELSE b.unit[i]]
        /\ g.flag = [i \in RingSlots |-> IF i \in freed THEN 0 ELSE b.flag[i]]
        /\ g.count = b.count - Cardinality({i \in freed : b.unit[i] # NoUnit})
        /\ g.start = SlotAt(b, k) /\ g.ackPos = b.ackPos /\ g.maxPos = b.maxPos /\ g.notch = b.notch
    BY <1>1 DEF FreeFirst, RingRecord
  <1>4. g \in RingRecord
    <2>1. /\ \A i \in RingSlots : (IF i \in freed THEN NoUnit ELSE b.unit[i]) \in Int
          /\ \A i \in RingSlots : (IF i \in freed THEN 0 ELSE b.flag[i]) \in 0..2
      <3> HIDE DEF freed
      <3>1. b.unit \in [RingSlots -> Int] /\ b.flag \in [RingSlots -> 0..2] /\ NoUnit \in Int
        BY SMTT(30), <1>1, RbSizes DEF RingRecord
      <3> QED BY <3>1
    <2>2. Cardinality({i \in freed : b.unit[i] # NoUnit}) \in Int
      <3>1. freed \subseteq RingSlots
        <4>1. \A j \in 0..k - 1 : j \in 0..BufSize
          BY <1>1
        <4> QED BY <1>1, <4>1, SlotIs
      <3> QED BY <3>1, UsedFinite
    <2>3. b.count \in Int
      BY <1>1 DEF RingRecord
    <2> HIDE DEF freed
    <2>4. /\ [i \in RingSlots |-> IF i \in freed THEN NoUnit ELSE b.unit[i]] \in [RingSlots -> Int]
          /\ [i \in RingSlots |-> IF i \in freed THEN 0 ELSE b.flag[i]] \in [RingSlots -> 0..2]
      BY <2>1
    <2>5. b.count - Cardinality({i \in freed : b.unit[i] # NoUnit}) \in Int
      BY <2>2, <2>3
    <2> QED BY <1>1, <1>2, <2>4, <2>5 DEF FreeFirst, RingRecord, freed
  <1> HIDE DEF g
  <1>5. \A j \in 0..BufSize - 1 : SlotAt(b, j) \in freed <=> j < k
    <2> TAKE j \in 0..BufSize - 1
    <2>1. ASSUME SlotAt(b, j) \in freed PROVE j < k
      <3>1. PICK x \in 0..k - 1 : SlotAt(b, j) = SlotAt(b, x)
        BY <2>1
      <3>2. x \in 0..BufSize - 1
        BY <1>1
      <3>3. x = j
        BY <1>1, <3>1, <3>2, SlotDiffer
      <3> QED BY <1>1, <3>3
    <2>2. ASSUME j < k PROVE SlotAt(b, j) \in freed
      <3>1. j \in 0..k - 1
        BY <1>1, <2>2
      <3> QED BY <3>1
    <2> QED BY <2>1, <2>2
  <1>6. /\ \A i \in RingSlots : g.unit[i] = IF i \in freed THEN NoUnit ELSE b.unit[i]
        /\ \A i \in RingSlots : g.flag[i] = IF i \in freed THEN 0 ELSE b.flag[i]
    BY <1>3
  <1> HIDE DEF freed
  <1>7. \A j \in 0..BufSize - 1 :
           /\ SlotAt(g, j) \in RingSlots
           /\ k + j < BufSize => /\ g.flag[SlotAt(g, j)] = b.flag[SlotAt(b, k + j)]
                                 /\ g.unit[SlotAt(g, j)] = b.unit[SlotAt(b, k + j)]
           /\ ~(k + j < BufSize) => g.flag[SlotAt(g, j)] = 0
    <2> TAKE j \in 0..BufSize - 1
    <2>0. g.start = SlotAt(b, k)
      BY <1>3
    <2>1. SlotAt(g, j) = IF k + j < BufSize THEN SlotAt(b, k + j) ELSE SlotAt(b, k + j - BufSize)
      BY <1>1, <2>0, SlotOn
    <2>2. SlotAt(g, j) \in RingSlots
      <3>1. j \in 0..BufSize
        BY <1>1
      <3> QED BY <1>2, <2>0, <3>1, SlotIs
    <2>3. CASE k + j < BufSize
      <3>1. k + j \in 0..BufSize - 1 /\ ~(k + j < k)
        BY <1>1, <2>3
      <3>2. SlotAt(b, k + j) \notin freed
        BY <1>5, <3>1
      <3> QED BY <1>6, <2>1, <2>2, <2>3, <3>2
    <2>4. CASE ~(k + j < BufSize)
      <3>1. k + j - BufSize \in 0..BufSize - 1 /\ k + j - BufSize < k
        BY <1>1, <2>4
      <3>2. SlotAt(b, k + j - BufSize) \in freed
        BY <1>5, <3>1
      <3> QED BY <1>6, <2>1, <2>2, <2>4, <3>2
    <2> QED BY <2>3, <2>4
  <1>8. Ring(g, f + k, d - k)
    <2>1. d - k \in 0..BufSize - 1 /\ b.maxPos \in Nat /\ b.maxPos + d <= BufSize - 1
      BY <1>1 DEF Ring, RingRecord
    <2>2. g.ackPos = SlotAt(g, d - k)
      <3>1. SlotAt(g, d - k) = IF k + (d - k) < BufSize THEN SlotAt(b, k + (d - k))
                               ELSE SlotAt(b, k + (d - k) - BufSize)
        BY <1>1, <1>3, <2>1, SlotOn
      <3>2. k + (d - k) = d /\ d < BufSize
        BY <1>1
      <3> QED BY <1>3, <3>1, <3>2 DEF Ring
    <2>3. g.maxPos + (d - k) <= BufSize - 1
      BY <1>1, <1>3, <2>1
    <2>4. \A i \in RingSlots : g.unit[i] = NoUnit <=> g.flag[i] = 0
      BY <1>6 DEF Ring
    <2>5. ASSUME NEW j \in 0..BufSize - 1, g.flag[SlotAt(g, j)] # 0
          PROVE  g.unit[SlotAt(g, j)] = f + k + j /\ j <= d - k + g.maxPos /\ j <= BufSize - 2
      <3>1. k + j < BufSize
        BY <1>7, <2>5
      <3>2. k + j \in 0..BufSize - 1
        BY <1>1, <3>1
      <3>3. b.flag[SlotAt(b, k + j)] # 0 /\ g.unit[SlotAt(g, j)] = b.unit[SlotAt(b, k + j)]
        BY <1>7, <2>5, <3>1
      <3>4. b.unit[SlotAt(b, k + j)] = f + (k + j) /\ k + j <= d + b.maxPos /\ k + j <= BufSize - 2
        BY <3>2, <3>3 DEF Ring
      <3> QED BY <1>1, <1>3, <2>1, <3>3, <3>4
    <2>6. g.count = Cardinality({i \in RingSlots : g.unit[i] # NoUnit})
      <3> DEFINE U == {i \in RingSlots : b.unit[i] # NoUnit}
                 G == {i \in RingSlots : g.unit[i] # NoUnit}
                 X == {i \in freed : b.unit[i] # NoUnit}
      <3>1. freed \subseteq RingSlots
        <4>1. \A j \in 0..k - 1 : j \in 0..BufSize
          BY <1>1
        <4> QED BY <1>1, <4>1, SlotIs DEF freed
      <3>2. G = U \ X /\ X = U \cap X
        BY <1>6, <3>1
      <3>3. IsFiniteSet(U) /\ IsFiniteSet(X)
        BY <3>1, UsedFinite
      <3>4. b.count = Cardinality(U) /\ g.count = b.count - Cardinality(X)
        BY <1>3 DEF Ring
      <3> HIDE DEF U, G, X
      <3>5. Cardinality(U \ X) = Cardinality(U) - Cardinality(U \cap X)
        BY <3>3, FS_Difference
      <3>6. g.count = Cardinality(G)
        BY <3>2, <3>4, <3>5
      <3> QED BY <3>6 DEF G
    <2> QED BY <1>4, <2>1, <2>2, <2>3, <2>4, <2>5, <2>6 DEF Ring
  <1>9. ASSUME NEW n \in Int
        PROVE  FlagOf(g, f + k, n) = IF n < f + k THEN 0 ELSE FlagOf(b, f, n)
    <2>1. CASE n < f + k
      BY <1>1, <2>1 DEF FlagOf
    <2>2. CASE n >= f + k /\ n <= f + BufSize - 1
      <3>1. /\ n - (f + k) \in 0..BufSize - 1 /\ k + (n - (f + k)) < BufSize
            /\ k + (n - (f + k)) = n - f
            /\ n \in f..f + BufSize - 1 /\ n \in f + k..f + k + BufSize - 1
        BY <1>1, <2>2
      <3>2. g.flag[SlotAt(g, n - (f + k))] = b.flag[SlotAt(b, n - f)]
        BY <1>7, <3>1
      <3> QED BY <1>1, <2>2, <3>1, <3>2 DEF FlagOf
    <2>3. CASE n >= f + k /\ n > f + BufSize - 1 /\ n <= f + k + BufSize - 1
      <3>1. n - (f + k) \in 0..BufSize - 1 /\ ~(k + (n - (f + k)) < BufSize)
        BY <1>1, <2>3
      <3>2. g.flag[SlotAt(g, n - (f + k))] = 0
        BY <1>7, <3>1
      <3> QED BY <1>1, <2>3, <3>2 DEF FlagOf
    <2>4. CASE n > f + k + BufSize - 1
      BY <1>1, <2>4 DEF FlagOf
    <2> QED BY <1>1, <2>1, <2>2, <2>3, <2>4
  <1>10. Skipped(b, f, d, g, k)
    BY <1>8, <1>9 DEF Skipped
  <1> QED BY <1>10 DEF g

LEMMA AckSlot ==
    ASSUME NEW b, b.start \in RingSlots, NEW d \in 0..BufSize - 1, b.ackPos = SlotAt(b, d),
           NEW k \in 0..BufSize - 1, d + k < BufSize
    PROVE  (b.ackPos + k) % BufSize = SlotAt(b, d + k)
  <1> DEFINE c == [start |-> b.ackPos]
  <1>1. c.start = SlotAt(b, d) /\ SlotAt(c, k) = (b.ackPos + k) % BufSize
    BY DEF SlotAt
  <1> HIDE DEF c
  <1> QED BY <1>1, SlotOn

\* A packet arrives where the buffer has room for it.
LEMMA AddedRing ==
    ASSUME NEW b, NEW f \in Nat \ {0}, NEW d, Ring(b, f, d), NEW n \in Int, NEW offset \in Nat,
           offset < BufSize - d - 1, n = f + d + offset
    PROVE  /\ Ring(AddData(b, n, offset), f, d) /\ AddData(b, n, offset).notch = b.notch
           /\ b.unit[(b.ackPos + offset) % BufSize] = NoUnit <=> FlagOf(b, f, n) = 0
           /\ \A j \in Int : FlagOf(AddData(b, n, offset), f, j) =
                IF j = n /\ FlagOf(b, f, n) = 0 THEN 1 ELSE FlagOf(b, f, j)
  <1> DEFINE g == AddData(b, n, offset)
             pos == (b.ackPos + offset) % BufSize
             top == IF offset > b.maxPos THEN offset ELSE b.maxPos
  <1>1. /\ BufSize \in Nat /\ BufSize >= 2 /\ d \in 0..BufSize - 1 /\ d \in Nat /\ d < BufSize
        /\ b.start \in RingSlots /\ b \in RingRecord /\ b.ackPos = SlotAt(b, d)
        /\ offset \in 0..BufSize - 1 /\ d + offset \in 0..BufSize - 1 /\ d + offset <= BufSize - 2
        /\ b.maxPos \in Nat /\ b.maxPos + d <= BufSize - 1
    BY RbSizes DEF Ring, RingRecord
  <1>2. pos = SlotAt(b, d + offset) /\ pos \in RingSlots
    <2>1. pos = SlotAt(b, d + offset)
      BY <1>1, AckSlot
    <2>2. d + offset \in 0..BufSize
      BY <1>1
    <2> QED BY <1>1, <2>1, <2>2, SlotIs
  <1>3. n \in f..f + BufSize - 1 /\ n - f = d + offset /\ FlagOf(b, f, n) = b.flag[pos]
    <2>1. n \in f..f + BufSize - 1 /\ n - f = d + offset
      BY <1>1
    <2> QED BY <1>2, <2>1 DEF FlagOf
  <1>4. b.unit[pos] = NoUnit <=> FlagOf(b, f, n) = 0
    BY <1>2, <1>3 DEF Ring
  <1>5. /\ b.unit[pos] # NoUnit => g.unit = b.unit /\ g.flag = b.flag /\ g.count = b.count
        /\ b.unit[pos] = NoUnit => /\ g.unit = [b.unit EXCEPT ![pos] = n]
                                   /\ g.flag = [b.flag EXCEPT ![pos] = 1] /\ g.count = b.count + 1
        /\ g.maxPos = top /\ g.start = b.start /\ g.ackPos = b.ackPos /\ g.notch = b.notch
        /\ g \in RingRecord
    <2>1. top \in Nat
      BY <1>1
    <2>2. CASE b.unit[pos] # NoUnit
      <3>1. g = [b EXCEPT !.maxPos = top]
        BY <2>2 DEF AddData
      <3> HIDE DEF g, top, pos
      <3> QED BY <1>1, <2>1, <2>2, <3>1 DEF RingRecord
    <2>3. CASE b.unit[pos] = NoUnit
      <3>1. g = [b EXCEPT !.maxPos = top, !.unit[pos] = n, !.flag[pos] = 1, !.count = @ + 1]
        BY <2>3 DEF AddData
      <3> HIDE DEF g, top, pos
      <3>2. /\ g.unit = [b.unit EXCEPT ![pos] = n] /\ g.flag = [b.flag EXCEPT ![pos] = 1]
            /\ g.count = b.count + 1 /\ g.maxPos = top /\ g.start = b.start
            /\ g.ackPos = b.ackPos /\ g.notch = b.notch
        BY <1>1, <3>1 DEF RingRecord
      <3>3. /\ [b.unit EXCEPT ![pos] = n] \in [RingSlots -> Int]
            /\ [b.flag EXCEPT ![pos] = 1] \in [RingSlots -> 0..2]
            /\ b.count + 1 \in Int
        BY <1>1, <1>2 DEF RingRecord
      <3>4. g = [unit |-> [b.unit EXCEPT ![pos] = n], flag |-> [b.flag EXCEPT ![pos] = 1],
                 start |-> b.start, ackPos |-> b.ackPos, maxPos |-> top, notch |-> b.notch,
                 count |-> b.count + 1]
        BY <1>1, <3>1 DEF RingRecord
      <3>5. b.start \in RingSlots /\ b.ackPos \in RingSlots /\ b.notch \in Int
        BY <1>1 DEF RingRecord
      <3>6. g \in RingRecord
        BY <2>1, <3>3, <3>4, <3>5 DEF RingRecord
      <3> QED BY <2>3, <3>2, <3>6
    <2> QED BY <2>2, <2>3
  <1> HIDE DEF g
  <1>6. \A k \in 0..BufSize - 1 : SlotAt(g, k) = SlotAt(b, k) /\ SlotAt(b, k) \in RingSlots
                                  /\ (SlotAt(b, k) = pos => k = d + offset)
    <2> TAKE k \in 0..BufSize - 1
    <2>1. SlotAt(g, k) = SlotAt(b, k)
      BY <1>5 DEF SlotAt
    <2>2. k \in 0..BufSize
      BY <1>1
    <2>3. SlotAt(b, k) \in RingSlots
      BY <1>1, <2>2, SlotIs
    <2>4. SlotAt(b, k) = pos => k = d + offset
      BY <1>1, <1>2, SlotDiffer
    <2> QED BY <2>1, <2>3, <2>4
  <1>7. /\ b.unit \in [RingSlots -> Int] /\ b.flag \in [RingSlots -> 0..2]
        /\ \A i \in RingSlots : b.unit[i] = NoUnit <=> b.flag[i] = 0
        /\ b.count = Cardinality({i \in RingSlots : b.unit[i] # NoUnit})
    BY <1>1 DEF Ring, RingRecord
  <1>8. top \in Nat /\ top >= b.maxPos /\ top >= offset /\ top + d <= BufSize - 1
    BY <1>1
  <1>9. g.ackPos = SlotAt(g, d)
    BY <1>1, <1>5, <1>6
  <1> HIDE DEF pos, top
  <1>10. \A k \in 0..BufSize - 1 : b.flag[SlotAt(b, k)] # 0 =>
            b.unit[SlotAt(b, k)] = f + k /\ k <= d + b.maxPos /\ k <= BufSize - 2
    BY DEF Ring
  <1>11. CASE b.unit[pos] # NoUnit
    <2>1. \A k \in 0..BufSize - 1 : g.flag[SlotAt(g, k)] # 0 =>
            g.unit[SlotAt(g, k)] = f + k /\ k <= d + g.maxPos /\ k <= BufSize - 2
      BY <1>1, <1>5, <1>6, <1>8, <1>10, <1>11
    <2>2. Ring(g, f, d)
      BY <1>1, <1>5, <1>7, <1>8, <1>9, <1>11, <2>1 DEF Ring
    <2>3. \A j \in Int : FlagOf(g, f, j) = FlagOf(b, f, j)
      BY <1>5, <1>11 DEF FlagOf, SlotAt
    <2> QED BY <1>4, <1>5, <1>11, <2>2, <2>3 DEF g, pos
  <1>12. CASE b.unit[pos] = NoUnit
    <2> USE <1>12
    <2>1. /\ \A i \in RingSlots : g.unit[i] = IF i = pos THEN n ELSE b.unit[i]
          /\ \A i \in RingSlots : g.flag[i] = IF i = pos THEN 1 ELSE b.flag[i]
      BY <1>2, <1>5, <1>7
    <2>2. FlagOf(b, f, n) = 0
      BY <1>4
    <2>3. n # NoUnit
      BY <1>1, RbSizes
    <2>4. \A i \in RingSlots : g.unit[i] = NoUnit <=> g.flag[i] = 0
      BY <1>7, <2>1, <2>3
    <2>5. ASSUME NEW k \in 0..BufSize - 1, g.flag[SlotAt(g, k)] # 0
          PROVE  g.unit[SlotAt(g, k)] = f + k /\ k <= d + g.maxPos /\ k <= BufSize - 2
      <3>1. SlotAt(g, k) = SlotAt(b, k) /\ SlotAt(b, k) \in RingSlots
        BY <1>6
      <3>2. CASE SlotAt(b, k) = pos
        <4>1. k = d + offset
          BY <1>6, <3>2
        <4>2. g.unit[pos] = n
          BY <1>2, <2>1
        <4> QED BY <1>1, <1>5, <1>8, <3>1, <3>2, <4>1, <4>2
      <3>3. CASE SlotAt(b, k) # pos
        <4>1. b.flag[SlotAt(b, k)] # 0 /\ g.unit[SlotAt(g, k)] = b.unit[SlotAt(b, k)]
          BY <2>1, <2>5, <3>1, <3>3
        <4> QED BY <1>1, <1>5, <1>8, <1>10, <4>1
      <3> QED BY <3>2, <3>3
    <2>6. g.count = Cardinality({i \in RingSlots : g.unit[i] # NoUnit})
      <3> DEFINE U == {i \in RingSlots : b.unit[i] # NoUnit}
                 G == {i \in RingSlots : g.unit[i] # NoUnit}
      <3>1. G = U \union {pos} /\ pos \notin U
        BY <1>2, <2>1, <2>3
      <3>2. IsFiniteSet(U)
        BY UsedFinite
      <3>3. b.count = Cardinality(U) /\ g.count = b.count + 1
        BY <1>5, <1>7
      <3> HIDE DEF U, G
      <3>4. g.count = Cardinality(G)
        BY <3>1, <3>2, <3>3, FS_AddElement
      <3> QED BY <3>4 DEF G
    <2>7. Ring(g, f, d)
      BY <1>1, <1>5, <1>8, <1>9, <2>4, <2>5, <2>6 DEF Ring
    <2>8. ASSUME NEW j \in Int
          PROVE  FlagOf(g, f, j) = IF j = n /\ FlagOf(b, f, n) = 0 THEN 1 ELSE FlagOf(b, f, j)
      <3>1. CASE j \notin f..f + BufSize - 1
        BY <1>3, <3>1 DEF FlagOf
      <3>2. CASE j \in f..f + BufSize - 1
        <4>1. j - f \in 0..BufSize - 1
          BY <1>1, <3>2
        <4>2. SlotAt(g, j - f) = SlotAt(b, j - f) /\ SlotAt(b, j - f) \in RingSlots
              /\ (SlotAt(b, j - f) = pos => j - f = d + offset)
          BY <1>6, <4>1
        <4>3. FlagOf(g, f, j) = g.flag[SlotAt(b, j - f)] /\ FlagOf(b, f, j) = b.flag[SlotAt(b, j - f)]
          BY <3>2, <4>2 DEF FlagOf
        <4>4. SlotAt(b, j - f) = pos <=> j = n
          BY <1>1, <1>2, <1>3, <3>2, <4>2 DEF pos
        <4> QED BY <2>1, <2>2, <4>2, <4>3, <4>4
      <3> QED BY <3>1, <3>2
    <2> QED BY <1>4, <1>5, <2>7, <2>8 DEF g, pos
  <1> QED BY <1>11, <1>12

\* More is acknowledged.
LEMMA AckedRing ==
    ASSUME NEW b, NEW f \in Nat \ {0}, NEW d, Ring(b, f, d), NEW len \in Nat, len < BufSize - d
    PROVE  /\ Ring(AckData(b, len), f, d + len) /\ AckData(b, len).notch = b.notch
           /\ \A j \in Int : FlagOf(AckData(b, len), f, j) = FlagOf(b, f, j)
  <1> DEFINE g == AckData(b, len)
             low == IF b.maxPos < len THEN 0 ELSE b.maxPos - len
  <1>1. /\ BufSize \in Nat /\ BufSize >= 2 /\ d \in 0..BufSize - 1 /\ d \in Nat /\ d < BufSize
        /\ b.start \in RingSlots /\ b \in RingRecord /\ b.ackPos = SlotAt(b, d)
        /\ len \in 0..BufSize - 1 /\ d + len \in 0..BufSize - 1
        /\ b.maxPos \in Nat /\ b.maxPos + d <= BufSize - 1
    BY RbSizes DEF Ring, RingRecord
  <1>2. (b.ackPos + len) % BufSize = SlotAt(b, d + len)
    BY <1>1, AckSlot
  <1>3. SlotAt(b, d + len) \in RingSlots
    <2>1. d + len \in 0..BufSize
      BY <1>1
    <2> QED BY <1>1, <2>1, SlotIs
  <1>4. low \in Nat /\ low + (d + len) <= BufSize - 1 /\ b.maxPos + d <= low + (d + len)
    BY <1>1
  <1>5. /\ g.unit = b.unit /\ g.flag = b.flag /\ g.count = b.count /\ g.start = b.start
        /\ g.notch = b.notch /\ g.maxPos = low /\ g.ackPos = SlotAt(b, d + len) /\ g \in RingRecord
    <2>1. g = [b EXCEPT !.ackPos = SlotAt(b, d + len), !.maxPos = low]
      BY <1>2 DEF AckData
    <2> HIDE DEF g, low
    <2> QED BY <1>1, <1>3, <1>4, <2>1 DEF RingRecord
  <1> HIDE DEF g, low
  <1>6. \A k : SlotAt(g, k) = SlotAt(b, k)
    BY <1>5 DEF SlotAt
  <1>7. ASSUME NEW k \in 0..BufSize - 1, g.flag[SlotAt(g, k)] # 0
        PROVE  g.unit[SlotAt(g, k)] = f + k /\ k <= d + len + g.maxPos /\ k <= BufSize - 2
    <2>1. b.flag[SlotAt(b, k)] # 0 /\ g.unit[SlotAt(g, k)] = b.unit[SlotAt(b, k)]
      BY <1>5, <1>6, <1>7
    <2>2. b.unit[SlotAt(b, k)] = f + k /\ k <= d + b.maxPos /\ k <= BufSize - 2
      BY <2>1 DEF Ring
    <2> QED BY <1>1, <1>4, <1>5, <2>1, <2>2
  <1>8. Ring(g, f, d + len)
    <2>1. /\ \A i \in RingSlots : g.unit[i] = NoUnit <=> g.flag[i] = 0
          /\ g.count = Cardinality({i \in RingSlots : g.unit[i] # NoUnit})
      BY <1>5 DEF Ring
    <2> QED BY <1>1, <1>4, <1>5, <1>6, <1>7, <2>1 DEF Ring
  <1>9. \A j \in Int : FlagOf(g, f, j) = FlagOf(b, f, j)
    BY <1>5, <1>6 DEF FlagOf
  <1> QED BY <1>5, <1>8, <1>9 DEF g

\* g is b with the packets lo to hi behind the start marked as read.
Marked(b, f, d, g, lo, hi) ==
    /\ Ring(g, f, d) /\ g.notch = b.notch
    /\ \A j \in Int : FlagOf(g, f, j) = IF j \in f + lo..f + hi THEN 2 ELSE FlagOf(b, f, j)

LEMMA MarkedRing ==
    ASSUME NEW b, NEW f \in Nat \ {0}, NEW d, Ring(b, f, d),
           NEW lo \in 0..BufSize - 1, NEW hi \in 0..BufSize - 1, NEW taken,
           taken = {SlotAt(b, k) : k \in lo..hi}, \A k \in lo..hi : b.flag[SlotAt(b, k)] # 0,
           NEW g, g = [b EXCEPT !.flag = [i \in RingSlots |-> IF i \in taken THEN 2 ELSE @[i]]]
    PROVE  Marked(b, f, d, g, lo, hi)
  <1>1. /\ BufSize \in Nat /\ BufSize >= 2 /\ d \in 0..BufSize - 1
        /\ b.start \in RingSlots /\ b \in RingRecord /\ b.flag \in [RingSlots -> 0..2]
    BY RbSizes DEF Ring, RingRecord
  <1>2. /\ g.flag = [i \in RingSlots |-> IF i \in taken THEN 2 ELSE b.flag[i]]
        /\ g.unit = b.unit /\ g.count = b.count /\ g.start = b.start
        /\ g.notch = b.notch /\ g.maxPos = b.maxPos /\ g.ackPos = b.ackPos
    BY <1>1 DEF RingRecord
  <1>3. g \in RingRecord
    <2>1. [i \in RingSlots |-> IF i \in taken THEN 2 ELSE b.flag[i]] \in [RingSlots -> 0..2]
      BY <1>1
    <2> QED BY <1>1, <2>1 DEF RingRecord
  <1>4. \A k \in 0..BufSize - 1 : /\ SlotAt(g, k) = SlotAt(b, k) /\ SlotAt(b, k) \in RingSlots
                                  /\ SlotAt(b, k) \in taken <=> k \in lo..hi
    <2> TAKE k \in 0..BufSize - 1
    <2>1. SlotAt(g, k) = SlotAt(b, k)
      BY <1>2 DEF SlotAt
    <2>2. SlotAt(b, k) \in RingSlots
      <3>1. k \in 0..BufSize
        BY <1>1
      <3> QED BY <1>1, <3>1, SlotIs
    <2>3. ASSUME SlotAt(b, k) \in taken PROVE k \in lo..hi
      <3>1. PICK x \in lo..hi : SlotAt(b, k) = SlotAt(b, x)
        BY <2>3
      <3>2. x \in 0..BufSize - 1
        BY <1>1
      <3>3. x = k
        BY <1>1, <3>1, <3>2, SlotDiffer
      <3> QED BY <3>3
    <2> QED BY <2>1, <2>2, <2>3
  <1>5. \A k \in 0..BufSize - 1 :
           /\ g.flag[SlotAt(g, k)] = IF k \in lo..hi THEN 2 ELSE b.flag[SlotAt(b, k)]
           /\ g.flag[SlotAt(g, k)] # 0 => b.flag[SlotAt(b, k)] # 0
    <2> TAKE k \in 0..BufSize - 1
    <2>1. /\ SlotAt(g, k) = SlotAt(b, k) /\ SlotAt(b, k) \in RingSlots
          /\ SlotAt(b, k) \in taken <=> k \in lo..hi
      BY <1>4
    <2>2. g.flag[SlotAt(b, k)] = IF SlotAt(b, k) \in taken THEN 2 ELSE b.flag[SlotAt(b, k)]
      BY <1>2, <2>1
    <2>3. k \in lo..hi => b.flag[SlotAt(b, k)] # 0
      OBVIOUS
    <2> QED BY <2>1, <2>2, <2>3
  <1>6. \A i \in RingSlots : g.unit[i] = NoUnit <=> g.flag[i] = 0
    <2> TAKE i \in RingSlots
    <2>1. PICK k \in 0..BufSize - 1 : SlotAt(b, k) = i
      BY <1>1, SlotOfSome
    <2>2. b.unit[i] = NoUnit <=> b.flag[i] = 0
      BY DEF Ring
    <2>3. g.flag[i] = IF i \in taken THEN 2 ELSE b.flag[i]
      BY <1>2
    <2>4. i \in taken => b.flag[i] # 0
      BY <1>4, <2>1
    <2> QED BY <1>2, <2>2, <2>3, <2>4
  <1>7. Ring(g, f, d)
    <2>1. \A k \in 0..BufSize - 1 : g.flag[SlotAt(g, k)] # 0 =>
             g.unit[SlotAt(g, k)] = f + k /\ k <= d + g.maxPos /\ k <= BufSize - 2
      BY <1>2, <1>4, <1>5 DEF Ring
    <2>2. g.count = Cardinality({i \in RingSlots : g.unit[i] # NoUnit})
      BY <1>2 DEF Ring
    <2>3. g.ackPos = SlotAt(g, d) /\ g.maxPos + d <= BufSize - 1
      BY <1>1, <1>2, <1>4 DEF Ring
    <2> QED BY <1>1, <1>3, <1>6, <2>1, <2>2, <2>3 DEF Ring
  <1>8. ASSUME NEW j \in Int
        PROVE  FlagOf(g, f, j) = IF j \in f + lo..f + hi THEN 2 ELSE FlagOf(b, f, j)
    <2>1. CASE j \in f..f + BufSize - 1
      <3>1. j - f \in 0..BufSize - 1 /\ (j - f \in lo..hi <=> j \in f + lo..f + hi)
        BY <1>1, <2>1
      <3> QED BY <1>5, <2>1, <3>1 DEF FlagOf
    <2>2. CASE j \notin f..f + BufSize - 1
      <3>1. j \notin f + lo..f + hi
        BY <1>1, <2>2
      <3> QED BY <2>2, <3>1 DEF FlagOf
    <2> QED BY <2>1, <2>2
  <1> QED BY <1>2, <1>7, <1>8 DEF Marked

\* m_iNotch has nothing to do with the ring.
LEMMA NotchRing ==
    ASSUME NEW b, NEW f \in Nat, NEW d, Ring(b, f, d), NEW v \in Int,
           NEW g, g = [b EXCEPT !.notch = v]
    PROVE  Ring(g, f, d) /\ g.notch = v /\ \A n \in Int : FlagOf(g, f, n) = FlagOf(b, f, n)
  <1>1. /\ g.flag = b.flag /\ g.unit = b.unit /\ g.count = b.count /\ g.start = b.start
        /\ g.notch = v /\ g.maxPos = b.maxPos /\ g.ackPos = b.ackPos /\ g \in RingRecord
    BY DEF Ring, RingRecord
  <1>2. \A k : SlotAt(g, k) = SlotAt(b, k)
    BY <1>1 DEF SlotAt
  <1> QED BY <1>1, <1>2 DEF Ring, FlagOf

\* What is read from the start on is freed.
LEMMA TakenRing ==
    ASSUME NEW b, NEW f \in Nat, NEW d, Ring(b, f, d), NEW k \in 1..d, NEW taken,
           taken = {SlotAt(b, j) : j \in 0..k - 1}, \A j \in 0..k - 1 : b.flag[SlotAt(b, j)] # 0,
           NEW g, g = [b EXCEPT !.unit = [i \in RingSlots |-> IF i \in taken THEN NoUnit ELSE @[i]],
                                !.flag = [i \in RingSlots |-> IF i \in taken THEN 0 ELSE @[i]],
                                !.count = @ - Cardinality(taken), !.start = SlotAt(b, k)]
    PROVE  Skipped(b, f, d, g, k)
  <1>1. BufSize \in Nat /\ d \in 0..BufSize - 1 /\ b.start \in RingSlots /\ k \in 0..d
    BY RbSizes DEF Ring, RingRecord
  <1>2. \A i \in taken : b.unit[i] # NoUnit
    <2> TAKE i \in taken
    <2>1. PICK j \in 0..k - 1 : i = SlotAt(b, j)
      OBVIOUS
    <2>2. j \in 0..BufSize
      BY <1>1
    <2>3. i \in RingSlots
      BY <1>1, <2>1, <2>2, SlotIs
    <2> QED BY <2>1, <2>3 DEF Ring
  <1>3. {i \in taken : b.unit[i] # NoUnit} = taken
    BY <1>2
  <1>4. g = FreeFirst(b, k)
    BY <1>3 DEF FreeFirst
  <1> QED BY <1>1, <1>4, FreedRing

-----------------------------------------------------------------------------
(* The first loop of scanMsg.                                              *)

\* Everything from the start of the buffer to the largest number seen is there, missing, or
\* was dropped; what is missing is not acknowledged; and what was seen fits in the ring.
Received(b, f, d, cur, missing, dropped) ==
    /\ Ring(b, f, d) /\ f \in Nat \ {0} /\ cur \in 0..Packets
    /\ f + d <= cur + 1 /\ cur <= f + BufSize - 2
    /\ missing \subseteq f + d..cur /\ dropped \subseteq Sent
    /\ \A n \in Int : FlagOf(b, f, n) # 0 => n <= cur
    /\ \A n \in f..cur : FlagOf(b, f, n) # 0 \/ n \in missing \union dropped

\* A drop request has named a packet of message m.
Touched(m, dropped) == (m.first..m.last) \intersect dropped # {}

\* What is read out of order is a whole message that may be.
Wholes(b, f) ==
    \A n \in Sent : FlagOf(b, f, n) = 2 =>
       /\ ~Owner[n].ordered
       /\ \A j \in Owner[n].first..Owner[n].last : j < f \/ FlagOf(b, f, j) = 2

\* The start of the buffer lies within a message only if a drop request has named it or it
\* has been read.
Cuts(b, f, dropped) ==
    \A m \in rbMsgs : m.first < f /\ f <= m.last =>
       Touched(m, dropped) \/ \A n \in f..m.last : FlagOf(b, f, n) = 2

\* A message begins with packet f and has no hole as far as it is acknowledged.
GoodFront(b, f, d) ==
    /\ FlagOf(b, f, f) = 1 /\ Owner[f].first = f
    /\ \A n \in f..Owner[f].last : n < f + d => FlagOf(b, f, n) = 1

LEMMA FlagAt ==
    ASSUME NEW b, NEW f \in Nat, NEW d, Ring(b, f, d), NEW k \in 0..BufSize - 1
    PROVE  /\ b.flag[SlotAt(b, k)] = FlagOf(b, f, f + k)
           /\ FlagOf(b, f, f + k) # 0 => b.unit[SlotAt(b, k)] = f + k
  <1>1. f + k \in f..f + BufSize - 1 /\ f + k - f = k
    BY RbSizes
  <1>2. b.flag[SlotAt(b, k)] = FlagOf(b, f, f + k)
    BY <1>1 DEF FlagOf
  <1> QED BY <1>2 DEF Ring

LEMMA SentAre == \A n : n \in Sent <=> n \in Nat /\ 1 <= n /\ n <= Packets
  BY RbSizes DEF Sent

LEMMA GoodStartIs ==
    ASSUME Divided, NEW b, NEW f \in Nat \ {0}, NEW d, Ring(b, f, d),
           \A n \in Int : FlagOf(b, f, n) # 0 => n \in Sent
    PROVE  GoodStart(b) <=> GoodFront(b, f, d)
  <1>1. /\ BufSize \in Nat /\ BufSize >= 2 /\ d \in 0..BufSize - 1 /\ d \in Nat /\ d < BufSize
        /\ b.start \in RingSlots /\ b.ackPos = SlotAt(b, d) /\ RcvDataSize(b) = d
    <2>1. d \in 0..BufSize - 1 /\ b.start \in RingSlots /\ b.ackPos = SlotAt(b, d)
      BY DEF Ring, RingRecord
    <2> QED BY <2>1, RingSize, RbSizes
  <1>2. ASSUME NEW k \in 0..BufSize - 1
        PROVE  /\ b.flag[SlotAt(b, k)] = FlagOf(b, f, f + k)
               /\ GoesOn(b, SlotAt(b, k)) <=> FlagOf(b, f, f + k) = 1 /\ f + k # Owner[f + k].last
    <2>1. /\ b.flag[SlotAt(b, k)] = FlagOf(b, f, f + k)
          /\ FlagOf(b, f, f + k) # 0 => b.unit[SlotAt(b, k)] = f + k
      BY FlagAt
    <2>2. CASE FlagOf(b, f, f + k) = 1
      <3>1. f + k \in Int
        BY <1>1
      <3>2. f + k \in Sent
        BY <2>2, <3>1
      <3>3. Boundary(f + k) \in {1, 3} <=> f + k = Owner[f + k].last
        BY <3>2, BoundaryIs
      <3> QED BY <2>1, <2>2, <3>3 DEF GoesOn
    <2>3. CASE FlagOf(b, f, f + k) # 1
      BY <2>1, <2>3 DEF GoesOn
    <2> QED BY <2>1, <2>2, <2>3
  <1>3. b.flag[b.start] = FlagOf(b, f, f) /\ (FlagOf(b, f, f) = 1 => b.unit[b.start] = f)
    <2>1. 0 \in 0..BufSize - 1 /\ f + 0 = f
      BY <1>1
    <2>2. b.flag[SlotAt(b, 0)] = FlagOf(b, f, f) /\ (FlagOf(b, f, f) # 0 => b.unit[SlotAt(b, 0)] = f)
      BY ZenonT(30), <2>1, FlagAt
    <2> QED BY <1>1, <2>2, SlotZero
  <1>4. CASE FlagOf(b, f, f) # 1
    BY <1>3, <1>4 DEF GoodStart, GoodFront
  <1>5. CASE FlagOf(b, f, f) = 1
    <2>1. f \in Sent /\ b.unit[b.start] = f /\ b.flag[b.start] = 1
      BY <1>3, <1>5
    <2>2. Boundary(b.unit[b.start]) > 1 <=> Owner[f].first = f
      BY <2>1, BoundaryIs
    <2>3. CASE Owner[f].first # f
      BY <2>2, <2>3 DEF GoodStart, GoodFront
    <2>4. CASE Owner[f].first = f
      <3> DEFINE m == Owner[f]
      <3>1. m \in rbMsgs /\ m.last \in Nat /\ f <= m.last /\ \A n \in f..m.last : Owner[n] = m
        BY <2>1, <2>4, SentAre DEF Divided
      <3>2. ASSUME GoodFront(b, f, d) PROVE GoodStart(b)
        <4>1. ASSUME NEW k \in 0..d - 1, \A j \in 0..k - 1 : GoesOn(b, SlotAt(b, j))
              PROVE  b.flag[SlotAt(b, k)] = 1
          <5>1. k \in 0..BufSize - 1 /\ k \in Nat /\ k < d
            BY <1>1
          <5>2. f + k <= m.last
            <6> SUFFICES ASSUME f + k > m.last PROVE FALSE
              BY <3>1, <5>1
            <6>1. /\ m.last - f \in 0..k - 1 /\ m.last - f \in 0..BufSize - 1
                  /\ f + (m.last - f) = m.last
              BY <1>1, <3>1, <5>1
            <6>2. GoesOn(b, SlotAt(b, m.last - f))
              BY <4>1, <6>1
            <6>3. m.last # Owner[m.last].last
              BY <1>2, <6>1, <6>2
            <6> QED BY <3>1, <6>3
          <5>3. FlagOf(b, f, f + k) = 1
            <6>1. f + k \in f..Owner[f].last /\ f + k < f + d
              BY <1>1, <3>1, <5>1, <5>2
            <6> QED BY <3>2, <6>1 DEF GoodFront
          <5> QED BY <1>2, <5>1, <5>3
        <4> QED BY <1>1, <2>1, <2>2, <2>4, <4>1 DEF GoodStart
      <3>3. ASSUME GoodStart(b) PROVE GoodFront(b, f, d)
        <4> DEFINE Holes == {n \in f..m.last : n < f + d /\ FlagOf(b, f, n) # 1}
        <4>1. Holes = {}
          <5> SUFFICES ASSUME Holes # {} PROVE FALSE
            OBVIOUS
          <5>1. Holes \subseteq Nat
            BY <3>1
          <5>2. PICK n \in Holes : \A x \in Holes : n <= x
            <6> HIDE DEF Holes
            <6> QED BY <5>1, LeastOne
          <5>3. n \in Nat /\ f <= n /\ n <= m.last /\ n < f + d /\ FlagOf(b, f, n) # 1
            BY <3>1
          <5>4. n - f \in 0..d - 1 /\ n - f \in 0..BufSize - 1 /\ f + (n - f) = n
            BY <1>1, <5>3
          <5>5. ASSUME NEW j \in 0..n - f - 1 PROVE GoesOn(b, SlotAt(b, j))
            <6>1. j \in 0..BufSize - 1 /\ f + j \in f..m.last /\ f + j < n /\ f + j # m.last
              BY <1>1, <3>1, <5>3, <5>4
            <6>2. FlagOf(b, f, f + j) = 1
              <7> SUFFICES ASSUME FlagOf(b, f, f + j) # 1 PROVE FALSE
                OBVIOUS
              <7>1. f + j \in Holes
                BY <1>1, <3>1, <5>3, <6>1
              <7> HIDE DEF Holes
              <7> QED BY <5>2, <5>3, <6>1, <7>1
            <6>3. Owner[f + j] = m
              BY <3>1, <6>1
            <6> QED BY <1>2, <6>1, <6>2, <6>3
          <5>6. b.flag[SlotAt(b, n - f)] = 1
            BY <1>1, <3>3, <5>4, <5>5 DEF GoodStart
          <5> QED BY <1>2, <5>3, <5>4, <5>6
        <4> QED BY <1>5, <2>4, <4>1 DEF GoodFront
      <3> QED BY <3>2, <3>3
    <2> QED BY <2>3, <2>4
  <1> QED BY <1>4, <1>5

\* The first unit moves on to packet f + k: what is left behind is unread only if it was
\* dropped, and no readable message is left behind.
SkippedTo(b, f, d, dropped, g, k) ==
    /\ k \in 0..d /\ Skipped(b, f, d, g, k)
    /\ Wholes(g, f + k) /\ Cuts(g, f + k, dropped)
    /\ \A n \in f..f + k - 1 : FlagOf(b, f, n) = 1 => Touched(Owner[n], dropped)
    /\ \A m \in rbMsgs : (\A n \in m.first..m.last : FlagOf(b, f, n) = 1) => m.first >= f + k

LEMMA WholesSkip ==
    ASSUME Divided, NEW b, NEW f \in Nat \ {0}, NEW d, NEW g, NEW k \in Nat, Skipped(b, f, d, g, k), Wholes(b, f)
    PROVE  Wholes(g, f + k)
  <1> SUFFICES ASSUME NEW n \in Sent, FlagOf(g, f + k, n) = 2
               PROVE  /\ ~Owner[n].ordered
                      /\ \A j \in Owner[n].first..Owner[n].last : j < f + k \/ FlagOf(g, f + k, j) = 2
    BY DEF Wholes
  <1>1. n \in Int /\ Owner[n].first \in Int /\ Owner[n].last \in Int
    BY SentAre DEF Divided
  <1>2. FlagOf(b, f, n) = 2
    BY <1>1 DEF Skipped
  <1>3. ~Owner[n].ordered /\ \A j \in Owner[n].first..Owner[n].last : j < f \/ FlagOf(b, f, j) = 2
    BY <1>2 DEF Wholes
  <1>4. ASSUME NEW j \in Owner[n].first..Owner[n].last PROVE j < f + k \/ FlagOf(g, f + k, j) = 2
    <2>1. j \in Int
      BY <1>1
    <2>2. FlagOf(g, f + k, j) = IF j < f + k THEN 0 ELSE FlagOf(b, f, j)
      BY <2>1 DEF Skipped
    <2> QED BY <1>3, <2>1, <2>2
  <1> QED BY <1>3, <1>4

\* The start of the buffer after SkipBad.
LEMMA SkipStops ==
    ASSUME NEW b, NEW f \in Nat \ {0}, NEW d, Ring(b, f, d)
    PROVE  \E k \in 0..d : /\ SkipBad(b) = FreeFirst(b, k)
                           /\ k = d \/ GoodStart(FreeFirst(b, k))
                           /\ \A j \in 0..k - 1 : j # d /\ ~GoodStart(FreeFirst(b, j))
  <1>1. d \in Nat /\ RcvDataSize(b) = d
    <2>1. d \in 0..BufSize - 1 /\ b.start \in RingSlots /\ b.ackPos = SlotAt(b, d)
      BY DEF Ring, RingRecord
    <2> QED BY <2>1, RingSize, RbSizes
  <1> DEFINE stops(k) == k = RcvDataSize(b) \/ GoodStart(FreeFirst(b, k))
             Stops == {k \in 0..d : stops(k)}
             At0 == CHOOSE k \in 0..RcvDataSize(b) : stops(k) /\ \A j \in 0..k - 1 : ~stops(j)
  <1>2. PICK k \in Stops : \A x \in Stops : k <= x
    <2>1. Stops \subseteq Nat /\ d \in Stops
      BY <1>1
    <2> HIDE DEF Stops
    <2> QED BY <2>1, LeastOne
  <1>3. k \in 0..RcvDataSize(b) /\ stops(k) /\ \A j \in 0..k - 1 : ~stops(j)
    <2>1. k \in 0..d /\ stops(k)
      BY <1>2
    <2>2. ASSUME NEW j \in 0..k - 1 PROVE ~stops(j)
      <3>1. j \in 0..d /\ j < k
        BY <1>1, <2>1
      <3>2. j \notin Stops
        <4> HIDE DEF Stops
        <4> QED BY <1>1, <1>2, <2>1, <3>1
      <3> QED BY <3>1, <3>2
    <2> QED BY <1>1, <2>1, <2>2
  <1>4. At0 \in 0..RcvDataSize(b) /\ stops(At0) /\ \A j \in 0..At0 - 1 : ~stops(j)
    <2> HIDE DEF stops
    <2> QED BY <1>3
  <1>5. SkipBad(b) = FreeFirst(b, At0)
    BY DEF SkipBad
  <1> HIDE DEF At0
  <1> QED BY <1>1, <1>4, <1>5

LEMMA SkipKeeps ==
    ASSUME Divided, NEW b, NEW f, NEW d, NEW cur, NEW missing, NEW dropped,
           Received(b, f, d, cur, missing, dropped), Wholes(b, f), Cuts(b, f, dropped)
    PROVE  \E k \in 0..d : /\ SkippedTo(b, f, d, dropped, SkipBad(b), k)
                           /\ k = d \/ GoodFront(SkipBad(b), f + k, d - k)
  <1>1. /\ Ring(b, f, d) /\ f \in Nat \ {0} /\ d \in Nat /\ cur \in Nat /\ cur <= Packets
        /\ f + d <= cur + 1 /\ Packets \in Nat
        /\ \A n \in Int : FlagOf(b, f, n) # 0 => n \in Sent
    <2>1. Ring(b, f, d) /\ f \in Nat \ {0} /\ cur \in 0..Packets /\ f + d <= cur + 1 /\ d \in 0..BufSize - 1
      BY DEF Received, Ring
    <2>2. ASSUME NEW n \in Int, FlagOf(b, f, n) # 0 PROVE n \in Sent
      <3>1. n \in f..f + BufSize - 1 /\ n <= cur
        BY <2>2 DEF FlagOf, Received
      <3> QED BY <2>1, <3>1, SentAre, RbSizes
    <2> QED BY <2>1, <2>2, RbSizes
  <1>2. PICK k \in 0..d : /\ SkipBad(b) = FreeFirst(b, k)
                          /\ k = d \/ GoodStart(FreeFirst(b, k))
                          /\ \A j \in 0..k - 1 : j # d /\ ~GoodStart(FreeFirst(b, j))
    BY <1>1, SkipStops
  <1>3. ASSUME NEW j \in 0..d
        PROVE  /\ Skipped(b, f, d, FreeFirst(b, j), j)
               /\ GoodStart(FreeFirst(b, j)) <=> GoodFront(FreeFirst(b, j), f + j, d - j)
    <2>1. Skipped(b, f, d, FreeFirst(b, j), j)
      BY <1>1, FreedRing
    <2>2. f + j \in Nat \ {0} /\ Ring(FreeFirst(b, j), f + j, d - j)
      BY <1>1, <2>1 DEF Skipped
    <2>3. \A n \in Int : FlagOf(FreeFirst(b, j), f + j, n) # 0 => n \in Sent
      BY <1>1, <2>1 DEF Skipped
    <2> QED BY <2>1, <2>2, <2>3, GoodStartIs
  <1>4. ASSUME NEW n \in f..f + d - 1
        PROVE  n \in Sent /\ (FlagOf(b, f, n) = 0 => n \in dropped)
    <2>1. n \in f..cur /\ n < f + d /\ n \in Sent
      BY <1>1, SentAre
    <2>2. n \notin missing
      <3>1. missing \subseteq f + d..cur
        BY DEF Received
      <3> QED BY <1>1, <2>1, <3>1
    <2> QED BY <2>1, <2>2 DEF Received
  <1>5. ASSUME NEW n \in Sent
        PROVE  /\ Owner[n] \in rbMsgs /\ Owner[n].first \in Nat /\ Owner[n].last \in Nat
               /\ Owner[n].first <= n /\ n <= Owner[n].last /\ n \in Nat
               /\ \A j \in Owner[n].first..Owner[n].last : Owner[j] = Owner[n]
    BY SentAre DEF Divided
  \* A start that is not good: its message is not to be read.
  <1>6. ASSUME NEW j \in 0..k - 1, FlagOf(b, f, f + j) = 1, Owner[f + j].first = f + j
        PROVE  Touched(Owner[f + j], dropped) /\ Owner[f + j].last > f + j
               /\ \E n \in f + j..Owner[f + j].last : FlagOf(b, f, n) # 1
    <2>1. j \in 0..d /\ j < d /\ ~GoodFront(FreeFirst(b, j), f + j, d - j) /\ f + j \in f..f + d - 1
      BY <1>1, <1>2, <1>3
    <2>2. \A n \in Int : n >= f + j => FlagOf(FreeFirst(b, j), f + j, n) = FlagOf(b, f, n)
      BY <1>1, <1>3, <2>1 DEF Skipped
    <2>3. f + j \in Sent /\ f + j + (d - j) = f + d
      BY <1>1, <1>4, <2>1
    <2>4. PICK n \in f + j..Owner[f + j].last : n < f + d /\ FlagOf(b, f, n) # 1
      <3>1. FlagOf(FreeFirst(b, j), f + j, f + j) = 1
        BY <1>1, <1>6, <2>2
      <3>2. PICK n \in f + j..Owner[f + j].last :
              n < f + j + (d - j) /\ FlagOf(FreeFirst(b, j), f + j, n) # 1
        BY <1>6, <2>1, <3>1 DEF GoodFront
      <3>3. n \in Int /\ n >= f + j
        BY <1>1, <3>2
      <3> QED BY <2>2, <2>3, <3>2, <3>3
    <2>5. /\ n \in Nat /\ n # f + j /\ n > f + j /\ n \in f..f + d - 1 /\ n \in Sent
          /\ n \in Owner[f + j].first..Owner[f + j].last
      <3>1. n \in Nat /\ n >= f + j /\ n # f + j
        BY <1>1, <1>6, <2>4
      <3>2. n \in f..f + d - 1
        BY <1>1, <2>4, <3>1
      <3> QED BY <1>1, <1>4, <1>6, <2>4, <3>1, <3>2
    <2>6. Owner[n] = Owner[f + j] /\ Owner[f + j].last \in Nat
      BY <1>5, <2>3, <2>5
    <2>7. Owner[f + j].last > f + j
      BY <1>1, <2>4, <2>5, <2>6
    <2>8. FlagOf(b, f, n) # 2
      <3> SUFFICES ASSUME FlagOf(b, f, n) = 2 PROVE FALSE
        OBVIOUS
      <3>1. f + j \in Owner[n].first..Owner[n].last
        BY <1>5, <2>3, <2>6
      <3>2. f + j < f \/ FlagOf(b, f, f + j) = 2
        BY <2>5, <3>1 DEF Wholes
      <3> QED BY <1>1, <1>6, <3>2
    <2>9. FlagOf(b, f, n) \in 0..2
      BY <1>1, <2>5, FlagsAre
    <2>10. n \in dropped
      BY <1>4, <2>4, <2>5, <2>8, <2>9
    <2> QED BY <2>4, <2>5, <2>7, <2>10 DEF Touched
  <1> DEFINE CutAt(j) == \A m \in rbMsgs : m.first < f + j /\ f + j <= m.last =>
                            Touched(m, dropped) \/ \A n \in f + j..m.last : FlagOf(b, f, n) = 2
             Cutting == {j \in Nat : j <= k => CutAt(j)}
  <1>7. ASSUME NEW m \in rbMsgs
        PROVE  m.first \in Sent /\ m.first \in Nat /\ m.last \in Nat /\ m.first <= m.last
               /\ \A n \in m.first..m.last : n \in Sent /\ Owner[n] = m
    <2>1. /\ m.first \in Sent /\ m.last \in m.first..Packets
          /\ \A n \in m.first..m.last : Owner[n] = m
      BY DEF Divided
    <2>2. m.first \in Nat /\ 1 <= m.first /\ Packets \in Nat
      BY <2>1, SentAre, RbSizes
    <2>3. \A n \in m.first..m.last : n \in Sent
      BY <2>1, <2>2, SentAre
    <2> QED BY <2>1, <2>2, <2>3
  <1>8. Cutting = Nat
    <2>1. 0 \in Cutting
      BY <1>1 DEF Cuts
    <2>2. ASSUME NEW j \in Cutting PROVE j + 1 \in Cutting
      <3> SUFFICES ASSUME j + 1 <= k, NEW m \in rbMsgs, m.first < f + (j + 1), f + (j + 1) <= m.last,
                          ~Touched(m, dropped), NEW n \in f + (j + 1)..m.last
                   PROVE  FlagOf(b, f, n) = 2
        OBVIOUS
      <3>0. j \in Nat /\ j \in 0..k - 1 /\ k \in Nat /\ k <= d /\ CutAt(j)
        BY <1>1
      <3>1. n \in Int /\ n > f + j /\ m.first \in Nat /\ m.last \in Nat /\ n <= m.last
        BY <1>1, <1>7, <3>0
      <3>2. CASE m.first < f + j
        <4>1. f + j <= m.last /\ n \in f + j..m.last
          BY <1>1, <3>0, <3>1
        <4> QED BY <3>0, <3>2, <4>1
      <3>3. CASE m.first = f + j
        <4>1. f + j \in m.first..m.last /\ f + j \in f..f + d - 1 /\ f + j \in Int
          BY <1>1, <3>0, <3>1, <3>3
        <4>2. Owner[f + j] = m /\ f + j \in Sent
          BY <1>7, <4>1
        <4>3. FlagOf(b, f, f + j) # 0
          BY <1>4, <4>1 DEF Touched
        <4>4. FlagOf(b, f, f + j) # 1
          BY <1>6, <3>0, <3>3, <4>2
        <4>5. FlagOf(b, f, f + j) = 2
          BY <1>1, <4>1, <4>3, <4>4, FlagsAre
        <4>6. n \in Owner[f + j].first..Owner[f + j].last
          BY <3>1, <3>3, <4>2, <1>1, <3>0
        <4>7. n < f \/ FlagOf(b, f, n) = 2
          BY <4>2, <4>5, <4>6 DEF Wholes
        <4> QED BY <1>1, <3>0, <3>1, <4>7
      <3> QED BY <1>1, <3>0, <3>1, <3>2, <3>3
    <2>3. Cutting \in SUBSET Nat
      OBVIOUS
    <2> HIDE DEF Cutting
    <2> QED BY <2>1, <2>2, <2>3, ByInduction
  <1>9. \A j \in 0..k : CutAt(j)
    <2> TAKE j \in 0..k
    <2>1. j \in Nat /\ j <= k
      BY <1>1
    <2> HIDE DEF CutAt
    <2> QED BY <1>8, <2>1
  <1> HIDE DEF Cutting
  <1> DEFINE g == SkipBad(b)
  <1>10. Skipped(b, f, d, g, k) /\ (k = d \/ GoodFront(g, f + k, d - k))
    BY <1>2, <1>3
  <1>11. Wholes(g, f + k)
    <2>1. k \in Nat
      BY <1>1
    <2> HIDE DEF g
    <2> QED BY <1>1, <1>10, <2>1, WholesSkip
  <1>12. Cuts(g, f + k, dropped)
    <2> SUFFICES ASSUME NEW m \in rbMsgs, m.first < f + k, f + k <= m.last, ~Touched(m, dropped),
                        NEW n \in f + k..m.last
                 PROVE  FlagOf(g, f + k, n) = 2
      BY DEF Cuts
    <2>1. n \in Int /\ n >= f + k
      BY <1>1, <1>7
    <2>2. k \in 0..k
      BY <1>1
    <2>3. FlagOf(b, f, n) = 2
      BY <1>9, <2>2
    <2>4. FlagOf(g, f + k, n) = IF n < f + k THEN 0 ELSE FlagOf(b, f, n)
      BY <1>10, <2>1 DEF Skipped
    <2> QED BY <1>1, <2>1, <2>3, <2>4
  <1>13. ASSUME NEW n \in f..f + k - 1, FlagOf(b, f, n) = 1 PROVE Touched(Owner[n], dropped)
    <2>1. /\ n \in f..f + d - 1 /\ n - f \in 0..k - 1 /\ f + (n - f) = n /\ n \in Nat
          /\ n - f \in 0..k /\ n - f + 1 \in 0..k /\ f + (n - f + 1) = n + 1
      BY <1>1
    <2>2. n \in Sent
      BY <1>4, <2>1
    <2>3. /\ Owner[n] \in rbMsgs /\ Owner[n].first \in Nat /\ Owner[n].last \in Nat
          /\ Owner[n].first <= n /\ n <= Owner[n].last
      BY <1>5, <2>2
    <2>4. CASE Owner[n].first = n
      BY <1>6, <1>13, <2>1, <2>4
    <2>5. CASE Owner[n].first < n
      <3>1. CutAt(n - f)
        BY <1>9, <2>1
      <3>2. Touched(Owner[n], dropped) \/ \A x \in n..Owner[n].last : FlagOf(b, f, x) = 2
        BY <2>1, <2>3, <2>5, <3>1
      <3>3. n \in n..Owner[n].last
        BY <2>1, <2>3
      <3> QED BY <1>13, <3>2, <3>3
    <2> QED BY <2>1, <2>3, <2>4, <2>5
  <1>14. ASSUME NEW m \in rbMsgs, \A n \in m.first..m.last : FlagOf(b, f, n) = 1
         PROVE  m.first >= f + k
    <2> SUFFICES ASSUME m.first < f + k PROVE FALSE
      BY <1>1, <1>7
    <2>1. m.first \in m.first..m.last /\ m.first \in Nat
      BY <1>7
    <2>2. FlagOf(b, f, m.first) = 1
      BY <1>14, <2>1
    <2>3. m.first >= f
      BY <1>1, <2>1, <2>2 DEF FlagOf
    <2>4. m.first - f \in 0..k - 1 /\ f + (m.first - f) = m.first
      BY <1>1, <2>1, <2>3
    <2>5. Owner[m.first] = m
      BY <1>7, <2>1
    <2>6. PICK n \in m.first..m.last : FlagOf(b, f, n) # 1
      BY <1>6, <2>2, <2>4, <2>5
    <2> QED BY <1>14, <2>6
  <1>15. SkippedTo(b, f, d, dropped, g, k)
    <2> HIDE DEF g
    <2> QED BY <1>10, <1>11, <1>12, <1>13, <1>14 DEF SkippedTo
  <1> QED BY <1>10, <1>15

-----------------------------------------------------------------------------
(* The second loop of scanMsg.                                             *)

\* Message m is there as a whole and may be read.
Complete(b, f, d, m) ==
    /\ \A n \in m.first..m.last : FlagOf(b, f, n) = 1
    /\ m.last < f + d \/ ~m.ordered

Scans == [p : {-1} \union RingSlots, q : RingSlots, passack : BOOLEAN, found : BOOLEAN]

\* The search is before packet f + k: p is the head of a message without a hole so far, if
\* there is one, and no message that may be read lies behind.
Searching(b, f, d, k, s) ==
    /\ s.q = SlotAt(b, k) /\ (s.passack <=> k >= d)
    /\ s.p = -1 => \A m \in rbMsgs : m.first \in f..f + k - 1 =>
                      \E n \in m.first..f + k - 1 : FlagOf(b, f, n) # 1
    /\ s.p # -1 => \E h \in 0..k - 1 :
                      /\ s.p = SlotAt(b, h) /\ Owner[f + h].first = f + h
                      /\ \A n \in f + h..f + k - 1 : FlagOf(b, f, n) = 1
                      /\ \A n \in f + h + 1..f + k - 1 : Owner[n].first # n
    /\ \A m \in rbMsgs : Complete(b, f, d, m) => m.last >= f + k

\* The search has found message m, which is the first one that may be read.
Found(b, f, d, s, m) ==
    /\ m \in rbMsgs /\ Complete(b, f, d, m)
    /\ s.p = SlotAt(b, m.first - f) /\ s.q = SlotAt(b, m.last - f)
    /\ s.passack <=> m.last >= f + d
    /\ \A x \in rbMsgs : Complete(b, f, d, x) => m.last <= x.last

SearchAt(b, f, d, k, s) ==
    /\ s \in Scans
    /\ ~s.found => Searching(b, f, d, k, s)
    /\ s.found => \E m \in rbMsgs : Found(b, f, d, s, m)

LEMMA TurnTypes ==
    ASSUME NEW b, NEW s \in Scans PROVE SearchTurn(b, s) \in Scans
  <1>1. \A i \in RingSlots : After(i) \in RingSlots
    BY RbSizes DEF After
  <1> DEFINE occupied == b.flag[s.q] = 1
             bound == IF occupied THEN Boundary(b.unit[s.q]) ELSE 0
             head == IF ~occupied THEN -1 ELSE IF bound \in {2, 3} THEN s.q ELSE s.p
             found == /\ bound = 3 \/ (bound = 1 /\ head # -1)
                      /\ ~s.passack \/ ~MsgOf(b.unit[s.q]).ordered
  <1>2. head \in {-1} \union RingSlots
    BY DEF Scans
  <1>3. SearchTurn(b, s) = IF found THEN [s EXCEPT !.p = head, !.found = TRUE]
                           ELSE [s EXCEPT !.p = head, !.q = After(s.q),
                                          !.passack = @ \/ After(s.q) = b.ackPos]
    BY DEF SearchTurn
  <1> HIDE DEF head, found
  <1>4. [s EXCEPT !.p = head, !.found = TRUE] \in Scans
    BY <1>2 DEF Scans
  <1>5. [s EXCEPT !.p = head, !.q = After(s.q), !.passack = @ \/ After(s.q) = b.ackPos] \in Scans
    BY <1>1, <1>2 DEF Scans
  <1> QED BY <1>3, <1>4, <1>5

LEMMA SearchTurnKeeps ==
    ASSUME Divided, NEW b, NEW f \in Nat \ {0}, NEW d, Ring(b, f, d),
           \A n \in Int : FlagOf(b, f, n) # 0 => n \in Sent,
           NEW k \in 0..BufSize - 1, NEW s \in Scans, ~s.found, Searching(b, f, d, k, s)
    PROVE  SearchAt(b, f, d, k + 1, SearchTurn(b, s))
  <1> DEFINE n == f + k
             t == SearchTurn(b, s)
             occupied == b.flag[s.q] = 1
             bound == IF occupied THEN Boundary(b.unit[s.q]) ELSE 0
             head == IF ~occupied THEN -1 ELSE IF bound \in {2, 3} THEN s.q ELSE s.p
             found == /\ bound = 3 \/ (bound = 1 /\ head # -1)
                      /\ ~s.passack \/ ~MsgOf(b.unit[s.q]).ordered
  <1>1. /\ BufSize \in Nat /\ BufSize >= 2 /\ k \in Nat /\ k < BufSize /\ n \in Nat /\ f \in Nat /\ n >= f
        /\ d \in Nat /\ d \in 0..BufSize - 1 /\ b.start \in RingSlots /\ b.ackPos = SlotAt(b, d)
    BY RbSizes DEF Ring, RingRecord
  <1>2. /\ s.q = SlotAt(b, k) /\ (s.passack <=> k >= d) /\ s.passack \in BOOLEAN
        /\ b.flag[s.q] = FlagOf(b, f, n) /\ (FlagOf(b, f, n) # 0 => b.unit[s.q] = n)
    <2>1. s.q = SlotAt(b, k) /\ (s.passack <=> k >= d)
      BY DEF Searching
    <2>2. s.passack \in BOOLEAN
      BY DEF Scans
    <2> QED BY ZenonT(30), <2>1, <2>2, FlagAt
  <1>3. t = IF found THEN [s EXCEPT !.p = head, !.found = TRUE]
            ELSE [s EXCEPT !.p = head, !.q = After(s.q), !.passack = @ \/ After(s.q) = b.ackPos]
    BY DEF SearchTurn
  <1>4. t \in Scans
    BY TurnTypes
  <1>5. FlagOf(b, f, n) = 1 => n \in Sent /\ Owner[n] \in rbMsgs /\ Owner[n] = MsgOf(n)
                               /\ b.unit[s.q] = n
    BY <1>1, <1>2 DEF Divided, Owner
  <1>6. /\ occupied <=> FlagOf(b, f, n) = 1
        /\ occupied => /\ bound \in {2, 3} <=> Owner[n].first = n
                       /\ bound = 3 <=> Owner[n].first = n /\ Owner[n].last = n
                       /\ bound = 1 <=> Owner[n].first # n /\ Owner[n].last = n
        /\ ~occupied => bound = 0
    <2>1. occupied <=> FlagOf(b, f, n) = 1
      BY <1>2
    <2>2. ASSUME occupied
          PROVE  /\ bound \in {2, 3} <=> Owner[n].first = n
                 /\ bound = 3 <=> Owner[n].first = n /\ Owner[n].last = n
                 /\ bound = 1 <=> Owner[n].first # n /\ Owner[n].last = n
      <3>1. n \in Sent /\ bound = Boundary(n)
        BY <1>5, <2>1, <2>2
      <3> HIDE DEF bound, occupied, n
      <3> QED BY <3>1, BoundaryIs
    <2> QED BY <2>1, <2>2
  <1>7. head = IF FlagOf(b, f, n) # 1 THEN -1 ELSE IF Owner[n].first = n THEN s.q ELSE s.p
    BY <1>6
  <1>8. found <=> /\ FlagOf(b, f, n) = 1 /\ Owner[n].last = n
                  /\ Owner[n].first = n \/ s.p # -1
                  /\ k < d \/ ~Owner[n].ordered
    <2>1. s.q # -1
      <3>1. s.q \in RingSlots
        BY DEF Scans
      <3> QED BY <3>1, RbSizes
    <2>2. CASE FlagOf(b, f, n) # 1
      BY <1>6, <2>2
    <2>3. CASE FlagOf(b, f, n) = 1
      <3>1. MsgOf(b.unit[s.q]) = Owner[n]
        BY <1>5, <2>3
      <3>2. ~s.passack <=> k < d
        BY <1>1, <1>2
      <3>3. (bound = 3 \/ (bound = 1 /\ head # -1)) <=>
              Owner[n].last = n /\ (Owner[n].first = n \/ s.p # -1)
        BY <1>6, <1>7, <2>1, <2>3
      <3> QED BY <2>3, <3>1, <3>2, <3>3
    <2> QED BY <2>2, <2>3
  <1> HIDE DEF head, found, bound, occupied, t
  <1>9. ASSUME NEW m \in rbMsgs
        PROVE  /\ m.first \in Nat /\ m.last \in Nat /\ m.first <= m.last
               /\ \A j \in m.first..m.last : Owner[j] = m
               /\ Complete(b, f, d, m) => m.first >= f
    <2>1. /\ m.first \in Nat /\ m.last \in Nat /\ m.first <= m.last
          /\ \A j \in m.first..m.last : Owner[j] = m
      BY SentAre DEF Divided
    <2>2. ASSUME Complete(b, f, d, m) PROVE m.first >= f
      <3>1. m.first \in m.first..m.last
        BY <2>1
      <3>2. FlagOf(b, f, m.first) = 1
        BY <2>2, <3>1 DEF Complete
      <3> QED BY <1>1, <2>1, <3>2 DEF FlagOf
    <2> QED BY <2>1, <2>2
  <1>10. ASSUME s.p # -1
         PROVE  \E h \in 0..k - 1 :
                      /\ s.p = SlotAt(b, h) /\ Owner[f + h].first = f + h
                      /\ \A j \in f + h..n - 1 : FlagOf(b, f, j) = 1
                      /\ \A j \in f + h + 1..n - 1 : Owner[j].first # j
    BY <1>10 DEF Searching
  <1>11. ASSUME s.p = -1, NEW m \in rbMsgs, m.first \in f..n - 1
         PROVE  \E j \in m.first..n - 1 : FlagOf(b, f, j) # 1
    BY <1>11 DEF Searching
  <1>12. \A m \in rbMsgs : Complete(b, f, d, m) => m.last >= n
    BY DEF Searching
  <1>13. CASE found
    <2> DEFINE m == Owner[n]
    <2>1. /\ FlagOf(b, f, n) = 1 /\ m.last = n /\ m \in rbMsgs /\ (k < d \/ ~m.ordered)
          /\ m.first \in Nat /\ m.first <= n
      BY <1>5, <1>8, <1>9, <1>13
    <2>2. t.found /\ t.p = head /\ t.q = s.q /\ t.passack = s.passack
      BY <1>3, <1>13 DEF Scans
    <2>3. (\A j \in m.first..m.last : FlagOf(b, f, j) = 1) /\ head = SlotAt(b, m.first - f) /\ m.first >= f
      <3>1. CASE m.first = n
        <4>1. m.first - f = k /\ \A j \in m.first..m.last : j = n
          BY <1>1, <2>1, <3>1
        <4> QED BY <1>1, <1>2, <1>7, <2>1, <3>1, <4>1
      <3>2. CASE m.first # n
        <4>1. s.p # -1 /\ head = s.p
          BY <1>7, <1>8, <1>13, <2>1, <3>2
        <4>2. PICK h \in 0..k - 1 :
                      /\ s.p = SlotAt(b, h) /\ Owner[f + h].first = f + h
                      /\ \A j \in f + h..n - 1 : FlagOf(b, f, j) = 1
                      /\ \A j \in f + h + 1..n - 1 : Owner[j].first # j
          BY <1>10, <4>1
        <4>3. h \in Nat /\ f + h \in Nat /\ f + h <= n - 1 /\ m.first <= n - 1
          BY <1>1, <2>1, <3>2, <4>2
        <4>4. m.first <= f + h
          <5> SUFFICES ASSUME m.first > f + h PROVE FALSE
            BY <2>1, <4>3
          <5>1. m.first \in f + h + 1..n - 1 /\ m.first \in m.first..m.last
            BY <2>1, <4>3
          <5>2. Owner[m.first] = m
            BY <1>9, <2>1, <5>1
          <5> QED BY <4>2, <5>1, <5>2
        <4>5. f + h \in m.first..m.last
          BY <2>1, <4>3, <4>4, <1>1
        <4>6. Owner[f + h] = m
          BY <1>9, <2>1, <4>5
        <4>7. m.first = f + h /\ m.first - f = h
          BY <1>1, <4>2, <4>3, <4>6
        <4>8. \A j \in m.first..m.last : j = n \/ j \in f + h..n - 1
          BY <1>1, <2>1, <4>7
        <4> QED BY <1>1, <2>1, <4>1, <4>2, <4>3, <4>7, <4>8
      <3> QED BY <3>1, <3>2
    <2>4. Complete(b, f, d, m)
      <3>1. k < d => m.last < f + d
        BY <1>1, <2>1
      <3> QED BY <2>1, <2>3, <3>1 DEF Complete
    <2>5. m.last - f = k /\ (t.passack <=> m.last >= f + d)
      BY <1>1, <1>2, <2>1, <2>2
    <2>6. Found(b, f, d, t, m)
      <3> HIDE DEF m
      <3> QED BY <1>2, <1>12, <2>1, <2>2, <2>3, <2>4, <2>5 DEF Found
    <2>7. \E x \in rbMsgs : Found(b, f, d, t, x)
      BY <2>1, <2>6
    <2>8. t.found
      BY <2>2
    <2> QED BY ONLY <1>4, <2>7, <2>8 DEF SearchAt, t
  <1>14. CASE ~found
    <2>1. ~t.found /\ t.p = head /\ t.q = After(s.q) /\ (t.passack <=> s.passack \/ After(s.q) = b.ackPos)
      BY <1>3, <1>14 DEF Scans
    <2>2. t.q = SlotAt(b, k + 1)
      BY <1>1, <1>2, <2>1, SlotNext
    <2>3. t.passack <=> k + 1 >= d
      <3>1. CASE k >= d
        BY <1>1, <1>2, <2>1, <3>1
      <3>2. CASE k < d
        <4>1. k + 1 \in 0..BufSize - 1
          BY <1>1, <3>2
        <4>2. SlotAt(b, k + 1) = SlotAt(b, d) <=> k + 1 = d
          BY <1>1, <4>1, SlotDiffer
        <4> QED BY <1>1, <1>2, <2>1, <2>2, <3>2, <4>2
      <3> QED BY <1>1, <3>1, <3>2
    <2>4. ASSUME t.p = -1, NEW m \in rbMsgs, m.first \in f..f + (k + 1) - 1
          PROVE  \E j \in m.first..f + (k + 1) - 1 : FlagOf(b, f, j) # 1
      <3>1. m.first \in f..n /\ f + (k + 1) - 1 = n /\ n \in m.first..n
        BY <1>1, <2>4
      <3>2. CASE FlagOf(b, f, n) # 1
        BY <3>1, <3>2
      <3>3. CASE FlagOf(b, f, n) = 1
        <4>1. Owner[n].first # n /\ s.p = -1
          <5>1. s.q # -1
            <6>1. s.q \in RingSlots
              BY DEF Scans
            <6> QED BY <6>1, RbSizes
          <5> QED BY <1>7, <2>1, <2>4, <3>3, <5>1
        <4>2. m.first # n
          <5> SUFFICES ASSUME m.first = n PROVE FALSE
            OBVIOUS
          <5>1. n \in m.first..m.last
            BY <1>1, <1>9
          <5> QED BY <1>9, <4>1, <5>1
        <4>3. m.first \in f..n - 1
          BY <1>1, <3>1, <4>2
        <4>4. PICK j \in m.first..n - 1 : FlagOf(b, f, j) # 1
          BY <1>11, <4>1, <4>3
        <4>5. j \in m.first..n
          BY <1>1, <4>4
        <4> QED BY <3>1, <4>4, <4>5
      <3> QED BY <3>2, <3>3
    <2>5. ASSUME t.p # -1
          PROVE  \E h \in 0..k + 1 - 1 :
                      /\ t.p = SlotAt(b, h) /\ Owner[f + h].first = f + h
                      /\ \A j \in f + h..f + (k + 1) - 1 : FlagOf(b, f, j) = 1
                      /\ \A j \in f + h + 1..f + (k + 1) - 1 : Owner[j].first # j
      <3>1. FlagOf(b, f, n) = 1 /\ f + (k + 1) - 1 = n
        BY <1>1, <1>7, <2>1, <2>5
      <3>2. CASE Owner[n].first = n
        <4>1. t.p = SlotAt(b, k)
          BY <1>2, <1>7, <2>1, <3>1, <3>2
        <4>2. k \in 0..k + 1 - 1 /\ (\A j \in f + k..n : j = n) /\ f + k + 1..n = {}
          BY <1>1
        <4> QED BY <3>1, <3>2, <4>1, <4>2
      <3>3. CASE Owner[n].first # n
        <4>1. t.p = s.p
          BY <1>7, <2>1, <3>1, <3>3
        <4>2. PICK h \in 0..k - 1 :
                      /\ s.p = SlotAt(b, h) /\ Owner[f + h].first = f + h
                      /\ \A j \in f + h..n - 1 : FlagOf(b, f, j) = 1
                      /\ \A j \in f + h + 1..n - 1 : Owner[j].first # j
          BY <1>10, <2>5, <4>1
        <4>3. /\ h \in 0..k + 1 - 1
              /\ \A j \in f + h..n : j = n \/ j \in f + h..n - 1
              /\ \A j \in f + h + 1..n : j = n \/ j \in f + h + 1..n - 1
          BY <1>1, <4>2
        <4>4. /\ \A j \in f + h..n : FlagOf(b, f, j) = 1
              /\ \A j \in f + h + 1..n : Owner[j].first # j
          BY <3>1, <3>3, <4>2, <4>3
        <4> HIDE DEF n
        <4> QED BY <3>1, <4>1, <4>2, <4>3, <4>4
      <3> QED BY <3>2, <3>3
    <2>6. ASSUME NEW m \in rbMsgs, Complete(b, f, d, m) PROVE m.last >= f + (k + 1)
      <3> SUFFICES ASSUME m.last = n PROVE FALSE
        <4>1. m.last >= n /\ m.last \in Nat
          BY <1>9, <1>12, <2>6
        <4> QED BY <1>1, <4>1
      <3>1. /\ m.first \in Nat /\ m.first <= n /\ n \in m.first..m.last /\ m.first >= f
            /\ m.first \in m.first..m.last
        BY <1>1, <1>9, <2>6
      <3>2. Owner[n] = m /\ FlagOf(b, f, n) = 1
        BY <1>9, <2>6, <3>1 DEF Complete
      <3>3. k < d \/ ~m.ordered
        BY <1>1, <2>6 DEF Complete
      <3>4. m.first # n /\ s.p = -1
        BY <1>8, <1>14, <3>2, <3>3
      <3>5. m.first \in f..n - 1
        BY <1>1, <3>1, <3>4
      <3>6. PICK j \in m.first..n - 1 : FlagOf(b, f, j) # 1
        BY <1>11, <3>4, <3>5
      <3>7. j \in m.first..m.last
        BY <1>1, <3>1, <3>6
      <3> QED BY <2>6, <3>6, <3>7 DEF Complete
    <2>7. Searching(b, f, d, k + 1, t)
      BY <2>2, <2>3, <2>4, <2>5, <2>6 DEF Searching
    <2>8. ~t.found
      BY <2>1
    <2> QED BY ONLY <1>4, <2>7, <2>8 DEF SearchAt, t
  <1>15. SearchAt(b, f, d, k + 1, t)
    BY ONLY <1>13, <1>14 DEF t
  <1> QED BY ONLY <1>15 DEF t

\* How the second loop begins, and its runs of n turns.
ScanBegin(b) == [p |-> -1, q |-> b.start, passack |-> b.start = b.ackPos, found |-> FALSE]

Searches(b, n) ==
    {r \in [0..n -> Scans] :
        /\ r[0] = ScanBegin(b)
        /\ \A k \in 1..n : r[k] = IF r[k - 1].found THEN r[k - 1] ELSE SearchTurn(b, r[k - 1])}

\* What the search makes of the loop's last turn.
SearchEnd(s) == IF ~s.found /\ s.p # -1 /\ After(s.q) = s.p THEN [s EXCEPT !.found = TRUE] ELSE s

LEMMA SearchRuns ==
    ASSUME NEW b, b.start \in RingSlots, NEW n \in Nat, n = b.maxPos + RcvDataSize(b) + 1
    PROVE  \E r \in Searches(b, n) : Search(b) = SearchEnd(r[n])
  <1> DEFINE x == ScanBegin(b)
             Turn(s) == IF s.found THEN s ELSE SearchTurn(b, s)
             Body(f) == [k \in 0..n |->
               IF k = 0 THEN [p |-> -1, q |-> b.start, passack |-> b.start = b.ackPos, found |-> FALSE]
               ELSE IF f[k - 1].found THEN f[k - 1] ELSE SearchTurn(b, f[k - 1])]
             g == [k \in 1..n |-> [s \in Scans |-> Turn(s)]]
             loop == CHOOSE f : f = Body(f)
  <1>0. x \in Scans
    BY DEF ScanBegin, Scans
  <1>1. \A s \in Scans : Turn(s) \in Scans
    BY TurnTypes
  <1>2. g \in [1..n -> [Scans -> Scans]]
    <2> HIDE DEF Turn
    <2> QED BY <1>1
  <1>3. PICK f : f \in Loops(n, Scans, x, g)
    <2> HIDE DEF g, x
    <2> QED BY SMTT(30), <1>0, <1>2, LoopRuns
  <1>4. f = Body(f)
    <2>1. /\ f \in [0..n -> Scans] /\ f[0] = x
          /\ \A k \in 1..n : f[k] = g[k][f[k - 1]]
      BY <1>3 DEF Loops
    <2>2. \A k \in 1..n : f[k] = Turn(f[k - 1])
      <3> TAKE k \in 1..n
      <3> HIDE DEF g, Turn, x
      <3>1. f[k - 1] \in Scans /\ f[k] = g[k][f[k - 1]]
        BY <2>1
      <3>2. g[k] = [s \in Scans |-> Turn(s)]
        BY DEF g
      <3> QED BY <3>1, <3>2
    <2>3. \A k \in 0..n : f[k] = IF k = 0 THEN x ELSE Turn(f[k - 1])
      <3> HIDE DEF Turn, g, x
      <3> QED BY <2>1, <2>2
    <2>4. Body(f) = [k \in 0..n |-> IF k = 0 THEN x ELSE Turn(f[k - 1])]
      BY Zenon DEF ScanBegin
    <2> HIDE DEF g, Turn, x, Body
    <2> QED BY <2>1, <2>3, <2>4
  <1>5. loop = Body(loop)
    <2> HIDE DEF Body
    <2> QED BY <1>4, Zenon DEF loop
  <1>6. Search(b) = SearchEnd(loop[n])
    BY DEF Search, SearchEnd
  <1> HIDE DEF loop
  <1>7. loop[0] = x /\ \A k \in 1..n : loop[k] = Turn(loop[k - 1])
    <2>1. Body(loop) = [k \in 0..n |-> IF k = 0 THEN x ELSE Turn(loop[k - 1])]
      BY Zenon DEF ScanBegin
    <2>2. loop = [k \in 0..n |-> IF k = 0 THEN x ELSE Turn(loop[k - 1])]
      <3> HIDE DEF Body, x, Turn
      <3> QED BY <1>5, <2>1
    <2> HIDE DEF Body, x, Turn
    <2> QED BY <2>2
  <1>8. loop = [k \in 0..n |-> loop[k]]
    BY <1>5
  <1> HIDE DEF Turn, x, g, Body
  <1>9. \A k \in 0..n : loop[k] \in Scans
    <2> DEFINE In == {k \in Nat : k <= n => loop[k] \in Scans}
    <2>1. 0 \in In
      BY <1>0, <1>7
    <2>2. ASSUME NEW k \in In PROVE k + 1 \in In
      <3> SUFFICES ASSUME k + 1 <= n PROVE loop[k + 1] \in Scans
        OBVIOUS
      <3>1. loop[k] \in Scans /\ loop[k + 1] = Turn(loop[k])
        BY <1>7
      <3> QED BY <1>1, <3>1
    <2>3. In = Nat
      <3> HIDE DEF In
      <3>1. In \in SUBSET Nat
        BY DEF In
      <3> QED BY <2>1, <2>2, <3>1, ByInduction
    <2> QED BY <2>3
  <1>10. loop \in [0..n -> Scans]
    BY <1>8, <1>9
  <1>11. loop \in Searches(b, n)
    BY <1>7, <1>10 DEF Searches, Turn, x
  <1> QED BY <1>6, <1>11

\* No turn finds anything but the first message that may be read.
LEMMA SearchKeeps ==
    ASSUME Divided, NEW b, NEW f \in Nat \ {0}, NEW d, Ring(b, f, d),
           \A n \in Int : FlagOf(b, f, n) # 0 => n \in Sent,
           NEW n \in 0..BufSize, NEW r \in Searches(b, n)
    PROVE  SearchAt(b, f, d, n, r[n])
  <1>1. /\ BufSize \in Nat /\ BufSize >= 2 /\ n \in Nat /\ d \in 0..BufSize - 1
        /\ b.start \in RingSlots /\ b.ackPos = SlotAt(b, d)
    BY RbSizes DEF Ring, RingRecord
  <1>2. /\ r \in [0..n -> Scans] /\ r[0] = ScanBegin(b)
        /\ \A k \in 1..n : r[k] = IF r[k - 1].found THEN r[k - 1] ELSE SearchTurn(b, r[k - 1])
    BY DEF Searches
  <1> DEFINE In == {k \in Nat : k <= n => SearchAt(b, f, d, k, r[k])}
  <1>3. 0 \in In
    <2> DEFINE s == ScanBegin(b)
    <2>1. s.p = -1 /\ s.q = b.start /\ (s.passack <=> b.start = b.ackPos) /\ ~s.found
      BY DEF ScanBegin
    <2>2. s \in Scans
      BY <1>2
    <2> HIDE DEF s
    <2>3. s.q = SlotAt(b, 0)
      BY <1>1, <2>1, SlotZero
    <2>4. s.passack <=> 0 >= d
      <3>1. 0 \in 0..BufSize - 1 /\ (0 = d <=> 0 >= d)
        BY <1>1
      <3>2. SlotAt(b, 0) = SlotAt(b, d) <=> 0 = d
        BY <1>1, <3>1, SlotDiffer
      <3> QED BY <1>1, <2>1, <2>3, <3>1, <3>2
    <2>5. ASSUME NEW m \in rbMsgs, Complete(b, f, d, m) PROVE m.last >= f
      <3>1. m.first \in Nat /\ m.last \in Nat /\ m.first <= m.last /\ m.last \in m.first..m.last
        BY SentAre DEF Divided
      <3>2. FlagOf(b, f, m.last) = 1
        BY <2>5, <3>1 DEF Complete
      <3> QED BY <3>1, <3>2 DEF FlagOf
    <2>6. \A m \in rbMsgs : m.first \notin f..f + 0 - 1
      OBVIOUS
    <2>7. Searching(b, f, d, 0, s)
      BY <2>1, <2>3, <2>4, <2>5, <2>6 DEF Searching
    <2>8. SearchAt(b, f, d, 0, s)
      BY <2>1, <2>2, <2>7 DEF SearchAt
    <2>9. r[0] = s
      BY <1>2 DEF s
    <2> QED BY <2>8, <2>9
  <1>4. ASSUME NEW k \in In PROVE k + 1 \in In
    <2> SUFFICES ASSUME k + 1 <= n PROVE SearchAt(b, f, d, k + 1, r[k + 1])
      OBVIOUS
    <2>1. /\ k \in 0..BufSize - 1 /\ k + 1 \in 1..n /\ (k + 1) - 1 = k /\ r[k] \in Scans
          /\ SearchAt(b, f, d, k, r[k])
      BY <1>1, <1>2
    <2>2. r[k + 1] = IF r[k].found THEN r[k] ELSE SearchTurn(b, r[k])
      BY <1>2, <2>1
    <2>3. CASE r[k].found
      <3>1. r[k + 1] = r[k]
        BY <2>2, <2>3
      <3> QED BY <2>1, <2>3, <3>1 DEF SearchAt
    <2>4. CASE ~r[k].found
      <3>1. r[k + 1] = SearchTurn(b, r[k])
        BY <2>2, <2>4
      <3>2. Searching(b, f, d, k, r[k])
        BY <2>1, <2>4 DEF SearchAt
      <3>3. SearchAt(b, f, d, k + 1, SearchTurn(b, r[k]))
        BY <2>1, <2>4, <3>2, SearchTurnKeeps
      <3> QED BY <3>1, <3>3
    <2> QED BY <2>3, <2>4
  <1>5. In = Nat
    <2> HIDE DEF In
    <2>1. In \in SUBSET Nat
      BY DEF In
    <2> QED BY <1>3, <1>4, <2>1, ByInduction
  <1> QED BY <1>1, <1>5

\* The search finds the first message that may be read, or that there is none.
LEMMA SearchIs ==
    ASSUME Divided, NEW b, NEW f \in Nat \ {0}, NEW d, Ring(b, f, d),
           \A n \in Int : FlagOf(b, f, n) # 0 => n \in Sent
    PROVE  /\ Search(b) \in Scans
           /\ \/ Search(b).found /\ \E m \in rbMsgs : Found(b, f, d, Search(b), m)
              \/ /\ \A m \in rbMsgs : ~Complete(b, f, d, m)
                 /\ ~Search(b).found \/ (Search(b).passack /\ After(Search(b).q) = Search(b).p)
  <1>1. /\ BufSize \in Nat /\ BufSize >= 2 /\ d \in 0..BufSize - 1 /\ b.maxPos \in Nat
        /\ b.start \in RingSlots /\ b.ackPos = SlotAt(b, d) /\ b.maxPos + d <= BufSize - 1
    BY RbSizes DEF Ring, RingRecord
  <1> DEFINE n == b.maxPos + d + 1
             t == Search(b)
  <1>2. RcvDataSize(b) = d
    BY <1>1, RingSize
  <1>3. n \in Nat /\ n \in 0..BufSize /\ n >= d /\ n >= 1
    BY <1>1
  <1>4. n = b.maxPos + RcvDataSize(b) + 1
    BY <1>2
  <1> HIDE DEF n, t
  <1>5. PICK r \in Searches(b, n) : t = SearchEnd(r[n])
    BY <1>1, <1>3, <1>4, SearchRuns DEF t
  <1> DEFINE s == r[n]
  <1>6. SearchAt(b, f, d, n, s)
    BY <1>3, SearchKeeps
  <1> HIDE DEF s
  <1>7. t = IF ~s.found /\ s.p # -1 /\ After(s.q) = s.p THEN [s EXCEPT !.found = TRUE] ELSE s
    BY <1>5 DEF SearchEnd, s
  <1>8. s \in Scans
    BY <1>6 DEF SearchAt
  <1>9. CASE s.found
    <2>1. t = s
      BY <1>7, <1>9
    <2>2. \E m \in rbMsgs : Found(b, f, d, t, m)
      BY <1>6, <1>9, <2>1 DEF SearchAt
    <2> QED BY <1>8, <1>9, <2>1, <2>2 DEF t
  <1>10. CASE ~s.found
    <2>1. Searching(b, f, d, n, s)
      BY <1>6, <1>10 DEF SearchAt
    <2>2. ASSUME NEW m \in rbMsgs, Complete(b, f, d, m) PROVE FALSE
      <3>1. m.last >= f + n
        BY <2>1, <2>2 DEF Searching
      <3>2. m.first \in Nat /\ m.last \in Nat /\ m.last \in m.first..m.last
        BY SentAre DEF Divided
      <3>3. FlagOf(b, f, m.last) = 1
        BY <2>2, <3>2 DEF Complete
      <3>4. m.last <= f + d + b.maxPos
        BY <3>2, <3>3, UnitOf
      <3> QED BY <1>1, <3>1, <3>2, <3>4 DEF n
    <2>3. s.passack
      BY <1>3, <2>1 DEF Searching
    <2>4. CASE s.p # -1 /\ After(s.q) = s.p
      <3>1. t = [s EXCEPT !.found = TRUE]
        BY <1>7, <1>10, <2>4
      <3>2. t \in Scans /\ t.passack = s.passack /\ t.q = s.q /\ t.p = s.p
        BY <1>8, <3>1 DEF Scans
      <3> QED BY <2>2, <2>3, <2>4, <3>2 DEF t
    <2>5. CASE ~(s.p # -1 /\ After(s.q) = s.p)
      <3>1. t = s
        BY <1>7, <2>5
      <3> QED BY <1>8, <1>10, <2>2, <3>1 DEF t
    <2> QED BY <2>4, <2>5
  <1> QED BY <1>9, <1>10

-----------------------------------------------------------------------------
(* scanMsg and readMsg.                                                    *)

\* The slots of message m.
SlotsOf(g, f, m) == [j \in 1..m.last - m.first + 1 |-> SlotAt(g, m.first - f + j - 1)]

\* scanMsg, in buffer b from packet f on, has moved the start to packet f + k and found
\* message m, the first one that may be read.
ScanHits(b, f, d, k, s, m) ==
    /\ Found(s.buf, f + k, d - k, s, m) /\ s.found /\ ScannedSlots(s) = SlotsOf(s.buf, f + k, m)
    /\ ~s.passack => m.first = f + k

\* scanMsg has found no message.
ScanMisses(b, f, d, k, s) ==
    /\ ScannedSlots(s) = <<>> /\ (s.found => s.passack)
    /\ \/ b.start = b.ackPos /\ b.maxPos = 0
       \/ \A m \in rbMsgs : ~Complete(s.buf, f + k, d - k, m)

LEMMA FoundSlots ==
    ASSUME Divided, NEW g, NEW f \in Nat \ {0}, NEW d, Ring(g, f, d),
           NEW s, s.buf = g, s.found, NEW m, Found(g, f, d, s, m)
    PROVE  /\ ScannedSlots(s) = SlotsOf(g, f, m) /\ After(s.q) = SlotAt(g, m.last - f + 1)
           /\ m.first \in Nat /\ m.last \in Nat /\ m.first <= m.last /\ m.first >= f
           /\ m.last <= f + BufSize - 2 /\ m.first - f \in 0..BufSize - 1 /\ m.last - f \in 0..BufSize - 1
           /\ \A n \in m.first..m.last : FlagOf(g, f, n) = 1 /\ Owner[n] = m /\ n \in Sent
  <1>1. BufSize \in Nat /\ BufSize >= 2 /\ g.start \in RingSlots
    BY RbSizes DEF Ring, RingRecord
  <1>2. /\ m \in rbMsgs /\ s.p = SlotAt(g, m.first - f) /\ s.q = SlotAt(g, m.last - f)
        /\ \A n \in m.first..m.last : FlagOf(g, f, n) = 1
    BY DEF Found, Complete
  <1>3. /\ m.first \in Nat /\ m.last \in Nat /\ m.first <= m.last
        /\ \A n \in m.first..m.last : Owner[n] = m /\ n \in Sent
    <2>1. /\ m.first \in Sent /\ m.last \in m.first..Packets
          /\ \A n \in m.first..m.last : Owner[n] = m
      BY <1>2 DEF Divided
    <2> QED BY <2>1, SentAre, RbSizes
  <1>4. m.first >= f /\ m.last <= f + BufSize - 2
    <2>1. m.first \in m.first..m.last /\ m.last \in m.first..m.last
      BY <1>3
    <2>2. FlagOf(g, f, m.first) # 0 /\ FlagOf(g, f, m.last) # 0
      BY <1>2, <2>1
    <2>3. f \in Nat /\ m.first \in Int /\ m.last \in Int
      BY <1>3
    <2>4. m.first \in f..f + BufSize - 2
      BY <2>2, <2>3, UnitOf
    <2>5. m.last \in f..f + BufSize - 2
      BY <2>2, <2>3, UnitOf
    <2> QED BY <1>1, <2>3, <2>4, <2>5
  <1> DEFINE lo == m.first - f
             hi == m.last - f
             c == [start |-> s.p]
  <1>5. /\ lo \in 0..BufSize - 1 /\ hi \in 0..BufSize - 1 /\ lo <= hi /\ hi + 1 \in 0..BufSize - 1
        /\ lo \in Nat /\ hi \in Nat /\ f \in Nat
    BY <1>1, <1>3, <1>4
  <1>6. m.first = f + lo /\ m.last = f + hi
    BY <1>3
  <1> HIDE DEF lo, hi
  <1>7. s.p = SlotAt(g, lo) /\ s.q = SlotAt(g, hi)
    BY <1>2 DEF lo, hi
  <1>8. After(s.q) = SlotAt(g, hi + 1) /\ After(s.q) # s.p /\ s.p \in RingSlots /\ s.q \in RingSlots
    <2>1. After(s.q) = SlotAt(g, hi + 1)
      BY <1>1, <1>5, <1>7, SlotNext
    <2>2. SlotAt(g, hi + 1) # SlotAt(g, lo)
      BY <1>1, <1>5, SlotDiffer
    <2>3. lo \in 0..BufSize /\ hi \in 0..BufSize
      BY <1>1, <1>5
    <2> QED BY <1>1, <1>7, <2>1, <2>2, <2>3, SlotIs
  <1>9. \A j \in 0..hi - lo : SlotAt(c, j) = SlotAt(g, lo + j)
    <2> TAKE j \in 0..hi - lo
    <2>1. j \in 0..BufSize - 1 /\ lo + j < BufSize
      BY <1>1, <1>5
    <2>2. c.start = SlotAt(g, lo)
      BY <1>7
    <2> QED BY <1>1, <1>5, <2>1, <2>2, SlotOn
  <1>10. (s.q - s.p + BufSize) % BufSize = hi - lo
    <2>1. c.start \in RingSlots /\ c.start = s.p
      BY <1>8
    <2> HIDE DEF c
    <2>2. PICK k \in 0..BufSize - 1 : SlotAt(c, k) = s.q /\ (s.q - c.start + BufSize) % BufSize = k
      BY <1>8, <2>1, SlotOfSome
    <2>3. hi - lo \in 0..hi - lo /\ hi - lo \in 0..BufSize - 1 /\ lo + (hi - lo) = hi
      BY <1>1, <1>5
    <2>4. SlotAt(c, hi - lo) = s.q
      BY <1>7, <1>9, <2>3
    <2>5. k = hi - lo
      BY <2>1, <2>2, <2>3, <2>4, SlotDiffer
    <2> QED BY <2>1, <2>2, <2>5
  <1>11. ScannedSlots(s) = [k \in 1..(hi - lo) + 1 |-> (s.p + k - 1) % BufSize]
    BY <1>8, <1>10 DEF ScannedSlots
  <1>12. \A k \in 1..(hi - lo) + 1 : (s.p + k - 1) % BufSize = SlotAt(g, lo + k - 1)
    <2> TAKE k \in 1..(hi - lo) + 1
    <2>1. k - 1 \in 0..hi - lo /\ s.p + k - 1 = s.p + (k - 1) /\ lo + k - 1 = lo + (k - 1)
      BY <1>5, <1>8, RbSizes
    <2>2. SlotAt(c, k - 1) = (s.p + (k - 1)) % BufSize
      BY DEF SlotAt
    <2> HIDE DEF c
    <2> QED BY <1>9, <2>1, <2>2
  <1>13. m.last - m.first + 1 = (hi - lo) + 1
    BY <1>3 DEF lo, hi
  <1>14. SlotsOf(g, f, m) = [k \in 1..(hi - lo) + 1 |-> SlotAt(g, lo + k - 1)]
    BY <1>13 DEF SlotsOf, lo
  <1>15. ScannedSlots(s) = SlotsOf(g, f, m)
    BY <1>11, <1>12, <1>14
  <1> QED BY <1>2, <1>3, <1>4, <1>5, <1>8, <1>15 DEF lo, hi

\* scanMsg finds the first message that may be read and loses none.
LEMMA ScanIs ==
    ASSUME Divided, NEW b, NEW f, NEW d, NEW cur, NEW missing, NEW dropped,
           Received(b, f, d, cur, missing, dropped), Wholes(b, f), Cuts(b, f, dropped)
    PROVE  \E k \in 0..d :
              /\ SkippedTo(b, f, d, dropped, ScanMsg(b).buf, k)
              /\ \/ ScanMisses(b, f, d, k, ScanMsg(b))
                 \/ \E m \in rbMsgs : /\ ScanHits(b, f, d, k, ScanMsg(b), m)
                                      /\ ~(b.start = b.ackPos /\ b.maxPos = 0)
  <1> DEFINE s == ScanMsg(b)
             good == SkipBad(b)
             t == Search(good)
  <1>1. /\ Ring(b, f, d) /\ f \in Nat \ {0} /\ f \in Nat /\ cur \in 0..Packets /\ d \in 0..BufSize - 1
        /\ d \in Nat /\ b.maxPos \in Nat /\ b.start \in RingSlots
        /\ \A n \in Int : FlagOf(b, f, n) # 0 => n <= cur
    <2>1. /\ Ring(b, f, d) /\ f \in Nat \ {0} /\ cur \in 0..Packets
          /\ \A n \in Int : FlagOf(b, f, n) # 0 => n <= cur
      BY DEF Received
    <2>2. d \in 0..BufSize - 1 /\ b.maxPos \in Nat /\ b.start \in RingSlots
      BY <2>1 DEF Ring, RingRecord
    <2> QED BY <2>1, <2>2, RbSizes
  <1>2. CASE b.start = b.ackPos /\ b.maxPos = 0
    <2>1. s = [buf |-> b, p |-> -1, q |-> b.start, passack |-> FALSE, found |-> FALSE]
      BY <1>1, <1>2 DEF ScanMsg
    <2>2. s.buf = b /\ ~s.found
      BY <2>1
    <2> HIDE DEF s
    <2>3. ScanMisses(b, f, d, 0, s)
      BY <1>2, <2>2 DEF ScanMisses, ScannedSlots
    <2>4. 0 \in 0..d /\ f + 0 = f /\ d - 0 = d
      BY <1>1
    <2>5. \A n \in Int : FlagOf(b, f, n) = IF n < f THEN 0 ELSE FlagOf(b, f, n)
      BY <1>1 DEF FlagOf
    <2>6. Skipped(b, f, d, b, 0)
      BY <1>1, <2>4, <2>5 DEF Skipped
    <2>7. ASSUME NEW m \in rbMsgs, \A n \in m.first..m.last : FlagOf(b, f, n) = 1
          PROVE  m.first >= f
      <3>1. m.first \in Nat /\ m.first \in m.first..m.last
        BY SentAre DEF Divided
      <3>2. FlagOf(b, f, m.first) = 1
        BY <2>7, <3>1
      <3> QED BY <1>1, <3>1, <3>2 DEF FlagOf
    <2>8. f..f + 0 - 1 = {}
      BY <1>1
    <2>9. SkippedTo(b, f, d, dropped, b, 0)
      BY <2>4, <2>6, <2>7, <2>8 DEF SkippedTo
    <2> QED BY <2>2, <2>3, <2>4, <2>9 DEF s
  <1>3. CASE ~(b.start = b.ackPos /\ b.maxPos = 0)
    <2>1. s = [buf |-> good, p |-> t.p, q |-> t.q, passack |-> t.passack, found |-> t.found]
      BY <1>1, <1>3 DEF ScanMsg
    <2> HIDE DEF good, t
    <2>2. s.buf = good /\ s.p = t.p /\ s.q = t.q /\ s.passack = t.passack /\ s.found = t.found
      BY <2>1
    <2> HIDE DEF s
    <2>3. PICK k \in 0..d : /\ SkippedTo(b, f, d, dropped, good, k)
                            /\ k = d \/ GoodFront(good, f + k, d - k)
      BY SkipKeeps DEF good
    <2>4. /\ Ring(good, f + k, d - k) /\ f + k \in Nat \ {0}
          /\ \A n \in Int : FlagOf(good, f + k, n) = IF n < f + k THEN 0 ELSE FlagOf(b, f, n)
      BY <1>1, <2>3 DEF SkippedTo, Skipped
    <2>5. \A n \in Int : FlagOf(good, f + k, n) # 0 => n \in Sent
      <3> TAKE n \in Int
      <3> HAVE FlagOf(good, f + k, n) # 0
      <3>1. n >= f + k /\ n <= cur
        BY <1>1, <2>4
      <3> QED BY <1>1, <2>4, <3>1, SentAre, RbSizes
    <2>6. /\ t \in Scans
          /\ \/ t.found /\ \E m \in rbMsgs : Found(good, f + k, d - k, t, m)
             \/ /\ \A m \in rbMsgs : ~Complete(good, f + k, d - k, m)
                /\ ~t.found \/ (t.passack /\ After(t.q) = t.p)
      BY <2>4, <2>5, SearchIs DEF t
    <2>7. ASSUME NEW m \in rbMsgs, t.found, Found(good, f + k, d - k, t, m)
          PROVE  ScanHits(b, f, d, k, s, m)
      <3>1. Found(good, f + k, d - k, s, m)
        BY <2>2, <2>7 DEF Found
      <3>2. /\ ScannedSlots(s) = SlotsOf(good, f + k, m)
            /\ m.first \in Nat /\ m.last \in Nat /\ m.first <= m.last /\ m.first >= f + k
            /\ \A n \in m.first..m.last : FlagOf(good, f + k, n) = 1 /\ Owner[n] = m /\ n \in Sent
        <4>1. s.buf = good /\ s.found
          BY <2>2, <2>7
        <4> HIDE DEF SlotsOf
        <4> QED BY <2>4, <3>1, <4>1, FoundSlots
      <3>3. ASSUME ~s.passack PROVE m.first = f + k
        <4>1. m.last < f + k + (d - k)
          BY <1>1, <2>3, <3>1, <3>2, <3>3 DEF Found
        <4>2. GoodFront(good, f + k, d - k)
          BY <1>1, <2>3, <3>2, <4>1
        <4> DEFINE o == Owner[f + k]
        <4>3. /\ f + k \in Sent /\ o \in rbMsgs /\ o.first = f + k /\ o.last \in Nat /\ o.first <= o.last
              /\ \A n \in o.first..o.last : Owner[n] = o
          <5>1. f + k \in Sent
            BY <2>4, <2>5, <4>2 DEF GoodFront
          <5>2. o \in rbMsgs /\ o.first = f + k
            BY <4>2, <5>1 DEF GoodFront, Divided
          <5> HIDE DEF o
          <5> QED BY <5>1, <5>2, SentAre DEF Divided
        <4>4. \A n \in f + k..o.last : n < f + k + (d - k) => FlagOf(good, f + k, n) = 1
          BY <4>2 DEF GoodFront
        <4> HIDE DEF o
        <4> SUFFICES ASSUME m.first # f + k PROVE FALSE
          OBVIOUS
        <4>5. o.last < m.first
          <5> SUFFICES ASSUME o.last >= m.first PROVE FALSE
            BY <3>2, <4>3
          <5>1. m.first \in o.first..o.last /\ m.first \in m.first..m.last
            BY <2>4, <3>2, <4>3
          <5>2. Owner[m.first] = o /\ Owner[m.first] = m
            BY <3>2, <4>3, <5>1
          <5> QED BY <4>3, <5>2
        <4>6. Complete(good, f + k, d - k, o)
          <5>1. o.last < f + k + (d - k)
            BY <1>1, <2>3, <3>2, <4>1, <4>3, <4>5
          <5>2. \A n \in o.first..o.last : FlagOf(good, f + k, n) = 1
            BY <1>1, <2>3, <4>3, <4>4, <5>1
          <5> QED BY <5>1, <5>2 DEF Complete
        <4>7. m.last <= o.last
          BY <3>1, <4>3, <4>6 DEF Found
        <4> QED BY <3>2, <4>3, <4>5, <4>7
      <3> QED BY <2>2, <2>7, <3>1, <3>2, <3>3 DEF ScanHits
    <2>8. ASSUME \A m \in rbMsgs : ~Complete(good, f + k, d - k, m),
                 ~t.found \/ (t.passack /\ After(t.q) = t.p)
          PROVE  ScanMisses(b, f, d, k, s)
      BY <2>2, <2>8 DEF ScanMisses, ScannedSlots
    <2> QED BY <1>3, <2>2, <2>3, <2>6, <2>7, <2>8 DEF s
  <1> QED BY <1>2, <1>3

\* readMsg leaves the buffer as it is, when there is nothing to read.
LEMMA TakesNone ==
    ASSUME NEW f, NEW d, NEW s, Ring(s.buf, f, d), ScannedSlots(s) = <<>>, s.found => s.passack
    PROVE  TakeMsg(s) = s.buf
  <1> DEFINE b == s.buf
             taken == {ScannedSlots(s)[k] : k \in DOMAIN ScannedSlots(s)}
  <1>1. taken = {}
    OBVIOUS
  <1>2. b.flag = [i \in RingSlots |-> b.flag[i]] /\ b.flag \in [RingSlots -> 0..2]
    BY DEF Ring, RingRecord
  <1>3. [i \in RingSlots |-> IF i \in taken THEN 2 ELSE b.flag[i]] = b.flag
    BY <1>1, <1>2
  <1>4. [b EXCEPT !.flag = b.flag] = b
    BY DEF Ring, RingRecord
  <1>5. TakeMsg(s) = IF ~s.found THEN b
                     ELSE [b EXCEPT !.flag = [i \in RingSlots |-> IF i \in taken THEN 2 ELSE b.flag[i]]]
    BY DEF TakeMsg
  <1> HIDE DEF taken, b
  <1>6. TakeMsg(s) = b
    BY <1>3, <1>4, <1>5
  <1> QED BY <1>6 DEF b

\* What a read of message m returns, and what readMsg copies.
Whole(m) == [j \in 1..m.last - m.first + 1 |-> m.first + j - 1]
Copied(s) == [j \in DOMAIN ScannedSlots(s) |-> s.buf.unit[ScannedSlots(s)[j]]]

\* A message beyond what is acknowledged is marked, one at the start is freed.
LEMMA TakesMessage ==
    ASSUME Divided, NEW f \in Nat \ {0}, NEW d, NEW s, Ring(s.buf, f, d), s.found,
           NEW m, Found(s.buf, f, d, s, m)
    PROVE  /\ s.passack => /\ Ring(TakeMsg(s), f, d)
                           /\ \A n \in Int : FlagOf(TakeMsg(s), f, n) =
                                IF n \in m.first..m.last THEN 2 ELSE FlagOf(s.buf, f, n)
           /\ ~s.passack /\ m.first = f =>
                 m.last - f + 1 \in 1..d /\ Skipped(s.buf, f, d, TakeMsg(s), m.last - f + 1)
           /\ Copied(s) = Whole(m)
  <1> DEFINE b == s.buf
             slots == ScannedSlots(s)
             taken == {slots[k] : k \in DOMAIN slots}
             h == TakeMsg(s)
             lo == m.first - f
             hi == m.last - f
  <1>1. /\ slots = SlotsOf(b, f, m) /\ After(s.q) = SlotAt(b, hi + 1)
        /\ m.first \in Nat /\ m.last \in Nat /\ m.first <= m.last /\ m.first >= f
        /\ m.last <= f + BufSize - 2 /\ lo \in 0..BufSize - 1 /\ hi \in 0..BufSize - 1
        /\ \A n \in m.first..m.last : FlagOf(b, f, n) = 1
    BY FoundSlots
  <1>2. h = IF s.passack
            THEN [b EXCEPT !.flag = [i \in RingSlots |-> IF i \in taken THEN 2 ELSE @[i]]]
            ELSE [b EXCEPT !.unit = [i \in RingSlots |-> IF i \in taken THEN NoUnit ELSE @[i]],
                      !.flag = [i \in RingSlots |-> IF i \in taken THEN 0 ELSE @[i]],
                      !.count = @ - Cardinality(taken),
                      !.start = After(s.q)]
    BY DEF TakeMsg
  <1>3. /\ BufSize \in Nat /\ BufSize >= 2 /\ d \in 0..BufSize - 1 /\ Ring(b, f, d) /\ f \in Nat
        /\ (s.passack <=> m.last >= f + d)
    BY RbSizes DEF Ring, Found
  <1> HIDE DEF b, slots, h
  <1>4. DOMAIN slots = 1..m.last - m.first + 1 /\ \A j \in 1..m.last - m.first + 1 : slots[j] = SlotAt(b, lo + j - 1)
    BY <1>1 DEF SlotsOf
  <1>5. taken = {SlotAt(b, k) : k \in lo..hi}
    <2>1. ASSUME NEW j \in 1..m.last - m.first + 1 PROVE \E k \in lo..hi : slots[j] = SlotAt(b, k)
      <3>1. lo + j - 1 \in lo..hi
        BY <1>1, <1>3
      <3> QED BY <1>4, <3>1
    <2>2. ASSUME NEW k \in lo..hi PROVE \E j \in 1..m.last - m.first + 1 : slots[j] = SlotAt(b, k)
      <3>1. k - lo + 1 \in 1..m.last - m.first + 1 /\ lo + (k - lo + 1) - 1 = k
        BY <1>1, <1>3
      <3> QED BY <1>4, <3>1
    <2> HIDE DEF lo, hi
    <2> QED BY <1>4, <2>1, <2>2
  <1>6. \A k \in lo..hi : b.flag[SlotAt(b, k)] = 1 /\ b.unit[SlotAt(b, k)] = f + k
    <2> TAKE k \in lo..hi
    <2>1. k \in 0..BufSize - 1 /\ f + k \in m.first..m.last
      BY <1>1, <1>3
    <2>2. FlagOf(b, f, f + k) = 1
      BY <1>1, <2>1
    <2>3. b.flag[SlotAt(b, k)] = FlagOf(b, f, f + k) /\ (FlagOf(b, f, f + k) # 0 => b.unit[SlotAt(b, k)] = f + k)
      BY <1>3, <2>1, FlagAt
    <2> QED BY <2>2, <2>3
  <1> HIDE DEF taken
  <1>7. ASSUME s.passack
        PROVE  /\ Ring(h, f, d)
               /\ \A n \in Int : FlagOf(h, f, n) = IF n \in m.first..m.last THEN 2 ELSE FlagOf(b, f, n)
    <2>1. h = [b EXCEPT !.flag = [i \in RingSlots |-> IF i \in taken THEN 2 ELSE @[i]]]
      BY <1>2, <1>7
    <2>2. /\ Ring(h, f, d)
          /\ \A j \in Int : FlagOf(h, f, j) = IF j \in f + lo..f + hi THEN 2 ELSE FlagOf(b, f, j)
      <3>1. lo \in 0..BufSize - 1 /\ hi \in 0..BufSize - 1 /\ \A k \in lo..hi : b.flag[SlotAt(b, k)] # 0
        BY <1>1, <1>6
      <3> HIDE DEF lo, hi
      <3>2. Marked(b, f, d, h, lo, hi)
        BY <1>3, <1>5, <2>1, <3>1, MarkedRing, Zenon
      <3> QED BY <3>2 DEF Marked
    <2>3. f + lo = m.first /\ f + hi = m.last
      BY <1>1, <1>3
    <2> QED BY <2>2, <2>3
  <1>8. ASSUME ~s.passack, m.first = f
        PROVE  hi + 1 \in 1..d /\ Skipped(b, f, d, h, hi + 1)
    <2>1. h = [b EXCEPT !.unit = [i \in RingSlots |-> IF i \in taken THEN NoUnit ELSE @[i]],
                        !.flag = [i \in RingSlots |-> IF i \in taken THEN 0 ELSE @[i]],
                        !.count = @ - Cardinality(taken), !.start = SlotAt(b, hi + 1)]
      BY <1>1, <1>2, <1>8
    <2>2. m.last < f + d /\ lo = 0
      BY <1>1, <1>3, <1>8
    <2>3. hi + 1 \in 1..d /\ lo..hi = 0..(hi + 1) - 1
      BY <1>1, <1>3, <2>2
    <2>4. taken = {SlotAt(b, j) : j \in 0..(hi + 1) - 1} /\ \A j \in 0..(hi + 1) - 1 : b.flag[SlotAt(b, j)] # 0
      <3> HIDE DEF lo, hi
      <3> DEFINE A == {SlotAt(b, k) : k \in lo..hi}
                 B == {SlotAt(b, j) : j \in 0..(hi + 1) - 1}
      <3>11. ASSUME NEW k \in lo..hi PROVE SlotAt(b, k) \in B
        <4>1. k \in 0..(hi + 1) - 1
          BY <2>3
        <4> QED BY <4>1
      <3>12. ASSUME NEW j \in 0..(hi + 1) - 1 PROVE SlotAt(b, j) \in A
        <4>1. j \in lo..hi
          BY <2>3
        <4> QED BY <4>1
      <3>1. A = B
        BY <3>11, <3>12
      <3>2. taken = {SlotAt(b, j) : j \in 0..(hi + 1) - 1}
        BY <1>5, <3>1
      <3>3. ASSUME NEW j \in 0..(hi + 1) - 1 PROVE b.flag[SlotAt(b, j)] # 0
        <4>1. j \in lo..hi
          BY <2>3
        <4> QED BY <1>6, <4>1
      <3> HIDE DEF A, B
      <3> QED BY <3>2, <3>3
    <2>5. Skipped(b, f, d, h, hi + 1)
      <3> HIDE DEF lo, hi
      <3>1. hi + 1 \in 1..d /\ f \in Nat
        BY <1>3, <2>3
      <3> QED BY <1>3, <2>1, <2>4, <3>1, TakenRing, Zenon
    <2> QED BY <2>3, <2>5
  <1>9. [j \in DOMAIN slots |-> b.unit[slots[j]]] = [j \in 1..m.last - m.first + 1 |-> m.first + j - 1]
    <2>1. ASSUME NEW j \in 1..m.last - m.first + 1 PROVE b.unit[slots[j]] = m.first + j - 1
      <3>1. lo + j - 1 \in lo..hi /\ f + (lo + j - 1) = m.first + j - 1
        BY <1>1, <1>3
      <3> QED BY <1>4, <1>6, <3>1
    <2> QED BY <1>4, <2>1
  <1> QED BY <1>7, <1>8, <1>9 DEF h, b, slots, Copied, Whole

-----------------------------------------------------------------------------
(* The invariant.                                                          *)

\* What was read are whole messages which the buffer does not offer again, each once, and
\* in order where that is asked for.
ReadOnce(b, f, read) ==
    /\ read \in Seq(Seq(Int))
    /\ \A k \in DOMAIN read : \E m \in rbMsgs :
          /\ read[k] = Whole(m)
          /\ \A n \in m.first..m.last : n < f \/ (~m.ordered /\ FlagOf(b, f, n) = 2)
    /\ \A j, k \in DOMAIN read : j < k =>
          /\ read[j] # read[k]
          /\ MsgOf(read[j][1]).ordered /\ MsgOf(read[k][1]).ordered => read[j][1] < read[k][1]

\* The buffer, from packet f on, holds messages.
HoldsMessages(b, f, d, cur, missing, dropped, read, given) ==
    /\ Divided /\ Received(b, f, d, cur, missing, dropped) /\ Wholes(b, f) /\ Cuts(b, f, dropped)
    /\ ReadOnce(b, f, read)
    /\ given \subseteq Sent /\ \A n \in given : Touched(Owner[n], dropped)

\* The buffer, from packet f on, holds a stream.
HoldsStream(b, f, d, cur, missing, bytes) ==
    /\ Received(b, f, d, cur, missing, {}) /\ \A n \in Int : FlagOf(b, f, n) # 2
    /\ b.notch \in Nat /\ b.notch < PacketBytes(f) /\ bytes = BytesTo[f - 1] + b.notch

RcvBufferInv ==
    \E f \in Nat \ {0}, d \in Nat :
       /\ rbAck = f + d
       /\ \/ rbMsgs # {} /\ HoldsMessages(rb, f, d, rbCur, rbMissing, rbDropped, rbRead, rbGivenUp)
          \/ /\ rbMsgs = {} /\ rbDropped = {} /\ rbRead = <<>> /\ rbGivenUp = {}
             /\ HoldsStream(rb, f, d, rbCur, rbMissing, rbBytes)

LEMMA MessageIs ==
    ASSUME Divided, NEW m \in rbMsgs
    PROVE  /\ m.first \in Nat /\ m.last \in Nat /\ m.first >= 1 /\ m.first <= m.last
           /\ m.first \in m.first..m.last /\ m.last \in m.first..m.last
           /\ \A n \in m.first..m.last : Owner[n] = m /\ n \in Sent /\ n \in Nat /\ MsgOf(n) = m
           /\ Whole(m) \in Seq(Int) /\ Whole(m)[1] = m.first
           /\ \A x \in rbMsgs : Whole(x) = Whole(m) => x = m
  <1>1. /\ m.first \in Sent /\ m.last \in m.first..Packets
        /\ \A n \in m.first..m.last : Owner[n] = m
    BY DEF Divided
  <1>2. m.first \in Nat /\ m.last \in Nat /\ m.first >= 1 /\ m.first <= m.last /\ m.last <= Packets
    BY <1>1, SentAre, RbSizes
  <1>3. \A n \in m.first..m.last : n \in Sent /\ n \in Nat /\ MsgOf(n) = Owner[n]
    <2> TAKE n \in m.first..m.last
    <2>1. n \in Sent
      BY <1>2, SentAre, RbSizes
    <2> QED BY <1>2, <2>1 DEF Owner
  <1> DEFINE len == m.last - m.first + 1
  <1>4. len \in Nat /\ 1 \in 1..len
    BY <1>2
  <1>5. Whole(m) \in Seq(Int) /\ Whole(m)[1] = m.first
    <2>1. \A j \in 1..len : m.first + j - 1 \in Int
      BY <1>2
    <2>2. Whole(m) = [j \in 1..len |-> m.first + j - 1]
      BY DEF Whole
    <2> HIDE DEF len
    <2>3. Whole(m)[1] = m.first + 1 - 1
      BY <1>4, <2>2
    <2>4. Whole(m) \in [1..len -> Int]
      BY <2>1, <2>2
    <2> QED BY <1>2, <1>4, <2>3, <2>4
  <1>6. ASSUME NEW x \in rbMsgs, Whole(x) = Whole(m) PROVE x = m
    <2>1. /\ x.first \in Nat /\ x.last \in Nat /\ x.first <= x.last
          /\ \A n \in x.first..x.last : Owner[n] = x
      BY SentAre DEF Divided
    <2>2. Whole(x)[1] = x.first
      <3>1. 1 \in 1..x.last - x.first + 1 /\ x.first + 1 - 1 = x.first
        BY <2>1
      <3> QED BY <3>1 DEF Whole
    <2>3. x.first = m.first
      BY <1>5, <1>6, <2>2
    <2>4. x.first \in x.first..x.last /\ m.first \in m.first..m.last
      BY <1>2, <2>1
    <2> QED BY <1>1, <2>1, <2>3, <2>4
  <1> QED BY <1>1, <1>2, <1>3, <1>5, <1>6

\* What stays true of the numbers while the start moves on.
LEMMA ReceivedSkip ==
    ASSUME NEW b, NEW f, NEW d, NEW cur, NEW missing, NEW dropped,
           Received(b, f, d, cur, missing, dropped), NEW k \in 0..d, NEW g, Skipped(b, f, d, g, k)
    PROVE  Received(g, f + k, d - k, cur, missing, dropped)
  <1>1. /\ Ring(g, f + k, d - k) /\ f \in Nat \ {0} /\ cur \in 0..Packets /\ d \in 0..BufSize - 1
        /\ f + d <= cur + 1 /\ cur <= f + BufSize - 2
        /\ missing \subseteq f + d..cur /\ dropped \subseteq Sent
        /\ \A n \in Int : FlagOf(b, f, n) # 0 => n <= cur
        /\ \A n \in f..cur : FlagOf(b, f, n) # 0 \/ n \in missing \union dropped
        /\ \A n \in Int : FlagOf(g, f + k, n) = IF n < f + k THEN 0 ELSE FlagOf(b, f, n)
    BY DEF Received, Skipped, Ring
  <1>2. /\ f \in Nat /\ k \in Nat /\ d \in Nat /\ cur \in Nat /\ BufSize \in Nat
        /\ f + k \in Nat \ {0} /\ f + k + (d - k) = f + d
    BY <1>1, RbSizes
  <1>3. cur <= f + k + BufSize - 2
    BY <1>1, <1>2
  <1>4. \A n \in Int : FlagOf(g, f + k, n) # 0 => n <= cur
    BY <1>1
  <1>5. ASSUME NEW n \in f + k..cur PROVE FlagOf(g, f + k, n) # 0 \/ n \in missing \union dropped
    <2>1. n \in f..cur /\ ~(n < f + k) /\ n \in Int
      BY <1>2
    <2> QED BY <1>1, <2>1
  <1> QED BY <1>1, <1>2, <1>3, <1>4, <1>5 DEF Received

LEMMA ReadSkip ==
    ASSUME Divided, NEW b, NEW f \in Nat, NEW d, NEW read, ReadOnce(b, f, read),
           NEW k \in Nat, NEW g, Skipped(b, f, d, g, k)
    PROVE  ReadOnce(g, f + k, read)
  <1>1. ASSUME NEW i \in DOMAIN read
        PROVE  \E m \in rbMsgs :
                  /\ read[i] = Whole(m)
                  /\ \A n \in m.first..m.last : n < f + k \/ (~m.ordered /\ FlagOf(g, f + k, n) = 2)
    <2>1. PICK m \in rbMsgs :
                  /\ read[i] = Whole(m)
                  /\ \A n \in m.first..m.last : n < f \/ (~m.ordered /\ FlagOf(b, f, n) = 2)
      BY DEF ReadOnce
    <2>2. ASSUME NEW n \in m.first..m.last PROVE n < f + k \/ (~m.ordered /\ FlagOf(g, f + k, n) = 2)
      <3>1. n \in Nat
        BY MessageIs
      <3>2. FlagOf(g, f + k, n) = IF n < f + k THEN 0 ELSE FlagOf(b, f, n)
        BY <3>1 DEF Skipped
      <3> QED BY <2>1, <3>1, <3>2
    <2> QED BY <2>1, <2>2
  <1> QED BY <1>1 DEF ReadOnce

\* scanMsg.
LEMMA ScanKeeps ==
    ASSUME NEW b, NEW f, NEW d, NEW cur, NEW missing, NEW dropped, NEW read, NEW given,
           HoldsMessages(b, f, d, cur, missing, dropped, read, given),
           NEW g, NEW k \in 0..d, SkippedTo(b, f, d, dropped, g, k)
    PROVE  HoldsMessages(g, f + k, d - k, cur, missing, dropped, read,
                         given \union (Unread(b) \ Unread(g)))
  <1>1. /\ Divided /\ Received(b, f, d, cur, missing, dropped) /\ ReadOnce(b, f, read)
        /\ given \subseteq Sent /\ \A n \in given : Touched(Owner[n], dropped)
    BY DEF HoldsMessages
  <1>2. /\ Ring(b, f, d) /\ f \in Nat \ {0} /\ f \in Nat /\ cur \in 0..Packets /\ d \in 0..BufSize - 1
        /\ \A n \in Int : FlagOf(b, f, n) # 0 => n <= cur
    BY <1>1 DEF Received, Ring
  <1>3. k \in Nat /\ k \in 0..d /\ f + k \in Nat /\ cur <= Packets /\ cur \in Nat
    BY <1>2, RbSizes
  <1>4. /\ Skipped(b, f, d, g, k) /\ Wholes(g, f + k) /\ Cuts(g, f + k, dropped)
        /\ \A n \in f..f + k - 1 : FlagOf(b, f, n) = 1 => Touched(Owner[n], dropped)
    BY DEF SkippedTo
  <1>5. Received(g, f + k, d - k, cur, missing, dropped)
    BY <1>1, <1>4, ReceivedSkip
  <1>6. ReadOnce(g, f + k, read)
    BY <1>1, <1>2, <1>3, <1>4, ReadSkip
  <1>7. ASSUME NEW n \in Unread(b) \ Unread(g) PROVE n \in Sent /\ Touched(Owner[n], dropped)
    <2>1. Ring(g, f + k, d - k) /\ \A j \in Int : FlagOf(g, f + k, j) = IF j < f + k THEN 0 ELSE FlagOf(b, f, j)
      BY <1>4 DEF Skipped
    <2>2. n \in Int /\ FlagOf(b, f, n) = 1
      BY <1>2, UnreadAre
    <2>3. FlagOf(g, f + k, n) # 1
      BY <1>3, <2>1, <2>2, UnreadAre
    <2>4. n < f + k /\ n <= cur
      BY <1>2, <2>1, <2>2, <2>3
    <2>5. n >= f
      BY <2>2 DEF FlagOf
    <2>6. n \in f..f + k - 1 /\ n \in Sent
      BY <1>2, <1>3, <2>2, <2>4, <2>5, SentAre, RbSizes
    <2> QED BY <1>4, <2>2, <2>6
  <1> QED BY <1>1, <1>4, <1>5, <1>6, <1>7 DEF HoldsMessages

\* readMsg, with message m found.
LEMMA ReadMsgKeeps ==
    ASSUME NEW f \in Nat \ {0}, NEW d, NEW cur, NEW missing, NEW dropped, NEW read, NEW given, NEW s,
           HoldsMessages(s.buf, f, d, cur, missing, dropped, read, given),
           s.found, NEW m, Found(s.buf, f, d, s, m), ~s.passack => m.first = f
    PROVE  \E k \in 0..d : HoldsMessages(TakeMsg(s), f + k, d - k, cur, missing, dropped,
                                         Append(read, Whole(m)), given)
  <1> DEFINE b == s.buf
             h == TakeMsg(s)
             more == Append(read, Whole(m))
  <1>1. /\ Divided /\ Received(b, f, d, cur, missing, dropped) /\ ReadOnce(b, f, read)
        /\ Wholes(b, f) /\ Cuts(b, f, dropped)
        /\ given \subseteq Sent /\ \A n \in given : Touched(Owner[n], dropped)
    BY DEF HoldsMessages
  <1>2. /\ Ring(b, f, d) /\ f \in Nat /\ cur \in 0..Packets /\ d \in 0..BufSize - 1 /\ d \in Nat
        /\ \A n \in Int : FlagOf(b, f, n) # 0 => n <= cur
    BY SMTT(30), <1>1, RbSizes DEF Received, Ring
  <1>3. /\ s.passack => /\ Ring(h, f, d)
                        /\ \A n \in Int : FlagOf(h, f, n) =
                             IF n \in m.first..m.last THEN 2 ELSE FlagOf(b, f, n)
        /\ ~s.passack => m.last - f + 1 \in 1..d /\ Skipped(b, f, d, h, m.last - f + 1)
    BY <1>1, <1>2, TakesMessage
  <1>4. /\ m \in rbMsgs /\ m.first \in Nat /\ m.last \in Nat /\ m.first <= m.last /\ m.first >= f
        /\ \A n \in m.first..m.last : FlagOf(b, f, n) = 1 /\ Owner[n] = m /\ n \in Sent
        /\ s.passack => ~m.ordered
    <2>1. m \in rbMsgs /\ (s.passack <=> m.last >= f + d) /\ (m.last < f + d \/ ~m.ordered)
      BY DEF Found, Complete
    <2>2. /\ m.first \in Nat /\ m.last \in Nat /\ m.first <= m.last /\ m.first >= f
          /\ \A n \in m.first..m.last : FlagOf(b, f, n) = 1 /\ Owner[n] = m /\ n \in Sent
      BY <1>1, <1>2, FoundSlots
    <2> QED BY <1>2, <2>1, <2>2
  <1> HIDE DEF h
  \* What has been read with the new message.
  <1>5. ASSUME NEW c, NEW e \in Nat,
               \A x \in rbMsgs : (\A n \in x.first..x.last : n < f \/ (~x.ordered /\ FlagOf(b, f, n) = 2))
                  => \A n \in x.first..x.last : n < e \/ (~x.ordered /\ FlagOf(c, e, n) = 2),
               \A n \in m.first..m.last : n < e \/ (~m.ordered /\ FlagOf(c, e, n) = 2)
        PROVE  ReadOnce(c, e, more)
    <2>1. /\ read \in Seq(Seq(Int)) /\ Whole(m) \in Seq(Int) /\ Whole(m)[1] = m.first /\ MsgOf(m.first) = m
          /\ \A x \in rbMsgs : Whole(x) = Whole(m) => x = m
      BY <1>1, <1>4, MessageIs DEF ReadOnce
    <2>2. /\ more \in Seq(Seq(Int)) /\ DOMAIN read = 1..Len(read) /\ DOMAIN more = 1..Len(read) + 1
          /\ more[Len(read) + 1] = Whole(m) /\ Len(read) \in Nat
          /\ \A i \in 1..Len(read) : more[i] = read[i]
      <3> HIDE DEF Whole
      <3> QED BY <2>1
    <2> HIDE DEF more
    <2>3. ASSUME NEW i \in DOMAIN read
          PROVE  \E x \in rbMsgs :
                    /\ read[i] = Whole(x)
                    /\ \A n \in x.first..x.last : n < f \/ (~x.ordered /\ FlagOf(b, f, n) = 2)
      BY <1>1 DEF ReadOnce
    <2>4. ASSUME NEW i \in DOMAIN more
          PROVE  \E x \in rbMsgs :
                    /\ more[i] = Whole(x)
                    /\ \A n \in x.first..x.last : n < e \/ (~x.ordered /\ FlagOf(c, e, n) = 2)
      <3>1. CASE i \in 1..Len(read)
        BY <1>5, <2>2, <2>3, <3>1
      <3>2. CASE i = Len(read) + 1
        <4> HIDE DEF Whole
        <4>1. more[i] = Whole(m) /\ m \in rbMsgs
          BY <1>4, <2>2, <3>2
        <4>2. \A n \in m.first..m.last : n < e \/ (~m.ordered /\ FlagOf(c, e, n) = 2)
          BY <1>5
        <4> QED BY <4>1, <4>2
      <3>3. i \in 1..Len(read) \/ i = Len(read) + 1
        BY <2>2
      <3> QED BY <3>1, <3>2, <3>3, Zenon
    <2>5. ASSUME NEW i \in DOMAIN read
          PROVE  /\ read[i] # Whole(m)
                 /\ MsgOf(read[i][1]).ordered /\ m.ordered => read[i][1] < m.first
      <3>1. PICK x \in rbMsgs :
                    /\ read[i] = Whole(x)
                    /\ \A n \in x.first..x.last : n < f \/ (~x.ordered /\ FlagOf(b, f, n) = 2)
        BY <2>3
      <3>2. Whole(x)[1] = x.first /\ MsgOf(x.first) = x /\ x.first \in x.first..x.last /\ x.first \in Nat
        BY <1>1, MessageIs
      <3>3. x # m
        <4>1. m.first \in m.first..m.last
          BY <1>4
        <4>2. ~(m.first < f) /\ FlagOf(b, f, m.first) = 1
          BY <1>2, <1>4, <4>1
        <4> QED BY <3>1, <4>1, <4>2
      <3>4. read[i] # Whole(m)
        BY <2>1, <3>1, <3>3
      <3>5. ASSUME MsgOf(read[i][1]).ordered PROVE read[i][1] < m.first
        <4>1. read[i][1] = x.first /\ x.ordered
          BY <3>1, <3>2, <3>5
        <4>2. x.first < f
          BY <3>1, <3>2, <4>1
        <4> QED BY <1>2, <1>4, <3>2, <4>1, <4>2
      <3> QED BY <3>4, <3>5
    <2>6. ASSUME NEW i \in DOMAIN more, NEW j \in DOMAIN more, i < j
          PROVE  /\ more[i] # more[j]
                 /\ MsgOf(more[i][1]).ordered /\ MsgOf(more[j][1]).ordered => more[i][1] < more[j][1]
      <3>1. i \in 1..Len(read) /\ more[i] = read[i] /\ i \in DOMAIN read
        BY <2>2, <2>6
      <3>2. CASE j \in 1..Len(read)
        <4>1. more[j] = read[j] /\ j \in DOMAIN read
          BY <2>2, <3>2
        <4>2. /\ read[i] # read[j]
              /\ MsgOf(read[i][1]).ordered /\ MsgOf(read[j][1]).ordered => read[i][1] < read[j][1]
          BY <1>1, <2>6, <3>1, <4>1 DEF ReadOnce
        <4> QED BY <3>1, <4>1, <4>2
      <3>3. CASE j = Len(read) + 1
        <4>1. more[j] = Whole(m) /\ more[j][1] = m.first /\ MsgOf(more[j][1]) = m
          BY <2>1, <2>2, <3>3
        <4> QED BY <2>5, <3>1, <4>1
      <3> QED BY <2>2, <3>2, <3>3
    <2> QED BY <2>2, <2>4, <2>6 DEF ReadOnce
  <1> HIDE DEF more
  <1>6. CASE s.passack
    <2>1. /\ Ring(h, f, d) /\ ~m.ordered
          /\ \A n \in Int : FlagOf(h, f, n) = IF n \in m.first..m.last THEN 2 ELSE FlagOf(b, f, n)
      BY <1>3, <1>4, <1>6
    <2>2. \A n \in m.first..m.last : n \in Int /\ FlagOf(h, f, n) = 2 /\ FlagOf(b, f, n) = 1
      BY <1>4, <2>1
    <2>3. \A n \in Int : (FlagOf(h, f, n) # 0 <=> FlagOf(b, f, n) # 0) /\ (FlagOf(b, f, n) = 2 => FlagOf(h, f, n) = 2)
      BY <2>1, <2>2
    <2>4. Received(h, f, d, cur, missing, dropped)
      <3>1. \A n \in f..cur : n \in Int
        BY <1>2
      <3> QED BY <1>1, <2>1, <2>3, <3>1 DEF Received
    <2>5. Wholes(h, f)
      <3> SUFFICES ASSUME NEW n \in Sent, FlagOf(h, f, n) = 2
                   PROVE  /\ ~Owner[n].ordered
                          /\ \A j \in Owner[n].first..Owner[n].last : j < f \/ FlagOf(h, f, j) = 2
        BY DEF Wholes
      <3>1. CASE n \in m.first..m.last
        BY <1>4, <2>1, <2>2, <3>1
      <3>2. CASE n \notin m.first..m.last
        <4>1. FlagOf(b, f, n) = 2
          BY <2>1, <3>2, SentAre
        <4>2. /\ ~Owner[n].ordered
              /\ \A j \in Owner[n].first..Owner[n].last : j < f \/ FlagOf(b, f, j) = 2
          BY <1>1, <4>1 DEF Wholes
        <4>3. \A j \in Owner[n].first..Owner[n].last : j \in Int
          BY SentAre, <1>1 DEF Divided
        <4> QED BY <2>3, <4>2, <4>3
      <3> QED BY <3>1, <3>2
    <2>6. Cuts(h, f, dropped)
      <3> SUFFICES ASSUME NEW x \in rbMsgs, x.first < f, f <= x.last
                   PROVE  Touched(x, dropped) \/ \A n \in f..x.last : FlagOf(h, f, n) = 2
        BY DEF Cuts
      <3>1. Touched(x, dropped) \/ \A n \in f..x.last : FlagOf(b, f, n) = 2
        BY <1>1 DEF Cuts
      <3>2. \A n \in f..x.last : n \in Int
        OBVIOUS
      <3> QED BY <2>3, <3>1, <3>2
    <2>7. ReadOnce(h, f, more)
      <3>1. ASSUME NEW x \in rbMsgs, NEW n \in x.first..x.last,
                   n < f \/ (~x.ordered /\ FlagOf(b, f, n) = 2)
            PROVE  n < f \/ (~x.ordered /\ FlagOf(h, f, n) = 2)
        BY <2>3, <3>1
      <3>2. \A n \in m.first..m.last : n < f \/ (~m.ordered /\ FlagOf(h, f, n) = 2)
        BY <2>1, <2>2
      <3> QED BY <1>2, <1>5, <3>1, <3>2
    <2>8. HoldsMessages(h, f, d, cur, missing, dropped, more, given)
      BY <1>1, <2>4, <2>5, <2>6, <2>7 DEF HoldsMessages
    <2>9. 0 \in 0..d /\ f + 0 = f /\ d - 0 = d
      BY <1>2
    <2> QED BY <2>8, <2>9 DEF h, more
  <1>7. CASE ~s.passack
    <2> DEFINE k == m.last - f + 1
    <2>1. k \in 1..d /\ Skipped(b, f, d, h, k) /\ m.first = f
      BY <1>3, <1>7
    <2>2. k \in 0..d /\ k \in Nat /\ f + k = m.last + 1 /\ f + k \in Nat
      BY <1>2, <1>4, <2>1
    <2> HIDE DEF k
    <2>3. \A n \in Int : FlagOf(h, f + k, n) = IF n < f + k THEN 0 ELSE FlagOf(b, f, n)
      BY <2>1 DEF Skipped
    <2>4. Received(h, f + k, d - k, cur, missing, dropped)
      BY <1>1, <2>1, <2>2, ReceivedSkip
    <2>5. Wholes(h, f + k)
      BY <1>1, <2>1, <2>2, WholesSkip
    <2>6. Cuts(h, f + k, dropped)
      <3> SUFFICES ASSUME NEW x \in rbMsgs, x.first < f + k, f + k <= x.last PROVE FALSE
        BY DEF Cuts
      <3>1. /\ x.first \in Nat /\ x.last \in Nat
            /\ \A n \in x.first..x.last : Owner[n] = x
        BY <1>1, MessageIs
      <3>2. m.last \in x.first..x.last /\ m.last \in m.first..m.last
        BY <1>4, <2>2, <3>1
      <3>3. x = m
        BY <1>4, <3>1, <3>2
      <3> QED BY <1>4, <2>2, <3>3
    <2>7. ReadOnce(h, f + k, more)
      <3>1. ASSUME NEW x \in rbMsgs, NEW n \in x.first..x.last,
                   n < f \/ (~x.ordered /\ FlagOf(b, f, n) = 2)
            PROVE  n < f + k \/ (~x.ordered /\ FlagOf(h, f + k, n) = 2)
        BY <1>2, <2>2, <2>3, <3>1
      <3>2. \A n \in m.first..m.last : n < f + k
        BY <1>4, <2>2
      <3> QED BY <2>2, <1>5, <3>1, <3>2
    <2>8. HoldsMessages(h, f + k, d - k, cur, missing, dropped, more, given)
      BY <1>1, <2>4, <2>5, <2>6, <2>7 DEF HoldsMessages
    <2> QED BY <2>2, <2>8 DEF h, more
  <1> QED BY <1>6, <1>7

-----------------------------------------------------------------------------
(* readBuffer.                                                             *)

LEMMA BytesAre ==
    /\ BytesTo[0] = 0 /\ \A n \in 1..Packets : BytesTo[n] = BytesTo[n - 1] + PacketBytes(n)
    /\ \A n \in 0..Packets : BytesTo[n] \in Int
  <1> DEFINE g == [k \in 1..Packets |-> [x \in Int |-> x + PacketBytes(k)]]
             Body(f) == [n \in 0..Packets |-> IF n = 0 THEN 0 ELSE f[n - 1] + PacketBytes(n)]
  <1>1. Packets \in Nat /\ \A n \in Int : PacketBytes(n) \in Int
    BY RbSizes DEF PacketBytes
  <1>2. g \in [1..Packets -> [Int -> Int]]
    <2>1. \A k \in 1..Packets : PacketBytes(k) \in Int
      BY <1>1
    <2> QED BY <2>1
  <1>3. PICK f : f \in Loops(Packets, Int, 0, g)
    <2> DEFINE zero == 0
    <2>1. zero \in Int /\ Packets \in Nat
      BY <1>1
    <2> HIDE DEF g, zero
    <2>2. \E f : f \in Loops(Packets, Int, zero, g)
      BY <1>2, <2>1, LoopRuns
    <2> QED BY <2>2 DEF zero
  <1>4. f = Body(f)
    <2>1. /\ f \in [0..Packets -> Int] /\ f[0] = 0
          /\ \A k \in 1..Packets : f[k] = g[k][f[k - 1]]
      <3> HIDE DEF g
      <3> QED BY <1>3 DEF Loops
    <2>2. \A k \in 1..Packets : f[k] = f[k - 1] + PacketBytes(k)
      <3> TAKE k \in 1..Packets
      <3> HIDE DEF g
      <3>1. f[k - 1] \in Int /\ f[k] = g[k][f[k - 1]]
        BY <1>1, <2>1
      <3>2. g[k] = [x \in Int |-> x + PacketBytes(k)]
        BY DEF g
      <3> QED BY <3>1, <3>2
    <2>3. \A k \in 0..Packets : f[k] = IF k = 0 THEN 0 ELSE f[k - 1] + PacketBytes(k)
      BY <1>1, <2>1, <2>2
    <2> QED BY <2>1, <2>3
  <1>5. BytesTo = Body(BytesTo)
    <2>1. BytesTo = CHOOSE x : x = Body(x)
      BY DEF BytesTo
    <2> HIDE DEF Body
    <2> QED BY <1>4, <2>1, Zenon
  <1>6. BytesTo[0] = 0 /\ \A n \in 1..Packets : BytesTo[n] = BytesTo[n - 1] + PacketBytes(n)
    <2>1. \A n \in 0..Packets : BytesTo[n] = IF n = 0 THEN 0 ELSE BytesTo[n - 1] + PacketBytes(n)
      <3> HIDE DEF g
      <3> QED BY <1>5
    <2>2. 0 \in 0..Packets /\ \A n \in 1..Packets : n \in 0..Packets /\ n # 0
      BY <1>1
    <2> HIDE DEF Body, g
    <2> QED BY <2>1, <2>2
  <1> DEFINE In == {n \in Nat : n <= Packets => BytesTo[n] \in Int}
  <1>7. 0 \in In
    BY <1>6
  <1>8. ASSUME NEW n \in In PROVE n + 1 \in In
    <2> SUFFICES ASSUME n + 1 <= Packets PROVE BytesTo[n + 1] \in Int
      OBVIOUS
    <2>1. BytesTo[n] \in Int /\ BytesTo[n + 1] = BytesTo[n] + PacketBytes(n + 1)
      BY <1>1, <1>6
    <2> QED BY <1>1, <2>1
  <1>9. In = Nat
    <2> HIDE DEF In
    <2>1. In \in SUBSET Nat
      BY DEF In
    <2> QED BY <1>7, <1>8, <2>1, ByInduction
  <1> QED BY <1>1, <1>6, <1>9

\* The states of the loop, a turn, and the runs of n turns.
ReadStates == [buf : RingRecord, rs : Int]

ReadTurn(ack, c) ==
    LET p == c.buf.start
        left == PacketBytes(c.buf.unit[p]) - c.buf.notch
    IN IF p = ack \/ c.rs = 0 THEN c
       ELSE IF c.rs >= left
       THEN [buf |-> [FreeUnit(c.buf, p) EXCEPT !.start = After(p), !.notch = 0],
             rs |-> c.rs - left]
       ELSE [buf |-> [c.buf EXCEPT !.notch = @ + c.rs], rs |-> 0]

ReadRuns(b, len, n) ==
    {r \in [0..n -> ReadStates] :
        r[0] = [buf |-> b, rs |-> len] /\ \A k \in 1..n : r[k] = ReadTurn(b.ackPos, r[k - 1])}

LEMMA ReadTurnTypes ==
    ASSUME NEW ack, NEW c \in ReadStates PROVE ReadTurn(ack, c) \in ReadStates
  <1> DEFINE p == c.buf.start
             left == PacketBytes(c.buf.unit[p]) - c.buf.notch
             u == [c.buf.unit EXCEPT ![p] = NoUnit]
             v == [c.buf.flag EXCEPT ![p] = 0]
             w == [FreeUnit(c.buf, p) EXCEPT !.start = After(p), !.notch = 0]
  <1>1. /\ c.buf \in RingRecord /\ c.rs \in Int /\ p \in RingSlots /\ After(p) \in RingSlots
        /\ c.buf.unit \in [RingSlots -> Int] /\ c.buf.flag \in [RingSlots -> 0..2]
        /\ c.buf.ackPos \in RingSlots /\ c.buf.maxPos \in Nat /\ c.buf.notch \in Int /\ c.buf.count \in Int
    <2>1. c.buf \in RingRecord /\ c.rs \in Int
      BY DEF ReadStates
    <2>2. /\ p \in RingSlots /\ c.buf.unit \in [RingSlots -> Int] /\ c.buf.flag \in [RingSlots -> 0..2]
          /\ c.buf.ackPos \in RingSlots /\ c.buf.maxPos \in Nat /\ c.buf.notch \in Int /\ c.buf.count \in Int
      BY <2>1 DEF RingRecord
    <2>3. \A i \in RingSlots : After(i) \in RingSlots
      BY RbSizes DEF After
    <2> QED BY <2>1, <2>2, <2>3
  <1>2. left \in Int
    BY <1>1 DEF PacketBytes
  <1>3. u \in [RingSlots -> Int] /\ v \in [RingSlots -> 0..2]
    BY <1>1, RbSizes
  <1> HIDE DEF left, p
  <1>4. w = [c.buf EXCEPT !.unit = u, !.flag = v, !.count = c.buf.count - 1, !.start = After(p), !.notch = 0]
    BY DEF FreeUnit
  <1> HIDE DEF w, u, v
  <1>5. w \in RingRecord
    <2>1. c.buf.count - 1 \in Int /\ 0 \in Int
      BY <1>1
    <2> QED BY <1>1, <1>3, <1>4, <2>1 DEF RingRecord
  <1>6. [c.buf EXCEPT !.notch = @ + c.rs] \in RingRecord
    BY <1>1 DEF RingRecord
  <1>7. ReadTurn(ack, c) = IF p = ack \/ c.rs = 0 THEN c
                           ELSE IF c.rs >= left THEN [buf |-> w, rs |-> c.rs - left]
                           ELSE [buf |-> [c.buf EXCEPT !.notch = @ + c.rs], rs |-> 0]
    BY DEF ReadTurn, w, left, p
  <1>8. [buf |-> w, rs |-> c.rs - left] \in ReadStates
    BY <1>1, <1>2, <1>5 DEF ReadStates
  <1>9. [buf |-> [c.buf EXCEPT !.notch = @ + c.rs], rs |-> 0] \in ReadStates
    BY <1>6 DEF ReadStates
  <1> QED BY <1>7, <1>8, <1>9

LEMMA ReadLoop ==
    ASSUME NEW b \in RingRecord, NEW len \in Int
    PROVE  \E r \in ReadRuns(b, len, BufSize) : ReadBuffer(b, len) = r[BufSize]
  <1> DEFINE x == [buf |-> b, rs |-> len]
             Turn(c) == ReadTurn(b.ackPos, c)
             Body(f) == [k \in 0..BufSize |-> IF k = 0 THEN x ELSE Turn(f[k - 1])]
             g == [k \in 1..BufSize |-> [c \in ReadStates |-> Turn(c)]]
             loop == CHOOSE f : f = Body(f)
  <1>0. x \in ReadStates /\ BufSize \in Nat
    BY RbSizes DEF ReadStates
  <1>1. \A c \in ReadStates : Turn(c) \in ReadStates
    BY ReadTurnTypes
  <1>2. g \in [1..BufSize -> [ReadStates -> ReadStates]]
    <2> HIDE DEF Turn
    <2> QED BY <1>1
  <1>3. PICK f : f \in Loops(BufSize, ReadStates, x, g)
    <2> HIDE DEF g, x
    <2> QED BY <1>0, <1>2, LoopRuns
  <1>4. f = Body(f)
    <2> HIDE DEF g, x, Turn
    <2>1. /\ f \in [0..BufSize -> ReadStates] /\ f[0] = x
          /\ \A k \in 1..BufSize : f[k] = g[k][f[k - 1]]
      BY <1>3 DEF Loops
    <2>2. \A k \in 1..BufSize : f[k] = Turn(f[k - 1])
      <3> TAKE k \in 1..BufSize
      <3>1. f[k - 1] \in ReadStates /\ f[k] = g[k][f[k - 1]]
        BY <1>0, <2>1
      <3>2. g[k] = [c \in ReadStates |-> Turn(c)]
        BY DEF g
      <3> QED BY <3>1, <3>2
    <2>3. \A k \in 0..BufSize : f[k] = IF k = 0 THEN x ELSE Turn(f[k - 1])
      BY <1>0, <2>1, <2>2
    <2> QED BY <2>1, <2>3
  <1>5. loop = Body(loop)
    <2> HIDE DEF Body
    <2> QED BY <1>4, Zenon DEF loop
  <1>6. ReadBuffer(b, len) = loop[BufSize]
    BY Zenon DEF ReadBuffer, ReadTurn
  <1> HIDE DEF loop, x, Turn
  <1>7. loop[0] = x /\ \A k \in 1..BufSize : loop[k] = Turn(loop[k - 1])
    BY <1>0, <1>5
  <1>8. loop = [k \in 0..BufSize |-> loop[k]]
    BY <1>5
  <1> HIDE DEF g, Body
  <1>9. \A k \in 0..BufSize : loop[k] \in ReadStates
    <2> DEFINE In == {k \in Nat : k <= BufSize => loop[k] \in ReadStates}
    <2>1. 0 \in In
      BY <1>0, <1>7
    <2>2. ASSUME NEW k \in In PROVE k + 1 \in In
      <3> SUFFICES ASSUME k + 1 <= BufSize PROVE loop[k + 1] \in ReadStates
        OBVIOUS
      <3>1. loop[k] \in ReadStates /\ loop[k + 1] = Turn(loop[k])
        BY <1>0, <1>7
      <3> QED BY <1>1, <3>1
    <2>3. In = Nat
      <3> HIDE DEF In
      <3>1. In \in SUBSET Nat
        BY DEF In
      <3> QED BY <2>1, <2>2, <3>1, ByInduction
    <2> QED BY <2>3
  <1>10. loop \in [0..BufSize -> ReadStates]
    BY <1>8, <1>9
  <1>11. loop \in ReadRuns(b, len, BufSize)
    BY <1>7, <1>10 DEF ReadRuns, Turn, x
  <1> QED BY <1>6, <1>11

\* The loop has read up to packet f + j, and its last turn left state c.
ReadTo(b, f, d, len, c, j) ==
    /\ c \in ReadStates /\ Skipped(b, f, d, c.buf, j) /\ c.buf.ackPos = b.ackPos
    /\ c.buf.notch \in Nat /\ c.buf.notch < PacketBytes(f + j) /\ c.rs \in Nat
    /\ BytesTo[(f + j) - 1] + c.buf.notch - (BytesTo[f - 1] + b.notch) = len - c.rs

LEMMA ReadTurnKeeps ==
    ASSUME NEW b, NEW f, NEW d, NEW cur, NEW missing, Received(b, f, d, cur, missing, {}),
           b.notch \in Nat, NEW len \in Nat, NEW c, NEW j \in 0..d, ReadTo(b, f, d, len, c, j)
    PROVE  \E i \in 0..d : ReadTo(b, f, d, len, ReadTurn(b.ackPos, c), i)
  <1> DEFINE g == c.buf
             p == g.start
             left == PacketBytes(g.unit[p]) - g.notch
             t == ReadTurn(b.ackPos, c)
  <1>1. /\ Ring(b, f, d) /\ f \in Nat \ {0} /\ f \in Nat /\ cur \in Nat /\ cur <= Packets /\ d \in 0..BufSize - 1
        /\ d \in Nat /\ j \in Nat /\ j <= d /\ f + d <= cur + 1 /\ missing \subseteq f + d..cur
        /\ \A n \in f..cur : FlagOf(b, f, n) # 0 \/ n \in missing
    <2>1. /\ Ring(b, f, d) /\ f \in Nat \ {0} /\ cur \in 0..Packets
          /\ f + d <= cur + 1 /\ missing \subseteq f + d..cur
          /\ \A n \in f..cur : FlagOf(b, f, n) # 0 \/ n \in missing
      BY DEF Received
    <2>2. d \in 0..BufSize - 1
      BY <2>1 DEF Ring
    <2> QED BY <2>1, <2>2, RbSizes
  <1>2. /\ c \in ReadStates /\ Ring(g, f + j, d - j) /\ g.notch \in Nat /\ g.notch < PacketBytes(f + j)
        /\ c.rs \in Nat /\ g.ackPos = b.ackPos
        /\ BytesTo[(f + j) - 1] + g.notch - (BytesTo[f - 1] + b.notch) = len - c.rs
        /\ \A n \in Int : FlagOf(g, f + j, n) = IF n < f + j THEN 0 ELSE FlagOf(b, f, n)
    BY DEF ReadTo, Skipped
  <1>3. t = IF p = b.ackPos \/ c.rs = 0 THEN c
            ELSE IF c.rs >= left
            THEN [buf |-> [FreeUnit(g, p) EXCEPT !.start = After(p), !.notch = 0], rs |-> c.rs - left]
            ELSE [buf |-> [g EXCEPT !.notch = @ + c.rs], rs |-> 0]
    BY DEF ReadTurn
  <1>4. /\ g \in RingRecord /\ p \in RingSlots /\ p = SlotAt(g, 0) /\ f + j \in Nat \ {0} /\ f + j \in Nat
        /\ BufSize \in Nat /\ BufSize >= 2 /\ t \in ReadStates
    <2>1. g \in RingRecord /\ p \in RingSlots
      BY <1>2 DEF Ring, RingRecord
    <2>2. t \in ReadStates
      BY <1>2, ReadTurnTypes
    <2> QED BY SMTT(30), <1>1, <2>1, <2>2, SlotZero, RbSizes
  <1> HIDE DEF t, g
  <1>5. CASE p = b.ackPos \/ c.rs = 0
    <2>1. t = c
      BY <1>3, <1>5
    <2> QED BY <2>1 DEF t
  <1>6. CASE ~(p = b.ackPos \/ c.rs = 0)
    <2>1. d - j # 0
      <3> SUFFICES ASSUME d - j = 0 PROVE FALSE
        OBVIOUS
      <3>1. g.ackPos = SlotAt(g, d - j)
        BY <1>2 DEF Ring
      <3> QED BY <1>2, <1>4, <1>6, <3>1
    <2>2. FlagOf(g, f + j, f + j) # 0
      <3>1. f + j \in f..cur /\ f + j \notin missing
        BY <1>1, <2>1
      <3>2. FlagOf(b, f, f + j) # 0
        BY <1>1, <3>1
      <3> QED BY <1>2, <1>4, <3>2
    <2>3. g.unit[p] = f + j
      <3>1. 0 \in 0..BufSize - 1 /\ f + j + 0 = f + j
        BY <1>4
      <3>2. FlagOf(g, f + j, f + j + 0) # 0 => g.unit[SlotAt(g, 0)] = f + j + 0
        BY <1>2, <1>4, <3>1, FlagAt
      <3> QED BY <1>4, <2>2, <3>1, <3>2
    <2>4. left = PacketBytes(f + j) - g.notch /\ left \in Nat /\ PacketBytes(f + j) \in Nat
      <3>1. (f + j) % 2 \in 0..1
        BY <1>4
      <3>2. PacketBytes(f + j) \in Nat
        BY <3>1 DEF PacketBytes
      <3> QED BY <1>2, <2>3, <3>2
    <2> HIDE DEF left
    <2>5. BytesTo[f - 1] \in Int /\ BytesTo[(f + j) - 1] \in Int /\ BytesTo[f + j] = BytesTo[(f + j) - 1] + PacketBytes(f + j)
      <3>1. f - 1 \in 0..Packets /\ (f + j) - 1 \in 0..Packets /\ f + j \in 1..Packets
        BY <1>1, <2>1, RbSizes
      <3>2. BytesTo[f - 1] \in Int
        BY <3>1, BytesAre
      <3>3. BytesTo[(f + j) - 1] \in Int
        BY <3>1, BytesAre
      <3> DEFINE n == f + j
      <3>4. n \in 1..Packets
        BY <3>1
      <3> HIDE DEF n
      <3>5. BytesTo[n] = BytesTo[n - 1] + PacketBytes(n)
        BY <3>4, BytesAre
      <3>6. BytesTo[f + j] = BytesTo[(f + j) - 1] + PacketBytes(f + j)
        BY <3>5 DEF n
      <3> QED BY <3>2, <3>3, <3>6
    <2>6. CASE c.rs >= left
      <3> DEFINE h == FreeFirst(g, 1)
                 e == [h EXCEPT !.notch = 0]
      <3>1. 1 \in 0..d - j /\ After(p) = SlotAt(g, 1)
        <4>1. 0 \in 0..BufSize - 1 /\ 0 + 1 = 1
          BY <1>4
        <4>2. After(SlotAt(g, 0)) = SlotAt(g, 0 + 1)
          BY <1>4, <4>1, SlotNext DEF RingRecord
        <4> QED BY <1>1, <1>4, <2>1, <4>1, <4>2
      <3>2. Skipped(g, f + j, d - j, h, 1)
        BY <1>2, <1>4, <3>1, FreedRing
      <3>3. /\ e = [FreeUnit(g, p) EXCEPT !.start = After(p), !.notch = 0]
            /\ e.notch = 0 /\ e.ackPos = g.ackPos
        <4> DEFINE freed == {SlotAt(g, i) : i \in 0..1 - 1}
        <4>1. freed = {p}
          BY <1>4
        <4>2. g.unit[p] # NoUnit
          BY <1>4, <2>3, RbSizes
        <4>3. {i \in freed : g.unit[i] # NoUnit} = {p}
          BY <4>1, <4>2
        <4>4. Cardinality({p}) = 1
          BY FS_Singleton
        <4>5. /\ [i \in RingSlots |-> IF i \in freed THEN NoUnit ELSE g.unit[i]] = [g.unit EXCEPT ![p] = NoUnit]
              /\ [i \in RingSlots |-> IF i \in freed THEN 0 ELSE g.flag[i]] = [g.flag EXCEPT ![p] = 0]
          BY <1>4, <4>1 DEF RingRecord
        <4>6. h = [g EXCEPT !.unit = [i \in RingSlots |-> IF i \in freed THEN NoUnit ELSE g.unit[i]],
                            !.flag = [i \in RingSlots |-> IF i \in freed THEN 0 ELSE g.flag[i]],
                            !.count = @ - Cardinality({i \in freed : g.unit[i] # NoUnit}),
                            !.start = SlotAt(g, 1)]
          BY DEF FreeFirst
        <4> HIDE DEF h, freed, p
        <4>7. h = [g EXCEPT !.unit = [g.unit EXCEPT ![p] = NoUnit], !.flag = [g.flag EXCEPT ![p] = 0],
                            !.count = @ - 1, !.start = SlotAt(g, 1)]
          BY <4>3, <4>4, <4>5, <4>6
        <4> QED BY <1>4, <3>1, <4>7 DEF FreeUnit, RingRecord
      <3> HIDE DEF h
      <3>4. /\ Ring(h, f + j + 1, d - j - 1)
            /\ \A n \in Int : FlagOf(h, f + j + 1, n) = IF n < f + j + 1 THEN 0 ELSE FlagOf(g, f + j, n)
        BY <3>2 DEF Skipped
      <3>5. /\ Ring(e, f + j + 1, d - j - 1)
            /\ \A n \in Int : FlagOf(e, f + j + 1, n) = FlagOf(h, f + j + 1, n)
        <4>1. f + j + 1 \in Nat /\ 0 \in Int
          BY <1>4
        <4> HIDE DEF e
        <4>2. e = [h EXCEPT !.notch = 0]
          BY DEF e
        <4> QED BY <3>4, <4>1, <4>2, NotchRing
      <3> HIDE DEF e
      <3>6. Skipped(b, f, d, e, j + 1)
        <4>1. f + (j + 1) = f + j + 1 /\ d - (j + 1) = d - j - 1
          BY <1>1
        <4>2. \A n \in Int : FlagOf(e, f + j + 1, n) = IF n < f + j + 1 THEN 0 ELSE FlagOf(b, f, n)
          <5> TAKE n \in Int
          <5>1. FlagOf(e, f + j + 1, n) = IF n < f + j + 1 THEN 0 ELSE FlagOf(g, f + j, n)
            BY <3>4, <3>5
          <5>2. FlagOf(g, f + j, n) = IF n < f + j THEN 0 ELSE FlagOf(b, f, n)
            BY <1>2
          <5> QED BY <1>4, <5>1, <5>2
        <4> QED BY <3>5, <4>1, <4>2 DEF Skipped
      <3>7. t.buf = e /\ t.rs = c.rs - left
        BY <1>3, <1>6, <2>6, <3>3
      <3>8. 0 < PacketBytes(f + (j + 1)) /\ c.rs - left \in Nat
        <4>1. (f + (j + 1)) % 2 \in 0..1
          BY <1>1
        <4> QED BY <1>2, <2>4, <2>6, <4>1 DEF PacketBytes
      <3>9. BytesTo[(f + (j + 1)) - 1] + 0 - (BytesTo[f - 1] + b.notch) = len - (c.rs - left)
        <4>1. (f + (j + 1)) - 1 = f + j
          BY <1>1
        <4> QED BY <1>2, <2>4, <2>5, <4>1
      <3>10. ReadTo(b, f, d, len, t, j + 1)
        BY <1>2, <1>4, <3>3, <3>6, <3>7, <3>8, <3>9 DEF ReadTo
      <3>11. j + 1 \in 0..d
        BY <1>1, <2>1
      <3> QED BY <3>10, <3>11 DEF t
    <2>7. CASE ~(c.rs >= left)
      <3> DEFINE e == [g EXCEPT !.notch = g.notch + c.rs]
      <3>1. t.buf = e /\ t.rs = 0
        BY <1>3, <1>6, <2>7
      <3>2. e.ackPos = g.ackPos
        BY <1>4 DEF RingRecord
      <3>3. Ring(e, f + j, d - j) /\ e.notch = g.notch + c.rs /\ \A n \in Int : FlagOf(e, f + j, n) = FlagOf(g, f + j, n)
        <4>1. g.notch + c.rs \in Int
          BY <1>2
        <4> HIDE DEF e
        <4>2. e = [g EXCEPT !.notch = g.notch + c.rs]
          BY DEF e
        <4> QED BY <1>2, <1>4, <4>1, <4>2, NotchRing
      <3> HIDE DEF e
      <3>4. Skipped(b, f, d, e, j)
        BY <1>2, <3>3 DEF Skipped
      <3>5. e.notch \in Nat /\ e.notch < PacketBytes(f + j)
        BY <1>2, <2>4, <2>7, <3>3
      <3>6. BytesTo[(f + j) - 1] + e.notch - (BytesTo[f - 1] + b.notch) = len - 0
        BY <1>2, <2>5, <3>3
      <3>7. ReadTo(b, f, d, len, t, j)
        BY <1>2, <1>4, <3>1, <3>2, <3>4, <3>5, <3>6 DEF ReadTo
      <3> QED BY <3>7 DEF t
    <2> QED BY <2>6, <2>7
  <1> QED BY <1>5, <1>6

\* A read of a stream returns the bytes behind those that were read.
LEMMA ReadKeeps ==
    ASSUME NEW b, NEW f, NEW d, NEW cur, NEW missing, NEW bytes,
           HoldsStream(b, f, d, cur, missing, bytes), NEW len \in Nat
    PROVE  \E j \in 0..d : HoldsStream(ReadBuffer(b, len).buf, f + j, d - j, cur, missing,
                                       bytes + len - ReadBuffer(b, len).rs)
  <1>1. /\ Received(b, f, d, cur, missing, {}) /\ \A n \in Int : FlagOf(b, f, n) # 2
        /\ b.notch \in Nat /\ b.notch < PacketBytes(f) /\ bytes = BytesTo[f - 1] + b.notch
    BY DEF HoldsStream
  <1>2. /\ Ring(b, f, d) /\ b \in RingRecord /\ f \in Nat /\ f \in Nat \ {0} /\ d \in Nat /\ BufSize \in Nat
        /\ cur <= Packets /\ f + d <= cur + 1 /\ cur \in Nat
    BY <1>1, RbSizes DEF Received, Ring
  <1>3. PICK r \in ReadRuns(b, len, BufSize) : ReadBuffer(b, len) = r[BufSize]
    BY <1>2, ReadLoop
  <1>4. /\ r[0] = [buf |-> b, rs |-> len]
        /\ \A k \in 1..BufSize : r[k] = ReadTurn(b.ackPos, r[k - 1])
        /\ r[0] \in ReadStates
    BY <1>2 DEF ReadRuns
  <1> DEFINE In == {k \in Nat : k <= BufSize => \E j \in 0..d : ReadTo(b, f, d, len, r[k], j)}
  <1>5. 0 \in In
    <2>1. r[0].buf = b /\ r[0].rs = len /\ f + 0 = f /\ d - 0 = d /\ 0 \in 0..d
      BY <1>2, <1>4
    <2>2. Skipped(b, f, d, b, 0)
      BY <1>2, <2>1 DEF Skipped, FlagOf
    <2>3. BytesTo[f - 1] \in Int
      <3>1. f - 1 \in 0..Packets
        BY <1>2, RbSizes
      <3> QED BY <3>1, BytesAre
    <2>4. BytesTo[f - 1] + b.notch - (BytesTo[f - 1] + b.notch) = len - len
      <3> DEFINE y == BytesTo[f - 1]
      <3>1. y \in Int /\ b.notch \in Nat
        BY <1>1, <2>3
      <3> HIDE DEF y
      <3>2. y + b.notch - (y + b.notch) = len - len
        BY <3>1
      <3> QED BY <3>2 DEF y
    <2>5. ReadTo(b, f, d, len, r[0], 0)
      <3>1. (f + 0) - 1 = f - 1
        BY <1>2
      <3>2. r[0].buf.notch < PacketBytes(f + 0)
        BY <1>1, <2>1
      <3> QED BY <1>1, <1>4, <2>1, <2>2, <2>4, <3>1, <3>2 DEF ReadTo
    <2> QED BY <2>1, <2>5
  <1>6. ASSUME NEW k \in In PROVE k + 1 \in In
    <2> SUFFICES ASSUME k + 1 <= BufSize PROVE \E j \in 0..d : ReadTo(b, f, d, len, r[k + 1], j)
      OBVIOUS
    <2>1. PICK j \in 0..d : ReadTo(b, f, d, len, r[k], j)
      BY <1>2
    <2>2. r[k + 1] = ReadTurn(b.ackPos, r[k])
      <3>1. k + 1 \in 1..BufSize /\ (k + 1) - 1 = k
        BY <1>2
      <3> QED BY <1>4, <3>1
    <2> QED BY <1>1, <2>1, <2>2, ReadTurnKeeps
  <1>7. In = Nat
    <2> HIDE DEF In
    <2>1. In \in SUBSET Nat
      BY DEF In
    <2> QED BY <1>5, <1>6, <2>1, ByInduction
  <1>8. PICK j \in 0..d : ReadTo(b, f, d, len, r[BufSize], j)
    BY <1>2, <1>7
  <1> DEFINE c == r[BufSize]
             g == c.buf
  <1>9. /\ Skipped(b, f, d, g, j) /\ g.notch \in Nat /\ g.notch < PacketBytes(f + j) /\ c.rs \in Nat
        /\ BytesTo[(f + j) - 1] + g.notch - (BytesTo[f - 1] + b.notch) = len - c.rs
    BY <1>8 DEF ReadTo
  <1> HIDE DEF c, g
  <1>10. Received(g, f + j, d - j, cur, missing, {})
    BY <1>1, <1>9, ReceivedSkip
  <1>11. \A n \in Int : FlagOf(g, f + j, n) # 2
    BY <1>1, <1>9 DEF Skipped
  <1>12. bytes + len - c.rs = BytesTo[(f + j) - 1] + g.notch
    <2>1. f - 1 \in 0..Packets /\ (f + j) - 1 \in 0..Packets
      BY <1>2, RbSizes
    <2>2. BytesTo[f - 1] \in Int /\ BytesTo[(f + j) - 1] \in Int
      BY <2>1, BytesAre
    <2> DEFINE y == BytesTo[f - 1]
               z == BytesTo[(f + j) - 1]
    <2>3. y \in Int /\ z \in Int /\ z + g.notch - (y + b.notch) = len - c.rs /\ bytes = y + b.notch
      BY <1>1, <1>9, <2>2
    <2> HIDE DEF y, z
    <2>4. bytes + len - c.rs = z + g.notch
      BY <1>1, <1>9, <2>3
    <2> QED BY <2>4 DEF z
  <1>13. HoldsStream(g, f + j, d - j, cur, missing, bytes + len - c.rs)
    BY <1>9, <1>10, <1>11, <1>12, Zenon DEF HoldsStream
  <1> QED BY <1>3, <1>13 DEF c, g

-----------------------------------------------------------------------------
(* The steps.                                                              *)

LEMMA ReceivedData ==
    ASSUME NEW b, NEW f, NEW d, NEW cur, NEW missing, NEW dropped,
           Received(b, f, d, cur, missing, dropped),
           NEW n \in Sent, NEW offset, offset = n - (f + d), offset >= 0, offset < AvailSize(b),
           NEW g, g = AddData(b, n, offset), NEW more, NEW top,
           more = IF b.unit[(b.ackPos + offset) % BufSize] = NoUnit
                  THEN (missing \union cur + 1..n - 1) \ {n} ELSE missing,
           top = IF b.unit[(b.ackPos + offset) % BufSize] = NoUnit /\ n > cur THEN n ELSE cur
    PROVE  /\ Received(g, f, d, top, more, dropped) /\ g.notch = b.notch
           /\ \A j \in Int : FlagOf(g, f, j) = 2 <=> FlagOf(b, f, j) = 2
  <1> DEFINE fresh == b.unit[(b.ackPos + offset) % BufSize] = NoUnit
  <1>0. /\ fresh <=> b.unit[(b.ackPos + offset) % BufSize] = NoUnit
        /\ more = IF fresh THEN (missing \union cur + 1..n - 1) \ {n} ELSE missing
        /\ top = IF fresh /\ n > cur THEN n ELSE cur
    OBVIOUS
  <1> HIDE DEF fresh
  <1>1. /\ Ring(b, f, d) /\ f \in Nat \ {0} /\ cur \in 0..Packets
        /\ f + d <= cur + 1 /\ cur <= f + BufSize - 2
        /\ missing \subseteq f + d..cur /\ dropped \subseteq Sent
        /\ \A j \in Int : FlagOf(b, f, j) # 0 => j <= cur
        /\ \A j \in f..cur : FlagOf(b, f, j) # 0 \/ j \in missing \union dropped
    BY DEF Received
  <1>2. /\ d \in 0..BufSize - 1 /\ d \in Nat /\ f \in Nat /\ cur \in Nat /\ cur <= Packets /\ BufSize \in Nat
        /\ BufSize >= 2 /\ n \in Nat /\ n >= 1 /\ n <= Packets /\ Packets \in Nat
    BY <1>1, RbSizes, SentAre DEF Ring
  <1>3. AvailSize(b) = BufSize - d - 1
    <2>1. b.start \in RingSlots /\ b.ackPos = SlotAt(b, d)
      BY <1>1 DEF Ring, RingRecord
    <2> QED BY <1>2, <2>1, RingSize
  <1>4. offset \in Nat /\ offset < BufSize - d - 1 /\ n = f + d + offset
    BY <1>2, <1>3
  <1>5. /\ Ring(g, f, d) /\ g.notch = b.notch
        /\ fresh <=> FlagOf(b, f, n) = 0
        /\ \A j \in Int : FlagOf(g, f, j) = IF j = n /\ FlagOf(b, f, n) = 0 THEN 1 ELSE FlagOf(b, f, j)
    <2>1. n \in Int
      BY <1>2
    <2>2. /\ Ring(g, f, d) /\ g.notch = b.notch
          /\ b.unit[(b.ackPos + offset) % BufSize] = NoUnit <=> FlagOf(b, f, n) = 0
          /\ \A j \in Int : FlagOf(g, f, j) = IF j = n /\ FlagOf(b, f, n) = 0 THEN 1 ELSE FlagOf(b, f, j)
      <3> DEFINE h == AddData(b, n, offset)
      <3>1. /\ Ring(h, f, d) /\ h.notch = b.notch
            /\ b.unit[(b.ackPos + offset) % BufSize] = NoUnit <=> FlagOf(b, f, n) = 0
            /\ \A j \in Int : FlagOf(h, f, j) = IF j = n /\ FlagOf(b, f, n) = 0 THEN 1 ELSE FlagOf(b, f, j)
        BY ONLY <1>1, <1>4, <2>1, AddedRing
      <3>2. g = h
        OBVIOUS
      <3> HIDE DEF h
      <3> QED BY <3>1, <3>2
    <2>3. fresh <=> FlagOf(b, f, n) = 0
      BY <1>0, <2>2
    <2> QED BY <2>2, <2>3
  <1>6. FlagOf(b, f, n) \in 0..2
    BY <1>1, <1>2, FlagsAre
  <1>7. \A j \in Int : FlagOf(g, f, j) = 2 <=> FlagOf(b, f, j) = 2
    BY <1>5
  <1>8. CASE fresh
    <2>1. /\ FlagOf(b, f, n) = 0 /\ more = (missing \union cur + 1..n - 1) \ {n}
          /\ top = IF n > cur THEN n ELSE cur
          /\ \A j \in Int : FlagOf(g, f, j) = IF j = n THEN 1 ELSE FlagOf(b, f, j)
      BY <1>0, <1>5, <1>8
    <2>2. /\ top \in 0..Packets /\ f + d <= top + 1 /\ top <= f + BufSize - 2 /\ cur <= top /\ n <= top
          /\ top \in Nat
      <3>1. n <= f + BufSize - 2 /\ f + d <= n + 1 /\ n \in Nat
        BY <1>2, <1>4
      <3>2. CASE n > cur
        BY ONLY <1>1, <1>2, <2>1, <3>1, <3>2
      <3>3. CASE ~(n > cur)
        BY ONLY <1>1, <1>2, <2>1, <3>3
      <3> QED BY <3>2, <3>3
    <2>3. more \subseteq f + d..top
      BY ONLY <1>1, <1>2, <2>1, <2>2
    <2>4. \A j \in Int : FlagOf(g, f, j) # 0 => j <= top
      BY <1>1, <1>2, <2>1, <2>2
    <2>5. ASSUME NEW j \in f..top PROVE FlagOf(g, f, j) # 0 \/ j \in more \union dropped
      <3>1. j \in Int
        BY <1>2
      <3>2. CASE j = n
        BY <2>1, <3>1, <3>2
      <3>3. CASE j # n /\ j <= cur
        <4>1. j \in f..cur
          BY <1>2, <3>1, <3>3
        <4>2. FlagOf(b, f, j) # 0 \/ j \in missing \union dropped
          BY <1>1, <4>1
        <4> QED BY <2>1, <3>1, <3>3, <4>2
      <3>4. CASE j # n /\ j > cur
        <4>1. j \in cur + 1..n - 1
          BY <1>2, <2>1, <2>2, <3>1, <3>4
        <4> QED BY <2>1, <3>4, <4>1
      <3> QED BY <1>2, <3>1, <3>2, <3>3, <3>4
    <2> QED BY <1>1, <1>5, <1>7, <2>2, <2>3, <2>4, <2>5 DEF Received
  <1>9. CASE ~fresh
    <2>1. /\ FlagOf(b, f, n) # 0 /\ more = missing /\ top = cur
          /\ \A j \in Int : FlagOf(g, f, j) = FlagOf(b, f, j)
      BY <1>0, <1>5, <1>9
    <2>2. \A j \in f..cur : j \in Int
      BY <1>2
    <2> QED BY <1>1, <1>5, <1>7, <2>1, <2>2 DEF Received
  <1> QED BY <1>8, <1>9

LEMMA ReceivedAck ==
    ASSUME NEW b, NEW f, NEW d, NEW cur, NEW missing, NEW dropped,
           Received(b, f, d, cur, missing, dropped),
           NEW ack, ack = IF missing = {} THEN cur + 1 ELSE MinOf(missing), ack > f + d,
           NEW g, g = AckData(b, ack - (f + d))
    PROVE  /\ ack - f \in Nat /\ f + (ack - f) = ack
           /\ Received(g, f, ack - f, cur, missing, dropped) /\ g.notch = b.notch
           /\ \A j \in Int : FlagOf(g, f, j) = 2 <=> FlagOf(b, f, j) = 2
  <1>1. /\ Ring(b, f, d) /\ f \in Nat \ {0} /\ cur \in 0..Packets
        /\ f + d <= cur + 1 /\ cur <= f + BufSize - 2
        /\ missing \subseteq f + d..cur /\ dropped \subseteq Sent
        /\ \A j \in Int : FlagOf(b, f, j) # 0 => j <= cur
        /\ \A j \in f..cur : FlagOf(b, f, j) # 0 \/ j \in missing \union dropped
    BY DEF Received
  <1>2. /\ d \in 0..BufSize - 1 /\ d \in Nat /\ f \in Nat /\ cur \in Nat /\ cur <= Packets /\ BufSize \in Nat
        /\ BufSize >= 2
    BY <1>1, RbSizes DEF Ring
  <1>3. ack \in Nat /\ ack <= cur + 1 /\ \A j \in missing : j >= ack
    <2>1. CASE missing = {}
      BY <1>2, <2>1
    <2>2. CASE missing # {}
      <3>1. missing \subseteq Nat
        BY <1>1, <1>2
      <3>2. PICK l \in missing : \A j \in missing : l <= j
        BY <2>2, <3>1, LeastOne
      <3>3. MinOf(missing) \in missing /\ \A j \in missing : MinOf(missing) <= j
        BY <3>2 DEF MinOf
      <3> QED BY <1>1, <1>2, <2>2, <3>1, <3>3
    <2> QED BY <2>1, <2>2
  <1> DEFINE len == ack - (f + d)
  <1>4. len \in Nat /\ len < BufSize - d /\ d + len = ack - f /\ ack - f \in Nat /\ f + (ack - f) = ack
    BY <1>1, <1>2, <1>3
  <1> HIDE DEF len
  <1>5. /\ Ring(g, f, d + len) /\ g.notch = b.notch
        /\ \A j \in Int : FlagOf(g, f, j) = FlagOf(b, f, j)
    <2>1. g = AckData(b, len)
      BY DEF len
    <2> QED BY <1>1, <1>4, <2>1, AckedRing
  <1>6. missing \subseteq f + (ack - f)..cur
    BY <1>1, <1>2, <1>3, <1>4
  <1>7. \A j \in f..cur : j \in Int
    BY <1>2
  <1>8. Received(g, f, ack - f, cur, missing, dropped)
    BY <1>1, <1>3, <1>4, <1>5, <1>6, <1>7 DEF Received
  <1> QED BY <1>4, <1>5, <1>8

LEMMA ReceivedDrop ==
    ASSUME NEW b, NEW f, NEW d, NEW cur, NEW missing, NEW dropped,
           Received(b, f, d, cur, missing, dropped),
           NEW n \in Sent, NEW x \in n..Packets, x - (f + d) < AvailSize(b),
           NEW top, top = IF n <= cur + 1 /\ x > cur THEN x ELSE cur
    PROVE  Received(b, f, d, top, missing \ (n..x), dropped \union n..x)
  <1>1. /\ Ring(b, f, d) /\ f \in Nat \ {0} /\ cur \in 0..Packets
        /\ f + d <= cur + 1 /\ cur <= f + BufSize - 2
        /\ missing \subseteq f + d..cur /\ dropped \subseteq Sent
        /\ \A j \in Int : FlagOf(b, f, j) # 0 => j <= cur
        /\ \A j \in f..cur : FlagOf(b, f, j) # 0 \/ j \in missing \union dropped
    BY DEF Received
  <1>2. /\ d \in 0..BufSize - 1 /\ d \in Nat /\ f \in Nat /\ cur \in Nat /\ cur <= Packets /\ BufSize \in Nat
        /\ BufSize >= 2 /\ n \in Nat /\ n >= 1 /\ x \in Nat /\ n <= x /\ x <= Packets /\ Packets \in Nat
    BY <1>1, RbSizes, SentAre DEF Ring
  <1>3. AvailSize(b) = BufSize - d - 1
    <2>1. b.start \in RingSlots /\ b.ackPos = SlotAt(b, d)
      BY <1>1 DEF Ring, RingRecord
    <2> QED BY <1>2, <2>1, RingSize
  <1>4. /\ top \in 0..Packets /\ top \in Nat /\ cur <= top /\ f + d <= top + 1 /\ top <= f + BufSize - 2
        /\ \A j \in cur + 1..top : j \in n..x
    BY <1>1, <1>2, <1>3
  <1>5. missing \ (n..x) \subseteq f + d..top /\ dropped \union n..x \subseteq Sent
    <2>1. n..x \subseteq Sent
      BY <1>2, SentAre
    <2> QED BY <1>1, <1>2, <1>4, <2>1
  <1>6. \A j \in Int : FlagOf(b, f, j) # 0 => j <= top
    BY <1>1, <1>2, <1>4
  <1>7. ASSUME NEW j \in f..top
        PROVE  FlagOf(b, f, j) # 0 \/ j \in (missing \ (n..x)) \union (dropped \union n..x)
    <2>1. CASE j <= cur
      <3>1. j \in f..cur
        BY <1>2, <1>4, <2>1
      <3> QED BY <1>1, <3>1
    <2>2. CASE j > cur
      <3>1. j \in cur + 1..top
        BY <1>2, <1>4, <2>2
      <3> QED BY <1>4, <3>1
    <2> QED BY <1>2, <2>1, <2>2
  <1> QED BY <1>1, <1>4, <1>5, <1>6, <1>7 DEF Received

\* Nothing is read, and what was dropped stays so.
LEMMA MessagesStay ==
    ASSUME NEW b, NEW f, NEW d, NEW cur, NEW missing, NEW dropped, NEW read, NEW given,
           HoldsMessages(b, f, d, cur, missing, dropped, read, given),
           NEW g, NEW e, NEW top, NEW more, NEW named,
           Received(g, f, e, top, more, named), dropped \subseteq named,
           \A j \in Int : FlagOf(g, f, j) = 2 <=> FlagOf(b, f, j) = 2
    PROVE  HoldsMessages(g, f, e, top, more, named, read, given)
  <1>1. /\ Divided /\ Wholes(b, f) /\ Cuts(b, f, dropped) /\ ReadOnce(b, f, read)
        /\ given \subseteq Sent /\ \A n \in given : Touched(Owner[n], dropped)
        /\ f \in Nat
    BY DEF HoldsMessages, Received
  <1>2. \A m \in rbMsgs : m.first \in Nat /\ m.last \in Nat /\ \A j \in m.first..m.last : j \in Int
    BY <1>1, MessageIs
  <1>3. \A n \in Sent : n \in Int /\ Owner[n] \in rbMsgs
    BY <1>1, SentAre DEF Divided
  <1>4. Wholes(g, f)
    <2> SUFFICES ASSUME NEW n \in Sent, FlagOf(g, f, n) = 2
                 PROVE  /\ ~Owner[n].ordered
                        /\ \A j \in Owner[n].first..Owner[n].last : j < f \/ FlagOf(g, f, j) = 2
      BY DEF Wholes
    <2>1. FlagOf(b, f, n) = 2
      BY <1>3
    <2>2. /\ ~Owner[n].ordered
          /\ \A j \in Owner[n].first..Owner[n].last : j < f \/ FlagOf(b, f, j) = 2
      BY <1>1, <2>1 DEF Wholes
    <2> QED BY <1>2, <1>3, <2>2
  <1>5. \A m : Touched(m, dropped) => Touched(m, named)
    BY DEF Touched
  <1>6. Cuts(g, f, named)
    <2> SUFFICES ASSUME NEW x \in rbMsgs, x.first < f, f <= x.last
                 PROVE  Touched(x, named) \/ \A n \in f..x.last : FlagOf(g, f, n) = 2
      BY DEF Cuts
    <2>1. Touched(x, dropped) \/ \A n \in f..x.last : FlagOf(b, f, n) = 2
      BY <1>1 DEF Cuts
    <2>2. \A n \in f..x.last : n \in Int
      OBVIOUS
    <2> QED BY <1>5, <2>1, <2>2
  <1>7. ReadOnce(g, f, read)
    <2>1. ASSUME NEW k \in DOMAIN read
          PROVE  \E m \in rbMsgs :
                    /\ read[k] = Whole(m)
                    /\ \A n \in m.first..m.last : n < f \/ (~m.ordered /\ FlagOf(g, f, n) = 2)
      <3>1. PICK m \in rbMsgs :
                    /\ read[k] = Whole(m)
                    /\ \A n \in m.first..m.last : n < f \/ (~m.ordered /\ FlagOf(b, f, n) = 2)
        BY <1>1 DEF ReadOnce
      <3> QED BY <1>2, <3>1
    <2> QED BY <1>1, <2>1 DEF ReadOnce
  <1> QED BY <1>1, <1>4, <1>5, <1>6, <1>7 DEF HoldsMessages

\* What the invariant says after a step.
LEMMA MessagesNext ==
    ASSUME UNCHANGED rbMsgs, rbMsgs # {}, NEW f \in Nat \ {0}, NEW d \in Nat, rbAck' = f + d,
           HoldsMessages(rb', f, d, rbCur', rbMissing', rbDropped', rbRead', rbGivenUp')
    PROVE  RcvBufferInv'
  <1>1. MsgOf(0) = MsgOf(0) /\ \A n : MsgOf(n)' = MsgOf(n)
    BY DEF MsgOf
  <1>2. Owner' = Owner
    BY <1>1 DEF Owner
  <1>3. Divided' = Divided
    BY <1>2 DEF Divided
  <1>4. Wholes(rb, f)' = Wholes(rb', f)
    BY <1>2 DEF Wholes
  <1>5. Cuts(rb, f, rbDropped)' = Cuts(rb', f, rbDropped')
    BY DEF Cuts
  <1>6. ReadOnce(rb, f, rbRead)' = ReadOnce(rb', f, rbRead')
    BY <1>1 DEF ReadOnce
  <1>7. HoldsMessages(rb, f, d, rbCur, rbMissing, rbDropped, rbRead, rbGivenUp)'
    BY <1>2, <1>3, <1>4, <1>5, <1>6 DEF HoldsMessages
  <1> QED BY <1>7 DEF RcvBufferInv

LEMMA StreamNext ==
    ASSUME UNCHANGED rbMsgs, rbMsgs = {}, NEW f \in Nat \ {0}, NEW d \in Nat, rbAck' = f + d,
           rbDropped' = {}, rbRead' = <<>>, rbGivenUp' = {},
           HoldsStream(rb', f, d, rbCur', rbMissing', rbBytes')
    PROVE  RcvBufferInv'
  BY DEF RcvBufferInv

\* The numbers of packets that are held.
LEMMA HeldNumbers ==
    ASSUME NEW b, NEW f, NEW d, NEW cur, NEW missing, NEW dropped,
           Received(b, f, d, cur, missing, dropped)
    PROVE  /\ f \in Nat \ {0} /\ d \in Nat /\ RcvDataSize(b) = d /\ f + d - RcvDataSize(b) = f
           /\ \A k \in 0..d : f + k \in Nat \ {0} /\ d - k \in Nat /\ (f + k) + (d - k) = f + d
  <1>1. Ring(b, f, d) /\ f \in Nat \ {0}
    BY DEF Received
  <1>2. d \in 0..BufSize - 1 /\ b.start \in RingSlots /\ b.ackPos = SlotAt(b, d)
    BY <1>1 DEF Ring, RingRecord
  <1>3. RcvDataSize(b) = d
    BY <1>2, RingSize
  <1> QED BY <1>1, <1>2, <1>3, RbSizes

LEMMA RcvBufferStart == RcvBufferInit => RcvBufferInv
  <1> SUFFICES ASSUME NEW msgs \in Partitions \union {{}}, RcvBufferIdle(msgs) PROVE RcvBufferInv
    BY DEF RcvBufferInit
  <1>1. /\ rb = BufferEmpty /\ rbAck = 1 /\ rbCur = 0 /\ rbMissing = {} /\ rbMsgs \in Partitions \union {{}}
        /\ rbRead = <<>> /\ rbBytes = 0 /\ rbDropped = {} /\ rbGivenUp = {}
    BY DEF RcvBufferIdle
  <1>2. BufSize \in Nat /\ BufSize >= 2 /\ RingSlots = 0..BufSize - 1 /\ NoUnit = 0 /\ Packets \in Nat
    BY RbSizes
  <1>3. /\ rb.unit = [i \in RingSlots |-> 0] /\ rb.flag = [i \in RingSlots |-> 0] /\ rb.start = 0
        /\ rb.ackPos = 0 /\ rb.maxPos = 0 /\ rb.notch = 0 /\ rb.count = 0
    BY <1>1, <1>2 DEF BufferEmpty
  <1>4. rb \in RingRecord
    <2>1. 0 \in RingSlots /\ 0 \in 0..2
      BY <1>2
    <2> QED BY <1>1, <1>2, <2>1 DEF BufferEmpty, RingRecord
  <1>5. \A k \in 0..BufSize : SlotAt(rb, k) \in RingSlots
    BY <1>4, SlotIs DEF RingRecord
  <1>6. \A n \in Int : FlagOf(rb, 1, n) = 0
    <2> SUFFICES ASSUME NEW n \in Int, n \in 1..1 + BufSize - 1 PROVE rb.flag[SlotAt(rb, n - 1)] = 0
      BY DEF FlagOf
    <2>1. n - 1 \in 0..BufSize
      BY <1>2
    <2> QED BY <1>3, <1>5, <2>1
  <1>7. Ring(rb, 1, 0)
    <2>1. 0 \in 0..BufSize - 1 /\ \A k \in 0..BufSize - 1 : k \in 0..BufSize
      BY <1>2
    <2>2. rb.ackPos = SlotAt(rb, 0)
      BY <1>3, <1>4, SlotZero DEF RingRecord
    <2>3. \A k \in 0..BufSize - 1 : rb.flag[SlotAt(rb, k)] = 0
      BY <1>3, <1>5, <2>1
    <2>4. rb.count = Cardinality({i \in RingSlots : rb.unit[i] # NoUnit})
      <3>1. {i \in RingSlots : rb.unit[i] # NoUnit} = {}
        BY <1>2, <1>3
      <3> QED BY <1>3, <3>1, FS_EmptySet
    <2> QED BY <1>2, <1>3, <1>4, <2>1, <2>2, <2>3, <2>4 DEF Ring
  <1>8. Received(rb, 1, 0, 0, {}, {})
    <2>1. 1..0 = {} /\ 0 \in 0..Packets /\ 1 + 0 <= 0 + 1 /\ 0 <= 1 + BufSize - 2 /\ {} \subseteq 1 + 0..0
      BY <1>2
    <2> QED BY <1>6, <1>7, <2>1 DEF Received
  <1>9. rbAck = 1 + 0 /\ 1 \in Nat \ {0} /\ 0 \in Nat
    BY <1>1
  <1>10. CASE rbMsgs = {}
    <2>1. BytesTo[1 - 1] = 0 /\ rb.notch < PacketBytes(1)
      <3>1. 1 % 2 \in 0..1
        OBVIOUS
      <3> QED BY <1>3, <3>1, BytesAre DEF PacketBytes
    <2>2. HoldsStream(rb, 1, 0, rbCur, rbMissing, rbBytes)
      <3>1. rbBytes = BytesTo[1 - 1] + rb.notch /\ rb.notch \in Nat
        BY <1>1, <1>3, <2>1
      <3> QED BY <1>1, <1>6, <1>8, <2>1, <3>1 DEF HoldsStream
    <2> QED BY <1>1, <1>9, <1>10, <2>2 DEF RcvBufferInv
  <1>11. CASE rbMsgs # {}
    <2>1. Divided
      BY <1>1, <1>11, MessagesCover
    <2>2. Wholes(rb, 1)
      BY <1>6, SentAre DEF Wholes
    <2>3. Cuts(rb, 1, rbDropped)
      BY <2>1, MessageIs DEF Cuts
    <2>4. ReadOnce(rb, 1, rbRead)
      BY <1>1 DEF ReadOnce
    <2>5. HoldsMessages(rb, 1, 0, rbCur, rbMissing, rbDropped, rbRead, rbGivenUp)
      BY <1>1, <1>8, <2>1, <2>2, <2>3, <2>4 DEF HoldsMessages
    <2> QED BY <1>9, <1>11, <2>5 DEF RcvBufferInv
  <1> QED BY <1>10, <1>11

LEMMA RcvBufferRests == RcvBufferInv /\ UNCHANGED rcvBufferVars => RcvBufferInv'
  <1> SUFFICES ASSUME RcvBufferInv, UNCHANGED rcvBufferVars PROVE RcvBufferInv'
    OBVIOUS
  <1>1. /\ rb' = rb /\ rbAck' = rbAck /\ rbCur' = rbCur /\ rbMissing' = rbMissing /\ rbMsgs' = rbMsgs
        /\ rbRead' = rbRead /\ rbBytes' = rbBytes /\ rbDropped' = rbDropped /\ rbGivenUp' = rbGivenUp
    BY DEF rcvBufferVars
  <1>2. PICK f \in Nat \ {0}, d \in Nat :
       /\ rbAck = f + d
       /\ \/ rbMsgs # {} /\ HoldsMessages(rb, f, d, rbCur, rbMissing, rbDropped, rbRead, rbGivenUp)
          \/ /\ rbMsgs = {} /\ rbDropped = {} /\ rbRead = <<>> /\ rbGivenUp = {}
             /\ HoldsStream(rb, f, d, rbCur, rbMissing, rbBytes)
    BY DEF RcvBufferInv
  <1> QED BY <1>1, <1>2, MessagesNext, StreamNext

\* With messages.
LEMMA MessagesStep ==
    ASSUME DropReach = 0, rbMsgs # {}, NEW f \in Nat \ {0}, NEW d \in Nat, rbAck = f + d,
           HoldsMessages(rb, f, d, rbCur, rbMissing, rbDropped, rbRead, rbGivenUp), RcvBufferNext
    PROVE  RcvBufferInv'
  <1>1. /\ Divided /\ Received(rb, f, d, rbCur, rbMissing, rbDropped) /\ Wholes(rb, f)
        /\ Cuts(rb, f, rbDropped)
    BY DEF HoldsMessages
  <1>2. \A k \in 0..d : f + k \in Nat \ {0} /\ d - k \in Nat /\ (f + k) + (d - k) = f + d
    BY <1>1, HeldNumbers
  <1>3. ASSUME NEW n \in Sent, BufData(n) PROVE RcvBufferInv'
    <2> DEFINE offset == n - (f + d)
    <2>1. /\ offset >= 0 /\ offset < AvailSize(rb) /\ rb' = AddData(rb, n, offset)
          /\ rbMissing' = IF rb.unit[(rb.ackPos + offset) % BufSize] = NoUnit
                          THEN (rbMissing \union rbCur + 1..n - 1) \ {n} ELSE rbMissing
          /\ rbCur' = IF rb.unit[(rb.ackPos + offset) % BufSize] = NoUnit /\ n > rbCur THEN n ELSE rbCur
          /\ UNCHANGED <<rbAck, rbMsgs, rbRead, rbBytes, rbDropped, rbGivenUp>>
      BY <1>3 DEF BufData
    <2>2. offset = n - (f + d)
      OBVIOUS
    <2> HIDE DEF offset
    <2>3. /\ Received(rb', f, d, rbCur', rbMissing', rbDropped)
          /\ \A j \in Int : FlagOf(rb', f, j) = 2 <=> FlagOf(rb, f, j) = 2
      BY <1>1, <2>1, <2>2, ReceivedData
    <2>4. HoldsMessages(rb', f, d, rbCur', rbMissing', rbDropped', rbRead', rbGivenUp')
      BY <2>1, <2>3, MessagesStay
    <2> QED BY <2>1, <2>4, MessagesNext
  <1>4. ASSUME BufAck PROVE RcvBufferInv'
    <2> DEFINE ack == IF rbMissing = {} THEN rbCur + 1 ELSE MinOf(rbMissing)
    <2>1. /\ ack > f + d /\ rbAck' = ack /\ rb' = AckData(rb, ack - (f + d))
          /\ UNCHANGED <<rbCur, rbMissing, rbMsgs, rbRead, rbBytes, rbDropped, rbGivenUp>>
      BY <1>4 DEF BufAck
    <2>2. ack = IF rbMissing = {} THEN rbCur + 1 ELSE MinOf(rbMissing)
      OBVIOUS
    <2> HIDE DEF ack
    <2>3. /\ ack - f \in Nat /\ f + (ack - f) = ack
          /\ Received(rb', f, ack - f, rbCur, rbMissing, rbDropped)
          /\ \A j \in Int : FlagOf(rb', f, j) = 2 <=> FlagOf(rb, f, j) = 2
      BY <1>1, <2>1, <2>2, ReceivedAck
    <2>4. HoldsMessages(rb', f, ack - f, rbCur', rbMissing', rbDropped', rbRead', rbGivenUp')
      BY <2>1, <2>3, MessagesStay
    <2> QED BY <2>1, <2>3, <2>4, MessagesNext
  <1>5. ASSUME NEW n \in Sent, NEW x \in n..Packets, BufDrop(n, x) PROVE RcvBufferInv'
    <2>1. /\ x - (f + d) < AvailSize(rb) + 0 /\ rbMissing' = rbMissing \ (n..x)
          /\ rbCur' = IF n <= rbCur + 1 /\ x > rbCur THEN x ELSE rbCur
          /\ rbDropped' = rbDropped \union n..x
          /\ UNCHANGED <<rb, rbAck, rbMsgs, rbRead, rbBytes, rbGivenUp>>
      BY <1>5 DEF BufDrop
    <2>2. x - (f + d) < AvailSize(rb)
      <3>1. AvailSize(rb) \in Int
        <4>1. d \in 0..BufSize - 1 /\ rb.start \in RingSlots /\ rb.ackPos = SlotAt(rb, d)
          BY <1>1 DEF Received, Ring, RingRecord
        <4>2. AvailSize(rb) = BufSize - d - 1
          BY <4>1, RingSize
        <4> QED BY <4>2, RbSizes
      <3> QED BY <2>1, <3>1
    <2>3. Received(rb, f, d, rbCur', rbMissing', rbDropped')
      BY <1>1, <2>1, <2>2, ReceivedDrop
    <2>4. HoldsMessages(rb, f, d, rbCur', rbMissing', rbDropped', rbRead, rbGivenUp)
      <3>1. rbDropped \subseteq rbDropped'
        BY <2>1
      <3> QED BY <2>3, <3>1, MessagesStay
    <2> QED BY <2>1, <2>4, MessagesNext
  <1>6. ASSUME BufRecvmsg PROVE RcvBufferInv'
    <2> DEFINE s == ScanMsg(rb)
               given == rbGivenUp \union (Unread(rb) \ Unread(s.buf))
    <2>1. /\ rb' = TakeMsg(s) /\ rbGivenUp' = given
          /\ rbRead' = IF ScannedSlots(s) = <<>> THEN rbRead ELSE Append(rbRead, Copied(s))
          /\ UNCHANGED <<rbAck, rbCur, rbMissing, rbMsgs, rbBytes, rbDropped>>
      BY <1>6 DEF BufRecvmsg, Copied
    <2>2. PICK k \in 0..d :
              /\ SkippedTo(rb, f, d, rbDropped, s.buf, k)
              /\ \/ ScanMisses(rb, f, d, k, s)
                 \/ \E m \in rbMsgs : ScanHits(rb, f, d, k, s, m)
      BY <1>1, ScanIs
    <2>3. HoldsMessages(s.buf, f + k, d - k, rbCur, rbMissing, rbDropped, rbRead, given)
      BY <2>2, ScanKeeps
    <2>4. Ring(s.buf, f + k, d - k)
      BY <2>2 DEF SkippedTo, Skipped
    <2> HIDE DEF s, given
    <2>5. CASE ScanMisses(rb, f, d, k, s)
      <3>1. ScannedSlots(s) = <<>> /\ (s.found => s.passack)
        BY <2>5 DEF ScanMisses
      <3>2. TakeMsg(s) = s.buf
        BY <2>4, <3>1, TakesNone
      <3>3. HoldsMessages(rb', f + k, d - k, rbCur', rbMissing', rbDropped', rbRead', rbGivenUp')
        BY <2>1, <2>3, <3>1, <3>2
      <3> QED BY <1>2, <2>1, <3>3, MessagesNext
    <2>6. ASSUME NEW m \in rbMsgs, ScanHits(rb, f, d, k, s, m) PROVE RcvBufferInv'
      <3>1. /\ Found(s.buf, f + k, d - k, s, m) /\ s.found /\ (~s.passack => m.first = f + k)
            /\ ScannedSlots(s) = SlotsOf(s.buf, f + k, m)
        BY <2>6 DEF ScanHits
      <3>2. f + k \in Nat \ {0} /\ d - k \in Nat
        BY <1>2
      <3>3. Copied(s) = Whole(m)
        BY <1>1, <2>4, <3>1, <3>2, TakesMessage
      <3>4. ScannedSlots(s) # <<>>
        <4>1. 1 \in 1..m.last - m.first + 1
          BY <1>1, MessageIs
        <4>2. DOMAIN SlotsOf(s.buf, f + k, m) = 1..m.last - m.first + 1
          BY DEF SlotsOf
        <4>3. 1 \in DOMAIN ScannedSlots(s)
          BY <3>1, <4>1, <4>2
        <4> QED BY <4>3
      <3>5. rbRead' = Append(rbRead, Whole(m))
        BY <2>1, <3>3, <3>4
      <3>6. PICK i \in 0..d - k : HoldsMessages(TakeMsg(s), (f + k) + i, (d - k) - i, rbCur, rbMissing,
                                               rbDropped, Append(rbRead, Whole(m)), given)
        BY <2>3, <3>1, <3>2, ReadMsgKeeps
      <3>7. HoldsMessages(rb', (f + k) + i, (d - k) - i, rbCur', rbMissing', rbDropped', rbRead', rbGivenUp')
        BY <2>1, <3>5, <3>6
      <3>8. (f + k) + i \in Nat \ {0} /\ (d - k) - i \in Nat /\ rbAck' = ((f + k) + i) + ((d - k) - i)
        BY <1>2, <2>1, <3>2
      <3> QED BY <2>1, <3>7, <3>8, MessagesNext
    <2> QED BY <2>2, <2>5, <2>6
  <1>7. ASSUME BufMsgNum PROVE RcvBufferInv'
    <2> DEFINE s == ScanMsg(rb)
    <2>1. /\ rb' = s.buf /\ rbGivenUp' = rbGivenUp \union (Unread(rb) \ Unread(s.buf))
          /\ UNCHANGED <<rbAck, rbCur, rbMissing, rbMsgs, rbRead, rbBytes, rbDropped>>
      BY <1>7 DEF BufMsgNum
    <2>2. PICK k \in 0..d : SkippedTo(rb, f, d, rbDropped, s.buf, k)
      BY <1>1, ScanIs
    <2> HIDE DEF s
    <2>3. HoldsMessages(rb', f + k, d - k, rbCur', rbMissing', rbDropped', rbRead', rbGivenUp')
      BY <2>1, <2>2, ScanKeeps
    <2> QED BY <1>2, <2>1, <2>3, MessagesNext
  <1>8. \A len : ~BufRecv(len)
    BY DEF BufRecv
  <1> QED BY <1>3, <1>4, <1>5, <1>6, <1>7, <1>8 DEF RcvBufferNext

\* With a stream.
LEMMA StreamStep ==
    ASSUME rbMsgs = {}, rbDropped = {}, rbRead = <<>>, rbGivenUp = {},
           NEW f \in Nat \ {0}, NEW d \in Nat, rbAck = f + d,
           HoldsStream(rb, f, d, rbCur, rbMissing, rbBytes), RcvBufferNext
    PROVE  RcvBufferInv'
  <1>1. /\ Received(rb, f, d, rbCur, rbMissing, {}) /\ \A n \in Int : FlagOf(rb, f, n) # 2
        /\ rb.notch \in Nat /\ rb.notch < PacketBytes(f) /\ rbBytes = BytesTo[f - 1] + rb.notch
    BY DEF HoldsStream
  <1>0. PICK none : none = {} /\ Received(rb, f, d, rbCur, rbMissing, none)
    BY <1>1
  <1>2. \A k \in 0..d : f + k \in Nat \ {0} /\ d - k \in Nat /\ (f + k) + (d - k) = f + d
    BY <1>1, HeldNumbers
  <1>3. ASSUME NEW n \in Sent, BufData(n) PROVE RcvBufferInv'
    <2> DEFINE offset == n - (f + d)
    <2>1. /\ offset >= 0 /\ offset < AvailSize(rb) /\ rb' = AddData(rb, n, offset)
          /\ rbMissing' = IF rb.unit[(rb.ackPos + offset) % BufSize] = NoUnit
                          THEN (rbMissing \union rbCur + 1..n - 1) \ {n} ELSE rbMissing
          /\ rbCur' = IF rb.unit[(rb.ackPos + offset) % BufSize] = NoUnit /\ n > rbCur THEN n ELSE rbCur
          /\ UNCHANGED <<rbAck, rbMsgs, rbRead, rbBytes, rbDropped, rbGivenUp>>
      BY <1>3 DEF BufData
    <2>2. offset = n - (f + d)
      OBVIOUS
    <2> HIDE DEF offset
    <2> DEFINE g == AddData(rb, n, offset)
    <2>3. rb' = g
      BY <2>1
    <2>4. g = AddData(rb, n, offset)
      OBVIOUS
    <2> HIDE DEF g
    <2>5. /\ Received(rb, f, d, rbCur, rbMissing, none) /\ offset >= 0 /\ offset < AvailSize(rb)
          /\ rbMissing' = IF rb.unit[(rb.ackPos + offset) % BufSize] = NoUnit
                          THEN (rbMissing \union rbCur + 1..n - 1) \ {n} ELSE rbMissing
          /\ rbCur' = IF rb.unit[(rb.ackPos + offset) % BufSize] = NoUnit /\ n > rbCur THEN n ELSE rbCur
      BY <1>0, <2>1
    <2>6. /\ Received(g, f, d, rbCur', rbMissing', none) /\ g.notch = rb.notch
          /\ \A j \in Int : FlagOf(g, f, j) = 2 <=> FlagOf(rb, f, j) = 2
      <3>1. n \in Sent
        OBVIOUS
      <3> QED BY ONLY <2>2, <2>4, <2>5, <3>1, ReceivedData
    <2>7. /\ Received(rb', f, d, rbCur', rbMissing', none) /\ rb'.notch = rb.notch
          /\ \A j \in Int : FlagOf(rb', f, j) = 2 <=> FlagOf(rb, f, j) = 2
      BY <2>3, <2>6
    <2>8. HoldsStream(rb', f, d, rbCur', rbMissing', rbBytes')
      BY <1>0, <1>1, <2>1, <2>7 DEF HoldsStream
    <2> QED BY <2>1, <2>8, StreamNext
  <1>4. ASSUME BufAck PROVE RcvBufferInv'
    <2> DEFINE ack == IF rbMissing = {} THEN rbCur + 1 ELSE MinOf(rbMissing)
    <2>1. /\ ack > f + d /\ rbAck' = ack /\ rb' = AckData(rb, ack - (f + d))
          /\ UNCHANGED <<rbCur, rbMissing, rbMsgs, rbRead, rbBytes, rbDropped, rbGivenUp>>
      BY <1>4 DEF BufAck
    <2>2. ack = IF rbMissing = {} THEN rbCur + 1 ELSE MinOf(rbMissing)
      OBVIOUS
    <2> HIDE DEF ack
    <2> DEFINE g == AckData(rb, ack - (f + d))
    <2>3. rb' = g
      BY <2>1
    <2>4. /\ ack - f \in Nat /\ f + (ack - f) = ack /\ g.notch = rb.notch
          /\ Received(g, f, ack - f, rbCur, rbMissing, none)
          /\ \A j \in Int : FlagOf(g, f, j) = 2 <=> FlagOf(rb, f, j) = 2
      BY ONLY <1>0, <2>1, <2>2, ReceivedAck
    <2> HIDE DEF g
    <2>5. /\ ack - f \in Nat /\ f + (ack - f) = ack /\ rb'.notch = rb.notch
          /\ Received(rb', f, ack - f, rbCur, rbMissing, none)
          /\ \A j \in Int : FlagOf(rb', f, j) = 2 <=> FlagOf(rb, f, j) = 2
      BY <2>3, <2>4
    <2>6. HoldsStream(rb', f, ack - f, rbCur', rbMissing', rbBytes')
      BY <1>0, <1>1, <2>1, <2>5 DEF HoldsStream
    <2> QED BY <2>1, <2>5, <2>6, StreamNext
  <1>5. ASSUME NEW len \in 1..3, BufRecv(len) PROVE RcvBufferInv'
    <2> DEFINE r == ReadBuffer(rb, len)
    <2>1. /\ rb' = r.buf /\ rbBytes' = rbBytes + len - r.rs
          /\ UNCHANGED <<rbAck, rbCur, rbMissing, rbMsgs, rbRead, rbDropped, rbGivenUp>>
      BY <1>5 DEF BufRecv
    <2>2. PICK j \in 0..d : HoldsStream(r.buf, f + j, d - j, rbCur, rbMissing, rbBytes + len - r.rs)
      <3>1. len \in Nat
        OBVIOUS
      <3> QED BY <3>1, ReadKeeps
    <2> HIDE DEF r
    <2>3. HoldsStream(rb', f + j, d - j, rbCur', rbMissing', rbBytes')
      BY <2>1, <2>2
    <2> QED BY <1>2, <2>1, <2>3, StreamNext
  <1>6. /\ \A n, x : ~BufDrop(n, x)
        /\ ~BufRecvmsg /\ ~BufMsgNum
    BY DEF BufDrop, BufRecvmsg, BufMsgNum
  <1> QED BY <1>3, <1>4, <1>5, <1>6 DEF RcvBufferNext

LEMMA RcvBufferStep == DropReach = 0 /\ RcvBufferInv /\ RcvBufferNext => RcvBufferInv'
  <1> SUFFICES ASSUME DropReach = 0, RcvBufferInv, RcvBufferNext PROVE RcvBufferInv'
    OBVIOUS
  <1>1. PICK f \in Nat \ {0}, d \in Nat :
       /\ rbAck = f + d
       /\ \/ rbMsgs # {} /\ HoldsMessages(rb, f, d, rbCur, rbMissing, rbDropped, rbRead, rbGivenUp)
          \/ /\ rbMsgs = {} /\ rbDropped = {} /\ rbRead = <<>> /\ rbGivenUp = {}
             /\ HoldsStream(rb, f, d, rbCur, rbMissing, rbBytes)
    BY DEF RcvBufferInv
  <1> QED BY <1>1, MessagesStep, StreamStep

\* What the invariant means.
LEMMA RingShows ==
    ASSUME NEW f \in Nat \ {0}, NEW d \in Nat, rbAck = f + d, Ring(rb, f, d)
    PROVE  RingExact /\ FirstHeld = f
  <1>1. /\ d \in 0..BufSize - 1 /\ rb.start \in RingSlots /\ rb.ackPos = SlotAt(rb, d) /\ rb.maxPos \in Nat
        /\ rb.count = Cardinality({i \in RingSlots : rb.unit[i] # NoUnit})
        /\ \A i \in RingSlots : rb.unit[i] = NoUnit <=> rb.flag[i] = 0
    BY DEF Ring, RingRecord
  <1>2. FirstHeld = f
    <2>1. RcvDataSize(rb) = d
      BY <1>1, RingSize
    <2> QED BY <2>1 DEF FirstHeld
  <1>3. ASSUME NEW i \in RingSlots, rb.unit[i] # NoUnit
        PROVE  /\ rb.unit[i] = FirstHeld + ((i - rb.start + BufSize) % BufSize)
               /\ rb.unit[i] <= rbAck + rb.maxPos
    <2>1. PICK k \in 0..BufSize - 1 : SlotAt(rb, k) = i /\ (i - rb.start + BufSize) % BufSize = k
      BY <1>1, SlotOfSome
    <2>2. rb.unit[i] = f + k /\ k <= d + rb.maxPos
      BY <1>1, <1>3, <2>1 DEF Ring
    <2>3. k \in Nat
      BY RbSizes
    <2>4. f + k <= f + d + rb.maxPos
      BY ONLY f \in Nat \ {0}, d \in Nat, <1>1, <2>2, <2>3
    <2> QED BY <1>2, <2>1, <2>2, <2>4
  <1> QED BY <1>1, <1>2, <1>3 DEF RingExact

LEMMA ReadableAre ==
    ASSUME Divided, NEW f \in Nat \ {0}, NEW d \in Nat, rbAck = f + d, Ring(rb, f, d)
    PROVE  Readable = {m \in rbMsgs : ~LooksEmpty /\ Complete(rb, f, d, m)}
  <1>1. \A n : n \in Unread(rb) <=> n \in Int /\ FlagOf(rb, f, n) = 1
    <2>1. f \in Nat
      OBVIOUS
    <2> QED BY <2>1, UnreadAre
  <1>2. ASSUME NEW m \in rbMsgs
        PROVE  m.first..m.last \subseteq Unread(rb) <=> \A n \in m.first..m.last : FlagOf(rb, f, n) = 1
    <2>1. \A n \in m.first..m.last : n \in Int
      BY MessageIs
    <2> QED BY <1>1, <2>1
  <1> QED BY <1>2 DEF Readable, Complete

LEMMA ScanShows ==
    ASSUME NEW f \in Nat \ {0}, NEW d \in Nat, rbAck = f + d,
           HoldsMessages(rb, f, d, rbCur, rbMissing, rbDropped, rbRead, rbGivenUp)
    PROVE  ScanExact
  <1> DEFINE s == ScanMsg(rb)
  <1>1. /\ Divided /\ Received(rb, f, d, rbCur, rbMissing, rbDropped) /\ Wholes(rb, f)
        /\ Cuts(rb, f, rbDropped) /\ Ring(rb, f, d)
    BY DEF HoldsMessages, Received
  <1>2. PICK k \in 0..d :
           /\ SkippedTo(rb, f, d, rbDropped, s.buf, k)
           /\ \/ ScanMisses(rb, f, d, k, s)
              \/ \E m \in rbMsgs : ScanHits(rb, f, d, k, s, m) /\ ~LooksEmpty
    BY <1>1, ScanIs DEF LooksEmpty
  <1>3. Readable = {m \in rbMsgs : ~LooksEmpty /\ Complete(rb, f, d, m)}
    BY <1>1, ReadableAre
  <1>4. f + k \in Nat \ {0} /\ d - k \in Nat /\ (f + k) + (d - k) = f + d /\ Ring(s.buf, f + k, d - k)
    <2>1. \A j \in 0..d : f + j \in Nat \ {0} /\ d - j \in Nat /\ (f + j) + (d - j) = f + d
      BY <1>1, HeldNumbers
    <2> QED BY <1>2, <2>1 DEF SkippedTo, Skipped
  <1> HIDE DEF s
  <1>5. ASSUME NEW m \in rbMsgs PROVE Complete(rb, f, d, m) <=> Complete(s.buf, f + k, d - k, m)
    <2>1. /\ \A n \in Int : FlagOf(s.buf, f + k, n) = IF n < f + k THEN 0 ELSE FlagOf(rb, f, n)
          /\ (\A n \in m.first..m.last : FlagOf(rb, f, n) = 1) => m.first >= f + k
      BY <1>2 DEF SkippedTo, Skipped
    <2>2. \A n \in m.first..m.last : n \in Int /\ n >= m.first /\ n \in Nat
      BY <1>1, MessageIs
    <2>3. m.first \in Nat
      BY <1>1, MessageIs
    <2>4. (\A n \in m.first..m.last : FlagOf(rb, f, n) = 1)
             <=> (\A n \in m.first..m.last : FlagOf(s.buf, f + k, n) = 1)
      <3>1. ASSUME \A n \in m.first..m.last : FlagOf(rb, f, n) = 1, NEW n \in m.first..m.last
            PROVE  FlagOf(s.buf, f + k, n) = 1
        <4>1. ~(n < f + k)
          BY <1>4, <2>1, <2>2, <2>3, <3>1
        <4> QED BY <2>1, <2>2, <3>1, <4>1
      <3>2. ASSUME NEW n \in m.first..m.last, FlagOf(s.buf, f + k, n) = 1
            PROVE  FlagOf(rb, f, n) = 1
        BY <2>1, <2>2, <3>2
      <3> QED BY <3>1, <3>2
    <2> QED BY <1>4, <2>4 DEF Complete
  <1>6. CASE ScanMisses(rb, f, d, k, s)
    <2>1. ScannedSlots(s) = <<>> /\ Readable = {}
      BY <1>3, <1>5, <1>6 DEF ScanMisses, LooksEmpty
    <2> QED BY <2>1 DEF ScanExact, s
  <1>7. ASSUME NEW m \in rbMsgs, ScanHits(rb, f, d, k, s, m), ~LooksEmpty PROVE ScanExact
    <2>1. /\ Found(s.buf, f + k, d - k, s, m) /\ s.found /\ ScannedSlots(s) = SlotsOf(s.buf, f + k, m)
      BY <1>7 DEF ScanHits
    <2>2. m \in Readable /\ \A x \in Readable : x \in rbMsgs /\ m.last <= x.last
      BY <1>3, <1>5, <1>7, <2>1 DEF Found
    <2>3. ASSUME NEW x \in Readable, x # m PROVE m.first < x.first
      <3>1. x \in rbMsgs /\ m.last <= x.last
        BY <2>2
      <3>2. /\ m.first \in Nat /\ m.last \in Nat /\ m.first <= m.last
            /\ \A n \in m.first..m.last : Owner[n] = m
        BY <1>1, MessageIs
      <3>3. /\ x.first \in Nat /\ x.last \in Nat /\ x.first <= x.last
            /\ \A n \in x.first..x.last : Owner[n] = x
        BY <1>1, <3>1, MessageIs
      <3>4. CASE x.first <= m.first
        <4>1. m.first \in m.first..m.last /\ m.first \in x.first..x.last
          BY <3>1, <3>2, <3>3, <3>4
        <4> QED BY <2>3, <3>2, <3>3, <4>1
      <3> QED BY <3>2, <3>3, <3>4
    <2>4. m.first \in Nat /\ \A x \in Readable : x.first \in Nat
      BY <1>1, <2>2, MessageIs
    <2> DEFINE first == CHOOSE x \in Readable : \A y \in Readable : x.first <= y.first
    <2>5. first = m
      <3>1. \A y \in Readable : m.first <= y.first
        BY <2>3, <2>4
      <3>2. first \in Readable /\ \A y \in Readable : first.first <= y.first
        BY <2>2, <3>1
      <3> HIDE DEF first
      <3> QED BY <2>2, <2>3, <2>4, <3>2
    <2> HIDE DEF first
    <2> DEFINE slots == ScannedSlots(s)
               taken == {s.buf.unit[slots[j]] : j \in DOMAIN slots}
    <2>6. Copied(s) = Whole(m)
      BY <1>1, <1>4, <2>1, TakesMessage
    <2>7. DOMAIN slots = 1..m.last - m.first + 1
      BY <2>1 DEF SlotsOf
    <2>8. \A j \in DOMAIN slots : s.buf.unit[slots[j]] = m.first + j - 1
      <3>1. \A j \in DOMAIN slots : Copied(s)[j] = s.buf.unit[slots[j]]
        BY DEF Copied
      <3>2. \A j \in 1..m.last - m.first + 1 : Whole(m)[j] = m.first + j - 1
        BY DEF Whole
      <3> HIDE DEF slots
      <3> QED BY <2>6, <2>7, <3>1, <3>2
    <2>9. m.first \in Nat /\ m.last \in Nat /\ m.first <= m.last
      BY <1>1, MessageIs
    <2>10. slots # <<>>
      <3>1. 1 \in DOMAIN slots
        BY <2>7, <2>9
      <3> QED BY <3>1
    <2> HIDE DEF slots
    <2>11. taken = m.first..m.last
      <3>1. ASSUME NEW n \in m.first..m.last PROVE n \in taken
        <4>1. n - m.first + 1 \in 1..m.last - m.first + 1 /\ m.first + (n - m.first + 1) - 1 = n
          BY <2>9
        <4> QED BY <2>7, <2>8, <4>1
      <3>2. ASSUME NEW j \in DOMAIN slots PROVE s.buf.unit[slots[j]] \in m.first..m.last
        <4>1. j \in 1..m.last - m.first + 1
          BY <2>7
        <4> QED BY <2>8, <2>9, <4>1
      <3> QED BY <3>1, <3>2
    <2>12. Readable # {}
      BY <2>2
    <2> HIDE DEF taken
    <2> QED BY <2>5, <2>10, <2>11, <2>12 DEF ScanExact, first, slots, taken, s
  <1> QED BY <1>2, <1>6, <1>7

LEMMA RcvBufferInvSound ==
    RcvBufferInv => /\ RingExact /\ ScanExact /\ BytesExact
                    /\ ReadWholeAndOnce /\ GivesUpOnlyDropped
  <1> SUFFICES ASSUME RcvBufferInv
               PROVE  RingExact /\ ScanExact /\ BytesExact /\ ReadWholeAndOnce /\ GivesUpOnlyDropped
    OBVIOUS
  <1>1. PICK f \in Nat \ {0}, d \in Nat :
           /\ rbAck = f + d
           /\ \/ rbMsgs # {} /\ HoldsMessages(rb, f, d, rbCur, rbMissing, rbDropped, rbRead, rbGivenUp)
              \/ /\ rbMsgs = {} /\ rbDropped = {} /\ rbRead = <<>> /\ rbGivenUp = {}
                 /\ HoldsStream(rb, f, d, rbCur, rbMissing, rbBytes)
    BY DEF RcvBufferInv
  <1>2. CASE rbMsgs # {} /\ HoldsMessages(rb, f, d, rbCur, rbMissing, rbDropped, rbRead, rbGivenUp)
    <2>1. /\ Divided /\ Ring(rb, f, d) /\ ReadOnce(rb, f, rbRead)
          /\ rbGivenUp \subseteq Sent /\ \A n \in rbGivenUp : Touched(Owner[n], rbDropped)
      BY <1>2 DEF HoldsMessages, Received
    <2>2. RingExact /\ ScanExact /\ BytesExact
      BY <1>1, <1>2, <2>1, RingShows, ScanShows DEF BytesExact
    <2>3. ReadWholeAndOnce
      BY <2>1 DEF ReadOnce, ReadWholeAndOnce, Whole
    <2>4. GivesUpOnlyDropped
      <3>1. \A n \in rbGivenUp : MsgOf(n) = Owner[n]
        BY <2>1 DEF Owner
      <3> QED BY <2>1, <3>1 DEF GivesUpOnlyDropped, Touched
    <2> QED BY <2>2, <2>3, <2>4
  <1>3. CASE /\ rbMsgs = {} /\ rbDropped = {} /\ rbRead = <<>> /\ rbGivenUp = {}
             /\ HoldsStream(rb, f, d, rbCur, rbMissing, rbBytes)
    <2>1. Ring(rb, f, d) /\ rbBytes = BytesTo[f - 1] + rb.notch
      BY <1>3 DEF HoldsStream, Received
    <2>2. RingExact /\ FirstHeld = f
      BY <1>1, <2>1, RingShows
    <2> QED BY <1>3, <2>1, <2>2 DEF ScanExact, BytesExact, ReadWholeAndOnce, GivesUpOnlyDropped
  <1> QED BY <1>1, <1>2, <1>3
=============================================================================
