---------------------------- MODULE TablesProofs ----------------------------
(***************************************************************************)
(* Proofs about the data structures of MCParts, for all values of their    *)
(* constants: the pool of units, the windows, the cache, the tables of the *)
(* receive queue and the heap of the send queue.                           *)
(***************************************************************************)
EXTENDS MCParts, BuffersProofs

-----------------------------------------------------------------------------
(* Numbers.                                                                *)

\* A multiple divides again.
LEMMA DivTimes ==
    ASSUME NEW n \in Nat, NEW d \in Nat \ {0} PROVE (n * d) \div d = n
  OBVIOUS

\* A smaller product has a smaller factor.
LEMMA ProductShrinks ==
    ASSUME NEW x \in Nat \ {0}, NEW y \in Int, NEW z \in Int
    PROVE  /\ x * y <= x * z => y <= z
           /\ x * y < x * z => y < z
  <1>1. ASSUME NEW v \in Int, NEW w \in Int, v > w PROVE x * v > x * w
    <2>1. PICK d \in Nat : v = w + d + 1
      <3>1. v - w - 1 \in Nat /\ v = w + (v - w - 1) + 1
        BY <1>1
      <3> QED BY <3>1
    <2>2. x * v = x * w + x * d + x /\ x * d \in Nat /\ x * w \in Int
      BY <2>1
    <2> QED BY <2>2
  <1>2. x * y \in Int /\ x * z \in Int
    OBVIOUS
  <1>3. y > z => x * y > x * z
    BY <1>1
  <1>4. y = z => x * y = x * z
    OBVIOUS
  <1> QED BY <1>1, <1>2, <1>3, <1>4

\* ceil(a / b)
LEMMA CeilingIs ==
    ASSUME NEW a \in Nat, NEW b \in Nat \ {0}
    PROVE  /\ Ceiling(a, b) \in Nat
           /\ a <= b * Ceiling(a, b) /\ b * (Ceiling(a, b) - 1) < a
  <1> DEFINE t == a + b - 1
             q == t \div b
  <1>1. t \in Nat
    OBVIOUS
  <1>2. q \in Nat /\ t = b * q + (t % b) /\ t % b \in 0..b - 1
    <2> HIDE DEF t
    <2> QED BY <1>1
  <1>3. b * (q - 1) = b * q - b /\ b * q \in Nat
    <2> HIDE DEF t, q
    <2> QED BY <1>2
  <1>4. Ceiling(a, b) = q
    BY DEF Ceiling
  <1> HIDE DEF q
  <1> QED BY <1>2, <1>3, <1>4

-----------------------------------------------------------------------------
(* The pool of units.                                                      *)

PoolPcs == {"idle", "adjust", "compare", "scan", "got", "recount", "count"}

\* The pool has whole entries, and the thread is at a unit that may be given out.
PoolTypes ==
    /\ upFlags \in Seq({0, 1}) /\ Entries \in 1..MaxEntries /\ PoolSize = Entries * EntrySize
    /\ upPc \in PoolPcs /\ upRefused \in 0..2
    /\ upCount \in Int /\ upReg \in Int /\ upReader \in Int
    /\ upCur \in 1..Entries /\ upAvail \in 1..PoolSize
    /\ upPc = "got" => upUnit \in 1..PoolSize

\* However the two threads overwrite each other's counts, m_iCount says no more units
\* are in use than there are, and fewer when one is looked for.
CountsBounded ==
    /\ upCount <= PoolSize /\ upReader <= PoolSize
    /\ upPc \in {"adjust", "recount"} => upReg <= PoolSize
    /\ upPc = "compare" /\ Entries < MaxEntries => upCount < PoolSize
    /\ upPc \in {"scan", "got"} => upCount < PoolSize
    /\ upPc = "count" => upReg < PoolSize

\* The next search finds a unit.
Searched(e) == IF e = upCur THEN upAvail ELSE (e - 1) * EntrySize + 1
Findable ==
    \E e \in 1..Entries :
       \/ upFlags[(e - 1) * EntrySize + 1] = 0
       \/ \E v \in Searched(e)..e * EntrySize - 1 : upFlags[v] = 0

\* After a refusal the pool has grown, or a unit before m_pAvailUnit is free.
RefusalsEnd ==
    /\ upRefused >= 1 /\ Entries < MaxEntries => Findable /\ upPc # "recount"
    /\ upRefused >= 2 => Entries = MaxEntries
    /\ upPc \in {"got", "count"} => upRefused = 0
    /\ upPc = "recount" => upReg * FullDen >= PoolSize * FullNum \/ Findable

PoolInv == PoolTypes /\ CountsBounded /\ RefusalsEnd

\* A nearly full pool is not full, and an entry has a unit besides its last one.
LEMMA NearlyFull ==
    /\ EntrySize \in Nat /\ EntrySize >= 2 /\ MaxEntries \in Nat \ {0}
    /\ FullNum \in Nat \ {0} /\ FullDen \in Nat \ {0} /\ MaxDrift \in Nat \ {0} /\ FullNum < FullDen
  <1>1. /\ EntrySize \in Nat \ {0} /\ MaxEntries \in Nat \ {0} /\ MaxDrift \in Nat \ {0}
        /\ FullNum \in Nat \ {0} /\ FullDen \in Nat \ {0}
        /\ (EntrySize - 1) * FullDen >= EntrySize * FullNum
    BY UnitPoolAssumption
  <1>2. EntrySize * FullNum >= 1
    BY <1>1
  <1>3. EntrySize # 1
    <2> SUFFICES ASSUME EntrySize = 1 PROVE FALSE
      OBVIOUS
    <2>1. (EntrySize - 1) * FullDen = 0
      BY <1>1
    <2> QED BY <1>1, <1>2, <2>1
  <1>4. FullNum < FullDen
    <2> SUFFICES ASSUME FullNum >= FullDen PROVE FALSE
      BY <1>1
    <2>1. EntrySize * FullNum >= EntrySize * FullDen
      BY <1>1
    <2>2. (EntrySize - 1) * FullDen = EntrySize * FullDen - FullDen
      BY <1>1
    <2> QED BY <1>1, <2>1, <2>2
  <1> QED BY <1>1, <1>3, <1>4

\* The units of an entry are units of the pool.
LEMMA EntryInPool ==
    ASSUME NEW n \in Nat, NEW e \in 1..n
    PROVE  /\ (e - 1) * EntrySize + 1 \in 1..n * EntrySize - 1
           /\ e * EntrySize <= n * EntrySize
           /\ e * EntrySize = (e - 1) * EntrySize + EntrySize
           /\ (e - 1) * EntrySize \in Nat
  <1>1. e * EntrySize <= n * EntrySize /\ e * EntrySize = (e - 1) * EntrySize + EntrySize /\ (e - 1) * EntrySize \in Nat
    BY NearlyFull
  <1> QED BY <1>1, NearlyFull

\* What the search of an entry finds.
LEMMA FreeFromFinds ==
    ASSUME PoolTypes, NEW e \in 1..Entries, NEW u \in 1..PoolSize
    PROVE  /\ FreeFrom(e, u) # 0 => FreeFrom(e, u) \in 1..PoolSize
           /\ FreeFrom(e, u) = 0 <=> /\ upFlags[(e - 1) * EntrySize + 1] # 0
                                     /\ \A v \in u..e * EntrySize - 1 : upFlags[v] # 0
  <1> DEFINE free == {v \in u..e * EntrySize - 1 : upFlags[v] = 0}
             first == CHOOSE v \in free : \A w \in free : v <= w
  <1>1. Entries \in Nat /\ PoolSize = Entries * EntrySize
    BY DEF PoolTypes
  <1>2. /\ (e - 1) * EntrySize + 1 \in 1..PoolSize /\ e * EntrySize <= PoolSize
        /\ e * EntrySize \in Nat /\ PoolSize \in Nat
    BY <1>1, EntryInPool, NearlyFull
  <1>3. free # {} => first \in free
    <2>1. free \in SUBSET Nat
      BY <1>2
    <2> HIDE DEF free
    <2>2. free # {} => \E v \in free : \A w \in free : v <= w
      BY <2>1, LeastOne
    <2> QED BY <2>2
  <1>4. FreeFrom(e, u) = IF free # {} THEN first
                         ELSE IF upFlags[(e - 1) * EntrySize + 1] = 0 THEN (e - 1) * EntrySize + 1 ELSE 0
    BY DEF FreeFrom
  <1>5. CASE free # {}
    <2>1. first \in 1..PoolSize
      BY <1>2, <1>3, <1>5
    <2> HIDE DEF first
    <2>2. FreeFrom(e, u) = first
      BY <1>4, <1>5
    <2> QED BY <1>5, <2>1, <2>2
  <1>6. CASE free = {}
    BY <1>2, <1>4, <1>6
  <1> QED BY <1>5, <1>6

\* Each entry has its turn, and its search starts in the pool.
LEMMA EveryEntry ==
    ASSUME PoolTypes
    PROVE  /\ \A k \in 0..Entries - 1 : EntryAt(k) \in 1..Entries /\ StartAt(k) \in 1..PoolSize
           /\ \A e \in 1..Entries : \E k \in 0..Entries - 1 : EntryAt(k) = e /\ StartAt(k) = Searched(e)
           /\ \A k \in 0..Entries - 1 : StartAt(k) = Searched(EntryAt(k))
  <1>1. /\ Entries \in Nat \ {0} /\ upCur \in 1..Entries /\ upAvail \in 1..PoolSize
        /\ PoolSize = Entries * EntrySize /\ PoolSize \in Nat
    BY NearlyFull DEF PoolTypes
  <1>2. ASSUME NEW k \in 0..Entries - 1
        PROVE  EntryAt(k) = IF upCur + k <= Entries THEN upCur + k ELSE upCur + k - Entries
    <2>1. PICK a \in Nat : a = upCur + k - 1 /\ a < 2 * Entries
      BY <1>1
    <2>2. PICK n \in Nat \ {0} : n = Entries
      BY <1>1
    <2>3. a % n = IF a < n THEN a ELSE a - n
      <3>1. a < 2 * n
        BY <2>1, <2>2
      <3>2. CASE a < n
        BY <3>2, ModRound
      <3>3. CASE n <= a
        <4>1. a % n = a - n
          BY <3>1, <3>3, ModRound
        <4> QED BY <3>3, <4>1
      <3> QED BY <3>2, <3>3
    <2>4. EntryAt(k) = (a % n) + 1
      BY <2>1, <2>2 DEF EntryAt
    <2> QED BY <1>1, <2>1, <2>2, <2>3, <2>4
  <1>3. ASSUME NEW k \in 0..Entries - 1
        PROVE  EntryAt(k) \in 1..Entries /\ (EntryAt(k) = upCur <=> k = 0)
    BY <1>1, <1>2
  <1>4. ASSUME NEW k \in 0..Entries - 1
        PROVE  StartAt(k) \in 1..PoolSize /\ StartAt(k) = Searched(EntryAt(k))
    BY SMTT(30), <1>1, <1>3, EntryInPool DEF StartAt, Searched
  <1>5. ASSUME NEW e \in 1..Entries PROVE \E k \in 0..Entries - 1 : EntryAt(k) = e
    <2>1. CASE e >= upCur
      <3>1. e - upCur \in 0..Entries - 1 /\ EntryAt(e - upCur) = e
        BY <1>1, <1>2, <2>1
      <3> QED BY <3>1
    <2>2. CASE e < upCur
      <3>1. e - upCur + Entries \in 0..Entries - 1
        BY <1>1, <2>2
      <3>2. EntryAt(e - upCur + Entries) = e
        BY <1>1, <1>2, <2>2, <3>1
      <3> QED BY <3>1, <3>2
    <2> QED BY <1>1, <2>1, <2>2
  <1> QED BY <1>3, <1>4, <1>5

\* The search finds a unit if there is one to be found.
LEMMA ScanFinds ==
    ASSUME PoolTypes
    PROVE  /\ Scan.entry \in 1..Entries
           /\ Scan.unit # 0 => Scan.unit \in 1..PoolSize
           /\ Findable <=> Scan.unit # 0
           /\ Scan.unit = 0 => Scan.entry = upCur
  <1> DEFINE found == {k \in 0..Entries - 1 : FreeFrom(EntryAt(k), StartAt(k)) # 0}
             first == CHOOSE k \in found : \A j \in found : k <= j
  <1>1. Entries \in Nat \ {0} /\ upCur \in 1..Entries
    BY DEF PoolTypes
  <1>2. found # {} => first \in found
    <2>1. found \in SUBSET Nat
      BY <1>1
    <2> HIDE DEF found
    <2>2. found # {} => \E v \in found : \A w \in found : v <= w
      BY <2>1, LeastOne
    <2> QED BY <2>2
  <1>3. Scan = IF found = {} THEN [unit |-> 0, entry |-> upCur]
               ELSE [unit |-> FreeFrom(EntryAt(first), StartAt(first)), entry |-> EntryAt(first)]
    BY DEF Scan
  <1>4. Findable <=> found # {}
    <2>1. ASSUME NEW k \in found PROVE Findable
      <3>1. EntryAt(k) \in 1..Entries /\ StartAt(k) \in 1..PoolSize /\ StartAt(k) = Searched(EntryAt(k))
        BY EveryEntry
      <3>2. FreeFrom(EntryAt(k), StartAt(k)) # 0
        OBVIOUS
      <3> QED BY <3>1, <3>2, FreeFromFinds DEF Findable
    <2>2. ASSUME Findable PROVE found # {}
      <3>1. PICK e \in 1..Entries : \/ upFlags[(e - 1) * EntrySize + 1] = 0
                                    \/ \E v \in Searched(e)..e * EntrySize - 1 : upFlags[v] = 0
        BY <2>2 DEF Findable
      <3>2. PICK k \in 0..Entries - 1 : EntryAt(k) = e /\ StartAt(k) = Searched(e)
        BY EveryEntry
      <3>3. StartAt(k) \in 1..PoolSize
        BY EveryEntry
      <3>4. FreeFrom(e, StartAt(k)) # 0
        BY <3>1, <3>2, <3>3, FreeFromFinds
      <3> QED BY <3>2, <3>4
    <2> QED BY <2>1, <2>2
  <1>5. CASE found = {}
    BY <1>1, <1>3, <1>4, <1>5
  <1>6. CASE found # {}
    <2> DEFINE w == FreeFrom(EntryAt(first), StartAt(first))
    <2>1. w # 0 /\ EntryAt(first) \in 1..Entries /\ StartAt(first) \in 1..PoolSize
      BY <1>2, <1>6, EveryEntry
    <2>2. w \in 1..PoolSize
      BY <2>1, FreeFromFinds
    <2>3. Scan.unit = w /\ Scan.entry = EntryAt(first)
      BY <1>3, <1>6
    <2> QED BY <1>4, <1>6, <2>1, <2>2, <2>3
  <1> QED BY <1>5, <1>6

\* When no unit but the last ones of the entries is free, the pool is nearly full.
LEMMA AllButTheLast ==
    ASSUME PoolTypes,
           \A e \in 1..Entries : \A v \in (e - 1) * EntrySize + 1..e * EntrySize - 1 : upFlags[v] # 0
    PROVE  Cardinality(InUse) * FullDen >= PoolSize * FullNum
  <1> DEFINE n == Entries
             all == 1..PoolSize
             free == all \ InUse
             last == [e \in 1..n |-> e * EntrySize]
  <1>1. /\ n \in Nat \ {0} /\ PoolSize = n * EntrySize /\ PoolSize \in Nat /\ DOMAIN upFlags = all
        /\ upFlags \in [all -> {0, 1}]
    <2>1. n \in Nat \ {0} /\ PoolSize = n * EntrySize /\ upFlags \in Seq({0, 1})
      BY NearlyFull DEF PoolTypes
    <2>2. PoolSize \in Nat /\ DOMAIN upFlags = all /\ upFlags \in [all -> {0, 1}]
      BY <2>1 DEF PoolSize
    <2> QED BY <2>1, <2>2
  <1>2. \A v \in free : \E e \in 1..n : v = last[e]
    <2> TAKE v \in free
    <2>1. v \in all /\ upFlags[v] = 0
      BY <1>1 DEF InUse
    <2> DEFINE q == (v - 1) \div EntrySize
    <2>2. /\ q \in Nat /\ v - 1 = EntrySize * q + ((v - 1) % EntrySize)
          /\ (v - 1) % EntrySize \in 0..EntrySize - 1
      BY <1>1, <2>1, NearlyFull
    <2> HIDE DEF q
    <2>3. q < n
      <3> SUFFICES ASSUME q >= n PROVE FALSE
        BY <1>1, <2>2
      <3>1. EntrySize * q >= EntrySize * n
        BY <1>1, <2>2, NearlyFull
      <3>2. v - 1 >= EntrySize * q
        BY <2>2, NearlyFull
      <3>3. EntrySize * n = PoolSize /\ EntrySize * q \in Nat
        BY <1>1, <2>2, NearlyFull
      <3> QED BY <1>1, <2>1, <3>1, <3>2, <3>3, NearlyFull
    <2>4. PICK e \in 1..n : e = q + 1
      BY <1>1, <2>2, <2>3
    <2>5. /\ (e - 1) * EntrySize = EntrySize * q /\ (e - 1) * EntrySize \in Nat
          /\ e * EntrySize = (e - 1) * EntrySize + EntrySize
      BY <1>1, <2>2, <2>4, NearlyFull
    <2>6. v >= (e - 1) * EntrySize + 1 /\ v <= e * EntrySize
      BY <2>1, <2>2, <2>5, NearlyFull
    <2>7. v \notin (e - 1) * EntrySize + 1..e * EntrySize - 1
      BY <1>1, <2>1
    <2>8. v = e * EntrySize
      BY <1>1, <2>1, <2>5, <2>6, <2>7, NearlyFull
    <2> QED BY <2>8
  <1>3. IsFiniteSet(all) /\ Cardinality(all) = PoolSize /\ IsFiniteSet(1..n) /\ Cardinality(1..n) = n
    BY <1>1, FS_Interval
  <1>4. IsFiniteSet(free) /\ Cardinality(free) <= n
    <2> DEFINE S == {last[e] : e \in 1..n}
    <2>1. IsFiniteSet(S) /\ Cardinality(S) <= Cardinality(1..n)
      <3>1. last \in Surjection(1..n, S)
        BY DEF Surjection
      <3> QED BY <1>3, <3>1, FS_Surjection
    <2>2. free \subseteq S
      BY <1>2
    <2> QED BY <1>3, <2>1, <2>2, FS_Subset, FS_CardinalityType
  <1>5. InUse = all \ free /\ InUse \subseteq all
    BY <1>1 DEF InUse
  <1>6. Cardinality(InUse) = PoolSize - Cardinality(free)
    <2>1. all \cap free = free
      OBVIOUS
    <2> HIDE DEF all, free
    <2>2. Cardinality(all \ free) = Cardinality(all) - Cardinality(all \cap free)
      BY <1>3, FS_Difference
    <2> QED BY <1>3, <1>5, <2>1, <2>2
  <1>7. Cardinality(InUse) \in Nat /\ Cardinality(free) \in Nat
    BY <1>3, <1>4, <1>5, FS_Subset, FS_CardinalityType
  <1> HIDE DEF free
  <1>8. Cardinality(InUse) >= n * (EntrySize - 1)
    <2>1. n * (EntrySize - 1) = n * EntrySize - n
      BY <1>1, NearlyFull
    <2> QED BY <1>1, <1>4, <1>6, <1>7, <2>1
  <1>9. n * ((EntrySize - 1) * FullDen) >= n * (EntrySize * FullNum)
    <2>1. (EntrySize - 1) * FullDen \in Nat /\ EntrySize * FullNum \in Nat
      BY NearlyFull
    <2>2. (EntrySize - 1) * FullDen >= EntrySize * FullNum
      BY UnitPoolAssumption
    <2> QED BY <1>1, <2>1, <2>2
  <1>10. (n * (EntrySize - 1)) * FullDen = n * ((EntrySize - 1) * FullDen)
    BY <1>1, NearlyFull
  <1>11. PoolSize * FullNum = n * (EntrySize * FullNum)
    BY <1>1, NearlyFull
  <1>12. Cardinality(InUse) * FullDen >= (n * (EntrySize - 1)) * FullDen
    <2>1. n * (EntrySize - 1) \in Nat
      BY <1>1, NearlyFull
    <2> QED BY <1>7, <1>8, <2>1, NearlyFull
  <1>13. /\ Cardinality(InUse) * FullDen \in Nat /\ n * ((EntrySize - 1) * FullDen) \in Nat
         /\ n * (EntrySize * FullNum) \in Nat
    BY <1>1, <1>7, NearlyFull
  <1> QED BY <1>9, <1>10, <1>11, <1>12, <1>13

LEMMA UsedInPool == ASSUME PoolTypes PROVE Cardinality(InUse) \in 0..PoolSize
  <1>1. PoolSize \in Nat /\ InUse \subseteq 1..PoolSize
    BY DEF PoolTypes, InUse, PoolSize
  <1>2. IsFiniteSet(1..PoolSize) /\ Cardinality(1..PoolSize) = PoolSize
    BY <1>1, FS_Interval
  <1>3. IsFiniteSet(InUse) /\ Cardinality(InUse) <= PoolSize
    BY <1>1, <1>2, FS_Subset
  <1> QED BY <1>1, <1>3, FS_CardinalityType

\* The pool after increase(): as it was, or with a free entry more.
LEMMA GrownPool ==
    ASSUME PoolTypes, upReg <= PoolSize,
           upFlags' = Grown, UNCHANGED <<upReg, upCur, upAvail, upUnit, upReader>>,
           upPc' \in PoolPcs \ {"got"}, upRefused' \in 0..2, upCount' \in Int
    PROVE  /\ PoolTypes' /\ PoolSize' >= PoolSize /\ PoolSize \in Nat /\ PoolSize' \in Nat
           /\ Entries' >= Entries /\ Entries' \in 1..MaxEntries
           /\ Findable => Findable'
           /\ Entries < MaxEntries /\ upReg * FullDen >= PoolSize * FullNum =>
                 Findable' /\ PoolSize' > PoolSize
           /\ Entries' = Entries => PoolSize' = PoolSize
  <1> DEFINE n == Entries
             grows == upReg * FullDen >= PoolSize * FullNum /\ n < MaxEntries
  <1>1. /\ n \in Nat \ {0} /\ PoolSize = n * EntrySize /\ PoolSize \in Nat /\ n <= MaxEntries
        /\ upFlags \in Seq({0, 1}) /\ upCur \in 1..n /\ upAvail \in 1..PoolSize /\ MaxEntries \in Nat
    BY NearlyFull DEF PoolTypes
  <1>2. CASE ~grows
    <2>1. upFlags' = upFlags
      BY <1>2 DEF Grown
    <2>2. PoolSize' = PoolSize /\ Entries' = Entries
      BY <2>1 DEF PoolSize, Entries
    <2>3. Findable => Findable'
      BY <2>1, <2>2 DEF Findable, Searched
    <2>4. PoolTypes'
      BY <2>1, <2>2 DEF PoolTypes
    <2> QED BY <1>1, <1>2, <2>2, <2>3, <2>4
  <1>3. CASE grows
    <2> DEFINE more == [u \in 1..EntrySize |-> 0]
    <2>1. upFlags' = upFlags \o more
      BY <1>3 DEF Grown
    <2>2. more \in Seq({0, 1}) /\ Len(more) = EntrySize
      BY NearlyFull
    <2>3. /\ upFlags' \in Seq({0, 1}) /\ PoolSize' = PoolSize + EntrySize
          /\ \A v \in 1..PoolSize : upFlags'[v] = upFlags[v]
          /\ upFlags'[PoolSize + 1] = 0
      <3> HIDE DEF more
      <3>1. upFlags' \in Seq({0, 1}) /\ Len(upFlags') = Len(upFlags) + EntrySize
        <4>1. upFlags \o more \in Seq({0, 1}) /\ Len(upFlags \o more) = Len(upFlags) + Len(more)
          BY <1>1, <2>2, ConcatProperties
        <4> QED BY <2>1, <2>2, <4>1
      <3>2. \A v \in 1..Len(upFlags) : upFlags'[v] = upFlags[v]
        BY <1>1, <2>1, <2>2
      <3>3. upFlags'[Len(upFlags) + 1] = more[1]
        BY <1>1, <2>1, <2>2, NearlyFull
      <3>4. more[1] = 0
        BY NearlyFull DEF more
      <3> QED BY <3>1, <3>2, <3>3, <3>4 DEF PoolSize
    <2>4. PoolSize' = (n + 1) * EntrySize
      BY <1>1, <2>3, NearlyFull
    <2>5. Entries' = n + 1
      <3>1. ((n + 1) * EntrySize) \div EntrySize = n + 1
        <4>1. n + 1 \in Nat /\ EntrySize \in Nat \ {0}
          BY <1>1, NearlyFull
        <4> QED BY <4>1, DivTimes
      <3>2. Entries' = PoolSize' \div EntrySize
        BY DEF Entries
      <3> QED BY <2>4, <3>1, <3>2
    <2>6. Findable'
      <3>1. (n + 1 - 1) * EntrySize + 1 = PoolSize + 1
        BY <1>1, NearlyFull
      <3>2. n + 1 \in 1..Entries' /\ upFlags'[(n + 1 - 1) * EntrySize + 1] = 0
        BY <1>1, <2>3, <2>5, <3>1
      <3>3. PICK e \in 1..Entries' : e = n + 1
        BY <3>2
      <3>4. e - 1 = n + 1 - 1
        BY <1>1, <3>3
      <3>5. upFlags'[(e - 1) * EntrySize + 1] = 0
        BY <3>2, <3>4, Zenon
      <3> QED BY <3>3, <3>5 DEF Findable
    <2>7. PoolTypes'
      BY <1>1, <1>3, <2>3, <2>4, <2>5, NearlyFull DEF PoolTypes
    <2> QED BY <1>1, <1>3, <2>3, <2>5, <2>6, <2>7, NearlyFull
  <1> QED BY <1>2, <1>3

\* The steps that neither count units nor refuse one.
LEMMA PoolStart == ASSUME UnitPoolInit PROVE PoolInv
  <1>1. /\ upFlags \in Seq({0, 1}) /\ Len(upFlags) = EntrySize
    BY NearlyFull DEF UnitPoolInit
  <1>2. PoolSize = 1 * EntrySize
    BY <1>1, NearlyFull DEF PoolSize
  <1>3. Entries = 1
    <2>1. (1 * EntrySize) \div EntrySize = 1
      BY NearlyFull, DivTimes
    <2> QED BY <1>2, <2>1 DEF Entries
  <1>4. PoolTypes
    BY <1>1, <1>2, <1>3, NearlyFull DEF UnitPoolInit, PoolTypes, PoolPcs, ReaderIdle
  <1>5. CountsBounded /\ RefusalsEnd
    BY <1>2, NearlyFull DEF UnitPoolInit, CountsBounded, RefusalsEnd, ReaderIdle
  <1> QED BY <1>4, <1>5 DEF PoolInv

\* What does not touch the units and the search.
LEMMA PoolRests ==
    ASSUME UNCHANGED <<upFlags, upCur, upAvail>>
    PROVE  PoolSize' = PoolSize /\ Entries' = Entries /\ (Findable' <=> Findable) /\ InUse' = InUse
  BY DEF PoolSize, Entries, Findable, Searched, InUse

LEMMA GetUnitKeeps == ASSUME PoolInv, GetUnit PROVE PoolInv'
  <1>1. PoolSize' = PoolSize /\ Entries' = Entries /\ (Findable' <=> Findable)
    BY PoolRests DEF GetUnit
  <1>2. PoolTypes /\ CountsBounded /\ RefusalsEnd /\ Cardinality(InUse) \in 0..PoolSize
    BY UsedInPool DEF PoolInv
  <1>3. PoolSize \in Nat /\ upCount \in Int /\ PoolSize > 0
    BY <1>2, NearlyFull DEF PoolTypes, PoolSize
  <1>4. ASSUME ~(upCount * FullDen > PoolSize * FullNum) PROVE upCount < PoolSize
    <2> SUFFICES ASSUME upCount >= PoolSize PROVE FALSE
      BY <1>3
    <2>1. upCount * FullDen >= PoolSize * FullDen
      BY <1>3, NearlyFull
    <2>2. PoolSize * FullDen > PoolSize * FullNum
      BY <1>3, NearlyFull
    <2>3. upCount * FullDen \in Int /\ PoolSize * FullDen \in Int /\ PoolSize * FullNum \in Int
      BY <1>3, NearlyFull
    <2> QED BY <1>4, <2>1, <2>2, <2>3
  <1>5. PoolTypes'
    BY <1>1, <1>2 DEF GetUnit, PoolTypes, PoolPcs
  <1>6. CountsBounded'
    BY <1>1, <1>2, <1>3, <1>4 DEF GetUnit, CountsBounded
  <1>7. RefusalsEnd'
    BY <1>1, <1>2 DEF GetUnit, RefusalsEnd
  <1> QED BY <1>5, <1>6, <1>7 DEF PoolInv

LEMMA GetAdjustKeeps == ASSUME PoolInv, GetAdjust PROVE PoolInv'
  <1>1. PoolTypes /\ CountsBounded /\ RefusalsEnd /\ upReg <= PoolSize /\ upReg \in Int
    BY DEF PoolInv, CountsBounded, PoolTypes, GetAdjust
  <1>2. upPc' = "compare" /\ upCount' = upReg /\ upFlags' = Grown /\ UNCHANGED <<upReg, upCur, upAvail, upUnit, upReader, upRefused>>
    BY DEF GetAdjust
  <1>3. /\ PoolTypes' /\ PoolSize' >= PoolSize /\ PoolSize \in Nat /\ PoolSize' \in Nat
        /\ Entries' >= Entries /\ Entries' \in 1..MaxEntries
        /\ Findable => Findable'
        /\ Entries < MaxEntries /\ upReg * FullDen >= PoolSize * FullNum => Findable' /\ PoolSize' > PoolSize
        /\ Entries' = Entries => PoolSize' = PoolSize
    <2>1. upPc' \in PoolPcs \ {"got"} /\ upRefused' \in 0..2 /\ upCount' \in Int
      BY <1>1, <1>2 DEF PoolTypes, PoolPcs
    <2> QED BY <1>1, <1>2, <2>1, GrownPool
  <1>4. Entries \in 1..MaxEntries
    BY <1>1 DEF PoolTypes
  <1>5. Entries' < MaxEntries => upReg < PoolSize'
    <2> SUFFICES ASSUME Entries' < MaxEntries, upReg >= PoolSize' PROVE FALSE
      BY <1>1, <1>3
    <2>1. upReg = PoolSize /\ Entries < MaxEntries
      BY <1>1, <1>3, <1>4, NearlyFull
    <2>2. PoolSize * FullDen >= PoolSize * FullNum
      BY <1>3, NearlyFull
    <2> QED BY <1>1, <1>3, <2>1, <2>2
  <1>6. CountsBounded'
    BY <1>1, <1>2, <1>3, <1>5 DEF CountsBounded, PoolTypes
  <1>7. RefusalsEnd'
    BY <1>1, <1>2, <1>3, <1>4, NearlyFull DEF RefusalsEnd
  <1> QED BY <1>3, <1>6, <1>7 DEF PoolInv

LEMMA GetCompareKeeps == ASSUME PoolInv, GetCompare PROVE PoolInv'
  <1>1. PoolSize' = PoolSize /\ Entries' = Entries /\ (Findable' <=> Findable)
    BY PoolRests DEF GetCompare
  <1>2. PoolTypes /\ CountsBounded /\ RefusalsEnd
    BY DEF PoolInv
  <1>3. PoolSize \in Nat /\ upCount \in Int /\ Entries \in 1..MaxEntries
    BY <1>2 DEF PoolTypes, PoolSize
  <1>4. PoolTypes'
    BY <1>1, <1>2 DEF GetCompare, PoolTypes, PoolPcs, Refuse
  <1>5. CountsBounded'
    BY <1>1, <1>2, <1>3 DEF GetCompare, CountsBounded
  <1>6. upCount >= PoolSize => Entries = MaxEntries
    BY <1>2, <1>3, NearlyFull DEF GetCompare, CountsBounded
  <1>7. RefusalsEnd'
    BY <1>1, <1>2, <1>3, <1>6 DEF GetCompare, RefusalsEnd, Refuse
  <1> QED BY <1>4, <1>5, <1>7 DEF PoolInv

LEMMA GetScanKeeps == ASSUME PoolInv, GetScan PROVE PoolInv'
  <1>1. PoolSize' = PoolSize /\ Entries' = Entries /\ upFlags' = upFlags
    BY DEF GetScan, PoolSize, Entries
  <1>2. PoolTypes /\ CountsBounded /\ RefusalsEnd /\ Cardinality(InUse) \in 0..PoolSize
    BY UsedInPool DEF PoolInv
  <1>3. /\ Scan.entry \in 1..Entries /\ (Scan.unit # 0 => Scan.unit \in 1..PoolSize)
        /\ (Findable <=> Scan.unit # 0) /\ (Scan.unit = 0 => Scan.entry = upCur)
    BY <1>2, ScanFinds
  <1>4. CASE Scan.unit # 0
    <2>1. /\ upPc' = "got" /\ upCur' = Scan.entry /\ upAvail' = Scan.unit /\ upUnit' = Scan.unit /\ upRefused' = 0
          /\ UNCHANGED <<upFlags, upCount, upReader, upReg>> /\ upPc = "scan"
      BY <1>4 DEF GetScan
    <2>2. PoolTypes'
      BY <1>1, <1>2, <1>3, <1>4, <2>1 DEF PoolTypes, PoolPcs
    <2>3. CountsBounded' /\ RefusalsEnd'
      BY <1>1, <1>2, <2>1 DEF CountsBounded, RefusalsEnd
    <2> QED BY <2>2, <2>3 DEF PoolInv
  <1>5. CASE Scan.unit = 0
    <2>1. /\ upPc' = "recount" /\ upCur' = upCur /\ upAvail' = (upCur - 1) * EntrySize + 1
          /\ upReg' = Cardinality(InUse)
          /\ UNCHANGED <<upFlags, upCount, upReader, upUnit, upRefused>> /\ upPc = "scan"
      BY <1>3, <1>5 DEF GetScan
    <2>2. (upCur - 1) * EntrySize + 1 \in 1..PoolSize
      <3>1. Entries \in Nat /\ upCur \in 1..Entries /\ PoolSize = Entries * EntrySize
        BY <1>2 DEF PoolTypes
      <3>2. (upCur - 1) * EntrySize + 1 \in 1..Entries * EntrySize - 1
        BY <3>1, EntryInPool
      <3>3. Entries * EntrySize \in Nat
        BY <3>1, NearlyFull
      <3> QED BY <3>1, <3>2, <3>3
    <2>3. PoolTypes'
      BY <1>1, <1>2, <2>1, <2>2 DEF PoolTypes, PoolPcs
    <2>4. CountsBounded'
      BY <1>1, <1>2, <2>1 DEF CountsBounded
    <2>5. Findable' \/ Cardinality(InUse) * FullDen >= PoolSize * FullNum
      <3> SUFFICES ASSUME ~Findable' PROVE Cardinality(InUse) * FullDen >= PoolSize * FullNum
        OBVIOUS
      <3>1. \A e \in 1..Entries : Searched(e)' = (e - 1) * EntrySize + 1
        BY <2>1 DEF Searched
      <3>2. \A e \in 1..Entries : \A v \in (e - 1) * EntrySize + 1..e * EntrySize - 1 : upFlags[v] # 0
        BY <1>1, <3>1 DEF Findable
      <3> QED BY <1>2, <3>2, AllButTheLast
    <2>6. RefusalsEnd'
      <3>1. upRefused >= 1 => Entries = MaxEntries
        BY <1>2, <1>3, <1>5, NearlyFull DEF RefusalsEnd, PoolTypes
      <3>2. upRefused \in 0..2 /\ Entries \in 1..MaxEntries
        BY <1>2 DEF PoolTypes
      <3> QED BY <1>1, <1>2, <2>1, <2>5, <3>1, <3>2, NearlyFull DEF RefusalsEnd
    <2> QED BY <2>3, <2>4, <2>6 DEF PoolInv
  <1> QED BY <1>4, <1>5

LEMMA GetRecountKeeps == ASSUME PoolInv, GetRecount PROVE PoolInv'
  <1>1. PoolTypes /\ CountsBounded /\ RefusalsEnd /\ upReg <= PoolSize /\ upReg \in Int /\ upRefused \in 0..2
    BY DEF PoolInv, CountsBounded, PoolTypes, GetRecount
  <1>2. /\ upPc = "recount" /\ upPc' = "idle" /\ upCount' = upReg /\ upFlags' = Grown /\ upRefused' = Refuse
        /\ UNCHANGED <<upReg, upCur, upAvail, upUnit, upReader>>
    BY DEF GetRecount
  <1>3. /\ PoolTypes' /\ PoolSize' >= PoolSize /\ PoolSize \in Nat /\ PoolSize' \in Nat
        /\ Entries' >= Entries /\ Entries' \in 1..MaxEntries
        /\ Findable => Findable'
        /\ Entries < MaxEntries /\ upReg * FullDen >= PoolSize * FullNum => Findable' /\ PoolSize' > PoolSize
        /\ Entries' = Entries => PoolSize' = PoolSize
    <2>1. upPc' \in PoolPcs \ {"got"} /\ upRefused' \in 0..2 /\ upCount' \in Int
      BY <1>1, <1>2 DEF PoolPcs, Refuse
    <2> QED BY <1>1, <1>2, <2>1, GrownPool
  <1>4. Entries \in 1..MaxEntries /\ MaxEntries \in Nat
    BY <1>1, NearlyFull DEF PoolTypes
  <1>5. CountsBounded'
    BY <1>1, <1>2, <1>3 DEF CountsBounded, PoolTypes
  <1>6. RefusalsEnd'
    <2>1. Entries' < MaxEntries => Findable'
      BY <1>1, <1>2, <1>3, <1>4 DEF RefusalsEnd
    <2>2. upRefused >= 1 => Entries' = MaxEntries
      <3>1. upRefused >= 1 => Entries = MaxEntries
        BY <1>1, <1>2, <1>4 DEF RefusalsEnd
      <3> QED BY <1>3, <1>4, <3>1
    <2>3. upRefused' >= 2 => upRefused >= 1
      BY <1>1, <1>2 DEF Refuse
    <2> QED BY <1>1, <1>2, <2>1, <2>2, <2>3 DEF RefusalsEnd
  <1> QED BY <1>3, <1>5, <1>6 DEF PoolInv

LEMMA DiscardUnitKeeps == ASSUME PoolInv, DiscardUnit PROVE PoolInv'
  <1>1. PoolSize' = PoolSize /\ Entries' = Entries /\ (Findable' <=> Findable)
    BY PoolRests DEF DiscardUnit
  <1> QED BY <1>1 DEF DiscardUnit, PoolInv, PoolTypes, PoolPcs, CountsBounded, RefusalsEnd

LEMMA OccupyUnitKeeps == ASSUME PoolInv, OccupyUnit PROVE PoolInv'
  <1>1. PoolTypes /\ CountsBounded /\ RefusalsEnd /\ upUnit \in 1..PoolSize
    BY DEF PoolInv, PoolTypes, OccupyUnit
  <1>2. upFlags' \in Seq({0, 1}) /\ Len(upFlags') = Len(upFlags)
    BY <1>1 DEF OccupyUnit, PoolTypes, PoolSize
  <1>3. PoolSize' = PoolSize /\ Entries' = Entries
    BY <1>2 DEF PoolSize, Entries
  <1>4. PoolTypes'
    BY <1>1, <1>2, <1>3 DEF OccupyUnit, PoolTypes, PoolPcs
  <1>5. CountsBounded' /\ RefusalsEnd'
    BY <1>1, <1>3 DEF OccupyUnit, CountsBounded, RefusalsEnd
  <1> QED BY <1>4, <1>5 DEF PoolInv

LEMMA CountUnitKeeps == ASSUME PoolInv, CountUnit PROVE PoolInv'
  <1>1. PoolSize' = PoolSize /\ Entries' = Entries /\ (Findable' <=> Findable)
    BY PoolRests DEF CountUnit
  <1>2. PoolTypes /\ CountsBounded /\ RefusalsEnd /\ upReg \in Int /\ PoolSize \in Nat
    BY DEF PoolInv, PoolTypes, PoolSize
  <1>3. PoolTypes'
    BY <1>1, <1>2 DEF CountUnit, PoolTypes, PoolPcs
  <1>4. CountsBounded' /\ RefusalsEnd'
    BY <1>1, <1>2 DEF CountUnit, CountsBounded, RefusalsEnd
  <1> QED BY <1>3, <1>4 DEF PoolInv

LEMMA ReleaseUnitKeeps == ASSUME PoolInv, ReleaseUnit PROVE PoolInv'
  <1>1. PoolTypes /\ CountsBounded /\ RefusalsEnd /\ upFlags \in Seq({0, 1})
    BY DEF PoolInv, PoolTypes
  <1>2. PICK u \in DOMAIN upFlags : upFlags' = [upFlags EXCEPT ![u] = 0]
    BY DEF ReleaseUnit, InUse
  <1>3. /\ upFlags' \in Seq({0, 1}) /\ Len(upFlags') = Len(upFlags)
        /\ \A v \in 1..PoolSize : upFlags[v] = 0 => upFlags'[v] = 0
    BY <1>1, <1>2 DEF PoolSize
  <1>4. PoolSize' = PoolSize /\ Entries' = Entries
    BY <1>3 DEF PoolSize, Entries
  <1>5. UNCHANGED <<upCount, upCur, upAvail, upPc, upUnit, upReg, upRefused>> /\ upReader' = upCount
    BY DEF ReleaseUnit
  <1>6. Findable => Findable'
    <2> SUFFICES ASSUME Findable PROVE Findable'
      OBVIOUS
    <2>1. PICK e \in 1..Entries : \/ upFlags[(e - 1) * EntrySize + 1] = 0
                                  \/ \E v \in Searched(e)..e * EntrySize - 1 : upFlags[v] = 0
      BY DEF Findable
    <2>2. Entries \in Nat /\ PoolSize = Entries * EntrySize /\ PoolSize \in Nat /\ upAvail \in 1..PoolSize
      BY <1>1 DEF PoolTypes, PoolSize
    <2>3. /\ (e - 1) * EntrySize + 1 \in 1..PoolSize /\ e * EntrySize <= PoolSize
          /\ e * EntrySize \in Nat
      BY <2>2, EntryInPool, NearlyFull
    <2>4. Searched(e)' = Searched(e) /\ Searched(e) \in 1..PoolSize
      BY <1>5, <2>2, <2>3 DEF Searched
    <2>5. Searched(e)..e * EntrySize - 1 \subseteq 1..PoolSize
      BY <2>2, <2>3, <2>4
    <2> QED BY <1>3, <1>4, <2>1, <2>3, <2>4, <2>5 DEF Findable
  <1>7. PoolTypes'
    BY <1>1, <1>3, <1>4, <1>5 DEF PoolTypes
  <1>8. CountsBounded' /\ RefusalsEnd'
    BY <1>1, <1>4, <1>5, <1>6 DEF CountsBounded, RefusalsEnd
  <1> QED BY <1>7, <1>8 DEF PoolInv

LEMMA UncountUnitKeeps == ASSUME PoolInv, UncountUnit PROVE PoolInv'
  <1>1. PoolSize' = PoolSize /\ Entries' = Entries /\ (Findable' <=> Findable)
    BY PoolRests DEF UncountUnit
  <1>2. PoolTypes /\ CountsBounded /\ RefusalsEnd /\ upReader \in Int /\ PoolSize \in Nat
    BY DEF PoolInv, PoolTypes, PoolSize
  <1>3. PoolTypes'
    BY <1>1, <1>2, NearlyFull DEF UncountUnit, PoolTypes, PoolPcs, ReaderIdle
  <1>4. CountsBounded' /\ RefusalsEnd'
    BY <1>1, <1>2, NearlyFull DEF UncountUnit, CountsBounded, RefusalsEnd, ReaderIdle
  <1> QED BY <1>3, <1>4 DEF PoolInv

LEMMA PoolStep == ASSUME PoolInv, UnitPoolNext PROVE PoolInv'
  BY GetUnitKeeps, GetAdjustKeeps, GetCompareKeeps, GetScanKeeps, GetRecountKeeps, DiscardUnitKeeps,
     OccupyUnitKeeps, CountUnitKeeps, ReleaseUnitKeeps, UncountUnitKeeps DEF UnitPoolNext

\* The reader never reads a count that means it is idle.
LEMMA ReaderReads == ASSUME PoolInv, ReleaseUnit PROVE upReader' # ReaderIdle
  <1>1. Cardinality(InUse) \in 0..PoolSize /\ InUse # {} /\ upCount \in Int
    BY UsedInPool DEF PoolInv, PoolTypes, ReleaseUnit
  <1>2. Cardinality(InUse) # 0
    <2>1. IsFiniteSet(InUse)
      <3>1. PoolSize \in Nat /\ InUse \subseteq 1..PoolSize
        BY DEF PoolInv, PoolTypes, PoolSize, InUse
      <3>2. IsFiniteSet(1..PoolSize)
        BY <3>1, FS_Interval
      <3> QED BY <3>1, <3>2, FS_Subset
    <2> QED BY <1>1, <2>1, FS_EmptySet
  <1>3. PoolSize \in Nat
    BY DEF PoolInv, PoolTypes, PoolSize
  <1> QED BY <1>1, <1>2, <1>3, NearlyFull DEF ReleaseUnit, ReaderIdle

\* However the counts drift, a packet is refused twice in a row for want of a unit only
\* when the pool cannot grow any more (getNextAvailUnit, increase).
THEOREM PoolGrowsInTime == PartsSpec => []PoolRefusesOnlyWhenFull
  <1> DEFINE Inv == subject = "unitPool" => PoolInv
  <1>1. PartsInit => Inv
    BY PoolStart DEF PartsInit
  <1>2. Inv /\ [PartsNext]_allVars => Inv'
    <2> SUFFICES ASSUME Inv, [PartsNext]_allVars, subject' = "unitPool" PROVE PoolInv'
      OBVIOUS
    <2>1. subject = "unitPool" /\ (UnitPoolNext \/ UNCHANGED unitPoolVars)
      BY DEF PartsNext, StepOf, allVars
    <2>2. CASE UNCHANGED unitPoolVars
      <3>1. PoolSize' = PoolSize /\ Entries' = Entries /\ (Findable' <=> Findable)
        BY <2>2, PoolRests DEF unitPoolVars
      <3> QED BY <2>1, <2>2, <3>1 DEF unitPoolVars, PoolInv, PoolTypes, CountsBounded, RefusalsEnd
    <2> QED BY <2>1, <2>2, PoolStep
  <1>3. Inv => PoolRefusesOnlyWhenFull
    BY DEF PoolInv, RefusalsEnd, PoolRefusesOnlyWhenFull, Of, RefusedOnlyWhenFull
  <1> QED BY <1>1, <1>2, <1>3, PTL DEF PartsSpec

-----------------------------------------------------------------------------
(* The rates.                                                              *)

RateTypes == rates \in [1..RateSize -> Nat] /\ ratePtr \in 1..RateSize

\* Of the entries the median is taken from, one is the largest.
LEMMA LargestEntry ==
    ASSUME RateTypes, NEW n \in Nat, n < RateSize, n # 0
    PROVE  \E j \in 1..n : \A k \in 1..n : rates[k] <= rates[j]
  <1> DEFINE Largest(m) == \E j \in 1..m : \A k \in 1..m : rates[k] <= rates[j]
             Good == {m \in Nat : m # 0 /\ m < RateSize => Largest(m)}
  <1>1. RateSize \in Nat
    BY WindowsAssumption
  <1>2. 0 \in Good
    OBVIOUS
  <1>3. ASSUME NEW m \in Good PROVE m + 1 \in Good
    <2> SUFFICES ASSUME m + 1 < RateSize PROVE Largest(m + 1)
      OBVIOUS
    <2>0. \A k \in 1..m + 1 : rates[k] \in Nat
      BY <1>1 DEF RateTypes
    <2>1. CASE m = 0
      BY <2>0, <2>1
    <2>2. CASE m # 0
      <3>1. PICK j \in 1..m : \A k \in 1..m : rates[k] <= rates[j]
        BY <1>1, <2>2
      <3>2. CASE rates[m + 1] <= rates[j]
        <4>1. \A k \in 1..m + 1 : rates[k] <= rates[j]
          BY <3>1, <3>2, <2>0
        <4> QED BY <4>1
      <3>3. CASE rates[j] < rates[m + 1]
        <4>1. \A k \in 1..m + 1 : rates[k] <= rates[m + 1]
          BY <3>1, <3>3, <2>0
        <4> QED BY <4>1
      <3> QED BY <3>2, <3>3, <2>0
    <2> QED BY <2>1, <2>2
  <1>4. Good = Nat
    <2> HIDE DEF Good
    <2>1. Good \in SUBSET Nat
      BY DEF Good
    <2> QED BY <1>2, <1>3, <2>1, ByInduction
  <1> QED BY <1>4

\* There is a median.
LEMMA MedianExists == ASSUME RateTypes PROVE RateMedian \in Nat
  <1> DEFINE entries == 1..RateSize - 1
             rank(x) == Cardinality({k \in entries : rates[k] <= x})
             upper == {x \in {rates[k] : k \in entries} : rank(x) > RateSize \div 2}
  <1>1. RateSize \in Nat /\ RateSize >= 3
    BY WindowsAssumption
  <1>2. PICK j \in entries : \A k \in entries : rates[k] <= rates[j]
    BY <1>1, LargestEntry
  <1>3. {k \in entries : rates[k] <= rates[j]} = entries
    BY <1>2
  <1>4. Cardinality(entries) = RateSize - 1
    BY <1>1, FS_Interval
  <1>5. rates[j] \in upper
    <2>1. RateSize - 1 > RateSize \div 2
      BY <1>1
    <2>2. rank(rates[j]) > RateSize \div 2
      BY <1>3, <1>4, <2>1
    <2> QED BY <2>2
  <1>6. upper \in SUBSET Nat
    BY <1>1 DEF RateTypes
  <1>7. \E x \in upper : \A y \in upper : x <= y
    <2> HIDE DEF upper
    <2> QED BY <1>5, <1>6, LeastOne
  <1>8. RateMedian \in upper
    <2>1. RateMedian = CHOOSE x \in upper : \A y \in upper : x <= y
      BY DEF RateMedian
    <2> HIDE DEF upper
    <2> QED BY <1>7, <2>1
  <1> QED BY <1>6, <1>8

Sums == [count : Nat, sum : Nat]

\* The loop over the window, as a loop.
KeptStep(m) ==
    [k \in 1..RateSize |-> [s \in Sums |->
       IF Near(rates[k], m) THEN [count |-> s.count + 1, sum |-> s.sum + rates[k]] ELSE s]]

LEMMA KeptRuns ==
    ASSUME RateTypes, NEW m \in Nat
    PROVE  \E f \in Loops(RateSize, Sums, [count |-> 0, sum |-> 0], KeptStep(m)) :
              Kept(m) = f[RateSize]
  <1> DEFINE Body(f) == [k \in 0..RateSize |->
          IF k = 0 THEN [count |-> 0, sum |-> 0]
          ELSE IF Near(rates[k], m)
               THEN [count |-> f[k - 1].count + 1, sum |-> f[k - 1].sum + rates[k]]
               ELSE f[k - 1]]
             Run(f) == f \in Loops(RateSize, Sums, [count |-> 0, sum |-> 0], KeptStep(m))
             loop == CHOOSE f : f = Body(f)
  <1>1. RateSize \in Nat /\ [count |-> 0, sum |-> 0] \in Sums
    BY WindowsAssumption DEF Sums
  <1>2. KeptStep(m) \in [1..RateSize -> [Sums -> Sums]]
    BY <1>1 DEF KeptStep, Sums, RateTypes
  <1>3. \E f : Run(f)
    BY <1>1, <1>2, LoopRuns
  <1>4. ASSUME NEW f, Run(f) PROVE f = Body(f)
    <2>1. \A k \in 1..RateSize : f[k - 1] \in Sums
      BY <1>1, <1>4 DEF Loops
    <2>2. \A k \in 1..RateSize : KeptStep(m)[k][f[k - 1]] =
             IF Near(rates[k], m)
             THEN [count |-> f[k - 1].count + 1, sum |-> f[k - 1].sum + rates[k]] ELSE f[k - 1]
      BY <2>1 DEF KeptStep
    <2>3. \A k \in 0..RateSize : f[k] = Body(f)[k]
      <3> SUFFICES ASSUME NEW k \in 0..RateSize PROVE f[k] = Body(f)[k]
        OBVIOUS
      <3>1. CASE k = 0
        BY <1>4, <3>1 DEF Loops
      <3>2. CASE k # 0
        <4>1. k \in 1..RateSize
          BY <1>1, <3>2
        <4> QED BY <1>4, <2>2, <3>2, <4>1 DEF Loops
      <3> QED BY <3>1, <3>2
    <2>4. f = [k \in 0..RateSize |-> f[k]]
      BY <1>4 DEF Loops
    <2> QED BY <2>3, <2>4
  <1>5. loop = Body(loop)
    BY <1>3, <1>4, Zenon
  <1>6. Kept(m) = loop[RateSize]
    BY DEF Kept
  <1>7. Run(loop)
    <2> HIDE DEF loop
    <2> DEFINE Typed0 == {k \in Nat : k <= RateSize => loop[k] \in Sums}
    <2>1. loop[0] = [count |-> 0, sum |-> 0] /\ \A k \in 1..RateSize : loop[k] =
             IF Near(rates[k], m)
             THEN [count |-> loop[k - 1].count + 1, sum |-> loop[k - 1].sum + rates[k]]
             ELSE loop[k - 1]
      BY <1>1, <1>5
    <2>2. Typed0 = Nat
      <3>1. 0 \in Typed0
        BY <1>1, <2>1
      <3>2. ASSUME NEW k \in Typed0 PROVE k + 1 \in Typed0
        <4> SUFFICES ASSUME k + 1 <= RateSize PROVE loop[k + 1] \in Sums
          OBVIOUS
        <4>1. loop[k] \in Sums /\ k + 1 \in 1..RateSize /\ rates[k + 1] \in Nat
          BY <1>1 DEF RateTypes
        <4>2. loop[k + 1] = IF Near(rates[k + 1], m)
                            THEN [count |-> loop[k].count + 1, sum |-> loop[k].sum + rates[k + 1]]
                            ELSE loop[k]
          BY <2>1, <4>1
        <4>3. loop[k].count \in Nat /\ loop[k].sum \in Nat
          BY <4>1 DEF Sums
        <4> QED BY <4>1, <4>2, <4>3 DEF Sums
      <3>3. Typed0 \in SUBSET Nat
        OBVIOUS
      <3> HIDE DEF Typed0
      <3> QED BY <3>1, <3>2, <3>3, ByInduction
    <2>3. \A k \in 0..RateSize : loop[k] \in Sums
      BY <1>1, <2>2
    <2>4. loop \in [0..RateSize -> Sums]
      BY <1>5, <2>3
    <2>5. \A k \in 1..RateSize : loop[k] = KeptStep(m)[k][loop[k - 1]]
      <3>1. \A k \in 1..RateSize : loop[k - 1] \in Sums
        BY <1>1, <2>3
      <3> QED BY <2>1, <3>1 DEF KeptStep
    <2> QED BY <2>1, <2>4, <2>5 DEF Loops
  <1> QED BY <1>6, <1>7

\* An average of numbers within a factor of 8 of the median gives a rate within that
\* factor of the median's.
LEMMA RateOfAverage ==
    ASSUME NEW u \in Nat \ {0}, NEW m \in Nat \ {0}, NEW count \in Nat \ {0}, NEW sum \in Nat,
           count * (m \div 8 + 1) <= sum, sum <= count * (8 * m)
    PROVE  LET rate == Ceiling(u * count, sum)
           IN /\ rate \in Nat /\ rate * m * 8 >= u
              /\ rate * m <= 8 * (u + m)
  <1> DEFINE low == m \div 8 + 1
  <1>0. count * low <= sum
    OBVIOUS
  <1>1. low \in Nat \ {0} /\ m < 8 * low
    <2>1. m \div 8 \in Nat /\ m = 8 * (m \div 8) + (m % 8) /\ m % 8 \in 0..7
      OBVIOUS
    <2> QED BY <2>1
  <1>2. sum >= 1
    <2>1. count * 1 <= count * low
      <3> HIDE DEF low
      <3> QED BY <1>1, ProductGrows
    <2>2. count * low \in Nat
      <3> HIDE DEF low
      <3> QED BY <1>1
    <2> QED BY <2>1, <2>2
  <1>3. PICK rate \in Nat : /\ rate = Ceiling(u * count, sum)
                            /\ u * count <= sum * rate
                            /\ sum * (rate - 1) < u * count
    <2>1. u * count \in Nat /\ sum \in Nat \ {0}
      BY <1>2
    <2> QED BY <2>1, CeilingIs
  <1>4. rate # 0
    <2>1. sum * 0 = 0
      OBVIOUS
    <2> QED BY <1>3, <2>1
  <1>5. rate * m * 8 >= u
    <2>1. rate * sum <= rate * (count * (8 * m))
      <3>1. count * (8 * m) \in Nat
        OBVIOUS
      <3> QED BY <3>1, ProductGrows
    <2>2. rate * (count * (8 * m)) = count * (rate * m * 8)
      OBVIOUS
    <2>3. sum * rate = rate * sum /\ u * count = count * u /\ rate * sum \in Nat
      OBVIOUS
    <2>4. count * u <= count * (rate * m * 8)
      BY <1>3, <2>1, <2>2, <2>3
    <2>5. rate * m * 8 \in Int
      OBVIOUS
    <2> HIDE DEF low
    <2> QED BY <2>4, <2>5, ProductShrinks
  <1>6. rate * m <= 8 * (u + m)
    <2>1. (rate - 1) * (count * low) <= (rate - 1) * sum
      <3> HIDE DEF low
      <3>1. count * low \in Nat /\ rate - 1 \in Nat
        BY <1>1, <1>4
      <3> QED BY <1>0, <3>1, ProductGrows
    <2>2. count * ((rate - 1) * low) < count * u
      <3> HIDE DEF low
      <3>1. (rate - 1) * (count * low) = count * ((rate - 1) * low)
        BY <1>1
      <3>2. (rate - 1) * sum = sum * (rate - 1) /\ u * count = count * u
        OBVIOUS
      <3>3. sum * (rate - 1) \in Int /\ count * ((rate - 1) * low) \in Int
        BY <1>1
      <3> QED BY <1>3, <2>1, <3>1, <3>2, <3>3
    <2>3. (rate - 1) * low < u
      <3> HIDE DEF low
      <3>1. (rate - 1) * low \in Int
        BY <1>1
      <3> QED BY <2>2, <3>1, ProductShrinks
    <2>4. (rate - 1) * m <= (rate - 1) * (8 * low)
      <3> HIDE DEF low
      <3>1. rate - 1 \in Nat /\ 8 * low \in Nat /\ m <= 8 * low
        BY <1>1, <1>4
      <3> QED BY <3>1, ProductGrows
    <2>5. (rate - 1) * (8 * low) = 8 * ((rate - 1) * low) /\ (rate - 1) * m = rate * m - m
      <3> HIDE DEF low
      <3> QED BY <1>1
    <2>6. rate * m \in Int /\ (rate - 1) * low \in Int
      <3> HIDE DEF low
      <3> QED BY <1>1
    <2> HIDE DEF low
    <2> QED BY <2>3, <2>4, <2>5, <2>6
  <1> QED BY <1>3, <1>5, <1>6

\* The intervals that are kept lie within a factor of 8 of the median.
LEMMA KeptNear ==
    ASSUME RateTypes, NEW m \in Nat
    PROVE  \E count, sum \in Nat :
              /\ Kept(m) = [count |-> count, sum |-> sum]
              /\ count * (m \div 8 + 1) <= sum /\ sum <= count * (8 * m)
              /\ m = 0 => count = 0
  <1> DEFINE low == m \div 8 + 1
             Good(s) == /\ s.count * low <= s.sum /\ s.sum <= s.count * (8 * m)
                        /\ m = 0 => s.count = 0
  <1>0. RateSize \in Nat /\ \A k \in 1..RateSize : rates[k] \in Nat
    BY WindowsAssumption DEF RateTypes
  <1>1. PICK f \in Loops(RateSize, Sums, [count |-> 0, sum |-> 0], KeptStep(m)) :
          Kept(m) = f[RateSize]
    BY KeptRuns
  <1>2. /\ f \in [0..RateSize -> Sums] /\ f[0] = [count |-> 0, sum |-> 0]
        /\ \A k \in 1..RateSize : f[k] = KeptStep(m)[k][f[k - 1]]
    BY DEF Loops
  <1>3. low \in Nat
    OBVIOUS
  <1>4. ASSUME NEW x \in Nat, Near(x, m) PROVE low <= x /\ x <= 8 * m /\ m # 0
    <2>1. m \div 8 \in Nat /\ m = 8 * (m \div 8) + (m % 8) /\ m % 8 \in 0..7
      OBVIOUS
    <2> QED BY <1>4, <2>1 DEF Near
  <1> HIDE DEF low
  <1> DEFINE Ks == {k \in Nat : k <= RateSize => Good(f[k])}
  <1>5. 0 \in Ks
    <2>1. 0 * low = 0 /\ 0 * (8 * m) = 0
      BY <1>3
    <2> QED BY <1>2, <2>1
  <1>6. ASSUME NEW k \in Ks PROVE k + 1 \in Ks
    <2> SUFFICES ASSUME k + 1 <= RateSize PROVE Good(f[k + 1])
      OBVIOUS
    <2>1. k + 1 \in 1..RateSize /\ f[k] \in Sums /\ Good(f[k]) /\ (k + 1) - 1 = k
      BY <1>0, <1>2
    <2>2. f[k + 1] = KeptStep(m)[k + 1][f[k]]
      BY <1>2, <2>1
    <2>3. f[k + 1] = IF Near(rates[k + 1], m)
                     THEN [count |-> f[k].count + 1, sum |-> f[k].sum + rates[k + 1]] ELSE f[k]
      BY <2>1, <2>2 DEF KeptStep
    <2>4. PICK c \in Nat, t \in Nat : f[k] = [count |-> c, sum |-> t]
      BY <2>1 DEF Sums
    <2>5. CASE Near(rates[k + 1], m)
      <3>1. PICK x \in Nat : x = rates[k + 1] /\ low <= x /\ x <= 8 * m /\ m # 0
        BY <1>0, <1>4, <2>1, <2>5
      <3>2. f[k + 1] = [count |-> c + 1, sum |-> t + x]
        BY <2>3, <2>4, <2>5, <3>1
      <3>3. c * low <= t /\ t <= c * (8 * m)
        BY <2>1, <2>4
      <3>4. (c + 1) * low = c * low + low /\ (c + 1) * (8 * m) = c * (8 * m) + 8 * m
        BY <1>3
      <3>5. c * low \in Nat /\ c * (8 * m) \in Nat /\ 8 * m \in Nat
        BY <1>3
      <3>6. (c + 1) * low <= t + x /\ t + x <= (c + 1) * (8 * m)
        BY <1>3, <3>1, <3>3, <3>4, <3>5
      <3> QED BY <3>1, <3>2, <3>6
    <2>6. CASE ~Near(rates[k + 1], m)
      BY <2>1, <2>3, <2>6
    <2> QED BY <2>5, <2>6
  <1>7. Ks = Nat
    <2>1. Ks \in SUBSET Nat
      OBVIOUS
    <2> HIDE DEF Ks
    <2> QED BY <1>5, <1>6, <2>1, ByInduction
  <1>8. Good(f[RateSize]) /\ f[RateSize] \in Sums
    BY <1>0, <1>2, <1>7
  <1>9. PICK c \in Nat, t \in Nat : f[RateSize] = [count |-> c, sum |-> t]
    BY <1>8 DEF Sums
  <1>10. c * low <= t /\ t <= c * (8 * m) /\ (m = 0 => c = 0)
    BY <1>8, <1>9
  <1> QED BY <1>1, <1>9, <1>10 DEF low

\* So do the reported rates.
LEMMA SpeedsHold == ASSUME RateTypes PROVE SpeedNearMedian
  <1>1. PICK m \in Nat : m = RateMedian
    BY MedianExists
  <1>2. PICK c \in Nat, t \in Nat :
              /\ Kept(m) = [count |-> c, sum |-> t]
              /\ c * (m \div 8 + 1) <= t /\ t <= c * (8 * m)
              /\ m = 0 => c = 0
    BY KeptNear
  <1>3. RateSize \in Nat /\ RateSize \div 2 \in Nat
    BY WindowsAssumption
  <1>0. PICK u \in Nat \ {0} : u = 1000000
    BY SMT
  <1>4. PktRcvSpeed = IF c > RateSize \div 2 THEN Ceiling(u, t \div c) ELSE 0
    BY <1>0, <1>1, <1>2, SMT DEF PktRcvSpeed
  <1>5. Bandwidth = Ceiling(u * (c + 1), t + m)
    BY <1>0, <1>1, <1>2, SMT DEF Bandwidth
  <1>6. CASE m = 0
    <2>1. PktRcvSpeed = 0
      BY <1>2, <1>3, <1>4, <1>6, SMT
    <2> QED BY <1>1, <1>6, <2>1, <1>0, SMT DEF SpeedNearMedian
  <1>7. CASE m # 0
    <2> DEFINE low == m \div 8 + 1
    <2>1. low \in Nat /\ low <= m /\ low # 0
      <3>1. m \div 8 \in Nat /\ m = 8 * (m \div 8) + (m % 8) /\ m % 8 \in 0..7
        OBVIOUS
      <3> QED BY <1>7, <3>1
    <2>2. c * low <= t /\ t <= c * (8 * m)
      BY <1>2
    <2>3. /\ Bandwidth * m * 8 >= u /\ Bandwidth * m <= 8 * (u + m)
      <3> HIDE DEF low
      <3>1. (c + 1) * low = c * low + low /\ (c + 1) * (8 * m) = c * (8 * m) + 8 * m
        BY <2>1
      <3>2. c * low \in Nat /\ c * (8 * m) \in Nat
        BY <2>1
      <3>3. (c + 1) * low <= t + m /\ t + m <= (c + 1) * (8 * m)
        BY <2>1, <2>2, <3>1, <3>2
      <3>4. m \in Nat \ {0} /\ c + 1 \in Nat \ {0} /\ t + m \in Nat
        BY <1>7
      <3>5. (c + 1) * (m \div 8 + 1) <= t + m
        BY <3>3 DEF low
      <3> QED BY <1>5, <3>3, <3>4, <3>5, RateOfAverage, Zenon
    <2>4. PktRcvSpeed # 0 => /\ PktRcvSpeed * m * 8 >= u
                             /\ PktRcvSpeed * m <= 8 * (u + m)
      <3> SUFFICES ASSUME PktRcvSpeed # 0
                   PROVE  /\ PktRcvSpeed * m * 8 >= u
                          /\ PktRcvSpeed * m <= 8 * (u + m)
        OBVIOUS
      <3>1. c # 0 /\ PktRcvSpeed = Ceiling(u, t \div c)
        BY <1>3, <1>4
      <3>2. PICK a \in Nat, r \in Nat : a = t \div c /\ t = c * a + r /\ r < c
        <4>1. t \div c \in Nat /\ t = c * (t \div c) + (t % c) /\ t % c \in 0..c - 1
          BY <3>1
        <4> QED BY <4>1
      <3>3. low <= a
        <4> HIDE DEF low
        <4>1. c * (a + 1) = c * a + c /\ c * a \in Nat /\ c * low \in Nat
          BY <2>1
        <4>2. c * low < c * (a + 1)
          BY <2>2, <3>2, <4>1
        <4>3. low < a + 1
          BY <2>1, <3>1, <4>2, ProductShrinks
        <4> QED BY <2>1, <4>3
      <3>4. a <= 8 * m
        <4>1. c * a <= c * (8 * m)
          <5>1. c * a \in Nat /\ c * (8 * m) \in Nat
            OBVIOUS
          <5> QED BY <2>2, <3>2, <5>1
        <4>2. 8 * m \in Int /\ a \in Int /\ c \in Nat \ {0}
          BY <3>1
        <4> QED BY <4>1, <4>2, ProductShrinks
      <3>5. 1 * low <= a /\ a <= 1 * (8 * m) /\ u * 1 = u
        BY <2>1, <3>3, <3>4, SMT
      <3>6. m \in Nat \ {0} /\ 1 \in Nat \ {0}
        BY <1>7
      <3>7. 1 * (m \div 8 + 1) <= a
        BY <3>5
      <3>8. PktRcvSpeed = Ceiling(u * 1, a)
        BY <3>1, <3>2, <3>5
      <3> QED BY <3>2, <3>5, <3>6, <3>7, <3>8, RateOfAverage, Zenon
    <2> QED BY <1>1, <1>7, <2>3, <2>4, <1>0, SMT DEF SpeedNearMedian
  <1> QED BY <1>6, <1>7

-----------------------------------------------------------------------------
(* The window of ACKs.                                                     *)

Acks == (0..MaxAckNo) \X Nat
AckWindows == [ackNo : [AckSlots -> Int], data : [AckSlots -> Int], head : AckSlots, tail : AckSlots]

\* How many ACKs wait, the slot of the k-th of them, and the number of the j-th last ACK.
Between(h, t) == IF h >= t THEN h - t ELSE h + AckSize - t
Waiting == Between(aw.head, aw.tail)
SlotFrom(t, k) == IF t + k - 1 < AckSize THEN t + k - 1 ELSE t + k - 1 - AckSize
AckBefore(j) == IF awNo >= j THEN awNo - j ELSE awNo + MaxAckNo + 1 - j

\* The window holds the history, whose ACKs have consecutive numbers.
AckInv ==
    /\ aw \in AckWindows /\ awNo \in 0..MaxAckNo /\ awCount \in Nat /\ awHist \in Seq(Acks)
    /\ Len(awHist) = Waiting
    /\ \A k \in 1..Len(awHist) :
          /\ aw.ackNo[SlotFrom(aw.tail, k)] = awHist[k][1]
          /\ aw.data[SlotFrom(aw.tail, k)] = awHist[k][2]
          /\ awHist[k][1] = AckBefore(Len(awHist) - k)

LEMMA AckSizes == AckSize \in Nat /\ AckSize >= 2 /\ MaxAckNo \in Nat /\ AckSize <= MaxAckNo
  BY WindowsAssumption

LEMMA SlotWraps ==
    ASSUME NEW t \in AckSlots, NEW k \in 1..AckSize
    PROVE  (t + k - 1) % AckSize = SlotFrom(t, k) /\ SlotFrom(t, k) \in AckSlots
  <1>1. AckSize \in Nat \ {0} /\ t + k - 1 \in Nat /\ t + k - 1 < 2 * AckSize
    BY AckSizes DEF AckSlots
  <1>2. PICK a \in Nat : a = t + k - 1 /\ a < 2 * AckSize
    BY <1>1
  <1>3. a % AckSize = IF a < AckSize THEN a ELSE a - AckSize
    <2>1. CASE a < AckSize
      BY <1>1, <1>2, <2>1, ModRound
    <2>2. CASE AckSize <= a
      BY <1>1, <1>2, <2>2, ModRound
    <2> QED BY <1>1, <1>2, <2>1, <2>2
  <1> QED BY <1>1, <1>2, <1>3 DEF SlotFrom, AckSlots

\* How far apart two slots are, and slots counted on from another one.
LEMMA SlotsApart ==
    ASSUME NEW t \in AckSlots, NEW k \in 1..AckSize
    PROVE  SlotFrom(t, k) \in AckSlots /\ Between(SlotFrom(t, k), t) = k - 1
  <1>1. AckSize \in Nat /\ AckSize >= 2 /\ t \in 0..AckSize - 1
    BY AckSizes DEF AckSlots
  <1>2. CASE t + k - 1 < AckSize
    BY <1>1, <1>2 DEF SlotFrom, Between, AckSlots
  <1>3. CASE t + k - 1 >= AckSize
    <2>1. SlotFrom(t, k) = t + k - 1 - AckSize /\ t + k - 1 - AckSize < t
      BY <1>1, <1>3 DEF SlotFrom
    <2> QED BY <1>1, <1>3, <2>1 DEF Between, AckSlots
  <1> QED BY <1>1, <1>2, <1>3

LEMMA SlotsAdd ==
    ASSUME NEW t \in AckSlots, NEW k \in 1..AckSize, NEW j \in 1..AckSize, NEW m \in 1..AckSize,
           k + j = m + 1
    PROVE  SlotFrom(SlotFrom(t, k), j) = SlotFrom(t, m)
  <1>1. AckSize \in Nat /\ AckSize >= 2 /\ t \in 0..AckSize - 1
    BY AckSizes DEF AckSlots
  <1>2. CASE t + k - 1 < AckSize
    BY <1>1, <1>2 DEF SlotFrom
  <1>3. CASE t + k - 1 >= AckSize
    BY <1>1, <1>3 DEF SlotFrom
  <1> QED BY <1>1, <1>2, <1>3

LEMMA SlotsRound ==
    ASSUME NEW t \in AckSlots, NEW k \in 1..AckSize, NEW j \in 1..AckSize, k + j = AckSize + 2
    PROVE  SlotFrom(SlotFrom(t, k), j) = t
  <1>1. AckSize \in Nat /\ AckSize >= 2 /\ t \in 0..AckSize - 1
    BY AckSizes DEF AckSlots
  <1>2. CASE t + k - 1 < AckSize
    BY <1>1, <1>2 DEF SlotFrom
  <1>3. CASE t + k - 1 >= AckSize
    BY <1>1, <1>3 DEF SlotFrom
  <1> QED BY <1>1, <1>2, <1>3

LEMMA NextSlot ==
    ASSUME NEW t \in AckSlots
    PROVE  (t + 1) % AckSize = SlotFrom(t, 2) /\ SlotFrom(t, 2) \in AckSlots
  <1>1. 2 \in 1..AckSize /\ t + 1 = t + 2 - 1
    BY AckSizes DEF AckSlots
  <1> QED BY <1>1, SlotWraps

\* The waiting ACKs are in different slots, none of them at the head.
LEMMA WaitingSlots ==
    ASSUME AckInv
    PROVE  /\ Waiting \in 0..AckSize - 1 /\ Len(awHist) \in Nat
           /\ SlotFrom(aw.tail, Waiting + 1) = aw.head
           /\ \A k \in 1..Waiting : SlotFrom(aw.tail, k) # aw.head
           /\ \A k \in 1..Waiting : SlotFrom(aw.tail, k) \in AckSlots
           /\ SlotsFromTail(aw) = [k \in 1..Waiting |-> SlotFrom(aw.tail, k)]
  <1>1. aw.head \in AckSlots /\ aw.tail \in AckSlots /\ AckSize \in Nat
    BY AckSizes DEF AckInv, AckWindows
  <1>2. Waiting \in 0..AckSize - 1
    BY <1>1 DEF Waiting, Between, AckSlots
  <1>3. SlotFrom(aw.tail, Waiting + 1) = aw.head
    BY <1>1 DEF Waiting, Between, AckSlots, SlotFrom
  <1>4. \A k \in 1..Waiting : SlotFrom(aw.tail, k) # aw.head /\ SlotFrom(aw.tail, k) \in AckSlots
    BY <1>1 DEF Waiting, Between, AckSlots, SlotFrom
  <1>5. SlotsFromTail(aw) = [k \in 1..Waiting |-> SlotFrom(aw.tail, k)]
    <2>1. SlotsFromTail(aw) = [k \in 1..Waiting |-> (aw.tail + k - 1) % AckSize]
      BY DEF SlotsFromTail, Waiting, Between
    <2>2. \A k \in 1..Waiting : (aw.tail + k - 1) % AckSize = SlotFrom(aw.tail, k)
      BY <1>1, <1>2, SlotWraps
    <2> QED BY <2>1, <2>2
  <1>6. Len(awHist) \in Nat
    BY DEF AckInv
  <1> QED BY <1>2, <1>3, <1>4, <1>5, <1>6

\* An ACK number names one waiting ACK.
LEMMA AckNumbersDiffer ==
    ASSUME AckInv
    PROVE  \A j, k \in 1..Len(awHist) : awHist[j][1] = awHist[k][1] => j = k
  <1>1. Len(awHist) \in Nat /\ Len(awHist) < AckSize /\ AckSize <= MaxAckNo
        /\ awNo \in 0..MaxAckNo /\ MaxAckNo \in Nat /\ AckSize \in Nat
    BY WaitingSlots, AckSizes DEF AckInv
  <1>2. \A j, k \in 1..Len(awHist) :
           AckBefore(Len(awHist) - j) = AckBefore(Len(awHist) - k) => j = k
    BY <1>1 DEF AckBefore
  <1> QED BY <1>2 DEF AckInv

\* The ACK with number n, if it waits.
Numbered(n) == {k \in 1..Len(awHist) : awHist[k][1] = n}

\* What acknowledge() finds, and what it leaves.
LEMMA Acknowledges ==
    ASSUME AckInv, NEW n \in 0..MaxAckNo
    PROVE  /\ Numbered(n) = {} => Acknowledge(aw, n) = [slot |-> -1, window |-> aw]
           /\ \A k \in Numbered(n) :
                 /\ Numbered(n) = {k}
                 /\ Acknowledge(aw, n).slot = SlotFrom(aw.tail, k)
                 /\ Acknowledge(aw, n).window =
                       IF aw.head >= aw.tail /\ k = Waiting
                       THEN [aw EXCEPT !.head = 0, !.tail = 0, !.ackNo[0] = -1]
                       ELSE [aw EXCEPT !.tail = SlotFrom(SlotFrom(aw.tail, k), 2)]
  <1> DEFINE slots == SlotsFromTail(aw)
             hits == {k \in DOMAIN slots : aw.ackNo[slots[k]] = n}
             first == CHOOSE k \in hits : \A j \in hits : k <= j
             i == slots[first]
             wrapped == aw.head < aw.tail
             last == IF wrapped THEN i = aw.head ELSE i + 1 = aw.head
  <1>1. slots = [k \in 1..Waiting |-> SlotFrom(aw.tail, k)] /\ Waiting = Len(awHist)
    BY WaitingSlots DEF AckInv
  <1>2. hits = Numbered(n)
    BY <1>1 DEF AckInv, Numbered
  <1>3. Acknowledge(aw, n) =
          IF hits = {} THEN [slot |-> -1, window |-> aw]
          ELSE [slot |-> i,
                window |-> IF last THEN [aw EXCEPT !.head = 0, !.tail = 0, !.ackNo[0] = -1]
                           ELSE [aw EXCEPT !.tail = (i + 1) % AckSize]]
    BY DEF Acknowledge
  <1> HIDE DEF slots, hits
  <1>4. Numbered(n) = {} => Acknowledge(aw, n) = [slot |-> -1, window |-> aw]
    BY <1>2, <1>3
  <1>5. ASSUME NEW k \in Numbered(n)
        PROVE  /\ Numbered(n) = {k}
               /\ Acknowledge(aw, n).slot = SlotFrom(aw.tail, k)
               /\ Acknowledge(aw, n).window =
                     IF aw.head >= aw.tail /\ k = Waiting
                     THEN [aw EXCEPT !.head = 0, !.tail = 0, !.ackNo[0] = -1]
                     ELSE [aw EXCEPT !.tail = SlotFrom(SlotFrom(aw.tail, k), 2)]
    <2>1. Numbered(n) = {k} /\ k \in 1..Waiting
      BY <1>1, AckNumbersDiffer DEF Numbered
    <2>2. first = k
      BY <1>2, <2>1
    <2>3. i = SlotFrom(aw.tail, k) /\ i \in AckSlots
      BY <1>1, <2>1, <2>2, WaitingSlots
    <2>4. (i + 1) % AckSize = SlotFrom(SlotFrom(aw.tail, k), 2)
      BY <2>3, NextSlot
    <2>5. last <=> aw.head >= aw.tail /\ k = Waiting
      <3>1. aw.head \in AckSlots /\ aw.tail \in AckSlots /\ AckSize \in Nat
        BY AckSizes DEF AckInv, AckWindows
      <3>2. CASE aw.head < aw.tail
        BY <3>1, <3>2, <2>1, <2>3, WaitingSlots DEF AckSlots
      <3>3. CASE aw.head >= aw.tail
        <4>1. i + 1 = aw.head <=> k = Waiting
          BY <3>1, <3>3, <2>1, <2>3 DEF AckSlots, SlotFrom, Waiting, Between
        <4> QED BY <3>1, <3>3, <4>1 DEF AckSlots
      <3> QED BY <3>1, <3>2, <3>3 DEF AckSlots
    <2> HIDE DEF i, last, first
    <2>6. hits # {}
      BY <1>2
    <2> QED BY <1>3, <2>1, <2>3, <2>4, <2>5, <2>6
  <1> QED BY <1>4, <1>5

LEMMA AckStart == ASSUME WindowsInit PROVE AckInv
  <1>1. aw = AckWindowEmpty /\ awNo = MaxAckNo - 1 /\ awCount = 0 /\ awHist = <<>>
    BY DEF WindowsInit
  <1>2. 0 \in AckSlots /\ MaxAckNo - 1 \in 0..MaxAckNo
    BY AckSizes DEF AckSlots
  <1>3. aw \in AckWindows /\ Waiting = 0
    BY <1>1, <1>2 DEF AckWindowEmpty, AckWindows, Waiting, Between
  <1> QED BY <1>1, <1>2, <1>3 DEF AckInv

LEMMA StoreKeeps == ASSUME AckInv, WindowStore PROVE AckInv'
  <1>0. PICK n \in 0..AckSize - 1 : n = Waiting
    BY WaitingSlots
  <1> DEFINE e == <<awNo', awCount'>>
             longer == Append(awHist, e)
  <1>1. /\ aw.head \in AckSlots /\ aw.tail \in AckSlots /\ AckSize \in Nat /\ AckSize >= 2
        /\ aw.ackNo \in [AckSlots -> Int] /\ aw.data \in [AckSlots -> Int]
        /\ awNo \in 0..MaxAckNo /\ awCount \in Nat /\ MaxAckNo \in Nat /\ awHist \in Seq(Acks)
        /\ Len(awHist) = n
    BY <1>0, AckSizes, WaitingSlots DEF AckInv, AckWindows
  <1>2. /\ awNo' = (IF awNo = MaxAckNo THEN 0 ELSE awNo + 1) /\ awCount' = awCount + 1
        /\ awNo' \in 0..MaxAckNo /\ awCount' \in Nat
    BY <1>1 DEF WindowStore, IncAck
  <1>3. longer \in Seq(Acks) /\ Len(longer) = n + 1 /\ longer[n + 1] = e
        /\ \A k \in 1..n : longer[k] = awHist[k]
    <2>1. e \in Acks /\ n \in Nat
      BY <1>1, <1>2 DEF Acks
    <2> HIDE DEF e
    <2> QED BY <1>1, <2>1
  <1>4. awHist' = IF n + 1 = AckSize THEN Tail(longer) ELSE longer
    BY <1>3 DEF WindowStore
  <1> DEFINE next == SlotFrom(aw.head, 2)
  <1>5. (aw.head + 1) % AckSize = next /\ next \in AckSlots
    BY <1>1, NextSlot
  <1>12. SlotFrom(aw.tail, n + 1) = aw.head
    BY <1>0, WaitingSlots
  <1>6. /\ next = aw.tail <=> n + 1 = AckSize
        /\ n + 1 # AckSize => Between(next, aw.tail) = n + 1
    <2>1. n + 1 \in 1..AckSize /\ 2 \in 1..AckSize
      BY <1>1
    <2>2. CASE n + 1 = AckSize
      <3>1. next = aw.tail
        BY <1>1, <1>12, <2>1, <2>2, SlotsRound
      <3> QED BY <2>2, <3>1
    <2>3. CASE n + 1 # AckSize
      <3>1. n + 2 \in 1..AckSize /\ (n + 1) + 2 = (n + 2) + 1 /\ n + 2 - 1 = n + 1
        BY <1>1, <2>3
      <3>2. next = SlotFrom(aw.tail, n + 2)
        BY <1>1, <1>12, <2>1, <3>1, SlotsAdd
      <3>3. Between(next, aw.tail) = n + 1
        <4>1. PICK q \in 1..AckSize : q = n + 2 /\ q - 1 = n + 1
          BY <3>1
        <4>2. Between(SlotFrom(aw.tail, q), aw.tail) = q - 1
          BY <1>1, SlotsApart
        <4> QED BY <3>2, <4>1, <4>2
      <3>4. Between(aw.tail, aw.tail) = 0
        BY <1>1 DEF Between, AckSlots
      <3> HIDE DEF next
      <3> QED BY <2>3, <3>3, <3>4
    <2> QED BY <2>2, <2>3
  <1>8. aw \in AckWindows
    BY DEF AckInv
  <1>9. (aw.tail + 1) % AckSize = SlotFrom(aw.tail, 2) /\ SlotFrom(aw.tail, 2) \in AckSlots
    BY <1>1, NextSlot
  <1>7. aw' = [aw EXCEPT !.ackNo[aw.head] = awNo', !.data[aw.head] = awCount', !.head = next,
                         !.tail = IF next = aw.tail THEN SlotFrom(aw.tail, 2) ELSE aw.tail]
    <2>1. aw' = StoreAck(aw, awNo', awCount')
      BY DEF WindowStore
    <2> QED BY <1>5, <1>8, <1>9, <2>1 DEF StoreAck, AckWindows
  <1>10. /\ aw' \in AckWindows /\ aw'.head = next
         /\ aw'.tail = IF n + 1 = AckSize THEN SlotFrom(aw.tail, 2) ELSE aw.tail
         /\ aw'.ackNo = [aw.ackNo EXCEPT ![aw.head] = awNo']
         /\ aw'.data = [aw.data EXCEPT ![aw.head] = awCount']
    <2> HIDE DEF next
    <2>1. /\ aw'.head = next
          /\ aw'.tail = IF n + 1 = AckSize THEN SlotFrom(aw.tail, 2) ELSE aw.tail
          /\ aw'.ackNo = [aw.ackNo EXCEPT ![aw.head] = awNo']
          /\ aw'.data = [aw.data EXCEPT ![aw.head] = awCount']
      BY <1>6, <1>7, <1>8 DEF AckWindows
    <2>2. /\ [aw.ackNo EXCEPT ![aw.head] = awNo'] \in [AckSlots -> Int]
          /\ [aw.data EXCEPT ![aw.head] = awCount'] \in [AckSlots -> Int]
      BY <1>1, <1>2
    <2>3. aw' \in AckWindows
      BY <1>1, <1>5, <1>7, <1>8, <1>9, <2>2 DEF AckWindows
    <2> QED BY <2>1, <2>3
  <1>11. \A k \in 1..n : /\ SlotFrom(aw.tail, k) \in AckSlots /\ SlotFrom(aw.tail, k) # aw.head
                         /\ aw.ackNo[SlotFrom(aw.tail, k)] = longer[k][1]
                         /\ aw.data[SlotFrom(aw.tail, k)] = longer[k][2]
                         /\ longer[k][1] = AckBefore(n - k)
    BY <1>0, <1>1, <1>3, WaitingSlots DEF AckInv
  <1>13. \A k \in 1..n + 1 : /\ aw'.ackNo[SlotFrom(aw.tail, k)] = longer[k][1]
                             /\ aw'.data[SlotFrom(aw.tail, k)] = longer[k][2]
    <2> SUFFICES ASSUME NEW k \in 1..n + 1
                 PROVE  /\ aw'.ackNo[SlotFrom(aw.tail, k)] = longer[k][1]
                        /\ aw'.data[SlotFrom(aw.tail, k)] = longer[k][2]
      OBVIOUS
    <2> HIDE DEF longer, next
    <2>1. CASE k = n + 1
      BY <1>1, <1>3, <1>10, <1>12, <2>1
    <2>2. CASE k # n + 1
      BY <1>1, <1>10, <1>11, <2>2
    <2> QED BY <2>1, <2>2
  <1>14. \A k \in 1..n + 1 : longer[k][1] = (AckBefore(n + 1 - k))'
    <2> SUFFICES ASSUME NEW k \in 1..n + 1 PROVE longer[k][1] = (AckBefore(n + 1 - k))'
      OBVIOUS
    <2> HIDE DEF longer
    <2>1. CASE k = n + 1
      BY <1>1, <1>2, <1>3, <2>1 DEF AckBefore
    <2>2. CASE k # n + 1
      <3>1. k \in 1..n /\ longer[k][1] = AckBefore(n - k)
        BY <1>1, <1>11, <2>2
      <3>2. PICK j \in Nat : j = n - k /\ j + 1 = n + 1 - k /\ j < MaxAckNo
        <4>1. n - k \in Nat /\ (n - k) + 1 = n + 1 - k /\ n - k < MaxAckNo
          BY <1>1, <3>1, AckSizes
        <4> QED BY <4>1
      <3>3. CASE awNo = MaxAckNo
        BY <1>1, <1>2, <3>1, <3>2, <3>3 DEF AckBefore
      <3>4. CASE awNo # MaxAckNo
        BY <1>1, <1>2, <3>1, <3>2, <3>4 DEF AckBefore
      <3> QED BY <3>3, <3>4
    <2> QED BY <2>1, <2>2
  <1>15. CASE n + 1 # AckSize
    <2>1. awHist' = longer /\ aw'.tail = aw.tail /\ aw'.head = next /\ next # aw.tail
      BY <1>4, <1>6, <1>10, <1>15
    <2>2. Waiting' = n + 1
      BY <1>6, <1>15, <2>1 DEF Waiting
    <2> HIDE DEF longer, next
    <2>3. Len(awHist') = n + 1
      BY <1>3, <2>1
    <2> QED BY SMTT(30), <1>2, <1>3, <1>10, <1>13, <1>14, <2>1, <2>2, <2>3 DEF AckInv
  <1>16. CASE n + 1 = AckSize
    <2>1. awHist' = Tail(longer) /\ aw'.tail = SlotFrom(aw.tail, 2) /\ aw'.head = next /\ next = aw.tail
      BY <1>4, <1>6, <1>10, <1>16
    <2>2. Waiting' = n
      <3>1. aw.tail = SlotFrom(SlotFrom(aw.tail, 2), AckSize) /\ SlotFrom(aw.tail, 2) \in AckSlots
        <4>1. 2 \in 1..AckSize /\ AckSize \in 1..AckSize /\ 2 + AckSize = AckSize + 2
          BY <1>1
        <4> QED BY <1>1, <4>1, SlotsRound, SlotsApart
      <3>2. AckSize \in 1..AckSize /\ n = AckSize - 1
        BY <1>1, <1>16
      <3>3. Between(aw.tail, SlotFrom(aw.tail, 2)) = n
        BY <3>1, <3>2, SlotsApart
      <3> HIDE DEF next
      <3> QED BY <2>1, <3>3 DEF Waiting
    <2>3. awHist' \in Seq(Acks) /\ Len(awHist') = n /\ \A k \in 1..n : awHist'[k] = longer[k + 1]
      <3> HIDE DEF longer
      <3>1. longer # <<>>
        BY <1>3
      <3> QED BY <1>1, <1>3, <2>1, <3>1, HeadTailProperties
    <2>4. \A k \in 1..n : SlotFrom(SlotFrom(aw.tail, 2), k) = SlotFrom(aw.tail, k + 1)
      <3> TAKE k \in 1..n
      <3>1. k \in 1..AckSize /\ 2 \in 1..AckSize /\ k + 1 \in 1..AckSize /\ 2 + k = (k + 1) + 1
        BY <1>1, <1>16
      <3> QED BY <1>1, <3>1, SlotsAdd
    <2> HIDE DEF longer, next
    <2>5. \A k \in 1..n : /\ aw'.ackNo[SlotFrom(aw'.tail, k)] = awHist'[k][1]
                          /\ aw'.data[SlotFrom(aw'.tail, k)] = awHist'[k][2]
                          /\ awHist'[k][1] = (AckBefore(n - k))'
      <3> SUFFICES ASSUME NEW k \in 1..n
                   PROVE  /\ aw'.ackNo[SlotFrom(aw'.tail, k)] = awHist'[k][1]
                          /\ aw'.data[SlotFrom(aw'.tail, k)] = awHist'[k][2]
                          /\ awHist'[k][1] = (AckBefore(n - k))'
        OBVIOUS
      <3>1. k + 1 \in 1..n + 1 /\ n + 1 - (k + 1) = n - k
        BY <1>1
      <3> QED BY SMTT(30), <1>13, <1>14, <2>1, <2>3, <2>4, <3>1
    <2> QED BY <1>2, <1>10, <2>2, <2>3, <2>5 DEF AckInv
  <1> QED BY <1>15, <1>16

LEMMA Ack2Keeps == ASSUME AckInv, NEW n \in 0..MaxAckNo, WindowAck2(n) PROVE AckInv'
  <1>0. PICK len \in 0..AckSize - 1 : len = Waiting
    BY WaitingSlots
  <1>1. /\ aw.head \in AckSlots /\ aw.tail \in AckSlots /\ AckSize \in Nat /\ AckSize >= 2
        /\ aw \in AckWindows /\ aw.ackNo \in [AckSlots -> Int] /\ aw.data \in [AckSlots -> Int]
        /\ awNo' = awNo /\ awCount' = awCount
        /\ awNo \in 0..MaxAckNo /\ awCount \in Nat /\ MaxAckNo \in Nat /\ awHist \in Seq(Acks)
        /\ Len(awHist) = len
    BY <1>0, AckSizes, WaitingSlots DEF AckInv, AckWindows, WindowAck2
  <1>2. \A k \in 1..len : /\ aw.ackNo[SlotFrom(aw.tail, k)] = awHist[k][1]
                          /\ aw.data[SlotFrom(aw.tail, k)] = awHist[k][2]
                          /\ awHist[k][1] = AckBefore(len - k)
    BY <1>1 DEF AckInv
  <1>3. aw' = Acknowledge(aw, n).window
    BY DEF WindowAck2
  <1>4. awHist' = SubSeq(awHist, (IF Numbered(n) # {} THEN Min(Numbered(n)) ELSE 0) + 1, len)
    BY <1>1 DEF WindowAck2, SelectInSeq, Numbered
  <1>5. CASE Numbered(n) = {}
    <2>1. aw' = aw
      BY <1>3, <1>5, Acknowledges
    <2>2. awHist' = awHist
      BY <1>1, <1>4, <1>5, SubSeqFull
    <2>3. Waiting' = Waiting /\ \A k \in 1..len : (AckBefore(len - k))' = AckBefore(len - k)
      BY <1>1, <2>1 DEF Waiting, Between, AckBefore
    <2> QED BY <1>0, <1>1, <1>2, <2>1, <2>2, <2>3 DEF AckInv
  <1>6. ASSUME NEW k \in Numbered(n) PROVE AckInv'
    <2>1. k \in 1..len /\ Min(Numbered(n)) = k
      <3>1. Numbered(n) = {k}
        BY Acknowledges
      <3>2. k \in 1..len
        BY <1>1 DEF Numbered
      <3>3. Min({k}) = k
        BY <3>2 DEF Min
      <3> QED BY <3>1, <3>2, <3>3
    <2>2. awHist' = SubSeq(awHist, k + 1, len)
      BY <1>4, <1>6, <2>1
    <2>3. /\ awHist' \in Seq(Acks) /\ Len(awHist') = len - k
          /\ \A j \in 1..len - k : awHist'[j] = awHist[j + k]
      <3>1. \A j \in k + 1..len : awHist[j] \in Acks
        BY <1>1, <2>1
      <3>2. k + 1 \in Int /\ len \in Int /\ len - (k + 1) + 1 = len - k
        BY <2>1
      <3>3. /\ SubSeq(awHist, k + 1, len) \in Seq(Acks)
            /\ Len(SubSeq(awHist, k + 1, len)) = IF k + 1 <= len THEN len - (k + 1) + 1 ELSE 0
            /\ \A j \in 1..len - (k + 1) + 1 :
                  SubSeq(awHist, k + 1, len)[j] = awHist[(k + 1) + j - 1]
        BY <3>1, <3>2, SubSeqProperties
      <3>4. \A j \in 1..len - k : (k + 1) + j - 1 = j + k
        BY <2>1
      <3> QED BY <2>1, <2>2, <3>2, <3>3, <3>4
    <2>4. aw' = IF aw.head >= aw.tail /\ k = len
                THEN [aw EXCEPT !.head = 0, !.tail = 0, !.ackNo[0] = -1]
                ELSE [aw EXCEPT !.tail = SlotFrom(SlotFrom(aw.tail, k), 2)]
      BY <1>0, <1>3, Acknowledges
    <2>5. /\ k \in 1..AckSize /\ k + 1 \in 1..AckSize /\ 2 \in 1..AckSize
          /\ SlotFrom(SlotFrom(aw.tail, k), 2) = SlotFrom(aw.tail, k + 1)
          /\ SlotFrom(aw.tail, k + 1) \in AckSlots /\ 0 \in AckSlots
      <3>1. k \in 1..AckSize /\ k + 1 \in 1..AckSize /\ 2 \in 1..AckSize /\ 0 \in AckSlots
            /\ k + 2 = (k + 1) + 1
        <4>1. len \in Nat /\ len < AckSize /\ k \in Nat /\ 1 <= k /\ k <= len
          BY <1>1, <2>1
        <4> QED BY <1>1, <4>1 DEF AckSlots
      <3>2. SlotFrom(SlotFrom(aw.tail, k), 2) = SlotFrom(aw.tail, k + 1)
        BY <1>1, <3>1, SlotsAdd
      <3>3. SlotFrom(aw.tail, k + 1) \in AckSlots
        BY <1>1, <3>1, SlotsApart
      <3> QED BY <3>1, <3>2, <3>3
    <2>6. aw' \in AckWindows
      <3>1. [aw.ackNo EXCEPT ![0] = -1] \in [AckSlots -> Int]
        <4>1. -1 \in Int
          OBVIOUS
        <4> QED BY <1>1, <4>1
      <3> QED BY <1>1, <2>4, <2>5, <3>1 DEF AckWindows
    <2>7. CASE aw.head >= aw.tail /\ k = len
      <3>1. aw'.head = 0 /\ aw'.tail = 0
        BY <1>1, <2>4, <2>7 DEF AckWindows
      <3>2. Waiting' = 0
        BY <3>1 DEF Waiting, Between
      <3> QED BY <1>1, <2>1, <2>3, <2>6, <2>7, <3>2 DEF AckInv
    <2>8. CASE ~(aw.head >= aw.tail /\ k = len)
      <3>1. /\ aw'.head = aw.head /\ aw'.tail = SlotFrom(aw.tail, k + 1)
            /\ aw'.ackNo = aw.ackNo /\ aw'.data = aw.data
        BY <1>1, <2>4, <2>5, <2>8 DEF AckWindows
      <3>2. Waiting' = len - k
        <4>1. /\ len - k + 1 \in 1..AckSize /\ len + 1 \in 1..AckSize
              /\ (k + 1) + (len - k + 1) = (len + 1) + 1 /\ (len - k + 1) - 1 = len - k
          BY <1>1, <2>1
        <4>2. SlotFrom(SlotFrom(aw.tail, k + 1), len - k + 1) = SlotFrom(aw.tail, len + 1)
          <5>1. PICK q \in 1..AckSize, j \in 1..AckSize, m \in 1..AckSize :
                   q = k + 1 /\ j = len - k + 1 /\ m = len + 1 /\ q + j = m + 1
            BY <2>5, <4>1
          <5>2. \A t \in AckSlots : SlotFrom(SlotFrom(t, q), j) = SlotFrom(t, m)
            BY <5>1, SlotsAdd
          <5> QED BY <1>1, <5>1, <5>2
        <4>3. aw.head = SlotFrom(SlotFrom(aw.tail, k + 1), len - k + 1)
          BY <1>0, <4>2, WaitingSlots
        <4>4. Between(aw.head, SlotFrom(aw.tail, k + 1)) = len - k
          BY <2>5, <4>1, <4>3, SlotsApart
        <4> QED BY <3>1, <4>4 DEF Waiting
      <3>3. \A j \in 1..len - k :
               /\ SlotFrom(SlotFrom(aw.tail, k + 1), j) = SlotFrom(aw.tail, j + k)
               /\ j + k \in 1..len /\ (len - k) - j = len - (j + k)
        <4> TAKE j \in 1..len - k
        <4>1. /\ j \in 1..AckSize /\ j + k \in 1..AckSize /\ (k + 1) + j = (j + k) + 1
              /\ j + k \in 1..len /\ (len - k) - j = len - (j + k)
          BY <1>1, <2>1
        <4>2. SlotFrom(SlotFrom(aw.tail, k + 1), j) = SlotFrom(aw.tail, j + k)
          <5>1. PICK q \in 1..AckSize, m \in 1..AckSize : q = k + 1 /\ m = j + k /\ q + j = m + 1
            BY <2>5, <4>1
          <5>2. aw.tail \in AckSlots /\ j \in 1..AckSize
            BY <1>1, <4>1
          <5>3. SlotFrom(SlotFrom(aw.tail, q), j) = SlotFrom(aw.tail, m)
            <6>1. \A t \in AckSlots : SlotFrom(SlotFrom(t, q), j) = SlotFrom(t, m)
              BY <5>1, <5>2, SlotsAdd
            <6> QED BY <5>2, <6>1
          <5> QED BY <5>1, <5>3
        <4> QED BY <4>1, <4>2
      <3>4. \A j \in 1..len - k : (AckBefore((len - k) - j))' = AckBefore(len - (j + k))
        BY <1>1, <3>3 DEF AckBefore
      <3>5. \A j \in 1..len - k : /\ aw'.ackNo[SlotFrom(aw'.tail, j)] = awHist'[j][1]
                                  /\ aw'.data[SlotFrom(aw'.tail, j)] = awHist'[j][2]
                                  /\ awHist'[j][1] = (AckBefore((len - k) - j))'
        <4> TAKE j \in 1..len - k
        <4>1. j + k \in 1..len /\ awHist'[j] = awHist[j + k]
          BY <2>3, <3>3
        <4>2. SlotFrom(aw'.tail, j) = SlotFrom(aw.tail, j + k)
          BY <3>1, <3>3
        <4> QED BY <1>2, <3>1, <3>4, <4>1, <4>2
      <3> QED BY <1>1, <2>1, <2>3, <2>6, <3>2, <3>5 DEF AckInv
    <2> QED BY <2>7, <2>8
  <1> QED BY <1>5, <1>6

\* An ACK2 gets what its own ACK carried.
LEMMA AcksAnswered == ASSUME AckInv PROVE AckWindowExact
  <1> DEFINE slots == SlotsFromTail(aw)
             held == [k \in DOMAIN slots |-> <<aw.ackNo[slots[k]], aw.data[slots[k]]>>]
             answer(n) == LET i == Acknowledge(aw, n).slot IN IF i = -1 THEN {} ELSE {aw.data[i]}
  <1>1. slots = [k \in 1..Len(awHist) |-> SlotFrom(aw.tail, k)] /\ awHist \in Seq(Acks)
    BY WaitingSlots DEF AckInv
  <1>2. held = awHist
    <2>1. \A k \in 1..Len(awHist) : awHist[k] \in Acks
      BY <1>1
    <2>2. \A k \in 1..Len(awHist) :
             awHist[k] = <<aw.ackNo[SlotFrom(aw.tail, k)], aw.data[SlotFrom(aw.tail, k)]>>
      BY <2>1 DEF AckInv, Acks
    <2>3. awHist = [k \in 1..Len(awHist) |-> awHist[k]]
      BY <1>1
    <2>4. held = [k \in 1..Len(awHist) |-> awHist[k]]
      BY <1>1, <2>2
    <2> QED BY <2>3, <2>4
  <1>3. ASSUME NEW n \in 0..MaxAckNo
        PROVE  answer(n) = {awHist[k][2] : k \in {j \in DOMAIN awHist : awHist[j][1] = n}}
    <2>1. {j \in DOMAIN awHist : awHist[j][1] = n} = Numbered(n)
      BY <1>1 DEF Numbered
    <2>2. CASE Numbered(n) = {}
      <3>1. Acknowledge(aw, n).slot = -1
        BY <2>2, Acknowledges
      <3>2. answer(n) = {}
        BY <3>1
      <3> HIDE DEF answer
      <3> QED BY <2>1, <2>2, <3>2
    <2>3. ASSUME NEW k \in Numbered(n)
          PROVE  answer(n) = {awHist[j][2] : j \in Numbered(n)}
      <3>1. Numbered(n) = {k} /\ Acknowledge(aw, n).slot = SlotFrom(aw.tail, k)
        BY Acknowledges
      <3>2. k \in 1..Waiting /\ aw.data[SlotFrom(aw.tail, k)] = awHist[k][2]
        BY DEF AckInv, Numbered
      <3>3. SlotFrom(aw.tail, k) # -1
        BY <3>2, WaitingSlots DEF AckSlots
      <3>4. answer(n) = {awHist[k][2]}
        BY <3>1, <3>2, <3>3
      <3> HIDE DEF answer
      <3> QED BY <3>1, <3>4
    <2> HIDE DEF answer
    <2> QED BY <2>1, <2>2, <2>3
  <1> QED BY <1>2, <1>3 DEF AckWindowExact

-----------------------------------------------------------------------------
(* The cache.                                                              *)

CacheItem == [id : Nat, addr : Addrs, value : Nat]

\* The items are those of the last updates of their addresses, and each is listed in the
\* bucket of its address.
SoundCache(store, bucket, latest, updates) ==
    /\ store \subseteq CacheItem /\ bucket \in [0..HashSize - 1 -> SUBSET Nat]
    /\ latest \in [Addrs -> Nat]
    /\ \A a \in Addrs : latest[a] <= updates
    /\ \A x \in store : /\ KeyOf[x.addr] >= 0 /\ x.id # 0
                        /\ x.value = x.id /\ latest[x.addr] = x.id
    /\ \A x, y \in store : x.id = y.id => x = y
    /\ \A k \in 0..HashSize - 1 : bucket[k] = {x.id : x \in {y \in store : Bucket(y.addr) = k}}
    /\ \A x \in store, b \in Addrs : (\A y \in store : y.addr # b) => latest[b] < x.id

CacheSound == SoundCache(cStore, cBucket, cLatest, cUpdates)

CacheInv == cUpdates \in Nat /\ (cCrossed \in BOOLEAN) /\ (~cCrossed => CacheSound)

LEMMA BucketInTable ==
    ASSUME NEW a \in Addrs, KeyOf[a] >= 0
    PROVE  Bucket(a) \in 0..HashSize - 1 /\ Bucket(a) = KeyOf[a] % HashSize
  <1>1. CacheMax \in Nat \ {0} /\ HashSize \in Nat \ {0} /\ CacheMax <= HashSize /\ KeyOf[a] \in Nat
    BY CacheAssumption
  <1>2. KeyOf[a] % HashSize \in 0..HashSize - 1
    BY <1>1, ModRound
  <1>3. KeyOf[a] < CacheMax => KeyOf[a] % HashSize = KeyOf[a]
    <2>1. PICK key \in Nat : key = KeyOf[a]
      BY <1>1
    <2>2. key < HashSize => key % HashSize = key
      BY <1>1, ModRound
    <2> QED BY <1>1, <2>1, <2>2
  <1> QED BY <1>1, <1>2, <1>3 DEF Bucket

\* An address has one item, its latest update.
LEMMA OneItem ==
    ASSUME CacheSound PROVE \A x, y \in cStore : x.addr = y.addr => x = y
  BY DEF CacheSound, SoundCache

\* A bucket leads to the item of an address, if there is one.
LEMMA FoundInBucket ==
    ASSUME CacheSound, NEW a \in Addrs, KeyOf[a] >= 0
    PROVE  /\ Matching(cStore, cBucket[Bucket(a)], a) = {x \in cStore : x.addr = a}
           /\ \A x \in cStore : x.addr = a => Newest({y \in cStore : y.addr = a}) = x
  <1>1. \A x \in cStore : x.addr = a => x.id \in cBucket[Bucket(a)]
    BY BucketInTable DEF CacheSound, SoundCache
  <1>2. ASSUME NEW x \in cStore, x.addr = a PROVE Newest({y \in cStore : y.addr = a}) = x
    <2>1. {y \in cStore : y.addr = a} = {x}
      BY <1>2, OneItem
    <2>2. x.id \in Nat
      BY DEF CacheSound, SoundCache, CacheItem
    <2>3. Newest({x}) = x
      BY <2>2 DEF Newest
    <2> QED BY <2>1, <2>3
  <1> QED BY <1>1, <1>2 DEF Matching, Referred

\* What the checked property says follows.
LEMMA CacheHolds == ASSUME CacheInv PROVE CacheExact
  <1> SUFFICES ASSUME ~cCrossed, CacheSound PROVE CacheExact
    BY DEF CacheInv, CacheExact
  <1>1. ASSUME NEW a \in Addrs
        PROVE  LET stored == {x \in cStore : x.addr = a} IN
               /\ \A x, y \in stored : x = y
               /\ CacheLookup(a) = IF stored = {} THEN 0 ELSE cLatest[a]
    <2> DEFINE stored == {x \in cStore : x.addr = a}
    <2>1. \A x, y \in stored : x = y
      BY OneItem
    <2>2. CASE KeyOf[a] < 0
      <3>1. stored = {}
        <4>1. \A x \in cStore : KeyOf[x.addr] >= 0
          BY DEF CacheSound, SoundCache
        <4>2. KeyOf[a] \in Int
          BY CacheAssumption
        <4> QED BY <2>2, <4>1, <4>2
      <3> QED BY <2>1, <2>2, <3>1 DEF CacheLookup
    <2>3. CASE KeyOf[a] >= 0
      <3>1. Matching(cStore, cBucket[Bucket(a)], a) = stored
        BY <2>3, FoundInBucket
      <3>2. \A x \in stored : Newest(stored) = x
        BY <2>3, FoundInBucket
      <3>3. \A x \in stored : x.value = cLatest[a]
        BY DEF CacheSound, SoundCache
      <3>4. ~(KeyOf[a] < 0)
        BY <2>3, CacheAssumption
      <3> HIDE DEF stored
      <3>5. CacheLookup(a) = IF stored = {} THEN 0 ELSE Newest(stored).value
        BY <3>1, <3>4 DEF CacheLookup
      <3> QED BY <2>1, <3>2, <3>3, <3>5 DEF stored
    <2> QED BY <2>2, <2>3, CacheAssumption
  <1>2. \A k \in DOMAIN cBucket : ~Dangles(cStore, cBucket[k])
    BY DEF CacheSound, SoundCache, Dangles
  <1>3. LET stored == {x.addr : x \in cStore} IN
        \A a \in stored, b \in Addrs \ stored : cLatest[a] > cLatest[b]
    BY DEF CacheSound, SoundCache, CacheItem
  <1> QED BY <1>1, <1>2, <1>3, Zenon DEF CacheExact

LEMMA CacheStart == ASSUME CacheInit PROVE CacheInv
  <1>1. \A k \in 0..HashSize - 1 : cBucket[k] = {x.id : x \in {y \in cStore : Bucket(y.addr) = k}}
    BY DEF CacheInit
  <1>2. /\ [k \in 0..HashSize - 1 |-> {}] \in [0..HashSize - 1 -> SUBSET Nat]
        /\ [a \in Addrs |-> 0] \in [Addrs -> Nat] /\ \A a \in Addrs : [b \in Addrs |-> 0][a] <= 0
    OBVIOUS
  <1>3. cStore = {} /\ cUpdates = 0 /\ cCrossed = FALSE /\ cBucket = [k \in 0..HashSize - 1 |-> {}]
        /\ cLatest = [a \in Addrs |-> 0]
    BY DEF CacheInit
  <1>4. CacheSound
    BY <1>1, <1>2, <1>3 DEF CacheSound, SoundCache
  <1> QED BY <1>3, <1>4 DEF CacheInv

\* An item of address a becomes the newest, in place of the one there was.
BecomesNewest(a, item, store, bucket, latest) ==
    /\ item = [id |-> cUpdates + 1, addr |-> a, value |-> cUpdates + 1]
    /\ latest = [cLatest EXCEPT ![a] = cUpdates + 1]
    /\ store = {x \in cStore : x.addr # a} \cup {item}
    /\ bucket \in [0..HashSize - 1 -> SUBSET Nat]
    /\ \A k \in 0..HashSize - 1 :
          bucket[k] = IF k = Bucket(a)
                      THEN {id \in cBucket[k] : \A x \in cStore : x.addr = a => x.id # id}
                           \cup {item.id}
                      ELSE cBucket[k]

LEMMA ItemAdded ==
    ASSUME CacheSound, cUpdates \in Nat, NEW a \in Addrs, KeyOf[a] >= 0,
           NEW store, NEW item, NEW latest, NEW bucket,
           BecomesNewest(a, item, store, bucket, latest)
    PROVE  SoundCache(store, bucket, latest, cUpdates + 1)
  <1> USE DEF BecomesNewest
  <1>1. item \in CacheItem /\ item.id = cUpdates + 1 /\ item.addr = a /\ item.value = item.id
    BY DEF CacheItem
  <1>2. \A x \in cStore : x.id \in Nat /\ x.id <= cUpdates /\ x.addr \in Addrs
    BY DEF CacheSound, SoundCache, CacheItem
  <1>3. store \subseteq CacheItem /\ latest \in [Addrs -> Nat]
    BY <1>1 DEF CacheSound, SoundCache
  <1>4. \A b \in Addrs : latest[b] <= cUpdates + 1 /\ (b # a => latest[b] = cLatest[b]) /\ latest[a] = cUpdates + 1
    BY DEF CacheSound, SoundCache
  <1>5. \A x \in store : /\ KeyOf[x.addr] >= 0 /\ x.id # 0
                         /\ x.value = x.id /\ latest[x.addr] = x.id
    BY <1>1, <1>2, <1>4 DEF CacheSound, SoundCache
  <1>7. \A x, y \in store : x.id = y.id => x = y
    BY <1>1, <1>2 DEF CacheSound, SoundCache
  <1>8. ASSUME NEW k \in 0..HashSize - 1
        PROVE  bucket[k] = {x.id : x \in {y \in store : Bucket(y.addr) = k}}
    <2>1. cBucket[k] = {x.id : x \in {y \in cStore : Bucket(y.addr) = k}}
      BY DEF CacheSound, SoundCache
    <2>2. CASE k = Bucket(a)
      <3>1. {id \in cBucket[k] : \A x \in cStore : x.addr = a => x.id # id}
              = {x.id : x \in {y \in cStore : Bucket(y.addr) = k /\ y.addr # a}}
        BY <2>1 DEF CacheSound, SoundCache
      <3> QED BY <1>1, <2>2, <3>1
    <2>3. CASE k # Bucket(a)
      <3>1. {y \in store : Bucket(y.addr) = k} = {y \in cStore : Bucket(y.addr) = k}
        BY <1>1, <2>3
      <3> QED BY <2>1, <2>3, <3>1
    <2> QED BY <2>2, <2>3
  <1>9. ASSUME NEW x \in store, NEW b \in Addrs, \A y \in store : y.addr # b PROVE latest[b] < x.id
    <2>1. b # a /\ latest[b] = cLatest[b] /\ cLatest[b] \in Nat /\ cLatest[b] <= cUpdates
      BY <1>1, <1>4, <1>9 DEF CacheSound, SoundCache
    <2>2. CASE x = item
      BY <1>1, <2>1, <2>2
    <2>3. CASE x \in cStore
      <3>1. \A y \in cStore : y.addr # b
        BY <1>9, <2>1
      <3> QED BY <2>1, <2>3, <3>1 DEF CacheSound, SoundCache
    <2> QED BY <2>2, <2>3
  <1> QED BY <1>3, <1>4, <1>5, <1>7, <1>8, <1>9 DEF SoundCache

LEMMA ReplaceKeeps ==
    ASSUME CacheSound, NEW a \in Addrs, NEW item, KeyOf[a] >= 0, cUpdates \in Nat,
           item = [id |-> cUpdates + 1, addr |-> a, value |-> cUpdates + 1],
           cUpdates' = cUpdates + 1, cLatest' = [cLatest EXCEPT ![a] = item.value],
           Matching(cStore, cBucket[Bucket(a)], a) # {}, CacheReplace(a, item)
    PROVE  CacheSound'
  <1>1. PICK old \in cStore : old.addr = a
    BY FoundInBucket
  <1>2. Newest(Matching(cStore, cBucket[Bucket(a)], a)) = old
    BY <1>1, FoundInBucket
  <1>3. {x \in cStore : x.addr = a} = {old}
    BY <1>1, OneItem
  <1>4. cStore' = {x \in cStore : x.addr # a} \cup {item}
    BY <1>2, <1>3 DEF CacheReplace
  <1>5. item.id = cUpdates + 1 /\ item.value = cUpdates + 1 /\ item.id \in Nat
    OBVIOUS
  <1>6. cBucket' = [cBucket EXCEPT ![Bucket(a)] = (@ \ {old.id}) \cup {item.id}]
    BY <1>2 DEF CacheReplace
  <1>7. cBucket' \in [0..HashSize - 1 -> SUBSET Nat]
    BY <1>5, <1>6, BucketInTable DEF CacheSound, SoundCache
  <1>8. \A k \in 0..HashSize - 1 :
           cBucket'[k] = IF k = Bucket(a)
                         THEN {id \in cBucket[k] : \A x \in cStore : x.addr = a => x.id # id}
                              \cup {item.id}
                         ELSE cBucket[k]
    <2> TAKE k \in 0..HashSize - 1
    <2>1. {id \in cBucket[k] : \A x \in cStore : x.addr = a => x.id # id} = cBucket[k] \ {old.id}
      BY <1>1, <1>3
    <2>2. cBucket \in [0..HashSize - 1 -> SUBSET Nat] /\ Bucket(a) \in 0..HashSize - 1
      BY BucketInTable DEF CacheSound, SoundCache
    <2>3. CASE k = Bucket(a)
      BY <1>6, <2>1, <2>2, <2>3
    <2>4. CASE k # Bucket(a)
      BY <1>6, <2>2, <2>4
    <2> QED BY <2>3, <2>4
  <1>9. cLatest' = [cLatest EXCEPT ![a] = cUpdates + 1]
    BY <1>5
  <1>10. SoundCache(cStore', cBucket', cLatest', cUpdates + 1)
    <2>1. BecomesNewest(a, item, cStore', cBucket', cLatest')
      BY <1>4, <1>7, <1>8, <1>9 DEF BecomesNewest
    <2> QED BY <2>1, ItemAdded
  <1> QED BY <1>10 DEF CacheSound, SoundCache, Bucket

LEMMA InsertKeeps ==
    ASSUME CacheSound, NEW a \in Addrs, NEW item, KeyOf[a] >= 0, cUpdates \in Nat,
           item = [id |-> cUpdates + 1, addr |-> a, value |-> cUpdates + 1],
           cUpdates' = cUpdates + 1, cLatest' = [cLatest EXCEPT ![a] = item.value],
           Matching(cStore, cBucket[Bucket(a)], a) = {}, CacheInsert(a, item), ~cCrossed'
    PROVE  CacheSound'
  <1> DEFINE store == cStore \cup {item}
             bucket == [cBucket EXCEPT ![Bucket(a)] = @ \cup {item.id}]
  <1>1. \A x \in cStore : x.addr # a
    BY FoundInBucket
  <1>2. item.id = cUpdates + 1 /\ item.value = cUpdates + 1 /\ item.id \in Nat
    OBVIOUS
  <1>3. store = {x \in cStore : x.addr # a} \cup {item}
    BY <1>1
  <1>4. bucket \in [0..HashSize - 1 -> SUBSET Nat] /\ Bucket(a) \in 0..HashSize - 1
    BY <1>2, BucketInTable DEF CacheSound, SoundCache
  <1>5. \A k \in 0..HashSize - 1 :
           bucket[k] = IF k = Bucket(a)
                       THEN {id \in cBucket[k] : \A x \in cStore : x.addr = a => x.id # id}
                            \cup {item.id}
                       ELSE cBucket[k]
    <2> TAKE k \in 0..HashSize - 1
    <2>1. {id \in cBucket[k] : \A x \in cStore : x.addr = a => x.id # id} = cBucket[k]
      BY <1>1
    <2>2. cBucket \in [0..HashSize - 1 -> SUBSET Nat]
      BY DEF CacheSound, SoundCache
    <2> QED BY <1>4, <2>1, <2>2
  <1>6. cLatest' = [cLatest EXCEPT ![a] = cUpdates + 1]
    BY <1>2
  <1> HIDE DEF store, bucket
  <1>7. SoundCache(store, bucket, cLatest', cUpdates + 1)
    <2>1. BecomesNewest(a, item, store, bucket, cLatest')
      BY <1>3, <1>4, <1>5, <1>6 DEF BecomesNewest
    <2> QED BY <2>1, ItemAdded
  <1>10. /\ store \subseteq CacheItem /\ cLatest' \in [Addrs -> Nat]
         /\ \A x \in store : KeyOf[x.addr] >= 0 /\ cLatest'[x.addr] = x.id
         /\ \A x, y \in store : x.id = y.id => x = y
         /\ \A k \in 0..HashSize - 1 :
               bucket[k] = {x.id : x \in {y \in store : Bucket(y.addr) = k}}
         /\ \A x \in store, b \in Addrs : (\A y \in store : y.addr # b) => cLatest'[b] < x.id
    BY <1>7 DEF SoundCache
  <1>8. CASE ~(Cardinality(store) >= CacheMax)
    <2>1. cStore' = store /\ cBucket' = bucket
      BY <1>8, Zenon DEF CacheInsert, store, bucket
    <2> QED BY <1>7, <2>1 DEF CacheSound, SoundCache, Bucket
  <1>9. CASE Cardinality(store) >= CacheMax
    <2> DEFINE last == Oldest(store)
               source == bucket[KeyOf[last.addr] % HashSize]
               found == Matching(store, source, last.addr)
               copy == IF found = {} THEN source ELSE source \ {Newest(found).id}
    <2>1. cStore' = store \ {last} /\ cBucket' = [bucket EXCEPT ![Bucket(a)] = copy]
          /\ Bucket(last.addr) = Bucket(a)
      BY <1>9 DEF CacheInsert, store, bucket
    <2>2. last \in store /\ \A y \in store : last.id <= y.id
      <3>1. \E x \in store : \A y \in store : x.id <= y.id
        <4> DEFINE ids == {x.id : x \in store}
        <4>1. ids \in SUBSET Nat
          BY <1>10 DEF CacheItem
        <4>2. ids # {}
          BY DEF store
        <4>3. \E n \in ids : \A m \in ids : n <= m
          <5> HIDE DEF ids
          <5> QED BY <4>1, <4>2, LeastOne
        <4> QED BY <4>3
      <3> QED BY <3>1 DEF Oldest
    <2> HIDE DEF last
    <2>3. last.addr \in Addrs /\ last.id \in Nat /\ KeyOf[last.addr] >= 0
      BY <1>10, <2>2 DEF CacheItem
    <2>4. source = bucket[Bucket(a)]
      BY <2>1, <2>3, BucketInTable
    <2>5. last.id \in source
      BY <1>4, <1>10, <2>1, <2>2, <2>4
    <2> HIDE DEF source
    <2>6. found = {last}
      BY <1>10, <2>2, <2>5 DEF Matching, Referred
    <2>7. Newest({last}) = last
      BY <2>3 DEF Newest
    <2>8. cBucket' = [bucket EXCEPT ![Bucket(a)] = source \ {last.id}]
      <3> HIDE DEF found
      <3> QED BY <2>1, <2>6, <2>7
    <2>9. cBucket' \in [0..HashSize - 1 -> SUBSET Nat]
      BY <1>4, <2>4, <2>8
    <2>10. ASSUME NEW k \in 0..HashSize - 1
           PROVE  cBucket'[k] = {x.id : x \in {y \in cStore' : Bucket(y.addr) = k}}
      <3>1. bucket[k] = {x.id : x \in {y \in store : Bucket(y.addr) = k}}
        BY <1>10
      <3>2. CASE k = Bucket(a)
        <4>1. cBucket'[k] = bucket[k] \ {last.id}
          BY <1>4, <2>4, <2>8, <3>2
        <4>2. \A x \in store : x # last => x.id # last.id
          BY <1>10, <2>2
        <4> QED BY <2>1, <3>1, <4>1, <4>2
      <3>3. CASE k # Bucket(a)
        <4>1. cBucket'[k] = bucket[k]
          BY <1>4, <2>8, <3>3
        <4>2. {y \in cStore' : Bucket(y.addr) = k} = {y \in store : Bucket(y.addr) = k}
          BY <2>1, <3>3
        <4> QED BY <3>1, <4>1, <4>2
      <3> QED BY <3>2, <3>3
    <2>11. ASSUME NEW x \in cStore', NEW b \in Addrs, \A y \in cStore' : y.addr # b
           PROVE  cLatest'[b] < x.id
      <3>1. x \in store /\ x # last /\ x.id # last.id /\ x.id \in Nat /\ last.id <= x.id
        BY <1>10, <2>1, <2>2 DEF CacheItem
      <3>2. CASE b = last.addr
        <4>1. cLatest'[b] = last.id
          BY <1>10, <2>2, <3>2
        <4> QED BY <2>3, <3>1, <4>1
      <3>3. CASE b # last.addr
        <4>1. \A y \in store : y.addr # b
          BY <2>1, <2>11, <3>3
        <4> QED BY <1>10, <3>1, <4>1
      <3> QED BY <3>2, <3>3
    <2>12. cStore' \subseteq store
      BY <2>1
    <2> QED BY <1>7, <1>10, <2>9, <2>10, <2>11, <2>12 DEF CacheSound, SoundCache, Bucket
  <1> QED BY <1>8, <1>9

LEMMA CacheStep == ASSUME CacheInv, CacheNext PROVE CacheInv'
  <1>1. PICK a \in Addrs : CacheUpdate(a)
    BY DEF CacheNext
  <1> DEFINE item == [id |-> cUpdates + 1, addr |-> a, value |-> cUpdates + 1]
  <1>2. cUpdates \in Nat /\ cUpdates' = cUpdates + 1 /\ cUpdates' \in Nat
    BY <1>1 DEF CacheUpdate, CacheInv
  <1>3. CASE KeyOf[a] < 0
    <2>1. UNCHANGED <<cStore, cBucket, cLatest, cCrossed>>
      BY <1>1, <1>3 DEF CacheUpdate
    <2>2. \A b \in Addrs : CacheSound => cLatest[b] <= cUpdates'
      BY <1>2 DEF CacheSound, SoundCache
    <2>3. CacheSound => CacheSound'
      BY <1>2, <2>1, <2>2 DEF CacheSound, SoundCache, Bucket
    <2> QED BY <1>2, <2>1, <2>3 DEF CacheInv
  <1>4. CASE KeyOf[a] >= 0
    <2>1. ~(KeyOf[a] < 0)
      BY <1>4, CacheAssumption
    <2>2. /\ cLatest' = [cLatest EXCEPT ![a] = item.value]
          /\ IF Matching(cStore, cBucket[Bucket(a)], a) # {} THEN CacheReplace(a, item)
             ELSE CacheInsert(a, item)
      BY <1>1, <2>1 DEF CacheUpdate
    <2> HIDE DEF item
    <2>3. cCrossed' \in BOOLEAN /\ (cCrossed => cCrossed')
      BY <2>2 DEF CacheInv, CacheReplace, CacheInsert
    <2>4. ASSUME ~cCrossed' PROVE CacheSound'
      <3>1. CacheSound
        BY <2>3, <2>4 DEF CacheInv
      <3>2. item = [id |-> cUpdates + 1, addr |-> a, value |-> cUpdates + 1]
        BY DEF item
      <3>3. CASE Matching(cStore, cBucket[Bucket(a)], a) # {}
        BY <1>2, <1>4, <2>2, <3>1, <3>2, <3>3, ReplaceKeeps
      <3>4. CASE Matching(cStore, cBucket[Bucket(a)], a) = {}
        BY <1>2, <1>4, <2>2, <2>4, <3>1, <3>2, <3>4, InsertKeeps
      <3> QED BY <3>3, <3>4
    <2> QED BY <1>2, <2>3, <2>4 DEF CacheInv
  <1> QED BY <1>3, <1>4, CacheAssumption

\* Whatever arrives, an ACK2 gets what its own ACK carried or nothing, the reported rates
\* lie near the median interval, and until an eviction crosses buckets the cache finds
\* what was stored last (CACKWindow, CPktTimeWindow, CCache).
THEOREM LinkStatisticsCorrect == PartsSpec => []LinkStatisticsExact
  <1> DEFINE Inv == /\ subject = "ackWindow" => AckInv
                    /\ subject = "speeds" => RateTypes
                    /\ subject = "cache" => CacheInv
  <1>1. PartsInit => Inv
    <2> SUFFICES ASSUME PartsInit PROVE Inv
      OBVIOUS
    <2>1. subject = "ackWindow" => AckInv
      BY AckStart DEF PartsInit
    <2>2. subject = "speeds" => RateTypes
      <3>1. RateSize \in Nat /\ RateSize >= 3
        BY WindowsAssumption
      <3> QED BY <3>1 DEF PartsInit, WindowsInit, RateTypes
    <2>3. subject = "cache" => CacheInv
      BY CacheStart DEF PartsInit
    <2> QED BY <2>1, <2>2, <2>3
  <1>2. Inv /\ [PartsNext]_allVars => Inv'
    <2> SUFFICES ASSUME Inv, [PartsNext]_allVars PROVE Inv'
      OBVIOUS
    <2>1. subject' = "ackWindow" => AckInv'
      <3> SUFFICES ASSUME subject' = "ackWindow" PROVE AckInv'
        OBVIOUS
      <3>1. subject = "ackWindow" /\ (AckWindowNext \/ UNCHANGED windowVars)
        BY DEF PartsNext, StepOf, allVars
      <3>2. CASE UNCHANGED windowVars
        BY <3>1, <3>2 DEF windowVars, AckInv, Waiting, AckBefore
      <3> QED BY <3>1, <3>2, StoreKeeps, Ack2Keeps DEF AckWindowNext
    <2>2. subject' = "speeds" => RateTypes'
      <3> SUFFICES ASSUME subject' = "speeds" PROVE RateTypes'
        OBVIOUS
      <3>1. subject = "speeds" /\ (RateNext \/ UNCHANGED windowVars)
        BY DEF PartsNext, StepOf, allVars
      <3>2. CASE UNCHANGED windowVars
        BY <3>1, <3>2 DEF windowVars, RateTypes
      <3>3. CASE RateNext
        BY <3>1, <3>3, WindowsAssumption DEF RateNext, RateArrival, RateTypes
      <3> QED BY <3>1, <3>2, <3>3
    <2>3. subject' = "cache" => CacheInv'
      <3> SUFFICES ASSUME subject' = "cache" PROVE CacheInv'
        OBVIOUS
      <3>1. subject = "cache" /\ (CacheNext \/ UNCHANGED cacheVars)
        BY DEF PartsNext, StepOf, allVars
      <3>2. CASE UNCHANGED cacheVars
        BY <3>1, <3>2 DEF cacheVars, CacheInv, CacheSound, SoundCache, Bucket
      <3> QED BY <3>1, <3>2, CacheStep
    <2> QED BY <2>1, <2>2, <2>3
  <1>3. Inv => LinkStatisticsExact
    BY AcksAnswered, SpeedsHold, CacheHolds DEF LinkStatisticsExact, Of
  <1> QED BY <1>1, <1>2, <1>3, PTL DEF PartsSpec

-----------------------------------------------------------------------------
(* Sequences with one place for every element.                             *)

LEMMA PlaceRemoved ==
    ASSUME NEW S, NEW s \in Seq(S), NEW i \in 1..Len(s)
    PROVE  /\ RemoveAt(s, i) \in Seq(S) /\ Len(RemoveAt(s, i)) = Len(s) - 1
           /\ \A k \in 1..Len(s) - 1 : RemoveAt(s, i)[k] = IF k < i THEN s[k] ELSE s[k + 1]
  <1> DEFINE a == SubSeq(s, 1, i - 1)
             b == SubSeq(s, i + 1, Len(s))
  <1>1. a \in Seq(S) /\ Len(a) = i - 1 /\ \A k \in 1..i - 1 : a[k] = s[k]
    BY SubSeqProperties
  <1>2. b \in Seq(S) /\ Len(b) = Len(s) - i /\ \A k \in 1..Len(s) - i : b[k] = s[i + k]
    BY SubSeqProperties
  <1>3. RemoveAt(s, i) = a \o b
    BY DEF RemoveAt
  <1> HIDE DEF a, b
  <1>4. Len(a \o b) = Len(s) - 1 /\ a \o b \in Seq(S)
    <2>1. a \o b \in Seq(S) /\ Len(a \o b) = Len(a) + Len(b)
      BY <1>1, <1>2, ConcatProperties
    <2> QED BY <1>1, <1>2, <2>1, LenProperties
  <1>5. \A k \in 1..Len(s) - 1 : (a \o b)[k] = IF k < i THEN s[k] ELSE s[k + 1]
    <2> TAKE k \in 1..Len(s) - 1
    <2>1. CASE k < i
      BY <1>1, <1>2, <2>1
    <2>2. CASE k >= i
      <3>1. (a \o b)[k] = b[k - (i - 1)]
        BY <1>1, <1>2, <2>2
      <3>2. k - (i - 1) \in 1..Len(s) - i /\ i + (k - (i - 1)) = k + 1
        BY <2>2
      <3> QED BY <1>2, <2>2, <3>1, <3>2
    <2>3. k < i \/ k >= i
      BY LenProperties
    <2> QED BY <2>1, <2>2, <2>3, Zenon
  <1> QED BY <1>3, <1>4, <1>5

\* The elements of a sequence are a set that has as many.
LEMMA PlacesOfSet ==
    ASSUME NEW S, NEW s \in Seq(S), IsInjective(s)
    PROVE  s \in SetToSeqs(ToSet(s))
  <1>1. s \in Bijection(1..Len(s), ToSet(s))
    BY DEF IsInjective, ToSet, Bijection, Injection, Surjection, IsInjective
  <1>2. Cardinality(ToSet(s)) = Len(s)
    BY <1>1, FS_CountingElements DEF ExistsBijection
  <1>3. s \in [1..Len(s) -> ToSet(s)] /\ \A i, j \in 1..Len(s) : i # j => s[i] # s[j]
    BY <1>1 DEF Bijection, Injection, IsInjective
  <1> QED BY <1>2, <1>3 DEF SetToSeqs

LEMMA PlaceLeft ==
    ASSUME NEW S, NEW s \in Seq(S), IsInjective(s), NEW i \in 1..Len(s)
    PROVE  IsInjective(RemoveAt(s, i)) /\ ToSet(RemoveAt(s, i)) = ToSet(s) \ {s[i]}
  <1> PICK t : t = RemoveAt(s, i)
    OBVIOUS
  <1>1. /\ t \in Seq(S) /\ Len(t) = Len(s) - 1
        /\ \A k \in 1..Len(s) - 1 : t[k] = IF k < i THEN s[k] ELSE s[k + 1]
    BY PlaceRemoved
  <1>2. IsInjective(t)
    <2>1. DOMAIN s = 1..Len(s) /\ DOMAIN t = 1..Len(s) - 1 /\ Len(s) \in Nat
      BY <1>1, LenProperties
    <2>2. \A a, b \in 1..Len(s) : s[a] = s[b] => a = b
      BY <2>1 DEF IsInjective
    <2> SUFFICES ASSUME NEW a \in 1..Len(s) - 1, NEW b \in 1..Len(s) - 1, t[a] = t[b] PROVE a = b
      BY <2>1 DEF IsInjective
    <2> PICK c \in 1..Len(s) : c = IF a < i THEN a ELSE a + 1
      BY <2>1
    <2> PICK d \in 1..Len(s) : d = IF b < i THEN b ELSE b + 1
      BY <2>1
    <2>3. t[a] = s[c] /\ t[b] = s[d]
      BY <1>1
    <2>4. c = d
      BY <2>2, <2>3
    <2> QED BY <2>4
  <1>3. ASSUME NEW k \in 1..Len(s), k # i PROVE \E m \in 1..Len(t) : t[m] = s[k]
    <2>1. CASE k < i
      BY <1>1, <2>1
    <2>2. CASE k > i
      <3>1. k - 1 \in 1..Len(t) /\ t[k - 1] = s[k]
        BY <1>1, <2>2
      <3> QED BY <3>1
    <2> QED BY <1>3, <2>1, <2>2
  <1>4. ASSUME NEW m \in 1..Len(t) PROVE \E k \in 1..Len(s) : k # i /\ t[m] = s[k]
    <2>1. CASE m < i
      BY <1>1, <2>1
    <2>2. CASE m >= i
      <3>1. m + 1 \in 1..Len(s) /\ m + 1 # i /\ t[m] = s[m + 1]
        BY <1>1, <2>2
      <3> QED BY <3>1
    <2> QED BY <2>1, <2>2
  <1>5. DOMAIN t = 1..Len(t) /\ DOMAIN s = 1..Len(s)
    BY <1>1
  <1>6. ToSet(t) \subseteq ToSet(s) \ {s[i]}
    <2> SUFFICES ASSUME NEW m \in 1..Len(t) PROVE t[m] \in ToSet(s) \ {s[i]}
      BY <1>5 DEF ToSet
    <2>1. PICK k \in 1..Len(s) : k # i /\ t[m] = s[k]
      BY <1>4
    <2>2. s[k] # s[i]
      BY <1>5, <2>1 DEF IsInjective
    <2> QED BY <1>5, <2>1, <2>2 DEF ToSet
  <1>7. ToSet(s) \ {s[i]} \subseteq ToSet(t)
    <2> SUFFICES ASSUME NEW k \in 1..Len(s), s[k] # s[i] PROVE s[k] \in ToSet(t)
      BY <1>5 DEF ToSet
    <2>1. PICK m \in 1..Len(t) : t[m] = s[k]
      BY <1>3
    <2> QED BY <1>5, <2>1 DEF ToSet
  <1> QED BY <1>2, <1>6, <1>7

LEMMA FirstRemoved ==
    ASSUME NEW S, NEW s \in Seq(S), IsInjective(s), NEW e
    PROVE  /\ RemoveFirst(s, e) \in Seq(S) /\ IsInjective(RemoveFirst(s, e))
           /\ ToSet(RemoveFirst(s, e)) = ToSet(s) \ {e}
  <1>1. CASE \E i \in 1..Len(s) : s[i] = e
    <2>1. PICK i \in 1..Len(s) : s[i] = e
      BY <1>1
    <2>2. {j \in 1..Len(s) : s[j] = e} = {i}
      BY <2>1 DEF IsInjective
    <2>3. Min({i}) = i
      BY DEF Min
    <2>4. SelectInSeq(s, LAMBDA v : v = e) = i
      BY <2>2, <2>3 DEF SelectInSeq
    <2>5. RemoveFirst(s, e) = RemoveAt(s, i)
      BY <1>1, <2>4 DEF RemoveFirst
    <2> QED BY <2>1, <2>5, PlaceRemoved, PlaceLeft
  <1>2. CASE ~\E i \in 1..Len(s) : s[i] = e
    BY <1>2 DEF RemoveFirst, ToSet
  <1> QED BY <1>1, <1>2

-----------------------------------------------------------------------------
(* The tables of the receive queue, for sockets that connect once.         *)

\* The links of l are those of a list of the nodes s in this order, their times
\* in order and none after now.
Linked(l, s, now) ==
    /\ s \in Seq(RqSocks) /\ IsInjective(s)
    /\ l.head = IF Len(s) = 0 THEN 0 ELSE s[1]
    /\ l.last = IF Len(s) = 0 THEN 0 ELSE s[Len(s)]
    /\ \A i \in 1..Len(s) : /\ l.next[s[i]] = IF i = Len(s) THEN 0 ELSE s[i + 1]
                            /\ l.prev[s[i]] = IF i = 1 THEN 0 ELSE s[i - 1]
    /\ \A i, j \in 1..Len(s) : i < j => l.stamp[s[i]] <= l.stamp[s[j]]
    /\ \A i \in 1..Len(s) : l.stamp[s[i]] <= now

RqLinks == RqSocks \cup {0}
RqLists == [head : RqLinks, last : RqLinks, prev : [RqSocks -> RqLinks],
            next : [RqSocks -> RqLinks], stamp : [RqSocks -> Nat]]

LEMMA RqSocksPositive == RqSocks \subseteq Nat \ {0} /\ 0 \notin RqSocks
  BY RcvQueueAssumption DEF RqSocks

\* insert puts a node that is not in the list behind the last one.
LEMMA InsertLinks ==
    ASSUME NEW l \in RqLists, NEW s, NEW now \in Nat, Linked(l, s, now),
           NEW u \in RqSocks, u \notin ToSet(s)
    PROVE  ListInsert(l, u, now) \in RqLists /\ Linked(ListInsert(l, u, now), Append(s, u), now)
  <1> PICK m : m = ListInsert(l, u, now)
    OBVIOUS
  <1> PICK t : t = Append(s, u)
    OBVIOUS
  <1>1. l.last \in RqLinks /\ l.head \in RqLinks /\ 0 \notin RqSocks
    BY RqSocksPositive DEF RqLists
  <1>2. m \in RqLists
    BY <1>1, RqSocksPositive DEF ListInsert, RqLists, RqLinks
  <1>3. /\ m.head = IF l.head = 0 THEN u ELSE l.head
        /\ m.last = u
        /\ \A v \in RqSocks : m.stamp[v] = IF v = u THEN now ELSE l.stamp[v]
        /\ \A v \in RqSocks : m.prev[v] = IF v = u THEN l.last ELSE l.prev[v]
        /\ \A v \in RqSocks \ {u} : m.next[v] = IF v = l.last THEN u ELSE l.next[v]
        /\ l.last # u => m.next[u] = 0
    BY <1>1, RqSocksPositive DEF ListInsert, RqLists, RqLinks
  <1>4. /\ t \in Seq(RqSocks) /\ Len(t) = Len(s) + 1 /\ t[Len(s) + 1] = u
        /\ \A i \in 1..Len(s) : t[i] = s[i] /\ s[i] \in RqSocks \ {u}
        /\ Len(s) \in Nat
    BY AppendProperties, LenProperties DEF Linked, ToSet
  <1>5. IsInjective(t)
    BY <1>4 DEF Linked, IsInjective
  <1>6. l.last # u
    BY <1>1, <1>4 DEF Linked
  <1>7. m.head = t[1] /\ m.last = t[Len(t)]
    BY <1>1, <1>3, <1>4 DEF Linked
  <1>8. \A i \in 1..Len(t) : /\ m.next[t[i]] = IF i = Len(t) THEN 0 ELSE t[i + 1]
                             /\ m.prev[t[i]] = IF i = 1 THEN 0 ELSE t[i - 1]
    <2> SUFFICES ASSUME NEW i \in 1..Len(t)
                 PROVE  /\ m.next[t[i]] = IF i = Len(t) THEN 0 ELSE t[i + 1]
                        /\ m.prev[t[i]] = IF i = 1 THEN 0 ELSE t[i - 1]
      OBVIOUS
    <2>1. CASE i = Len(t)
      BY <1>1, <1>3, <1>4, <1>6, <2>1 DEF Linked
    <2>2. CASE i = Len(s)
      <3>1. s[i] = l.last /\ t[i] = s[i] /\ t[i + 1] = u /\ t[i] # u /\ t[i] \in RqSocks
        BY <1>4, <2>2 DEF Linked
      <3>2. i > 1 => t[i - 1] = s[i - 1]
        BY <1>4, <2>2
      <3> QED BY <1>3, <1>4, <2>2, <3>1, <3>2 DEF Linked
    <2>3. CASE i < Len(s)
      <3>1. t[i] = s[i] /\ t[i + 1] = s[i + 1] /\ t[i] \in RqSocks \ {u} /\ s[i] # s[Len(s)]
        BY <1>4, <2>3 DEF Linked, IsInjective
      <3>2. i > 1 => t[i - 1] = s[i - 1]
        BY <1>4, <2>3
      <3>3. l.last = s[Len(s)]
        BY <1>4, <2>3 DEF Linked
      <3>4. i \in 1..Len(s) /\ i # Len(s) /\ i # Len(t)
        BY <1>4, <2>3
      <3>5. /\ l.next[s[i]] = s[i + 1]
            /\ l.prev[s[i]] = IF i = 1 THEN 0 ELSE s[i - 1]
        BY <3>4 DEF Linked
      <3>6. m.next[t[i]] = l.next[s[i]] /\ m.prev[t[i]] = l.prev[s[i]]
        BY <1>3, <3>1, <3>3
      <3>7. i = 1 \/ i > 1
        OBVIOUS
      <3> QED BY <3>1, <3>2, <3>4, <3>5, <3>6, <3>7, Zenon
    <2> QED BY <1>4, <2>1, <2>2, <2>3
  <1>9. \A i, j \in 1..Len(t) : i < j => m.stamp[t[i]] <= m.stamp[t[j]]
    <2> SUFFICES ASSUME NEW i \in 1..Len(t), NEW j \in 1..Len(t), i < j
                 PROVE  m.stamp[t[i]] <= m.stamp[t[j]]
      OBVIOUS
    <2>1. i \in 1..Len(s) /\ t[i] = s[i] /\ m.stamp[t[i]] = l.stamp[s[i]]
      BY <1>3, <1>4
    <2>2. l.stamp[s[i]] <= now
      BY <2>1 DEF Linked
    <2>3. CASE j = Len(t)
      BY <1>3, <1>4, <2>1, <2>2, <2>3
    <2>4. CASE j \in 1..Len(s)
      <3>1. m.stamp[t[j]] = l.stamp[s[j]]
        BY <1>3, <1>4, <2>4
      <3>2. l.stamp[s[i]] <= l.stamp[s[j]]
        BY <2>1, <2>4 DEF Linked
      <3> QED BY <2>1, <3>1, <3>2
    <2> QED BY <1>4, <2>3, <2>4
  <1>10. \A i \in 1..Len(t) : m.stamp[t[i]] <= now
    BY SMTT(30), <1>3, <1>4 DEF Linked
  <1> QED BY <1>2, <1>4, <1>5, <1>7, <1>8, <1>9, <1>10, SMTT(30) DEF Linked

\* remove and update take a node out: its neighbours become each other's.
LEMMA UnhookLinks ==
    ASSUME NEW l \in RqLists, NEW s, NEW now \in Nat, Linked(l, s, now), NEW i \in 1..Len(s)
    PROVE  /\ Unhooked(l, s[i]) \in RqLists
           /\ Linked(Unhooked(l, s[i]), RemoveAt(s, i), now)
           /\ Unhooked(l, s[i]).stamp = l.stamp
  <1> PICK u : u = s[i]
    OBVIOUS
  <1> PICK m : m = Unhooked(l, u)
    OBVIOUS
  <1> PICK t : t = RemoveAt(s, i)
    OBVIOUS
  <1> PICK p : p = l.prev[u]
    OBVIOUS
  <1> PICK n : n = l.next[u]
    OBVIOUS
  <1>1. s \in Seq(RqSocks) /\ Len(s) \in Nat /\ \A k \in 1..Len(s) : s[k] \in RqSocks
    BY LenProperties DEF Linked
  <1>2. u \in RqSocks /\ p \in RqLinks /\ n \in RqLinks /\ 0 \notin RqSocks
    BY <1>1, RqSocksPositive DEF RqLists
  <1>3. /\ m \in RqLists /\ m.stamp = l.stamp
        /\ m.head = IF p = 0 THEN n ELSE l.head
        /\ m.last = IF n = 0 THEN p ELSE l.last
        /\ \A v \in RqSocks : m.next[v] = IF v = p THEN n ELSE l.next[v]
        /\ \A v \in RqSocks : m.prev[v] = IF v = n THEN p ELSE l.prev[v]
    BY <1>2 DEF Unhooked, RqLists, RqLinks
  <1>4. /\ t \in Seq(RqSocks) /\ Len(t) = Len(s) - 1 /\ IsInjective(t)
        /\ \A k \in 1..Len(s) - 1 : t[k] = IF k < i THEN s[k] ELSE s[k + 1]
    BY <1>1, PlaceRemoved, PlaceLeft DEF Linked
  <1>5. /\ p = IF i = 1 THEN 0 ELSE s[i - 1]
        /\ n = IF i = Len(s) THEN 0 ELSE s[i + 1]
    BY DEF Linked
  <1>6. \A k \in 1..Len(s) : /\ s[k] = p <=> k = i - 1
                             /\ s[k] = n <=> k = i + 1
    BY <1>1, <1>2, <1>5 DEF Linked, IsInjective
  <1>7. /\ m.head = IF Len(t) = 0 THEN 0 ELSE t[1]
        /\ m.last = IF Len(t) = 0 THEN 0 ELSE t[Len(t)]
    BY SMTT(30), <1>1, <1>2, <1>3, <1>4, <1>5 DEF Linked
  <1>8. \A k \in 1..Len(t) : /\ m.next[t[k]] = IF k = Len(t) THEN 0 ELSE t[k + 1]
                             /\ m.prev[t[k]] = IF k = 1 THEN 0 ELSE t[k - 1]
    <2> SUFFICES ASSUME NEW k \in 1..Len(t)
                 PROVE  /\ m.next[t[k]] = IF k = Len(t) THEN 0 ELSE t[k + 1]
                        /\ m.prev[t[k]] = IF k = 1 THEN 0 ELSE t[k - 1]
      OBVIOUS
    <2>0. \A j \in 1..Len(s) : /\ l.next[s[j]] = IF j = Len(s) THEN 0 ELSE s[j + 1]
                               /\ l.prev[s[j]] = IF j = 1 THEN 0 ELSE s[j - 1]
                               /\ s[j] \in RqSocks
      BY <1>1 DEF Linked
    <2>1. CASE k < i
      <3>1. k \in 1..Len(s) /\ t[k] = s[k] /\ (k > 1 => t[k - 1] = s[k - 1])
        BY SMTT(30), <1>1, <1>4, <2>1
      <3>2. k < Len(t) => t[k + 1] = IF k + 1 < i THEN s[k + 1] ELSE s[k + 2]
        BY <1>1, <1>4, <2>1
      <3>3. /\ m.next[s[k]] = IF k = i - 1 THEN n ELSE l.next[s[k]]
            /\ m.prev[s[k]] = l.prev[s[k]]
        <4>1. s[k] # n /\ (s[k] = p <=> k = i - 1)
          BY <1>6, <2>1, <3>1
        <4> QED BY <1>1, <1>3, <3>1, <4>1
      <3>4. m.prev[t[k]] = IF k = 1 THEN 0 ELSE t[k - 1]
        BY SMTT(30), <2>0, <3>1, <3>3
      <3>5. CASE k = i - 1
        <4>1. n = IF i = Len(s) THEN 0 ELSE s[k + 2]
          BY <1>5, <3>5
        <4>2. i = Len(s) <=> k = Len(t)
          BY <1>1, <1>4, <3>5
        <4>3. i # Len(s) => k < Len(t) /\ ~(k + 1 < i)
          BY <1>1, <1>4, <3>5
        <4> QED BY <3>1, <3>2, <3>3, <3>4, <3>5, <4>1, <4>2, <4>3, Zenon
      <3>6. CASE k # i - 1
        <4>1. k < Len(t) /\ k + 1 < i /\ k # Len(s) /\ k # Len(t)
          BY <1>1, <1>4, <2>1, <3>6
        <4> QED BY <2>0, <3>1, <3>2, <3>3, <3>4, <3>6, <4>1, Zenon
      <3> QED BY <3>5, <3>6
    <2>2. CASE k >= i
      <3>1. k + 1 \in 1..Len(s) /\ t[k] = s[k + 1]
        BY SMTT(30), <1>1, <1>4, <2>2
      <3>2. k < Len(t) => t[k + 1] = s[k + 2]
        <4> SUFFICES ASSUME k < Len(t) PROVE t[k + 1] = s[k + 2]
          OBVIOUS
        <4> PICK a : a = k + 1
          OBVIOUS
        <4>1. a \in 1..Len(s) - 1 /\ ~(a < i) /\ a + 1 = k + 2
          BY <1>1, <1>4, <2>2
        <4> QED BY <1>4, <4>1
      <3>3. k > 1 => t[k - 1] = IF k = i THEN s[k - 1] ELSE s[k]
        BY <1>1, <1>4, <2>2
      <3> PICK a \in 1..Len(s) : a = k + 1
        BY <3>1
      <3>4. /\ m.next[s[a]] = l.next[s[a]]
            /\ m.prev[s[a]] = IF k = i THEN p ELSE l.prev[s[a]]
        <4>1. s[a] # p /\ (s[a] = n <=> k = i)
          BY <1>6, <2>2
        <4> QED BY <1>1, <1>3, <4>1
      <3>5. /\ l.next[s[a]] = IF a = Len(s) THEN 0 ELSE s[a + 1]
            /\ l.prev[s[a]] = s[k]
        BY <2>0
      <3>6. a + 1 = k + 2 /\ (a = Len(s) <=> k = Len(t)) /\ (k = Len(t) \/ k < Len(t))
        BY <1>1, <1>4
      <3>7. m.next[t[k]] = IF k = Len(t) THEN 0 ELSE t[k + 1]
        BY <3>1, <3>2, <3>4, <3>5, <3>6
      <3>8. k = i => p = IF k = 1 THEN 0 ELSE s[k - 1]
        BY <1>5
      <3>9. k # i => k > 1
        BY <2>2
      <3>10. k = 1 \/ k > 1
        OBVIOUS
      <3>11. t[k] = s[a]
        BY <3>1
      <3>12. CASE k = i
        BY <3>3, <3>4, <3>7, <3>8, <3>10, <3>11, <3>12
      <3>13. CASE k # i
        BY <3>3, <3>4, <3>5, <3>7, <3>9, <3>11, <3>13
      <3> QED BY <3>12, <3>13
    <2> QED BY <1>1, <1>4, <2>1, <2>2
  <1>9. ASSUME NEW k \in 1..Len(t)
        PROVE  \E a \in 1..Len(s) : t[k] = s[a] /\ a = IF k < i THEN k ELSE k + 1
    <2>1. CASE k < i
      BY <1>1, <1>4, <2>1
    <2>2. CASE k >= i
      <3>1. k + 1 \in 1..Len(s) /\ t[k] = s[k + 1]
        BY SMTT(30), <1>1, <1>4, <2>2
      <3> QED BY <2>2, <3>1
    <2> QED BY <1>1, <1>4, <2>1, <2>2
  <1>10. \A j, k \in 1..Len(t) : j < k => m.stamp[t[j]] <= m.stamp[t[k]]
    <2> SUFFICES ASSUME NEW j \in 1..Len(t), NEW k \in 1..Len(t), j < k
                 PROVE  m.stamp[t[j]] <= m.stamp[t[k]]
      OBVIOUS
    <2>1. PICK a \in 1..Len(s) : t[j] = s[a] /\ a = IF j < i THEN j ELSE j + 1
      BY <1>9
    <2>2. PICK b \in 1..Len(s) : t[k] = s[b] /\ b = IF k < i THEN k ELSE k + 1
      BY <1>9
    <2>3. a < b
      BY <2>1, <2>2
    <2>4. l.stamp[s[a]] <= l.stamp[s[b]]
      BY <2>3 DEF Linked
    <2> QED BY <1>3, <2>1, <2>2, <2>4
  <1>11. \A k \in 1..Len(t) : m.stamp[t[k]] <= now
    <2> TAKE k \in 1..Len(t)
    <2>1. PICK a \in 1..Len(s) : t[k] = s[a]
      BY <1>9
    <2> QED BY <1>3, <2>1 DEF Linked
  <1> QED BY SMTT(30), <1>3, <1>4, <1>7, <1>8, <1>10, <1>11 DEF Linked

LEMMA RemoveLinks ==
    ASSUME NEW l \in RqLists, NEW s, NEW now \in Nat, Linked(l, s, now), NEW i \in 1..Len(s)
    PROVE  /\ ListRemove(l, s[i]) \in RqLists
           /\ Linked(ListRemove(l, s[i]), RemoveAt(s, i), now)
  <1> PICK u : u = s[i]
    OBVIOUS
  <1> PICK h : h = Unhooked(l, u)
    OBVIOUS
  <1> PICK m : m = ListRemove(l, u)
    OBVIOUS
  <1> PICK t : t = RemoveAt(s, i)
    OBVIOUS
  <1>1. h \in RqLists /\ Linked(h, t, now) /\ u \in RqSocks
    <2>1. u \in RqSocks
      BY DEF Linked
    <2> QED BY <2>1, UnhookLinks
  <1>2. /\ m \in RqLists /\ m.head = h.head /\ m.last = h.last /\ m.stamp = h.stamp
        /\ \A v \in RqSocks \ {u} : m.next[v] = h.next[v] /\ m.prev[v] = h.prev[v]
    BY <1>1 DEF ListRemove, RqLists, RqLinks
  <1>3. \A k \in 1..Len(t) : t[k] \in RqSocks \ {u}
    <2>1. ToSet(t) = ToSet(s) \ {u} /\ t \in Seq(RqSocks)
      BY PlaceLeft, PlaceRemoved DEF Linked
    <2> QED BY <2>1 DEF ToSet
  <1> QED BY SMTT(30), <1>1, <1>2, <1>3 DEF Linked

\* update moves a node behind all others, or leaves it there.
LEMMA UpdateLinks ==
    ASSUME NEW l \in RqLists, NEW s, NEW now \in Nat, Linked(l, s, now), NEW i \in 1..Len(s)
    PROVE  /\ ListUpdate(l, s[i], now) \in RqLists
           /\ \E t : Linked(ListUpdate(l, s[i], now), t, now) /\ ToSet(t) = ToSet(s)
  <1> PICK u : u = s[i]
    OBVIOUS
  <1>1. s \in Seq(RqSocks) /\ u \in RqSocks /\ Len(s) \in Nat /\ 0 \notin RqSocks
    BY RqSocksPositive, LenProperties DEF Linked
  <1>2. CASE l.next[u] = 0
    <2> PICK m : m = ListUpdate(l, u, now)
      OBVIOUS
    <2>1. i = Len(s)
      BY <1>1, <1>2 DEF Linked
    <2>2. /\ m \in RqLists /\ m.head = l.head /\ m.last = l.last
          /\ m.next = l.next /\ m.prev = l.prev
          /\ \A v \in RqSocks : m.stamp[v] = IF v = u THEN now ELSE l.stamp[v]
      BY <1>1, <1>2 DEF ListUpdate, RqLists
    <2>3. \A j \in 1..Len(s) : m.stamp[s[j]] <= now
      BY <1>1, <2>2 DEF Linked
    <2>4. \A j \in 1..Len(s) : j # i => m.stamp[s[j]] = l.stamp[s[j]]
      BY <1>1, <2>2 DEF Linked, IsInjective
    <2>5. \A j, k \in 1..Len(s) : j < k => m.stamp[s[j]] <= m.stamp[s[k]]
      <3> SUFFICES ASSUME NEW j \in 1..Len(s), NEW k \in 1..Len(s), j < k
                   PROVE  m.stamp[s[j]] <= m.stamp[s[k]]
        OBVIOUS
      <3>1. CASE k = i
        BY <1>1, <2>2, <2>3, <3>1
      <3>2. CASE k # i
        <4>1. j # i
          BY <1>1, <2>1
        <4>2. l.stamp[s[j]] <= l.stamp[s[k]]
          BY DEF Linked
        <4> QED BY <2>4, <3>2, <4>1, <4>2
      <3> QED BY <3>1, <3>2
    <2>6. Linked(m, s, now)
      <3>1. /\ s \in Seq(RqSocks) /\ IsInjective(s)
            /\ m.head = IF Len(s) = 0 THEN 0 ELSE s[1]
            /\ m.last = IF Len(s) = 0 THEN 0 ELSE s[Len(s)]
            /\ \A j \in 1..Len(s) : /\ m.next[s[j]] = IF j = Len(s) THEN 0 ELSE s[j + 1]
                                    /\ m.prev[s[j]] = IF j = 1 THEN 0 ELSE s[j - 1]
        BY <2>2 DEF Linked
      <3> QED BY <2>3, <2>5, <3>1 DEF Linked
    <2> QED BY <2>2, <2>6
  <1>3. CASE l.next[u] # 0
    <2> PICK t : t = RemoveAt(s, i)
      OBVIOUS
    <2> PICK h : h = Unhooked(l, u)
      OBVIOUS
    <2>1. h \in RqLists /\ Linked(h, t, now)
      BY UnhookLinks
    <2>2. t \in Seq(RqSocks) /\ ToSet(t) = ToSet(s) \ {u}
      BY PlaceLeft, PlaceRemoved DEF Linked
    <2>3. ListUpdate(l, u, now) = ListInsert(h, u, now)
      BY <1>3 DEF ListUpdate
    <2>4. ListInsert(h, u, now) \in RqLists /\ Linked(ListInsert(h, u, now), Append(t, u), now)
      BY <1>1, <2>1, <2>2, InsertLinks
    <2>5. ToSet(Append(t, u)) = ToSet(s)
      <3>1. /\ DOMAIN Append(t, u) = 1..Len(t) + 1 /\ DOMAIN t = 1..Len(t) /\ Len(t) \in Nat
            /\ Append(t, u)[Len(t) + 1] = u /\ \A k \in 1..Len(t) : Append(t, u)[k] = t[k]
        BY <1>1, <2>2, AppendProperties, LenProperties
      <3>2. ToSet(Append(t, u)) = ToSet(t) \cup {u}
        BY <3>1 DEF ToSet
      <3>3. u \in ToSet(s)
        BY <1>1 DEF ToSet
      <3> QED BY <2>2, <3>2, <3>3
    <2> QED BY <2>3, <2>4, <2>5
  <1> QED BY <1>2, <1>3

ReceiverTypes ==
    /\ rqState \in [RqSocks -> {"new", "listening", "connecting", "expired", "connected",
                                "broken", "closed", "gone"}]
    /\ rqTries \in [RqSocks -> Nat] /\ rqClosing \subseteq RqSocks
    /\ rqClosedAt \in [RqSocks -> Nat] /\ rqLingers \subseteq RqSocks
    /\ rqListener \in RqLinks /\ rqOnList \in [RqSocks -> BOOLEAN] /\ rqNew \in Seq(RqSocks)
    /\ rqList \in RqLists /\ rqHash \in [0..Buckets - 1 -> Seq(RqSocks)]
    /\ rqConns \in Seq([id : RqSocks, ttl : Nat]) /\ rqStored \subseteq RqSocks
    /\ rqPc \in {"entries", "packet", "connect", "check"} /\ rqHeld \in RqLinks
    /\ rqClock \in Nat \ {0}

\* Every socket that is on the list, but not new, is linked once and has one place
\* in its bucket.
LinksSound ==
    /\ ToSet(rqNew) \subseteq {u \in RqSocks : rqOnList[u]} /\ IsInjective(rqNew)
    /\ \E s : Linked(rqList, s, rqClock) /\ ToSet(s) = InList
    /\ \A b \in 0..Buckets - 1 :
          IsInjective(rqHash[b]) /\ ToSet(rqHash[b]) = {u \in InList : BucketOf(u) = b}

\* A connector belongs to a socket that is connecting and not closed; only sockets
\* that were connected are on the list; what the thread has in its hands was closed
\* in this turn, if at all.
HoldersSound ==
    /\ \A i, j \in DOMAIN rqConns : rqConns[i].id = rqConns[j].id => i = j
    /\ \A i \in DOMAIN rqConns :
          LET u == rqConns[i].id IN
          /\ rqState[u] \in {"connecting", "expired"} /\ rqTries[u] >= 1
          /\ u \notin rqClosing /\ rqClosedAt[u] = 0
    /\ \A u \in RqSocks :
          /\ rqOnList[u] => rqState[u] \in {"connected", "broken", "closed"}
          /\ u \in rqLingers => rqState[u] \in {"connected", "broken"} /\ rqClosedAt[u] # 0
          /\ rqListener = u => rqState[u] = "listening" /\ u \notin rqClosing
          /\ u \in rqClosing => rqClosedAt[u] # 0
    /\ rqHeld # 0 => rqState[rqHeld] # "gone" /\ rqClosedAt[rqHeld] \in {0, rqClock}
    /\ rqPc = "connect" <=> rqHeld # 0

ReceiverInv == ReceiverTypes /\ LinksSound /\ HoldersSound

LEMMA BucketInHash ==
    ASSUME NEW u \in RqSocks PROVE BucketOf(u) \in 0..Buckets - 1
  <1>1. u \in Nat /\ Buckets \in Nat \ {0}
    BY RqSocksPositive, RcvQueueAssumption
  <1> QED BY <1>1 DEF BucketOf

LEMMA ReceiverStart == ASSUME RcvQueueInit PROVE ReceiverInv
  <1>1. ReceiverTypes /\ HoldersSound
    BY RqSocksPositive DEF RcvQueueInit, ReceiverTypes, HoldersSound, RqLists, RqLinks
  <1>2. rqNew = <<>> /\ InList = {} /\ \A b \in 0..Buckets - 1 : rqHash[b] = <<>>
    BY DEF RcvQueueInit, InList
  <1>3. IsInjective(<<>>) /\ ToSet(<<>>) = {}
    BY DEF IsInjective, ToSet
  <1>4. Linked(rqList, <<>>, rqClock)
    <2>1. rqList.head = 0 /\ rqList.last = 0 /\ <<>> \in Seq(RqSocks) /\ Len(<<>>) = 0
      BY DEF RcvQueueInit
    <2> QED BY <1>3, <2>1 DEF Linked
  <1>5. LinksSound
    BY <1>2, <1>3, <1>4 DEF LinksSound
  <1> QED BY <1>1, <1>5 DEF ReceiverInv

-----------------------------------------------------------------------------
(* The steps and the links.                                                *)

LEMMA LinksRest ==
    ASSUME ReceiverInv, UNCHANGED rqTables, rqClock' \in Nat, rqClock' >= rqClock
    PROVE  LinksSound'
  <1>1. InList' = InList /\ rqList' = rqList /\ rqHash' = rqHash
    BY DEF rqTables, InList
  <1>2. PICK s : Linked(rqList, s, rqClock) /\ ToSet(s) = InList
    BY DEF ReceiverInv, LinksSound
  <1>3. \A i \in 1..Len(s) : s[i] \in RqSocks /\ rqList.stamp[s[i]] \in Nat
    BY SMTT(30), <1>2 DEF Linked, ReceiverInv, ReceiverTypes, RqLists
  <1>4. Linked(rqList, s, rqClock')
    BY SMTT(30), <1>2, <1>3 DEF Linked, ReceiverInv, ReceiverTypes
  <1>5. \E t : Linked(rqList', t, rqClock') /\ ToSet(t) = InList'
    BY <1>1, <1>2, <1>4
  <1> QED BY <1>1, <1>5 DEF ReceiverInv, LinksSound, rqTables

LEMMA NewEntryLinks ==
    ASSUME ReceiverInv, NEW u \in RqSocks, ~rqOnList[u], SetNewEntry(u),
           UNCHANGED <<rqList, rqHash, rqClock>>
    PROVE  LinksSound' /\ rqNew' \in Seq(RqSocks) /\ rqOnList' \in [RqSocks -> BOOLEAN]
  <1>1. /\ rqNew' \in Seq(RqSocks) /\ Len(rqNew') = Len(rqNew) + 1 /\ Len(rqNew) \in Nat
        /\ rqNew'[Len(rqNew) + 1] = u /\ \A i \in 1..Len(rqNew) : rqNew'[i] = rqNew[i]
    BY AppendProperties, LenProperties DEF ReceiverInv, ReceiverTypes, SetNewEntry
  <1>2. DOMAIN rqNew = 1..Len(rqNew) /\ DOMAIN rqNew' = 1..Len(rqNew) + 1
    BY <1>1 DEF ReceiverInv, ReceiverTypes
  <1>3. u \notin ToSet(rqNew) /\ u \notin InList
    BY DEF ReceiverInv, LinksSound, InList
  <1>4. ToSet(rqNew') = ToSet(rqNew) \cup {u}
    BY <1>1, <1>2 DEF ToSet
  <1>5. \A i \in 1..Len(rqNew) : rqNew[i] # u
    BY <1>2, <1>3 DEF ToSet
  <1>6. IsInjective(rqNew')
    BY <1>1, <1>2, <1>5 DEF IsInjective, ReceiverInv, LinksSound
  <1>7. rqOnList' \in [RqSocks -> BOOLEAN] /\ \A v \in RqSocks : rqOnList'[v] <=> rqOnList[v] \/ v = u
    BY DEF ReceiverInv, ReceiverTypes, SetNewEntry
  <1>8. InList' = InList
    BY <1>3, <1>4, <1>7 DEF InList
  <1>9. ToSet(rqNew') \subseteq {v \in RqSocks : rqOnList'[v]}
    BY <1>4, <1>7 DEF ReceiverInv, LinksSound
  <1> QED BY <1>1, <1>6, <1>7, <1>8, <1>9 DEF ReceiverInv, LinksSound

LEMMA EntryLinks ==
    ASSUME ReceiverInv, RqEntry
    PROVE  LinksSound' /\ rqNew' \in Seq(RqSocks) /\ rqList' \in RqLists
           /\ rqHash' \in [0..Buckets - 1 -> Seq(RqSocks)]
  <1> PICK u : u = Head(rqNew)
    OBVIOUS
  <1>1. /\ rqNew \in Seq(RqSocks) /\ rqNew # <<>> /\ rqClock' = rqClock /\ rqOnList' = rqOnList
        /\ rqList' = ListInsert(rqList, u, rqClock) /\ rqHash' = HashInsert(rqHash, u)
        /\ rqNew' = Tail(rqNew)
    BY DEF ReceiverInv, ReceiverTypes, RqEntry
  <1>2. /\ rqNew' \in Seq(RqSocks) /\ Len(rqNew') = Len(rqNew) - 1 /\ Len(rqNew) \in Nat \ {0}
        /\ u = rqNew[1] /\ \A i \in 1..Len(rqNew) - 1 : rqNew'[i] = rqNew[i + 1]
    BY <1>1, HeadTailProperties, LenProperties
  <1>3. DOMAIN rqNew = 1..Len(rqNew) /\ DOMAIN rqNew' = 1..Len(rqNew) - 1 /\ IsInjective(rqNew)
    BY <1>1, <1>2 DEF ReceiverInv, LinksSound
  <1>4. IsInjective(rqNew')
    <2>1. \A a, b \in 1..Len(rqNew) : rqNew[a] = rqNew[b] => a = b
      BY <1>3 DEF IsInjective
    <2> SUFFICES ASSUME NEW a \in 1..Len(rqNew) - 1, NEW b \in 1..Len(rqNew) - 1, rqNew'[a] = rqNew'[b]
                 PROVE  a = b
      BY <1>3 DEF IsInjective
    <2>2. a + 1 \in 1..Len(rqNew) /\ b + 1 \in 1..Len(rqNew)
      BY <1>2
    <2>3. rqNew[a + 1] = rqNew[b + 1]
      BY <1>2
    <2>4. a + 1 = b + 1
      BY <2>1, <2>2, <2>3
    <2> QED BY <2>4
  <1>5. \A i \in 2..Len(rqNew) : \E k \in 1..Len(rqNew) - 1 : rqNew[i] = rqNew'[k]
    <2> TAKE i \in 2..Len(rqNew)
    <2>1. i - 1 \in 1..Len(rqNew) - 1 /\ rqNew[i] = rqNew'[i - 1]
      BY <1>2
    <2> QED BY <2>1
  <1>6. ToSet(rqNew') = ToSet(rqNew) \ {u} /\ u \in ToSet(rqNew)
    <2>1. u \in ToSet(rqNew)
      BY <1>2, <1>3 DEF ToSet
    <2>2. ToSet(rqNew) \ {u} \subseteq ToSet(rqNew')
      <3> SUFFICES ASSUME NEW i \in 1..Len(rqNew), rqNew[i] # u PROVE rqNew[i] \in ToSet(rqNew')
        BY <1>3 DEF ToSet
      <3>1. i \in 2..Len(rqNew)
        BY <1>2
      <3> QED BY <1>3, <1>5, <3>1 DEF ToSet
    <2>3. ToSet(rqNew') \subseteq ToSet(rqNew) \ {u}
      <3> SUFFICES ASSUME NEW i \in 1..Len(rqNew) - 1
                   PROVE  rqNew'[i] \in ToSet(rqNew) /\ rqNew'[i] # u
        BY <1>3 DEF ToSet
      <3> PICK k : k = i + 1
        OBVIOUS
      <3>1. k \in 1..Len(rqNew) /\ k # 1 /\ 1 \in 1..Len(rqNew) /\ rqNew'[i] = rqNew[k]
        BY <1>2
      <3> QED BY <1>2, <1>3, <3>1 DEF ToSet, IsInjective
    <2> QED BY <2>1, <2>2, <2>3
  <1>7. u \in RqSocks /\ rqOnList[u] /\ ToSet(rqNew) \subseteq {v \in RqSocks : rqOnList[v]}
    BY <1>6 DEF ReceiverInv, LinksSound
  <1>8. u \notin InList /\ InList' = InList \cup {u}
    BY <1>1, <1>6, <1>7 DEF InList
  <1>9. PICK s : Linked(rqList, s, rqClock) /\ ToSet(s) = InList
    BY DEF ReceiverInv, LinksSound
  <1>10. rqList' \in RqLists /\ Linked(rqList', Append(s, u), rqClock)
    BY <1>1, <1>7, <1>8, <1>9, InsertLinks DEF ReceiverInv, ReceiverTypes
  <1>11. ToSet(Append(s, u)) = InList'
    <2>1. s \in Seq(RqSocks)
      BY <1>9 DEF Linked
    <2>2. /\ DOMAIN Append(s, u) = 1..Len(s) + 1 /\ DOMAIN s = 1..Len(s) /\ Len(s) \in Nat
          /\ Append(s, u)[Len(s) + 1] = u /\ \A k \in 1..Len(s) : Append(s, u)[k] = s[k]
      BY <1>7, <2>1, AppendProperties, LenProperties
    <2>3. ToSet(Append(s, u)) = ToSet(s) \cup {u}
      BY <2>2 DEF ToSet
    <2> QED BY <1>8, <1>9, <2>3
  <1> PICK b \in 0..Buckets - 1 : b = BucketOf(u)
    BY <1>7, BucketInHash
  <1> PICK c : c = rqHash[b]
    OBVIOUS
  <1> PICK d : d = <<u>> \o c
    OBVIOUS
  <1>12. c \in Seq(RqSocks) /\ IsInjective(c) /\ ToSet(c) = {v \in InList : BucketOf(v) = b}
    BY DEF ReceiverInv, ReceiverTypes, LinksSound
  <1>13. /\ d \in Seq(RqSocks) /\ Len(d) = Len(c) + 1 /\ Len(c) \in Nat /\ d[1] = u
         /\ \A i \in 1..Len(c) : d[i + 1] = c[i]
    <2>1. <<u>> \in Seq(RqSocks) /\ Len(<<u>>) = 1 /\ <<u>>[1] = u
      BY <1>7
    <2>2. d \in Seq(RqSocks) /\ Len(d) = 1 + Len(c) /\ Len(c) \in Nat
      BY <1>12, <2>1, ConcatProperties, LenProperties
    <2>3. \A i \in 1..Len(c) : d[i + 1] = c[i]
      <3> TAKE i \in 1..Len(c)
      <3>1. i + 1 \in 1..1 + Len(c) /\ ~(i + 1 <= 1) /\ i + 1 - 1 = i
        BY <2>2
      <3> QED BY <1>12, <2>1, <2>2, <3>1
    <2> QED BY <1>12, <2>1, <2>2, <2>3
  <1>14. DOMAIN c = 1..Len(c) /\ DOMAIN d = 1..Len(c) + 1
    BY <1>12, <1>13
  <1>15. \A i \in DOMAIN d : d[i] = IF i = 1 THEN u ELSE c[i - 1]
    <2> TAKE i \in DOMAIN d
    <2> PICK k : k = i - 1
      OBVIOUS
    <2>1. CASE i # 1
      <3>1. k \in 1..Len(c) /\ i = k + 1
        BY <1>13, <1>14, <2>1
      <3> QED BY <1>13, <2>1, <3>1
    <2> QED BY <1>13, <2>1
  <1>16. u \notin ToSet(c)
    BY <1>8, <1>12
  <1>17. IsInjective(d)
    <2>1. ASSUME NEW i \in DOMAIN d, NEW j \in DOMAIN d, d[i] = d[j], i < j PROVE FALSE
      <3> PICK k : k = j - 1
        OBVIOUS
      <3>1. k \in DOMAIN c /\ d[j] = c[k] /\ j # 1
        BY <1>13, <1>14, <1>15, <2>1
      <3>2. CASE i = 1
        BY <1>15, <1>16, <2>1, <3>1, <3>2 DEF ToSet
      <3>3. CASE i # 1
        <4> PICK m : m = i - 1
          OBVIOUS
        <4>1. m \in DOMAIN c /\ d[i] = c[m] /\ m # k
          BY <1>13, <1>14, <1>15, <2>1, <3>3
        <4> QED BY <1>12, <2>1, <3>1, <4>1 DEF IsInjective
      <3> QED BY <3>2, <3>3
    <2>2. \A i, j \in DOMAIN d : i < j \/ j < i \/ i = j
      BY <1>13, <1>14
    <2> QED BY <2>1, <2>2 DEF IsInjective
  <1>18. ToSet(d) = ToSet(c) \cup {u}
    <2>1. ToSet(d) \subseteq ToSet(c) \cup {u}
      <3> SUFFICES ASSUME NEW i \in DOMAIN d, i # 1 PROVE c[i - 1] \in ToSet(c)
        BY <1>15 DEF ToSet
      <3>1. i - 1 \in DOMAIN c
        BY <1>13, <1>14
      <3> QED BY <3>1 DEF ToSet
    <2>2. ToSet(c) \subseteq ToSet(d)
      <3> SUFFICES ASSUME NEW i \in 1..Len(c) PROVE c[i] \in ToSet(d)
        BY SMTT(30), <1>14 DEF ToSet
      <3>1. i + 1 \in DOMAIN d /\ d[i + 1] = c[i]
        BY <1>13, <1>14
      <3> QED BY <3>1 DEF ToSet
    <2>3. u \in ToSet(d)
      BY <1>13, <1>14 DEF ToSet
    <2> QED BY <2>1, <2>2, <2>3
  <1>19. rqHash' \in [0..Buckets - 1 -> Seq(RqSocks)]
         /\ \A a \in 0..Buckets - 1 : rqHash'[a] = IF a = b THEN d ELSE rqHash[a]
    BY <1>1, <1>13 DEF HashInsert, ReceiverInv, ReceiverTypes
  <1>20. \A a \in 0..Buckets - 1 :
            IsInjective(rqHash'[a]) /\ ToSet(rqHash'[a]) = {v \in InList' : BucketOf(v) = a}
    <2> TAKE a \in 0..Buckets - 1
    <2>1. CASE a = b
      BY <1>8, <1>12, <1>17, <1>18, <1>19, <2>1
    <2>2. CASE a # b
      BY <1>8, <1>19, <2>2 DEF ReceiverInv, LinksSound
    <2> QED BY <2>1, <2>2
  <1>21. ToSet(rqNew') \subseteq {v \in RqSocks : rqOnList'[v]}
    BY <1>1, <1>6, <1>7
  <1>22. \E t : Linked(rqList', t, rqClock') /\ ToSet(t) = InList'
    BY <1>1, <1>10, <1>11
  <1> QED BY <1>2, <1>4, <1>10, <1>19, <1>20, <1>21, <1>22 DEF LinksSound, BucketOf

\* A socket that is found in the hash table is on the list.
LEMMA FoundIsListed ==
    ASSUME ReceiverInv, NEW u \in RqSocks PROVE HashLookup(rqHash, u) <=> u \in InList
  <1> PICK b \in 0..Buckets - 1 : b = BucketOf(u)
    BY BucketInHash
  <1>1. ToSet(rqHash[b]) = {v \in InList : BucketOf(v) = b}
    BY DEF ReceiverInv, LinksSound
  <1> QED BY <1>1 DEF HashLookup, ToSet

LEMMA UpdateKeepsLinks ==
    ASSUME ReceiverInv, NEW u \in InList, rqList' = ListUpdate(rqList, u, rqClock),
           UNCHANGED <<rqOnList, rqNew, rqHash, rqClock>>
    PROVE  LinksSound' /\ rqList' \in RqLists
  <1>1. PICK s : Linked(rqList, s, rqClock) /\ ToSet(s) = InList
    BY DEF ReceiverInv, LinksSound
  <1>2. PICK i \in 1..Len(s) : s[i] = u
    BY <1>1 DEF Linked, ToSet
  <1>3. /\ rqList' \in RqLists
        /\ \E t : Linked(rqList', t, rqClock) /\ ToSet(t) = ToSet(s)
    BY <1>1, <1>2, UpdateLinks DEF ReceiverInv, ReceiverTypes
  <1>4. InList' = InList
    BY DEF InList
  <1> QED BY <1>1, <1>3, <1>4 DEF ReceiverInv, LinksSound

\* A socket that is no longer healthy leaves when its turn comes.
LEMMA LeaveKeepsLinks ==
    ASSUME ReceiverInv, NEW u \in InList, rqList' = ListRemove(rqList, u),
           rqHash' = HashRemove(rqHash, u), rqOnList' = [rqOnList EXCEPT ![u] = FALSE],
           UNCHANGED <<rqNew, rqClock>>
    PROVE  /\ LinksSound' /\ rqList' \in RqLists /\ rqOnList' \in [RqSocks -> BOOLEAN]
           /\ rqHash' \in [0..Buckets - 1 -> Seq(RqSocks)]
  <1>1. PICK s : Linked(rqList, s, rqClock) /\ ToSet(s) = InList
    BY DEF ReceiverInv, LinksSound
  <1>2. PICK i \in 1..Len(s) : s[i] = u
    BY <1>1 DEF Linked, ToSet
  <1>3. /\ rqList' \in RqLists /\ Linked(rqList', RemoveAt(s, i), rqClock)
        /\ ToSet(RemoveAt(s, i)) = InList \ {u}
    <2>1. s \in Seq(RqSocks) /\ IsInjective(s)
      BY <1>1 DEF Linked
    <2> QED BY <1>1, <1>2, <2>1, RemoveLinks, PlaceLeft DEF ReceiverInv, ReceiverTypes
  <1>4. u \in RqSocks /\ u \notin ToSet(rqNew)
    BY DEF InList
  <1>5. rqOnList' \in [RqSocks -> BOOLEAN] /\ \A v \in RqSocks : rqOnList'[v] <=> rqOnList[v] /\ v # u
    BY <1>4 DEF ReceiverInv, ReceiverTypes
  <1>6. InList' = InList \ {u}
    BY <1>4, <1>5 DEF InList
  <1> PICK b \in 0..Buckets - 1 : b = BucketOf(u)
    BY <1>4, BucketInHash
  <1> PICK c : c = RemoveFirst(rqHash[b], u)
    OBVIOUS
  <1>7. /\ c \in Seq(RqSocks) /\ IsInjective(c)
        /\ ToSet(c) = {v \in InList : BucketOf(v) = b} \ {u}
    <2>1. /\ rqHash[b] \in Seq(RqSocks) /\ IsInjective(rqHash[b])
          /\ ToSet(rqHash[b]) = {v \in InList : BucketOf(v) = b}
      BY DEF ReceiverInv, ReceiverTypes, LinksSound
    <2> QED BY <2>1, FirstRemoved
  <1>8. rqHash' \in [0..Buckets - 1 -> Seq(RqSocks)]
         /\ \A a \in 0..Buckets - 1 : rqHash'[a] = IF a = b THEN c ELSE rqHash[a]
    BY <1>7 DEF HashRemove, ReceiverInv, ReceiverTypes
  <1>9. \A a \in 0..Buckets - 1 :
            IsInjective(rqHash'[a]) /\ ToSet(rqHash'[a]) = {v \in InList' : BucketOf(v) = a}
    <2> TAKE a \in 0..Buckets - 1
    <2>1. CASE a = b
      BY <1>6, <1>7, <1>8, <2>1
    <2>2. CASE a # b
      BY <1>6, <1>8, <2>2 DEF ReceiverInv, LinksSound
    <2> QED BY <2>1, <2>2
  <1>10. ToSet(rqNew') \subseteq {v \in RqSocks : rqOnList'[v]}
    BY <1>4, <1>5 DEF ReceiverInv, LinksSound
  <1>11. \E t : Linked(rqList', t, rqClock') /\ ToSet(t) = InList'
    BY <1>3, <1>6
  <1>12. IsInjective(rqNew')
    BY DEF ReceiverInv, LinksSound
  <1> QED BY <1>3, <1>5, <1>8, <1>9, <1>10, <1>11, <1>12 DEF LinksSound, BucketOf

\* The head of the list is a socket that is linked.
LEMMA HeadIsListed == ASSUME ReceiverInv, rqList.head # 0 PROVE rqList.head \in InList
  <1>1. PICK s : Linked(rqList, s, rqClock) /\ ToSet(s) = InList
    BY DEF ReceiverInv, LinksSound
  <1>2. s \in Seq(RqSocks) /\ Len(s) \in Nat /\ Len(s) # 0 /\ rqList.head = s[1]
    BY <1>1, LenProperties DEF Linked
  <1>3. 1 \in DOMAIN s
    BY <1>2
  <1> QED BY <1>1, <1>2, <1>3 DEF ToSet

-----------------------------------------------------------------------------
(* The steps and the sockets in the tables.                                *)

\* A socket has one connector at most, which remove takes out.
LEMMA ConnectorGone ==
    ASSUME ReceiverInv, NEW u, RemoveConnector(u)
    PROVE  /\ rqConns' \in Seq([id : RqSocks, ttl : Nat]) /\ rqStored' \subseteq RqSocks
           /\ \A i, j \in DOMAIN rqConns' : rqConns'[i].id = rqConns'[j].id => i = j
           /\ \A i \in DOMAIN rqConns' :
                 rqConns'[i].id # u /\ \E j \in DOMAIN rqConns : rqConns'[i].id = rqConns[j].id
  <1> PICK c : c = rqConns
    OBVIOUS
  <1>1. /\ c \in Seq([id : RqSocks, ttl : Nat])
        /\ \A i, j \in DOMAIN c : c[i].id = c[j].id => i = j
        /\ DOMAIN c = 1..Len(c) /\ Len(c) \in Nat
    BY LenProperties DEF ReceiverInv, ReceiverTypes, HoldersSound
  <1>0. rqStored' \subseteq RqSocks
    BY DEF RemoveConnector, ReceiverInv, ReceiverTypes
  <1>2. rqConns' = RemoveFirstMatch(c, LAMBDA r : r.id = u)
    BY DEF RemoveConnector, ReceiverInv, ReceiverTypes
  <1>3. CASE \E i \in 1..Len(c) : c[i].id = u
    <2>1. PICK i \in 1..Len(c) : c[i].id = u
      BY <1>3
    <2>2. {j \in 1..Len(c) : c[j].id = u} = {i}
      BY <1>1, <2>1
    <2>3. Min({i}) = i
      BY DEF Min
    <2>4. SelectInSeq(c, LAMBDA r : r.id = u) = i
      BY <2>2, <2>3 DEF SelectInSeq
    <2>5. rqConns' = RemoveAt(c, i)
      BY <1>2, <1>3, <2>4 DEF RemoveFirstMatch
    <2> PICK d : d = rqConns'
      OBVIOUS
    <2> PICK S : S = [id : RqSocks, ttl : Nat]
      OBVIOUS
    <2>6. /\ d \in Seq(S) /\ Len(d) = Len(c) - 1
          /\ \A k \in 1..Len(c) - 1 : d[k] = IF k < i THEN c[k] ELSE c[k + 1]
      <3>1. c \in Seq(S) /\ d = RemoveAt(c, i)
        BY <1>1, <2>5
      <3> QED BY <3>1, PlaceRemoved
    <2>7. ASSUME NEW k \in 1..Len(d)
          PROVE  \E j \in 1..Len(c) : d[k] = c[j] /\ j # i /\ j = IF k < i THEN k ELSE k + 1
      <3>1. CASE k < i
        BY <1>1, <2>6, <3>1
      <3>2. CASE k >= i
        <4>1. k + 1 \in 1..Len(c) /\ d[k] = c[k + 1] /\ k + 1 # i
          BY <1>1, <2>6, <3>2
        <4> QED BY <3>2, <4>1
      <3> QED BY <1>1, <2>6, <3>1, <3>2
    <2>8. DOMAIN d = 1..Len(d)
      BY <2>6
    <2>9. \A k, m \in DOMAIN d : d[k].id = d[m].id => k = m
      <3> SUFFICES ASSUME NEW k \in 1..Len(d), NEW m \in 1..Len(d), d[k].id = d[m].id PROVE k = m
        BY <2>8
      <3>1. PICK j \in 1..Len(c) : d[k] = c[j] /\ j = IF k < i THEN k ELSE k + 1
        BY <2>7
      <3>2. PICK n \in 1..Len(c) : d[m] = c[n] /\ n = IF m < i THEN m ELSE m + 1
        BY <2>7
      <3>3. c[j].id = c[n].id /\ j \in DOMAIN c /\ n \in DOMAIN c
        BY <1>1, <3>1, <3>2
      <3>4. j = n
        BY <1>1, <3>3
      <3> QED BY <3>1, <3>2, <3>4
    <2>10. \A k \in DOMAIN d : d[k].id # u /\ \E j \in DOMAIN c : d[k].id = c[j].id
      <3> SUFFICES ASSUME NEW k \in 1..Len(d)
                   PROVE  d[k].id # u /\ \E j \in DOMAIN c : d[k].id = c[j].id
        BY <2>8
      <3>1. PICK j \in 1..Len(c) : d[k] = c[j] /\ j # i
        BY <2>7
      <3>2. c[j].id # c[i].id
        BY <1>1, <3>1
      <3> QED BY <1>1, <2>1, <3>1, <3>2
    <2>11. d \in Seq([id : RqSocks, ttl : Nat]) /\ rqConns' = d
      BY <2>6
    <2> QED BY <1>0, <2>9, <2>10, <2>11
  <1>4. CASE ~\E i \in 1..Len(c) : c[i].id = u
    <2>1. rqConns' = c
      BY <1>2, <1>4 DEF RemoveFirstMatch
    <2> QED BY <1>0, <1>1, <1>4, <2>1
  <1> QED BY <1>3, <1>4

LEMMA ConnectorsAreSocks ==
    ASSUME ReceiverInv, NEW i \in DOMAIN rqConns PROVE rqConns[i].id \in RqSocks
  <1> PICK S : S = [id : RqSocks, ttl : Nat]
    OBVIOUS
  <1>1. rqConns \in Seq(S)
    BY DEF ReceiverInv, ReceiverTypes
  <1>2. DOMAIN rqConns = 1..Len(rqConns)
    BY <1>1, LenProperties
  <1>3. rqConns[i] \in S
    BY <1>1, <1>2, ElementOfSeq
  <1> QED BY <1>3

\* The steps that change neither the list nor the hash table nor the connectors.

LEMMA RqListenKeeps ==
    ASSUME ReceiverInv, NEW u \in RqSocks, RqListen(u) PROVE ReceiverInv'
  <1>1. LinksSound'
    BY LinksRest DEF RqListen, ReceiverInv, ReceiverTypes
  <1>2. ReceiverTypes'
    BY RqSocksPositive DEF RqListen, ReceiverInv, ReceiverTypes, rqTables, rqApi, RqLinks
  <1>3. HoldersSound'
    <2>1. /\ \A v \in RqSocks : rqState'[v] = IF v = u THEN "listening" ELSE rqState[v]
          /\ rqState[u] = "new" /\ rqListener' = u /\ rqHeld' = rqHeld /\ rqPc' = rqPc
          /\ rqOnList' = rqOnList /\ rqConns' = rqConns /\ rqClock' = rqClock
          /\ rqTries' = rqTries /\ rqClosing' = rqClosing /\ rqClosedAt' = rqClosedAt
          /\ rqLingers' = rqLingers
      BY DEF RqListen, rqTables, rqApi, ReceiverInv, ReceiverTypes
    <2>2. u \notin rqClosing
      BY DEF RqListen, ReceiverInv, HoldersSound
    <2>3. \A i \in DOMAIN rqConns : rqConns[i].id \in RqSocks /\ rqConns[i].id # u
      BY <2>1, ConnectorsAreSocks DEF ReceiverInv, HoldersSound
    <2>4. rqHeld # 0 => rqHeld \in RqSocks
      BY DEF ReceiverInv, ReceiverTypes, RqLinks
    <2> QED BY <2>1, <2>2, <2>3, <2>4 DEF ReceiverInv, HoldersSound
  <1> QED BY <1>1, <1>2, <1>3 DEF ReceiverInv

LEMMA RqLingerKeeps ==
    ASSUME ReceiverInv, NEW u \in RqSocks, RqLinger(u) PROVE ReceiverInv'
  <1>1. LinksSound'
    BY LinksRest DEF RqLinger, ReceiverInv, ReceiverTypes
  <1>2. ReceiverTypes'
    BY RqSocksPositive DEF RqLinger, ReceiverInv, ReceiverTypes, rqTables, rqApi, RqLinks
  <1>3. HoldersSound'
    BY RqSocksPositive DEF RqLinger, ReceiverInv, ReceiverTypes, HoldersSound, rqTables, rqApi, RqLinks
  <1> QED BY <1>1, <1>2, <1>3 DEF ReceiverInv

LEMMA RqLingerEndsKeeps ==
    ASSUME ReceiverInv, NEW u \in RqSocks, RqLingerEnds(u) PROVE ReceiverInv'
  <1>1. LinksSound'
    BY LinksRest DEF RqLingerEnds, ReceiverInv, ReceiverTypes
  <1>2. ReceiverTypes'
    BY RqSocksPositive DEF RqLingerEnds, ReceiverInv, ReceiverTypes, rqTables, rqApi, RqLinks
  <1>3. HoldersSound'
    BY RqSocksPositive DEF RqLingerEnds, ReceiverInv, ReceiverTypes, HoldersSound, rqTables, rqApi, RqLinks
  <1> QED BY <1>1, <1>2, <1>3 DEF ReceiverInv

LEMMA RqCollectKeeps ==
    ASSUME ReceiverInv, NEW u \in RqSocks, RqCollect(u) PROVE ReceiverInv'
  <1>1. LinksSound'
    BY LinksRest DEF RqCollect, ReceiverInv, ReceiverTypes
  <1>2. ReceiverTypes'
    BY RqSocksPositive DEF RqCollect, ReceiverInv, ReceiverTypes, rqTables, rqApi, RqLinks
  <1>3. HoldersSound'
    BY RqSocksPositive DEF RqCollect, ReceiverInv, ReceiverTypes, HoldersSound, rqTables, rqApi, RqLinks
  <1> QED BY <1>1, <1>2, <1>3 DEF ReceiverInv

LEMMA RqEnteredKeeps ==
    ASSUME ReceiverInv, RqEntered PROVE ReceiverInv'
  <1>1. LinksSound'
    BY LinksRest DEF RqEntered, ReceiverInv, ReceiverTypes
  <1>2. ReceiverTypes'
    BY RqSocksPositive DEF RqEntered, ReceiverInv, ReceiverTypes, rqTables, rqApi, RqLinks
  <1>3. HoldersSound'
    BY RqSocksPositive DEF RqEntered, ReceiverInv, ReceiverTypes, HoldersSound, rqTables, rqApi, RqLinks
  <1> QED BY <1>1, <1>2, <1>3 DEF ReceiverInv

LEMMA RqNoPacketKeeps ==
    ASSUME ReceiverInv, RqNoPacket PROVE ReceiverInv'
  <1>1. LinksSound'
    BY LinksRest DEF RqNoPacket, ReceiverInv, ReceiverTypes
  <1>2. ReceiverTypes'
    BY RqSocksPositive DEF RqNoPacket, ReceiverInv, ReceiverTypes, rqTables, rqApi, RqLinks
  <1>3. HoldersSound'
    BY RqSocksPositive DEF RqNoPacket, ReceiverInv, ReceiverTypes, HoldersSound, rqTables, rqApi, RqLinks
  <1> QED BY <1>1, <1>2, <1>3 DEF ReceiverInv

LEMMA RqResponseKeeps ==
    ASSUME ReceiverInv, NEW i \in Nat, RqResponse(i) PROVE ReceiverInv'
  <1>0. rqConns[i].id \in RqSocks /\ i \in DOMAIN rqConns
    BY ConnectorsAreSocks DEF RqResponse
  <1>1. LinksSound'
    BY SMTT(30), LinksRest DEF RqResponse, ReceiverInv, ReceiverTypes
  <1>2. ReceiverTypes'
    BY <1>0 DEF RqResponse, ReceiverInv, ReceiverTypes, rqTables, rqApi, RqLinks
  <1>3. HoldersSound'
    BY <1>0, RqSocksPositive DEF RqResponse, ReceiverInv, ReceiverTypes, HoldersSound, rqTables, rqApi
  <1> QED BY <1>1, <1>2, <1>3 DEF ReceiverInv

LEMMA RqUpdateConnsKeeps ==
    ASSUME ReceiverInv, RqUpdateConns PROVE ReceiverInv'
  <1>1. LinksSound'
    BY LinksRest DEF RqUpdateConns, ReceiverInv, ReceiverTypes
  <1>2. ReceiverTypes'
    BY RqSocksPositive DEF RqUpdateConns, ReceiverInv, ReceiverTypes, rqTables, rqApi, RqLinks
  <1>3. HoldersSound'
    <2>0. \A v \in RqSocks : rqState'[v] = rqState[v]
                              \/ (rqState[v] = "connecting" /\ rqState'[v] = "expired")
      <3>1. PICK late : rqState' = [u \in RqSocks |->
                  IF u \in late /\ rqState[u] = "connecting" THEN "expired" ELSE rqState[u]]
        BY DEF RqUpdateConns
      <3> QED BY <3>1
    <2>1. /\ rqListener' = rqListener /\ rqHeld' = rqHeld /\ rqPc' # "connect" /\ rqPc # "connect"
          /\ rqOnList' = rqOnList /\ rqConns' = rqConns /\ rqClock' = rqClock
          /\ rqTries' = rqTries /\ rqClosing' = rqClosing /\ rqClosedAt' = rqClosedAt
          /\ rqLingers' = rqLingers
      BY DEF RqUpdateConns, rqTables, rqApi, ReceiverInv, ReceiverTypes
    <2>2. \A i \in DOMAIN rqConns : rqConns[i].id \in RqSocks
      BY ConnectorsAreSocks
    <2> QED BY <2>0, <2>1, <2>2 DEF ReceiverInv, HoldersSound
  <1> QED BY <1>1, <1>2, <1>3 DEF ReceiverInv

LEMMA RqTickKeeps ==
    ASSUME ReceiverInv, RqTick PROVE ReceiverInv'
  <1>1. LinksSound'
    BY LinksRest DEF RqTick, ReceiverInv, ReceiverTypes
  <1>2. ReceiverTypes'
    BY RqSocksPositive DEF RqTick, ReceiverInv, ReceiverTypes, rqTables, rqApi, RqLinks
  <1>3. HoldersSound'
    BY RqSocksPositive DEF RqTick, ReceiverInv, ReceiverTypes, HoldersSound, rqTables, rqApi, RqLinks
  <1> QED BY <1>1, <1>2, <1>3 DEF ReceiverInv


LEMMA RqCloseFacts ==
    ASSUME ReceiverInv, NEW u \in RqSocks, CloseSock(u)
    PROVE  /\ rqClosing' = rqClosing \cup {u} /\ rqListener' \in {0, rqListener} /\ rqListener' # u
           /\ rqConns' \in Seq([id : RqSocks, ttl : Nat]) /\ rqStored' \subseteq RqSocks
           /\ \A i, j \in DOMAIN rqConns' : rqConns'[i].id = rqConns'[j].id => i = j
           /\ \A i \in DOMAIN rqConns' :
                 rqConns'[i].id # u /\ \E j \in DOMAIN rqConns : rqConns'[i].id = rqConns[j].id
  <1>1. u # 0
    BY RqSocksPositive
  <1>2. CASE rqState[u] = "listening"
    <2>1. \A i \in DOMAIN rqConns : rqConns[i].id # u
      BY <1>2 DEF ReceiverInv, HoldersSound
    <2> QED BY <1>1, <1>2, <2>1 DEF CloseSock, ReceiverInv, ReceiverTypes, HoldersSound
  <1>3. CASE rqState[u] # "listening"
    <2>1. RemoveConnector(u) /\ rqListener' = rqListener /\ rqClosing' = rqClosing \cup {u}
      BY <1>3 DEF CloseSock
    <2>2. rqListener # u
      BY <1>3 DEF ReceiverInv, HoldersSound
    <2> QED BY <2>1, <2>2, ConnectorGone
  <1> QED BY <1>2, <1>3

\* A connector of another socket stays as it was.
LEMMA ConnectorsKept ==
    ASSUME ReceiverInv, NEW u \in RqSocks,
           \A v \in RqSocks \ {u} : /\ rqState'[v] = rqState[v] /\ rqTries'[v] = rqTries[v]
                                    /\ (v \in rqClosing' <=> v \in rqClosing)
                                    /\ rqClosedAt'[v] = rqClosedAt[v],
           \A i \in DOMAIN rqConns' :
              rqConns'[i].id # u /\ \E j \in DOMAIN rqConns : rqConns'[i].id = rqConns[j].id
    PROVE  \A i \in DOMAIN rqConns' :
              LET v == rqConns'[i].id IN
              /\ rqState'[v] \in {"connecting", "expired"} /\ rqTries'[v] >= 1
              /\ v \notin rqClosing' /\ rqClosedAt'[v] = 0
  <1> SUFFICES ASSUME NEW i \in DOMAIN rqConns', NEW v, v = rqConns'[i].id
               PROVE  /\ rqState'[v] \in {"connecting", "expired"} /\ rqTries'[v] >= 1
                      /\ v \notin rqClosing' /\ rqClosedAt'[v] = 0
    OBVIOUS
  <1>1. PICK j \in DOMAIN rqConns : v = rqConns[j].id
    OBVIOUS
  <1>2. v \in RqSocks /\ v # u
    BY <1>1, ConnectorsAreSocks
  <1>3. /\ rqState[v] \in {"connecting", "expired"} /\ rqTries[v] >= 1
        /\ v \notin rqClosing /\ rqClosedAt[v] = 0
    BY <1>1 DEF ReceiverInv, HoldersSound
  <1> QED BY <1>2, <1>3

LEMMA RqCloseKeeps == ASSUME ReceiverInv, NEW u \in AppSocks, RqClose(u) PROVE ReceiverInv'
  <1>0. u \in RqSocks /\ CloseSock(u)
    BY DEF RqSocks, RqClose
  <1>1. LinksSound'
    BY LinksRest DEF RqClose, ReceiverInv, ReceiverTypes
  <1>2. ReceiverTypes'
    <2>1. /\ rqConns' \in Seq([id : RqSocks, ttl : Nat]) /\ rqStored' \subseteq RqSocks
          /\ rqClosing' = rqClosing \cup {u} /\ rqListener' \in {0, rqListener}
      BY <1>0, RqCloseFacts
    <2>2. rqClosing' \subseteq RqSocks /\ rqListener' \in RqLinks
      BY <1>0, <2>1 DEF ReceiverInv, ReceiverTypes, RqLinks
    <2> QED BY <1>0, <2>1, <2>2 DEF RqClose, ReceiverInv, ReceiverTypes, rqTables
  <1>3. HoldersSound'
    <2>1. /\ \A v \in RqSocks : rqState'[v] = IF v = u /\ rqState[u] \in {"connected", "listening"}
                                                THEN "closed" ELSE rqState[v]
          /\ \A v \in RqSocks : rqClosedAt'[v] = IF v = u THEN rqClock ELSE rqClosedAt[v]
          /\ rqOnList' = rqOnList /\ rqTries' = rqTries /\ rqLingers' = rqLingers
          /\ rqPc' = rqPc /\ rqHeld' = rqHeld /\ rqClock' = rqClock /\ rqState[u] # "gone"
          /\ rqClosedAt[u] = 0 /\ rqClock # 0
      BY <1>0 DEF RqClose, ReceiverInv, ReceiverTypes, rqTables
    <2>2. \A i \in DOMAIN rqConns' :
             LET v == rqConns'[i].id IN
             /\ rqState'[v] \in {"connecting", "expired"} /\ rqTries'[v] >= 1
             /\ v \notin rqClosing' /\ rqClosedAt'[v] = 0
      BY <1>0, <2>1, RqCloseFacts, ConnectorsKept
    <2>3. u \notin rqLingers
      BY <1>0, <2>1 DEF ReceiverInv, HoldersSound
    <2>4. \A v \in RqSocks :
             /\ rqOnList'[v] => rqState'[v] \in {"connected", "broken", "closed"}
             /\ v \in rqLingers' => rqState'[v] \in {"connected", "broken"} /\ rqClosedAt'[v] # 0
             /\ rqListener' = v => rqState'[v] = "listening" /\ v \notin rqClosing'
             /\ v \in rqClosing' => rqClosedAt'[v] # 0
      BY <1>0, <2>1, <2>3, RqCloseFacts, RqSocksPositive DEF ReceiverInv, HoldersSound
    <2>5. /\ rqHeld' # 0 => rqState'[rqHeld'] # "gone" /\ rqClosedAt'[rqHeld'] \in {0, rqClock'}
          /\ rqPc' = "connect" <=> rqHeld' # 0
      BY <2>1 DEF ReceiverInv, HoldersSound, ReceiverTypes, RqLinks
    <2>6. \A i, j \in DOMAIN rqConns' : rqConns'[i].id = rqConns'[j].id => i = j
      BY <1>0, RqCloseFacts
    <2> QED BY <2>2, <2>4, <2>5, <2>6 DEF HoldersSound
  <1> QED BY <1>1, <1>2, <1>3 DEF ReceiverInv


LEMMA RqDestroyKeeps == ASSUME ReceiverInv, NEW u \in RqSocks, RqDestroy(u) PROVE ReceiverInv'
  <1>0. /\ Destroyable(u) /\ rqClosedAt[u] # 0 /\ ~rqOnList[u]
        /\ \A v \in RqSocks : rqState'[v] = IF v = u THEN "gone" ELSE rqState[v]
        /\ rqLingers' = rqLingers \ {u} /\ rqTries' = rqTries /\ rqClosedAt' = rqClosedAt
        /\ rqOnList' = rqOnList /\ rqPc' = rqPc /\ rqHeld' = rqHeld /\ rqClock' = rqClock
    BY DEF RqDestroy, Destroyable, rqTables, ReceiverInv, ReceiverTypes
  <1>1. LinksSound'
    BY LinksRest DEF RqDestroy, ReceiverInv, ReceiverTypes
  <1>2. /\ rqClosing' = rqClosing \cup {u} /\ rqListener' \in {0, rqListener} /\ rqListener' # u
        /\ rqConns' \in Seq([id : RqSocks, ttl : Nat]) /\ rqStored' \subseteq RqSocks
        /\ \A i, j \in DOMAIN rqConns' : rqConns'[i].id = rqConns'[j].id => i = j
        /\ \A i \in DOMAIN rqConns' :
              rqConns'[i].id # u /\ \E j \in DOMAIN rqConns : rqConns'[i].id = rqConns[j].id
    <2>1. CASE u \in rqClosing
      <3>1. UNCHANGED <<rqClosing, rqListener, rqConns, rqStored>>
        BY <2>1 DEF RqDestroy
      <3>2. rqListener # u /\ \A i \in DOMAIN rqConns : rqConns[i].id # u
        BY <2>1 DEF ReceiverInv, HoldersSound
      <3>3. /\ rqConns \in Seq([id : RqSocks, ttl : Nat]) /\ rqStored \subseteq RqSocks
            /\ \A i, j \in DOMAIN rqConns : rqConns[i].id = rqConns[j].id => i = j
        BY DEF ReceiverInv, ReceiverTypes, HoldersSound
      <3> QED BY <2>1, <3>1, <3>2, <3>3
    <2>2. CASE u \notin rqClosing
      BY <2>2, RqCloseFacts DEF RqDestroy
    <2> QED BY <2>1, <2>2
  <1>3. ReceiverTypes'
    <2>1. rqClosing' \subseteq RqSocks /\ rqListener' \in RqLinks
      BY <1>2 DEF ReceiverInv, ReceiverTypes, RqLinks
    <2> QED BY <1>2, <2>1 DEF RqDestroy, ReceiverInv, ReceiverTypes, rqTables
  <1>4. HoldersSound'
    <2>1. \A i \in DOMAIN rqConns' :
             LET v == rqConns'[i].id IN
             /\ rqState'[v] \in {"connecting", "expired"} /\ rqTries'[v] >= 1
             /\ v \notin rqClosing' /\ rqClosedAt'[v] = 0
      BY <1>0, <1>2, ConnectorsKept
    <2>2. \A v \in RqSocks :
             /\ rqOnList'[v] => rqState'[v] \in {"connected", "broken", "closed"}
             /\ v \in rqLingers' => rqState'[v] \in {"connected", "broken"} /\ rqClosedAt'[v] # 0
             /\ rqListener' = v => rqState'[v] = "listening" /\ v \notin rqClosing'
             /\ v \in rqClosing' => rqClosedAt'[v] # 0
      BY <1>0, <1>2, RqSocksPositive DEF ReceiverInv, HoldersSound
    <2>3. rqHeld # u
      <3>1. rqClock - rqClosedAt[u] > 0
        BY <1>0, RcvQueueAssumption DEF Destroyable, ReceiverInv, ReceiverTypes
      <3>2. u # 0
        BY RqSocksPositive
      <3> QED BY <1>0, <3>1, <3>2 DEF ReceiverInv, HoldersSound, ReceiverTypes
    <2>4. /\ rqHeld' # 0 => rqState'[rqHeld'] # "gone" /\ rqClosedAt'[rqHeld'] \in {0, rqClock'}
          /\ rqPc' = "connect" <=> rqHeld' # 0
      BY <1>0, <2>3 DEF ReceiverInv, HoldersSound, ReceiverTypes, RqLinks
    <2> QED BY <1>2, <2>1, <2>2, <2>4 DEF HoldersSound
  <1> QED BY <1>1, <1>3, <1>4 DEF ReceiverInv

LEMMA RqConnectKeeps ==
    ASSUME ReceiverInv, NEW u \in AppSocks, RqConnect(u), Tries <= 1 PROVE ReceiverInv'
  <1> PICK c : c = rqConns
    OBVIOUS
  <1> PICK r : r = [id |-> u, ttl |-> rqClock + ConnTTL]
    OBVIOUS
  <1> PICK S : S = [id : RqSocks, ttl : Nat]
    OBVIOUS
  <1>0. /\ u \in RqSocks /\ rqState[u] \in {"new", "expired"} /\ rqTries[u] = 0 /\ rqClosedAt[u] = 0
        /\ \A v \in RqSocks : rqState'[v] = IF v = u THEN "connecting" ELSE rqState[v]
        /\ \A v \in RqSocks : rqTries'[v] = IF v = u THEN 1 ELSE rqTries[v]
        /\ rqClosing' = rqClosing /\ rqClosedAt' = rqClosedAt /\ rqLingers' = rqLingers
        /\ rqListener' = rqListener /\ rqOnList' = rqOnList /\ rqPc' = rqPc /\ rqHeld' = rqHeld
        /\ rqClock' = rqClock /\ rqConns' = Append(c, r)
    BY RcvQueueAssumption DEF RqSocks, RqConnect, rqTables, ReceiverInv, ReceiverTypes
  <1>1. LinksSound'
    BY LinksRest DEF RqConnect, ReceiverInv, ReceiverTypes
  <1>2. c \in Seq(S) /\ r \in S
    BY <1>0, RcvQueueAssumption DEF ReceiverInv, ReceiverTypes
  <1>3. /\ rqConns' \in Seq(S) /\ DOMAIN rqConns' = 1..Len(c) + 1 /\ DOMAIN c = 1..Len(c)
        /\ Len(c) \in Nat
        /\ rqConns'[Len(c) + 1] = r /\ \A i \in 1..Len(c) : rqConns'[i] = c[i]
    BY <1>0, <1>2, AppendProperties, LenProperties
  <1>4. ReceiverTypes'
    BY <1>0, <1>3 DEF RqConnect, ReceiverInv, ReceiverTypes, rqTables
  <1>5. \A i \in DOMAIN c : /\ c[i].id # u /\ c[i].id \in RqSocks
    BY <1>0, ConnectorsAreSocks DEF ReceiverInv, HoldersSound
  <1>6. r.id = u
    OBVIOUS
  <1>7. HoldersSound'
    <2>1. \A i, j \in DOMAIN rqConns' : rqConns'[i].id = rqConns'[j].id => i = j
      BY <1>3, <1>5, <1>6 DEF ReceiverInv, HoldersSound
    <2>2. \A i \in DOMAIN rqConns' :
             LET v == rqConns'[i].id IN
             /\ rqState'[v] \in {"connecting", "expired"} /\ rqTries'[v] >= 1
             /\ v \notin rqClosing' /\ rqClosedAt'[v] = 0
      <3> TAKE i \in DOMAIN rqConns'
      <3>1. CASE i = Len(c) + 1
        BY <1>0, <1>3, <1>6, <3>1 DEF ReceiverInv, HoldersSound
      <3>2. CASE i \in 1..Len(c)
        <4> PICK v : v = c[i].id
          OBVIOUS
        <4>1. /\ rqState[v] \in {"connecting", "expired"} /\ rqTries[v] >= 1
              /\ v \notin rqClosing /\ rqClosedAt[v] = 0
          BY <1>3, <3>2 DEF ReceiverInv, HoldersSound
        <4> QED BY <1>0, <1>3, <1>5, <3>2, <4>1
      <3> QED BY <1>3, <3>1, <3>2
    <2>3. \A v \in RqSocks :
             /\ rqOnList'[v] => rqState'[v] \in {"connected", "broken", "closed"}
             /\ v \in rqLingers' => rqState'[v] \in {"connected", "broken"} /\ rqClosedAt'[v] # 0
             /\ rqListener' = v => rqState'[v] = "listening" /\ v \notin rqClosing'
             /\ v \in rqClosing' => rqClosedAt'[v] # 0
      BY <1>0 DEF ReceiverInv, HoldersSound
    <2>4. /\ rqHeld' # 0 => rqState'[rqHeld'] # "gone" /\ rqClosedAt'[rqHeld'] \in {0, rqClock'}
          /\ rqPc' = "connect" <=> rqHeld' # 0
      BY <1>0 DEF ReceiverInv, HoldersSound, ReceiverTypes, RqLinks
    <2> QED BY <2>1, <2>2, <2>3, <2>4 DEF HoldersSound
  <1> QED BY <1>1, <1>4, <1>7 DEF ReceiverInv


\* The end of connect and of accept.  It may have been closed meanwhile.
LEMMA NewEntryKeeps ==
    ASSUME ReceiverInv, NEW u \in RqSocks, SetNewEntry(u),
           rqState[u] \in {"new", "connecting"},
           UNCHANGED <<rqApi, rqListener, rqList, rqHash, rqClock>>,
           rqConns' \in Seq([id : RqSocks, ttl : Nat]), rqStored' \subseteq RqSocks,
           \A i, j \in DOMAIN rqConns' : rqConns'[i].id = rqConns'[j].id => i = j,
           \A i \in DOMAIN rqConns' :
              rqConns'[i].id # u /\ \E j \in DOMAIN rqConns : rqConns'[i].id = rqConns[j].id,
           rqPc' \in {"entries", "packet", "connect", "check"}, rqHeld' \in {0, rqHeld},
           rqPc' = "connect" <=> rqHeld' # 0
    PROVE  ReceiverInv'
  <1>0. /\ ~rqOnList[u]
        /\ \A v \in RqSocks : rqState'[v] = IF v = u THEN "connected" ELSE rqState[v]
        /\ \A v \in RqSocks : rqOnList'[v] = IF v = u THEN TRUE ELSE rqOnList[v]
        /\ rqClosing' = rqClosing /\ rqClosedAt' = rqClosedAt /\ rqLingers' = rqLingers
        /\ rqListener' = rqListener /\ rqTries' = rqTries /\ rqClock' = rqClock
    BY DEF SetNewEntry, rqApi, ReceiverInv, ReceiverTypes, HoldersSound
  <1>1. LinksSound' /\ rqNew' \in Seq(RqSocks) /\ rqOnList' \in [RqSocks -> BOOLEAN]
    BY <1>0, NewEntryLinks
  <1>2. rqState' \in [RqSocks -> {"new", "listening", "connecting", "expired", "connected",
                                  "broken", "closed", "gone"}]
    BY DEF SetNewEntry, ReceiverInv, ReceiverTypes
  <1>3. ReceiverTypes'
    BY <1>1, <1>2 DEF ReceiverInv, ReceiverTypes, rqApi, RqLinks
  <1>4. \A i \in DOMAIN rqConns' :
           LET v == rqConns'[i].id IN
           /\ rqState'[v] \in {"connecting", "expired"} /\ rqTries'[v] >= 1
           /\ v \notin rqClosing' /\ rqClosedAt'[v] = 0
    BY <1>0, ConnectorsKept
  <1>5. \A v \in RqSocks :
           /\ rqOnList'[v] => rqState'[v] \in {"connected", "broken", "closed"}
           /\ v \in rqLingers' => rqState'[v] \in {"connected", "broken"} /\ rqClosedAt'[v] # 0
           /\ rqListener' = v => rqState'[v] = "listening" /\ v \notin rqClosing'
           /\ v \in rqClosing' => rqClosedAt'[v] # 0
    BY ZenonT(30), <1>0 DEF ReceiverInv, HoldersSound
  <1>6. rqHeld' # 0 => rqState'[rqHeld'] # "gone" /\ rqClosedAt'[rqHeld'] \in {0, rqClock'}
    BY <1>0 DEF ReceiverInv, HoldersSound, ReceiverTypes, RqLinks
  <1>7. HoldersSound'
    BY <1>4, <1>5, <1>6 DEF HoldersSound
  <1> QED BY <1>1, <1>3, <1>7 DEF ReceiverInv

LEMMA RqSyncConnectedKeeps ==
    ASSUME ReceiverInv, NEW u \in AppSocks, RqSyncConnected(u) PROVE ReceiverInv'
  <1>1. u \in RqSocks /\ RemoveConnector(u) /\ SetNewEntry(u) /\ rqState[u] = "connecting"
        /\ UNCHANGED <<rqApi, rqListener, rqList, rqHash, rqPc, rqHeld, rqClock>>
    BY DEF RqSyncConnected, RqSocks
  <1>2. rqPc \in {"entries", "packet", "connect", "check"} /\ (rqPc = "connect" <=> rqHeld # 0)
    BY DEF ReceiverInv, ReceiverTypes, HoldersSound
  <1> QED BY <1>1, <1>2, ConnectorGone, NewEntryKeeps

LEMMA RqAcceptKeeps ==
    ASSUME ReceiverInv, NEW u \in RqSocks, RqAccept(u) PROVE ReceiverInv'
  <1>1. SetNewEntry(u) /\ rqState[u] = "new" /\ rqPc' = "check" /\ rqPc = "packet"
        /\ UNCHANGED <<rqApi, rqListener, rqList, rqHash, rqConns, rqStored, rqHeld, rqClock>>
    BY DEF RqAccept
  <1>2. /\ rqConns \in Seq([id : RqSocks, ttl : Nat]) /\ rqStored \subseteq RqSocks
        /\ \A i, j \in DOMAIN rqConns : rqConns[i].id = rqConns[j].id => i = j
        /\ \A i \in DOMAIN rqConns : rqConns[i].id # u
        /\ rqHeld = 0
    BY <1>1 DEF ReceiverInv, ReceiverTypes, HoldersSound
  <1> QED BY <1>1, <1>2, NewEntryKeeps

LEMMA RqAsyncConnectedKeeps ==
    ASSUME ReceiverInv, RqAsyncConnected PROVE ReceiverInv'
  <1> PICK u : u = rqHeld
    OBVIOUS
  <1>1. /\ u \in RqSocks /\ rqPc' = "check" /\ rqHeld' = 0
        /\ UNCHANGED <<rqApi, rqListener, rqList, rqHash, rqClock>>
    BY DEF RqAsyncConnected, ReceiverInv, ReceiverTypes, HoldersSound, RqLinks
  <1>2. CASE rqState[u] = "connecting"
    <2>1. RemoveConnector(u) /\ SetNewEntry(u)
      BY <1>2 DEF RqAsyncConnected
    <2> QED BY <1>1, <1>2, <2>1, ConnectorGone, NewEntryKeeps
  <1>3. CASE rqState[u] # "connecting"
    <2>1. UNCHANGED <<rqConns, rqStored, rqState, rqOnList, rqNew>>
      BY <1>3 DEF RqAsyncConnected
    <2>2. LinksSound'
      BY <1>1, <2>1, LinksRest DEF rqTables, ReceiverInv, ReceiverTypes
    <2>3. ReceiverTypes'
      BY <1>1, <2>1 DEF ReceiverInv, ReceiverTypes, rqApi, RqLinks
    <2>4. HoldersSound'
      BY <1>1, <2>1 DEF ReceiverInv, HoldersSound, rqApi
    <2> QED BY <2>2, <2>3, <2>4 DEF ReceiverInv
  <1> QED BY <1>2, <1>3

LEMMA RqEntryKeeps == ASSUME ReceiverInv, RqEntry PROVE ReceiverInv'
  <1>1. ReceiverTypes'
    BY EntryLinks DEF RqEntry, ReceiverInv, ReceiverTypes, rqApi
  <1>2. HoldersSound'
    BY DEF RqEntry, ReceiverInv, HoldersSound, rqApi
  <1> QED BY <1>1, <1>2, EntryLinks DEF ReceiverInv

\* A connection is used by the thread, and may break in its hands.
LEMMA UseKeeps ==
    ASSUME ReceiverInv, NEW u \in InList, NEW after \in {"connected", "broken"}, Healthy(u),
           rqState' = [rqState EXCEPT ![u] = after], rqList' = ListUpdate(rqList, u, rqClock),
           UNCHANGED <<rqApi, rqListener, rqOnList, rqNew, rqHash, rqConns, rqStored, rqHeld, rqClock>>,
           rqPc' = "check" /\ rqPc # "connect"
    PROVE  ReceiverInv'
  <1>1. LinksSound' /\ rqList' \in RqLists
    BY UpdateKeepsLinks
  <1>2. u \in RqSocks /\ rqState[u] = "connected"
    BY DEF InList, Healthy
  <1>3. ReceiverTypes'
    BY <1>1, <1>2 DEF ReceiverInv, ReceiverTypes, rqApi
  <1>4. \A v \in RqSocks : rqState'[v] = IF v = u THEN after ELSE rqState[v]
    BY <1>2 DEF ReceiverInv, ReceiverTypes
  <1>5. HoldersSound'
    <2>1. \A i \in DOMAIN rqConns : rqConns[i].id \in RqSocks
      BY ConnectorsAreSocks
    <2> QED BY <1>2, <1>4, <2>1 DEF ReceiverInv, HoldersSound, rqApi
  <1> QED BY <1>1, <1>3, <1>5 DEF ReceiverInv

LEMMA RqPacketKeeps == ASSUME ReceiverInv, NEW u \in RqSocks, RqPacket(u) PROVE ReceiverInv'
  <1>1. u \in InList
    BY FoundIsListed DEF RqPacket
  <1> QED BY <1>1, UseKeeps DEF RqPacket

LEMMA RqCheckKeeps == ASSUME ReceiverInv, RqCheck PROVE ReceiverInv'
  <1> PICK u : u = rqList.head
    OBVIOUS
  <1>1. u \in InList /\ u \in RqSocks
    BY HeadIsListed DEF RqCheck, TimerDue, InList
  <1>2. CASE Healthy(u)
    BY <1>1, <1>2, UseKeeps DEF RqCheck
  <1>3. CASE ~Healthy(u)
    <2>1. /\ rqHash' = HashRemove(rqHash, u) /\ rqList' = ListRemove(rqList, u)
          /\ rqOnList' = [rqOnList EXCEPT ![u] = FALSE] /\ UNCHANGED rqState
          /\ UNCHANGED <<rqApi, rqListener, rqNew, rqConns, rqStored, rqPc, rqHeld, rqClock>>
      BY <1>3 DEF RqCheck
    <2>2. /\ LinksSound' /\ rqList' \in RqLists /\ rqOnList' \in [RqSocks -> BOOLEAN]
          /\ rqHash' \in [0..Buckets - 1 -> Seq(RqSocks)]
      BY <1>1, <2>1, LeaveKeepsLinks
    <2>3. ReceiverTypes'
      BY <2>1, <2>2 DEF ReceiverInv, ReceiverTypes, rqApi
    <2>4. \A v \in RqSocks : rqOnList'[v] => rqOnList[v]
      BY <1>1, <2>1 DEF ReceiverInv, ReceiverTypes
    <2>5. HoldersSound'
      BY <2>1, <2>4 DEF ReceiverInv, HoldersSound, rqApi
    <2> QED BY <2>2, <2>3, <2>5 DEF ReceiverInv
  <1> QED BY <1>2, <1>3

LEMMA ReceiverStep == ASSUME ReceiverInv, RcvQueueNext, Tries <= 1 PROVE ReceiverInv'
  <1>1. ASSUME NEW u \in AppSocks, RqListen(u) \/ RqConnect(u) \/ RqSyncConnected(u) \/ RqClose(u)
        PROVE  ReceiverInv'
    <2>1. u \in RqSocks
      BY DEF RqSocks
    <2> QED BY <1>1, <2>1, RqListenKeeps, RqConnectKeeps, RqSyncConnectedKeeps, RqCloseKeeps
  <1>2. ASSUME NEW u \in RqSocks, \/ RqLinger(u) \/ RqLingerEnds(u) \/ RqCollect(u) \/ RqDestroy(u)
                                  \/ RqAccept(u) \/ RqPacket(u)
        PROVE  ReceiverInv'
    BY <1>2, RqLingerKeeps, RqLingerEndsKeeps, RqCollectKeeps, RqDestroyKeeps, RqAcceptKeeps,
       RqPacketKeeps
  <1>3. ASSUME NEW i \in 1..Cardinality(RqSocks) * Tries, RqResponse(i) PROVE ReceiverInv'
    <2>1. i \in DOMAIN rqConns /\ rqConns \in Seq([id : RqSocks, ttl : Nat])
      BY <1>3 DEF RqResponse, ReceiverInv, ReceiverTypes
    <2>2. i \in Nat
      BY <2>1, LenProperties
    <2> QED BY <1>3, <2>2, RqResponseKeeps
  <1>4. CASE \/ RqEntry \/ RqEntered \/ RqNoPacket \/ RqAsyncConnected \/ RqCheck \/ RqUpdateConns
             \/ RqTick
    BY <1>4, RqEntryKeeps, RqEnteredKeeps, RqNoPacketKeeps, RqAsyncConnectedKeeps, RqCheckKeeps,
       RqUpdateConnsKeeps, RqTickKeeps
  <1> QED BY <1>1, <1>2, <1>3, <1>4 DEF RcvQueueNext

LEMMA ReceiverHolds == ASSUME ReceiverInv PROVE RcvQueueSound
  <1>1. PICK s : Linked(rqList, s, rqClock) /\ ToSet(s) = InList
    BY DEF ReceiverInv, LinksSound
  <1>2. s \in Seq(RqSocks) /\ IsInjective(s) /\ Len(s) \in Nat /\ DOMAIN s = 1..Len(s)
    BY <1>1, LenProperties DEF Linked
  <1>3. TablesAgree
    <2>1. s \in SetToSeqs(InList)
      BY <1>1, <1>2, PlacesOfSet
    <2>2. \A i \in 1..Len(s) - 1 : rqList.stamp[s[i]] <= rqList.stamp[s[i + 1]]
      <3> TAKE i \in 1..Len(s) - 1
      <3> PICK j \in 1..Len(s) : j = i + 1
        BY <1>2
      <3>1. i \in 1..Len(s) /\ i < j
        BY <1>2
      <3> QED BY <1>1, <3>1 DEF Linked
    <2>3. LinkedAs(s)
      <3>1. /\ rqList.head = IF Len(s) = 0 THEN 0 ELSE s[1]
            /\ rqList.last = IF Len(s) = 0 THEN 0 ELSE s[Len(s)]
            /\ \A i \in 1..Len(s) : /\ rqList.next[s[i]] = IF i = Len(s) THEN 0 ELSE s[i + 1]
                                    /\ rqList.prev[s[i]] = IF i = 1 THEN 0 ELSE s[i - 1]
        BY <1>1 DEF Linked
      <3> QED BY <2>2, <3>1 DEF LinkedAs
    <2> QED BY <2>1, <2>3, FoundIsListed DEF TablesAgree, ReceiverInv, LinksSound
  <1>4. TimersChecked
    <2> SUFFICES ASSUME ~TimerDue, NEW u \in InList
                 PROVE  rqList.stamp[u] >= rqClock - CheckInterval
      BY DEF TimersChecked
    <2>1. PICK i \in 1..Len(s) : s[i] = u
      BY <1>1, <1>2 DEF ToSet
    <2>0. Len(s) # 0 /\ 1 \in 1..Len(s)
      BY <1>2, <2>1
    <2>2. rqList.head = s[1] /\ s[1] \in RqSocks /\ u \in RqSocks
      <3>1. rqList.head = s[1]
        BY <1>1, <2>0 DEF Linked
      <3>2. s[1] \in InList
        BY <1>1, <1>2, <2>0 DEF ToSet
      <3> QED BY <3>1, <3>2 DEF InList
    <2>3. rqList.head # 0 /\ ~(rqList.stamp[s[1]] < rqClock - CheckInterval)
      BY <2>2, RqSocksPositive DEF TimerDue
    <2>4. rqList.stamp[s[1]] <= rqList.stamp[u]
      <3>1. CASE i = 1
        BY <2>1, <2>2, <3>1 DEF ReceiverInv, ReceiverTypes, RqLists
      <3>2. CASE i > 1
        BY <1>1, <2>1, <3>2 DEF Linked
      <3> QED BY <3>1, <3>2
    <2>5. /\ rqList.stamp[s[1]] \in Nat /\ rqList.stamp[u] \in Nat /\ rqClock \in Nat
          /\ CheckInterval \in Nat
      BY <2>2, RcvQueueAssumption DEF ReceiverInv, ReceiverTypes, RqLists
    <2> QED BY <2>3, <2>4, <2>5
  <1>5. NoneDangles
    <2> SUFFICES ASSUME NEW u \in RqSocks, rqState[u] = "gone"
                 PROVE  /\ u \notin InList \cup ToSet(rqNew) /\ rqListener # u /\ rqHeld # u
                        /\ ~HashLookup(rqHash, u) /\ \A i \in DOMAIN rqConns : rqConns[i].id # u
      BY DEF NoneDangles
    <2>1. ~rqOnList[u] /\ rqListener # u /\ \A i \in DOMAIN rqConns : rqConns[i].id # u
      BY DEF ReceiverInv, HoldersSound
    <2>2. u \notin InList /\ u \notin ToSet(rqNew)
      BY <2>1 DEF InList, ReceiverInv, LinksSound
    <2>3. rqHeld # u
      BY RqSocksPositive DEF ReceiverInv, HoldersSound
    <2> QED BY <2>1, <2>2, <2>3, FoundIsListed
  <1> QED BY <1>3, <1>4, <1>5 DEF RcvQueueSound

\* ReceiverTablesSound for any sockets that call connect once, whatever order the
\* calls, the packets, the timers and the collector come in: the thread of
\* CRcvQueue (queue.cpp:959) never follows a pointer to a destroyed socket, and
\* checks the timers of every connection in time.
THEOREM ReceiverTablesStaySound ==
    ASSUME Tries <= 1 PROVE PartsSpec => []ReceiverTablesSound
  <1> DEFINE Inv == subject = "rcvQueue" => ReceiverInv
  <1>1. PartsInit => Inv
    BY ReceiverStart DEF PartsInit
  <1>2. Inv /\ [PartsNext]_allVars => Inv'
    <2> SUFFICES ASSUME Inv, [PartsNext]_allVars, subject' = "rcvQueue" PROVE ReceiverInv'
      OBVIOUS
    <2>1. subject = "rcvQueue" /\ (RcvQueueNext \/ UNCHANGED rcvQueueVars)
      BY DEF PartsNext, StepOf, allVars
    <2>2. CASE UNCHANGED rcvQueueVars
      BY <2>1, <2>2 DEF rcvQueueVars, ReceiverInv, ReceiverTypes, HoldersSound, LinksSound, InList
    <2>3. CASE RcvQueueNext
      BY <2>1, <2>3, ReceiverStep
    <2> QED BY <2>1, <2>2, <2>3
  <1>3. Inv => ReceiverTablesSound
    BY ReceiverHolds DEF ReceiverTablesSound, Of
  <1> QED BY <1>1, <1>2, <1>3, PTL DEF PartsSpec

-----------------------------------------------------------------------------
(* The heap of CSndUList.                                                  *)

Users(h) == {h[i].u : i \in DOMAIN h}
OneEach(h) == \A i, j \in DOMAIN h : h[i].u = h[j].u => i = j
Ordered(h) == \A i \in 2..Len(h) : h[i \div 2].ts <= h[i].ts

\* The loops of insert_ and remove_ run within any set their moves do not leave.
LEMMA UpRuns ==
    ASSUME NEW h, Len(h) \in Nat, NEW S, [heap |-> h, at |-> Len(h)] \in S,
           \A s \in S : MovedUp(s) \in S
    PROVE  \E f \in [0..Len(h) -> S] : /\ f[0] = [heap |-> h, at |-> Len(h)]
                                       /\ \A k \in 1..Len(h) : f[k] = MovedUp(f[k - 1])
                                       /\ SiftedUp(h) = f[Len(h)].heap
  <1> DEFINE x == [heap |-> h, at |-> Len(h)]
             Body(f) == [k \in 0..Len(h) |-> IF k = 0 THEN x ELSE MovedUp(f[k - 1])]
             g == [k \in 1..Len(h) |-> [s \in S |-> MovedUp(s)]]
             loop == CHOOSE f : f = Body(f)
  <1>1. g \in [1..Len(h) -> [S -> S]]
    OBVIOUS
  <1>2. PICK f : f \in Loops(Len(h), S, x, g)
    <2> HIDE DEF g, x
    <2> QED BY <1>1, LoopRuns DEF x
  <1>3. f = Body(f)
    <2>1. /\ f \in [0..Len(h) -> S] /\ f[0] = x
          /\ \A k \in 1..Len(h) : f[k] = g[k][f[k - 1]]
      BY <1>2 DEF Loops
    <2>2. \A k \in 1..Len(h) : f[k] = MovedUp(f[k - 1])
      <3> TAKE k \in 1..Len(h)
      <3>1. f[k - 1] \in S /\ f[k] = g[k][f[k - 1]]
        BY <2>1
      <3>2. g[k] = [s \in S |-> MovedUp(s)]
        OBVIOUS
      <3> QED BY <3>1, <3>2
    <2>3. \A k \in 0..Len(h) : f[k] = IF k = 0 THEN x ELSE MovedUp(f[k - 1])
      BY <2>1, <2>2
    <2> HIDE DEF x, g
    <2> QED BY <2>1, <2>3
  <1>4. loop = Body(loop)
    BY <1>3, Zenon
  <1>5. SiftedUp(h) = loop[Len(h)].heap
    BY DEF SiftedUp
  <1> HIDE DEF loop, x
  <1>6. loop[0] = x /\ \A k \in 1..Len(h) : loop[k] = MovedUp(loop[k - 1])
    BY <1>4
  <1>7. \A k \in 0..Len(h) : loop[k] \in S
    <2> DEFINE In == {k \in Nat : k <= Len(h) => loop[k] \in S}
    <2>1. 0 \in In
      BY <1>6 DEF x
    <2>2. ASSUME NEW k \in In PROVE k + 1 \in In
      <3> SUFFICES ASSUME k + 1 <= Len(h) PROVE loop[k + 1] \in S
        OBVIOUS
      <3>1. loop[k] \in S /\ loop[k + 1] = MovedUp(loop[k])
        BY <1>6
      <3> QED BY <3>1
    <2>3. In = Nat
      <3> HIDE DEF In
      <3>1. In \in SUBSET Nat
        BY DEF In
      <3> QED BY <2>1, <2>2, <3>1, ByInduction
    <2> QED BY <2>3
  <1>8. loop \in [0..Len(h) -> S]
    BY <1>4, <1>7
  <1> QED BY <1>5, <1>6, <1>8 DEF x

LEMMA DownRuns ==
    ASSUME NEW h, Len(h) \in Nat, NEW q, NEW S, [heap |-> h, at |-> q] \in S,
           \A s \in S : MovedDown(s) \in S
    PROVE  \E f \in [0..Len(h) -> S] : /\ f[0] = [heap |-> h, at |-> q]
                                       /\ \A k \in 1..Len(h) : f[k] = MovedDown(f[k - 1])
                                       /\ SiftedDown(h, q) = f[Len(h)].heap
  <1> DEFINE x == [heap |-> h, at |-> q]
             Body(f) == [k \in 0..Len(h) |-> IF k = 0 THEN x ELSE MovedDown(f[k - 1])]
             g == [k \in 1..Len(h) |-> [s \in S |-> MovedDown(s)]]
             loop == CHOOSE f : f = Body(f)
  <1>1. g \in [1..Len(h) -> [S -> S]]
    OBVIOUS
  <1>2. PICK f : f \in Loops(Len(h), S, x, g)
    <2> HIDE DEF g, x
    <2> QED BY <1>1, LoopRuns DEF x
  <1>3. f = Body(f)
    <2>1. /\ f \in [0..Len(h) -> S] /\ f[0] = x
          /\ \A k \in 1..Len(h) : f[k] = g[k][f[k - 1]]
      BY <1>2 DEF Loops
    <2>2. \A k \in 1..Len(h) : f[k] = MovedDown(f[k - 1])
      <3> TAKE k \in 1..Len(h)
      <3>1. f[k - 1] \in S /\ f[k] = g[k][f[k - 1]]
        BY <2>1
      <3>2. g[k] = [s \in S |-> MovedDown(s)]
        OBVIOUS
      <3> QED BY <3>1, <3>2
    <2>3. \A k \in 0..Len(h) : f[k] = IF k = 0 THEN x ELSE MovedDown(f[k - 1])
      BY <2>1, <2>2
    <2> HIDE DEF x, g
    <2> QED BY <2>1, <2>3
  <1>4. loop = Body(loop)
    BY <1>3, Zenon
  <1>5. SiftedDown(h, q) = loop[Len(h)].heap
    BY DEF SiftedDown
  <1> HIDE DEF loop, x
  <1>6. loop[0] = x /\ \A k \in 1..Len(h) : loop[k] = MovedDown(loop[k - 1])
    BY <1>4
  <1>7. \A k \in 0..Len(h) : loop[k] \in S
    <2> DEFINE In == {k \in Nat : k <= Len(h) => loop[k] \in S}
    <2>1. 0 \in In
      BY <1>6 DEF x
    <2>2. ASSUME NEW k \in In PROVE k + 1 \in In
      <3> SUFFICES ASSUME k + 1 <= Len(h) PROVE loop[k + 1] \in S
        OBVIOUS
      <3>1. loop[k] \in S /\ loop[k + 1] = MovedDown(loop[k])
        BY <1>6
      <3> QED BY <3>1
    <2>3. In = Nat
      <3> HIDE DEF In
      <3>1. In \in SUBSET Nat
        BY DEF In
      <3> QED BY <2>1, <2>2, <3>1, ByInduction
    <2> QED BY <2>3
  <1>8. loop \in [0..Len(h) -> S]
    BY <1>4, <1>7
  <1> QED BY <1>5, <1>6, <1>8 DEF x

-----------------------------------------------------------------------------
\* The heaps with the users of h, each once, and as many entries.
Rearranged(E, h) == {g \in Seq(E) : Len(g) = Len(h) /\ OneEach(g) /\ Users(g) = Users(h)}

LEMMA SwapKeeps ==
    ASSUME NEW E, NEW h \in Seq(E), NEW i \in 1..Len(h), NEW j \in 1..Len(h), OneEach(h)
    PROVE  /\ Swapped(h, i, j) \in Rearranged(E, h)
           /\ \A k \in 1..Len(h) :
                 Swapped(h, i, j)[k] = IF k = j THEN h[i] ELSE IF k = i THEN h[j] ELSE h[k]
  <1> DEFINE g == Swapped(h, i, j)
             p(k) == IF k = j THEN i ELSE IF k = i THEN j ELSE k
  <1>1. h \in [1..Len(h) -> E] /\ Len(h) \in Nat /\ DOMAIN h = 1..Len(h)
    BY LenProperties
  <1>2. g \in [1..Len(h) -> E] /\ \A k \in 1..Len(h) : g[k] = h[p(k)]
    <2>1. h[i] \in E /\ h[j] \in E
      BY <1>1
    <2> QED BY <1>1, <2>1 DEF Swapped
  <1> HIDE DEF g
  <1>3. g \in Seq(E) /\ Len(g) = Len(h) /\ DOMAIN g = 1..Len(h)
    BY <1>1, <1>2, LenProperties, IsASeq
  <1>4. \A k \in 1..Len(h) : p(k) \in 1..Len(h) /\ p(p(k)) = k
    OBVIOUS
  <1>5. OneEach(g)
    <2> SUFFICES ASSUME NEW k \in 1..Len(h), NEW m \in 1..Len(h), g[k].u = g[m].u PROVE k = m
      BY <1>3 DEF OneEach
    <2>1. p(k) = p(m)
      <3>1. h[p(k)].u = h[p(m)].u
        BY <1>2
      <3> QED BY <1>1, <1>4, <3>1 DEF OneEach
    <2> QED BY <1>4, <2>1
  <1>6. Users(g) = Users(h)
    <2>1. ASSUME NEW k \in 1..Len(h) PROVE g[k].u \in Users(h) /\ h[k].u \in Users(g)
      <3>1. g[k] = h[p(k)] /\ g[p(k)] = h[p(p(k))] /\ p(p(k)) = k
        BY <1>2, <1>4
      <3> QED BY <1>1, <1>3, <1>4, <3>1 DEF Users
    <2>2. Users(g) \subseteq Users(h) /\ Users(h) \subseteq Users(g)
      BY <1>1, <1>3, <2>1 DEF Users
    <2> QED BY <2>2
  <1>7. g \in Rearranged(E, h)
    BY <1>3, <1>5, <1>6 DEF Rearranged
  <1> QED BY <1>2, <1>7 DEF g

\* Where the moves go.
UpStates(E, h) == [heap : Rearranged(E, h), at : 1..Len(h)]
DownStates(E, h) == [heap : Rearranged(E, h), at : 1..Len(h) + 1]

LEMMA RearrangedAgain ==
    ASSUME NEW E, NEW h, NEW g \in Rearranged(E, h), NEW f \in Rearranged(E, g)
    PROVE  f \in Rearranged(E, h)
  BY DEF Rearranged

LEMMA UpMoves ==
    ASSUME NEW E, NEW h \in Seq(E), NEW s \in UpStates(E, h), \A e \in E : e.ts \in Nat
    PROVE  MovedUp(s) \in UpStates(E, h)
  <1> PICK S : S = UpStates(E, h)
    OBVIOUS
  <1> DEFINE p == s.at \div 2
  <1>1. /\ s.heap \in Rearranged(E, h) /\ s.at \in 1..Len(h) /\ Len(h) \in Nat
        /\ s.heap \in Seq(E) /\ Len(s.heap) = Len(h) /\ OneEach(s.heap)
    BY LenProperties DEF UpStates, Rearranged
  <1>2. CASE s.at > 1 /\ s.heap[p].ts > s.heap[s.at].ts
    <2>1. p \in 1..Len(h)
      BY <1>1, <1>2
    <2>2. MovedUp(s) = [heap |-> Swapped(s.heap, p, s.at), at |-> p]
      BY <1>2 DEF MovedUp
    <2> HIDE DEF p
    <2>3. Swapped(s.heap, p, s.at) \in Rearranged(E, s.heap)
      BY <1>1, <2>1, SwapKeeps
    <2>4. Swapped(s.heap, p, s.at) \in Rearranged(E, h)
      BY <1>1, <2>3, RearrangedAgain
    <2> QED BY <2>1, <2>2, <2>4 DEF UpStates
  <1>3. CASE ~(s.at > 1 /\ s.heap[p].ts > s.heap[s.at].ts)
    BY <1>3 DEF MovedUp
  <1> QED BY <1>2, <1>3

LEMMA DownMoves ==
    ASSUME NEW E, NEW h \in Seq(E), NEW s \in DownStates(E, h)
    PROVE  MovedDown(s) \in DownStates(E, h)
  <1> DEFINE p == EarlierBelow(s.heap, s.at)
  <1>1. /\ s.heap \in Rearranged(E, h) /\ s.at \in 1..Len(h) + 1 /\ Len(h) \in Nat
        /\ s.heap \in Seq(E) /\ Len(s.heap) = Len(h) /\ OneEach(s.heap)
    BY LenProperties DEF DownStates, Rearranged
  <1>2. CASE 2 * s.at <= Len(s.heap) /\ s.heap[s.at].ts > s.heap[p].ts
    <2>0. p = 2 * s.at \/ (p = 2 * s.at + 1 /\ 2 * s.at + 1 <= Len(h))
      <3>1. CASE 2 * s.at + 1 <= Len(s.heap) /\ s.heap[2 * s.at].ts > s.heap[2 * s.at + 1].ts
        BY <1>1, <3>1 DEF EarlierBelow
      <3>2. CASE ~(2 * s.at + 1 <= Len(s.heap) /\ s.heap[2 * s.at].ts > s.heap[2 * s.at + 1].ts)
        BY <3>2 DEF EarlierBelow
      <3> QED BY <3>1, <3>2
    <2>1. p \in 1..Len(h) /\ s.at \in 1..Len(h)
      <3> HIDE DEF p
      <3> QED BY <1>1, <1>2, <2>0
    <2>2. MovedDown(s) = [heap |-> Swapped(s.heap, s.at, p), at |-> p]
      BY <1>2 DEF MovedDown
    <2> HIDE DEF p
    <2>3. Swapped(s.heap, s.at, p) \in Rearranged(E, s.heap)
      BY <1>1, <2>1, SwapKeeps
    <2>4. Swapped(s.heap, s.at, p) \in Rearranged(E, h)
      BY <1>1, <2>3, RearrangedAgain
    <2> QED BY <2>1, <2>2, <2>4 DEF DownStates
  <1>3. CASE ~(2 * s.at <= Len(s.heap) /\ s.heap[s.at].ts > s.heap[p].ts)
    BY <1>3 DEF MovedDown
  <1> QED BY <1>2, <1>3

\* The loops rearrange the heap, and lose and double no entry.
LEMMA UpRearranges ==
    ASSUME NEW E, NEW h \in Seq(E), OneEach(h), h # <<>>, \A e \in E : e.ts \in Nat
    PROVE  SiftedUp(h) \in Rearranged(E, h)
  <1>1. Len(h) \in Nat \ {0}
    BY LenProperties
  <1>2. [heap |-> h, at |-> Len(h)] \in UpStates(E, h)
    BY <1>1 DEF UpStates, Rearranged
  <1>3. PICK f \in [0..Len(h) -> UpStates(E, h)] : SiftedUp(h) = f[Len(h)].heap
    <2> PICK S : S = UpStates(E, h)
      OBVIOUS
    <2>1. [heap |-> h, at |-> Len(h)] \in S /\ \A s \in S : MovedUp(s) \in S
      BY <1>2, UpMoves
    <2>2. \E f \in [0..Len(h) -> S] : SiftedUp(h) = f[Len(h)].heap
      BY <1>1, <2>1, UpRuns
    <2> QED BY <2>2
  <1>4. f[Len(h)] \in UpStates(E, h)
    BY <1>1
  <1> QED BY <1>3, <1>4 DEF UpStates

LEMMA DownRearranges ==
    ASSUME NEW E, NEW h \in Seq(E), OneEach(h), NEW q \in 1..Len(h) + 1
    PROVE  SiftedDown(h, q) \in Rearranged(E, h)
  <1>1. Len(h) \in Nat
    BY LenProperties
  <1>2. [heap |-> h, at |-> q] \in DownStates(E, h)
    BY <1>1 DEF DownStates, Rearranged
  <1>3. PICK f \in [0..Len(h) -> DownStates(E, h)] : SiftedDown(h, q) = f[Len(h)].heap
    <2> PICK S : S = DownStates(E, h)
      OBVIOUS
    <2>1. [heap |-> h, at |-> q] \in S /\ \A s \in S : MovedDown(s) \in S
      BY <1>2, DownMoves
    <2>2. \E f \in [0..Len(h) -> S] : SiftedDown(h, q) = f[Len(h)].heap
      BY <1>1, <2>1, DownRuns
    <2> QED BY <2>2
  <1>4. f[Len(h)] \in DownStates(E, h)
    BY <1>1
  <1> QED BY <1>3, <1>4 DEF DownStates

\* While an entry moves up, only it may be earlier than the one above it, and those
\* below it are later than that; while one moves down, only those below it may be
\* earlier, and they are later than the one above it.
UpOrder(s) ==
    /\ \A i \in 2..Len(s.heap) : i # s.at => s.heap[i \div 2].ts <= s.heap[i].ts
    /\ s.at > 1 => \A i \in 2..Len(s.heap) : i \div 2 = s.at => s.heap[s.at \div 2].ts <= s.heap[i].ts

DownOrder(s) ==
    /\ \A i \in 2..Len(s.heap) : i \div 2 # s.at => s.heap[i \div 2].ts <= s.heap[i].ts
    /\ s.at > 1 => \A i \in 2..Len(s.heap) : i \div 2 = s.at => s.heap[s.at \div 2].ts <= s.heap[i].ts

LEMMA Half ==
    ASSUME NEW i \in Nat PROVE i \div 2 \in Nat /\ (i = 2 * (i \div 2) \/ i = 2 * (i \div 2) + 1)
  OBVIOUS

LEMMA TwoHalves ==
    ASSUME NEW a \in Nat PROVE (2 * a) \div 2 = a /\ (2 * a + 1) \div 2 = a
  OBVIOUS

LEMMA UpOrdered ==
    ASSUME NEW E, NEW h \in Seq(E), NEW s \in UpStates(E, h), \A e \in E : e.ts \in Nat, UpOrder(s)
    PROVE  /\ UpOrder(MovedUp(s))
           /\ \/ MovedUp(s) = s /\ Ordered(s.heap)
              \/ MovedUp(s).at < s.at
  <1> PICK n : n = Len(h)
    OBVIOUS
  <1> PICK a : a = s.at
    OBVIOUS
  <1> PICK g : g = s.heap
    OBVIOUS
  <1> DEFINE p == a \div 2
  <1>1. /\ a \in 1..n /\ n \in Nat
        /\ g \in Seq(E) /\ Len(g) = n /\ OneEach(g) /\ \A i \in 1..n : g[i].ts \in Nat
    BY LenProperties DEF UpStates, Rearranged
  <1>2. CASE a > 1 /\ g[p].ts > g[a].ts
    <2> PICK k : k = p
      OBVIOUS
    <2>1. k \in 1..n /\ k < a /\ k = a \div 2
      BY <1>1, <1>2
    <2> PICK f : f = Swapped(g, k, a)
      OBVIOUS
    <2>2. MovedUp(s) = [heap |-> f, at |-> k]
      BY <1>2 DEF MovedUp
    <2>3. /\ Len(f) = n
          /\ \A i \in 1..n : f[i] = IF i = a THEN g[k] ELSE IF i = k THEN g[a] ELSE g[i]
      <3>1. k \in 1..Len(g) /\ a \in 1..Len(g)
        BY <1>1, <2>1
      <3>2. /\ Swapped(g, k, a) \in Rearranged(E, g)
            /\ \A i \in 1..Len(g) :
                  Swapped(g, k, a)[i] = IF i = a THEN g[k] ELSE IF i = k THEN g[a] ELSE g[i]
        BY <1>1, <3>1, SwapKeeps
      <3> QED BY <1>1, <3>2 DEF Rearranged
    <2>4. g[k].ts > g[a].ts /\ g[k].ts \in Nat /\ g[a].ts \in Nat
      BY <1>1, <1>2, <2>1
    <2>5. ASSUME NEW i \in 2..n, i # k PROVE f[i \div 2].ts <= f[i].ts
      <3> PICK j \in 1..n : j = i \div 2
        BY <1>1
      <3>1. CASE i = a
        BY <1>1, <2>1, <2>3, <2>4, <3>1
      <3>2. CASE i # a
        <4>1. g[j].ts <= g[i].ts /\ g[j].ts \in Nat /\ g[i].ts \in Nat
          BY <1>1, <3>2 DEF UpOrder
        <4>2. f[i] = g[i]
          BY <1>1, <2>3, <2>5, <3>2
        <4>3. CASE j = a
          <5>1. f[j] = g[k] /\ g[k].ts <= g[i].ts
            BY <1>1, <1>2, <2>1, <2>3, <4>3 DEF UpOrder
          <5> QED BY <4>2, <5>1
        <4>4. CASE j = k
          <5>1. f[j] = g[a] /\ g[k].ts <= g[i].ts
            BY <2>1, <2>3, <4>1, <4>4
          <5>2. g[a].ts <= g[i].ts
            BY <2>4, <4>1, <5>1
          <5> QED BY <4>2, <5>1, <5>2
        <4>5. CASE j # a /\ j # k
          BY <2>3, <4>1, <4>2, <4>5
        <4> QED BY <4>3, <4>4, <4>5
      <3> QED BY <3>1, <3>2
    <2>6. ASSUME k > 1, NEW i \in 2..n, i \div 2 = k PROVE f[k \div 2].ts <= f[i].ts
      <3> PICK m \in 1..n : m = k \div 2
        BY <1>1, <2>1, <2>6
      <3>1. f[m] = g[m] /\ g[m].ts <= g[k].ts /\ g[m].ts \in Nat
        <4>1. m # k /\ m # a /\ k \in 2..n /\ k # a
          BY <1>1, <2>1, <2>6
        <4>2. g[k \div 2].ts <= g[k].ts
          BY <1>1, <4>1 DEF UpOrder
        <4> QED BY <1>1, <2>3, <4>1, <4>2
      <3>2. CASE i = a
        BY <1>1, <2>1, <2>3, <3>1, <3>2
      <3>3. CASE i # a
        <4>1. i # k
          BY <2>1, <2>6
        <4>2. g[i \div 2].ts <= g[i].ts /\ g[i].ts \in Nat
          BY SMTT(30), <1>1, <3>3 DEF UpOrder
        <4>3. f[i] = g[i] /\ g[k].ts <= g[i].ts
          BY <2>3, <2>6, <3>3, <4>1, <4>2
        <4>4. g[m].ts <= g[i].ts
          BY SMTT(30), <2>4, <3>1, <4>2, <4>3
        <4> QED BY <3>1, <4>3, <4>4
      <3> QED BY <3>2, <3>3
    <2>7. UpOrder(MovedUp(s))
      BY <2>2, <2>3, <2>5, <2>6 DEF UpOrder
    <2> QED BY <2>1, <2>2, <2>7
  <1>3. CASE ~(a > 1 /\ g[p].ts > g[a].ts)
    <2>1. MovedUp(s) = s
      BY <1>3 DEF MovedUp
    <2>2. ASSUME NEW i \in 2..n PROVE g[i \div 2].ts <= g[i].ts
      <3> PICK j \in 1..n : j = i \div 2
        BY <1>1
      <3>1. CASE i = a
        BY SMTT(30), <1>1, <1>3, <3>1
      <3>2. CASE i # a
        BY <1>1, <3>2 DEF UpOrder
      <3> QED BY <3>1, <3>2
    <2>3. Ordered(g)
      BY <1>1, <2>2 DEF Ordered
    <2> QED BY <2>1, <2>3
  <1> QED BY <1>2, <1>3

LEMMA DownOrdered ==
    ASSUME NEW E, NEW h \in Seq(E), NEW s \in DownStates(E, h), \A e \in E : e.ts \in Nat,
           DownOrder(s)
    PROVE  /\ DownOrder(MovedDown(s))
           /\ \/ MovedDown(s) = s /\ Ordered(s.heap)
              \/ MovedDown(s).at > s.at
  <1> PICK n : n = Len(h)
    OBVIOUS
  <1> PICK a : a = s.at
    OBVIOUS
  <1> PICK g : g = s.heap
    OBVIOUS
  <1> PICK k : k = EarlierBelow(g, a)
    OBVIOUS
  <1>1. /\ a \in 1..n + 1 /\ n \in Nat
        /\ g \in Seq(E) /\ Len(g) = n /\ OneEach(g) /\ \A i \in 1..n : g[i].ts \in Nat
    BY LenProperties DEF DownStates, Rearranged
  <1>2. /\ k = 2 * a \/ (k = 2 * a + 1 /\ 2 * a + 1 <= n)
        /\ 2 * a <= n => /\ k \in 2..n /\ k \div 2 = a /\ a \in 1..n /\ k > a
                         /\ \A i \in 2..n : i \div 2 = a => g[k].ts <= g[i].ts
    <2>1. CASE 2 * a + 1 <= n /\ g[2 * a].ts > g[2 * a + 1].ts
      <3>1. k = 2 * a + 1
        BY <1>1, <2>1 DEF EarlierBelow
      <3>2. k \in 2..n /\ k \div 2 = a /\ a \in 1..n /\ k > a
        <4>1. a \in Nat \ {0} /\ 2 * a + 1 <= n
          BY <1>1, <2>1
        <4>2. (2 * a + 1) \div 2 = a
          BY <4>1, TwoHalves
        <4>3. k > a /\ k \in 2..n /\ a \in 1..n
          BY <1>1, <3>1, <4>1
        <4> QED BY <3>1, <4>2, <4>3
      <3>3. ASSUME NEW i \in 2..n, i \div 2 = a PROVE g[k].ts <= g[i].ts
        <4>1. i = 2 * a \/ i = 2 * a + 1
          <5>1. a \in Nat /\ i \in Nat
            BY <1>1
          <5> QED BY <3>3, <5>1, Half
        <4>2. g[k].ts \in Nat /\ g[2 * a].ts \in Nat
          <5>1. 2 * a \in 1..n
            BY <1>1, <2>1
          <5> QED BY SMTT(30), <1>1, <3>2, <5>1
        <4> QED BY SMTT(30), <2>1, <3>1, <4>1, <4>2
      <3> QED BY <3>1, <3>2, <3>3, <2>1
    <2>2. CASE ~(2 * a + 1 <= n /\ g[2 * a].ts > g[2 * a + 1].ts)
      <3>1. k = 2 * a
        BY <1>1, <2>2 DEF EarlierBelow
      <3>2. ASSUME 2 * a <= n
            PROVE  k \in 2..n /\ k \div 2 = a /\ a \in 1..n /\ k > a
        BY <1>1, <3>1, <3>2
      <3>3. ASSUME 2 * a <= n, NEW i \in 2..n, i \div 2 = a PROVE g[k].ts <= g[i].ts
        <4>1. i = 2 * a \/ i = 2 * a + 1
          <5>1. a \in Nat /\ i \in Nat
            BY <1>1
          <5> QED BY <3>3, <5>1, Half
        <4>2. g[k].ts \in Nat /\ g[i].ts \in Nat
          BY <1>1, <3>2, <3>3
        <4>3. i = 2 * a => g[k].ts <= g[i].ts
          BY <3>1, <4>2
        <4>4. i = 2 * a + 1 => g[k].ts <= g[i].ts
          <5> SUFFICES ASSUME i = 2 * a + 1 PROVE g[k].ts <= g[i].ts
            OBVIOUS
          <5>1. 2 * a + 1 <= n
            BY <1>1
          <5> QED BY <2>2, <3>1, <4>2, <5>1
        <4> QED BY <4>1, <4>3, <4>4
      <3> QED BY <3>1, <3>2, <3>3, Zenon
    <2> QED BY <2>1, <2>2
  <1>3. CASE 2 * a <= n /\ g[a].ts > g[k].ts
    <2> PICK f : f = Swapped(g, a, k)
      OBVIOUS
    <2>1. MovedDown(s) = [heap |-> f, at |-> k]
      BY <1>1, <1>3 DEF MovedDown
    <2>2. k \in 2..n /\ k \div 2 = a /\ a \in 1..n /\ k > a
      BY <1>2, <1>3
    <2>3. /\ Len(f) = n
          /\ \A i \in 1..n : f[i] = IF i = k THEN g[a] ELSE IF i = a THEN g[k] ELSE g[i]
      <3>1. k \in 1..Len(g) /\ a \in 1..Len(g)
        BY <1>1, <2>2
      <3>2. /\ Swapped(g, a, k) \in Rearranged(E, g)
            /\ \A i \in 1..Len(g) :
                  Swapped(g, a, k)[i] = IF i = k THEN g[a] ELSE IF i = a THEN g[k] ELSE g[i]
        BY <1>1, <3>1, SwapKeeps
      <3> QED BY <1>1, <3>2 DEF Rearranged
    <2>4. g[a].ts > g[k].ts /\ g[k].ts \in Nat /\ g[a].ts \in Nat
      BY SMTT(30), <1>1, <1>3, <2>2
    <2>5. ASSUME NEW i \in 2..n, i \div 2 # k PROVE f[i \div 2].ts <= f[i].ts
      <3> PICK j \in 1..n : j = i \div 2
        BY <1>1
      <3>0. f[j] = (IF j = a THEN g[k] ELSE g[j]) /\ j # k /\ j < i
        BY <1>1, <2>2, <2>3, <2>5
      <3>1. CASE i = k
        BY SMTT(30), <1>1, <2>2, <2>3, <2>4, <3>0, <3>1
      <3>2. CASE i = a
        <4>1. j = a \div 2 /\ a > 1 /\ j # a /\ k \in 2..n /\ k \div 2 = a
          BY <2>2, <3>0, <3>2
        <4>2. f[j] = g[j] /\ f[i] = g[k] /\ g[j].ts <= g[k].ts
          BY <1>1, <2>2, <2>3, <3>0, <3>2, <4>1 DEF DownOrder
        <4> QED BY <4>2
      <3>3. CASE i # k /\ i # a /\ j = a
        <4>1. g[k].ts <= g[i].ts
          BY <1>2, <1>3, <3>3
        <4>2. f[i] = g[i] /\ f[j] = g[k]
          BY <1>1, <2>3, <3>0, <3>3
        <4> QED BY <4>1, <4>2
      <3>4. CASE i # k /\ i # a /\ j # a
        <4>1. f[i] = g[i] /\ f[j] = g[j] /\ g[j].ts <= g[i].ts
          BY <1>1, <2>3, <3>0, <3>4 DEF DownOrder
        <4> QED BY <4>1
      <3> QED BY <3>1, <3>2, <3>3, <3>4
    <2>6. ASSUME NEW i \in 2..n, i \div 2 = k PROVE f[k \div 2].ts <= f[i].ts
      <3>1. f[a] = g[k] /\ f[i] = g[i] /\ g[k].ts <= g[i].ts
        <4>1. i # k /\ i # a /\ i \div 2 # a /\ i \in 1..n
          BY <1>1, <2>2, <2>6
        <4>2. g[i \div 2].ts <= g[i].ts
          BY <1>1, <4>1 DEF DownOrder
        <4> QED BY <2>2, <2>3, <2>6, <4>1, <4>2
      <3> QED BY <2>2, <3>1
    <2>7. DownOrder(MovedDown(s))
      BY <2>1, <2>3, <2>5, <2>6 DEF DownOrder
    <2> QED BY <2>1, <2>2, <2>7
  <1>4. CASE ~(2 * a <= n /\ g[a].ts > g[k].ts)
    <2>1. MovedDown(s) = s
      BY <1>1, <1>4 DEF MovedDown
    <2>2. ASSUME NEW i \in 2..n PROVE g[i \div 2].ts <= g[i].ts
      <3> PICK j \in 1..n : j = i \div 2
        BY <1>1
      <3>1. CASE j = a
        <4>1. 2 * a <= n
          BY <1>1, <3>1
        <4>2. g[k].ts <= g[i].ts /\ g[a].ts <= g[k].ts /\ g[a].ts \in Nat /\ g[k].ts \in Nat
          <5>1. k \in 1..n /\ a \in 1..n
            BY <1>2, <4>1
          <5>2. g[k].ts \in Nat /\ g[a].ts \in Nat
            BY <1>1, <5>1
          <5>3. g[k].ts <= g[i].ts
            BY <1>2, <3>1, <4>1
          <5> QED BY <1>4, <4>1, <5>2, <5>3
        <4>3. g[i].ts \in Nat
          BY <1>1
        <4> QED BY <3>1, <4>2, <4>3
      <3>2. CASE j # a
        BY <1>1, <3>2 DEF DownOrder
      <3> QED BY <3>1, <3>2
    <2>3. Ordered(g)
      BY <1>1, <2>2 DEF Ordered
    <2> QED BY <2>1, <2>3
  <1> QED BY <1>3, <1>4

LEMMA UpOrders ==
    ASSUME NEW E, NEW h \in Seq(E), OneEach(h), h # <<>>, \A e \in E : e.ts \in Nat,
           UpOrder([heap |-> h, at |-> Len(h)])
    PROVE  Ordered(SiftedUp(h))
  <1> PICK n : n = Len(h)
    OBVIOUS
  <1> PICK S : S = {s \in UpStates(E, h) : UpOrder(s)}
    OBVIOUS
  <1>1. n \in Nat \ {0}
    BY LenProperties
  <1>2. [heap |-> h, at |-> n] \in S
    BY <1>1 DEF UpStates, Rearranged
  <1>3. \A s \in S : /\ MovedUp(s) \in S /\ s.at \in Nat \ {0}
                     /\ (MovedUp(s) = s /\ Ordered(s.heap)) \/ MovedUp(s).at < s.at
    <2> TAKE s \in S
    <2>1. s \in UpStates(E, h) /\ UpOrder(s)
      OBVIOUS
    <2>2. s.at \in Nat \ {0}
      BY <1>1, <2>1 DEF UpStates
    <2> QED BY <2>1, <2>2, UpMoves, UpOrdered
  <1>4. PICK f \in [0..n -> S] : /\ f[0] = [heap |-> h, at |-> n]
                                 /\ \A k \in 1..n : f[k] = MovedUp(f[k - 1])
                                 /\ SiftedUp(h) = f[n].heap
    <2>1. \A s \in S : MovedUp(s) \in S
      BY <1>3
    <2> QED BY <1>1, <1>2, <2>1, UpRuns
  <1> DEFINE Still(k) == (MovedUp(f[k]) = f[k] /\ Ordered(f[k].heap)) \/ f[k].at <= n - k
             In == {k \in Nat : k <= n => Still(k)}
  <1>5. 0 \in In
    BY <1>1, <1>4
  <1>6. ASSUME NEW k \in In PROVE k + 1 \in In
    <2> SUFFICES ASSUME k + 1 <= n PROVE Still(k + 1)
      OBVIOUS
    <2>0. k \in 0..n /\ k + 1 \in 1..n /\ k + 1 \in 0..n /\ k + 1 - 1 = k
      BY <1>1
    <2>1. f[k] \in S /\ f[k + 1] \in S /\ f[k + 1] = MovedUp(f[k]) /\ Still(k)
      <3>1. f[k] \in S /\ f[k + 1] \in S
        BY <1>4, <2>0
      <3>2. f[k + 1] = MovedUp(f[k])
        BY <1>4, <2>0
      <3>3. Still(k)
        BY <2>0
      <3> QED BY <3>1, <3>2, <3>3
    <2>2. CASE MovedUp(f[k]) = f[k] /\ Ordered(f[k].heap)
      BY <2>1, <2>2
    <2>3. CASE f[k].at <= n - k /\ f[k + 1].at < f[k].at
      <3>1. f[k + 1].at \in Nat /\ f[k].at \in Nat
        BY <1>3, <2>1
      <3>2. f[k + 1].at <= n - (k + 1)
        BY <1>1, <2>3, <3>1
      <3> QED BY <3>2
    <2> QED BY <1>3, <2>1, <2>2, <2>3
  <1>7. In = Nat
    <2> HIDE DEF In
    <2>1. In \in SUBSET Nat
      BY DEF In
    <2> QED BY <1>5, <1>6, <2>1, ByInduction
  <1>8. Still(n) /\ f[n] \in S
    BY <1>1, <1>7
  <1>9. ~(f[n].at <= n - n)
    BY <1>1, <1>3, <1>8
  <1> QED BY <1>4, <1>8, <1>9

LEMMA DownOrders ==
    ASSUME NEW E, NEW h \in Seq(E), OneEach(h), NEW q \in 1..Len(h) + 1, \A e \in E : e.ts \in Nat,
           DownOrder([heap |-> h, at |-> q])
    PROVE  Ordered(SiftedDown(h, q))
  <1> PICK n : n = Len(h)
    OBVIOUS
  <1> PICK S : S = {s \in DownStates(E, h) : DownOrder(s)}
    OBVIOUS
  <1>1. n \in Nat
    BY LenProperties
  <1>2. [heap |-> h, at |-> q] \in S
    BY <1>1 DEF DownStates, Rearranged
  <1>3. \A s \in S : /\ MovedDown(s) \in S /\ s.at \in 1..n + 1
                     /\ (MovedDown(s) = s /\ Ordered(s.heap)) \/ MovedDown(s).at > s.at
    <2> TAKE s \in S
    <2>1. s \in DownStates(E, h) /\ DownOrder(s)
      OBVIOUS
    <2>2. s.at \in 1..n + 1
      BY <1>1, <2>1 DEF DownStates
    <2> QED BY <2>1, <2>2, DownMoves, DownOrdered
  <1>4. PICK f \in [0..n -> S] : /\ f[0] = [heap |-> h, at |-> q]
                                 /\ \A k \in 1..n : f[k] = MovedDown(f[k - 1])
                                 /\ SiftedDown(h, q) = f[n].heap
    <2>1. \A s \in S : MovedDown(s) \in S
      BY <1>3
    <2> QED BY <1>1, <1>2, <2>1, DownRuns
  <1> DEFINE Still(k) == (MovedDown(f[k]) = f[k] /\ Ordered(f[k].heap)) \/ f[k].at >= q + k
             In == {k \in Nat : k <= n => Still(k)}
  <1>5. 0 \in In
    BY <1>1, <1>4
  <1>6. ASSUME NEW k \in In PROVE k + 1 \in In
    <2> SUFFICES ASSUME k + 1 <= n PROVE Still(k + 1)
      OBVIOUS
    <2>0. k \in 0..n /\ k + 1 \in 1..n /\ k + 1 \in 0..n /\ k + 1 - 1 = k
      BY <1>1
    <2>1. f[k] \in S /\ f[k + 1] \in S /\ f[k + 1] = MovedDown(f[k]) /\ Still(k)
      <3>1. f[k] \in S /\ f[k + 1] \in S
        BY <1>4, <2>0
      <3>2. f[k + 1] = MovedDown(f[k])
        BY <1>4, <2>0
      <3>3. Still(k)
        BY <2>0
      <3> QED BY <3>1, <3>2, <3>3
    <2>2. CASE MovedDown(f[k]) = f[k] /\ Ordered(f[k].heap)
      BY <2>1, <2>2
    <2>3. CASE f[k].at >= q + k /\ f[k + 1].at > f[k].at
      <3>1. f[k + 1].at \in Nat /\ f[k].at \in Nat
        BY <1>1, <1>3, <2>1
      <3>2. f[k + 1].at >= q + (k + 1)
        BY <1>1, <2>3, <3>1
      <3> QED BY <3>2
    <2> QED BY <1>3, <2>1, <2>2, <2>3
  <1>7. In = Nat
    <2> HIDE DEF In
    <2>1. In \in SUBSET Nat
      BY DEF In
    <2> QED BY <1>5, <1>6, <2>1, ByInduction
  <1>8. Still(n) /\ f[n] \in S
    <2>1. n \in In /\ n \in 0..n
      BY SMTT(30), <1>1, <1>7
    <2> QED BY <2>1
  <1>9. CASE MovedDown(f[n]) = f[n] /\ Ordered(f[n].heap)
    BY <1>4, <1>9
  <1>10. CASE f[n].at >= q + n
    <2>1. f[n].at = n + 1 /\ f[n] \in DownStates(E, h) /\ DownOrder(f[n])
      BY <1>1, <1>3, <1>8, <1>10
    <2>2. MovedDown(f[n]) = f[n]
      <3>1. Len(f[n].heap) = n
        BY <2>1 DEF DownStates, Rearranged
      <3> QED BY <1>1, <2>1, <3>1 DEF MovedDown
    <2>3. Ordered(f[n].heap)
      BY <1>1, <2>1, <2>2, DownOrdered
    <2> QED BY <1>4, <2>3
  <1> QED BY <1>8, <1>9, <1>10

-----------------------------------------------------------------------------
\* The root comes first.
LEMMA RootFirst ==
    ASSUME NEW E, NEW h \in Seq(E), \A e \in E : e.ts \in Nat, Ordered(h), NEW i \in DOMAIN h
    PROVE  h[1].ts <= h[i].ts
  <1> DEFINE n == Len(h)
             Earlier == {j \in 1..n : h[1].ts > h[j].ts}
  <1>1. DOMAIN h = 1..n /\ n \in Nat /\ \A j \in 1..n : h[j].ts \in Nat
    BY LenProperties
  <1>2. ASSUME Earlier # {} PROVE FALSE
    <2>1. PICK j \in Earlier : \A k \in Earlier : j <= k
      <3>1. Earlier \in SUBSET Nat
        BY <1>1
      <3> HIDE DEF Earlier
      <3> QED BY <1>2, <3>1, LeastOne
    <2>2. j \in 2..n
      BY <1>1
    <2> PICK k \in 1..n : k = j \div 2 /\ k < j
      BY <1>1, <2>2
    <2>3. k \notin Earlier
      BY <1>1, <2>1, <2>2
    <2>4. h[k].ts <= h[j].ts
      BY <2>2 DEF Ordered
    <2>5. h[1].ts \in Nat
      BY <1>1, <2>2
    <2> QED BY <1>1, <2>3, <2>4, <2>5
  <1>3. 1 \in 1..n
    BY <1>1
  <1> QED BY <1>1, <1>2, <1>3

LEMMA BelowTop ==
    ASSUME NEW n \in Nat, NEW i \in 2..n + 1, i # n + 1 PROVE i \in 2..n /\ i \in 1..n
  OBVIOUS

LEMMA InsertedKeeps ==
    ASSUME NEW E, NEW h \in Seq(E), OneEach(h), NEW u, NEW t \in Nat, [u |-> u, ts |-> t] \in E,
           u \notin Users(h), \A e \in E : e.ts \in Nat
    PROVE  /\ Inserted(h, u, t) \in Seq(E) /\ OneEach(Inserted(h, u, t))
           /\ Users(Inserted(h, u, t)) = Users(h) \cup {u}
           /\ Ordered(h) => Ordered(Inserted(h, u, t))
  <1> PICK x : x = [u |-> u, ts |-> t]
    OBVIOUS
  <1> PICK n : n = Len(h)
    OBVIOUS
  <1> PICK g : g = Append(h, x)
    OBVIOUS
  <1>1. /\ g \in Seq(E) /\ g # <<>> /\ Len(g) = n + 1 /\ n \in Nat /\ DOMAIN h = 1..n
        /\ DOMAIN g = 1..n + 1 /\ \A i \in 1..n : g[i] = h[i]
        /\ g[n + 1] = x
    BY AppendProperties, LenProperties
  <1>2. OneEach(g)
    <2> SUFFICES ASSUME NEW i \in 1..n + 1, NEW j \in 1..n + 1, g[i].u = g[j].u PROVE i = j
      BY <1>1 DEF OneEach
    <2>1. \A k \in 1..n : h[k].u # u
      BY <1>1 DEF Users
    <2>2. CASE i \in 1..n /\ j \in 1..n
      BY <1>1, <2>2 DEF OneEach
    <2>3. CASE i = n + 1 \/ j = n + 1
      BY <1>1, <2>1, <2>3
    <2> QED BY <1>1, <2>2, <2>3
  <1>3. Users(g) = Users(h) \cup {u}
    <2>1. \A i \in 1..n + 1 : g[i].u \in Users(h) \cup {u}
      <3> TAKE i \in 1..n + 1
      <3>1. CASE i \in 1..n
        BY <1>1, <3>1 DEF Users
      <3>2. CASE i = n + 1
        BY <1>1, <3>2
      <3> QED BY <1>1, <3>1, <3>2
    <2>2. \A i \in 1..n : h[i].u \in Users(g)
      <3> TAKE i \in 1..n
      <3>1. i \in 1..n + 1 /\ g[i] = h[i]
        BY <1>1
      <3> QED BY <1>1, <3>1 DEF Users
    <2>3. u \in Users(g)
      <3>1. n + 1 \in 1..n + 1
        BY <1>1
      <3> QED BY <1>1, <3>1 DEF Users
    <2> QED BY <1>1, <2>1, <2>2, <2>3 DEF Users
  <1>4. Inserted(h, u, t) = SiftedUp(g)
    BY DEF Inserted
  <1>5. SiftedUp(g) \in Rearranged(E, g)
    BY <1>1, <1>2, UpRearranges
  <1>6. ASSUME Ordered(h) PROVE Ordered(SiftedUp(g))
    <2>1. UpOrder([heap |-> g, at |-> n + 1])
      <3>1. ASSUME NEW i \in 2..n + 1, i # n + 1 PROVE g[i \div 2].ts <= g[i].ts
        <4> PICK j \in 1..n : j = i \div 2
          BY <1>1, <3>1
        <4>0. i \in 2..n /\ i \in 1..n
          <5>1. n \in Nat
            BY <1>1
          <5> QED BY <3>1, <5>1, BelowTop
        <4>1. i \in 2..Len(h) /\ i \in 1..n
          BY <4>0
        <4>2. h[j].ts <= h[i].ts
          BY <1>6, <4>1 DEF Ordered
        <4> QED BY <1>1, <4>1, <4>2
      <3>2. ASSUME NEW i \in 2..n + 1, i \div 2 = n + 1 PROVE FALSE
        BY <1>1, <3>2
      <3> QED BY <1>1, <3>1, <3>2 DEF UpOrder
    <2> QED BY <1>1, <1>2, <2>1, UpOrders
  <1> QED BY <1>3, <1>4, <1>5, <1>6 DEF Rearranged

\* What remove_ leaves in place before it moves the entry at q down.
LastAt(h, q) == Front([h EXCEPT ![q] = Last(h)])

LEMMA LocIs ==
    ASSUME NEW E, NEW h \in Seq(E), OneEach(h), NEW u, Locs(h, u) # {}
    PROVE  \E q \in 1..Len(h) : /\ h[q].u = u
                                /\ Removed(h, u) = SiftedDown(LastAt(h, q), q)
  <1> PICK q : q = CHOOSE i \in Locs(h, u) : TRUE
    OBVIOUS
  <1>1. q \in Locs(h, u)
    OBVIOUS
  <1>2. q \in 1..Len(h) /\ h[q].u = u
    BY <1>1, LenProperties DEF Locs
  <1>3. Removed(h, u) = SiftedDown(LastAt(h, q), q)
    BY DEF Removed, LastAt
  <1> QED BY <1>2, <1>3

LEMMA LastMoved ==
    ASSUME NEW E, NEW h \in Seq(E), OneEach(h), NEW q \in 1..Len(h),
           NEW g, g = LastAt(h, q)
    PROVE  /\ g \in Seq(E) /\ Len(g) = Len(h) - 1 /\ q \in 1..Len(g) + 1
           /\ OneEach(g) /\ Users(g) = Users(h) \ {h[q].u}
           /\ q \in 1..Len(g) => g[q] = h[Len(h)]
           /\ \A i \in 1..Len(g) : i # q => g[i] = h[i]
  <1> PICK n : n = Len(h)
    OBVIOUS
  <1> PICK f : f = [h EXCEPT ![q] = h[n]]
    OBVIOUS
  <1>1. /\ n \in Nat /\ DOMAIN h = 1..n /\ h \in [1..n -> E] /\ n >= 1 /\ q \in 1..n
        /\ h[n] \in E /\ n \in 1..n
    BY LenProperties
  <1>2. /\ f \in Seq(E) /\ Len(f) = n
        /\ \A i \in 1..n : f[i] = IF i = q THEN h[n] ELSE h[i]
    BY <1>1, ExceptSeq
  <1>5. g = SubSeq(f, 1, n - 1)
    BY <1>2 DEF LastAt, Front, Last
  <1>3. /\ g \in Seq(E) /\ Len(g) = n - 1 /\ \A i \in 1..n - 1 : g[i] = f[i]
    <2>1. \A i \in 1..n - 1 : f[i] \in E
      BY <1>1, <1>2
    <2>2. /\ g \in Seq(E) /\ Len(g) = (IF 1 <= n - 1 THEN n - 1 - 1 + 1 ELSE 0)
          /\ \A i \in 1 .. n - 1 - 1 + 1 : g[i] = f[1 + i - 1]
      BY <1>1, <1>5, <2>1, SubSeqProperties
    <2> QED BY <1>1, <2>2
  <1>4. \A i \in 1..n - 1 : g[i] = IF i = q THEN h[n] ELSE h[i]
    BY <1>1, <1>2, <1>3
  <1>6. DOMAIN g = 1..n - 1
    BY <1>3, LenProperties
  <1> DEFINE from(i) == IF i = q THEN n ELSE i
  <1>7. \A i \in 1..n - 1 : from(i) \in 1..n /\ from(i) # q /\ g[i] = h[from(i)]
    BY <1>1, <1>4
  <1>8. OneEach(g)
    <2> SUFFICES ASSUME NEW i \in 1..n - 1, NEW j \in 1..n - 1, g[i].u = g[j].u PROVE i = j
      BY <1>6 DEF OneEach
    <2>1. from(i) = from(j)
      <3>1. h[from(i)].u = h[from(j)].u
        BY <1>7
      <3> QED BY <1>1, <1>7, <3>1 DEF OneEach
    <2> QED BY <1>1, <2>1
  <1>9. Users(g) = Users(h) \ {h[q].u}
    <2>1. ASSUME NEW i \in 1..n - 1 PROVE g[i].u \in Users(h) \ {h[q].u}
      <3>1. from(i) \in DOMAIN h /\ from(i) # q /\ g[i].u = h[from(i)].u
        BY <1>1, <1>7
      <3> QED BY <1>1, <3>1 DEF Users, OneEach
    <2>2. ASSUME NEW i \in 1..n, i # q PROVE h[i].u \in Users(g)
      <3>1. CASE i = n
        <4>1. q \in 1..n - 1
          BY <1>1, <2>2, <3>1
        <4> QED BY <1>4, <1>6, <3>1, <4>1 DEF Users
      <3>2. CASE i # n
        <4>1. i \in 1..n - 1
          BY <1>1, <3>2
        <4> QED BY <1>4, <1>6, <2>2, <4>1 DEF Users
      <3> QED BY <3>1, <3>2
    <2>3. Users(g) \subseteq Users(h) \ {h[q].u}
      BY <1>6, <2>1 DEF Users
    <2>4. ASSUME NEW v \in Users(h) \ {h[q].u} PROVE v \in Users(g)
      <3> PICK i \in 1..n : v = h[i].u
        BY <1>1 DEF Users
      <3> QED BY <2>2, <2>4
    <2> QED BY <2>3, <2>4
  <1>10. Len(g) = Len(h) - 1 /\ q \in 1..Len(g) + 1
    BY <1>1, <1>3
  <1>11. \A i \in 1..Len(g) : (i = q => g[i] = h[Len(h)]) /\ (i # q => g[i] = h[i])
    BY <1>3, <1>4
  <1> QED BY <1>3, <1>8, <1>9, <1>10, <1>11

LEMMA RemovedIs ==
    ASSUME NEW E, NEW h \in Seq(E), OneEach(h), NEW u, Locs(h, u) # {}
    PROVE  \E q \in 1..Len(h), g \in Seq(E) :
              /\ Removed(h, u) = SiftedDown(g, q)
              /\ Len(g) = Len(h) - 1 /\ q \in 1..Len(g) + 1
              /\ OneEach(g) /\ Users(g) = Users(h) \ {u}
              /\ q \in 1..Len(g) => g[q] = h[Len(h)]
              /\ \A i \in 1..Len(g) : i # q => g[i] = h[i]
  <1>1. PICK q \in 1..Len(h) : h[q].u = u /\ Removed(h, u) = SiftedDown(LastAt(h, q), q)
    BY LocIs
  <1>2. PICK g : g = LastAt(h, q)
    OBVIOUS
  <1>3. /\ g \in Seq(E) /\ Len(g) = Len(h) - 1 /\ q \in 1..Len(g) + 1
        /\ OneEach(g) /\ Users(g) = Users(h) \ {h[q].u}
    BY <1>2, LastMoved
  <1>4. q \in 1..Len(g) => g[q] = h[Len(h)]
    BY <1>2, LastMoved
  <1>5. \A i \in 1..Len(g) : i # q => g[i] = h[i]
    BY <1>2, LastMoved
  <1> QED BY <1>1, <1>2, <1>3, <1>4, <1>5

LEMMA InFive == \A n \in Nat : \A q \in 1..n : n <= 5 => n \in 1..5
  OBVIOUS

LEMMA RemovedKeeps ==
    ASSUME NEW E, NEW h \in Seq(E), OneEach(h), NEW u, \A e \in E : e.ts \in Nat
    PROVE  /\ Removed(h, u) \in Seq(E) /\ OneEach(Removed(h, u))
           /\ Users(Removed(h, u)) = Users(h) \ {u}
           /\ Ordered(h) /\ Len(h) <= 5 => Ordered(Removed(h, u))
  <1>1. CASE Locs(h, u) = {}
    <2>1. u \notin Users(h)
      BY <1>1 DEF Locs, Users
    <2>2. Removed(h, u) = h
      BY <1>1 DEF Removed
    <2> QED BY <2>1, <2>2
  <1>2. CASE Locs(h, u) # {}
    <2> PICK n : n = Len(h)
      OBVIOUS
    <2>1. PICK q \in 1..Len(h), g \in Seq(E) :
              /\ Removed(h, u) = SiftedDown(g, q)
              /\ Len(g) = Len(h) - 1 /\ q \in 1..Len(g) + 1
              /\ OneEach(g) /\ Users(g) = Users(h) \ {u}
              /\ q \in 1..Len(g) => g[q] = h[Len(h)]
              /\ \A i \in 1..Len(g) : i # q => g[i] = h[i]
      BY <1>2, RemovedIs
    <2>2. SiftedDown(g, q) \in Rearranged(E, g)
      BY <2>1, DownRearranges
    <2>3. ASSUME Ordered(h), n <= 5 PROVE Ordered(SiftedDown(g, q))
      <3>1. n \in 1..5 /\ \A i \in 1..n : h[i].ts \in Nat
        <4>1. n \in Nat /\ \A i \in 1..n : h[i] \in E
          BY LenProperties
        <4>2. n \in 1..5
          <5>1. n <= 5 /\ q \in 1..n
            BY <2>3, Zenon
          <5> QED BY <4>1, <5>1, InFive, Zenon
        <4> QED BY <4>1, <4>2
      <3>2. ASSUME NEW i \in 2..n - 1, i \div 2 # q PROVE g[i \div 2].ts <= g[i].ts
        <4> PICK j \in 1..n - 1 : j = i \div 2
          BY <3>1, <3>2
        <4>1. g[j] = h[j]
          BY <2>1, <3>2
        <4>2. h[j].ts <= h[i].ts
          <5>1. i \in 2..Len(h)
            BY <3>1
          <5> QED BY <2>3, <5>1 DEF Ordered
        <4>3. CASE i # q
          <5>1. i \in 1..Len(g)
            BY <2>1, <3>1
          <5>2. g[i] = h[i]
            BY <2>1, <4>3, <5>1
          <5> QED BY <4>1, <4>2, <5>2
        <4>4. CASE i = q
          \* the parent of one of the first four is that of the fifth or above it
          <5>1. g[i] = h[n] /\ i \in 2..4 /\ n \in 3..5
            BY SMTT(30), <2>1, <3>1, <4>4
          <5>2. j = 1 \/ (j = 2 /\ n = 5)
            BY <3>1, <5>1
          <5>3. n \in DOMAIN h
            BY <3>1, LenProperties
          <5>4. j = 1 => h[j].ts <= h[n].ts
            BY <2>3, <5>3, RootFirst
          <5>5. n = 5 /\ j = 2 => h[j].ts <= h[n].ts
            <6> SUFFICES ASSUME n = 5, j = 2 PROVE h[2].ts <= h[5].ts
              OBVIOUS
            <6>1. 5 \in 2..Len(h) /\ 5 \div 2 = 2
              OBVIOUS
            <6> QED BY <2>3, <6>1 DEF Ordered
          <5> QED BY <4>1, <5>1, <5>2, <5>4, <5>5
        <4> QED BY <4>3, <4>4
      <3>3. ASSUME q > 1, NEW i \in 2..n - 1, i \div 2 = q PROVE g[q \div 2].ts <= g[i].ts
        <4> PICK j \in 1..n - 1 : j = q \div 2
          BY <3>1, <3>3
        <4>1. j # q /\ i # q /\ i \in 1..n - 1
          BY <3>1, <3>3
        <4>2. g[j] = h[j] /\ g[i] = h[i]
          BY <2>1, <4>1
        <4>3. h[j].ts <= h[q].ts /\ h[q].ts <= h[i].ts
          <5>1. q \in 2..Len(h) /\ i \in 2..Len(h)
            BY <3>1, <3>3
          <5> QED BY <2>3, <3>3, <5>1 DEF Ordered
        <4>4. h[j].ts \in Nat /\ h[q].ts \in Nat /\ h[i].ts \in Nat
          BY <3>1
        <4> QED BY <4>2, <4>3, <4>4
      <3>4. DownOrder([heap |-> g, at |-> q])
        BY <2>1, <3>2, <3>3 DEF DownOrder
      <3> QED BY <2>1, <3>4, DownOrders
    <2> QED BY <2>1, <2>2, <2>3 DEF Rearranged
  <1> QED BY <1>1, <1>2

-----------------------------------------------------------------------------
\* The entries of the heap.
Served == [u : SndSocks, ts : Nat \ {0}]

\* Every socket is on the heap once at most; one that can send is on it, or will be.
\* Up to five sockets the heap is in order.
Few(socks) == IsFiniteSet(socks) /\ Cardinality(socks) <= 5

SendTypes ==
    /\ sqHeap \in Seq(Served) /\ sqClock \in Nat \ {0}
    /\ sqPending \subseteq [u : SndSocks, reschedule : BOOLEAN]
    /\ sqWork \in [SndSocks -> Nat] /\ sqOpen \subseteq SndSocks /\ sqStale \subseteq SndSocks

SendInv == SendTypes /\ OneEach(sqHeap) /\ (Few(SndSocks) => Ordered(sqHeap)) /\ NothingForgotten

\* A heap of few sockets is short.
LEMMA FewEntries ==
    ASSUME NEW U, Few(U), NEW E, \A e \in E : e.u \in U, NEW h \in Seq(E), OneEach(h)
    PROVE  Len(h) <= 5
  <1> DEFINE f == [i \in 1..Len(h) |-> h[i].u]
  <1>1. Len(h) \in Nat /\ DOMAIN h = 1..Len(h) /\ \A i \in 1..Len(h) : h[i].u \in U
    <2>1. Len(h) \in Nat /\ DOMAIN h = 1..Len(h) /\ \A i \in 1..Len(h) : h[i] \in E
      BY LenProperties
    <2> QED BY <2>1
  <1>2. f \in Injection(1..Len(h), U)
    BY <1>1 DEF Injection, IsInjective, OneEach
  <1>3. Cardinality(1..Len(h)) <= Cardinality(U)
    <2> HIDE DEF f
    <2> QED BY <1>2, FS_Injection DEF Few
  <1>4. Cardinality(1..Len(h)) = Len(h)
    BY <1>1, FS_Interval
  <1>5. Cardinality(U) \in Nat
    BY FS_CardinalityType DEF Few
  <1> QED BY <1>1, <1>3, <1>4, <1>5 DEF Few

LEMMA OnHeapIs ==
    ASSUME NEW u
    PROVE  /\ OnHeap(u) <=> u \in Users(sqHeap)
           /\ OnHeap(u)' <=> u \in Users(sqHeap')
  BY DEF OnHeap, Locs, Users

\* Taking a socket off and putting it on.
LEMMA TakenOff ==
    ASSUME SendInv, NEW u
    PROVE  /\ Removed(sqHeap, u) \in Seq(Served) /\ OneEach(Removed(sqHeap, u))
           /\ Users(Removed(sqHeap, u)) = Users(sqHeap) \ {u}
           /\ Few(SndSocks) => Ordered(Removed(sqHeap, u))
  <1> PICK E : E = Served
    OBVIOUS
  <1>1. \A e \in E : e.ts \in Nat
    BY DEF Served
  <1>2. sqHeap \in Seq(E) /\ OneEach(sqHeap)
    BY DEF SendInv, SendTypes
  <1>3. ASSUME Few(SndSocks) PROVE Ordered(sqHeap) /\ Len(sqHeap) <= 5
    <2>1. \A e \in E : e.u \in SndSocks
      BY DEF Served
    <2> QED BY <1>2, <1>3, <2>1, FewEntries DEF SendInv
  <1> QED BY <1>1, <1>2, <1>3, RemovedKeeps

LEMMA PutOn ==
    ASSUME SendInv, NEW u \in SndSocks, NEW t \in Nat \ {0}
    PROVE  LET h == Inserted(Removed(sqHeap, u), u, t)
           IN /\ h \in Seq(Served) /\ OneEach(h) /\ Users(h) = Users(sqHeap) \cup {u}
              /\ Few(SndSocks) => Ordered(h)
  <1> PICK E : E = Served
    OBVIOUS
  <1> PICK g : g = Removed(sqHeap, u)
    OBVIOUS
  <1>1. \A e \in E : e.ts \in Nat
    BY DEF Served
  <1>2. [u |-> u, ts |-> t] \in E
    BY DEF Served
  <1>3. /\ g \in Seq(E) /\ OneEach(g) /\ Users(g) = Users(sqHeap) \ {u} /\ u \notin Users(g)
        /\ Few(SndSocks) => Ordered(g)
    BY TakenOff
  <1> PICK h : h = Inserted(g, u, t)
    OBVIOUS
  <1>4. /\ h \in Seq(E) /\ OneEach(h) /\ Users(h) = Users(g) \cup {u}
        /\ Ordered(g) => Ordered(h)
    BY <1>1, <1>2, <1>3, InsertedKeeps
  <1> QED BY <1>3, <1>4

LEMMA SendStart == ASSUME SndQueueInit PROVE SendInv
  <1>1. sqHeap = <<>> /\ DOMAIN sqHeap = {}
    BY DEF SndQueueInit
  <1>2. SendTypes
    BY <1>1 DEF SndQueueInit, SendTypes
  <1>3. OneEach(sqHeap) /\ Ordered(sqHeap)
    BY <1>1 DEF OneEach, Ordered
  <1>4. NothingForgotten
    BY DEF SndQueueInit, NothingForgotten
  <1> QED BY <1>2, <1>3, <1>4 DEF SendInv

LEMMA HeapRests ==
    ASSUME SendInv, sqHeap' = sqHeap
    PROVE  OneEach(sqHeap)' /\ (Few(SndSocks) => Ordered(sqHeap))' /\ \A u : OnHeap(u)' <=> OnHeap(u)
  BY DEF SendInv, OneEach, Ordered, Few, OnHeap, Locs

LEMMA SndUpdateKeeps == ASSUME SendInv, NEW p \in sqPending, SndUpdate(p) PROVE SendInv'
  <1> PICK u : u = p.u
    OBVIOUS
  <1>1. /\ u \in SndSocks /\ sqPending' = sqPending \ {p}
        /\ UNCHANGED <<sqClock, sqWork, sqStale, sqOpen>>
    BY DEF SendInv, SendTypes, SndUpdate
  <1>2. /\ sqHeap' \in Seq(Served) /\ OneEach(sqHeap') /\ (Few(SndSocks) => Ordered(sqHeap'))
        /\ Users(sqHeap') = Users(sqHeap) \cup {u}
    <2>1. CASE OnHeap(u) /\ sqHeap' = sqHeap
      <3>1. u \in Users(sqHeap)
        BY <2>1, OnHeapIs
      <3> QED BY <2>1, <3>1 DEF SendInv, SendTypes
    <2>2. CASE OnHeap(u) /\ sqHeap' = [sqHeap EXCEPT ![1].ts = 1]
      <3> PICK n : n = Len(sqHeap)
        OBVIOUS
      <3>1. /\ u \in Users(sqHeap) /\ sqHeap \in [1..n -> Served] /\ n \in Nat
            /\ DOMAIN sqHeap = 1..n /\ sqHeap \in Seq(Served)
        BY <2>2, OnHeapIs, LenProperties DEF SendInv, SendTypes
      <3>2. 1 \in 1..n
        BY <3>1 DEF Users
      <3> PICK x : x = [sqHeap[1] EXCEPT !.ts = 1]
        OBVIOUS
      <3>3. x \in Served /\ x.u = sqHeap[1].u /\ x.ts = 1
        BY <3>1, <3>2 DEF Served
      <3>4. sqHeap' = [sqHeap EXCEPT ![1] = x]
        BY <2>2
      <3>5. /\ sqHeap' \in Seq(Served) /\ Len(sqHeap') = n
            /\ \A i \in 1..n : sqHeap'[i] = IF i = 1 THEN x ELSE sqHeap[i]
        BY <3>1, <3>2, <3>3, <3>4, ExceptSeq
      <3>6. DOMAIN sqHeap' = 1..n /\ \A i \in 1..n : sqHeap'[i].u = sqHeap[i].u
        BY <3>3, <3>5, LenProperties
      <3>7. OneEach(sqHeap') /\ Users(sqHeap') = Users(sqHeap)
        BY <3>1, <3>6 DEF SendInv, OneEach, Users
      <3>8. ASSUME Few(SndSocks) PROVE Ordered(sqHeap')
        <4> SUFFICES ASSUME NEW i \in 2..n PROVE sqHeap'[i \div 2].ts <= sqHeap'[i].ts
          BY <3>5 DEF Ordered
        <4> PICK j \in 1..n : j = i \div 2
          BY <3>1
        <4>1. sqHeap'[i] = sqHeap[i] /\ i \in 1..n
          BY <3>1, <3>5
        <4>2. sqHeap[i].ts \in Nat \ {0}
          BY <3>1, <4>1 DEF Served
        <4>3. CASE j = 1
          <5>1. sqHeap'[j].ts = 1
            BY <3>2, <3>3, <3>5, <4>3
          <5> QED BY <4>1, <4>2, <5>1
        <4>4. CASE j # 1
          <5>1. sqHeap'[j] = sqHeap[j]
            BY <3>5, <4>4
          <5>2. Ordered(sqHeap) /\ i \in 2..Len(sqHeap)
            BY <3>8 DEF SendInv
          <5>3. sqHeap[j].ts <= sqHeap[i].ts
            BY <5>2 DEF Ordered
          <5> QED BY <4>1, <5>1, <5>3
        <4> QED BY <4>3, <4>4
      <3> QED BY <3>1, <3>5, <3>7, <3>8
    <2>3. CASE sqHeap' = Inserted(Removed(sqHeap, u), u, 1)
      BY <1>1, <2>3, PutOn
    <2> QED BY <2>1, <2>2, <2>3 DEF SndUpdate
  <1>3. SendTypes'
    BY <1>1, <1>2 DEF SendInv, SendTypes
  <1>4. NothingForgotten'
    <2>1. \A v : OnHeap(v)' <=> OnHeap(v) \/ v = u
      BY <1>2, OnHeapIs
    <2> QED BY <1>1, <2>1 DEF SendInv, NothingForgotten
  <1> QED BY <1>2, <1>3, <1>4 DEF SendInv, Few

LEMMA SndPopKeeps == ASSUME SendInv, SndPop PROVE SendInv'
  <1>1. UNCHANGED <<sqPending, sqOpen, sqClock>>
    BY DEF SndPop
  <1>2. CASE UNCHANGED <<sqHeap, sqWork, sqStale>>
    <2>1. SendTypes'
      BY <1>1, <1>2 DEF SendInv, SendTypes
    <2>2. NothingForgotten'
      BY <1>1, <1>2, HeapRests DEF SendInv, NothingForgotten
    <2> QED BY <1>2, <2>1, <2>2, HeapRests DEF SendInv
  <1>3. CASE Due /\ ~UNCHANGED <<sqHeap, sqWork, sqStale>>
    <2> PICK u : u = sqHeap[1].u
      OBVIOUS
    <2>1. u \in SndSocks /\ OnHeap(u)
      <3>1. sqHeap \in Seq(Served) /\ sqHeap # <<>>
        BY <1>3 DEF Due, SendInv, SendTypes
      <3>2. 1 \in DOMAIN sqHeap /\ sqHeap[1] \in Served
        BY <3>1, LenProperties
      <3> QED BY <3>2 DEF Served, OnHeap, Locs
    <2>2. CASE /\ u \notin sqOpen \/ sqWork[u] = 0
               /\ sqHeap' = Removed(sqHeap, u) /\ UNCHANGED <<sqWork, sqStale>>
      <3>1. /\ sqHeap' \in Seq(Served) /\ OneEach(sqHeap') /\ (Few(SndSocks) => Ordered(sqHeap'))
            /\ Users(sqHeap') = Users(sqHeap) \ {u}
        BY <2>2, TakenOff
      <3>2. SendTypes'
        BY <1>1, <2>2, <3>1 DEF SendInv, SendTypes
      <3>3. \A v : OnHeap(v)' <=> OnHeap(v) /\ v # u
        BY <3>1, OnHeapIs
      <3>4. NothingForgotten'
        BY <1>1, <2>2, <3>3 DEF SendInv, SendTypes, NothingForgotten
      <3> QED BY <3>1, <3>2, <3>4 DEF SendInv, Few
    <2>3. CASE /\ u \in sqOpen /\ sqWork[u] > 0 /\ sqWork' = [sqWork EXCEPT ![u] = @ - 1]
               /\ \E d \in Pace : sqHeap' = Inserted(Removed(sqHeap, u), u, sqClock + d)
               /\ UNCHANGED sqStale
      <3> PICK d \in Pace : sqHeap' = Inserted(Removed(sqHeap, u), u, sqClock + d)
        BY <2>3
      <3>1. sqClock + d \in Nat \ {0}
        BY SndQueueAssumption DEF SendInv, SendTypes
      <3>2. /\ sqHeap' \in Seq(Served) /\ OneEach(sqHeap') /\ (Few(SndSocks) => Ordered(sqHeap'))
            /\ Users(sqHeap') = Users(sqHeap) \cup {u}
        BY <2>1, <3>1, PutOn
      <3>3. sqWork' \in [SndSocks -> Nat] /\ \A v \in SndSocks : sqWork'[v] <= sqWork[v]
        BY <2>1, <2>3 DEF SendInv, SendTypes
      <3>4. SendTypes'
        BY <1>1, <2>3, <3>2, <3>3 DEF SendInv, SendTypes
      <3>5. \A v : OnHeap(v) => OnHeap(v)'
        BY <3>2, OnHeapIs
      <3>6. NothingForgotten'
        <4> SUFFICES ASSUME NEW v \in sqOpen, sqWork'[v] > 0
                     PROVE  OnHeap(v)' \/ v \in sqStale \/ \E p \in sqPending : p.u = v
          BY <1>1, <2>3 DEF NothingForgotten
        <4>1. v \in SndSocks /\ sqWork[v] \in Nat /\ sqWork'[v] \in Nat
          BY <3>3 DEF SendInv, SendTypes
        <4>2. sqWork[v] > 0
          BY <3>3, <4>1
        <4> QED BY <3>5, <4>2 DEF SendInv, NothingForgotten
      <3> QED BY <3>2, <3>4, <3>6 DEF SendInv, Few
    <2>4. CASE /\ u \in sqOpen /\ sqWork[u] > 0 /\ sqWork' = [sqWork EXCEPT ![u] = @ - 1]
               /\ sqHeap' = Removed(sqHeap, u) /\ sqStale' = sqStale \cup {u}
      <3>1. /\ sqHeap' \in Seq(Served) /\ OneEach(sqHeap') /\ (Few(SndSocks) => Ordered(sqHeap'))
            /\ Users(sqHeap') = Users(sqHeap) \ {u}
        BY <2>4, TakenOff
      <3>2. sqWork' \in [SndSocks -> Nat] /\ \A v \in SndSocks : sqWork'[v] <= sqWork[v]
        BY <2>1, <2>4 DEF SendInv, SendTypes
      <3>3. SendTypes'
        BY <1>1, <2>1, <2>4, <3>1, <3>2 DEF SendInv, SendTypes
      <3>4. \A v : OnHeap(v) /\ v # u => OnHeap(v)'
        BY <3>1, OnHeapIs
      <3>5. NothingForgotten'
        <4> SUFFICES ASSUME NEW v \in sqOpen, sqWork'[v] > 0
                     PROVE  OnHeap(v)' \/ v \in sqStale' \/ \E p \in sqPending : p.u = v
          BY <1>1 DEF NothingForgotten
        <4>1. v \in SndSocks /\ sqWork[v] \in Nat /\ sqWork'[v] \in Nat
          BY <3>2 DEF SendInv, SendTypes
        <4>2. sqWork[v] > 0
          BY <3>2, <4>1
        <4> QED BY <2>4, <3>4, <4>2 DEF SendInv, NothingForgotten
      <3> QED BY <3>1, <3>3, <3>5 DEF SendInv, Few
    <2> QED BY <1>3, <2>2, <2>3, <2>4 DEF SndPop
  <1> QED BY <1>2, <1>3 DEF SndPop

LEMMA SendStep == ASSUME SendInv, SndQueueNext PROVE SendInv'
  <1>1. ASSUME NEW u \in SndSocks, NEW reschedule \in BOOLEAN, SndReady(u, reschedule) PROVE SendInv'
    <2> PICK p : p = [u |-> u, reschedule |-> reschedule]
      OBVIOUS
    <2>1. /\ u \in sqOpen /\ sqWork' = [sqWork EXCEPT ![u] = @ + 1]
          /\ sqPending' = sqPending \cup {p} /\ UNCHANGED <<sqHeap, sqClock, sqStale, sqOpen>>
          /\ p.u = u /\ p \in [u : SndSocks, reschedule : BOOLEAN]
      BY <1>1 DEF SndReady
    <2>2. SendTypes'
      BY <2>1 DEF SendInv, SendTypes
    <2>3. NothingForgotten'
      <3> SUFFICES ASSUME NEW v \in sqOpen, sqWork'[v] > 0
                   PROVE  OnHeap(v) \/ v \in sqStale \/ \E q \in sqPending' : q.u = v
        BY <2>1, HeapRests DEF NothingForgotten
      <3>1. CASE v = u
        BY <2>1, <3>1
      <3>2. CASE v # u
        BY <2>1, <3>2 DEF SendInv, SendTypes, NothingForgotten
      <3> QED BY <3>1, <3>2
    <2> QED BY <2>1, <2>2, <2>3, HeapRests DEF SendInv
  <1>2. ASSUME NEW u \in SndSocks, SndTimer(u) PROVE SendInv'
    <2> PICK p : p = [u |-> u, reschedule |-> TRUE]
      OBVIOUS
    <2>1. /\ sqPending' = sqPending \cup {p} /\ sqStale' = sqStale \ {u}
          /\ UNCHANGED <<sqHeap, sqClock, sqWork, sqOpen>>
          /\ p.u = u /\ p \in [u : SndSocks, reschedule : BOOLEAN]
      BY <1>2 DEF SndTimer
    <2>2. SendTypes'
      BY <2>1 DEF SendInv, SendTypes
    <2>3. NothingForgotten'
      BY <2>1, HeapRests DEF SendInv, NothingForgotten
    <2> QED BY <2>1, <2>2, <2>3, HeapRests DEF SendInv
  <1>3. ASSUME NEW u \in SndSocks, SndRemove(u) PROVE SendInv'
    <2>1. /\ sqHeap' = Removed(sqHeap, u) /\ sqStale' = sqStale \cup {u}
          /\ UNCHANGED <<sqClock, sqWork, sqPending, sqOpen>>
      BY <1>3 DEF SndRemove
    <2>2. /\ sqHeap' \in Seq(Served) /\ OneEach(sqHeap') /\ (Few(SndSocks) => Ordered(sqHeap'))
          /\ Users(sqHeap') = Users(sqHeap) \ {u}
      BY <2>1, TakenOff
    <2>3. SendTypes'
      BY <2>1, <2>2 DEF SendInv, SendTypes
    <2>4. \A v : OnHeap(v) /\ v # u => OnHeap(v)'
      BY <2>2, OnHeapIs
    <2>5. NothingForgotten'
      BY <2>1, <2>4 DEF SendInv, NothingForgotten
    <2> QED BY <2>2, <2>3, <2>5 DEF SendInv, Few
  <1>4. ASSUME NEW u \in SndSocks, SndLeave(u) PROVE SendInv'
    <2>1. sqOpen' = sqOpen \ {u} /\ UNCHANGED <<sqHeap, sqClock, sqWork, sqPending, sqStale>>
      BY <1>4 DEF SndLeave
    <2>2. SendTypes'
      BY <2>1 DEF SendInv, SendTypes
    <2>3. NothingForgotten'
      BY <2>1, HeapRests DEF SendInv, NothingForgotten
    <2> QED BY <2>1, <2>2, <2>3, HeapRests DEF SendInv
  <1>5. ASSUME UNCHANGED <<sqHeap, sqWork, sqPending, sqStale, sqOpen>>, sqClock' \in {sqClock, sqClock + 1}
        PROVE  SendInv'
    <2>1. SendTypes'
      BY <1>5 DEF SendInv, SendTypes
    <2>2. NothingForgotten'
      BY <1>5, HeapRests DEF SendInv, NothingForgotten
    <2> QED BY <1>5, <2>1, <2>2, HeapRests DEF SendInv
  <1>6. CASE SndSignal \/ SndTick \/ SndTop \/ SndSleep \/ SndWake \/ SndWait \/ SndClosing \/ SndCloseSignal
    BY <1>5, <1>6 DEF SndSignal, SndTick, SndTop, SndSleep, SndWake, SndWait, SndClosing, SndCloseSignal,
                      sndOthers
  <1> QED BY <1>1, <1>2, <1>3, <1>4, <1>6, SndUpdateKeeps, SndPopKeeps DEF SndQueueNext

-----------------------------------------------------------------------------
\* The heap by itself.
HeapEntries == [u : HeapSocks, ts : Nat]

HeapInv == sqHeap \in Seq(HeapEntries) /\ OneEach(sqHeap) /\ (Few(HeapSocks) => Ordered(sqHeap))

LEMMA HeapStep == ASSUME HeapInv, HeapNext PROVE HeapInv'
  <1> PICK E : E = HeapEntries
    OBVIOUS
  <1>1. sqHeap \in Seq(E) /\ OneEach(sqHeap) /\ \A e \in E : e.ts \in Nat /\ e.u \in HeapSocks
    BY DEF HeapInv, HeapEntries
  <1>2. PICK u \in HeapSocks : \/ ~OnHeap(u) /\ \E t \in HeapTimes : sqHeap' = Inserted(sqHeap, u, t)
                               \/ OnHeap(u) /\ sqHeap' = Removed(sqHeap, u)
    BY DEF HeapNext
  <1>3. CASE ~OnHeap(u) /\ \E t \in HeapTimes : sqHeap' = Inserted(sqHeap, u, t)
    <2> PICK t \in HeapTimes : sqHeap' = Inserted(sqHeap, u, t)
      BY <1>3
    <2>1. t \in Nat /\ [u |-> u, ts |-> t] \in E /\ u \notin Users(sqHeap)
      BY <1>3, OnHeapIs, SndQueueAssumption DEF HeapEntries
    <2>2. /\ sqHeap' \in Seq(E) /\ OneEach(sqHeap') /\ (Ordered(sqHeap) => Ordered(sqHeap'))
      BY <1>1, <2>1, InsertedKeeps
    <2> QED BY <2>2 DEF HeapInv, Few
  <1>4. CASE OnHeap(u) /\ sqHeap' = Removed(sqHeap, u)
    <2>1. Few(HeapSocks) => Len(sqHeap) <= 5
      BY <1>1, FewEntries
    <2>2. /\ sqHeap' \in Seq(E) /\ OneEach(sqHeap')
          /\ Ordered(sqHeap) /\ Len(sqHeap) <= 5 => Ordered(sqHeap')
      BY <1>1, <1>4, RemovedKeeps
    <2> QED BY <2>1, <2>2 DEF HeapInv, Few
  <1> QED BY <1>2, <1>3, <1>4

LEMMA EarliestFirst ==
    ASSUME NEW E, \A e \in E : e.ts \in Nat, sqHeap \in Seq(E), OneEach(sqHeap), Ordered(sqHeap)
    PROVE  FirstIsEarliest
  BY RootFirst DEF FirstIsEarliest, OneEach

\* The invariant of both.
SendListInv == /\ subject = "sndQueue" => SendInv
               /\ subject = "sndHeap" => HeapInv

LEMMA SendListStarts == PartsInit => SendListInv
  <1> SUFFICES ASSUME PartsInit PROVE SendListInv
    OBVIOUS
  <1>1. ASSUME SndQueueInit PROVE HeapInv
    <2>1. sqHeap = <<>> /\ DOMAIN sqHeap = {}
      BY <1>1 DEF SndQueueInit
    <2> QED BY <2>1 DEF HeapInv, OneEach, Ordered
  <1> QED BY <1>1, SendStart DEF PartsInit, SendListInv

LEMMA SendListSteps == SendListInv /\ [PartsNext]_allVars => SendListInv'
  <1> SUFFICES ASSUME SendListInv, [PartsNext]_allVars PROVE SendListInv'
    OBVIOUS
  <1>1. ASSUME subject' = "sndQueue" PROVE SendInv'
    <2>1. subject = "sndQueue" /\ (SndQueueNext \/ UNCHANGED sndQueueVars)
      BY <1>1 DEF PartsNext, StepOf, allVars
    <2>2. CASE UNCHANGED sndQueueVars
      <3>1. SendTypes' /\ NothingForgotten'
        BY <2>1, <2>2, HeapRests DEF sndQueueVars, SendListInv, SendInv, SendTypes, NothingForgotten
      <3> QED BY <2>1, <2>2, <3>1, HeapRests DEF sndQueueVars, SendListInv, SendInv
    <2> QED BY <2>1, <2>2, SendStep DEF SendListInv
  <1>2. ASSUME subject' = "sndHeap" PROVE HeapInv'
    <2>1. subject = "sndHeap" /\ (HeapNext \/ UNCHANGED sndQueueVars)
      BY <1>2 DEF PartsNext, StepOf, allVars
    <2>2. CASE UNCHANGED sndQueueVars
      BY <2>1, <2>2 DEF sndQueueVars, SendListInv, HeapInv, OneEach, Ordered, Few
    <2> QED BY <2>1, <2>2, HeapStep DEF SendListInv
  <1> QED BY <1>1, <1>2 DEF SendListInv

\* HeapExact for up to five sockets, any times and any order of the calls: update,
\* remove and pop of CSndUList (queue.cpp:282-343) keep the earliest socket first,
\* although remove_ never moves the entry it puts in the gap up.
THEOREM HeapStaysExact ==
    ASSUME IsFiniteSet(SndSocks), Cardinality(SndSocks) <= 5,
           IsFiniteSet(HeapSocks), Cardinality(HeapSocks) <= 5
    PROVE  PartsSpec => []HeapExact
  <1>1. SendListInv => HeapExact
    <2> SUFFICES ASSUME SendListInv PROVE HeapExact
      OBVIOUS
    <2>1. ASSUME subject = "sndQueue" PROVE NothingForgotten /\ FirstIsEarliest
      <3>1. SendInv
        BY <2>1 DEF SendListInv
      <3>2. \A e \in Served : e.ts \in Nat
        BY DEF Served
      <3> QED BY <3>1, <3>2, EarliestFirst DEF SendInv, SendTypes, Few
    <2>2. ASSUME subject = "sndHeap" PROVE FirstIsEarliest
      <3>1. HeapInv
        BY <2>2 DEF SendListInv
      <3>2. \A e \in HeapEntries : e.ts \in Nat
        BY DEF HeapEntries
      <3> QED BY <3>1, <3>2, EarliestFirst DEF HeapInv, Few
    <2> QED BY <2>1, <2>2 DEF HeapExact, Of
  <1> QED BY <1>1, SendListStarts, SendListSteps, PTL DEF PartsSpec

\* For any number of sockets: a connected socket with a packet to send is on the list
\* or about to be put there, and never twice (update, pop, remove_).
THEOREM NoneForgotten ==
    PartsSpec => [](subject = "sndQueue" => NothingForgotten /\ OneEach(sqHeap))
  <1>1. SendListInv => (subject = "sndQueue" => NothingForgotten /\ OneEach(sqHeap))
    BY DEF SendListInv, SendInv
  <1> QED BY <1>1, SendListStarts, SendListSteps, PTL DEF PartsSpec
=============================================================================
