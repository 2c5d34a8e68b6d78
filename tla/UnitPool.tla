------------------------------ MODULE UnitPool ------------------------------
(***************************************************************************)
(* The pool of units packets are received into (CUnitQueue of queue.cpp).  *)
(* The receive-queue thread takes a free unit and puts it into a receive   *)
(* buffer; application threads, reading, set units free.  Nothing protects *)
(* m_iCount, which both change: each change is a load and a store here.    *)
(***************************************************************************)
EXTENDS Integers, Sequences, FiniteSets

CONSTANTS
    EntrySize,  \* units in one entry (m_pQEntry->m_iSize)
    MaxEntries, \* entries the memory has room for
    FullNum,    \* the pool is nearly full when FullNum / FullDen of it are
    FullDen,    \* in use, nine tenths in the code
    MaxDrift    \* bound on how far m_iCount falls behind

\* One unit of an entry is never used (31 of 32 are in the code).
ASSUME UnitPoolAssumption ==
    /\ {EntrySize, MaxEntries, FullNum, FullDen, MaxDrift} \subseteq Nat \ {0}
    /\ (EntrySize - 1) * FullDen >= EntrySize * FullNum

VARIABLES
    upFlags,   \* m_iFlag of every unit, entry after entry
    upCount,   \* m_iCount
    upCur,     \* m_pCurrQueue: which entry
    upAvail,   \* m_pAvailUnit
    upPc,      \* where the receive-queue thread is
    upUnit,    \* the unit it has, 0 for none (NULL)
    upReg,     \* the count it has read
    upReader,  \* the reader: "idle", or the count it has read
    upRefused  \* how often in a row getNextAvailUnit returned NULL, up to 2

unitPoolVars == <<upFlags, upCount, upCur, upAvail, upPc, upUnit, upReg, upReader, upRefused>>

PoolSize == Len(upFlags)
UnitsOf(e) == (e - 1) * EntrySize + 1..e * EntrySize
InUse == {u \in DOMAIN upFlags : upFlags[u] = 1}
Entries == PoolSize \div EntrySize
ReaderIdle == -MaxDrift  \* below every count that is read
Refuse == IF upRefused < 2 THEN upRefused + 1 ELSE 2

UnitPoolInit ==
    /\ upFlags = [u \in 1..EntrySize |-> 0] /\ upCount = 0 /\ upCur = 1 /\ upAvail = 1
    /\ upPc = "idle" /\ upUnit = 0 /\ upReg = 0 /\ upReader = ReaderIdle /\ upRefused = 0

\* getNextAvailUnit is called; increase() counts the units when the pool looks
\* nearly full.
GetUnit ==
    /\ upPc = "idle"
    /\ IF upCount * FullDen > PoolSize * FullNum
       THEN upReg' = Cardinality(InUse) /\ upPc' = "adjust"
       ELSE upPc' = "compare" /\ UNCHANGED upReg
    /\ UNCHANGED <<upFlags, upCount, upCur, upAvail, upUnit, upReader, upRefused>>

\* increase() corrects m_iCount and adds an entry if the pool really is nearly full.
Grown == IF upReg * FullDen >= PoolSize * FullNum /\ Entries < MaxEntries
         THEN upFlags \o [u \in 1..EntrySize |-> 0] ELSE upFlags

GetAdjust ==
    /\ upPc = "adjust"
    /\ upCount' = upReg
    /\ upFlags' = Grown
    /\ upPc' = "compare"
    /\ UNCHANGED <<upCur, upAvail, upUnit, upReg, upReader, upRefused>>

\* Mutant of GetCompare: the last unit is kept back.
GetCompareKeepsOne ==
    /\ upPc = "compare"
    /\ IF upCount + 1 >= PoolSize
       THEN upPc' = "idle" /\ upRefused' = Refuse
       ELSE upPc' = "scan" /\ UNCHANGED upRefused
    /\ UNCHANGED <<upFlags, upCount, upCur, upAvail, upUnit, upReg, upReader>>

GetCompare ==
    /\ upPc = "compare"
    /\ IF upCount >= PoolSize
       THEN upPc' = "idle" /\ upRefused' = Refuse
       ELSE upPc' = "scan" /\ UNCHANGED upRefused
    /\ UNCHANGED <<upFlags, upCount, upCur, upAvail, upUnit, upReg, upReader>>

\* The loop over the entries, from the current one: first the units from
\* m_pAvailUnit to before the last, then the first unit; never the last one
\* of an entry, unless it is the first.
FreeFrom(e, u) ==
    LET last == e * EntrySize
        free == {v \in u..last - 1 : upFlags[v] = 0}
    IN IF free # {} THEN CHOOSE v \in free : \A w \in free : v <= w
       ELSE IF upFlags[(e - 1) * EntrySize + 1] = 0 THEN (e - 1) * EntrySize + 1
       ELSE 0

\* The entry of turn k, and where its units are searched from.
EntryAt(k) == ((upCur + k - 1) % Entries) + 1
StartAt(k) == IF k = 0 THEN upAvail ELSE (EntryAt(k) - 1) * EntrySize + 1

Scan ==
    LET found == {k \in 0..Entries - 1 : FreeFrom(EntryAt(k), StartAt(k)) # 0}
        first == CHOOSE k \in found : \A j \in found : k <= j
    IN IF found = {} THEN [unit |-> 0, entry |-> upCur]
       ELSE [unit |-> FreeFrom(EntryAt(first), StartAt(first)), entry |-> EntryAt(first)]

GetScan ==
    /\ upPc = "scan"
    /\ upCur' = Scan.entry
    /\ IF Scan.unit # 0
       THEN /\ upAvail' = Scan.unit /\ upUnit' = Scan.unit /\ upPc' = "got" /\ upRefused' = 0
            /\ UNCHANGED upReg
       ELSE /\ upAvail' = (upCur - 1) * EntrySize + 1 /\ upPc' = "recount"
            /\ upReg' = Cardinality(InUse) /\ UNCHANGED <<upUnit, upRefused>>
    /\ UNCHANGED <<upFlags, upCount, upReader>>

\* increase() behind the loop, and return NULL.
GetRecount ==
    /\ upPc = "recount"
    /\ upCount' = upReg
    /\ upFlags' = Grown
    /\ upPc' = "idle" /\ upRefused' = Refuse
    /\ UNCHANGED <<upCur, upAvail, upUnit, upReg, upReader>>

\* The packet belongs to nobody or is refused: the unit stays free.
DiscardUnit ==
    /\ upPc = "got"
    /\ upUnit' = 0 /\ upPc' = "idle"
    /\ UNCHANGED <<upFlags, upCount, upCur, upAvail, upReg, upReader, upRefused>>

\* CRcvBuffer::addData puts the unit into a buffer and loads the count ...
OccupyUnit ==
    /\ upPc = "got"
    /\ upFlags' = [upFlags EXCEPT ![upUnit] = 1]
    /\ upReg' = upCount /\ upUnit' = 0 /\ upPc' = "count"
    /\ UNCHANGED <<upCount, upCur, upAvail, upReader, upRefused>>

\* ... and stores it.
CountUnit ==
    /\ upPc = "count"
    /\ upCount' = upReg + 1 /\ upPc' = "idle"
    /\ UNCHANGED <<upFlags, upCur, upAvail, upUnit, upReg, upReader, upRefused>>

\* readBuffer, readMsg or scanMsg in an application thread sets a unit free ...
ReleaseUnit ==
    /\ upReader = ReaderIdle /\ Cardinality(InUse) - upCount < MaxDrift
    /\ \E u \in InUse : upFlags' = [upFlags EXCEPT ![u] = 0]
    /\ upReader' = upCount
    /\ UNCHANGED <<upCount, upCur, upAvail, upPc, upUnit, upReg, upRefused>>

\* ... and counts it.
UncountUnit ==
    /\ upReader # ReaderIdle
    /\ upCount' = upReader - 1 /\ upReader' = ReaderIdle
    /\ UNCHANGED <<upFlags, upCur, upAvail, upPc, upUnit, upReg, upRefused>>

UnitPoolNext ==
    \/ GetUnit \/ GetAdjust \/ GetCompare \/ GetScan \/ GetRecount
    \/ DiscardUnit \/ OccupyUnit \/ CountUnit \/ ReleaseUnit \/ UncountUnit

-----------------------------------------------------------------------------
\* However far m_iCount has drifted from the number of units in use because two
\* threads change it at the same time, packets are refused for want of a unit
\* twice in a row only if memory has run out.
RefusedOnlyWhenFull == upRefused >= 2 => Entries = MaxEntries
=============================================================================
