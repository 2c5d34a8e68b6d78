-------------------------------- MODULE SeqNo --------------------------------
(***************************************************************************)
(* Sequence numbers on the wire (class CSeqNo of common.h).  The code      *)
(* numbers packets from 0 to m_iMaxSeqNo and starts again at 0.  Wire maps *)
(* the count of a packet, which does not wrap, to its number.              *)
(***************************************************************************)
EXTENDS Integers

CONSTANT MaxSeqNo    \* m_iMaxSeqNo, 2^31 - 1 in the code

ASSUME SeqNoAssumption == MaxSeqNo \in Nat \ {0}

SeqNos == 0..MaxSeqNo
SeqNoTH == MaxSeqNo \div 2
Abs(n) == IF n < 0 THEN -n ELSE n
Wire(n) == n % (MaxSeqNo + 1)

SeqCmp(a, b) == IF Abs(a - b) < SeqNoTH THEN a - b ELSE b - a

SeqLen(a, b) == IF a <= b THEN b - a + 1 ELSE b - a + MaxSeqNo + 2

SeqOff(a, b) == IF Abs(a - b) < SeqNoTH THEN b - a
                ELSE IF a < b THEN b - a - MaxSeqNo - 1
                     ELSE b - a + MaxSeqNo + 1

IncSeq(a) == IF a = MaxSeqNo THEN 0 ELSE a + 1
DecSeq(a) == IF a = 0 THEN MaxSeqNo ELSE a - 1
IncSeqBy(a, n) == IF MaxSeqNo - a >= n THEN a + n ELSE a - MaxSeqNo + n - 1
=============================================================================
