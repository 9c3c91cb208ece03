-------------------------- MODULE RxReorder_proofs --------------------------
(***************************************************************************)
(* Proofs about the receive reordering buffer, for every number space,     *)
(* window, gap and stream of the peer.                                     *)
(***************************************************************************)
EXTENDS RxReorder, SequenceTheorems, TLAPS

-----------------------------------------------------------------------------
(***************************************************************************)
(* Arithmetic modulo SeqMod.                                               *)
(***************************************************************************)

\* The constants as numbers.
LEMMA ModIsPositive ==
  /\ SeqMod \in Nat \ {0} /\ SeqMod \in Int /\ Half \in Nat \ {0}
  /\ SeqMod = 2 * Half /\ WSize \in Nat \ {0} /\ GapMax \in Nat \ {0}
  /\ 2 * WSize + GapMax <= Half
BY ReorderAssumption

\* Only zero times SeqMod lies strictly between -SeqMod and SeqMod.
LEMMA MulBound ==
  ASSUME NEW q \in Int, q * SeqMod < SeqMod, q * SeqMod > -SeqMod
  PROVE  q = 0
<1>1. CASE q >= 1
  <2>1. q * SeqMod >= SeqMod BY <1>1, ModIsPositive, SMT
  <2> QED BY <2>1, ModIsPositive
<1>2. CASE q <= -1
  <2>1. q * SeqMod <= -SeqMod BY <1>2, ModIsPositive, SMT
  <2> QED BY <2>1, ModIsPositive
<1> QED BY <1>1, <1>2

\* Division with remainder.
LEMMA DivMod ==
  ASSUME NEW a \in Int
  PROVE  /\ a % SeqMod \in 0 .. SeqMod - 1 /\ a \div SeqMod \in Int
         /\ a = SeqMod * (a \div SeqMod) + (a % SeqMod)
<1>1. SeqMod \in Nat \ {0} BY ModIsPositive
<1> QED BY <1>1

\* The remainder is the only number of 0 .. SeqMod - 1 that differs from a by a multiple.
LEMMA RemainderUnique ==
  ASSUME NEW a \in Int, NEW q \in Int, NEW r \in 0 .. SeqMod - 1, a = SeqMod * q + r
  PROVE  a % SeqMod = r
<1> DEFINE k == a \div SeqMod
<1>1. a % SeqMod \in 0 .. SeqMod - 1 /\ k \in Int /\ a = SeqMod * k + (a % SeqMod) BY DivMod
<1>2. SeqMod \in Int BY ModIsPositive
<1>3. SeqMod * (k - q) = r - (a % SeqMod)
  <2> HIDE DEF k
  <2>1. SeqMod * (k - q) = SeqMod * k - SeqMod * q BY <1>1, <1>2, SMT
  <2>2. SeqMod * k \in Int /\ SeqMod * q \in Int BY <1>1, <1>2
  <2> QED BY <2>1, <2>2, <1>1, <1>2
<1>4. k - q = 0
  <2>1. (k - q) * SeqMod < SeqMod /\ (k - q) * SeqMod > -SeqMod BY <1>1, <1>2, <1>3, SMT
  <2> QED BY <2>1, <1>1, MulBound
<1> QED BY <1>1, <1>3, <1>4, <1>2

\* Only the remainders count for a sum.
LEMMA ModPlus ==
  ASSUME NEW a \in Int, NEW b \in Int
  PROVE  ((a % SeqMod) + b) % SeqMod = (a + b) % SeqMod
<1> DEFINE ka == a \div SeqMod  d == (a % SeqMod) + b  kd == d \div SeqMod
<1>1. a % SeqMod \in 0 .. SeqMod - 1 /\ ka \in Int /\ a = SeqMod * ka + (a % SeqMod) BY DivMod
<1>2. d \in Int /\ SeqMod \in Int BY <1>1, ModIsPositive
<1>3. d % SeqMod \in 0 .. SeqMod - 1 /\ kd \in Int /\ d = SeqMod * kd + (d % SeqMod)
  BY <1>2, DivMod
<1>4. a + b = SeqMod * (ka + kd) + (d % SeqMod)
  <2> DEFINE x == SeqMod * ka  y == SeqMod * kd
  <2>1. x \in Int /\ y \in Int BY <1>1, <1>2, <1>3
  <2>2. a = x + (a % SeqMod) /\ (a % SeqMod) + b = y + (d % SeqMod) BY <1>1, <1>3
  <2>3. SeqMod * (ka + kd) = x + y BY <1>1, <1>2, <1>3, SMT
  <2>4. a % SeqMod \in Int /\ d % SeqMod \in Int BY <1>1, <1>3
  <2> DEFINE ra == a % SeqMod  rd == d % SeqMod
  <2>5. ra \in Int /\ rd \in Int /\ a = x + ra /\ ra + b = y + rd BY <2>2, <2>4
  <2>6. a + b = x + y + rd
    <3> HIDE DEF ra, rd, x, y
    <3> QED BY <2>5, <2>1
  <2> HIDE DEF ka, kd, d, x, y
  <2> QED BY <2>6, <2>1, <2>2, <2>3, <2>4
<1>5. ka + kd \in Int BY <1>1, <1>3
<1>6. (a + b) % SeqMod = d % SeqMod
  <2> HIDE DEF ka, kd, d
  <2> QED BY RemainderUnique, <1>3, <1>4, <1>5
<1> QED BY <1>6

\* Only the remainders count for a difference.
LEMMA ModDiff ==
  ASSUME NEW a \in Int, NEW b \in Int
  PROVE  ((a % SeqMod) - (b % SeqMod)) % SeqMod = (a - b) % SeqMod
<1> DEFINE kb == b \div SeqMod  rb == b % SeqMod
<1>1. rb \in 0 .. SeqMod - 1 /\ kb \in Int /\ b = SeqMod * kb + rb BY DivMod
<1>2. ((a % SeqMod) + (-rb)) % SeqMod = (a + (-rb)) % SeqMod BY <1>1, ModPlus
<1>3. (a % SeqMod) \in Int BY DivMod
<1> DEFINE d == a - b  kd == d \div SeqMod
<1>4. d \in Int /\ SeqMod \in Int BY ModIsPositive
<1>5. d % SeqMod \in 0 .. SeqMod - 1 /\ kd \in Int /\ d = SeqMod * kd + (d % SeqMod)
  BY <1>4, DivMod
<1>6. a + (-rb) = SeqMod * (kb + kd) + (d % SeqMod)
  <2> DEFINE x == SeqMod * kb  y == SeqMod * kd
  <2>1. x \in Int /\ y \in Int BY <1>1, <1>4, <1>5
  <2>2. b = x + rb /\ a - b = y + (d % SeqMod) BY <1>1, <1>5
  <2>3. SeqMod * (kb + kd) = x + y BY <1>1, <1>4, <1>5, SMT
  <2>4. rb \in Int /\ d % SeqMod \in Int BY <1>1, <1>5
  <2> HIDE DEF kb, kd, rb, d, x, y
  <2> QED BY <2>1, <2>2, <2>3, <2>4
<1>7. (a + (-rb)) % SeqMod = d % SeqMod
  <2>1. kb + kd \in Int /\ a + (-rb) \in Int BY <1>1, <1>5
  <2> HIDE DEF kb, kd, rb, d
  <2> QED BY <2>1, <1>5, <1>6, RemainderUnique
<1>8. (a % SeqMod) + (-rb) = (a % SeqMod) - rb BY <1>1, <1>3
<1> QED BY <1>2, <1>7, <1>8

\* The remainder of a small number is that number.
LEMMA ModSmall ==
  ASSUME NEW a \in Int, a \in 0 .. SeqMod - 1
  PROVE  a % SeqMod = a
<1>1. a = SeqMod * 0 + a BY ModIsPositive
<1> QED BY <1>1, RemainderUnique

\* SN_LESS compares as the numbers do while they are less than half the space apart.
LEMMA SNLessIsLess ==
  ASSUME NEW a \in Int, NEW b \in Int, a - b < Half, b - a <= Half
  PROVE  SNLess(SeqNum(a), SeqNum(b)) <=> a < b
<1>1. ((a % SeqMod) - (b % SeqMod)) % SeqMod = (a - b) % SeqMod BY ModDiff
<1>2. CASE a < b
  <2>1. a - b = SeqMod * (-1) + (a - b + SeqMod) /\ a - b + SeqMod \in 0 .. SeqMod - 1
    BY <1>2, ModIsPositive
  <2>2. (a - b) % SeqMod = a - b + SeqMod BY <2>1, RemainderUnique
  <2> QED BY <1>1, <1>2, <2>2, ModIsPositive DEF SNLess, SeqNum
<1>3. CASE a >= b
  <2>1. a - b \in 0 .. SeqMod - 1 BY <1>3, ModIsPositive
  <2>2. (a - b) % SeqMod = a - b BY <2>1, ModSmall
  <2> QED BY <1>1, <1>3, <2>2, ModIsPositive DEF SNLess, SeqNum
<1> QED BY <1>2, <1>3

\* Within half the space equal sequence numbers are equal numbers.
LEMMA SeqNumInjective ==
  ASSUME NEW a \in Int, NEW b \in Int, a - b < Half, b - a < Half, SeqNum(a) = SeqNum(b)
  PROVE  a = b
<1>1. SeqNum(a) \in Int BY DivMod DEF SeqNum
<1>2. SeqNum(a) - SeqNum(b) = 0 BY <1>1
<1>3. 0 % SeqMod = 0 BY ModSmall, ModIsPositive
<1>4. ~SNLess(SeqNum(a), SeqNum(b)) /\ ~SNLess(SeqNum(b), SeqNum(a))
  BY <1>1, <1>2, <1>3, ModIsPositive DEF SNLess
<1>5. a - b <= Half /\ b - a <= Half BY ModIsPositive
<1>6. ~(a < b) BY <1>4, <1>5, SNLessIsLess
<1>7. ~(b < a) BY <1>4, <1>5, SNLessIsLess
<1> QED BY <1>6, <1>7

\* Sequence numbers are numbers below SeqMod, and the uninitialised one is not.
LEMMA SeqNumType ==
  ASSUME NEW n \in Int
  PROVE  /\ SeqNum(n) \in 0 .. SeqMod - 1 /\ SeqNum(n) \in SeqValues
         /\ SeqNum(n) # Uninit /\ Uninit \in Nat /\ Uninit \in SeqValues
<1>1. SeqNum(n) \in 0 .. SeqMod - 1 BY DivMod DEF SeqNum
<1>2. Uninit \in Nat /\ Uninit > SeqMod BY ModIsPositive DEF Uninit
<1> QED BY <1>1, <1>2, ModIsPositive DEF SeqValues

-----------------------------------------------------------------------------
(***************************************************************************)
(* The list operations of the buffer.                                      *)
(***************************************************************************)

\* ConcatProperties, for sequences of numbers.
LEMMA ConcatNat ==
  ASSUME NEW s \in Seq(Nat), NEW t \in Seq(Nat)
  PROVE  /\ s \o t \in Seq(Nat)
         /\ Len(s \o t) = Len(s) + Len(t)
         /\ \A i \in 1 .. Len(s) + Len(t) : (s \o t)[i] =
              IF i <= Len(s) THEN s[i] ELSE t[i - Len(s)]
BY ConcatProperties

\* What insertion at a place does.
LEMMA InsertedAtProperties ==
  ASSUME TypeOK, NEW i \in 1 .. Len(pending) + 1, NEW n \in Nat
  PROVE  /\ InsertedAt(i, n) \in Seq(Nat)
         /\ Len(InsertedAt(i, n)) = Len(pending) + 1
         /\ \A j \in 1 .. Len(pending) + 1 : InsertedAt(i, n)[j] =
              IF j < i THEN pending[j] ELSE IF j = i THEN n ELSE pending[j - 1]
<1> DEFINE l == SubSeq(pending, 1, i - 1)  r == SubSeq(pending, i, Len(pending))  m == <<n>>
<1>1. pending \in Seq(Nat) /\ Len(pending) \in Nat BY LenProperties DEF TypeOK, QueueTypes
<1>2. \A j \in 1 .. Len(pending) : pending[j] \in Nat BY <1>1, ElementOfSeq
<1>3. /\ l \in Seq(Nat) /\ Len(l) = i - 1
      /\ \A j \in 1 .. i - 1 : l[j] = pending[j]
  <2>1. \A j \in 1 .. i - 1 : pending[j] \in Nat BY <1>1, <1>2
  <2>2. /\ l \in Seq(Nat)
        /\ Len(l) = IF 1 <= i - 1 THEN i - 1 - 1 + 1 ELSE 0
        /\ \A j \in 1 .. i - 1 - 1 + 1 : l[j] = pending[1 + j - 1]
    BY <2>1, <1>1, SubSeqProperties DEF l
  <2> QED BY <2>2, <1>1
<1>4. /\ r \in Seq(Nat) /\ Len(r) = Len(pending) - i + 1
      /\ \A j \in 1 .. Len(pending) - i + 1 : r[j] = pending[i + j - 1]
  <2>1. \A j \in i .. Len(pending) : pending[j] \in Nat BY <1>1, <1>2
  <2>2. /\ r \in Seq(Nat)
        /\ Len(r) = IF i <= Len(pending) THEN Len(pending) - i + 1 ELSE 0
        /\ \A j \in 1 .. Len(pending) - i + 1 : r[j] = pending[i + j - 1]
    BY <2>1, <1>1, SubSeqProperties DEF r
  <2> QED BY <2>2, <1>1
<1>5. m \in Seq(Nat) /\ Len(m) = 1 /\ m[1] = n OBVIOUS
<1> HIDE DEF l, r, m
<1>6. /\ l \o m \in Seq(Nat) /\ Len(l \o m) = i
      /\ \A j \in 1 .. i : (l \o m)[j] = IF j <= i - 1 THEN l[j] ELSE m[j - (i - 1)]
  <2>1. Len(l) + Len(m) = i BY <1>3, <1>5, <1>1
  <2>2. /\ l \o m \in Seq(Nat) /\ Len(l \o m) = Len(l) + Len(m)
        /\ \A j \in 1 .. Len(l) + Len(m) : (l \o m)[j] =
             IF j <= Len(l) THEN l[j] ELSE m[j - Len(l)]
    BY <1>3, <1>5, ConcatNat
  <2> QED BY <2>1, <2>2, <1>3
<1>7. /\ (l \o m) \o r \in Seq(Nat)
      /\ Len((l \o m) \o r) = i + Len(r)
      /\ \A j \in 1 .. i + Len(r) : ((l \o m) \o r)[j] =
           IF j <= i THEN (l \o m)[j] ELSE r[j - i]
  BY <1>4, <1>6, ConcatNat
<1>8. InsertedAt(i, n) = (l \o m) \o r BY DEF InsertedAt, l, r, m
<1>9. ASSUME NEW j \in 1 .. Len(pending) + 1
      PROVE  InsertedAt(i, n)[j] =
               IF j < i THEN pending[j] ELSE IF j = i THEN n ELSE pending[j - 1]
  <2>1. CASE j < i BY <2>1, <1>1, <1>3, <1>4, <1>6, <1>7, <1>8
  <2>2. CASE j = i
    <3>1. (l \o m)[i] = m[1] BY <1>1, <1>6
    <3> QED BY <2>2, <3>1, <1>1, <1>4, <1>5, <1>7, <1>8
  <2>3. CASE j > i
    <3>1. j \in 1 .. i + Len(r) /\ ~(j <= i) BY <2>3, <1>1, <1>4
    <3>2. j - i \in 1 .. Len(pending) - i + 1 BY <2>3, <1>1
    <3>3. r[j - i] = pending[i + (j - i) - 1] BY <1>4, <3>2
    <3>4. i + (j - i) - 1 = j - 1 BY <1>1
    <3>5. ~(j < i) /\ j # i BY <2>3
    <3>6. ((l \o m) \o r)[j] = r[j - i] BY <3>1, <1>7
    <3> QED BY <3>3, <3>4, <3>5, <3>6, <1>8
  <2> QED BY <2>1, <2>2, <2>3, <1>1
<1>10. i + Len(r) = Len(pending) + 1 BY <1>1, <1>4
<1> QED BY <1>7, <1>8, <1>9, <1>10

\* The head of the buffer and what is left after it.
LEMMA HeadTail ==
  ASSUME TypeOK, pending # <<>>
  PROVE  /\ Len(pending) \in Nat \ {0} /\ 1 \in 1 .. Len(pending)
         /\ Head(pending) = pending[1] /\ Head(pending) \in Nat
         /\ Tail(pending) \in Seq(Nat) /\ Len(Tail(pending)) = Len(pending) - 1
         /\ \A i \in 1 .. Len(pending) - 1 : Tail(pending)[i] = pending[i + 1]
<1>1. pending \in Seq(Nat) BY DEF TypeOK, QueueTypes
<1>2. Len(pending) \in Nat \ {0} BY <1>1, EmptySeq
<1> QED BY <1>1, <1>2, HeadTailProperties

\* The elements of the two sequences are numbers.
LEMMA Elements ==
  ASSUME TypeOK
  PROVE  /\ Len(pending) \in Nat /\ \A i \in 1 .. Len(pending) : pending[i] \in Nat
         /\ Len(out) \in Nat /\ \A k \in 1 .. Len(out) : out[k] \in Nat
BY LenProperties, ElementOfSeq DEF TypeOK, QueueTypes, HistTypes

-----------------------------------------------------------------------------
(***************************************************************************)
(* Types.                                                                  *)
(***************************************************************************)

\* What check_indicate_seq makes of indicate_seq is a sequence number or 0xffff.
LEMMA NextIndicateType ==
  ASSUME TypeOK, NEW s \in 0 .. SeqMod - 1
  PROVE  NextIndicate(s) \in SeqValues
<1>1. (s + 1) % SeqMod \in 0 .. SeqMod - 1
  <2>1. s + 1 \in Int BY ModIsPositive
  <2> QED BY <2>1, DivMod
<1>2. Shifted(s) \in 0 .. SeqMod - 1 BY ModIsPositive DEF Shifted
<1> QED BY <1>1, <1>2 DEF NextIndicate, TypeOK, CtrlTypes, SeqValues

\* The number after indicate_seq.
LEMMA IncrementType ==
  ASSUME TypeOK
  PROVE  (indicate + 1) % SeqMod \in SeqValues
<1>1. Uninit \in Nat /\ SeqMod \in Nat BY SeqNumType, ModIsPositive
<1>2. indicate + 1 \in Int BY <1>1 DEF TypeOK, CtrlTypes, SeqValues
<1> QED BY <1>2, DivMod DEF SeqValues

\* What a step leaves alone keeps its type.
LEMMA UnchangedTypes ==
  ASSUME TypeOK
  PROVE  /\ UNCHANGED peer => PeerTypes'
         /\ UNCHANGED ctrl => CtrlTypes'
         /\ UNCHANGED queue => QueueTypes'
         /\ UNCHANGED task => TaskTypes'
         /\ UNCHANGED cmds /\ UNCHANGED stopped => CmdTypes'
         /\ UNCHANGED hist => HistTypes'
<1>1. UNCHANGED peer => PeerTypes' BY DEF TypeOK, PeerTypes, peer
<1>2. UNCHANGED ctrl => CtrlTypes' BY DEF TypeOK, CtrlTypes, ctrl
<1>3. UNCHANGED queue => QueueTypes' BY DEF TypeOK, QueueTypes, queue
<1>4. UNCHANGED task => TaskTypes' BY DEF TypeOK, TaskTypes, task
<1>5. UNCHANGED cmds /\ UNCHANGED stopped => CmdTypes' BY DEF TypeOK, CmdTypes, cmds
<1>6. UNCHANGED hist => HistTypes' BY DEF TypeOK, HistTypes, hist
<1> QED BY <1>1, <1>2, <1>3, <1>4, <1>5, <1>6

\* Every variable keeps its type.
LEMMA TypeStep == ASSUME TypeOK, [Next]_vars PROVE TypeOK'
<1>0. /\ PeerTypes /\ CtrlTypes /\ QueueTypes /\ TaskTypes /\ CmdTypes /\ HistTypes
      /\ frame \in Int
  BY DEF TypeOK, TaskTypes
<1>1. ASSUME NEW n \in 0 .. Last, Receive(n) PROVE TypeOK'
  <2>1. n \in Nat /\ SeqNum(n) \in SeqValues /\ Last \in Nat BY ReorderAssumption, SeqNumType
  <2>c1. PeerTypes' BY <1>1, <1>0, <2>1 DEF Receive, PeerTypes
  <2>c2. CtrlTypes' BY <1>1, <1>0, <2>1 DEF Receive, CtrlTypes
  <2>c3. QueueTypes'
    <3>1. UNCHANGED queue BY <1>1 DEF Receive, queue
    <3> QED BY <3>1, UnchangedTypes
  <2>c4. TaskTypes'
    <3>1. ahead' \in BOOLEAN
      <4>1. (ahead' = ahead) \/ (ahead' = (n > top)) BY <1>1, Zenon DEF Receive
      <4>2. (n > top) \in BOOLEAN OBVIOUS
      <4> QED BY <4>1, <4>2, <1>0, Zenon DEF TaskTypes
    <3>2. rx' \in {"idle", "direct", "enter", "loop", "cancel"} BY <1>1, <1>0 DEF Receive, TaskTypes
    <3>3. frame' \in Nat /\ cache' \in SeqValues BY <1>1, <1>0, <2>1 DEF Receive, TaskTypes
    <3> QED BY <3>1, <3>2, <3>3 DEF TaskTypes
  <2>c5. CmdTypes'
    <3>1. UNCHANGED cmds /\ UNCHANGED stopped BY <1>1 DEF Receive, cmds
    <3> QED BY <3>1, UnchangedTypes
  <2>c6. HistTypes'
    <3>1. UNCHANGED hist BY <1>1 DEF Receive, hist
    <3> QED BY <3>1, UnchangedTypes
  <2> QED BY <2>c1, <2>c2, <2>c3, <2>c4, <2>c5, <2>c6 DEF TypeOK
<1>2. ASSUME NEW ok \in BOOLEAN, AddbaReq(ok) PROVE TypeOK'
  <2>c1. PeerTypes' BY <1>2, <1>0 DEF AddbaReq, PeerTypes
  <2>c2. CtrlTypes'
    <3>1. UNCHANGED ctrl BY <1>2 DEF AddbaReq, ctrl
    <3> QED BY <3>1, UnchangedTypes
  <2>c3. QueueTypes'
    <3>1. UNCHANGED queue BY <1>2 DEF AddbaReq, queue
    <3> QED BY <3>1, UnchangedTypes
  <2>c4. TaskTypes'
    <3>1. UNCHANGED task BY <1>2 DEF AddbaReq, task
    <3> QED BY <3>1, UnchangedTypes
  <2>c5. CmdTypes' BY <1>2, <1>0 DEF AddbaReq, CmdTypes
  <2>c6. HistTypes'
    <3>1. UNCHANGED hist BY <1>2 DEF AddbaReq, hist
    <3> QED BY <3>1, UnchangedTypes
  <2> QED BY <2>c1, <2>c2, <2>c3, <2>c4, <2>c5, <2>c6 DEF TypeOK
<1>3. CASE DirectDone
  <2>c1. PeerTypes'
    <3>1. UNCHANGED peer BY <1>3 DEF DirectDone, peer
    <3> QED BY <3>1, UnchangedTypes
  <2>c2. CtrlTypes' BY <1>3, <1>0, IncrementType DEF DirectDone, CtrlTypes
  <2>c3. QueueTypes'
    <3>1. UNCHANGED queue BY <1>3 DEF DirectDone, queue
    <3> QED BY <3>1, UnchangedTypes
  <2>c4. TaskTypes' BY <1>3, <1>0 DEF DirectDone, TaskTypes
  <2>c5. CmdTypes'
    <3>1. UNCHANGED cmds /\ UNCHANGED stopped BY <1>3 DEF DirectDone, cmds
    <3> QED BY <3>1, UnchangedTypes
  <2>c6. HistTypes'
    <3>1. UNCHANGED hist BY <1>3 DEF DirectDone, hist
    <3> QED BY <3>1, UnchangedTypes
  <2> QED BY <2>c1, <2>c2, <2>c3, <2>c4, <2>c5, <2>c6 DEF TypeOK
<1>4. CASE DropOld
  <2>c1. PeerTypes'
    <3>1. UNCHANGED peer BY <1>4 DEF DropOld, peer
    <3> QED BY <3>1, UnchangedTypes
  <2>c2. CtrlTypes'
    <3>1. UNCHANGED ctrl BY <1>4 DEF DropOld, ctrl
    <3> QED BY <3>1, UnchangedTypes
  <2>c3. QueueTypes'
    <3>1. UNCHANGED queue BY <1>4 DEF DropOld, queue
    <3> QED BY <3>1, UnchangedTypes
  <2>c4. TaskTypes' BY <1>4, <1>0 DEF DropOld, TaskTypes
  <2>c5. CmdTypes'
    <3>1. UNCHANGED cmds /\ UNCHANGED stopped BY <1>4 DEF DropOld, cmds
    <3> QED BY <3>1, UnchangedTypes
  <2>c6. HistTypes'
    <3>1. UNCHANGED hist BY <1>4 DEF DropOld, hist
    <3> QED BY <3>1, UnchangedTypes
  <2> QED BY <2>c1, <2>c2, <2>c3, <2>c4, <2>c5, <2>c6 DEF TypeOK
<1>5. SeqNum(frame) \in 0 .. SeqMod - 1 BY <1>0, SeqNumType
<1>6. CASE DropDuplicate
  <2>c1. PeerTypes'
    <3>1. UNCHANGED peer BY <1>6 DEF DropDuplicate, peer
    <3> QED BY <3>1, UnchangedTypes
  <2>c2. CtrlTypes' BY <1>6, <1>0, <1>5, NextIndicateType DEF DropDuplicate, CtrlTypes
  <2>c3. QueueTypes'
    <3>1. UNCHANGED queue BY <1>6 DEF DropDuplicate, queue
    <3> QED BY <3>1, UnchangedTypes
  <2>c4. TaskTypes' BY <1>6, <1>0 DEF DropDuplicate, TaskTypes
  <2>c5. CmdTypes'
    <3>1. UNCHANGED cmds /\ UNCHANGED stopped BY <1>6 DEF DropDuplicate, cmds
    <3> QED BY <3>1, UnchangedTypes
  <2>c6. HistTypes'
    <3>1. UNCHANGED hist BY <1>6 DEF DropDuplicate, hist
    <3> QED BY <3>1, UnchangedTypes
  <2> QED BY <2>c1, <2>c2, <2>c3, <2>c4, <2>c5, <2>c6 DEF TypeOK
<1>7. CASE Enqueue
  <2>1. pending' \in Seq(Nat)
    <3>1. frame \in Nat BY <1>0 DEF TaskTypes
    <3> QED BY <1>7, <3>1, InsertedAtProperties DEF Enqueue
  <2>2. frame \in Nat BY <1>0 DEF TaskTypes
  <2>c1. PeerTypes'
    <3>1. UNCHANGED peer BY <1>7 DEF Enqueue, peer
    <3> QED BY <3>1, UnchangedTypes
  <2>c2. CtrlTypes' BY <1>7, <1>0, <1>5, NextIndicateType DEF Enqueue, CtrlTypes
  <2>c3. QueueTypes' BY <1>7, <1>0, <2>1 DEF Enqueue, QueueTypes
  <2>c4. TaskTypes' BY <1>7, <1>0 DEF Enqueue, TaskTypes
  <2>c5. CmdTypes'
    <3>1. UNCHANGED cmds /\ UNCHANGED stopped BY <1>7 DEF Enqueue, cmds
    <3> QED BY <3>1, UnchangedTypes
  <2>c6. HistTypes' BY <1>7, <1>0, <2>2 DEF Enqueue, HistTypes
  <2> QED BY <2>c1, <2>c2, <2>c3, <2>c4, <2>c5, <2>c6 DEF TypeOK
<1>8. CASE LoopLeavesSome
  <2>c1. PeerTypes'
    <3>1. UNCHANGED peer BY <1>8 DEF LoopLeavesSome, peer
    <3> QED BY <3>1, UnchangedTypes
  <2>c2. CtrlTypes'
    <3>1. UNCHANGED ctrl BY <1>8 DEF LoopLeavesSome, ctrl
    <3> QED BY <3>1, UnchangedTypes
  <2>c3. QueueTypes' BY <1>8, <1>0 DEF LoopLeavesSome, QueueTypes
  <2>c4. TaskTypes' BY <1>8, <1>0 DEF LoopLeavesSome, TaskTypes
  <2>c5. CmdTypes'
    <3>1. UNCHANGED cmds /\ UNCHANGED stopped BY <1>8 DEF LoopLeavesSome, cmds
    <3> QED BY <3>1, UnchangedTypes
  <2>c6. HistTypes'
    <3>1. UNCHANGED hist BY <1>8 DEF LoopLeavesSome, hist
    <3> QED BY <3>1, UnchangedTypes
  <2> QED BY <2>c1, <2>c2, <2>c3, <2>c4, <2>c5, <2>c6 DEF TypeOK
<1>9. CASE LoopLeavesNone
  <2>c1. PeerTypes'
    <3>1. UNCHANGED peer BY <1>9 DEF LoopLeavesNone, peer
    <3> QED BY <3>1, UnchangedTypes
  <2>c2. CtrlTypes'
    <3>1. UNCHANGED ctrl BY <1>9 DEF LoopLeavesNone, ctrl
    <3> QED BY <3>1, UnchangedTypes
  <2>c3. QueueTypes' BY <1>9, <1>0 DEF LoopLeavesNone, QueueTypes
  <2>c4. TaskTypes' BY <1>9, <1>0 DEF LoopLeavesNone, TaskTypes
  <2>c5. CmdTypes'
    <3>1. UNCHANGED cmds /\ UNCHANGED stopped BY <1>9 DEF LoopLeavesNone, cmds
    <3> QED BY <3>1, UnchangedTypes
  <2>c6. HistTypes'
    <3>1. UNCHANGED hist BY <1>9 DEF LoopLeavesNone, hist
    <3> QED BY <3>1, UnchangedTypes
  <2> QED BY <2>c1, <2>c2, <2>c3, <2>c4, <2>c5, <2>c6 DEF TypeOK
<1>10. CASE Cancel
  <2>c1. PeerTypes'
    <3>1. UNCHANGED peer BY <1>10 DEF Cancel, peer
    <3> QED BY <3>1, UnchangedTypes
  <2>c2. CtrlTypes'
    <3>1. UNCHANGED ctrl BY <1>10 DEF Cancel, ctrl
    <3> QED BY <3>1, UnchangedTypes
  <2>c3. QueueTypes' BY <1>10, <1>0 DEF Cancel, QueueTypes
  <2>c4. TaskTypes' BY <1>10, <1>0 DEF Cancel, TaskTypes
  <2>c5. CmdTypes'
    <3>1. UNCHANGED cmds /\ UNCHANGED stopped BY <1>10 DEF Cancel, cmds
    <3> QED BY <3>1, UnchangedTypes
  <2>c6. HistTypes'
    <3>1. UNCHANGED hist BY <1>10 DEF Cancel, hist
    <3> QED BY <3>1, UnchangedTypes
  <2> QED BY <2>c1, <2>c2, <2>c3, <2>c4, <2>c5, <2>c6 DEF TypeOK
<1>11. CASE IndicateHead
  <2>1. pending # <<>> BY <1>11 DEF IndicateHead, HeadReady
  <2>2. Tail(pending) \in Seq(Nat) BY <2>1, HeadTail
  <2>3. Append(out, Head(pending)) \in Seq(Nat)
    BY <1>0, <2>1, HeadTail, AppendProperties DEF HistTypes
  <2>c1. PeerTypes'
    <3>1. UNCHANGED peer BY <1>11 DEF IndicateHead, peer
    <3> QED BY <3>1, UnchangedTypes
  <2>c2. CtrlTypes' BY <1>11, <1>0, IncrementType DEF IndicateHead, CtrlTypes
  <2>c3. QueueTypes' BY <1>11, <1>0, <2>2 DEF IndicateHead, QueueTypes
  <2>c4. TaskTypes'
    <3>1. UNCHANGED task BY <1>11 DEF IndicateHead, task
    <3> QED BY <3>1, UnchangedTypes
  <2>c5. CmdTypes'
    <3>1. UNCHANGED cmds /\ UNCHANGED stopped BY <1>11 DEF IndicateHead, cmds
    <3> QED BY <3>1, UnchangedTypes
  <2>c6. HistTypes' BY <1>11, <1>0, <2>3 DEF IndicateHead, HistTypes
  <2> QED BY <2>c1, <2>c2, <2>c3, <2>c4, <2>c5, <2>c6 DEF TypeOK
<1>12. CASE TimerFires
  <2>1. fired' \in BOOLEAN BY <1>12, Zenon DEF TimerFires
  <2>c1. PeerTypes'
    <3>1. UNCHANGED peer BY <1>12 DEF TimerFires, peer
    <3> QED BY <3>1, UnchangedTypes
  <2>c2. CtrlTypes'
    <3>1. UNCHANGED ctrl BY <1>12 DEF TimerFires, ctrl
    <3> QED BY <3>1, UnchangedTypes
  <2>c3. QueueTypes' BY <1>12, <1>0, <2>1 DEF TimerFires, QueueTypes
  <2>c4. TaskTypes'
    <3>1. UNCHANGED task BY <1>12 DEF TimerFires, task
    <3> QED BY <3>1, UnchangedTypes
  <2>c5. CmdTypes'
    <3>1. UNCHANGED cmds /\ UNCHANGED stopped BY <1>12 DEF TimerFires, cmds
    <3> QED BY <3>1, UnchangedTypes
  <2>c6. HistTypes'
    <3>1. UNCHANGED hist BY <1>12 DEF TimerFires, hist
    <3> QED BY <3>1, UnchangedTypes
  <2> QED BY <2>c1, <2>c2, <2>c3, <2>c4, <2>c5, <2>c6 DEF TypeOK
<1>13. CASE TimerFindsNone
  <2>c1. PeerTypes'
    <3>1. UNCHANGED peer BY <1>13 DEF TimerFindsNone, peer
    <3> QED BY <3>1, UnchangedTypes
  <2>c2. CtrlTypes'
    <3>1. UNCHANGED ctrl BY <1>13 DEF TimerFindsNone, ctrl
    <3> QED BY <3>1, UnchangedTypes
  <2>c3. QueueTypes' BY <1>13, <1>0 DEF TimerFindsNone, QueueTypes
  <2>c4. TaskTypes'
    <3>1. UNCHANGED task BY <1>13 DEF TimerFindsNone, task
    <3> QED BY <3>1, UnchangedTypes
  <2>c5. CmdTypes'
    <3>1. UNCHANGED cmds /\ UNCHANGED stopped BY <1>13 DEF TimerFindsNone, cmds
    <3> QED BY <3>1, UnchangedTypes
  <2>c6. HistTypes'
    <3>1. UNCHANGED hist BY <1>13 DEF TimerFindsNone, hist
    <3> QED BY <3>1, UnchangedTypes
  <2> QED BY <2>c1, <2>c2, <2>c3, <2>c4, <2>c5, <2>c6 DEF TypeOK
<1>14. CASE TimerForces
  <2>1. SeqNum(Head(pending)) \in SeqValues
    <3>1. Head(pending) \in Nat BY <1>14, HeadTail DEF TimerForces
    <3> QED BY <3>1, SeqNumType
  <2>c1. PeerTypes'
    <3>1. UNCHANGED peer BY <1>14 DEF TimerForces, peer
    <3> QED BY <3>1, UnchangedTypes
  <2>c2. CtrlTypes' BY <1>14, <1>0, <2>1 DEF TimerForces, CtrlTypes
  <2>c3. QueueTypes' BY <1>14, <1>0 DEF TimerForces, QueueTypes
  <2>c4. TaskTypes'
    <3>1. UNCHANGED task BY <1>14 DEF TimerForces, task
    <3> QED BY <3>1, UnchangedTypes
  <2>c5. CmdTypes'
    <3>1. UNCHANGED cmds /\ UNCHANGED stopped BY <1>14 DEF TimerForces, cmds
    <3> QED BY <3>1, UnchangedTypes
  <2>c6. HistTypes'
    <3>1. UNCHANGED hist BY <1>14 DEF TimerForces, hist
    <3> QED BY <3>1, UnchangedTypes
  <2> QED BY <2>c1, <2>c2, <2>c3, <2>c4, <2>c5, <2>c6 DEF TypeOK
<1>15. CASE TimerDone
  <2>c1. PeerTypes'
    <3>1. UNCHANGED peer BY <1>15 DEF TimerDone, peer
    <3> QED BY <3>1, UnchangedTypes
  <2>c2. CtrlTypes'
    <3>1. UNCHANGED ctrl BY <1>15 DEF TimerDone, ctrl
    <3> QED BY <3>1, UnchangedTypes
  <2>c3. QueueTypes' BY <1>15, <1>0 DEF TimerDone, QueueTypes
  <2>c4. TaskTypes'
    <3>1. UNCHANGED task BY <1>15 DEF TimerDone, task
    <3> QED BY <3>1, UnchangedTypes
  <2>c5. CmdTypes'
    <3>1. UNCHANGED cmds /\ UNCHANGED stopped BY <1>15 DEF TimerDone, cmds
    <3> QED BY <3>1, UnchangedTypes
  <2>c6. HistTypes'
    <3>1. UNCHANGED hist BY <1>15 DEF TimerDone, hist
    <3> QED BY <3>1, UnchangedTypes
  <2> QED BY <2>c1, <2>c2, <2>c3, <2>c4, <2>c5, <2>c6 DEF TypeOK
<1>16. ASSUME NEW heard \in BOOLEAN, SendRsp(heard) PROVE TypeOK'
  <2>c1. PeerTypes' BY <1>16, <1>0 DEF SendRsp, PeerTypes
  <2>c2. CtrlTypes'
    <3>1. UNCHANGED ctrl BY <1>16 DEF SendRsp, ctrl
    <3> QED BY <3>1, UnchangedTypes
  <2>c3. QueueTypes'
    <3>1. UNCHANGED queue BY <1>16 DEF SendRsp, queue
    <3> QED BY <3>1, UnchangedTypes
  <2>c4. TaskTypes'
    <3>1. UNCHANGED task BY <1>16 DEF SendRsp, task
    <3> QED BY <3>1, UnchangedTypes
  <2>c5. CmdTypes' BY <1>16, <1>0 DEF SendRsp, CmdTypes
  <2>c6. HistTypes'
    <3>1. UNCHANGED hist BY <1>16 DEF SendRsp, hist
    <3> QED BY <3>1, UnchangedTypes
  <2> QED BY <2>c1, <2>c2, <2>c3, <2>c4, <2>c5, <2>c6 DEF TypeOK
<1>17. CASE ResetSeq
  <2>c1. PeerTypes'
    <3>1. UNCHANGED peer BY <1>17 DEF ResetSeq, peer
    <3> QED BY <3>1, UnchangedTypes
  <2>c2. CtrlTypes' BY <1>17, <1>0, SeqNumType DEF ResetSeq, CtrlTypes
  <2>c3. QueueTypes'
    <3>1. UNCHANGED queue BY <1>17 DEF ResetSeq, queue
    <3> QED BY <3>1, UnchangedTypes
  <2>c4. TaskTypes'
    <3>1. UNCHANGED task BY <1>17 DEF ResetSeq, task
    <3> QED BY <3>1, UnchangedTypes
  <2>c5. CmdTypes' BY <1>17, <1>0 DEF ResetSeq, CmdTypes
  <2>c6. HistTypes' BY <1>17, <1>0, EmptySeq DEF ResetSeq, HistTypes
  <2> QED BY <2>c1, <2>c2, <2>c3, <2>c4, <2>c5, <2>c6 DEF TypeOK
<1>18. CASE SetEnable
  <2>c1. PeerTypes'
    <3>1. UNCHANGED peer BY <1>18 DEF SetEnable, peer
    <3> QED BY <3>1, UnchangedTypes
  <2>c2. CtrlTypes' BY <1>18, <1>0 DEF SetEnable, CtrlTypes, CmdTypes
  <2>c3. QueueTypes'
    <3>1. UNCHANGED queue BY <1>18 DEF SetEnable, queue
    <3> QED BY <3>1, UnchangedTypes
  <2>c4. TaskTypes'
    <3>1. UNCHANGED task BY <1>18 DEF SetEnable, task
    <3> QED BY <3>1, UnchangedTypes
  <2>c5. CmdTypes' BY <1>18, <1>0 DEF SetEnable, CmdTypes
  <2>c6. HistTypes' BY <1>18, <1>0, EmptySeq DEF SetEnable, HistTypes
  <2> QED BY <2>c1, <2>c2, <2>c3, <2>c4, <2>c5, <2>c6 DEF TypeOK
<1>19. CASE PeerStops
  <2>c1. PeerTypes' BY <1>19, <1>0 DEF PeerStops, PeerTypes
  <2>c2. CtrlTypes'
    <3>1. UNCHANGED ctrl BY <1>19 DEF PeerStops, ctrl
    <3> QED BY <3>1, UnchangedTypes
  <2>c3. QueueTypes'
    <3>1. UNCHANGED queue BY <1>19 DEF PeerStops, queue
    <3> QED BY <3>1, UnchangedTypes
  <2>c4. TaskTypes'
    <3>1. UNCHANGED task BY <1>19 DEF PeerStops, task
    <3> QED BY <3>1, UnchangedTypes
  <2>c5. CmdTypes'
    <3>1. UNCHANGED cmds /\ UNCHANGED stopped BY <1>19 DEF PeerStops, cmds
    <3> QED BY <3>1, UnchangedTypes
  <2>c6. HistTypes'
    <3>1. UNCHANGED hist BY <1>19 DEF PeerStops, hist
    <3> QED BY <3>1, UnchangedTypes
  <2> QED BY <2>c1, <2>c2, <2>c3, <2>c4, <2>c5, <2>c6 DEF TypeOK
<1>20. CASE DelbaArrives
  <2>c1. PeerTypes' BY <1>20, <1>0 DEF DelbaArrives, PeerTypes
  <2>c2. CtrlTypes' BY <1>20, <1>0 DEF DelbaArrives, CtrlTypes
  <2>c3. QueueTypes'
    <3>1. UNCHANGED queue BY <1>20 DEF DelbaArrives, queue
    <3> QED BY <3>1, UnchangedTypes
  <2>c4. TaskTypes'
    <3>1. UNCHANGED task BY <1>20 DEF DelbaArrives, task
    <3> QED BY <3>1, UnchangedTypes
  <2>c5. CmdTypes'
    <3>1. UNCHANGED cmds /\ UNCHANGED stopped BY <1>20 DEF DelbaArrives, cmds
    <3> QED BY <3>1, UnchangedTypes
  <2>c6. HistTypes'
    <3>1. UNCHANGED hist BY <1>20 DEF DelbaArrives, hist
    <3> QED BY <3>1, UnchangedTypes
  <2> QED BY <2>c1, <2>c2, <2>c3, <2>c4, <2>c5, <2>c6 DEF TypeOK
<1>21. CASE DelbaLost
  <2>c1. PeerTypes' BY <1>21, <1>0 DEF DelbaLost, PeerTypes
  <2>c2. CtrlTypes'
    <3>1. UNCHANGED ctrl BY <1>21 DEF DelbaLost, ctrl
    <3> QED BY <3>1, UnchangedTypes
  <2>c3. QueueTypes'
    <3>1. UNCHANGED queue BY <1>21 DEF DelbaLost, queue
    <3> QED BY <3>1, UnchangedTypes
  <2>c4. TaskTypes'
    <3>1. UNCHANGED task BY <1>21 DEF DelbaLost, task
    <3> QED BY <3>1, UnchangedTypes
  <2>c5. CmdTypes'
    <3>1. UNCHANGED cmds /\ UNCHANGED stopped BY <1>21 DEF DelbaLost, cmds
    <3> QED BY <3>1, UnchangedTypes
  <2>c6. HistTypes'
    <3>1. UNCHANGED hist BY <1>21 DEF DelbaLost, hist
    <3> QED BY <3>1, UnchangedTypes
  <2> QED BY <2>c1, <2>c2, <2>c3, <2>c4, <2>c5, <2>c6 DEF TypeOK
<1>22. CASE LocalDelba
  <2>c1. PeerTypes'
    <3>1. UNCHANGED peer BY <1>22 DEF LocalDelba, peer
    <3> QED BY <3>1, UnchangedTypes
  <2>c2. CtrlTypes' BY <1>22, <1>0 DEF LocalDelba, CtrlTypes
  <2>c3. QueueTypes'
    <3>1. UNCHANGED queue BY <1>22 DEF LocalDelba, queue
    <3> QED BY <3>1, UnchangedTypes
  <2>c4. TaskTypes'
    <3>1. UNCHANGED task BY <1>22 DEF LocalDelba, task
    <3> QED BY <3>1, UnchangedTypes
  <2>c5. CmdTypes'
    <3>1. UNCHANGED cmds /\ UNCHANGED stopped BY <1>22 DEF LocalDelba, cmds
    <3> QED BY <3>1, UnchangedTypes
  <2>c6. HistTypes'
    <3>1. UNCHANGED hist BY <1>22 DEF LocalDelba, hist
    <3> QED BY <3>1, UnchangedTypes
  <2> QED BY <2>c1, <2>c2, <2>c3, <2>c4, <2>c5, <2>c6 DEF TypeOK
<1>23. CASE Stop
  <2>c1. PeerTypes'
    <3>1. UNCHANGED peer BY <1>23 DEF Stop, peer
    <3> QED BY <3>1, UnchangedTypes
  <2>c2. CtrlTypes'
    <3>1. UNCHANGED ctrl BY <1>23 DEF Stop, ctrl
    <3> QED BY <3>1, UnchangedTypes
  <2>c3. QueueTypes'
    <3>1. UNCHANGED queue BY <1>23 DEF Stop, queue
    <3> QED BY <3>1, UnchangedTypes
  <2>c4. TaskTypes'
    <3>1. UNCHANGED task BY <1>23 DEF Stop, task
    <3> QED BY <3>1, UnchangedTypes
  <2>c5. CmdTypes'
    <3>1. stopped' \in BOOLEAN BY <1>23, Zenon DEF Stop
    <3>2. UNCHANGED cmds BY <1>23 DEF Stop, cmds
    <3> QED BY <3>1, <3>2, <1>0 DEF CmdTypes, cmds
  <2>c6. HistTypes'
    <3>1. UNCHANGED hist BY <1>23 DEF Stop, hist
    <3> QED BY <3>1, UnchangedTypes
  <2> QED BY <2>c1, <2>c2, <2>c3, <2>c4, <2>c5, <2>c6 DEF TypeOK
<1>24. CASE UNCHANGED vars
  <2>1. UNCHANGED <<peer, ctrl, queue, task, cmds, stopped, hist>>
    BY <1>24 DEF vars, peer, ctrl, queue, task, cmds, hist
  <2> QED BY <2>1, UnchangedTypes DEF TypeOK
<1> QED BY <1>1, <1>2, <1>3, <1>4, <1>6, <1>7, <1>8, <1>9, <1>10, <1>11, <1>12, <1>13, <1>14, <1>15, <1>16, <1>17, <1>18, <1>19, <1>20, <1>21, <1>22, <1>23, <1>24
        DEF Next, Tasklet, Handler, CmdThread, Teardown

\* The types of the start.
LEMMA InitTyped == Init => TypeOK
<1> SUFFICES ASSUME Init PROVE TypeOK OBVIOUS
<1>1. First \in Nat /\ Uninit \in SeqValues BY ReorderAssumption, SeqNumType, ModIsPositive
<1>2. <<>> \in Seq(Nat) BY EmptySeq
<1>3. PeerTypes /\ CtrlTypes /\ CmdTypes /\ HistTypes
  BY <1>1, <1>2 DEF Init, PeerTypes, CtrlTypes, CmdTypes, HistTypes
<1>4. QueueTypes /\ TaskTypes BY <1>1, <1>2 DEF Init, QueueTypes, TaskTypes
<1> QED BY <1>3, <1>4 DEF TypeOK

\* Types, for every number space: in particular indicate_seq is always a sequence
\* number or 0xffff, though two threads write it without a lock.
THEOREM TypeInvariant == Spec => []TypeOK
<1>1. Init => TypeOK BY InitTyped
<1>2. TypeOK /\ [Next]_vars => TypeOK' BY TypeStep
<1> QED BY <1>1, <1>2, PTL DEF Spec

-----------------------------------------------------------------------------
(***************************************************************************)
(* The timer.                                                              *)
(***************************************************************************)

\* What the tasklet's point says of the lock and the queue.
TaskletInv ==
  /\ lock = "rx" <=> rx = "loop"
  /\ rx = "cancel" => pending = <<>> /\ ~waiting
  /\ lock = "timer" => ~waiting

TimerInv == TypeOK /\ TaskletInv /\ NoStall /\ WaitingMeansTimer

\* The inductive step for the timer.
LEMMA TimerStep == ASSUME TimerInv, [Next]_vars PROVE TimerInv'
<1> USE DEF peer, ctrl, queue, task, cmds, hist, TimerInv
<1>0. TypeOK' BY TypeStep
<1>1. TaskletInv' /\ NoStall' /\ WaitingMeansTimer'
  <2> USE DEF TypeOK, QueueTypes, TaskTypes, TaskletInv, NoStall, WaitingMeansTimer
  <2>1. ASSUME NEW n \in 0 .. Last, Receive(n) PROVE TaskletInv' /\ NoStall' /\ WaitingMeansTimer'
    BY <2>1 DEF Receive
  <2>2. ASSUME NEW ok \in BOOLEAN, AddbaReq(ok) PROVE TaskletInv' /\ NoStall' /\ WaitingMeansTimer'
    BY <2>2 DEF AddbaReq
  <2>3. CASE DirectDone BY <2>3 DEF DirectDone
  <2>4. CASE DropOld BY <2>4 DEF DropOld
  <2>5. CASE DropDuplicate BY <2>5 DEF DropDuplicate
  <2>6. CASE Enqueue BY <2>6 DEF Enqueue
  <2>7. CASE LoopLeavesSome BY <2>7 DEF LoopLeavesSome
  <2>8. CASE LoopLeavesNone BY <2>8 DEF LoopLeavesNone
  <2>9. CASE Cancel BY <2>9 DEF Cancel
  <2>10. CASE IndicateHead BY <2>10 DEF IndicateHead, HeadReady
  <2>11. CASE TimerFires BY <2>11 DEF TimerFires
  <2>12. CASE TimerFindsNone BY <2>12 DEF TimerFindsNone
  <2>13. CASE TimerForces BY <2>13 DEF TimerForces
  <2>14. CASE TimerDone BY <2>14 DEF TimerDone
  <2>15. ASSUME NEW heard \in BOOLEAN, SendRsp(heard)
         PROVE TaskletInv' /\ NoStall' /\ WaitingMeansTimer'
    BY <2>15 DEF SendRsp
  <2>16. CASE ResetSeq BY <2>16 DEF ResetSeq
  <2>17. CASE SetEnable BY <2>17 DEF SetEnable
  <2>18. CASE Teardown
    BY <2>18 DEF Teardown, PeerStops, DelbaArrives, DelbaLost, LocalDelba, Stop
  <2>19. CASE UNCHANGED vars BY <2>19 DEF vars
  <2> QED BY <2>1, <2>2, <2>3, <2>4, <2>5, <2>6, <2>7, <2>8, <2>9, <2>10, <2>11, <2>12,
             <2>13, <2>14, <2>15, <2>16, <2>17, <2>18, <2>19
          DEF Next, Tasklet, Handler, CmdThread
<1> QED BY <1>0, <1>1

\* The invariant about the timer.
LEMMA TimerInvariant == Spec => []TimerInv
<1>1. Init => TimerInv
  <2>1. Init => TypeOK BY InitTyped
  <2> QED BY <2>1 DEF Init, TimerInv, TaskletInv, NoStall, WaitingMeansTimer
<1>2. TimerInv /\ [Next]_vars => TimerInv' BY TimerStep
<1> QED BY <1>1, <1>2, PTL DEF Spec

\* A frame in the buffer is never forgotten, whatever the order in which the tasklet,
\* the handler and _cancel_timer_ex come.
THEOREM NeverStalls == Spec => []NoStall
<1>1. TimerInv => NoStall BY DEF TimerInv
<1> QED BY <1>1, TimerInvariant, PTL

\* bReorderWaiting is set only while the timer runs or its handler has been started.
THEOREM FlagIsTrue == Spec => []WaitingMeansTimer
<1>1. TimerInv => WaitingMeansTimer BY DEF TimerInv
<1> QED BY <1>1, TimerInvariant, PTL

-----------------------------------------------------------------------------
(***************************************************************************)
(* The buffer is sorted.                                                   *)
(***************************************************************************)

\* Nothing in the buffer is newer than the newest frame received.
BufferOfPeer == \A i \in 1 .. Len(pending) : pending[i] <= top

\* The frame at the door of the buffer: of the last window, near all that is in it.
FrameInWindow ==
  rx = "enter" =>
    /\ frame <= top /\ frame >= top + 1 - WSize /\ (ahead => frame = top)
    /\ \A i \in 1 .. Len(pending) :
         frame + 1 - pending[i] < Half /\ (ahead => pending[i] < frame)

BufferInv == TimerInv /\ BufferOfPeer /\ FrameInWindow /\ PendingSorted

\* At the place where the walk of enqueue_reorder_recvframe stops, all before is
\* older than the frame and all from there on is not.
LEMMA PlaceSplits ==
  ASSUME BufferInv, rx = "enter", NEW i \in 1 .. Len(pending) + 1, Place(SeqNum(frame), i)
  PROVE  /\ \A j \in 1 .. i - 1 : pending[j] < frame
         /\ \A j \in i .. Len(pending) : frame <= pending[j]
         /\ i <= Len(pending) /\ ~IsDuplicate(SeqNum(frame), i) => frame < pending[i]
         /\ IsDuplicate(SeqNum(frame), i) => frame = pending[i]
<1>1. TypeOK /\ frame \in Nat /\ top \in Nat BY DEF BufferInv, TimerInv, TypeOK, TaskTypes, PeerTypes
<1>2. Len(pending) \in Nat /\ \A j \in 1 .. Len(pending) : pending[j] \in Nat BY <1>1, Elements
<1>3. ASSUME NEW j \in 1 .. Len(pending)
      PROVE  /\ pending[j] - frame < Half /\ frame - pending[j] < Half
             /\ SNLess(SeqNum(pending[j]), SeqNum(frame)) <=> pending[j] < frame
  <2>1. frame + 1 - pending[j] < Half /\ pending[j] <= top /\ frame >= top + 1 - WSize
    BY DEF BufferInv, FrameInWindow, BufferOfPeer
  <2>2. pending[j] - frame < Half /\ frame - pending[j] < Half /\ frame - pending[j] <= Half
    BY <2>1, <1>1, <1>2, ModIsPositive
  <2>3. pending[j] \in Int /\ frame \in Int BY <1>1, <1>2
  <2> QED BY <2>2, <2>3, SNLessIsLess
<1>4. \A j \in 1 .. i - 1 : pending[j] < frame BY <1>2, <1>3 DEF Place
<1>5. i <= Len(pending) => frame <= pending[i] BY <1>1, <1>2, <1>3 DEF Place
<1>6. ASSUME NEW j \in i .. Len(pending) PROVE frame <= pending[j]
  <2>1. i <= Len(pending) /\ i \in 1 .. Len(pending) /\ j \in 1 .. Len(pending) BY <1>2
  <2>2. i < j => pending[i] < pending[j] BY <2>1 DEF BufferInv, PendingSorted
  <2> QED BY <2>1, <2>2, <1>1, <1>2, <1>5
<1>7. IsDuplicate(SeqNum(frame), i) => frame = pending[i]
  <2> SUFFICES ASSUME IsDuplicate(SeqNum(frame), i) PROVE frame = pending[i] OBVIOUS
  <2>1. i \in 1 .. Len(pending) /\ SeqNum(pending[i]) = SeqNum(frame) BY <1>2 DEF IsDuplicate
  <2>2. pending[i] \in Int /\ frame \in Int BY <2>1, <1>1, <1>2
  <2> QED BY <2>1, <2>2, <1>3, SeqNumInjective
<1>8. i <= Len(pending) /\ ~IsDuplicate(SeqNum(frame), i) => frame # pending[i]
  BY DEF IsDuplicate
<1>9. i <= Len(pending) /\ ~IsDuplicate(SeqNum(frame), i) => frame < pending[i]
  BY <1>5, <1>8, <1>1, <1>2
<1> QED BY <1>4, <1>6, <1>7, <1>9

\* The inductive step for the buffer.
LEMMA BufferStep == ASSUME BufferInv, [Next]_vars PROVE BufferInv'
<1>0. TimerInv' BY TimerStep DEF BufferInv
<1>t. TypeOK /\ TypeOK' BY <1>0 DEF BufferInv, TimerInv
<1>e. /\ Len(pending) \in Nat /\ \A i \in 1 .. Len(pending) : pending[i] \in Nat
      /\ top \in Nat /\ frame \in Nat /\ agg \in BOOLEAN
  BY <1>t, Elements DEF TypeOK, PeerTypes, TaskTypes
<1> DEFINE Goal == BufferOfPeer' /\ FrameInWindow' /\ PendingSorted'
<1>1. ASSUME NEW n \in 0 .. Last, Receive(n) PROVE Goal
  <2>1. n \in Nat /\ Last \in Nat BY ReorderAssumption
  <2>2. UNCHANGED pending BY <1>1 DEF Receive, queue
  <2>3. PendingSorted' BY <2>2 DEF BufferInv, PendingSorted
  <2>4. CASE cache = SeqNum(n)
    <3>1. UNCHANGED <<top, rx, frame, ahead, pending>> BY <1>1, <2>2, <2>4 DEF Receive
    <3> QED BY <3>1, <2>3 DEF BufferInv, BufferOfPeer, FrameInWindow
  <2>5. CASE cache # SeqNum(n)
    <3>1. /\ top' = IF n > top THEN n ELSE top
          /\ frame' = n /\ ahead' = (n > top)
      BY <1>1, <2>5 DEF Receive
    <3>2. top' >= top /\ top' >= n /\ top' \in Nat BY <3>1, <2>1, <1>e
    <3>3. BufferOfPeer' BY <3>2, <2>2, <1>e DEF BufferInv, BufferOfPeer
    <3>4. MaySend(n) BY <1>1 DEF Receive
    <3>5. n >= top' + 1 - WSize
      <4>1. n >= top + 1 - WSize BY <3>4, <2>1, <1>e, ModIsPositive DEF MaySend
      <4> QED BY <4>1, <3>1, <2>1, <1>e, ModIsPositive
    <3>6. \A i \in 1 .. Len(pending) : n + 1 - pending[i] < Half BY <3>4 DEF MaySend
    <3>7. \A i \in 1 .. Len(pending) : n > top => pending[i] < n
      BY <2>1, <1>e DEF BufferInv, BufferOfPeer
    <3>8. ahead' => frame' = top' BY <3>1
    <3>9. \A i \in 1 .. Len(pending') : ahead' => pending'[i] < frame'
      BY <3>1, <3>7, <2>2
    <3> QED BY <3>1, <3>2, <3>3, <3>5, <3>6, <3>8, <3>9, <2>2, <2>3 DEF FrameInWindow
  <2> QED BY <2>4, <2>5
<1>2. ASSUME Enqueue PROVE Goal
  <2>1. PICK i \in 1 .. Len(pending) + 1 :
          /\ Place(SeqNum(frame), i) /\ ~IsDuplicate(SeqNum(frame), i)
          /\ pending' = InsertedAt(i, frame)
    BY <1>2 DEF Enqueue
  <2>2. rx = "enter" /\ rx' = "loop" /\ UNCHANGED top BY <1>2 DEF Enqueue, peer
  <2>3. /\ Len(pending') = Len(pending) + 1
        /\ \A j \in 1 .. Len(pending) + 1 : pending'[j] =
             IF j < i THEN pending[j] ELSE IF j = i THEN frame ELSE pending[j - 1]
    <3> DEFINE q == InsertedAt(i, frame)
    <3>1. /\ Len(q) = Len(pending) + 1
          /\ \A j \in 1 .. Len(pending) + 1 : q[j] =
               IF j < i THEN pending[j] ELSE IF j = i THEN frame ELSE pending[j - 1]
      BY <1>t, <1>e, InsertedAtProperties
    <3>2. pending' = q BY <2>1
    <3> HIDE DEF q
    <3> QED BY <3>1, <3>2
  <2>4. /\ \A j \in 1 .. i - 1 : pending[j] < frame
        /\ \A j \in i .. Len(pending) : frame <= pending[j]
        /\ i <= Len(pending) => frame < pending[i]
    BY <2>1, <2>2, PlaceSplits
  <2>5. \A j \in i .. Len(pending) : frame < pending[j]
    <3> SUFFICES ASSUME NEW j \in i .. Len(pending) PROVE frame < pending[j] OBVIOUS
    <3>1. i \in 1 .. Len(pending) /\ j \in 1 .. Len(pending) BY <1>e
    <3>2. i < j => pending[i] < pending[j] BY <3>1 DEF BufferInv, PendingSorted
    <3> QED BY <3>1, <3>2, <2>4, <1>e
  <2>6. BufferOfPeer'
    <3>1. frame <= top BY <2>2 DEF BufferInv, FrameInWindow
    <3>2. \A j \in 1 .. Len(pending) : pending[j] <= top BY DEF BufferInv, BufferOfPeer
    <3> SUFFICES ASSUME NEW j \in 1 .. Len(pending') PROVE pending'[j] <= top'
      BY DEF BufferOfPeer
    <3>3. j \in 1 .. Len(pending) + 1 BY <2>3
    <3>4. j < i => j \in 1 .. Len(pending) BY <3>3, <1>e
    <3>5. j > i => j - 1 \in 1 .. Len(pending) BY <3>3, <1>e
    <3> QED BY <2>2, <2>3, <3>1, <3>2, <3>3, <3>4, <3>5, <1>e
  <2>7. PendingSorted'
    <3> SUFFICES ASSUME NEW j \in 1 .. Len(pending'), NEW k \in 1 .. Len(pending'), j < k
                 PROVE  pending'[j] < pending'[k]
      BY DEF PendingSorted
    <3>1. j \in 1 .. Len(pending) + 1 /\ k \in 1 .. Len(pending) + 1 BY <2>3
    <3>s. \A a, b \in 1 .. Len(pending) : a < b => pending[a] < pending[b]
      BY DEF BufferInv, PendingSorted
    <3>2. CASE k < i
      <4>1. pending'[j] = pending[j] /\ pending'[k] = pending[k] BY <3>1, <3>2, <2>3, <1>e
      <4>2. j \in 1 .. Len(pending) /\ k \in 1 .. Len(pending) BY <3>1, <3>2, <1>e
      <4> QED BY <4>1, <4>2, <3>s
    <3>3. CASE k = i
      <4>1. pending'[j] = pending[j] /\ pending'[k] = frame BY <3>1, <3>3, <2>3, <1>e
      <4>2. j \in 1 .. i - 1 BY <3>1, <3>3, <1>e
      <4> QED BY <4>1, <4>2, <2>4
    <3>4. CASE k > i
      <4>1. pending'[k] = pending[k - 1] BY <3>1, <3>4, <2>3, <1>e
      <4>2. k - 1 \in i .. Len(pending) /\ k - 1 \in 1 .. Len(pending) BY <3>1, <3>4, <1>e
      <4>3. CASE j < i
        <5>1. pending'[j] = pending[j] BY <3>1, <4>3, <2>3, <1>e
        <5>2. j \in 1 .. Len(pending) /\ j < k - 1 BY <3>1, <3>4, <4>3, <1>e
        <5> QED BY <4>1, <4>2, <5>1, <5>2, <3>s
      <4>4. CASE j = i
        <5>1. pending'[j] = frame BY <3>1, <4>4, <2>3, <1>e
        <5> QED BY <4>1, <4>2, <5>1, <2>5
      <4>5. CASE j > i
        <5>1. pending'[j] = pending[j - 1] BY <3>1, <4>5, <2>3, <1>e
        <5>2. j - 1 \in 1 .. Len(pending) /\ j - 1 < k - 1 BY <3>1, <4>5, <1>e
        <5> QED BY <4>1, <4>2, <5>1, <5>2, <3>s
      <4> QED BY <4>3, <4>4, <4>5, <3>1, <1>e
    <3> QED BY <3>2, <3>3, <3>4, <3>1, <1>e
  <2>8. FrameInWindow' BY <2>2 DEF FrameInWindow
  <2> QED BY <2>6, <2>7, <2>8
<1>3. ASSUME IndicateHead PROVE Goal
  <2>1. pending # <<>> /\ pending' = Tail(pending) /\ UNCHANGED <<top, rx, frame, ahead>>
    BY <1>3 DEF IndicateHead, HeadReady, peer, task
  <2>2. /\ Len(pending') = Len(pending) - 1
        /\ \A i \in 1 .. Len(pending) - 1 : pending'[i] = pending[i + 1]
    BY <2>1, <1>t, HeadTail
  <2>3. \A i \in 1 .. Len(pending') : i + 1 \in 1 .. Len(pending) /\ pending'[i] = pending[i + 1]
    BY <2>2, <1>e
  <2>4. BufferOfPeer' BY <2>1, <2>3 DEF BufferInv, BufferOfPeer
  <2>5. FrameInWindow' BY <2>1, <2>3 DEF BufferInv, FrameInWindow
  <2>6. PendingSorted'
    <3> SUFFICES ASSUME NEW j \in 1 .. Len(pending'), NEW k \in 1 .. Len(pending'), j < k
                 PROVE  pending'[j] < pending'[k]
      BY DEF PendingSorted
    <3>1. j + 1 < k + 1 BY <2>2, <1>e
    <3> QED BY <3>1, <2>3 DEF BufferInv, PendingSorted
  <2> QED BY <2>4, <2>5, <2>6
<1>4. ASSUME rx' # "enter", UNCHANGED <<pending, top>> PROVE Goal
  BY <1>4 DEF BufferInv, BufferOfPeer, FrameInWindow, PendingSorted
<1>5. ASSUME UNCHANGED <<pending, top, rx, frame, ahead>> PROVE Goal
  BY <1>5 DEF BufferInv, BufferOfPeer, FrameInWindow, PendingSorted
<1>6. Goal
  <2> USE DEF peer, queue, task
  <2>1. ASSUME NEW ok \in BOOLEAN, AddbaReq(ok) PROVE Goal BY <2>1, <1>5 DEF AddbaReq
  <2>2. ASSUME DirectDone PROVE Goal BY <2>2, <1>4 DEF DirectDone
  <2>3. ASSUME DropOld PROVE Goal BY <2>3, <1>4 DEF DropOld
  <2>4. ASSUME DropDuplicate PROVE Goal BY <2>4, <1>4 DEF DropDuplicate
  <2>5. ASSUME LoopLeavesSome PROVE Goal BY <2>5, <1>4 DEF LoopLeavesSome
  <2>6. ASSUME LoopLeavesNone PROVE Goal BY <2>6, <1>4 DEF LoopLeavesNone
  <2>7. ASSUME Cancel PROVE Goal BY <2>7, <1>4 DEF Cancel
  <2>8. ASSUME TimerFires PROVE Goal BY <2>8, <1>5 DEF TimerFires
  <2>9. ASSUME Handler PROVE Goal BY <2>9, <1>5 DEF Handler, TimerFindsNone, TimerForces, TimerDone
  <2>10. ASSUME NEW heard \in BOOLEAN, SendRsp(heard) PROVE Goal BY <2>10, <1>5 DEF SendRsp
  <2>11. ASSUME ResetSeq PROVE Goal BY <2>11, <1>5 DEF ResetSeq
  <2>12. ASSUME SetEnable PROVE Goal BY <2>12, <1>5 DEF SetEnable
  <2>13. ASSUME Teardown PROVE Goal
    BY <2>13, <1>5 DEF Teardown, PeerStops, DelbaArrives, DelbaLost, LocalDelba, Stop
  <2>14. ASSUME UNCHANGED vars PROVE Goal BY <2>14, <1>5 DEF vars
  <2> QED BY <1>1, <1>2, <1>3, <2>1, <2>2, <2>3, <2>4, <2>5, <2>6, <2>7, <2>8, <2>9, <2>10,
             <2>11, <2>12, <2>13, <2>14
          DEF Next, Tasklet, CmdThread
<1> QED BY <1>0, <1>6 DEF BufferInv

\* The invariant about the buffer.
LEMMA BufferInvariant == Spec => []BufferInv
<1>1. Init => BufferInv
  <2> SUFFICES ASSUME Init PROVE BufferInv OBVIOUS
  <2>1. TypeOK BY InitTyped
  <2>2. pending = <<>> /\ rx = "idle" BY DEF Init
  <2>3. Len(pending) = 0 BY <2>2
  <2>4. TimerInv BY <2>1 DEF Init, TimerInv, TaskletInv, NoStall, WaitingMeansTimer
  <2> QED BY <2>2, <2>3, <2>4 DEF BufferInv, BufferOfPeer, FrameInWindow, PendingSorted
<1>2. BufferInv /\ [Next]_vars => BufferInv' BY BufferStep
<1> QED BY <1>1, <1>2, PTL DEF Spec

\* The buffer is sorted by the numbers of the frames, though enqueue_reorder_recvframe
\* compares only numbers modulo 4096, for every window that fits in half the space.
THEOREM BufferIsSorted == Spec => []PendingSorted
<1>1. BufferInv => PendingSorted BY DEF BufferInv
<1> QED BY <1>1, BufferInvariant, PTL

-----------------------------------------------------------------------------
(***************************************************************************)
(* The frames of a session go up in order.                                 *)
(***************************************************************************)

\* A session is on, or a frame is on its way through the buffer.
Active == enable \/ rx \in {"enter", "loop"}

\* The session has neither handed up nor stored anything.
Fresh == cur = {} /\ out = <<>>

\* What a frame at the door may be ahead of the window.
Slack == IF rx = "enter" /\ ahead THEN GapMax ELSE 0

\* indicate_seq stands for the number w: above all handed up, near the newest frame
\* and, while somebody works on the queue, near all that is in the buffer.
Window(w) ==
  /\ indicate = SeqNum(w)
  /\ \A k \in 1 .. Len(out) : out[k] < w
  /\ w <= top + 1 /\ (rx = "enter" /\ ahead => w <= top)
  /\ w + 2 * WSize + Slack >= top + 1
  /\ lock # "free" => \A i \in 1 .. Len(pending) : w - pending[i] < Half

WindowKnown == Active /\ ~Fresh => \E w \in Int : Window(w)

\* A forced delivery would keep the window near the newest frame.
PendingClose ==
  Active /\ ~Fresh /\ lock = "free" =>
    \A i \in 1 .. Len(pending) : pending[i] + 2 * WSize + Slack > top

\* What is in the buffer is newer than all that was handed up.
OutBeforePending ==
  \A i \in 1 .. Len(pending), k \in 1 .. Len(out) : out[k] < pending[i]

\* No frame of a session goes up by the direct path once the session is on.
DirectIsFresh == rx = "direct" /\ enable => Fresh

OrderParts == OutBeforePending /\ DirectIsFresh /\ WindowKnown /\ PendingClose

OrderInv == BufferInv /\ OrderParts

\* The window after check_indicate_seq accepts frame n, when it began at w.
LEMMA Accepted ==
  ASSUME TypeOK, NEW n \in Int, NEW w \in Int,
         indicate = SeqNum(w), 0 <= n - w, n - w < Half
  PROVE  \E x \in Int : /\ NextIndicate(SeqNum(n)) = SeqNum(x)
                        /\ w <= x /\ x <= n + 1 /\ x >= n + 1 - WSize
<1>1. Started(SeqNum(n)) = SeqNum(w) BY SeqNumType DEF Started
<1>c. /\ WSize \in Nat \ {0} /\ Half \in Nat \ {0} /\ SeqMod \in Nat /\ SeqMod = 2 * Half
      /\ 2 * WSize < Half
  BY ModIsPositive
<1>2. CASE n = w
  <2>1. NextIndicate(SeqNum(n)) = (SeqNum(n) + 1) % SeqMod BY <1>1, <1>2 DEF NextIndicate
  <2>2. (SeqNum(n) + 1) % SeqMod = SeqNum(n + 1) BY ModPlus DEF SeqNum
  <2>3. n + 1 \in Int /\ w <= n + 1 /\ n + 1 <= n + 1 /\ n + 1 >= n + 1 - WSize BY <1>2, <1>c
  <2> QED BY <2>1, <2>2, <2>3
<1>3. CASE n # w
  <2>1. SeqNum(n) # SeqNum(w)
    <3>1. n - w < Half /\ w - n < Half BY <1>c
    <3> QED BY <1>3, <3>1, SeqNumInjective
  <2>2. WinEnd = SeqNum(w + WSize - 1)
    <3>1. (SeqNum(w) + (WSize - 1)) % SeqMod = (w + (WSize - 1)) % SeqMod
      <4> DEFINE c == WSize - 1
      <4>1. c \in Int BY <1>c
      <4> HIDE DEF c
      <4>2. (SeqNum(w) + c) % SeqMod = (w + c) % SeqMod BY <4>1, ModPlus DEF SeqNum
      <4> QED BY <4>2 DEF c
    <3>2. SeqNum(w) \in Int BY DivMod DEF SeqNum
    <3>3. SeqNum(w) + (WSize - 1) = SeqNum(w) + WSize - 1 BY <3>2, <1>c
    <3>4. w + (WSize - 1) = w + WSize - 1 BY <1>c
    <3> QED BY <3>1, <3>3, <3>4 DEF WinEnd, SeqNum
  <2>3. SNLess(WinEnd, SeqNum(n)) <=> w + WSize - 1 < n
    <3>1. w + WSize - 1 \in Int /\ (w + WSize - 1) - n < Half /\ n - (w + WSize - 1) <= Half
      BY <1>c
    <3> QED BY <2>2, <3>1, SNLessIsLess
  <2>4. CASE w + WSize - 1 < n
    <3>1. NextIndicate(SeqNum(n)) = Shifted(SeqNum(n)) BY <2>1, <2>3, <2>4, <1>1 DEF NextIndicate
    <3>2. Shifted(SeqNum(n)) = SeqNum(n + 1 - WSize)
      <4> DEFINE r == SeqNum(n)
      <4>1. r \in 0 .. SeqMod - 1 BY SeqNumType
      <4>2. (r + (1 - WSize)) % SeqMod = (n + (1 - WSize)) % SeqMod
        <5> DEFINE c == 1 - WSize
        <5>1. c \in Int BY <1>c
        <5> HIDE DEF c
        <5>2. (SeqNum(n) + c) % SeqMod = (n + c) % SeqMod BY <5>1, ModPlus DEF SeqNum
        <5> QED BY <5>2 DEF c
      <4>3. n + (1 - WSize) = n + 1 - WSize BY <1>c
      <4>4. CASE r >= WSize - 1
        <5> HIDE DEF r
        <5>1. r + (1 - WSize) \in 0 .. SeqMod - 1 /\ r + (1 - WSize) \in Int BY <4>1, <4>4, <1>c
        <5>2. (r + (1 - WSize)) % SeqMod = r + (1 - WSize) BY <5>1, ModSmall
        <5>3. Shifted(r) = r + (1 - WSize) BY <4>1, <4>4, <1>c DEF Shifted
        <5> QED BY <4>2, <4>3, <5>2, <5>3 DEF SeqNum, r
      <4>5. CASE r < WSize - 1
        <5> HIDE DEF r
        <5>1. /\ r + (1 - WSize) \in Int
              /\ r + (1 - WSize) + SeqMod \in 0 .. SeqMod - 1
              /\ r + (1 - WSize) = SeqMod * (-1) + (r + (1 - WSize) + SeqMod)
          BY <4>1, <4>5, <1>c
        <5>2. (r + (1 - WSize)) % SeqMod = r + (1 - WSize) + SeqMod BY <5>1, RemainderUnique
        <5>3. Shifted(r) = r + (1 - WSize) + SeqMod BY <4>1, <4>5, <1>c DEF Shifted
        <5> QED BY <4>2, <4>3, <5>2, <5>3 DEF SeqNum, r
      <4> QED BY <4>1, <4>4, <4>5, <1>c
    <3>3. n + 1 - WSize \in Int /\ w <= n + 1 - WSize /\ n + 1 - WSize <= n + 1 BY <2>4, <1>c
    <3> QED BY <3>1, <3>2, <3>3, <1>c
  <2>5. CASE ~(w + WSize - 1 < n)
    <3>1. NextIndicate(SeqNum(n)) = SeqNum(w) BY <2>1, <2>3, <2>5, <1>1 DEF NextIndicate
    <3>2. w <= n + 1 /\ w >= n + 1 - WSize BY <2>5, <1>c
    <3> QED BY <3>1, <3>2
  <2> QED BY <2>4, <2>5
<1> QED BY <1>2, <1>3

\* The window after the first frame that a session accepts, whatever was left in
\* indicate_seq: its reset value or what the direct path wrote over it.
LEMMA AcceptedFirst ==
  ASSUME TypeOK, NEW n \in Int, ~TooOld(SeqNum(n))
  PROVE  \E x \in Int : /\ NextIndicate(SeqNum(n)) = SeqNum(x)
                        /\ x <= n + 1 /\ x >= n + 1 - WSize
<1>c. WSize \in Nat \ {0} /\ Half \in Nat \ {0} /\ SeqMod \in Nat \ {0} BY ModIsPositive
<1>1. CASE indicate = Uninit
  <2>1. NextIndicate(SeqNum(n)) = (SeqNum(n) + 1) % SeqMod BY <1>1 DEF NextIndicate, Started
  <2>2. (SeqNum(n) + 1) % SeqMod = SeqNum(n + 1) BY ModPlus DEF SeqNum
  <2>3. n + 1 \in Int /\ n + 1 <= n + 1 /\ n + 1 >= n + 1 - WSize BY <1>c
  <2> QED BY <2>1, <2>2, <2>3
<1>2. CASE indicate # Uninit
  <2> DEFINE v == indicate  d == (n - v) % SeqMod  w == n - d
  <2>1. v \in 0 .. SeqMod - 1 /\ v \in Int BY <1>2, <1>c DEF TypeOK, CtrlTypes, SeqValues
  <2>2. n - v \in Int BY <2>1
  <2>3. d \in 0 .. SeqMod - 1 BY <2>2, DivMod
  <2>4. ~SNLess(SeqNum(n), v) BY <1>2 DEF TooOld, Started
  <2>5. (SeqNum(n) + (-v)) % SeqMod = (n + (-v)) % SeqMod BY <2>1, ModPlus DEF SeqNum
  <2>6. SeqNum(n) + (-v) = SeqNum(n) - v /\ n + (-v) = n - v
    <3>1. SeqNum(n) \in Int BY DivMod DEF SeqNum
    <3> QED BY <3>1, <2>1
  <2>7. d < Half
    <3>1. ~((SeqNum(n) - v) % SeqMod >= Half) BY <2>4 DEF SNLess
    <3>2. ~(d >= Half) BY <3>1, <2>5, <2>6
    <3> HIDE DEF d
    <3> QED BY <3>2, <2>3, <1>c
  <2>8. SeqNum(w) = v
    <3> DEFINE k == (n - v) \div SeqMod
    <3>1. k \in Int /\ n - v = SeqMod * k + d BY <2>2, DivMod
    <3>2. w = SeqMod * k + v
      <4> DEFINE m == SeqMod * k
      <4>1. m \in Int BY <3>1, <1>c
      <4>2. n - v = m + d BY <3>1
      <4> HIDE DEF m, d, k
      <4> QED BY <4>1, <4>2, <2>1, <2>3 DEF m
    <3>3. w \in Int BY <2>3
    <3> HIDE DEF w, d, k
    <3> QED BY <3>1, <3>2, <3>3, <2>1, RemainderUnique DEF SeqNum
  <2>9. w \in Int /\ 0 <= n - w /\ n - w < Half
    <3> HIDE DEF d
    <3> QED BY <2>3, <2>7, <1>c
  <2>10. indicate = SeqNum(w) BY <2>8
  <2> HIDE DEF w
  <2> QED BY <2>9, <2>10, Accepted
<1> QED BY <1>1, <1>2

\* The numbers of a state, for the arithmetic below.
LEMMA Numbers ==
  ASSUME OrderInv
  PROVE  /\ TypeOK /\ top \in Nat /\ frame \in Nat /\ ahead \in BOOLEAN /\ enable \in BOOLEAN
         /\ Slack \in Nat /\ Slack <= GapMax
         /\ Len(pending) \in Nat /\ \A i \in 1 .. Len(pending) : pending[i] \in Nat
         /\ Len(out) \in Nat /\ \A k \in 1 .. Len(out) : out[k] \in Nat
<1>1. TypeOK BY DEF OrderInv, BufferInv, TimerInv
<1>2. Slack \in Nat /\ Slack <= GapMax BY ModIsPositive DEF Slack
<1> QED BY <1>1, <1>2, Elements DEF TypeOK, PeerTypes, TaskTypes, CtrlTypes

\* The head of the buffer is its smallest number.
LEMMA HeadIsLeast ==
  ASSUME OrderInv, pending # <<>>
  PROVE  /\ Head(pending) \in Nat /\ Head(pending) <= top
         /\ \E i \in 1 .. Len(pending) : pending[i] = Head(pending)
         /\ \A i \in 1 .. Len(pending) : Head(pending) <= pending[i]
         /\ \A i \in 1 .. Len(Tail(pending)) :
              Head(pending) < Tail(pending)[i]
              /\ \E j \in 1 .. Len(pending) : Tail(pending)[i] = pending[j]
<1>1. TypeOK BY Numbers
<1>2. /\ Len(pending) \in Nat \ {0} /\ 1 \in 1 .. Len(pending)
      /\ Head(pending) = pending[1] /\ Head(pending) \in Nat
      /\ Len(Tail(pending)) = Len(pending) - 1
      /\ \A i \in 1 .. Len(pending) - 1 : Tail(pending)[i] = pending[i + 1]
  BY <1>1, HeadTail
<1>3. pending[1] <= top BY <1>2 DEF OrderInv, BufferInv, BufferOfPeer
<1>4. \A i \in 1 .. Len(pending) : pending[i] \in Nat BY Numbers
<1>5. ASSUME NEW i \in 1 .. Len(pending), i # 1 PROVE pending[1] < pending[i]
  <2>1. 1 < i BY <1>5, <1>2
  <2> QED BY <2>1, <1>2 DEF OrderInv, BufferInv, PendingSorted
<1>6. \A i \in 1 .. Len(pending) : Head(pending) <= pending[i] BY <1>2, <1>4, <1>5
<1>7. ASSUME NEW i \in 1 .. Len(Tail(pending))
      PROVE  /\ Head(pending) < Tail(pending)[i]
             /\ \E j \in 1 .. Len(pending) : Tail(pending)[i] = pending[j]
  <2>1. i + 1 \in 1 .. Len(pending) /\ i + 1 # 1 /\ Tail(pending)[i] = pending[i + 1] BY <1>2
  <2> QED BY <2>1, <1>2, <1>5
<1> QED BY <1>2, <1>3, <1>6, <1>7

\* Where indicate_seq stands with regard to the head, for a session that is not fresh.
LEMMA HeadAndWindow ==
  ASSUME OrderInv, pending # <<>>, lock # "free", NEW w \in Int, Window(w)
  PROVE  /\ HeadReady <=> Head(pending) <= w
         /\ indicate = SeqNum(Head(pending)) <=> Head(pending) = w
<1>c. WSize \in Nat \ {0} /\ GapMax \in Nat /\ Half \in Nat /\ 2 * WSize + GapMax <= Half
  BY ModIsPositive
<1> DEFINE h == Head(pending)
<1>1. h \in Nat /\ h <= top /\ \E i \in 1 .. Len(pending) : pending[i] = h BY HeadIsLeast
<1>2. w - h < Half BY <1>1 DEF Window
<1>3. Slack \in Nat /\ Slack <= GapMax /\ top \in Nat BY Numbers
<1>4. w + 2 * WSize + Slack >= top + 1 /\ indicate = SeqNum(w) BY DEF Window
<1> HIDE DEF h
<1>5. h - w < Half /\ h - w <= Half BY <1>1, <1>3, <1>4, <1>c
<1>6. SNLess(SeqNum(w), SeqNum(h)) <=> w < h BY <1>1, <1>2, <1>5, SNLessIsLess
<1>7. HeadReady <=> ~SNLess(SeqNum(w), SeqNum(h)) BY <1>4 DEF HeadReady, h
<1>8. HeadReady <=> h <= w BY <1>6, <1>7, <1>1
<1>9. SeqNum(w) = SeqNum(h) <=> h = w BY <1>1, <1>2, <1>5, SeqNumInjective
<1> QED BY <1>4, <1>8, <1>9 DEF h

\* Steps that touch neither the window, the buffer nor the history, and start no session.
LEMMA OrderFrame ==
  ASSUME OrderInv, UNCHANGED <<indicate, out, cur, pending, top, rx, ahead, lock>>,
         enable' => enable
  PROVE  OrderParts'
<1>1. OutBeforePending' BY DEF OrderInv, OrderParts, OutBeforePending
<1>2. DirectIsFresh' BY DEF OrderInv, OrderParts, DirectIsFresh, Fresh
<1>3. (Active' => Active) /\ (Fresh' <=> Fresh) /\ Slack' = Slack BY DEF Active, Fresh, Slack
<1>4. \A w \in Int : Window(w) => Window(w)' BY <1>3 DEF Window
<1>5. WindowKnown' BY <1>3, <1>4 DEF OrderInv, OrderParts, WindowKnown
<1>6. PendingClose' BY <1>3 DEF OrderInv, OrderParts, PendingClose
<1> QED BY <1>1, <1>2, <1>5, <1>6 DEF OrderParts

\* A frame arrives.
LEMMA OrderReceive ==
  ASSUME OrderInv, NEW n \in 0 .. Last, Receive(n)
  PROVE  OrderParts'
<1>n. n \in Nat /\ Last \in Nat BY ReorderAssumption
<1>t. top \in Nat /\ GapMax \in Nat /\ WSize \in Nat BY Numbers, ModIsPositive
<1>u. UNCHANGED <<out, cur, pending, lock, enable>> /\ rx = "idle" /\ MaySend(n)
  BY DEF Receive, hist, queue
<1>1. CASE cache = SeqNum(n)
  <2>1. UNCHANGED <<indicate, out, cur, pending, top, rx, ahead, lock>> /\ enable' = enable
    BY <1>1, <1>u DEF Receive
  <2> QED BY <2>1, OrderFrame
<1>2. CASE cache # SeqNum(n) /\ ~enable
  <2>1. rx' = "direct" /\ ~enable' BY <1>2, <1>u DEF Receive
  <2>2. ~Active' BY <2>1 DEF Active
  <2>3. OutBeforePending' BY <1>u DEF OrderInv, OrderParts, OutBeforePending
  <2> QED BY <2>1, <2>2, <2>3 DEF OrderParts, DirectIsFresh, WindowKnown, PendingClose
<1>3. CASE cache # SeqNum(n) /\ enable
  <2>1. /\ rx' = "enter" /\ indicate' = indicate /\ ahead' = (n > top)
        /\ top' = IF n > top THEN n ELSE top
    BY <1>3 DEF Receive
  <2>2. OutBeforePending' BY <1>u DEF OrderInv, OrderParts, OutBeforePending
  <2>3. DirectIsFresh' BY <2>1 DEF DirectIsFresh
  <2>4. Active /\ (Fresh' <=> Fresh) /\ Slack = 0 BY <1>3, <1>u DEF Active, Fresh, Slack
  <2>5. Slack' = IF n > top THEN GapMax ELSE 0 BY <2>1 DEF Slack
  <2>6. n <= top + GapMax BY <1>u DEF MaySend
  <2>7. top' <= top + Slack' /\ top' >= top /\ (n > top => top' >= top + 1)
    <3>1. top' = IF n > top THEN n ELSE top BY <2>1
    <3> QED BY <3>1, <2>5, <2>6, <1>n, <1>t
  <2>8. top' \in Nat /\ Slack' \in Nat
    <3>1. top' = IF n > top THEN n ELSE top BY <2>1
    <3> QED BY <3>1, <2>5, <1>n, <1>t
  <2>a. ahead' => n > top BY <2>1, Zenon
  <2> DEFINE t == top'  sl == Slack'
  <2>b. /\ t <= top + sl /\ t >= top /\ (n > top => t >= top + 1)
        /\ t \in Nat /\ sl \in Nat
    BY <2>7, <2>8
  <2> HIDE DEF t, sl
  <2>9. WindowKnown'
    <3> SUFFICES ASSUME ~Fresh' PROVE (\E w \in Int : Window(w))'
      BY DEF WindowKnown
    <3>1. PICK w \in Int : Window(w)
      BY <2>4 DEF OrderInv, OrderParts, WindowKnown
    <3>2. /\ indicate' = SeqNum(w)
          /\ \A k \in 1 .. Len(out') : out'[k] < w
          /\ lock' # "free" => \A i \in 1 .. Len(pending') : w - pending'[i] < Half
      BY <3>1, <2>1, <1>u DEF Window
    <3>3. w <= top + 1 /\ w + 2 * WSize >= top + 1 BY <3>1, <2>4, <1>t DEF Window
    <3>4. w <= t + 1 /\ (n > top => w <= t) BY <3>3, <2>b, <1>t, <1>n
    <3>5. w + 2 * WSize + sl >= t + 1 BY <3>3, <2>b, <1>t, <1>n
    <3>6. w <= t + 1 /\ (ahead' => w <= t) BY <3>4, <2>a, Zenon
    <3>7. Window(w)' BY <3>2, <3>5, <3>6 DEF Window, t, sl
    <3> QED BY <3>7
  <2>10. PendingClose'
    <3> SUFFICES ASSUME ~Fresh', lock' = "free", NEW i \in 1 .. Len(pending')
                 PROVE  pending'[i] + 2 * WSize + Slack' > top'
      BY DEF PendingClose
    <3>1. i \in 1 .. Len(pending) /\ pending'[i] = pending[i] BY <1>u
    <3>2. pending[i] + 2 * WSize + Slack > top
      BY <3>1, <2>4, <1>u DEF OrderInv, OrderParts, PendingClose
    <3>3. pending[i] \in Nat BY <3>1, Numbers
    <3>4. pending[i] + 2 * WSize + sl > t BY <3>2, <3>3, <2>4, <2>b, <1>t, <1>n
    <3> QED BY <3>1, <3>4 DEF t, sl
  <2> QED BY <2>2, <2>3, <2>9, <2>10 DEF OrderParts
<1> QED BY <1>1, <1>2, <1>3

\* A frame older than the window is dropped: it was not the newest.
LEMMA OrderDropOld ==
  ASSUME OrderInv, DropOld
  PROVE  OrderParts'
<1>u. /\ UNCHANGED <<indicate, out, cur, pending, top, ahead, lock, enable>>
      /\ rx = "enter" /\ rx' = "idle" /\ TooOld(SeqNum(frame))
  BY DEF DropOld, peer, ctrl, queue, hist
<1>c. WSize \in Nat \ {0} /\ GapMax \in Nat /\ Half \in Nat /\ 2 * WSize + GapMax <= Half
  BY ModIsPositive
<1>1. Active /\ (Fresh' <=> Fresh) /\ Slack' = 0 BY <1>u DEF Active, Fresh, Slack
<1>2. OutBeforePending' BY <1>u DEF OrderInv, OrderParts, OutBeforePending
<1>3. DirectIsFresh' BY <1>u DEF DirectIsFresh
<1>4. ASSUME ~Fresh PROVE Slack = 0 /\ \E w \in Int : Window(w)
  <2>1. PICK w \in Int : Window(w) BY <1>1, <1>4 DEF OrderInv, OrderParts, WindowKnown
  <2>2. ~ahead
    <3> SUFFICES ASSUME ahead PROVE FALSE OBVIOUS
    <3>1. frame = top /\ w <= top /\ w + 2 * WSize + Slack >= top + 1 /\ indicate = SeqNum(w)
      BY <1>u, <2>1 DEF OrderInv, BufferInv, FrameInWindow, Window
    <3>2. Started(SeqNum(frame)) = SeqNum(w) BY <3>1, SeqNumType DEF Started
    <3>3. Slack \in Nat /\ Slack <= GapMax /\ frame \in Nat /\ top \in Nat BY Numbers
    <3>4. frame - w < Half /\ w - frame <= Half /\ ~(frame < w) BY <3>1, <3>3, <1>c
    <3>5. frame \in Int BY <3>3
    <3>6. ~SNLess(SeqNum(frame), SeqNum(w)) BY <3>4, <3>5, SNLessIsLess
    <3> QED BY <3>2, <3>6, <1>u DEF TooOld
  <2> QED BY <2>1, <2>2 DEF Slack
<1>5. WindowKnown'
  <2> SUFFICES ASSUME ~Fresh' PROVE (\E w \in Int : Window(w))' BY DEF WindowKnown
  <2>1. PICK w \in Int : Window(w) BY <1>1, <1>4
  <2>2. Slack = 0 BY <1>1, <1>4
  <2>3. Window(w)' BY <2>1, <2>2, <1>u, <1>1 DEF Window
  <2> QED BY <2>3
<1>6. PendingClose'
  <2> SUFFICES ASSUME ~Fresh', lock' = "free", NEW i \in 1 .. Len(pending')
               PROVE  pending'[i] + 2 * WSize + Slack' > top'
    BY DEF PendingClose
  <2>1. i \in 1 .. Len(pending) /\ pending'[i] = pending[i] BY <1>u
  <2>2. pending[i] + 2 * WSize + Slack > top
    BY <2>1, <1>1, <1>u DEF OrderInv, OrderParts, PendingClose
  <2>3. Slack = 0 BY <1>1, <1>4
  <2> QED BY <2>1, <2>2, <2>3, <1>1, <1>u
<1> QED BY <1>2, <1>3, <1>5, <1>6 DEF OrderParts

\* The window before and after check_indicate_seq accepts the frame at the door.
LEMMA WindowMoves ==
  ASSUME OrderInv, rx = "enter", ~TooOld(SeqNum(frame))
  PROVE  \E x \in Int :
           /\ NextIndicate(SeqNum(frame)) = SeqNum(x)
           /\ x <= frame + 1 /\ x >= frame + 1 - WSize
           /\ ~Fresh => \E w \in Int : Window(w) /\ w <= x /\ w <= frame
<1>c. WSize \in Nat \ {0} /\ GapMax \in Nat /\ Half \in Nat /\ 2 * WSize + GapMax <= Half
  BY ModIsPositive
<1>n. TypeOK /\ frame \in Nat /\ frame \in Int /\ top \in Nat /\ Slack \in Nat /\ Slack <= GapMax
  BY Numbers
<1>1. CASE Fresh BY <1>1, <1>n, AcceptedFirst
<1>2. CASE ~Fresh
  <2>1. PICK w \in Int : Window(w) BY <1>2 DEF OrderInv, OrderParts, WindowKnown, Active
  <2>2. /\ frame <= top /\ frame >= top + 1 - WSize
        /\ w <= top + 1 /\ w + 2 * WSize + Slack >= top + 1 /\ indicate = SeqNum(w)
    BY <2>1 DEF OrderInv, BufferInv, FrameInWindow, Window
  <2>3. Started(SeqNum(frame)) = SeqNum(w) BY <2>2, SeqNumType DEF Started
  <2>4. ~SNLess(SeqNum(frame), SeqNum(w)) BY <2>3 DEF TooOld
  <2>5. frame - w < Half /\ w - frame <= Half BY <2>2, <1>n, <1>c
  <2>6. ~(frame < w) BY <2>4, <2>5, <1>n, SNLessIsLess
  <2>7. 0 <= frame - w /\ w <= frame BY <2>6, <1>n
  <2>8. \E x \in Int : /\ NextIndicate(SeqNum(frame)) = SeqNum(x)
                       /\ w <= x /\ x <= frame + 1 /\ x >= frame + 1 - WSize
    BY <2>2, <2>5, <2>7, <1>n, Accepted
  <2> QED BY <2>1, <2>7, <2>8
<1> QED BY <1>1, <1>2

\* A frame that is in the buffer already moves the window and goes: it was not the newest.
LEMMA OrderDropDuplicate ==
  ASSUME OrderInv, DropDuplicate
  PROVE  OrderParts'
<1>u. /\ UNCHANGED <<out, cur, pending, top, ahead, lock, enable>>
      /\ rx = "enter" /\ rx' = "idle" /\ ~TooOld(SeqNum(frame)) /\ lock = "free"
      /\ indicate' = NextIndicate(SeqNum(frame))
  BY DEF DropDuplicate, peer, queue, hist
<1>c. WSize \in Nat \ {0} BY ModIsPositive
<1>n. frame \in Nat /\ top \in Nat BY Numbers
<1>1. Active /\ (Fresh' <=> Fresh) /\ Slack' = 0 BY <1>u DEF Active, Fresh, Slack
<1>2. OutBeforePending' BY <1>u DEF OrderInv, OrderParts, OutBeforePending
<1>3. DirectIsFresh' BY <1>u DEF DirectIsFresh
<1>4. Slack = 0
  <2>1. PICK i \in 1 .. Len(pending) + 1 : Place(SeqNum(frame), i) /\ IsDuplicate(SeqNum(frame), i)
    BY DEF DropDuplicate
  <2>2. frame = pending[i] /\ i \in 1 .. Len(pending)
    <3>1. frame = pending[i] BY <2>1, <1>u, PlaceSplits DEF OrderInv
    <3>2. Len(pending) \in Nat /\ i <= Len(pending) BY <2>1, Numbers DEF IsDuplicate
    <3> QED BY <3>1, <3>2
  <2>3. ahead => pending[i] < frame BY <2>2, <1>u DEF OrderInv, BufferInv, FrameInWindow
  <2>4. ~ahead BY <2>2, <2>3, <1>n
  <2> QED BY <2>4 DEF Slack
<1>5. WindowKnown'
  <2> SUFFICES ASSUME ~Fresh' PROVE (\E w \in Int : Window(w))' BY DEF WindowKnown
  <2>1. PICK x \in Int :
          /\ NextIndicate(SeqNum(frame)) = SeqNum(x)
          /\ x <= frame + 1 /\ x >= frame + 1 - WSize
          /\ ~Fresh => \E w \in Int : Window(w) /\ w <= x /\ w <= frame
    BY <1>u, WindowMoves
  <2>2. PICK w \in Int : Window(w) /\ w <= x BY <2>1, <1>1
  <2>3. \A k \in 1 .. Len(out) : out[k] < x
    <3>1. \A k \in 1 .. Len(out) : out[k] < w /\ out[k] \in Nat BY <2>2, Numbers DEF Window
    <3> QED BY <3>1, <2>2
  <2>4. frame <= top /\ w + 2 * WSize >= top + 1
    BY <2>2, <1>4, <1>u, <1>n, <1>c DEF OrderInv, BufferInv, FrameInWindow, Window
  <2>5. x <= top + 1 /\ x + 2 * WSize + 0 >= top + 1 BY <2>1, <2>2, <2>4, <1>n, <1>c
  <2>6. Window(x)' BY <2>1, <2>3, <2>5, <1>u, <1>1 DEF Window
  <2> QED BY <2>6
<1>6. PendingClose'
  <2> SUFFICES ASSUME ~Fresh', lock' = "free", NEW i \in 1 .. Len(pending')
               PROVE  pending'[i] + 2 * WSize + Slack' > top'
    BY DEF PendingClose
  <2>1. i \in 1 .. Len(pending) /\ pending'[i] = pending[i] BY <1>u
  <2>2. pending[i] + 2 * WSize + Slack > top
    BY <2>1, <1>1, <1>u DEF OrderInv, OrderParts, PendingClose
  <2> QED BY <2>1, <2>2, <1>4, <1>1, <1>u
<1> QED BY <1>2, <1>3, <1>5, <1>6 DEF OrderParts

\* A frame is put in its place.
LEMMA OrderEnqueue ==
  ASSUME OrderInv, Enqueue
  PROVE  OrderParts'
<1>u. /\ UNCHANGED <<out, top, ahead, enable>>
      /\ rx = "enter" /\ rx' = "loop" /\ ~TooOld(SeqNum(frame)) /\ lock = "free" /\ lock' = "rx"
      /\ indicate' = NextIndicate(SeqNum(frame)) /\ cur' = cur \union {frame}
  BY DEF Enqueue, peer
<1>c. WSize \in Nat \ {0} /\ Half \in Nat \ {0} /\ 2 * WSize + GapMax <= Half /\ GapMax \in Nat
  BY ModIsPositive
<1>n. /\ TypeOK /\ frame \in Nat /\ top \in Nat
      /\ Len(pending) \in Nat /\ \A i \in 1 .. Len(pending) : pending[i] \in Nat
      /\ Len(out) \in Nat /\ \A k \in 1 .. Len(out) : out[k] \in Nat
  BY Numbers
<1>1. Slack' = 0 BY <1>u DEF Slack
<1>2. \A j \in 1 .. Len(pending') :
        pending'[j] = frame \/ \E i \in 1 .. Len(pending) : pending'[j] = pending[i]
  <2>1. PICK i \in 1 .. Len(pending) + 1 : pending' = InsertedAt(i, frame) BY DEF Enqueue
  <2> DEFINE q == InsertedAt(i, frame)
  <2>2. /\ Len(q) = Len(pending) + 1
        /\ \A j \in 1 .. Len(pending) + 1 : q[j] =
             IF j < i THEN pending[j] ELSE IF j = i THEN frame ELSE pending[j - 1]
    BY <1>n, InsertedAtProperties
  <2>3. pending' = q BY <2>1
  <2> HIDE DEF q
  <2> SUFFICES ASSUME NEW j \in 1 .. Len(q)
               PROVE  q[j] = frame \/ \E k \in 1 .. Len(pending) : q[j] = pending[k]
    BY <2>3
  <2>4. j \in 1 .. Len(pending) + 1 BY <2>2
  <2>5. j < i => j \in 1 .. Len(pending) BY <2>4, <1>n
  <2>6. j > i => j - 1 \in 1 .. Len(pending) BY <2>4, <1>n
  <2> QED BY <2>2, <2>4, <2>5, <2>6, <1>n
<1>3. PICK x \in Int :
        /\ NextIndicate(SeqNum(frame)) = SeqNum(x)
        /\ x <= frame + 1 /\ x >= frame + 1 - WSize
        /\ ~Fresh => \E w \in Int : Window(w) /\ w <= x /\ w <= frame
  BY <1>u, WindowMoves
<1>4. \A k \in 1 .. Len(out) : out[k] < x /\ out[k] < frame
  <2>1. CASE Fresh BY <2>1 DEF Fresh
  <2>2. CASE ~Fresh
    <3>1. PICK w \in Int : Window(w) /\ w <= x /\ w <= frame BY <1>3, <2>2
    <3>2. \A k \in 1 .. Len(out) : out[k] < w BY <3>1 DEF Window
    <3> QED BY <3>1, <3>2, <1>n
  <2> QED BY <2>1, <2>2
<1>5. OutBeforePending' BY <1>2, <1>4, <1>u DEF OrderInv, OrderParts, OutBeforePending
<1>6. DirectIsFresh' BY <1>u DEF DirectIsFresh
<1>7. PendingClose' BY <1>u DEF PendingClose
<1>8. \A j \in 1 .. Len(pending') : x - pending'[j] < Half
  <2>1. \A i \in 1 .. Len(pending) : frame + 1 - pending[i] < Half
    BY <1>u DEF OrderInv, BufferInv, FrameInWindow
  <2>2. \A i \in 1 .. Len(pending) : x - pending[i] < Half BY <2>1, <1>3, <1>n, <1>c
  <2>3. x - frame < Half BY <1>3, <1>n, <1>c
  <2> QED BY <2>2, <2>3, <1>2
<1>9. WindowKnown'
  <2>1. frame <= top /\ frame >= top + 1 - WSize BY <1>u DEF OrderInv, BufferInv, FrameInWindow
  <2>2. x <= top + 1 /\ x + 2 * WSize + 0 >= top + 1 BY <2>1, <1>3, <1>n, <1>c
  <2>3. indicate' = SeqNum(x) /\ \A k \in 1 .. Len(out') : out'[k] < x BY <1>3, <1>4, <1>u
  <2>4. Window(x)' BY <2>2, <2>3, <1>8, <1>1, <1>u DEF Window
  <2> QED BY <2>4 DEF WindowKnown
<1> QED BY <1>5, <1>6, <1>7, <1>9 DEF OrderParts

\* The head of the buffer goes up.
LEMMA OrderIndicateHead ==
  ASSUME OrderInv, IndicateHead
  PROVE  OrderParts'
<1> DEFINE h == Head(pending)
<1>u. /\ UNCHANGED <<top, rx, ahead, frame, lock, enable>> /\ lock # "free"
      /\ HeadReady /\ pending # <<>> /\ pending' = Tail(pending)
      /\ indicate' = IF indicate = SeqNum(h) THEN (indicate + 1) % SeqMod ELSE indicate
      /\ cur' = cur \ {h}
      /\ out' = IF h \in cur /\ ~stopped THEN Append(out, h) ELSE out
  BY DEF IndicateHead, HeadReady, peer, task
<1>n. /\ TypeOK /\ top \in Nat /\ Slack \in Nat
      /\ Len(pending) \in Nat /\ \A i \in 1 .. Len(pending) : pending[i] \in Nat
      /\ Len(out) \in Nat /\ \A k \in 1 .. Len(out) : out[k] \in Nat
      /\ out \in Seq(Nat)
  BY Numbers DEF TypeOK, HistTypes
<1>h. /\ h \in Nat /\ h <= top
      /\ \E i \in 1 .. Len(pending) : pending[i] = h
      /\ \A i \in 1 .. Len(pending') :
           h < pending'[i] /\ \E j \in 1 .. Len(pending) : pending'[i] = pending[j]
  BY <1>u, HeadIsLeast
<1> HIDE DEF h
<1>1. \A k \in 1 .. Len(out) : out[k] < h
  BY <1>h DEF OrderInv, OrderParts, OutBeforePending
<1>2. \A k \in 1 .. Len(out') : out'[k] = h \/ \E l \in 1 .. Len(out) : out'[k] = out[l]
  <2>1. CASE out' = out BY <2>1
  <2>2. CASE out' = Append(out, h)
    <3>1. Len(out') = Len(out) + 1 /\ out'[Len(out) + 1] = h
          /\ \A k \in 1 .. Len(out) : out'[k] = out[k]
      BY <2>2, <1>n, <1>h, AppendProperties
    <3> QED BY <3>1, <1>n
  <2> QED BY <2>1, <2>2, <1>u
<1>3. Fresh => Fresh' BY <1>u DEF Fresh
<1>4. OutBeforePending' BY <1>1, <1>2, <1>h DEF OrderInv, OrderParts, OutBeforePending
<1>5. DirectIsFresh' BY <1>u, <1>3 DEF OrderInv, OrderParts, DirectIsFresh
<1>6. PendingClose' BY <1>u DEF PendingClose
<1>7. WindowKnown'
  <2> SUFFICES ASSUME Active', ~Fresh' PROVE (\E w \in Int : Window(w))' BY DEF WindowKnown
  <2>1. Slack' = Slack /\ Active /\ ~Fresh BY <1>u, <1>3 DEF Slack, Active
  <2>2. PICK w \in Int : Window(w) BY <2>1 DEF OrderInv, OrderParts, WindowKnown
  <2>3. /\ indicate = SeqNum(w) /\ \A k \in 1 .. Len(out) : out[k] < w
        /\ w <= top + 1 /\ (rx = "enter" /\ ahead => w <= top)
        /\ w + 2 * WSize + Slack >= top + 1
        /\ \A i \in 1 .. Len(pending) : w - pending[i] < Half
    BY <2>2, <1>u DEF Window
  <2>4. h <= w /\ (indicate = SeqNum(h) <=> h = w)
    BY <2>2, <1>u, HeadAndWindow DEF h
  <2>5. CASE h = w
    <3>x. PICK x \in Int : x = w + 1 OBVIOUS
    <3>1. indicate' = SeqNum(x)
      <4>1. (SeqNum(w) + 1) % SeqMod = SeqNum(w + 1) BY ModPlus DEF SeqNum
      <4> QED BY <4>1, <3>x, <2>3, <2>4, <2>5, <1>u
    <3>2. x <= top + 1 BY <3>x, <2>5, <1>h, <1>n
    <3>3. rx = "enter" /\ ahead => x <= top
      <4> SUFFICES ASSUME rx = "enter", ahead PROVE x <= top OBVIOUS
      <4>1. frame = top /\ \A i \in 1 .. Len(pending) : pending[i] < frame
        BY DEF OrderInv, BufferInv, FrameInWindow
      <4>2. h < top BY <4>1, <1>h
      <4> QED BY <4>2, <3>x, <2>5, <1>h, <1>n
    <3>4. \A k \in 1 .. Len(out') : out'[k] < x
      <4>1. h < x /\ \A k \in 1 .. Len(out) : out[k] < x
        BY <3>x, <1>1, <2>5, <1>h, <1>n
      <4> QED BY <4>1, <1>2
    <3>5. x + 2 * WSize + Slack >= top + 1 BY <3>x, <2>3, <1>n, ModIsPositive
    <3>6. \A i \in 1 .. Len(pending') : x - pending'[i] < Half
      <4> SUFFICES ASSUME NEW i \in 1 .. Len(pending') PROVE x - pending'[i] < Half
        OBVIOUS
      <4>1. PICK j \in 1 .. Len(pending) : pending'[i] = pending[j] BY <1>h
      <4>2. h < pending[j] /\ pending[j] \in Nat BY <4>1, <1>h, <1>n
      <4>3. x - pending[j] < Half BY <4>2, <3>x, <2>5, <1>h, ModIsPositive
      <4> QED BY <4>1, <4>3
    <3>7. Window(x)' BY <3>1, <3>2, <3>3, <3>4, <3>5, <3>6, <2>1, <1>u DEF Window
    <3> QED BY <3>7
  <2>6. CASE h # w
    <3>1. indicate' = SeqNum(w) /\ h < w BY <2>3, <2>4, <2>6, <1>u, <1>h
    <3>2. \A k \in 1 .. Len(out') : out'[k] < w BY <3>1, <2>3, <1>2
    <3>3. \A i \in 1 .. Len(pending') : w - pending'[i] < Half BY <2>3, <1>h
    <3>4. Window(w)' BY <3>1, <3>2, <3>3, <2>1, <2>3, <1>u DEF Window
    <3> QED BY <3>4
  <2> QED BY <2>5, <2>6
<1> QED BY <1>4, <1>5, <1>6, <1>7 DEF OrderParts

\* The lock is released with the head of the buffer beyond the window, or the buffer empty.
LEMMA OrderUnlock ==
  ASSUME OrderInv, lock # "free", ~HeadReady,
         UNCHANGED <<indicate, out, cur, pending, top, enable, ahead>>,
         rx' = rx \/ (rx = "loop" /\ rx' \in {"idle", "cancel"})
  PROVE  OrderParts'
<1>n. /\ TypeOK /\ top \in Nat /\ Slack \in Nat
      /\ Len(pending) \in Nat /\ \A i \in 1 .. Len(pending) : pending[i] \in Nat
  BY Numbers
<1>1. (Fresh' <=> Fresh) /\ (Active' => Active) BY DEF Fresh, Active
<1>2. Slack' = Slack BY DEF Slack
<1>3. OutBeforePending' BY DEF OrderInv, OrderParts, OutBeforePending
<1>4. DirectIsFresh' BY <1>1 DEF OrderInv, OrderParts, DirectIsFresh
<1>5. \A w \in Int : Window(w) => Window(w)' BY <1>2 DEF Window
<1>6. WindowKnown' BY <1>1, <1>5 DEF OrderInv, OrderParts, WindowKnown
<1>7. PendingClose'
  <2> SUFFICES ASSUME Active, ~Fresh, NEW i \in 1 .. Len(pending)
               PROVE  pending[i] + 2 * WSize + Slack > top
    BY <1>1, <1>2 DEF PendingClose
  <2>1. PICK w \in Int : Window(w) BY DEF OrderInv, OrderParts, WindowKnown
  <2>2. pending # <<>> BY <1>n
  <2>3. ~(Head(pending) <= w) BY <2>1, <2>2, HeadAndWindow
  <2>4. Head(pending) \in Nat /\ Head(pending) <= pending[i] BY <2>2, HeadIsLeast
  <2>5. w + 2 * WSize + Slack >= top + 1 BY <2>1 DEF Window
  <2> QED BY <2>3, <2>4, <2>5, <1>n, ModIsPositive
<1> QED BY <1>3, <1>4, <1>6, <1>7 DEF OrderParts

\* The handler moves the window to the head of the buffer.
LEMMA OrderTimerForces ==
  ASSUME OrderInv, TimerForces
  PROVE  OrderParts'
<1> DEFINE h == Head(pending)
<1>u. /\ UNCHANGED <<out, cur, pending, top, rx, ahead, frame, enable>>
      /\ lock = "free" /\ lock' = "timer" /\ pending # <<>> /\ indicate' = SeqNum(h)
  BY DEF TimerForces, peer, task, hist
<1>n. /\ TypeOK /\ top \in Nat /\ Slack \in Nat
      /\ Len(pending) \in Nat /\ \A i \in 1 .. Len(pending) : pending[i] \in Nat
  BY Numbers
<1>h. /\ h \in Nat /\ h <= top
      /\ \E i \in 1 .. Len(pending) : pending[i] = h
      /\ \A i \in 1 .. Len(pending) : h <= pending[i]
  BY <1>u, HeadIsLeast
<1> HIDE DEF h
<1>1. (Fresh' <=> Fresh) /\ (Active' => Active) /\ Slack' = Slack
  BY <1>u DEF Fresh, Active, Slack
<1>2. OutBeforePending' BY <1>u DEF OrderInv, OrderParts, OutBeforePending
<1>3. DirectIsFresh' BY <1>u, <1>1 DEF OrderInv, OrderParts, DirectIsFresh
<1>4. PendingClose' BY <1>u DEF PendingClose
<1>5. WindowKnown'
  <2> SUFFICES ASSUME Active', ~Fresh' PROVE (\E w \in Int : Window(w))' BY DEF WindowKnown
  <2>1. \A k \in 1 .. Len(out) : out[k] < h
    BY <1>h DEF OrderInv, OrderParts, OutBeforePending
  <2>2. \A i \in 1 .. Len(pending) : h - pending[i] < Half BY <1>h, <1>n, ModIsPositive
  <2>3. h + 2 * WSize + Slack > top
    BY <1>h, <1>1, <1>u DEF OrderInv, OrderParts, PendingClose
  <2>4. h + 2 * WSize + Slack >= top + 1 /\ h <= top + 1 /\ h \in Int
    BY <2>3, <1>h, <1>n, ModIsPositive
  <2>5. PICK w \in Int : w = h BY <2>4
  <2>7. indicate' = SeqNum(w) BY <2>5, <1>u
  <2>8. \A k \in 1 .. Len(out') : out'[k] < w BY <2>1, <2>5, <1>u
  <2>9. rx = "enter" /\ ahead => w <= top BY <2>5, <1>h
  <2>10. w + 2 * WSize + Slack >= top + 1 /\ w <= top + 1 BY <2>4, <2>5
  <2>11. \A i \in 1 .. Len(pending') : w - pending'[i] < Half BY <2>2, <2>5, <1>u
  <2>6. Window(w)' BY <2>7, <2>8, <2>9, <2>10, <2>11, <1>1, <1>u DEF Window
  <2> QED BY <2>6
<1> QED BY <1>2, <1>3, <1>4, <1>5 DEF OrderParts

\* The command thread starts the session over.
LEMMA OrderRestart ==
  ASSUME out' = <<>>, cur' = {}
  PROVE  OrderParts'
<1>1. Fresh' BY DEF Fresh
<1>2. Len(out') = 0 OBVIOUS
<1>3. OutBeforePending' BY <1>2 DEF OutBeforePending
<1> QED BY <1>1, <1>3 DEF OrderParts, DirectIsFresh, WindowKnown, PendingClose

\* The inductive step for the order.
LEMMA OrderStep == ASSUME OrderInv, [Next]_vars PROVE OrderInv'
<1>0. BufferInv' BY BufferStep DEF OrderInv
<1>1. OrderParts'
  <2> USE DEF peer, ctrl, queue, task, cmds, hist
  <2>1. ASSUME NEW n \in 0 .. Last, Receive(n) PROVE OrderParts' BY <2>1, OrderReceive
  <2>2. ASSUME NEW ok \in BOOLEAN, AddbaReq(ok) PROVE OrderParts'
    BY <2>2, OrderFrame DEF AddbaReq
  <2>3. ASSUME DirectDone PROVE OrderParts'
    <3>1. UNCHANGED <<out, cur, pending, enable>> /\ rx = "direct" /\ rx' = "idle"
      BY <2>3 DEF DirectDone
    <3>2. Active' => Fresh' BY <3>1 DEF Active, Fresh, OrderInv, OrderParts, DirectIsFresh
    <3>3. OutBeforePending' BY <3>1 DEF OrderInv, OrderParts, OutBeforePending
    <3> QED BY <3>1, <3>2, <3>3 DEF OrderParts, DirectIsFresh, WindowKnown, PendingClose
  <2>4. ASSUME DropOld PROVE OrderParts' BY <2>4, OrderDropOld
  <2>5. ASSUME DropDuplicate PROVE OrderParts' BY <2>5, OrderDropDuplicate
  <2>6. ASSUME Enqueue PROVE OrderParts' BY <2>6, OrderEnqueue
  <2>7. ASSUME LoopLeavesSome PROVE OrderParts'
    <3>1. rx = "loop" BY <2>7 DEF LoopLeavesSome, OrderInv, BufferInv, TimerInv, TaskletInv
    <3>2. lock # "free" /\ ~HeadReady /\ rx' = "idle" BY <2>7 DEF LoopLeavesSome
    <3>3. UNCHANGED <<indicate, out, cur, pending, top, enable, ahead>>
      BY <2>7 DEF LoopLeavesSome
    <3> QED BY <3>1, <3>2, <3>3, OrderUnlock
  <2>8. ASSUME LoopLeavesNone PROVE OrderParts'
    <3>1. rx = "loop" BY <2>8 DEF LoopLeavesNone, OrderInv, BufferInv, TimerInv, TaskletInv
    <3>2. lock # "free" /\ ~HeadReady /\ rx' = "cancel"
      BY <2>8 DEF LoopLeavesNone, HeadReady
    <3>3. UNCHANGED <<indicate, out, cur, pending, top, enable, ahead>>
      BY <2>8 DEF LoopLeavesNone
    <3> QED BY <3>1, <3>2, <3>3, OrderUnlock
  <2>9. ASSUME Cancel PROVE OrderParts'
    <3>1. /\ UNCHANGED <<indicate, out, cur, pending, top, lock, enable, ahead>>
          /\ rx = "cancel" /\ rx' = "idle"
      BY <2>9 DEF Cancel
    <3>2. (Active' => Active) /\ (Fresh' <=> Fresh) /\ Slack' = Slack
      BY <3>1 DEF Active, Fresh, Slack
    <3>3. \A w \in Int : Window(w) => Window(w)' BY <3>1, <3>2 DEF Window
    <3>4. OutBeforePending' /\ DirectIsFresh'
      BY <3>1 DEF OrderInv, OrderParts, OutBeforePending, DirectIsFresh
    <3>5. WindowKnown' BY <3>2, <3>3 DEF OrderInv, OrderParts, WindowKnown
    <3>6. PendingClose' BY <3>1, <3>2 DEF OrderInv, OrderParts, PendingClose
    <3> QED BY <3>4, <3>5, <3>6 DEF OrderParts
  <2>10. ASSUME IndicateHead PROVE OrderParts' BY <2>10, OrderIndicateHead
  <2>11. ASSUME TimerFires PROVE OrderParts' BY <2>11, OrderFrame DEF TimerFires
  <2>12. ASSUME TimerFindsNone PROVE OrderParts' BY <2>12, OrderFrame DEF TimerFindsNone
  <2>13. ASSUME TimerForces PROVE OrderParts' BY <2>13, OrderTimerForces
  <2>14. ASSUME TimerDone PROVE OrderParts'
    <3>1. lock # "free" /\ ~HeadReady /\ rx' = rx BY <2>14 DEF TimerDone
    <3>2. UNCHANGED <<indicate, out, cur, pending, top, enable, ahead>>
      BY <2>14 DEF TimerDone
    <3> QED BY <3>1, <3>2, OrderUnlock
  <2>15. ASSUME NEW heard \in BOOLEAN, SendRsp(heard) PROVE OrderParts'
    BY <2>15, OrderFrame DEF SendRsp
  <2>16. ASSUME ResetSeq PROVE OrderParts' BY <2>16, OrderRestart DEF ResetSeq
  <2>17. ASSUME SetEnable PROVE OrderParts' BY <2>17, OrderRestart DEF SetEnable
  <2>18. ASSUME Teardown PROVE OrderParts'
    BY <2>18, OrderFrame DEF Teardown, PeerStops, DelbaArrives, DelbaLost, LocalDelba, Stop
  <2>19. ASSUME UNCHANGED vars PROVE OrderParts' BY <2>19, OrderFrame DEF vars
  <2> QED BY <2>1, <2>2, <2>3, <2>4, <2>5, <2>6, <2>7, <2>8, <2>9, <2>10, <2>11, <2>12,
             <2>13, <2>14, <2>15, <2>16, <2>17, <2>18, <2>19
          DEF Next, Tasklet, Handler, CmdThread
<1> QED BY <1>0, <1>1 DEF OrderInv

\* The invariant about the order.
LEMMA OrderInvariant == Spec => []OrderInv
<1>1. Init => OrderInv
  <2> SUFFICES ASSUME Init PROVE OrderInv OBVIOUS
  <2>1. TypeOK BY InitTyped
  <2>2. pending = <<>> /\ rx = "idle" /\ out = <<>> /\ cur = {} /\ ~enable BY DEF Init
  <2>3. Len(pending) = 0 BY <2>2
  <2>4. TimerInv BY <2>1 DEF Init, TimerInv, TaskletInv, NoStall, WaitingMeansTimer
  <2>5. BufferInv BY <2>2, <2>3, <2>4 DEF BufferInv, BufferOfPeer, FrameInWindow, PendingSorted
  <2>6. OrderParts
    BY <2>2, <2>3 DEF OrderParts, OutBeforePending, DirectIsFresh, WindowKnown, PendingClose, Active
  <2> QED BY <2>5, <2>6 DEF OrderInv
<1>2. OrderInv /\ [Next]_vars => OrderInv' BY OrderStep
<1> QED BY <1>1, <1>2, PTL DEF Spec

\* A step of the driver delivers one frame, starts a session over or leaves the
\* frames handed up alone.
LEMMA DeliveryStep ==
  ASSUME OrderInv, [Next]_vars
  PROVE  Session!Deliver \/ Session!Restart \/ UNCHANGED out
<1>1. ASSUME IndicateHead PROVE Session!Deliver \/ UNCHANGED out
  <2> DEFINE h == Head(pending)
  <2>1. /\ TypeOK /\ out \in Seq(Nat) /\ Len(out) \in Nat /\ pending # <<>>
        /\ out' = IF h \in cur /\ ~stopped THEN Append(out, h) ELSE out
    BY <1>1, Numbers DEF IndicateHead, HeadReady, TypeOK, HistTypes
  <2>2. h \in Nat /\ \E i \in 1 .. Len(pending) : pending[i] = h BY <2>1, HeadIsLeast
  <2> HIDE DEF h
  <2>3. \A k \in 1 .. Len(out) : out[k] < h
    BY <2>2 DEF OrderInv, OrderParts, OutBeforePending
  <2>4. CASE out' = Append(out, h)
    <3>1. /\ Len(out') = Len(out) + 1 /\ out'[Len(out) + 1] = h
          /\ \A k \in 1 .. Len(out) : out'[k] = out[k]
      BY <2>1, <2>2, <2>4, AppendProperties
    <3> QED BY <3>1, <2>3 DEF Session!Deliver
  <2> QED BY <2>1, <2>4
<1>2. ASSUME ResetSeq \/ SetEnable PROVE Session!Restart
  BY <1>2 DEF ResetSeq, SetEnable, Session!Restart
<1> USE DEF peer, ctrl, queue, task, cmds, hist
<1>3. ASSUME NEW n \in 0 .. Last, Receive(n) PROVE UNCHANGED out BY <1>3 DEF Receive
<1>4. ASSUME NEW ok \in BOOLEAN, AddbaReq(ok) PROVE UNCHANGED out BY <1>4 DEF AddbaReq
<1>5. ASSUME Tasklet PROVE UNCHANGED out
  BY <1>5 DEF Tasklet, DirectDone, DropOld, DropDuplicate, Enqueue, LoopLeavesSome,
              LoopLeavesNone, Cancel
<1>6. ASSUME TimerFires \/ Handler PROVE UNCHANGED out
  BY <1>6 DEF TimerFires, Handler, TimerFindsNone, TimerForces, TimerDone
<1>7. ASSUME NEW heard \in BOOLEAN, SendRsp(heard) PROVE UNCHANGED out BY <1>7 DEF SendRsp
<1>8. ASSUME Teardown PROVE UNCHANGED out
  BY <1>8 DEF Teardown, PeerStops, DelbaArrives, DelbaLost, LocalDelba, Stop
<1>9. ASSUME UNCHANGED vars PROVE UNCHANGED out BY <1>9 DEF vars
<1> QED BY <1>1, <1>2, <1>3, <1>4, <1>5, <1>6, <1>7, <1>8, <1>9 DEF Next, CmdThread

\* The driver implements in-order delivery: within a session the frames go up with
\* growing numbers and none twice, whatever is lost, resent or forced out by the timer.
THEOREM DeliversInOrder == Spec => ImplementsOrderedDelivery
<1>1. Init => Session!Init BY DEF Init, Session!Init
<1>2. OrderInv /\ [Next]_vars => Session!Deliver \/ Session!Restart \/ UNCHANGED out
  BY DeliveryStep
<1> QED BY <1>1, <1>2, OrderInvariant, PTL DEF Spec, ImplementsOrderedDelivery, Session!Spec

=============================================================================
