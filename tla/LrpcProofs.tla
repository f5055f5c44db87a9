----------------------------- MODULE LrpcProofs -----------------------------
(***************************************************************************)
(* Safety of the LRPC channel for every ring size, every counter width     *)
(* that is a whole number of double laps, and every set of messages.       *)
(***************************************************************************)
EXTENDS Lrpc, TLAPS

-----------------------------------------------------------------------------
(* Arithmetic of the wrapping counters                                     *)

\* Quotient and remainder are determined by a = q * n + r with 0 <= r < n.
LEMMA DivModUnique ==
  ASSUME NEW n \in Nat \ {0}, NEW q \in Int, NEW r \in 0 .. n - 1
  PROVE  (q * n + r) % n = r /\ (q * n + r) \div n = q
  OBVIOUS

LEMMA DivModExists ==
  ASSUME NEW n \in Nat \ {0}, NEW a \in Int
  PROVE  /\ a \div n \in Int
         /\ a % n \in 0 .. n - 1
         /\ a = (a \div n) * n + (a % n)
  OBVIOUS

LEMMA WordType == Word \in Nat \ {0} /\ Word >= 2 * Size
  BY SizeAssumption, LapsAssumption DEF Word

\* Adding one to a counter, and subtracting two counters, written out.
LEMMA IncType ==
  ASSUME NEW a \in Counter
  PROVE  Inc(a) \in Counter /\ Inc(a) = IF a = Word - 1 THEN 0 ELSE a + 1
  BY WordType DEF Counter, Inc

LEMMA SubType ==
  ASSUME NEW a \in Counter, NEW b \in Counter
  PROVE  /\ Sub(a, b) \in Counter
         /\ Sub(a, b) = IF a >= b THEN a - b ELSE a - b + Word
  BY WordType DEF Counter, Sub

LEMMA SlotParityType ==
  ASSUME NEW a \in Counter
  PROVE  Slot(a) \in Slots /\ Parity(a) \in {0, 1}
  <1>1. a \in Int
    BY WordType DEF Counter
  <1>2. Slot(a) \in Slots
    BY <1>1, SizeAssumption, DivModExists DEF Slot, Slots
  <1>3. Parity(a) \in {0, 1}
    BY <1>1, SizeAssumption, DivModExists DEF Parity
  <1> QED BY <1>2, <1>3

\* Moving a counter forward by at most one ring moves the slot by as much, and
\* flips the parity exactly when the slot passes the end of the table.  The
\* wrap of the counter makes no difference: Word is an even number of rings.
LEMMA SlotParityAdd ==
  ASSUME NEW a \in Counter, NEW b \in Counter, Sub(a, b) <= Size
  PROVE  LET d == Sub(a, b)
         IN  IF Slot(b) + d < Size
               THEN Slot(a) = Slot(b) + d /\ Parity(a) = Parity(b)
               ELSE Slot(a) = Slot(b) + d - Size /\ Parity(a) = 1 - Parity(b)
  <1> DEFINE d == Sub(a, b)
             q == b \div Size
             r == b % Size
  <1>1. /\ a \in Int /\ b \in Int /\ d \in Nat /\ d <= Size
        /\ a = b + d \/ a = b + d - Word
    <2>1. d \in Counter /\ d = IF a >= b THEN a - b ELSE a - b + Word
      BY SubType
    <2> QED BY <2>1, WordType DEF Counter
  <1>0. q \in Int /\ r \in 0 .. Size - 1 /\ b = q * Size + r
    BY <1>1, SizeAssumption, DivModExists
  <1>2. PICK w \in {0, Laps} : a = b + d - w * (2 * Size)
    <2>1. b + d = b + d - 0 * (2 * Size)
      BY <1>1, SizeAssumption
    <2> QED BY <1>1, <2>1 DEF Word
  <1> DEFINE e == IF r + d < Size THEN 0 ELSE 1
  <1>3. /\ w \in Nat /\ e \in {0, 1}
        /\ r + d - e * Size \in 0 .. Size - 1
        /\ q + e - 2 * w \in Int
    BY <1>0, <1>1, <1>2, SizeAssumption, LapsAssumption
  <1>4. a = (q + e - 2 * w) * Size + (r + d - e * Size)
    <2>1. \A x, y, z, s \in Int :
             (x + y - 2 * z) * s = x * s + y * s - z * (2 * s)
      OBVIOUS
    <2> HIDE DEF q, r, d, e
    <2>2. (q + e - 2 * w) * Size = q * Size + e * Size - w * (2 * Size)
      BY <2>1, <1>0, <1>3, SizeAssumption
    <2> QED BY <2>2, <1>0, <1>1, <1>2, <1>3, SizeAssumption
  <1>5. a % Size = r + d - e * Size /\ a \div Size = q + e - 2 * w
    BY <1>3, <1>4, SizeAssumption, DivModUnique
  <1>6. (q + e - 2 * w) % 2 = (q + e) % 2
    BY <1>0, <1>3
  <1>7. (q + 1) % 2 = 1 - (q % 2)
    BY <1>0
  <1> QED BY <1>0, <1>1, <1>5, <1>6, <1>7, SizeAssumption DEF Slot, Parity

\* How the distance between two counters changes when one of them advances.
LEMMA SubLaws ==
  ASSUME NEW a \in Counter, NEW b \in Counter
  PROVE  /\ Sub(a, a) = 0
         /\ Sub(a, b) = 0 <=> a = b
         /\ Sub(a, b) < Size => Sub(Inc(a), b) = Sub(a, b) + 1
         /\ a # b => Sub(a, Inc(b)) = Sub(a, b) - 1
         /\ Sub(Inc(a), a) = 1
         /\ 1 \in Counter /\ Sub(Inc(a), 1) = a
  <1> DEFINE c == Inc(a)
             e == Inc(b)
  <1>1. /\ a \in Counter /\ b \in Counter /\ c \in Counter /\ e \in Counter
        /\ c = IF a = Word - 1 THEN 0 ELSE a + 1
        /\ e = IF b = Word - 1 THEN 0 ELSE b + 1
    BY IncType
  <1>2. 1 \in Counter /\ Word \in Nat /\ Word >= 2 * Size /\ Size >= 1
    BY WordType, SizeAssumption DEF Counter
  <1> HIDE DEF c, e
  <1>3. \A x, y \in Counter : Sub(x, y) = IF x >= y THEN x - y ELSE x - y + Word
    BY SubType
  <1>4. /\ Sub(a, a) = 0
        /\ Sub(a, b) = 0 <=> a = b
        /\ Sub(a, b) < Size => Sub(c, b) = Sub(a, b) + 1
        /\ a # b => Sub(a, e) = Sub(a, b) - 1
        /\ Sub(c, a) = 1
        /\ Sub(c, 1) = a
    BY <1>1, <1>2, <1>3, SizeAssumption DEF Counter
  <1> QED BY <1>2, <1>4 DEF c, e

LEMMA SubAdd ==
  ASSUME NEW a \in Counter, NEW b \in Counter, NEW c \in Counter,
         Sub(a, b) + Sub(b, c) <= Size
  PROVE  Sub(a, c) = Sub(a, b) + Sub(b, c)
  <1>1. \A x, y \in Counter : Sub(x, y) = IF x >= y THEN x - y ELSE x - y + Word
    BY SubType
  <1> QED BY <1>1, WordType, SizeAssumption DEF Counter

-----------------------------------------------------------------------------
(* The inductive invariant                                                 *)

LEMMA InitInv == Init => IInv
  <1> SUFFICES ASSUME Init PROVE IInv
    OBVIOUS
  <1>1. 0 \in Counter /\ Sub(0, 0) = 0
    BY WordType, SubLaws DEF Counter
  <1>2. TypeOK
    BY <1>1 DEF Init, TypeOK
  <1>3. Slot(0) = 0 /\ Parity(0) = 1
    BY SizeAssumption DEF Slot, Parity
  <1>4. WindowInv
    BY <1>1, SizeAssumption DEF Init, WindowInv, Outstanding
  <1>5. ParityInv
    BY <1>3 DEF Init, ParityInv, Slots
  <1>6. ContentInv
    BY DEF Init, ContentInv, NoTornMessage
  <1> QED BY <1>2, <1>4, <1>5, <1>6 DEF IInv

\* The window as plain numbers: what the steps below use of it.
LEMMA WindowFacts ==
  ASSUME TypeOK, WindowInv
  PROVE  /\ Sub(send_head, recv_head) \in Nat
         /\ Sub(recv_head, recv_head_wb) \in Nat
         /\ Sub(recv_head_wb, send_tail) \in Nat
         /\ Sub(send_head, recv_head_wb)
              = Sub(send_head, recv_head) + Sub(recv_head, recv_head_wb)
         /\ Sub(send_head, recv_head_wb) <= Size
  <1>1. /\ send_head \in Counter /\ send_tail \in Counter
        /\ recv_head \in Counter /\ recv_head_wb \in Counter
    BY DEF TypeOK
  <1>2. \A x, y \in Counter : Sub(x, y) \in Nat
    BY SubType, WordType DEF Counter
  <1>3. Sub(send_head, recv_head) + Sub(recv_head, recv_head_wb) <= Size
    BY <1>1, <1>2, SizeAssumption DEF WindowInv, Outstanding
  <1> QED BY <1>1, <1>2, <1>3, SubAdd

\* The receiver's claimed slot is not the one the sender is filling.
LEMMA ClaimedNotFilled ==
  ASSUME TypeOK, WindowInv, spc # "idle", rpc # "idle"
  PROVE  Slot(send_head) # Claimed
  <1> DEFINE c == Sub(recv_head, 1)
  <1>1. /\ send_head \in Counter /\ recv_head \in Counter
        /\ recv_head_wb \in Counter /\ 1 \in Counter
    BY SubLaws DEF TypeOK
  <1>2. recv_head_wb = c
    <2>1. \A x, y \in Counter : Sub(x, y) = IF x >= y THEN x - y ELSE x - y + Word
      BY SubType
    <2>2. Sub(recv_head, recv_head_wb) = 1
      BY DEF WindowInv
    <2> QED BY <1>1, <2>1, <2>2, WordType DEF Counter
  <1>3. Sub(send_head, recv_head_wb) \in 1 .. Size - 1
    BY WindowFacts, SizeAssumption DEF WindowInv, Outstanding
  <1>4. Slot(send_head) # Slot(recv_head_wb)
    BY <1>1, <1>3, SlotParityAdd, SlotParityType, SizeAssumption DEF Slots
  <1> QED BY <1>2, <1>4 DEF Claimed

LEMMA StepInv == IInv /\ [Next]_vars => IInv'
  <1> SUFFICES ASSUME IInv, [Next]_vars PROVE IInv'
    OBVIOUS
  <1>0. /\ TypeOK /\ WindowInv /\ ParityInv /\ ContentInv
        /\ send_head \in Counter /\ send_tail \in Counter
        /\ recv_head \in Counter /\ recv_head_wb \in Counter
        /\ Slot(send_head) \in Slots /\ Parity(send_head) \in {0, 1}
        /\ Slot(recv_head) \in Slots
    BY SlotParityType DEF IInv, TypeOK
  <1>1. ASSUME NEW m \in Msg, SendFast(m) PROVE IInv'
    <2>1. TypeOK'
      BY <1>0, <1>1 DEF SendFast, TypeOK, receiverVars
    <2>2. WindowInv'
      BY <1>0, <1>1 DEF SendFast, WindowInv, Outstanding, receiverVars
    <2>3. ParityInv' /\ ContentInv'
      BY <1>0, <1>1 DEF SendFast, ParityInv, ContentInv, NoTornMessage, Claimed,
                        receiverVars
    <2> QED BY <2>1, <2>2, <2>3 DEF IInv
  <1>2. ASSUME NEW m \in Msg, SendSlow(m) PROVE IInv'
    <2>1. TypeOK'
      BY <1>0, <1>2 DEF SendSlow, TypeOK, receiverVars
    <2>2. WindowInv'
      <3>1. Sub(recv_head_wb, recv_head_wb) = 0
        BY <1>0, SubLaws
      <3> QED BY <1>0, <1>2, <3>1, WindowFacts, SizeAssumption
              DEF SendSlow, WindowInv, Outstanding, receiverVars
    <2>3. ParityInv' /\ ContentInv'
      BY <1>0, <1>2 DEF SendSlow, ParityInv, ContentInv, NoTornMessage, Claimed,
                        receiverVars
    <2> QED BY <2>1, <2>2, <2>3 DEF IInv
  <1>3. CASE SendCopy
    <2>1. smsg \in Msg
      BY <1>0, <1>3 DEF SendCopy, WindowInv
    <2>2. TypeOK'
      BY <1>0, <1>3, <2>1 DEF SendCopy, TypeOK, receiverVars
    <2>3. WindowInv'
      BY <1>0, <1>3 DEF SendCopy, WindowInv, Outstanding, receiverVars
    <2>4. ParityInv'
      BY <1>0, <1>3 DEF SendCopy, ParityInv, TypeOK, receiverVars
    <2>5. ContentInv'
      <3>1. rpc # "idle" => Slot(send_head) # Claimed
        BY <1>0, <1>3, ClaimedNotFilled DEF SendCopy
      <3>2. Claimed \in Slots
        BY <1>0, SubLaws, SubType, SlotParityType DEF Claimed
      <3> QED BY <1>0, <1>3, <3>1, <3>2
              DEF SendCopy, ContentInv, NoTornMessage, Claimed, TypeOK, receiverVars
    <2> QED BY <2>2, <2>3, <2>4, <2>5 DEF IInv
  <1>4. CASE SendPublish
    <2>0. /\ smsg \in Msg
          /\ send_head' = Inc(send_head) /\ send_head' \in Counter
          /\ UNCHANGED <<send_tail, smsg, recv_head, rpc, rmsg, recv_head_wb>>
          /\ spc = "publish" /\ spc' = "idle"
      BY <1>0, <1>4, IncType DEF SendPublish, WindowInv, receiverVars
    <2>1. TypeOK'
      BY <1>0, <1>4, <2>0 DEF SendPublish, TypeOK
    <2>2. WindowInv'
      <3>1. Sub(send_head, recv_head) < Size /\ Sub(send_head, send_tail) < Size
        BY <1>0, <2>0, WindowFacts, SizeAssumption DEF WindowInv, Outstanding
      <3>2. /\ Sub(send_head', recv_head) = Sub(send_head, recv_head) + 1
            /\ Sub(send_head', send_tail) = Sub(send_head, send_tail) + 1
        BY <1>0, <2>0, <3>1, SubLaws
      <3> QED BY <1>0, <2>0, <3>2, WindowFacts, SizeAssumption
              DEF WindowInv, Outstanding
    <2>3. ParityInv'
      <3>1. Sub(send_head', send_head) = 1
        BY <1>0, <2>0, SubLaws
      <3>2. IF Slot(send_head) + 1 < Size
              THEN /\ Slot(send_head') = Slot(send_head) + 1
                   /\ Parity(send_head') = Parity(send_head)
              ELSE /\ Slot(send_head') = Slot(send_head) + 1 - Size
                   /\ Parity(send_head') = 1 - Parity(send_head)
        BY <1>0, <2>0, <3>1, SlotParityAdd, SizeAssumption
      <3>3. \A j \in Slots : tbl'[j].par = IF j = Slot(send_head)
                                             THEN Parity(send_head) ELSE tbl[j].par
        BY <1>0, <1>4 DEF SendPublish, TypeOK
      <3> QED BY <1>0, <3>2, <3>3, SizeAssumption DEF ParityInv, Slots
    <2>4. ContentInv'
      <3>1. rpc # "idle" => Slot(send_head) # Claimed
        BY <1>0, <2>0, ClaimedNotFilled
      <3>2. Claimed \in Slots
        BY <1>0, SubLaws, SubType, SlotParityType DEF Claimed
      <3>3. \A j \in Slots :
              /\ tbl'[j].data = tbl[j].data
              /\ tbl'[j].cmd = IF j = Slot(send_head) THEN smsg ELSE tbl[j].cmd
        BY <1>0, <1>4 DEF SendPublish, TypeOK
      <3> QED BY <1>0, <2>0, <3>1, <3>2, <3>3
              DEF ContentInv, NoTornMessage, Claimed
    <2> QED BY <2>1, <2>2, <2>3, <2>4 DEF IInv
  <1>5. CASE RecvLoad
    <2>0. /\ recv_head' = Inc(recv_head) /\ recv_head' \in Counter
          /\ UNCHANGED <<tbl, recv_head_wb, send_head, send_tail, spc, smsg>>
          /\ rpc = "idle" /\ rpc' = "copy"
      BY <1>0, <1>5, IncType DEF RecvLoad, senderVars
    <2>1. TypeOK'
      BY <1>0, <1>5, <2>0 DEF RecvLoad, TypeOK
    <2>2. WindowInv'
      <3>1. send_head # recv_head
        <4>1. tbl[Slot(recv_head)].par = Parity(recv_head)
          BY <1>5 DEF RecvLoad, LrpcEmpty
        <4>2. tbl[Slot(send_head)].par = 1 - Parity(send_head)
          BY <1>0 DEF ParityInv, Slots
        <4> QED BY <1>0, <4>1, <4>2
      <3>2. recv_head_wb = recv_head
        BY <1>0, <2>0, SubLaws DEF WindowInv
      <3>3. /\ Sub(send_head, recv_head') = Sub(send_head, recv_head) - 1
            /\ Sub(recv_head', recv_head_wb) = 1
            /\ Sub(recv_head, recv_head_wb) = 0
        BY <1>0, <2>0, <3>1, <3>2, SubLaws
      <3> QED BY <1>0, <2>0, <3>3, WindowFacts, SizeAssumption
              DEF WindowInv, Outstanding
    <2>3. ParityInv'
      BY <1>0, <2>0 DEF ParityInv
    <2>4. ContentInv'
      <3>1. Sub(recv_head', 1) = recv_head
        BY <1>0, <2>0, SubLaws
      <3> QED BY <1>0, <1>5, <2>0, <3>1
              DEF RecvLoad, ContentInv, NoTornMessage, Claimed, TypeOK
    <2> QED BY <2>1, <2>2, <2>3, <2>4 DEF IInv
  <1>6. CASE RecvCopy
    <2>0. Claimed \in Slots
      BY <1>0, SubLaws, SubType, SlotParityType DEF Claimed
    <2>1. TypeOK'
      BY <1>0, <1>6, <2>0 DEF RecvCopy, TypeOK, senderVars
    <2>2. WindowInv'
      BY <1>0, <1>6 DEF RecvCopy, WindowInv, Outstanding, senderVars
    <2>3. ParityInv'
      BY <1>0, <1>6 DEF RecvCopy, ParityInv, senderVars
    <2>4. ContentInv'
      <3>1. spc # "idle" => Slot(send_head) # Claimed
        BY <1>0, <1>6, ClaimedNotFilled DEF RecvCopy
      <3> QED BY <1>0, <1>6, <2>0, <3>1
              DEF RecvCopy, ContentInv, NoTornMessage, TypeOK, senderVars
    <2> QED BY <2>1, <2>2, <2>3, <2>4 DEF IInv
  <1>7. CASE RecvWriteBack
    <2>1. TypeOK'
      BY <1>0, <1>7 DEF RecvWriteBack, TypeOK, senderVars
    <2>2. WindowInv'
      <3>1. /\ Sub(recv_head, recv_head) = 0
            /\ Sub(recv_head, recv_head_wb) + Sub(recv_head_wb, send_tail) <= Size
        BY <1>0, SubLaws, WindowFacts, SizeAssumption DEF WindowInv, Outstanding
      <3>2. Sub(recv_head, send_tail)
              = Sub(recv_head, recv_head_wb) + Sub(recv_head_wb, send_tail)
        BY <1>0, <3>1, SubAdd
      <3> QED BY <1>0, <1>7, <3>1, <3>2, WindowFacts, SizeAssumption
              DEF RecvWriteBack, WindowInv, Outstanding, senderVars
    <2>3. ParityInv' /\ ContentInv'
      BY <1>0, <1>7 DEF RecvWriteBack, ParityInv, ContentInv, NoTornMessage,
                        Claimed, senderVars
    <2> QED BY <2>1, <2>2, <2>3 DEF IInv
  <1>8. CASE UNCHANGED vars
    BY <1>0, <1>8 DEF vars, IInv, TypeOK, WindowInv, Outstanding, ParityInv,
                      ContentInv, NoTornMessage, Claimed
  <1> QED BY <1>1, <1>2, <1>3, <1>4, <1>5, <1>6, <1>7, <1>8 DEF Next, Send, Recv

-----------------------------------------------------------------------------
(* The theorems                                                            *)

\* The table, the counters and the states of lrpc_send() and lrpc_recv() are
\* always well typed and satisfy the invariant that explains the channel.
THEOREM Invariance == Spec => []IInv
  BY InitInv, StepInv, PTL DEF Spec

\* The variables of the two ends of the channel keep their types: counters
\* stay words, and a slot holds a parity bit, a command and a payload.
THEOREM TypeCorrect == Spec => []TypeOK
  <1>1. IInv => TypeOK
    BY DEF IInv
  <1> QED BY <1>1, Invariance, PTL

\* lrpc_recv() only ever returns whole messages.
THEOREM RecvWhole == Spec => []NoTornMessage
  <1>1. IInv => NoTornMessage
    BY DEF IInv, ContentInv
  <1> QED BY <1>1, Invariance, PTL

\* The lock-free payload copies of sender and receiver never overlap.
THEOREM RaceFree == Spec => []NoDataRace
  <1>1. IInv => NoDataRace
    BY ClaimedNotFilled DEF IInv, NoDataRace
  <1> QED BY <1>1, Invariance, PTL

\* No unreceived message is overwritten, and the assertion at lrpc.cc:13 holds.
THEOREM SendSafe == Spec => [](NoOverwrite /\ SlowPathExact)
  <1>1. IInv => NoOverwrite /\ SlowPathExact
    BY WindowFacts, SizeAssumption
       DEF IInv, WindowInv, Outstanding, NoOverwrite, SlowPathExact
  <1> QED BY <1>1, Invariance, PTL

\* lrpc_empty() is exact: the parity test at the receiver's slot fails exactly
\* when no message is outstanding, on every lap and across counter wrap.
THEOREM EmptyExact == Spec => []ParityExact
  <1>1. ASSUME IInv PROVE ParityExact
    <2> DEFINE d == Sub(send_head, recv_head)
    <2>1. /\ send_head \in Counter /\ recv_head \in Counter
          /\ Slot(send_head) \in Slots /\ Parity(send_head) \in {0, 1}
          /\ Slot(recv_head) \in Slots /\ Parity(recv_head) \in {0, 1}
      BY <1>1, SlotParityType DEF IInv, TypeOK
    <2>2. d \in Nat /\ d <= Size /\ (d = 0 <=> send_head = recv_head)
      BY <1>1, <2>1, SubLaws, WindowFacts, SizeAssumption DEF IInv, WindowInv
    <2>3. IF Slot(recv_head) + d < Size
            THEN /\ Slot(send_head) = Slot(recv_head) + d
                 /\ Parity(send_head) = Parity(recv_head)
            ELSE /\ Slot(send_head) = Slot(recv_head) + d - Size
                 /\ Parity(send_head) = 1 - Parity(recv_head)
      BY <2>1, <2>2, SlotParityAdd
    <2>4. tbl[Slot(recv_head)].par = IF Slot(recv_head) < Slot(send_head)
                                       THEN Parity(send_head)
                                       ELSE 1 - Parity(send_head)
      BY <1>1, <2>1 DEF IInv, ParityInv
    <2> HIDE DEF d
    <2> QED BY <2>1, <2>2, <2>3, <2>4, SizeAssumption
            DEF ParityExact, LrpcEmpty, Slots
  <1> QED BY <1>1, Invariance, PTL
=============================================================================
