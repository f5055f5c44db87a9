-------------------------- MODULE TimingWheelLemmas --------------------------
(***************************************************************************)
(* What TimingWheelProofs rests on: the arithmetic of slots, and what an   *)
(* insertion and a removal do to the packets in the buckets.               *)
(***************************************************************************)
EXTENDS TimingWheel, FiniteSetTheorems, TLAPS

Buckets == 0 .. MAX_BUCKETS - 1

\* The packets in the buckets B.
Content(B) == {f \in Frames : \E b \in Buckets : \E i \in DOMAIN B[b] : f = B[b][i]}

-----------------------------------------------------------------------------
(* Arithmetic of slots                                                     *)

LEMMA DivModFacts ==
  ASSUME NEW n \in Nat \ {0}, NEW a \in Nat
  PROVE  /\ a \div n \in Nat
         /\ a % n \in 0 .. n - 1
         /\ a = (a \div n) * n + (a % n)
  OBVIOUS

\* Two slots of one turn of the wheel that share a bucket are the same.
LEMMA SameSlot ==
  ASSUME NEW n \in Nat \ {0}, NEW a \in Nat, NEW s \in Nat, NEW t \in Nat,
         s \in a .. a + n - 1, t \in a .. a + n - 1, s % n = t % n
  PROVE  s = t
  <1> DEFINE p == s \div n
             q == t \div n
  <1>1. /\ p \in Nat /\ q \in Nat /\ s % n \in 0 .. n - 1
        /\ s = p * n + (s % n) /\ t = q * n + (s % n)
    BY Zenon, DivModFacts
  <1>2. s - t = (p - q) * n /\ s - t < n /\ t - s < n
    BY <1>1
  <1> HIDE DEF p, q
  <1>3. CASE p - q >= 1
    <2>1. (p - q) * n >= n
      BY <1>1, <1>3
    <2> QED BY <2>1, <1>2
  <1>4. CASE q - p >= 1
    <2>1. (q - p) * n >= n /\ (q - p) * n = t - s
      BY <1>1, <1>2, <1>4
    <2> QED BY <2>1, <1>2
  <1>5. CASE p = q
    BY <1>5, <1>1
  <1> QED BY <1>1, <1>3, <1>4, <1>5

LEMMA SlotMonotone ==
  ASSUME NEW a \in Nat, NEW b \in Nat, a <= b
  PROVE  Slot(a) \in Nat /\ Slot(b) \in Nat /\ Slot(a) <= Slot(b)
  <1> DEFINE w == SLOT_WIDTH_NS
             p == a \div w
             q == b \div w
  <1>1. /\ w \in Nat \ {0} /\ p \in Nat /\ q \in Nat
        /\ a % w \in 0 .. w - 1 /\ b % w \in 0 .. w - 1
        /\ a = p * w + (a % w) /\ b = q * w + (b % w)
    BY WheelAssumption, DivModFacts
  <1>2. SUFFICES ASSUME p > q
                 PROVE  FALSE
    BY <1>1 DEF Slot
  <1> HIDE DEF p, q, w
  <1>3. (p - q) * w >= w
    BY <1>1, <1>2
  <1>4. a - b = (p - q) * w + (a % w) - (b % w)
    BY <1>1
  <1> QED BY <1>1, <1>3, <1>4

LEMMA FirstSlot ==
  ASSUME NEW a \in Nat, a >= SLOT_WIDTH_NS
  PROVE  Slot(a) \in Nat \ {0}
  <1>1. Slot(SLOT_WIDTH_NS) = 1
    BY WheelAssumption DEF Slot
  <1> QED BY <1>1, SlotMonotone, WheelAssumption

LEMMA BucketOf ==
  ASSUME NEW s \in Nat
  PROVE  s % MAX_BUCKETS \in Buckets
  BY WheelAssumption, DivModFacts DEF Buckets

LEMMA ClampRange ==
  ASSUME NEW f \in Nat, NEW ts \in Nat
  PROVE  /\ Clamp(f, ts) \in f .. f + MAX_BUCKETS - 1
         /\ Clamp(f, ts) \in Nat
  BY WheelAssumption DEF Clamp

-----------------------------------------------------------------------------
(* The packets of the wheel, as positions of its buckets                   *)

LEMMA ContentUnion ==
  ASSUME NEW B \in [Buckets -> Seq(Frames)]
  PROVE  UNION {{B[b][i] : i \in DOMAIN B[b]} : b \in DOMAIN B} = Content(B)
  <1>1. \A b \in Buckets : \A i \in DOMAIN B[b] : B[b][i] \in Frames
    OBVIOUS
  <1>2. DOMAIN B = Buckets
    OBVIOUS
  <1>3. ASSUME NEW g
        PROVE  g \in UNION {{B[b][i] : i \in DOMAIN B[b]} : b \in DOMAIN B}
                 <=> \E b \in Buckets : \E i \in DOMAIN B[b] : g = B[b][i]
    BY <1>2
  <1>4. ASSUME NEW g
        PROVE  g \in Content(B) <=> \E b \in Buckets : \E i \in DOMAIN B[b] : g = B[b][i]
    BY <1>1 DEF Content
  <1> QED BY <1>3, <1>4

LEMMA ContentHeld ==
  ASSUME TypeOK
  PROVE  Held = Content(bucket)
  BY WheelAssumption DEF TypeOK, Held, Content, Buckets

\* A packet put at the end of a bucket: the positions before and after.
LEMMA Inserted ==
  ASSUME NEW B \in [Buckets -> Seq(Frames)], NEW b \in Buckets, NEW f \in Frames
  PROVE  LET C == [B EXCEPT ![b] = Append(@, f)] IN
         /\ C \in [Buckets -> Seq(Frames)]
         /\ Len(B[b]) + 1 \in DOMAIN C[b] /\ C[b][Len(B[b]) + 1] = f
         /\ \A x \in Buckets : \A i \in DOMAIN B[x] :
              i \in DOMAIN C[x] /\ C[x][i] = B[x][i]
         /\ \A x \in Buckets : \A i \in DOMAIN C[x] :
              \/ i \in DOMAIN B[x] /\ C[x][i] = B[x][i]
              \/ x = b /\ i = Len(B[b]) + 1
  OBVIOUS

\* A packet taken from the front of a bucket.
LEMMA Removed ==
  ASSUME NEW B \in [Buckets -> Seq(Frames)], NEW b \in Buckets, B[b] # <<>>
  PROVE  LET C == [B EXCEPT ![b] = Tail(@)] IN
         /\ C \in [Buckets -> Seq(Frames)]
         /\ 1 \in DOMAIN B[b] /\ B[b][1] = Head(B[b]) /\ Head(B[b]) \in Frames
         /\ \A x \in Buckets \ {b} : C[x] = B[x]
         /\ \A i \in DOMAIN C[b] : i + 1 \in DOMAIN B[b] /\ C[b][i] = B[b][i + 1]
         /\ \A j \in DOMAIN B[b] : j # 1 =>
              j - 1 \in DOMAIN C[b] /\ C[b][j - 1] = B[b][j]
  OBVIOUS

LEMMA ContentInserted ==
  ASSUME NEW B \in [Buckets -> Seq(Frames)], NEW b \in Buckets, NEW f \in Frames
  PROVE  Content([B EXCEPT ![b] = Append(@, f)]) = Content(B) \cup {f}
  <1> DEFINE C == [B EXCEPT ![b] = Append(@, f)]
  <1>1. /\ Len(B[b]) + 1 \in DOMAIN C[b] /\ C[b][Len(B[b]) + 1] = f
        /\ \A x \in Buckets : \A i \in DOMAIN B[x] :
             i \in DOMAIN C[x] /\ C[x][i] = B[x][i]
        /\ \A x \in Buckets : \A i \in DOMAIN C[x] :
             \/ i \in DOMAIN B[x] /\ C[x][i] = B[x][i]
             \/ x = b /\ i = Len(B[b]) + 1
    BY Inserted
  <1> HIDE DEF C
  <1>2. Content(C) = Content(B) \cup {f}
    BY <1>1 DEF Content
  <1> QED BY Zenon, <1>2 DEF C

\* No packet is in two places.
DistinctIn(B) ==
  \A x, y \in Buckets : \A i \in DOMAIN B[x] : \A j \in DOMAIN B[y] :
    B[x][i].conn = B[y][j].conn /\ B[x][i].n = B[y][j].n => x = y /\ i = j

LEMMA ContentRemoved ==
  ASSUME NEW B \in [Buckets -> Seq(Frames)], NEW b \in Buckets, B[b] # <<>>,
         DistinctIn(B)
  PROVE  /\ Content([B EXCEPT ![b] = Tail(@)]) = Content(B) \ {Head(B[b])}
         /\ Head(B[b]) \in Content(B)
  <1> DEFINE C == [B EXCEPT ![b] = Tail(@)]
             f == Head(B[b])
  <1>1. /\ 1 \in DOMAIN B[b] /\ B[b][1] = f /\ f \in Frames
        /\ \A x \in Buckets \ {b} : C[x] = B[x]
        /\ \A i \in DOMAIN C[b] : i + 1 \in DOMAIN B[b] /\ C[b][i] = B[b][i + 1]
        /\ \A j \in DOMAIN B[b] : j # 1 =>
             j - 1 \in DOMAIN C[b] /\ C[b][j - 1] = B[b][j]
    BY Removed
  <1>0. \A i \in DOMAIN C[b] : i + 1 # 1
    BY DEF C
  <1> HIDE DEF C, f
  <1>2. \A x \in Buckets : \A i \in DOMAIN B[x] :
          B[x][i] = f => x = b /\ i = 1
    BY <1>1 DEF DistinctIn
  <1>3. ASSUME NEW g \in Content(C)
        PROVE  g \in Content(B) /\ g # f
    <2>1. PICK x \in Buckets : \E i \in DOMAIN C[x] : g = C[x][i]
      BY DEF Content
    <2>2. PICK i \in DOMAIN C[x] : g = C[x][i]
      BY <2>1
    <2>3. CASE x = b
      <3>1. i + 1 \in DOMAIN B[b] /\ g = B[b][i + 1] /\ i + 1 # 1
        BY <1>0, <1>1, <2>2, <2>3
      <3> QED BY <3>1, <1>2 DEF Content
    <2>4. CASE x # b
      BY <2>2, <2>4, <1>1, <1>2 DEF Content
    <2> QED BY <2>3, <2>4
  <1>4. ASSUME NEW g \in Content(B), g # f
        PROVE  g \in Content(C)
    <2>1. PICK x \in Buckets : \E i \in DOMAIN B[x] : g = B[x][i]
      BY DEF Content
    <2>2. PICK i \in DOMAIN B[x] : g = B[x][i]
      BY <2>1
    <2>3. CASE x = b
      BY <1>1, <1>4, <2>2, <2>3 DEF Content
    <2>4. CASE x # b
      BY <2>2, <2>4, <1>1 DEF Content
    <2> QED BY <2>3, <2>4
  <1>5. f \in Content(B)
    BY <1>1 DEF Content
  <1>6. Content(C) = Content(B) \ {f}
    BY <1>3, <1>4
  <1> QED BY Zenon, <1>5, <1>6 DEF C, f

=============================================================================
