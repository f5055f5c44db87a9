-------------------------- MODULE TimingWheelOrder ---------------------------
(***************************************************************************)
(* The packets of a connection leave TimingWheel in the order in which     *)
(* they were submitted: a second invariant on top of that of               *)
(* TimingWheelProofs.                                                      *)
(***************************************************************************)
EXTENDS TimingWheelProofs

\* What has reached the wire precedes what is in the wheel.
Ahead ==
  /\ \A c \in Conns : last[c] <= sub[c]
  /\ \A b \in Buckets : \A i \in DOMAIN bucket[b] :
       bucket[b][i].n > last[bucket[b][i].conn]

\* The next packet of a connection gets no earlier slot than those in the wheel.
NotBeyond ==
  \A b \in Buckets : \A i \in DOMAIN bucket[b] :
    bucket[b][i].slot <= Later(front, Slot(prev[bucket[b][i].conn]))

\* The wheel keeps the packets of a connection in the order of their numbers.
Sequenced ==
  \A x, y \in Buckets : \A i \in DOMAIN bucket[x] : \A j \in DOMAIN bucket[y] :
    bucket[x][i].conn = bucket[y][j].conn /\ bucket[x][i].n < bucket[y][j].n =>
      bucket[x][i].slot < bucket[y][j].slot \/ (x = y /\ i < j)

OrderInv == Ahead /\ NotBeyond /\ Sequenced

LEMMA InitOrder == Init => OrderInv
  BY DEF Init, OrderInv, Ahead, NotBeyond, Sequenced, Buckets

LEMMA LaterMonotone ==
  ASSUME NEW a \in Nat, NEW b \in Nat, NEW x \in Nat, NEW y \in Nat, a <= b, x <= y
  PROVE  Later(a, x) \in Nat /\ Later(b, y) \in Nat /\ Later(a, x) <= Later(b, y)
  BY DEF Later

\* Times only move on.
LEMMA BeyondMonotone ==
  ASSUME TypeOK, TypeOK', NotBeyond, bucket' = bucket, front' >= front,
         \A c \in Conns : prev'[c] >= prev[c]
  PROVE  NotBeyond'
  <1> SUFFICES ASSUME NEW b \in Buckets, NEW i \in DOMAIN bucket[b]
               PROVE  bucket[b][i].slot <= Later(front', Slot(prev'[bucket[b][i].conn]))
    BY DEF NotBeyond, Slot, Later
  <1> DEFINE c == bucket[b][i].conn
             p == prev[c]
             q == prev'[c]
  <1>1. c \in Conns /\ bucket[b][i].slot \in Nat
    BY FrameType
  <1>2. p \in Nat /\ q \in Nat /\ p <= q
    BY SMTT(30), <1>1 DEF TypeOK
  <1>3. Slot(p) \in Nat /\ Slot(q) \in Nat /\ Slot(p) <= Slot(q)
    BY <1>2, SlotMonotone
  <1>4. bucket[b][i].slot <= Later(front, Slot(p))
    BY DEF NotBeyond
  <1> HIDE DEF p, q
  <1>5. bucket[b][i].slot <= Later(front', Slot(q))
    <2>1. front \in Nat /\ front' \in Nat
      BY DEF TypeOK
    <2>2. /\ Later(front, Slot(p)) <= Later(front', Slot(q))
          /\ Later(front, Slot(p)) \in Nat /\ Later(front', Slot(q)) \in Nat
      BY Zenon, <1>3, <2>1, LaterMonotone
    <2> QED BY <1>1, <1>4, <2>2
  <1> QED BY <1>5 DEF q, c

LEMMA SameOrder ==
  ASSUME TypeOK, TypeOK', OrderInv, bucket' = bucket, front' >= front,
         last' = last, sub' = sub, \A c \in Conns : prev'[c] >= prev[c]
  PROVE  OrderInv'
  <1>1. NotBeyond'
    BY BeyondMonotone DEF OrderInv
  <1> QED BY <1>1 DEF OrderInv, Ahead, Sequenced

\* With no packet of the length zero in time, only an empty wheel is bypassed.
LEMMA BypassEmpty ==
  ASSUME 0 \notin Deltas, Inv, NEW c \in Conns, NEW delta \in Deltas,
         NEW alone \in BOOLEAN, cb.pc = "off",
         Bypass(delta, alone, cc_get_desired_tx_ts(c, delta))
  PROVE  \A b \in Buckets : DOMAIN bucket[b] = {}
  <1>1. nr = 0
    <2> SUFFICES ASSUME nr # 0 PROVE FALSE
      OBVIOUS
    <2>1. nr > 0 /\ has_kick
      BY DEF Inv, TypeOK, NeverStalled
    <2>2. cc_get_desired_tx_ts(c, delta) <= ref_ts /\ ref_ts = 0
      BY <2>1 DEF Bypass, ref_ts
    <2>3. delta > 0 /\ prev[c] \in Nat
      BY TimeAssumption DEF Inv, TypeOK
    <2>4. cc_get_desired_tx_ts(c, delta) \in Nat
          /\ cc_get_desired_tx_ts(c, delta) >= prev[c] + delta /\ delta \in Nat
      BY DesiredType DEF Inv
    <2> DEFINE d == cc_get_desired_tx_ts(c, delta)
    <2> HIDE DEF d
    <2> QED BY <2>2, <2>3, <2>4
  <1>2. Held = {}
    <2>1. Cardinality(Held) \in Nat /\ lost \in Nat /\ 0 = Cardinality(Held) + lost
      BY <1>1, FS_CardinalityType DEF Inv, CountExact, TypeOK
    <2>2. Cardinality(Held) = 0
      BY <2>1
    <2> QED BY <2>2, FS_EmptySet DEF Inv
  <1>3. Held = Content(bucket)
    BY ContentHeld DEF Inv
  <1> SUFFICES ASSUME NEW b \in Buckets, NEW i \in DOMAIN bucket[b]
               PROVE  FALSE
    OBVIOUS
  <1>4. bucket[b][i] \in Content(bucket)
    BY FrameType DEF Inv, Content
  <1> QED BY <1>2, <1>3, <1>4

LEMMA BypassOrder ==
  ASSUME 0 \notin Deltas, Inv, OrderInv, NEW c \in Conns, NEW delta \in Deltas,
         NEW alone \in BOOLEAN, tcp_tx_process(c, delta, alone),
         Bypass(delta, alone, cc_get_desired_tx_ts(c, delta)),
         last' = [last EXCEPT ![c] = sub[c] + 1], bucket' = bucket
  PROVE  OrderInv' /\ \A d \in Conns : last'[d] >= last[d]
  <1>1. \A b \in Buckets : DOMAIN bucket'[b] = {}
    BY BypassEmpty DEF tcp_tx_process
  <1>2. /\ sub \in [Conns -> Nat] /\ last \in [Conns -> Nat]
        /\ sub' = [sub EXCEPT ![c] = @ + 1]
    BY DEF Inv, TypeOK, tcp_tx_process
  <1>3. \A d \in Conns : last[d] <= sub[d]
    BY DEF OrderInv, Ahead
  <1>4. \A d \in Conns : last'[d] <= sub'[d] /\ last'[d] >= last[d]
    BY <1>2, <1>3
  <1> QED BY <1>1, <1>4 DEF OrderInv, Ahead, NotBeyond, Sequenced

\* The slot of a new packet is no earlier than one in the wheel that respects
\* the bound of NotBeyond.
LEMMA ClampAfter ==
  ASSUME NEW f \in Nat, NEW s \in Nat, NEW p \in Nat, NEW t \in Nat, p <= t,
         s <= Later(f, p), s <= f + MAX_BUCKETS - 1
  PROVE  s <= Clamp(f, t)
  BY WheelAssumption DEF Later, Clamp

LEMMA ClampUnder ==
  ASSUME NEW f \in Nat, NEW t \in Nat
  PROVE  Clamp(f, t) <= Later(f, t)
  BY WheelAssumption DEF Later, Clamp

LEMMA InsertOrder ==
  ASSUME Inv, Inv', OrderInv, NEW c \in Conns, NEW delta \in Deltas,
         NEW alone \in BOOLEAN, tcp_tx_process(c, delta, alone),
         tw_insert(c, cc_get_desired_tx_ts(c, delta)), UNCHANGED last
  PROVE  OrderInv'
  <1> DEFINE desired == cc_get_desired_tx_ts(c, delta)
             t == Slot(desired)
             slot == Clamp(front', t)
             b == slot % MAX_BUCKETS
             frame == [conn |-> c, n |-> sub[c] + 1, slot |-> slot]
             put == bucket' = [bucket EXCEPT ![b] = Append(@, frame)]
  <1>1. /\ desired \in Nat /\ desired >= prev[c] + delta /\ delta \in Nat
        /\ ref_ts \in Nat
    BY SMTT(30), DesiredType DEF Inv
  <1>2. /\ front' \in Nat \ {0} /\ front' >= front
        /\ front = 0 \/ front' = front
        /\ slot \in front' .. front' + MAX_BUCKETS - 1
        /\ b \in Buckets /\ frame \in Frames
        /\ bucket' = bucket \/ put
    BY <1>1, InsertFacts
  <1>3. /\ bucket \in [Buckets -> Seq(Frames)] /\ front \in Nat
        /\ prev \in [Conns -> Nat] /\ prev' \in [Conns -> Nat]
        /\ sub \in [Conns -> Nat] /\ last \in [Conns -> Nat]
        /\ sub' \in [Conns -> Nat] /\ sub'[c] = sub[c] + 1
    BY SMTT(30) DEF Inv, TypeOK, Buckets, tcp_tx_process
  <1>4. prev' = [prev EXCEPT ![c] = Later(ref_ts, desired + delta)]
    BY DEF tcp_tx_process
  <1>5. frame.conn = c /\ frame.n = sub[c] + 1 /\ frame.slot = slot
    OBVIOUS
  <1> HIDE DEF desired
  <1>6. prev'[c] >= desired /\ desired >= prev[c]
    <2>1. Later(ref_ts, desired + delta) >= desired
      BY <1>1 DEF Later
    <2>2. desired >= prev[c]
      BY <1>1, <1>3
    <2> QED BY <2>1, <2>2, <1>3, <1>4
  <1>7. \A d \in Conns : prev'[d] >= prev[d]
    BY SMTT(30), <1>1, <1>3, <1>4, <1>6
  <1>8. /\ t \in Nat /\ Slot(prev[c]) \in Nat /\ Slot(prev'[c]) \in Nat
        /\ Slot(prev[c]) <= t /\ t <= Slot(prev'[c])
    <2>1. prev[c] \in Nat /\ prev'[c] \in Nat
      BY <1>3
    <2> QED BY <2>1, <1>1, <1>6, SlotMonotone
  <1> HIDE DEF t, slot, frame
  <1>9. ASSUME put
        PROVE  \A x \in Buckets : \A i \in DOMAIN bucket'[x] :
                 \/ i \in DOMAIN bucket[x] /\ bucket'[x][i] = bucket[x][i]
                 \/ x = b /\ i = Len(bucket[b]) + 1 /\ bucket'[x][i] = frame
    <2>1. b \in Buckets /\ frame \in Frames
      BY <1>2
    <2> HIDE DEF b
    <2> QED BY <2>1, <1>3, <1>9, Inserted
  <1> HIDE DEF b, put
  <1>10. \A x \in Buckets : \A i \in DOMAIN bucket'[x] :
           \/ i \in DOMAIN bucket[x] /\ bucket'[x][i] = bucket[x][i]
           \/ x = b /\ i = Len(bucket[b]) + 1 /\ bucket'[x][i] = frame
    BY <1>2, <1>9
  <1>11. Ahead'
    <2>1. \A d \in Conns : last'[d] <= sub'[d]
      <3>1. \A d \in Conns : last[d] <= sub[d]
        BY DEF OrderInv, Ahead
      <3>2. \A d \in Conns : sub'[d] >= sub[d]
        BY ProcessTypes
      <3> QED BY <3>1, <3>2, <1>3
    <2>2. ASSUME NEW x \in Buckets, NEW i \in DOMAIN bucket'[x]
          PROVE  bucket'[x][i].n > last[bucket'[x][i].conn]
      <3>1. CASE i \in DOMAIN bucket[x] /\ bucket'[x][i] = bucket[x][i]
        BY <3>1 DEF OrderInv, Ahead
      <3>2. CASE bucket'[x][i] = frame
        <4>1. last[c] <= sub[c] /\ last[c] \in Nat /\ sub[c] \in Nat
          BY <1>3 DEF OrderInv, Ahead
        <4> QED BY <4>1, <3>2, <1>5
      <3> QED BY <3>1, <3>2, <1>10
    <2> QED BY <2>1, <2>2 DEF Ahead
  <1>12. ASSUME NEW x \in Buckets, NEW i \in DOMAIN bucket[x]
         PROVE  /\ front' = front /\ bucket[x][i].slot \in Nat
                /\ bucket[x][i].conn \in Conns /\ bucket[x][i].n \in Nat
                /\ bucket[x][i].n <= sub[bucket[x][i].conn]
                /\ bucket[x][i].slot <= front + MAX_BUCKETS - 1
                /\ bucket[x][i].slot % MAX_BUCKETS = x
                /\ bucket[x][i].slot <= Later(front, Slot(prev[bucket[x][i].conn]))
    <2>1. /\ bucket[x][i].conn \in Conns /\ bucket[x][i].n \in Nat
          /\ bucket[x][i].slot \in Nat
      BY FrameType DEF Inv
    <2>2. front' = front
      BY <1>2, HoldsStarted
    <2>3. /\ bucket[x][i].slot \in front .. front + MAX_BUCKETS - 1
          /\ bucket[x][i].slot % MAX_BUCKETS = x
      BY <1>3 DEF Inv, OneTurn
    <2>4. bucket[x][i].slot <= front + MAX_BUCKETS - 1
      BY <2>3
    <2>5. bucket[x][i].n <= sub[bucket[x][i].conn]
      BY DEF Inv, Numbered
    <2>6. bucket[x][i].slot <= Later(front, Slot(prev[bucket[x][i].conn]))
      BY SMTT(30) DEF OrderInv, NotBeyond
    <2> QED BY <2>1, <2>2, <2>3, <2>4, <2>5, <2>6, Zenon
  <1>13. NotBeyond'
    <2>1. ASSUME NEW x \in Buckets, NEW i \in DOMAIN bucket'[x]
          PROVE  bucket'[x][i].slot <= Later(front', Slot(prev'[bucket'[x][i].conn]))
      <3>1. CASE i \in DOMAIN bucket[x] /\ bucket'[x][i] = bucket[x][i]
        <4> DEFINE d == bucket[x][i].conn
                   s == bucket[x][i].slot
        <4>1. d \in Conns /\ s \in Nat /\ front' = front /\ s <= Later(front, Slot(prev[d]))
          BY <3>1, <1>12
        <4>2. prev[d] \in Nat /\ prev'[d] \in Nat /\ prev[d] <= prev'[d]
          BY SMTT(30), <4>1, <1>3, <1>7
        <4>3. /\ Slot(prev[d]) \in Nat /\ Slot(prev'[d]) \in Nat
              /\ Slot(prev[d]) <= Slot(prev'[d])
          BY <4>2, SlotMonotone
        <4> DEFINE p == Slot(prev[d])
                   q == Slot(prev'[d])
        <4>4. s <= Later(front, q)
          <5>1. s \in Nat /\ s <= Later(front, p) /\ p \in Nat /\ q \in Nat /\ p <= q
            BY <4>1, <4>3
          <5>2. front \in Nat /\ front <= front
            BY <1>3
          <5> HIDE DEF p, q, s
          <5>3. /\ Later(front, p) \in Nat /\ Later(front, q) \in Nat
                /\ Later(front, p) <= Later(front, q)
            BY Zenon, <5>1, <5>2, LaterMonotone
          <5> QED BY SMTT(30), <5>1, <5>3
        <4> QED BY SMTT(30), <3>1, <4>1, <4>4
      <3>2. CASE bucket'[x][i] = frame
        <4> DEFINE q == Slot(prev'[c])
                   g == front'
        <4>1. g \in Nat /\ g <= g /\ t \in Nat /\ q \in Nat /\ t <= q
          BY <1>2, <1>8
        <4>2. slot = Clamp(g, t) /\ slot \in Nat
          BY <1>2 DEF slot
        <4> HIDE DEF q, g
        <4>3. slot <= Later(g, t)
          BY <4>1, <4>2, ClampUnder
        <4>4. Later(g, t) <= Later(g, q) /\ Later(g, t) \in Nat /\ Later(g, q) \in Nat
          BY Zenon, <4>1, LaterMonotone
        <4>5. slot <= Later(g, q)
          BY <4>2, <4>3, <4>4
        <4> QED BY <3>2, <4>5, <1>5 DEF g, q
      <3> QED BY SMTT(30), <3>1, <3>2, <1>10
    <2> QED BY <2>1 DEF NotBeyond, Later, Slot
  <1>14. ASSUME NEW x \in Buckets, NEW i \in DOMAIN bucket[x], bucket[x][i].conn = c
         PROVE  /\ bucket[x][i].n < frame.n
                /\ bucket[x][i].slot < slot \/ (x = b /\ i < Len(bucket[b]) + 1)
    <2> DEFINE s == bucket[x][i].slot
    <2>1. bucket[x][i].n < frame.n
      <3>1. bucket[x][i].n \in Nat /\ bucket[x][i].n <= sub[c] /\ sub[c] \in Nat
        BY SMTT(30), <1>3, <1>12, <1>14
      <3> QED BY <3>1, <1>5
    <2>2. /\ s \in Nat /\ front' = front /\ s <= Later(front, Slot(prev[c]))
          /\ s <= front + MAX_BUCKETS - 1 /\ s % MAX_BUCKETS = x
      BY <1>12, <1>14
    <2> HIDE DEF s
    <2>3. s <= slot
      <3>1. s <= Clamp(front, t)
        BY <2>2, <1>3, <1>8, ClampAfter
      <3> QED BY <3>1, <2>2 DEF slot
    <2>4. slot \in Nat
      BY <1>2
    <2>5. CASE s = slot
      <3>1. x = b
        BY <2>2, <2>5 DEF b
      <3>2. i < Len(bucket[b]) + 1
        BY <3>1, <1>2, <1>3
      <3> QED BY <3>1, <3>2, <2>1
    <2>6. CASE s < slot
      BY <2>1, <2>6 DEF s
    <2>7. s = slot \/ s < slot
      BY <2>2, <2>3, <2>4
    <2> QED BY <2>5, <2>6, <2>7
  <1>15. Sequenced'
    <2> SUFFICES ASSUME NEW x \in Buckets, NEW y \in Buckets,
                        NEW i \in DOMAIN bucket'[x], NEW j \in DOMAIN bucket'[y],
                        bucket'[x][i].conn = bucket'[y][j].conn,
                        bucket'[x][i].n < bucket'[y][j].n
                 PROVE  \/ bucket'[x][i].slot < bucket'[y][j].slot
                        \/ x = y /\ i < j
      BY DEF Sequenced
    <2>1. CASE /\ i \in DOMAIN bucket[x] /\ bucket'[x][i] = bucket[x][i]
               /\ j \in DOMAIN bucket[y] /\ bucket'[y][j] = bucket[y][j]
      BY <2>1 DEF OrderInv, Sequenced
    <2>2. CASE /\ i \in DOMAIN bucket[x] /\ bucket'[x][i] = bucket[x][i]
               /\ y = b /\ j = Len(bucket[b]) + 1 /\ bucket'[y][j] = frame
      BY <2>2, <1>5, <1>14
    <2>3. CASE /\ bucket'[x][i] = frame
               /\ j \in DOMAIN bucket[y] /\ bucket'[y][j] = bucket[y][j]
      <3> DEFINE m == bucket[y][j].n
                 n == frame.n
      <3>1. m < n /\ m \in Nat /\ n \in Nat /\ n < m
        BY SMTT(30), <2>3, <1>3, <1>5, <1>12, <1>14
      <3> HIDE DEF m, n
      <3>2. FALSE
        BY <3>1
      <3> QED BY SMTT(30), <3>2
    <2>4. CASE bucket'[x][i] = frame /\ bucket'[y][j] = frame
      <3> DEFINE n == frame.n
      <3>1. n < n /\ n \in Nat
        BY <2>4, <1>3, <1>5
      <3> HIDE DEF n
      <3>2. FALSE
        BY <3>1
      <3> QED BY <3>2
    <2> QED BY <2>1, <2>2, <2>3, <2>4, <1>10
  <1> QED BY <1>11, <1>13, <1>15 DEF OrderInv

LEMMA SendOrder ==
  ASSUME Inv, Inv', OrderInv, SendPacket
  PROVE  OrderInv' /\ \A d \in Conns : last'[d] >= last[d]
  <1> DEFINE f == Head(bucket[Current])
  <1>0. /\ bucket \in [Buckets -> Seq(Frames)] /\ front \in Nat
        /\ last \in [Conns -> Nat] /\ sub \in [Conns -> Nat]
    BY DEF Inv, TypeOK, Buckets
  <1>1. Current \in Buckets
    BY <1>0, BucketOf DEF Current
  <1>2. /\ bucket[Current] # <<>> /\ bucket' = [bucket EXCEPT ![Current] = Tail(@)]
        /\ front' = front /\ prev' = prev /\ sub' = sub
        /\ last' = last \/ last' = [last EXCEPT ![f.conn] = f.n]
    BY DEF SendPacket
  <1>3. /\ bucket' \in [Buckets -> Seq(Frames)]
        /\ 1 \in DOMAIN bucket[Current] /\ bucket[Current][1] = f /\ f \in Frames
        /\ \A x \in Buckets \ {Current} : bucket'[x] = bucket[x]
        /\ \A i \in DOMAIN bucket'[Current] :
             i + 1 \in DOMAIN bucket[Current] /\ bucket'[Current][i] = bucket[Current][i + 1]
    BY <1>0, <1>1, <1>2, Removed
  <1>4. f.conn \in Conns /\ f.n \in Nat
    BY SMTT(30), <1>3 DEF Frames
  <1>5. f.n > last[f.conn] /\ f.n <= sub[f.conn] /\ f.slot = front
    BY <1>1, <1>3, FrontSlot DEF OrderInv, Ahead, Inv, Numbered
  <1> HIDE DEF f
  <1>6. \A x \in Buckets : \A i \in DOMAIN bucket'[x] :
          \E j \in DOMAIN bucket[x] :
            bucket'[x][i] = bucket[x][j] /\ j = IF x = Current THEN i + 1 ELSE i
    BY <1>1, <1>3
  <1>7. \A d \in Conns : last[d] <= sub[d]
    BY DEF OrderInv, Ahead
  <1>8. \A d \in Conns : last'[d] >= last[d] /\ last'[d] <= sub'[d]
    BY SMTT(30), <1>0, <1>2, <1>4, <1>5, <1>7
  <1>9. ASSUME NEW x \in Buckets, NEW i \in DOMAIN bucket'[x]
        PROVE  bucket'[x][i].n > last'[bucket'[x][i].conn]
    <2>1. i \in Nat /\ i >= 1
      BY <1>3
    <2>2. PICK j \in DOMAIN bucket[x] :
            bucket'[x][i] = bucket[x][j] /\ j = IF x = Current THEN i + 1 ELSE i
      BY <1>6
    <2> DEFINE g == bucket[x][j]
    <2>3. /\ g.conn \in Conns /\ g.n \in Nat /\ g.slot \in Nat
      BY FrameType DEF Inv
    <2>4. g.n > last[g.conn]
      BY DEF OrderInv, Ahead
    <2>5. g.slot >= front
      BY <1>0 DEF Inv, OneTurn
    <2>6. ~ (x = Current /\ j = 1)
      BY <2>1, <2>2
    <2>7. g.conn = f.conn => g.n > f.n
      <3> SUFFICES ASSUME g.conn = f.conn, ~ (g.n > f.n) PROVE FALSE
        OBVIOUS
      <3>1. CASE g.n = f.n
        BY <3>1, <2>6, <1>1, <1>3 DEF Inv, DistinctIn
      <3>2. CASE g.n < f.n
        <4>1. g.slot < f.slot \/ (x = Current /\ j < 1)
          BY SMTT(30), <3>2, <1>1, <1>3 DEF OrderInv, Sequenced
        <4>2. j >= 1
          BY <2>1, <2>2
        <4> QED BY SMTT(30), <4>1, <4>2, <2>3, <2>5, <1>0, <1>5, <2>1, <2>2
      <3> QED BY <3>1, <3>2, <2>3, <1>4
    <2> HIDE DEF g
    <2>8. g.n > last'[g.conn]
      BY <2>3, <2>4, <2>7, <1>0, <1>2, <1>4
    <2> QED BY <2>2, <2>8 DEF g
  <1>10. Ahead'
    BY <1>8, <1>9 DEF Ahead
  <1>11. NotBeyond'
    <2>1. ASSUME NEW x \in Buckets, NEW i \in DOMAIN bucket'[x]
          PROVE  bucket'[x][i].slot <= Later(front, Slot(prev[bucket'[x][i].conn]))
      <3>1. PICK j \in DOMAIN bucket[x] : bucket'[x][i] = bucket[x][j]
        BY <1>6
      <3>2. bucket[x][j].slot <= Later(front, Slot(prev[bucket[x][j].conn]))
        BY DEF OrderInv, NotBeyond
      <3> QED BY <3>1, <3>2
    <2> QED BY <2>1, <1>2 DEF NotBeyond, Later, Slot
  <1>12. Sequenced'
    <2> SUFFICES ASSUME NEW x \in Buckets, NEW y \in Buckets,
                        NEW i \in DOMAIN bucket'[x], NEW j \in DOMAIN bucket'[y],
                        bucket'[x][i].conn = bucket'[y][j].conn,
                        bucket'[x][i].n < bucket'[y][j].n
                 PROVE  \/ bucket'[x][i].slot < bucket'[y][j].slot
                        \/ x = y /\ i < j
      BY DEF Sequenced
    <2>1. i \in Nat /\ j \in Nat
      BY <1>3
    <2>2. PICK k \in DOMAIN bucket[x] :
            bucket'[x][i] = bucket[x][k] /\ k = IF x = Current THEN i + 1 ELSE i
      BY <1>6
    <2>3. PICK l \in DOMAIN bucket[y] :
            bucket'[y][j] = bucket[y][l] /\ l = IF y = Current THEN j + 1 ELSE j
      BY <1>6
    <2>4. bucket[x][k].slot < bucket[y][l].slot \/ (x = y /\ k < l)
      BY SMTT(30), <2>2, <2>3 DEF OrderInv, Sequenced
    <2> QED BY <2>1, <2>2, <2>3, <2>4
  <1> QED BY <1>8, <1>10, <1>11, <1>12 DEF OrderInv

\* A step keeps the order and never goes back on the wire.
LEMMA NextOrder ==
  ASSUME 0 \notin Deltas, Inv, Inv', OrderInv, [Next]_vars
  PROVE  OrderInv' /\ \A d \in Conns : last'[d] >= last[d]
  <1>0. TypeOK /\ TypeOK' /\ front \in Nat /\ last \in [Conns -> Nat] /\ prev \in [Conns -> Nat]
    BY SMTT(30) DEF Inv, TypeOK
  <1>1. ASSUME bucket' = bucket, front' >= front, last' = last, sub' = sub,
               \A c \in Conns : prev'[c] >= prev[c]
        PROVE  OrderInv' /\ \A d \in Conns : last'[d] >= last[d]
    BY <1>0, <1>1, SameOrder
  <1>2. ASSUME bucket' = bucket, front' = front, last' = last, sub' = sub, prev' = prev
        PROVE  OrderInv' /\ \A d \in Conns : last'[d] >= last[d]
    BY <1>0, <1>1, <1>2
  <1>3. ASSUME NEW c \in Conns, NEW delta \in Deltas, NEW alone \in BOOLEAN,
               tcp_tx_process(c, delta, alone)
        PROVE  OrderInv' /\ \A d \in Conns : last'[d] >= last[d]
    <2>1. CASE /\ Bypass(delta, alone, cc_get_desired_tx_ts(c, delta))
               /\ last' = [last EXCEPT ![c] = sub[c] + 1] /\ bucket' = bucket
      BY Zenon, <1>3, <2>1, BypassOrder
    <2>2. CASE tw_insert(c, cc_get_desired_tx_ts(c, delta)) /\ UNCHANGED last
      <3>1. OrderInv'
        BY <1>3, <2>2, InsertOrder
      <3> QED BY <3>1, <2>2, <1>0
    <2> QED BY <1>3, <2>1, <2>2 DEF tcp_tx_process
  <1>4. ASSUME NEW c \in Conns, NEW delta \in Deltas, tcp_tx_timeout(c, delta)
        PROVE  OrderInv' /\ \A d \in Conns : last'[d] >= last[d]
    <2>1. /\ cc_get_desired_tx_ts(c, delta) \in Nat /\ delta \in Nat
          /\ cc_get_desired_tx_ts(c, delta) >= prev[c] + delta
      BY <1>0, DesiredType
    <2>2. /\ prev' = [prev EXCEPT ![c] = cc_get_desired_tx_ts(c, delta)]
          /\ bucket' = bucket /\ front' = front /\ last' = last /\ sub' = sub
      BY <1>4 DEF tcp_tx_timeout
    <2>3. \A d \in Conns : prev'[d] >= prev[d]
      BY <1>0, <2>1, <2>2
    <2> QED BY <1>0, <1>1, <2>2, <2>3
  <1>5. ASSUME SkipSlot
        PROVE  OrderInv' /\ \A d \in Conns : last'[d] >= last[d]
    BY <1>0, <1>1, <1>5 DEF SkipSlot
  <1>6. ASSUME SendPacket
        PROVE  OrderInv' /\ \A d \in Conns : last'[d] >= last[d]
    BY SMTT(30), <1>6, SendOrder
  <1>7. ASSUME tw_cb \/ EndCallback \/ Tick \/ UNCHANGED vars
        PROVE  OrderInv' /\ \A d \in Conns : last'[d] >= last[d]
    BY <1>2, <1>7 DEF tw_cb, EndCallback, Tick, vars
  <1> QED BY SMTT(30), <1>3, <1>4, <1>5, <1>6, <1>7 DEF Next

\* The packets of a connection reach the wire in the order of their
\* submission, through the wheel or around it, for all rates at which a
\* packet takes some time.  Deltas without 0 are those of payloads of four
\* bytes and more at 25 Gbit/s.
THEOREM WheelInOrder ==
  ASSUME 0 \notin Deltas
  PROVE  Spec => InOrder
  <1>1. Init => OrderInv
    BY InitOrder
  <1>2. Inv /\ Inv' /\ OrderInv /\ [Next]_vars => OrderInv'
    BY NextOrder
  <1>3. Inv /\ Inv' /\ OrderInv /\ [Next]_vars =>
          [\A c \in Conns : last'[c] >= last[c]]_vars
    BY NextOrder
  <1> QED BY <1>1, <1>2, <1>3, WheelInvariant, PTL DEF Spec, InOrder

=============================================================================
