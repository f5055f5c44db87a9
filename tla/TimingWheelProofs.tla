-------------------------- MODULE TimingWheelProofs --------------------------
(***************************************************************************)
(* Proofs about TimingWheel, for every number and size of the buckets,     *)
(* every set of connections and all rates.                                 *)
(***************************************************************************)
EXTENDS TimingWheelLemmas

-----------------------------------------------------------------------------
(* The inductive invariant                                                 *)

\* The numbers of the packets in the wheel have been given out.
Numbered ==
  \A b \in Buckets : \A i \in DOMAIN bucket[b] :
    bucket[b][i].n <= sub[bucket[b][i].conn]

\* Before the first packet nothing has been started.
Started ==
  /\ now >= SLOT_WIDTH_NS
  /\ front = 0 => /\ ~ armed /\ cb.pc = "off"
                  /\ \A b \in Buckets : bucket[b] = <<>>

\* The callback works with a time that has been reached.
CbPast == cb.pc # "off" => cb.now <= Slot(now)

Inv ==
  /\ TypeOK
  /\ OneTurn
  /\ CountExact /\ IsFiniteSet(Held)
  /\ NeverStalled
  /\ DistinctIn(bucket)
  /\ Numbered
  /\ Started
  /\ CbPast

LEMMA InitInv == Init => Inv
  <1> SUFFICES ASSUME Init PROVE Inv
    OBVIOUS
  <1> USE WheelAssumption
  <1>1. \A b \in Buckets : bucket[b] = <<>>
    BY DEF Init, Buckets
  <1>2. TypeOK
    <2>1. bucket \in [0 .. MAX_BUCKETS - 1 -> Seq(Frames)]
      BY DEF Init
    <2>2. cb \in [pc : {"off", "run", "end"}, now : Nat, tries : Nat, probes : Nat]
      BY DEF Init, Off
    <2> QED BY Zenon, <2>1, <2>2 DEF TypeOK, Init
  <1>3. DOMAIN bucket = Buckets
    BY DEF Init, Buckets
  <1>4. OneTurn /\ DistinctIn(bucket) /\ Numbered
    BY <1>1, <1>3 DEF OneTurn, DistinctIn, Numbered
  <1>5. Held = {}
    BY <1>1, <1>3 DEF Held
  <1>6. CountExact /\ IsFiniteSet(Held)
    BY <1>5, FS_EmptySet DEF CountExact, Init
  <1>7. NeverStalled /\ Started /\ CbPast
    BY <1>1 DEF NeverStalled, Started, CbPast, Init, Off
  <1> QED BY <1>2, <1>4, <1>6, <1>7 DEF Inv

LEMMA DesiredType ==
  ASSUME TypeOK, NEW c \in Conns, NEW delta \in Deltas
  PROVE  /\ ref_ts \in Nat /\ delta \in Nat
         /\ cc_get_desired_tx_ts(c, delta) \in Nat
         /\ cc_get_desired_tx_ts(c, delta) >= prev[c] + delta
  BY TimeAssumption DEF TypeOK, ref_ts, cc_get_desired_tx_ts, Later

LEMMA FrameType ==
  ASSUME TypeOK, NEW b \in Buckets, NEW i \in DOMAIN bucket[b]
  PROVE  /\ bucket[b][i] \in Frames
         /\ bucket[b][i].conn \in Conns /\ bucket[b][i].n \in Nat \ {0}
         /\ bucket[b][i].slot \in Nat
  <1>1. bucket[b] \in Seq(Frames)
    BY Zenon DEF TypeOK, Buckets
  <1>2. bucket[b][i] \in Frames
    BY <1>1
  <1> QED BY <1>2 DEF Frames

\* Steps that leave the buckets alone.
LEMMA SameBuckets ==
  ASSUME Inv, TypeOK', bucket' = bucket, front' = front,
         nr' = nr, lost' = lost, \A c \in Conns : sub'[c] >= sub[c]
  PROVE  /\ OneTurn' /\ CountExact' /\ IsFiniteSet(Held)' /\ DistinctIn(bucket)'
         /\ Numbered'
  <1>1. Held' = Held
    BY DEF Held
  <1>2. OneTurn' /\ CountExact' /\ IsFiniteSet(Held)' /\ DistinctIn(bucket)'
    BY <1>1 DEF Inv, OneTurn, CountExact, DistinctIn
  <1>3. Numbered'
    <2> SUFFICES ASSUME NEW b \in Buckets, NEW i \in DOMAIN bucket[b]
                 PROVE  bucket[b][i].n <= sub'[bucket[b][i].conn]
      BY DEF Numbered
    <2>1. bucket[b][i].conn \in Conns /\ bucket[b][i].n \in Nat
      BY FrameType DEF Inv
    <2>2. bucket[b][i].n <= sub[bucket[b][i].conn]
      BY DEF Inv, Numbered
    <2>3. \A c \in Conns : sub[c] \in Nat /\ sub'[c] \in Nat
      BY DEF Inv, TypeOK
    <2> QED BY <2>1, <2>2, <2>3
  <1> QED BY <1>2, <1>3

LEMMA StutterInv == Inv /\ UNCHANGED vars => Inv'
  BY DEF Inv, vars, TypeOK, OneTurn, CountExact, Held, NeverStalled, DistinctIn,
         Numbered, Started, CbPast, Slot

LEMMA TickInv == Inv /\ Tick => Inv'
  <1> SUFFICES ASSUME Inv, Tick PROVE Inv'
    OBVIOUS
  <1>1. TypeOK'
    BY DEF Inv, TypeOK, Tick
  <1>2. /\ OneTurn' /\ CountExact' /\ IsFiniteSet(Held)' /\ DistinctIn(bucket)'
        /\ Numbered'
    BY <1>1, SameBuckets DEF Tick, Inv, TypeOK
  <1>3. NeverStalled' /\ Started'
    BY WheelAssumption DEF Tick, Inv, TypeOK, NeverStalled, Started
  <1>4. CbPast'
    <2>0. now \in Nat /\ now' \in Nat /\ now <= now'
      BY DEF Tick, Inv, TypeOK
    <2>1. Slot(now) <= Slot(now') /\ Slot(now) \in Nat /\ Slot(now') \in Nat
      BY <2>0, SlotMonotone
    <2>2. Slot(now)' = Slot(now')
      BY DEF Slot
    <2>3. cb.now \in Nat
      BY DEF Inv, TypeOK
    <2> QED BY <2>1, <2>2, <2>3 DEF Tick, Inv, CbPast
  <1> QED BY <1>1, <1>2, <1>3, <1>4 DEF Inv

LEMMA TimeoutInv ==
  ASSUME Inv, NEW c \in Conns, NEW delta \in Deltas, tcp_tx_timeout(c, delta)
  PROVE  Inv'
  <1>1. TypeOK'
    <2>1. prev' \in [Conns -> Nat]
      BY DesiredType DEF Inv, TypeOK, tcp_tx_timeout
    <2> QED BY <2>1 DEF Inv, TypeOK, tcp_tx_timeout
  <1>2. /\ OneTurn' /\ CountExact' /\ IsFiniteSet(Held)' /\ DistinctIn(bucket)'
        /\ Numbered'
    BY <1>1, SameBuckets DEF tcp_tx_timeout, Inv, TypeOK
  <1>3. NeverStalled' /\ Started' /\ CbPast'
    BY DEF tcp_tx_timeout, Inv, NeverStalled, Started, CbPast, Slot
  <1> QED BY <1>1, <1>2, <1>3 DEF Inv

LEMMA CallbackInv == Inv /\ tw_cb => Inv'
  <1> SUFFICES ASSUME Inv, tw_cb PROVE Inv'
    OBVIOUS
  <1>0. Slot(now) \in Nat
    <2>1. now \in Nat /\ now <= now
      BY DEF Inv, TypeOK
    <2> QED BY <2>1, SlotMonotone
  <1>1. TypeOK'
    BY Zenon, <1>0 DEF Inv, TypeOK, tw_cb
  <1>2. /\ OneTurn' /\ CountExact' /\ IsFiniteSet(Held)' /\ DistinctIn(bucket)'
        /\ Numbered'
    BY SMTT(30), <1>1, SameBuckets DEF tw_cb, Inv, TypeOK
  <1>3. NeverStalled' /\ Started'
    BY Zenon DEF tw_cb, Inv, NeverStalled, Started
  <1>4. CbPast'
    BY <1>0 DEF tw_cb, CbPast, Slot
  <1> QED BY <1>1, <1>2, <1>3, <1>4 DEF Inv

LEMMA EndInv == Inv /\ EndCallback => Inv'
  <1> SUFFICES ASSUME Inv, EndCallback PROVE Inv'
    OBVIOUS
  <1>1. TypeOK'
    BY Zenon DEF Inv, TypeOK, EndCallback, kick_tw, Off
  <1>2. /\ OneTurn' /\ CountExact' /\ IsFiniteSet(Held)' /\ DistinctIn(bucket)'
        /\ Numbered'
    BY <1>1, SameBuckets DEF EndCallback, Inv, TypeOK
  <1>3. NeverStalled' /\ CbPast'
    BY Zenon DEF EndCallback, Inv, TypeOK, NeverStalled, kick_tw, CbPast, Off
  <1>4. Started'
    BY DEF EndCallback, Inv, Started
  <1> QED BY <1>1, <1>2, <1>3, <1>4 DEF Inv

\* The bucket in front holds packets of the slot in front only.
LEMMA FrontSlot ==
  ASSUME Inv, NEW i \in DOMAIN bucket[Current]
  PROVE  Current \in Buckets /\ bucket[Current][i].slot = front
  <1>1. front \in Nat /\ DOMAIN bucket = Buckets
    BY DEF Inv, TypeOK, Buckets
  <1>2. Current \in Buckets
    BY <1>1, BucketOf DEF Current
  <1> DEFINE s == bucket[Current][i].slot
  <1>3. s \in Nat
    BY <1>2, FrameType DEF Inv
  <1>4. s \in front .. front + MAX_BUCKETS - 1 /\ s % MAX_BUCKETS = front % MAX_BUCKETS
    BY <1>1, <1>2 DEF Inv, OneTurn, Current
  <1>5. front \in front .. front + MAX_BUCKETS - 1
    BY <1>1, WheelAssumption
  <1> HIDE DEF s
  <1>6. s = front
    BY Zenon, <1>1, <1>3, <1>4, <1>5, SameSlot, WheelAssumption
  <1> QED BY <1>2, <1>6 DEF s

LEMMA HoldsStarted ==
  ASSUME Inv, NEW b \in Buckets, NEW i \in DOMAIN bucket[b]
  PROVE  front # 0
  <1>1. bucket[b] # <<>>
    OBVIOUS
  <1> QED BY <1>1 DEF Inv, Started

LEMMA CbSteps ==
  ASSUME NEW k \in [pc : {"off", "run", "end"}, now : Nat, tries : Nat, probes : Nat]
  PROVE  LET K == [pc : {"off", "run", "end"}, now : Nat, tries : Nat, probes : Nat]
         IN  /\ [k EXCEPT !.probes = @ + 1] \in K
             /\ [k EXCEPT !.probes = 0, !.tries = @ + 1] \in K
             /\ [k EXCEPT !.pc = "end"] \in K
  <1>1. k.probes + 1 \in Nat /\ k.tries + 1 \in Nat /\ 0 \in Nat
    OBVIOUS
  <1>2. [k EXCEPT !.probes = @ + 1] \in
          [pc : {"off", "run", "end"}, now : Nat, tries : Nat, probes : Nat]
    BY <1>1
  <1>3. [k EXCEPT !.probes = 0, !.tries = @ + 1] \in
          [pc : {"off", "run", "end"}, now : Nat, tries : Nat, probes : Nat]
    BY Zenon, <1>1
  <1>4. [k EXCEPT !.pc = "end"] \in
          [pc : {"off", "run", "end"}, now : Nat, tries : Nat, probes : Nat]
    OBVIOUS
  <1> QED BY <1>2, <1>3, <1>4

LEMMA SkipInv == Inv /\ SkipSlot => Inv'
  <1> SUFFICES ASSUME Inv, SkipSlot PROVE Inv'
    OBVIOUS
  <1>0. front \in Nat /\ front' = front + 1 /\ DOMAIN bucket = Buckets /\ bucket' = bucket
    BY DEF Inv, TypeOK, SkipSlot, Buckets
  <1>1. TypeOK'
    <2>1. cb' \in [pc : {"off", "run", "end"}, now : Nat, tries : Nat, probes : Nat]
      BY Zenon, CbSteps DEF Inv, TypeOK, SkipSlot
    <2>2. front' \in Nat
      BY <1>0
    <2> QED BY SMTT(30), <2>1, <2>2 DEF Inv, TypeOK, SkipSlot
  <1>2. OneTurn'
    <2> SUFFICES ASSUME NEW b \in Buckets, NEW i \in DOMAIN bucket[b]
                 PROVE  /\ bucket[b][i].slot \in front + 1 .. front + MAX_BUCKETS
                        /\ bucket[b][i].slot % MAX_BUCKETS = b
      BY <1>0, WheelAssumption DEF OneTurn
    <2>1. /\ bucket[b][i].slot \in front .. front + MAX_BUCKETS - 1
          /\ bucket[b][i].slot % MAX_BUCKETS = b
      BY <1>0 DEF Inv, OneTurn
    <2>2. bucket[b][i].slot # front
      <3>1. b # Current
        BY DEF SkipSlot
      <3> QED BY <3>1, <2>1 DEF Current
    <2> QED BY <2>1, <2>2, <1>0, WheelAssumption
  <1>3. CountExact' /\ IsFiniteSet(Held)' /\ DistinctIn(bucket)' /\ Numbered'
    <2>1. Held' = Held
      BY DEF SkipSlot, Held
    <2> QED BY <2>1 DEF Inv, SkipSlot, CountExact, DistinctIn, Numbered
  <1>4. cb.pc = "run" /\ cb'.pc = "run" /\ cb'.now = cb.now
    BY DEF SkipSlot, Extracting, Inv, TypeOK
  <1>5. NeverStalled' /\ CbPast'
    BY <1>4 DEF Inv, SkipSlot, NeverStalled, CbPast, Slot
  <1>6. Started'
    BY <1>0 DEF Inv, SkipSlot, Started
  <1> QED BY <1>1, <1>2, <1>3, <1>5, <1>6 DEF Inv

LEMMA SendInv == Inv /\ SendPacket => Inv'
  <1> SUFFICES ASSUME Inv, SendPacket PROVE Inv'
    OBVIOUS
  <1> DEFINE f == Head(bucket[Current])
  <1>0. /\ bucket \in [Buckets -> Seq(Frames)] /\ front \in Nat
        /\ nr \in Nat /\ lost \in Nat /\ last \in [Conns -> Nat]
    BY DEF Inv, TypeOK, Buckets
  <1>1. Current \in Buckets
    BY <1>0, BucketOf DEF Current
  <1>2. bucket[Current] # <<>> /\ bucket' = [bucket EXCEPT ![Current] = Tail(@)]
    BY DEF SendPacket
  <1>3. /\ bucket' \in [Buckets -> Seq(Frames)]
        /\ 1 \in DOMAIN bucket[Current] /\ bucket[Current][1] = f /\ f \in Frames
        /\ \A x \in Buckets \ {Current} : bucket'[x] = bucket[x]
        /\ \A i \in DOMAIN bucket'[Current] :
             i + 1 \in DOMAIN bucket[Current] /\ bucket'[Current][i] = bucket[Current][i + 1]
    BY <1>0, <1>1, <1>2, Removed
  <1>4. /\ Content(bucket') = Content(bucket) \ {f} /\ f \in Content(bucket)
    BY Zenon, <1>0, <1>1, <1>2, ContentRemoved DEF Inv
  <1>5. Held = Content(bucket) /\ IsFiniteSet(Held) /\ nr = Cardinality(Held) + lost
    BY ContentHeld DEF Inv, CountExact
  <1>6. /\ Cardinality(Held \ {f}) = Cardinality(Held) - 1
        /\ IsFiniteSet(Held \ {f}) /\ Cardinality(Held) \in Nat
        /\ Cardinality(Held \ {f}) \in Nat
    BY <1>4, <1>5, FS_RemoveElement, FS_CardinalityType
  <1>7. /\ \/ nr' = nr - 1 /\ lost' = lost
           \/ nr' = nr /\ lost' = lost + 1
        /\ nr' = Cardinality(Held \ {f}) + lost'
        /\ nr' \in Nat /\ lost' \in Nat
    <2>1. \/ nr' = nr - 1 /\ lost' = lost
          \/ nr' = nr /\ lost' = lost + 1
      BY DEF SendPacket
    <2> DEFINE k == Cardinality(Held)
               m == Cardinality(Held \ {f})
    <2>2. nr = k + lost /\ m = k - 1 /\ k \in Nat /\ m \in Nat
      BY <1>5, <1>6
    <2> HIDE DEF k, m
    <2>3. nr' = m + lost' /\ nr' \in Nat /\ lost' \in Nat
      BY <2>1, <2>2, <1>0
    <2> QED BY <2>1, <2>3 DEF m
  <1>8. TypeOK'
    <2>1. bucket' \in [0 .. MAX_BUCKETS - 1 -> Seq(Frames)]
      BY <1>3 DEF Buckets
    <2>2. last' \in [Conns -> Nat]
      <3>1. f.n \in Nat
        BY <1>3 DEF Frames
      <3>2. last' = [last EXCEPT ![f.conn] = f.n] \/ last' = last
        BY DEF SendPacket
      <3> QED BY <3>1, <3>2, <1>0
    <2>3. cb' \in [pc : {"off", "run", "end"}, now : Nat, tries : Nat, probes : Nat]
      BY Zenon, CbSteps DEF Inv, TypeOK, SendPacket
    <2> QED BY SMTT(30), <1>7, <2>1, <2>2, <2>3 DEF Inv, TypeOK, SendPacket
  <1>9. Held' = Held \ {f}
    <2>1. Held' = Content(bucket')
      BY <1>3, ContentUnion DEF Held
    <2> QED BY <2>1, <1>4, <1>5
  <1>10. CountExact' /\ IsFiniteSet(Held)'
    BY <1>6, <1>7, <1>9 DEF CountExact
  <1> HIDE DEF f
  <1>11. \A x \in Buckets : \A i \in DOMAIN bucket'[x] :
           \E j \in DOMAIN bucket[x] :
             bucket'[x][i] = bucket[x][j] /\ j = IF x = Current THEN i + 1 ELSE i
    BY SMTT(30), <1>1, <1>3
  <1>12. OneTurn' /\ Numbered'
    BY SMTT(30), <1>0, <1>3, <1>11 DEF Inv, OneTurn, Numbered, SendPacket
  <1>13. DistinctIn(bucket)'
    <2> SUFFICES ASSUME NEW x \in Buckets, NEW y \in Buckets,
                        NEW i \in DOMAIN bucket'[x], NEW j \in DOMAIN bucket'[y],
                        bucket'[x][i].conn = bucket'[y][j].conn,
                        bucket'[x][i].n = bucket'[y][j].n
                 PROVE  x = y /\ i = j
      BY DEF DistinctIn
    <2>1. i \in Nat /\ j \in Nat
      BY <1>3
    <2>2. PICK k \in DOMAIN bucket[x] :
             bucket'[x][i] = bucket[x][k] /\ k = IF x = Current THEN i + 1 ELSE i
      BY <1>11
    <2>3. PICK l \in DOMAIN bucket[y] :
             bucket'[y][j] = bucket[y][l] /\ l = IF y = Current THEN j + 1 ELSE j
      BY <1>11
    <2>4. x = y /\ k = l
      BY <2>2, <2>3 DEF Inv, DistinctIn
    <2> QED BY <2>1, <2>2, <2>3, <2>4
  <1>14. cb.pc = "run" /\ cb'.pc \in {"run", "end"} /\ cb'.now = cb.now
    BY Zenon DEF SendPacket, Extracting, Inv, TypeOK
  <1>15. NeverStalled' /\ CbPast'
    BY <1>14 DEF Inv, SendPacket, NeverStalled, CbPast, Slot
  <1>16. Started'
    BY <1>14 DEF Inv, SendPacket, Started
  <1> QED BY <1>8, <1>10, <1>12, <1>13, <1>15, <1>16 DEF Inv

\* tcp_tx_process() in the two forms that it takes.
LEMMA ProcessTypes ==
  ASSUME Inv, NEW c \in Conns, NEW delta \in Deltas, NEW alone \in BOOLEAN,
         tcp_tx_process(c, delta, alone)
  PROVE  /\ prev' \in [Conns -> Nat] /\ sub' \in [Conns -> Nat]
         /\ sub'[c] = sub[c] + 1 /\ \A d \in Conns : sub'[d] >= sub[d]
         /\ now' = now /\ cb' = cb
  <1>1. Later(ref_ts, cc_get_desired_tx_ts(c, delta) + delta) \in Nat
    BY DesiredType DEF Inv, Later
  <1> QED BY SMTT(30), <1>1 DEF Inv, TypeOK, tcp_tx_process

LEMMA BypassInv ==
  ASSUME Inv, NEW c \in Conns, NEW delta \in Deltas, NEW alone \in BOOLEAN,
         tcp_tx_process(c, delta, alone),
         last' = [last EXCEPT ![c] = sub[c] + 1],
         UNCHANGED <<front, bucket, nr, has_kick, armed, lost>>
  PROVE  Inv'
  <1>0. /\ prev' \in [Conns -> Nat] /\ sub' \in [Conns -> Nat]
        /\ \A d \in Conns : sub'[d] >= sub[d]
        /\ now' = now /\ cb' = cb
    BY ProcessTypes
  <1>1. TypeOK'
    <2>1. last' \in [Conns -> Nat]
      BY DEF Inv, TypeOK
    <2> QED BY <1>0, <2>1 DEF Inv, TypeOK
  <1>2. /\ OneTurn' /\ CountExact' /\ IsFiniteSet(Held)' /\ DistinctIn(bucket)'
        /\ Numbered'
    BY <1>0, <1>1, SameBuckets
  <1>3. NeverStalled' /\ Started' /\ CbPast'
    BY SMTT(30), <1>0 DEF Inv, NeverStalled, Started, CbPast, Slot
  <1> QED BY <1>1, <1>2, <1>3 DEF Inv

\* tw_insert(), the bucket full or not.
LEMMA InsertFacts ==
  ASSUME Inv, NEW c \in Conns, NEW desired \in Nat, tw_insert(c, desired)
  PROVE  LET slot == Clamp(front', Slot(desired))
             b == slot % MAX_BUCKETS
             frame == [conn |-> c, n |-> sub[c] + 1, slot |-> slot]
         IN  /\ front' \in Nat \ {0} /\ front' >= front
             /\ front = 0 \/ front' = front
             /\ slot \in front' .. front' + MAX_BUCKETS - 1
             /\ b \in Buckets /\ frame \in Frames
             /\ \/ bucket' = bucket /\ lost' = lost + 1
                \/ bucket' = [bucket EXCEPT ![b] = Append(@, frame)] /\ lost' = lost
             /\ nr' = nr + 1
  <1>0. front \in Nat /\ now \in Nat /\ sub[c] \in Nat /\ now >= SLOT_WIDTH_NS
    BY DEF Inv, TypeOK, Started
  <1>1. Slot(now) \in Nat \ {0}
    BY <1>0, FirstSlot
  <1>2. Slot(desired) \in Nat
    <2>1. desired <= desired
      OBVIOUS
    <2> QED BY <2>1, SlotMonotone
  <1>3. front' = IF front = 0 THEN Slot(now) ELSE front
    BY DEF tw_insert
  <1>4. front' \in Nat \ {0} /\ front' >= front /\ (front = 0 \/ front' = front)
    BY <1>0, <1>1, <1>3
  <1> DEFINE slot == Clamp(front', Slot(desired))
             b == slot % MAX_BUCKETS
             frame == [conn |-> c, n |-> sub[c] + 1, slot |-> slot]
  <1>5. slot \in front' .. front' + MAX_BUCKETS - 1 /\ slot \in Nat
    BY <1>2, <1>4, ClampRange
  <1>6. b \in Buckets
    BY <1>5, BucketOf
  <1>7. frame \in Frames
    BY SMTT(30), <1>0, <1>5 DEF Frames
  <1>8. \/ bucket' = bucket /\ lost' = lost + 1
        \/ bucket' = [bucket EXCEPT ![b] = Append(@, frame)] /\ lost' = lost
    BY <1>3 DEF tw_insert
  <1> QED BY Zenon, <1>4, <1>5, <1>6, <1>7, <1>8 DEF tw_insert

LEMMA InsertInv ==
  ASSUME Inv, NEW c \in Conns, NEW delta \in Deltas, NEW alone \in BOOLEAN,
         tcp_tx_process(c, delta, alone),
         tw_insert(c, cc_get_desired_tx_ts(c, delta)), UNCHANGED last
  PROVE  Inv'
  <1> DEFINE desired == cc_get_desired_tx_ts(c, delta)
             slot == Clamp(front', Slot(desired))
             b == slot % MAX_BUCKETS
             frame == [conn |-> c, n |-> sub[c] + 1, slot |-> slot]
             full == bucket' = bucket /\ lost' = lost + 1
             put == bucket' = [bucket EXCEPT ![b] = Append(@, frame)] /\ lost' = lost
  <1>0. /\ prev' \in [Conns -> Nat] /\ sub' \in [Conns -> Nat]
        /\ sub'[c] = sub[c] + 1 /\ \A d \in Conns : sub'[d] >= sub[d]
        /\ now' = now /\ cb' = cb
    BY ProcessTypes
  <1>1. desired \in Nat
    BY DesiredType DEF Inv
  <1>2. /\ front' \in Nat \ {0} /\ front' >= front
        /\ front = 0 \/ front' = front
        /\ slot \in front' .. front' + MAX_BUCKETS - 1
        /\ b \in Buckets /\ frame \in Frames
        /\ full \/ put
        /\ nr' = nr + 1
    BY <1>1, InsertFacts
  <1>3. kick_tw
    BY DEF tw_insert
  <1>4. /\ bucket \in [Buckets -> Seq(Frames)] /\ nr \in Nat /\ lost \in Nat
        /\ front \in Nat /\ sub \in [Conns -> Nat]
        /\ Held = Content(bucket) /\ IsFiniteSet(Held) /\ nr = Cardinality(Held) + lost
    BY SMTT(30), ContentHeld DEF Inv, TypeOK, Buckets, CountExact
  <1>5. frame.conn = c /\ frame.n = sub[c] + 1 /\ frame.slot = slot
    OBVIOUS
  <1> HIDE DEF frame, slot, desired
  <1>6. put => /\ bucket' \in [Buckets -> Seq(Frames)]
               /\ \A x \in Buckets : \A i \in DOMAIN bucket'[x] :
                    \/ i \in DOMAIN bucket[x] /\ bucket'[x][i] = bucket[x][i]
                    \/ x = b /\ i = Len(bucket[b]) + 1 /\ bucket'[x][i] = frame
    BY SMTT(30), <1>2, <1>4, Inserted
  <1>7. bucket' \in [Buckets -> Seq(Frames)]
    BY <1>2, <1>4, <1>6
  <1>8. TypeOK'
    <2>1. bucket' \in [0 .. MAX_BUCKETS - 1 -> Seq(Frames)]
      BY <1>7 DEF Buckets
    <2>2. nr' \in Nat /\ lost' \in Nat /\ front' \in Nat
      BY SMTT(30), <1>2, <1>4
    <2>3. has_kick' \in BOOLEAN /\ armed' \in BOOLEAN
      BY SMTT(30), <1>3 DEF Inv, TypeOK, kick_tw
    <2> QED BY <1>0, <2>1, <2>2, <2>3 DEF Inv, TypeOK
  <1>9. \A x \in Buckets : \A i \in DOMAIN bucket[x] :
          /\ bucket[x][i].conn \in Conns
          /\ bucket[x][i].n <= sub[bucket[x][i].conn]
          /\ bucket[x][i].n \in Nat /\ bucket[x][i].slot \in Nat
          /\ front' = front
          /\ bucket[x][i].slot \in front' .. front' + MAX_BUCKETS - 1
          /\ bucket[x][i].slot % MAX_BUCKETS = x
          /\ bucket[x][i].conn = c => bucket[x][i].n # frame.n
    <2> SUFFICES ASSUME NEW x \in Buckets, NEW i \in DOMAIN bucket[x]
                 PROVE  /\ bucket[x][i].conn \in Conns
                        /\ bucket[x][i].n <= sub[bucket[x][i].conn]
                        /\ bucket[x][i].n \in Nat /\ bucket[x][i].slot \in Nat
                        /\ front' = front
                        /\ bucket[x][i].slot \in front' .. front' + MAX_BUCKETS - 1
                        /\ bucket[x][i].slot % MAX_BUCKETS = x
                        /\ bucket[x][i].conn = c => bucket[x][i].n # frame.n
      OBVIOUS
    <2>1. /\ bucket[x][i].conn \in Conns /\ bucket[x][i].n \in Nat
          /\ bucket[x][i].slot \in Nat
      BY FrameType DEF Inv
    <2>2. bucket[x][i].n <= sub[bucket[x][i].conn]
      BY DEF Inv, Numbered
    <2>3. front' = front
      BY <1>2, HoldsStarted
    <2>4. /\ bucket[x][i].slot \in front .. front + MAX_BUCKETS - 1
          /\ bucket[x][i].slot % MAX_BUCKETS = x
      BY SMTT(30), <1>4 DEF Inv, OneTurn
    <2>5. bucket[x][i].conn = c => bucket[x][i].n # frame.n
      BY <2>1, <2>2, <1>4, <1>5
    <2> QED BY SMTT(30), <2>1, <2>2, <2>3, <2>4, <2>5
  <1>10. OneTurn'
    <2>1. ASSUME NEW x \in Buckets, NEW i \in DOMAIN bucket'[x]
          PROVE  /\ bucket'[x][i].slot \in front' .. front' + MAX_BUCKETS - 1
                 /\ bucket'[x][i].slot % MAX_BUCKETS = x
      BY SMTT(30), <1>2, <1>5, <1>6, <1>9
    <2> QED BY SMTT(30), <2>1, <1>7 DEF OneTurn
  <1>11. Numbered'
    <2>1. ASSUME NEW x \in Buckets, NEW i \in DOMAIN bucket'[x]
          PROVE  bucket'[x][i].n <= sub'[bucket'[x][i].conn]
      <3>1. CASE i \in DOMAIN bucket[x] /\ bucket'[x][i] = bucket[x][i]
        <4> DEFINE d == bucket[x][i].conn
                   m == bucket[x][i].n
                   p == sub[d]
                   q == sub'[d]
        <4>1. d \in Conns /\ m <= p /\ m \in Nat
          BY SMTT(30), <3>1, <1>9
        <4>2. p \in Nat /\ q \in Nat /\ p <= q
          BY <4>1, <1>0, <1>4
        <4> HIDE DEF m, p, q
        <4>3. m <= q
          BY <4>1, <4>2
        <4> QED BY SMTT(30), <3>1, <4>3 DEF m, q
      <3>2. CASE bucket'[x][i] = frame
        <4>1. sub[c] + 1 \in Nat /\ sub[c] + 1 <= sub'[c]
          BY <1>0, <1>4
        <4> QED BY <3>2, <4>1, <1>5
      <3> QED BY SMTT(30), <3>1, <3>2, <1>2, <1>6
    <2> QED BY SMTT(30), <2>1 DEF Numbered
  <1>12. DistinctIn(bucket)'
    <2> SUFFICES ASSUME NEW x \in Buckets, NEW y \in Buckets,
                        NEW i \in DOMAIN bucket'[x], NEW j \in DOMAIN bucket'[y],
                        bucket'[x][i].conn = bucket'[y][j].conn,
                        bucket'[x][i].n = bucket'[y][j].n
                 PROVE  x = y /\ i = j
      BY DEF DistinctIn
    <2>1. CASE full
      BY SMTT(30), <2>1 DEF Inv, DistinctIn
    <2>2. CASE put
      <3>1. /\ \/ i \in DOMAIN bucket[x] /\ bucket'[x][i] = bucket[x][i]
               \/ x = b /\ i = Len(bucket[b]) + 1 /\ bucket'[x][i] = frame
            /\ \/ j \in DOMAIN bucket[y] /\ bucket'[y][j] = bucket[y][j]
               \/ y = b /\ j = Len(bucket[b]) + 1 /\ bucket'[y][j] = frame
        BY <2>2, <1>6
      <3>2. CASE /\ i \in DOMAIN bucket[x] /\ bucket'[x][i] = bucket[x][i]
                 /\ j \in DOMAIN bucket[y] /\ bucket'[y][j] = bucket[y][j]
        BY SMTT(30), <3>2 DEF Inv, DistinctIn
      <3>3. CASE /\ i \in DOMAIN bucket[x] /\ bucket'[x][i] = bucket[x][i]
                 /\ bucket'[y][j] = frame
        BY SMTT(30), <3>3, <1>5, <1>9
      <3>4. CASE /\ bucket'[x][i] = frame
                 /\ j \in DOMAIN bucket[y] /\ bucket'[y][j] = bucket[y][j]
        BY SMTT(30), <3>4, <1>5, <1>9
      <3> QED BY SMTT(30), <3>1, <3>2, <3>3, <3>4
    <2> QED BY <2>1, <2>2, <1>2
  <1>13. CountExact' /\ IsFiniteSet(Held)'
    <2>1. Held' = Content(bucket')
      BY <1>7, ContentUnion DEF Held
    <2>2. Cardinality(Held) \in Nat
      BY <1>4, FS_CardinalityType
    <2>3. CASE full
      BY <2>1, <2>2, <2>3, <1>2, <1>4 DEF CountExact
    <2>4. CASE put
      <3>1. Content(bucket') = Content(bucket) \cup {frame}
        BY Zenon, <2>4, <1>2, <1>4, ContentInserted
      <3>2. frame \notin Content(bucket)
        BY <1>5, <1>9 DEF Content
      <3>3. IsFiniteSet(Held') /\ Cardinality(Held') = Cardinality(Held) + 1
        <4>1. Held' = Held \cup {frame} /\ frame \notin Held
          BY <2>1, <3>1, <3>2, <1>4
        <4> QED BY <4>1, <1>4, FS_AddElement
      <3> QED BY SMTT(30), <2>2, <2>4, <3>3, <1>2, <1>4 DEF CountExact
    <2> QED BY SMTT(30), <2>3, <2>4, <1>2
  <1>14. NeverStalled'
    BY Zenon, <1>3 DEF Inv, TypeOK, NeverStalled, kick_tw
  <1>15. Started' /\ CbPast'
    BY <1>0, <1>2 DEF Inv, Started, CbPast, Slot
  <1> QED BY <1>8, <1>10, <1>11, <1>12, <1>13, <1>14, <1>15 DEF Inv

LEMMA NextInv == Inv /\ [Next]_vars => Inv'
  <1> SUFFICES ASSUME Inv, [Next]_vars PROVE Inv'
    OBVIOUS
  <1>1. ASSUME NEW c \in Conns, NEW delta \in Deltas, NEW alone \in BOOLEAN,
               tcp_tx_process(c, delta, alone)
        PROVE  Inv'
    BY Zenon, <1>1, BypassInv, InsertInv DEF tcp_tx_process
  <1>2. ASSUME NEW c \in Conns, NEW delta \in Deltas, tcp_tx_timeout(c, delta)
        PROVE  Inv'
    BY <1>2, TimeoutInv
  <1> QED BY <1>1, <1>2, CallbackInv, SkipInv, SendInv, EndInv, TickInv, StutterInv
          DEF Next

-----------------------------------------------------------------------------
(* Theorems                                                                *)

\* For every wheel the invariant holds; with it the types are right.
THEOREM WheelInvariant == Spec => []Inv
  BY InitInv, NextInv, PTL DEF Spec

THEOREM WheelTypes == Spec => []TypeOK
  BY WheelInvariant, PTL DEF Inv

\* tw_insert() and tw_extract(), for every number of buckets: a bucket holds
\* packets of one slot only, of the turn of the wheel that front_timestamp
\* begins.
THEOREM WheelOneTurn == Spec => []OneTurn
  BY WheelInvariant, PTL DEF Inv

\* nr_pkts_in_tw, for every size of the buckets and every choice of sends that
\* fail: it counts the packets in the wheel and those dropped on the way.
THEOREM WheelCountExact == Spec => []CountExact
  BY WheelInvariant, PTL DEF Inv

\* kick_tw() and the callback, in every interleaving: while packets are
\* counted a timer is armed or its callback runs.
THEOREM WheelNeverStalled == Spec => []NeverStalled
  BY WheelInvariant, PTL DEF Inv

LEMMA LeavesOnTime ==
  ASSUME Inv, SendPacket, NEW f \in Held
  PROVE  f \in Held' \/ f.slot <= Slot(now)
  <1>0. bucket \in [Buckets -> Seq(Frames)] /\ front \in Nat /\ cb.now \in Nat
    BY DEF Inv, TypeOK, Buckets
  <1>1. Current \in Buckets
    BY <1>0, BucketOf DEF Current
  <1>2. bucket[Current] # <<>> /\ bucket' = [bucket EXCEPT ![Current] = Tail(@)]
    BY DEF SendPacket
  <1>3. /\ Content(bucket') = Content(bucket) \ {Head(bucket[Current])}
        /\ bucket' \in [Buckets -> Seq(Frames)]
        /\ 1 \in DOMAIN bucket[Current] /\ bucket[Current][1] = Head(bucket[Current])
    <2>1. /\ bucket' \in [Buckets -> Seq(Frames)]
          /\ 1 \in DOMAIN bucket[Current] /\ bucket[Current][1] = Head(bucket[Current])
      BY <1>0, <1>1, <1>2, Removed
    <2>2. Content(bucket') = Content(bucket) \ {Head(bucket[Current])}
      BY Zenon, <1>0, <1>1, <1>2, ContentRemoved DEF Inv
    <2> QED BY <2>1, <2>2
  <1>4. Held' = Content(bucket') /\ Held = Content(bucket)
    BY <1>3, ContentUnion, ContentHeld DEF Held, Inv
  <1>5. CASE f = Head(bucket[Current])
    <2>1. f.slot = front
      BY <1>3, <1>5, FrontSlot
    <2>2. front <= cb.now /\ cb.now <= Slot(now)
      BY <1>0 DEF SendPacket, Extracting, Inv, CbPast
    <2>3. Slot(now) \in Nat
      <3>1. now \in Nat /\ now <= now
        BY DEF Inv, TypeOK
      <3> QED BY <3>1, SlotMonotone
    <2> QED BY <1>0, <2>1, <2>2, <2>3
  <1>6. CASE f # Head(bucket[Current])
    BY <1>3, <1>4, <1>6
  <1> QED BY <1>5, <1>6

LEMMA StaysHeld ==
  ASSUME Inv, NEW c \in Conns, NEW desired \in Nat, tw_insert(c, desired)
  PROVE  Held \subseteq Held'
  <1> DEFINE slot == Clamp(front', Slot(desired))
             b == slot % MAX_BUCKETS
             frame == [conn |-> c, n |-> sub[c] + 1, slot |-> slot]
  <1>1. /\ b \in Buckets /\ frame \in Frames
        /\ \/ bucket' = bucket
           \/ bucket' = [bucket EXCEPT ![b] = Append(@, frame)]
    BY InsertFacts
  <1>2. bucket \in [Buckets -> Seq(Frames)] /\ Held = Content(bucket)
    BY ContentHeld DEF Inv, TypeOK, Buckets
  <1> HIDE DEF b, frame
  <1>3. bucket' \in [Buckets -> Seq(Frames)] /\ Content(bucket) \subseteq Content(bucket')
    <2>1. CASE bucket' = bucket
      BY <2>1, <1>2
    <2>2. CASE bucket' = [bucket EXCEPT ![b] = Append(@, frame)]
      <3>1. bucket' \in [Buckets -> Seq(Frames)]
        BY <2>2, <1>1, <1>2, Inserted
      <3>2. Content(bucket') = Content(bucket) \cup {frame}
        BY Zenon, <2>2, <1>1, <1>2, ContentInserted
      <3> QED BY <3>1, <3>2
    <2> QED BY <2>1, <2>2, <1>1
  <1>4. Held' = Content(bucket')
    BY <1>3, ContentUnion DEF Held
  <1> QED BY SMTT(30), <1>2, <1>3, <1>4

\* tw_extract() never hands out a packet before the time of its slot has come,
\* for every width of a slot, size of the wheel and rate.
THEOREM WheelOnTime == Spec => OnTime
  <1> DEFINE A == \A f \in Held : f \in Held' \/ f.slot <= Slot(now)
  <1>1. ASSUME Inv, [Next]_vars PROVE [A]_vars
    <2>1. ASSUME NEW c \in Conns, NEW delta \in Deltas, NEW alone \in BOOLEAN,
                 tcp_tx_process(c, delta, alone)
          PROVE  A
      <3>1. CASE bucket' = bucket
        BY <3>1 DEF Held
      <3>2. CASE tw_insert(c, cc_get_desired_tx_ts(c, delta))
        <4>1. cc_get_desired_tx_ts(c, delta) \in Nat
          BY <1>1, DesiredType DEF Inv
        <4> QED BY <1>1, <3>2, <4>1, StaysHeld
      <3> QED BY <2>1, <3>1, <3>2 DEF tcp_tx_process
    <2>2. ASSUME SendPacket PROVE A
      BY <1>1, <2>2, LeavesOnTime
    <2>3. ASSUME bucket' = bucket PROVE A
      BY <2>3 DEF Held
    <2> HIDE DEF A
    <2> QED BY <1>1, <2>1, <2>2, <2>3
            DEF Next, tcp_tx_timeout, tw_cb, SkipSlot, EndCallback, Tick
  <1> QED BY <1>1, WheelInvariant, PTL DEF Spec, OnTime

=============================================================================
