---------------------------- MODULE TcpCcProofs -----------------------------
(***************************************************************************)
(* Safety of the congestion control for every segment size, send buffer,   *)
(* counter width and weight of the moving average.                         *)
(***************************************************************************)
EXTENDS TcpCc, TLAPS

-----------------------------------------------------------------------------
(* Arithmetic                                                              *)

LEMMA AddSub ==
  ASSUME NEW a \in Counter, NEW b \in Counter
  PROVE  /\ Add(a, b) \in Counter
         /\ Add(a, b) = IF a + b < Word THEN a + b ELSE a + b - Word
         /\ Sub(a, b) \in Counter
         /\ Sub(a, b) = IF a >= b THEN a - b ELSE a - b + Word
  BY WordAssumption DEF Counter, Add, Sub

LEMMA AddAtMost ==
  ASSUME NEW a \in Counter, NEW b \in Counter
  PROVE  Add(a, b) \in Nat /\ Add(a, b) <= a + b
  BY WordAssumption DEF Counter, Add

\* A quotient lies between the bounds of its dividend.
LEMMA DivBounds ==
  ASSUME NEW a \in Nat, NEW n \in Nat \ {0}, NEW k \in Nat
  PROVE  /\ a \div n \in Nat
         /\ a <= k * n => a \div n <= k
         /\ a >= k * n => a \div n >= k
  <1> DEFINE q == a \div n
             r == a % n
  <1>1. q \in Int /\ r \in 0 .. n - 1 /\ a = q * n + r
    OBVIOUS
  <1> HIDE DEF q, r
  <1>2. q >= 0
    <2> SUFFICES ASSUME q <= -1 PROVE FALSE
      BY <1>1
    <2>1. q * n <= -1 * n
      BY <1>1
    <2> QED BY <1>1, <2>1
  <1>3. ASSUME a <= k * n PROVE q <= k
    <2> SUFFICES ASSUME q >= k + 1 PROVE FALSE
      BY <1>1
    <2>1. q * n >= (k + 1) * n
      BY <1>1
    <2>2. (k + 1) * n = k * n + n
      OBVIOUS
    <2> QED BY <1>1, <1>3, <2>1, <2>2
  <1>4. ASSUME a >= k * n PROVE q >= k
    <2> SUFFICES ASSUME q <= k - 1 PROVE FALSE
      BY <1>1
    <2>1. q * n <= (k - 1) * n
      BY <1>1
    <2>2. (k - 1) * n = k * n - n
      OBVIOUS
    <2> QED BY <1>1, <1>4, <2>1, <2>2
  <1> QED BY <1>1, <1>2, <1>3, <1>4 DEF q

LEMMA ProductMonotone ==
  ASSUME NEW a \in Nat, NEW b \in Nat, NEW x \in Nat, NEW y \in Nat,
         a <= b, x <= y
  PROVE  a * x \in Nat /\ a * x <= b * y
  <1>1. a * x <= b * x
    OBVIOUS
  <1>2. b * x <= b * y
    OBVIOUS
  <1> QED BY <1>1, <1>2

-----------------------------------------------------------------------------
(* The event processors                                                    *)

LEMMA OneType == One \in Nat \ {0} /\ TxBuf <= One /\ Mss \in Nat \ {0} /\ TxBuf \in Nat
  BY WordAssumption, WindowAssumption DEF One

LEMMA EcnRateSound ==
  ASSUME NEW s \in Connection, s.ecn_rate <= One
  PROVE  EcnRate(s) \in 0 .. One /\ Marked(s) \in Nat
  <1> DEFINE n == s.cnt_rx_ack_bytes
             m == Marked(s)
             f == (m * One) \div n
             x == f * Weight
             y == s.ecn_rate * (One - Weight)
  <1>1. n \in Nat /\ s.ecn_rate \in Nat /\ s.cnt_rx_ecn_bytes \in Nat
    BY WordAssumption DEF Connection, Counter
  <1>2. m \in Nat /\ (n > 0 => m <= n)
    BY <1>1 DEF Marked, Min2
  <1>3. CASE n > 0
    <2>1. m * One \in Nat /\ m * One <= n * One
      BY <1>1, <1>2, <1>3, OneType, ProductMonotone
    <2>2. n * One = One * n
      BY <1>1, OneType
    <2>3. f \in Nat /\ f <= One
      <3> DEFINE p == m * One
      <3>1. n \in Nat \ {0} /\ One \in Nat /\ p \in Nat /\ p <= One * n
        BY <1>1, <1>3, <2>1, <2>2, OneType
      <3> HIDE DEF m, n, p
      <3>2. p \div n \in Nat /\ p \div n <= One
        BY <3>1, DivBounds
      <3> QED BY <3>2 DEF p
    <2>4. Weight \in Nat /\ One - Weight \in Nat
      BY WeightAssumption, OneType
    <2>5. x \in Nat /\ x <= One * Weight
      <3> HIDE DEF f
      <3> QED BY <2>3, <2>4, OneType, ProductMonotone
    <2>6. y \in Nat /\ y <= One * (One - Weight)
      BY <1>1, <2>4, OneType, ProductMonotone
    <2>7. One * Weight + One * (One - Weight) = One * One
      BY <2>4, OneType
    <2>8. x + y \in Nat /\ x + y <= One * One
      <3> HIDE DEF x, y
      <3> QED BY <2>4, <2>5, <2>6, <2>7, OneType
    <2>9. (x + y) \div One \in 0 .. One
      <3> HIDE DEF x, y
      <3> QED BY <2>8, OneType, DivBounds
    <2> QED BY <1>1, <1>2, <1>3, <2>9 DEF EcnRate
  <1>4. CASE n = 0
    BY <1>1, <1>2, <1>4, OneType DEF EcnRate
  <1> QED BY <1>1, <1>3, <1>4

\* The new window is within the limits, and above the old one by no more than
\* the bytes acknowledged.
LEMMA WindowSound ==
  ASSUME NEW s \in Connection, s.ecn_rate <= One,
         Mss <= s.window, s.window <= TxBuf
  PROVE  LET w == slows_congc_ep(s).window
         IN  /\ w \in Mss .. TxBuf
             /\ w <= s.window + s.cnt_rx_ack_bytes
             /\ Congested(s) => w = Mss \/ 2 * w <= s.window
  <1> DEFINE n == s.cnt_rx_ack_bytes
             w == s.window
             incr == (n * Mss) \div w
             e == EcnRate(s)
             v == IF SlowStart(s) THEN Growth(s) ELSE Avoidance(s)
  <1>1. n \in Counter /\ w \in Counter /\ n \in Nat /\ w \in Nat \ {0} /\ Mss <= w
    BY WordAssumption, WindowAssumption DEF Connection, Counter
  <1>2. Growth(s) \in Nat /\ Growth(s) <= w + n
    <2> HIDE DEF w, n
    <2>1. Add(w, n) \in Nat /\ Add(w, n) <= w + n
      BY <1>1, AddAtMost
    <2> QED BY <1>1, <2>1 DEF Growth, w, n
  <1>3. incr \in Nat /\ incr <= n
    <2>1. n * Mss \in Nat /\ n * Mss <= n * w
      BY <1>1, OneType, ProductMonotone
    <2> HIDE DEF w, n
    <2> QED BY <1>1, <2>1, DivBounds
  <1>4. incr \in Counter
    <2> HIDE DEF incr
    <2> QED BY <1>1, <1>3, WordAssumption DEF Counter
  <1>5. Add(w, incr) \in Nat /\ Add(w, incr) <= w + n
    <2> HIDE DEF w, incr, n
    <2>1. Add(w, incr) \in Nat /\ Add(w, incr) <= w + incr
      BY <1>1, <1>4, AddAtMost
    <2> QED BY <1>1, <1>3, <2>1
  <1>6. (w * (One - e \div 2)) \div One \in Nat
        /\ (w * (One - e \div 2)) \div One <= w
    <2>1. e \in 0 .. One
      BY EcnRateSound
    <2> HIDE DEF e, w
    <2>2. One - e \div 2 \in Nat /\ One - e \div 2 <= One
      BY <2>1, OneType
    <2>3. w * (One - e \div 2) \in Nat /\ w * (One - e \div 2) <= w * One
      BY <1>1, <2>2, OneType, ProductMonotone
    <2> QED BY <1>1, <2>3, OneType, DivBounds
  <1>7. w \div 2 \in Nat /\ 2 * (w \div 2) <= w
    BY <1>1
  <1>8. Avoidance(s) \in Nat /\ Avoidance(s) <= w + n
        /\ (Congested(s) => 2 * Avoidance(s) <= w)
    <2>1. CASE Congested(s)
      BY <1>1, <1>7, <2>1 DEF Avoidance
    <2>2. CASE ~Congested(s) /\ Marked(s) > 0
      BY <1>1, <1>6, <2>2 DEF Avoidance
    <2>3. CASE ~Congested(s) /\ ~(Marked(s) > 0)
      BY <1>1, <1>5, <2>3 DEF Avoidance
    <2> QED BY <2>1, <2>2, <2>3
  <1>9. v \in Nat /\ v <= w + n /\ (Congested(s) => 2 * v <= w)
    BY <1>2, <1>8 DEF SlowStart
  <1>10. Limited(v) \in Mss .. TxBuf /\ Limited(v) <= w + n
         /\ (Congested(s) => Limited(v) = Mss \/ 2 * Limited(v) <= w)
    <2> HIDE DEF v
    <2> QED BY <1>1, <1>9, OneType, WindowAssumption DEF Limited, Min2
  <1>11. slows_congc_ep(s).window = Limited(v)
    BY DEF slows_congc_ep, Connection
  <1> QED BY <1>10, <1>11

\* The rate is at least two, so that it can be halved.
LEMMA RateSound ==
  ASSUME NEW w \in Mss .. TxBuf, NEW rtt \in 1 .. MaxRtt
  PROVE  set_tx_rate_ep(w, rtt) \in 2 .. MaxRate
  <1> DEFINE link == (w * 8) \div LinkGbps
             span == rtt * RttNs
             time == IF link < span THEN span ELSE link
             kbps == Min2((w * WinBits) \div time, One)
  <1>1. /\ w \in Nat \ {0} /\ w * 8 \in Nat /\ w * WinBits \in Nat
        /\ LinkGbps \in Nat \ {0} /\ WinBits \in Nat /\ RttNs \in Nat \ {0}
        /\ MaxRtt \in Nat /\ rtt \in Nat \ {0} /\ rtt <= MaxRtt /\ Mss <= w
    BY OneType, RateAssumption, RttAssumption
  <1>2. link \in Nat
    BY <1>1, DivBounds
  <1>3. span \in Nat \ {0} /\ span <= MaxRtt * RttNs
    <2>1. span <= MaxRtt * RttNs
      BY <1>1, ProductMonotone
    <2>2. 1 * 1 <= span
      BY <1>1, ProductMonotone
    <2> QED BY <1>1, <2>1, <2>2
  <1>4. span <= w * WinBits
    <2>1. Mss * WinBits <= w * WinBits
      BY <1>1, OneType, ProductMonotone
    <2>2. MaxRtt * RttNs <= Mss * WinBits
      BY RateAssumption
    <2>3. MaxRtt * RttNs \in Nat /\ Mss * WinBits \in Nat
      BY <1>1, OneType
    <2> HIDE DEF span
    <2> QED BY <1>1, <1>3, <2>1, <2>2, <2>3
  <1>5. link <= w * WinBits
    <2>1. w * 8 <= w * (WinBits * LinkGbps)
      BY <1>1, RateAssumption, ProductMonotone
    <2>2. w * (WinBits * LinkGbps) = (w * WinBits) * LinkGbps
      BY <1>1
    <2>3. w * 8 <= (w * WinBits) * LinkGbps
      BY <2>1, <2>2
    <2> QED BY <1>1, <2>3, DivBounds
  <1>6. time \in Nat \ {0} /\ time <= w * WinBits
    <2> HIDE DEF link, span
    <2> QED BY <1>1, <1>2, <1>3, <1>4, <1>5
  <1>7. kbps \in Nat \ {0}
    <2> HIDE DEF time
    <2>1. w * WinBits >= 1 * time
      BY <1>1, <1>6
    <2>2. (w * WinBits) \div time \in Nat /\ (w * WinBits) \div time >= 1
      BY <1>1, <1>6, <2>1, DivBounds
    <2> QED BY <2>2, OneType DEF Min2
  <1>8. kbps * Kbps \in Nat /\ 2 <= kbps * Kbps
    <2> HIDE DEF kbps
    <2>1. 1 * 2 <= kbps * Kbps
      BY <1>7, RateAssumption, ProductMonotone
    <2> QED BY <1>7, <2>1, RateAssumption
  <1>9. Min2(kbps * Kbps, MaxRate) \in 2 .. MaxRate
    <2> HIDE DEF kbps
    <2> QED BY <1>8, RateAssumption DEF Min2
  <1> QED BY <1>9 DEF set_tx_rate_ep

\* Updates of single fields.
LEMMA WindowUpdate ==
  ASSUME NEW s \in Connection, NEW w \in Nat, NEW b \in BOOLEAN, NEW e \in Nat
  PROVE  [s EXCEPT !.window = w, !.slowstart = b, !.ecn_rate = e,
                   !.cc_rexmits = 0] \in Connection
  BY DEF Connection

LEMMA PendingUpdate ==
  ASSUME NEW s \in Connection, NEW n \in 0 .. RexmitInts, NEW x \in Nat
  PROVE  /\ [s EXCEPT !.cnt_tx_pending = n, !.cc_rexmits = x] \in Connection
         /\ [s EXCEPT !.cnt_tx_pending = n, !.ts_tx_pending = 0] \in Connection
         /\ [s EXCEPT !.cnt_tx_pending = n] \in Connection
  BY DEF Connection

LEMMA ForgetType ==
  ASSUME NEW s \in Connection
  PROVE  Forget(s) \in Connection
  <1>1. 0 \in 0 .. Short - 1 /\ 0 \in Counter /\ 0 \in 0 .. MaxRtt - 1
    BY BoundAssumption, WordAssumption, RttAssumption DEF Counter
  <1> QED BY <1>1 DEF Forget, Connection

\* What the run of the event processors leaves in the connection.
LEMMA ProcessorsType ==
  ASSUME NEW s \in Connection, s.ecn_rate <= One,
         Mss <= s.window, s.window <= TxBuf
  PROVE  LET t == slows_congc_ep(s)
             u == Forget(ack_timeout_ep(t))
         IN  /\ u \in Connection
             /\ u.window = t.window
             /\ u.ecn_rate <= One
             /\ u.cc_last_ackb = s.cc_last_ackb
             /\ u.slowstart => s.slowstart
             /\ Rtt(t) \in 1 .. MaxRtt
  <1> DEFINE t == slows_congc_ep(s)
             a == ack_timeout_ep(t)
  <1>1. t.window \in Nat /\ EcnRate(s) \in 0 .. One
    BY WindowSound, EcnRateSound, OneType
  <1>2. SlowStart(s) \in BOOLEAN
    BY DEF SlowStart, Connection, Congested
  <1>3. t = [s EXCEPT !.window = t.window, !.slowstart = SlowStart(s),
                      !.ecn_rate = t.ecn_rate, !.cc_rexmits = 0]
    BY DEF slows_congc_ep, Connection
  <1>4. t.ecn_rate \in Nat /\ t.ecn_rate <= One
    BY <1>1, OneType DEF slows_congc_ep, Connection
  <1>5. t.slowstart => s.slowstart
    BY DEF slows_congc_ep, Connection, SlowStart
  <1>6. t.cc_last_ackb = s.cc_last_ackb
    BY DEF slows_congc_ep, Connection
  <1> HIDE DEF t
  <1>7. t \in Connection
    <2> DEFINE b == SlowStart(s)
               w == t.window
               e == t.ecn_rate
    <2>1. w \in Nat /\ b \in BOOLEAN /\ e \in Nat
          /\ t = [s EXCEPT !.window = w, !.slowstart = b, !.ecn_rate = e,
                           !.cc_rexmits = 0]
      BY <1>1, <1>2, <1>3, <1>4
    <2> HIDE DEF b, w, e
    <2> QED BY <2>1, WindowUpdate
  <1>8. Rtt(t) \in 1 .. MaxRtt
    BY <1>7, RttAssumption DEF Rtt, Connection
  <1>9. /\ a \in Connection
        /\ a.window = t.window /\ a.ecn_rate = t.ecn_rate
        /\ a.cc_last_ackb = t.cc_last_ackb /\ a.slowstart = t.slowstart
    <2>1. CASE Expired(t)
      <3>1. a = [t EXCEPT !.cnt_tx_pending = 0, !.cc_rexmits = t.cc_rexmits + 1]
        BY <2>1 DEF ack_timeout_ep
      <3>2. t.cc_rexmits + 1 \in Nat /\ 0 \in 0 .. RexmitInts
        BY <1>7, RttAssumption DEF Connection
      <3> DEFINE x == t.cc_rexmits + 1
      <3>3. a \in Connection
        <4>1. x \in Nat /\ a = [t EXCEPT !.cnt_tx_pending = 0, !.cc_rexmits = x]
          BY <3>1, <3>2
        <4> HIDE DEF x, a
        <4>2. [t EXCEPT !.cnt_tx_pending = 0, !.cc_rexmits = x] \in Connection
          BY <1>7, <3>2, <4>1, PendingUpdate
        <4> QED BY <4>1, <4>2
      <3> QED BY <1>7, <3>1, <3>3 DEF Connection
    <2>2. CASE ~Expired(t) /\ Stalled(t)
      <3>1. Min2(t.cnt_tx_pending + 1, RexmitInts) \in 0 .. RexmitInts
        BY <1>7, RttAssumption DEF Min2, Connection
      <3>2. (IF t.cnt_tx_pending = 0 THEN t.curr_tsc ELSE t.ts_tx_pending) = 0
        BY <1>7 DEF Connection
      <3>3. a = [t EXCEPT !.cnt_tx_pending = Min2(t.cnt_tx_pending + 1, RexmitInts),
                          !.ts_tx_pending = 0]
        BY <2>2, <3>2 DEF ack_timeout_ep
      <3>4. a \in Connection
        BY <1>7, <3>1, <3>3, PendingUpdate
      <3> QED BY <1>7, <3>3, <3>4 DEF Connection
    <2>3. CASE ~Expired(t) /\ ~Stalled(t)
      <3>1. a = [t EXCEPT !.cnt_tx_pending = 0]
        BY <2>3 DEF ack_timeout_ep
      <3>2. 0 \in 0 .. RexmitInts /\ 0 \in Nat
        BY RttAssumption
      <3>3. a \in Connection
        BY <1>7, <3>1, <3>2, PendingUpdate, Zenon
      <3> QED BY <1>7, <3>1, <3>3 DEF Connection
    <2> QED BY <2>1, <2>2, <2>3
  <1> HIDE DEF a
  <1>10. /\ Forget(a) \in Connection
         /\ Forget(a).window = a.window /\ Forget(a).ecn_rate = a.ecn_rate
         /\ Forget(a).cc_last_ackb = a.cc_last_ackb
         /\ Forget(a).slowstart = a.slowstart
    <2>1. Forget(a) \in Connection
      BY <1>9, ForgetType
    <2> QED BY <1>9, <2>1 DEF Forget, Connection
  <1> QED BY <1>4, <1>5, <1>6, <1>8, <1>9, <1>10 DEF t, a

-----------------------------------------------------------------------------
(* The inductive invariant                                                 *)

\* The counter of go-backs does not wrap, and until the first one the rate,
\* also one that a handler has read to halve it, is at least two.
Halvable ==
  /\ cc.cnt_tx_drops = drops
  /\ halving # -1 => drops < MaxDrops
  /\ drops = 0 => cc.rate >= 2 /\ (halving # -1 => halving >= 2)

\* CountedOnce bounds the bytes not yet seen by a word, so that the counter
\* tells them apart; Halvable keeps the rate above zero.
IInv == TypeOK /\ WindowBounds /\ FractionSound /\ CountedOnce /\ Halvable

LEMMA InitIInv == Init => IInv
  <1> SUFFICES ASSUME Init PROVE IInv
    OBVIOUS
  <1>1. /\ 0 \in 0 .. Short - 1 /\ 0 \in Counter /\ 0 \in 0 .. MaxRtt - 1
        /\ 0 \in 0 .. RexmitInts /\ MinRate \in Rate /\ 2 * Mss \in Nat
        /\ 0 \in 0 .. TxBuf /\ 0 \in 0 .. MaxAcked /\ 0 \in 0 .. MaxDrops
    BY BoundAssumption, WordAssumption, RttAssumption, WindowAssumption,
       RateAssumption DEF Counter, Rate
  <1>2. cc \in MapEntry
    BY <1>1 DEF Init, MapEntry
  <1>3. c \in Connection
    BY <1>1 DEF Init, Connection
  <1>4. TypeOK
    BY <1>1, <1>2, <1>3 DEF Init, TypeOK
  <1>5. WindowBounds /\ FractionSound
    BY OneType, WindowAssumption DEF Init, WindowBounds, FractionSound
  <1>6. CountedOnce
    <2>1. cc.cnt_rx_ack_bytes = 0 /\ c.cc_last_ackb = 0 /\ acked = 0 /\ seen = 0
      BY DEF Init
    <2>2. Sub(0, 0) = 0
      BY <1>1, AddSub
    <2> QED BY <2>1, <2>2 DEF CountedOnce
  <1>7. Halvable
    BY RateAssumption DEF Init, Halvable
  <1> QED BY <1>4, <1>5, <1>6, <1>7 DEF IInv

\* The difference of two counters does not change when both have moved on by
\* less than a word.
LEMMA DifferenceExact ==
  ASSUME NEW x \in Counter, NEW y \in Counter, NEW n \in Counter,
         Sub(x, y) + n < Word
  PROVE  Sub(Add(x, n), y) = Sub(x, y) + n
  <1>1. /\ Add(x, n) \in Counter
        /\ Add(x, n) = IF x + n < Word THEN x + n ELSE x + n - Word
        /\ Sub(x, y) = IF x >= y THEN x - y ELSE x - y + Word
    BY AddSub
  <1>2. Sub(Add(x, n), y) = IF Add(x, n) >= y THEN Add(x, n) - y
                                             ELSE Add(x, n) - y + Word
    BY <1>1, AddSub
  <1> QED BY <1>1, <1>2, WordAssumption DEF Counter

LEMMA RttEstType ==
  ASSUME TypeOK, NEW rtt \in {-1} \cup Rtts
  PROVE  RttEst(rtt) \in 0 .. MaxRtt - 1
  <1>1. cc.rtt_est \in 0 .. MaxRtt - 1 /\ MaxRtt \in Nat
    BY RttAssumption DEF TypeOK, MapEntry
  <1>2. CASE rtt = -1
    BY <1>1, <1>2 DEF RttEst
  <1>3. CASE rtt # -1 /\ cc.rtt_est = 0
    BY <1>1, <1>3, RttAssumption DEF RttEst
  <1>4. CASE rtt # -1 /\ cc.rtt_est # 0
    <2>1. rtt \in 0 .. MaxRtt - 1
      BY <1>4, RttAssumption
    <2>2. (cc.rtt_est * 7 + rtt) \div 8 \in 0 .. MaxRtt - 1
      BY <1>1, <2>1
    <2> QED BY <1>4, <2>2 DEF RttEst
  <1> QED BY <1>2, <1>3, <1>4

-----------------------------------------------------------------------------
(* The steps                                                               *)

\* Updates of the map entry.
LEMMA EntryUpdate ==
  ASSUME NEW e \in MapEntry, NEW b \in BOOLEAN, NEW n \in Counter,
         NEW r \in Rate, NEW d \in 0 .. Short - 1, NEW t \in 0 .. MaxRtt - 1
  PROVE  /\ [e EXCEPT !.txp = b] \in MapEntry
         /\ [e EXCEPT !.cnt_rx_ack_bytes = n, !.txp = b, !.rtt_est = t] \in MapEntry
         /\ [e EXCEPT !.cnt_rx_ecn_bytes = n] \in MapEntry
         /\ [e EXCEPT !.rate = r, !.cnt_tx_drops = d] \in MapEntry
         /\ [e EXCEPT !.rate = r] \in MapEntry
  BY DEF MapEntry

LEMMA Fields ==
  ASSUME TypeOK
  PROVE  /\ cc.rate \in Rate /\ cc.cnt_tx_drops \in 0 .. Short - 1
         /\ cc.cnt_rx_ack_bytes \in Counter /\ cc.cnt_rx_ecn_bytes \in Counter
         /\ cc.rtt_est \in 0 .. MaxRtt - 1 /\ cc.txp \in BOOLEAN
         /\ cc.curr_tsc = 0
         /\ c.cc_last_drops \in 0 .. Short - 1 /\ c.cc_last_ackb \in Counter
         /\ c.cc_last_ecnb \in Counter /\ c.cnt_rx_ack_bytes \in Counter
         /\ c.window \in Nat
  BY DEF TypeOK, MapEntry, Connection

LEMMA SendStep ==
  ASSUME IInv, NEW n \in Sizes, send_ep(n)
  PROVE  IInv'
  <1>1. cc' \in MapEntry
    <2>1. /\ cc \in MapEntry /\ cc.rate \in Rate /\ cc.cnt_tx_drops \in 0 .. Short - 1
          /\ cc.cnt_rx_ack_bytes \in Counter /\ cc.rtt_est \in 0 .. MaxRtt - 1
      BY Fields DEF IInv, TypeOK
    <2> QED BY <2>1, EntryUpdate, Zenon DEF send_ep
  <1>2. out' \in 0 .. TxBuf
    BY WindowAssumption DEF IInv, TypeOK, send_ep
  <1>3. TypeOK'
    BY <1>1, <1>2 DEF IInv, TypeOK, send_ep, slowVars
  <1>4. /\ cc'.cnt_rx_ack_bytes = cc.cnt_rx_ack_bytes /\ cc'.rate = cc.rate
        /\ cc'.cnt_tx_drops = cc.cnt_tx_drops
    BY DEF send_ep, IInv, TypeOK, MapEntry
  <1> QED BY <1>3, <1>4 DEF IInv, send_ep, slowVars, WindowBounds, FractionSound,
                            CountedOnce, Halvable

LEMMA AckStep ==
  ASSUME IInv, NEW n \in {0} \cup Sizes, NEW ecn \in BOOLEAN,
         NEW rtt \in {-1} \cup Rtts, AckBytes(n, ecn, rtt)
  PROVE  IInv'
  <1> DEFINE a == Add(cc.cnt_rx_ack_bytes, n)
             t == RttEst(rtt)
             b == (out # 0)
  <1>1. n \in 0 .. TxBuf /\ n \in Counter
    BY WindowAssumption, WordAssumption DEF Counter
  <1>2. /\ cc \in MapEntry /\ cc.rate \in Rate /\ cc.cnt_tx_drops \in 0 .. Short - 1
        /\ cc.cnt_rx_ack_bytes \in Counter /\ c.cc_last_ackb \in Counter
    BY Fields DEF IInv, TypeOK
  <1>3. a \in Counter /\ t \in 0 .. MaxRtt - 1 /\ b \in BOOLEAN
    BY <1>1, <1>2, AddSub, RttEstType DEF IInv
  <1>4. cc' = [cc EXCEPT !.cnt_rx_ack_bytes = a, !.txp = b, !.rtt_est = t]
    BY DEF AckBytes
  <1> HIDE DEF t, b
  <1>5. cc' \in MapEntry
    <2> HIDE DEF a
    <2> QED BY <1>2, <1>3, <1>4, EntryUpdate, Zenon
  <1>6. out' \in 0 .. TxBuf /\ mark' \in 0 .. TxBuf /\ acked' \in 0 .. MaxAcked
    BY <1>1, WindowAssumption, BoundAssumption DEF IInv, TypeOK, AckBytes
  <1>7. TypeOK'
    BY <1>5, <1>6 DEF IInv, TypeOK, AckBytes, slowVars
  <1>8. /\ cc'.cnt_rx_ack_bytes = a /\ cc'.rate = cc.rate
        /\ cc'.cnt_tx_drops = cc.cnt_tx_drops
    BY <1>2, <1>4 DEF MapEntry
  <1>9. CountedOnce'
    <2>1. /\ acked \in Nat /\ seen \in Nat /\ acked' = acked + n /\ seen' = seen /\ c' = c
          /\ acked - seen = Sub(cc.cnt_rx_ack_bytes, c.cc_last_ackb)
          /\ acked + n - seen < Word
      BY BoundAssumption DEF AckBytes, IInv, TypeOK, CountedOnce, slowVars
    <2>2. n \in Nat
      BY <1>1, WindowAssumption
    <2>3. Sub(cc.cnt_rx_ack_bytes, c.cc_last_ackb) + n < Word
      BY <2>1, <2>2
    <2>4. Sub(a, c.cc_last_ackb) = Sub(cc.cnt_rx_ack_bytes, c.cc_last_ackb) + n
      BY <1>1, <1>2, <2>3, DifferenceExact
    <2> HIDE DEF a
    <2>5. acked' - seen' = Sub(cc'.cnt_rx_ack_bytes, c'.cc_last_ackb)
      BY <1>8, <2>1, <2>2, <2>4
    <2> QED BY <2>5 DEF CountedOnce
  <1> QED BY <1>7, <1>8, <1>9 DEF IInv, AckBytes, slowVars, WindowBounds,
                                  FractionSound, Halvable

LEMMA MarkStep == ASSUME IInv, AckMark PROVE IInv'
  <1> DEFINE a == Add(cc.cnt_rx_ecn_bytes, mark)
  <1>1. /\ cc \in MapEntry /\ cc.rate \in Rate /\ cc.cnt_tx_drops \in 0 .. Short - 1
        /\ cc.cnt_rx_ecn_bytes \in Counter /\ cc.rtt_est \in 0 .. MaxRtt - 1
        /\ cc.txp \in BOOLEAN
    BY Fields DEF IInv, TypeOK
  <1>2. mark \in Counter
    BY WindowAssumption, WordAssumption DEF IInv, TypeOK, Counter
  <1>3. a \in Counter
    BY <1>1, <1>2, AddSub
  <1>4. cc' = [cc EXCEPT !.cnt_rx_ecn_bytes = a]
    BY DEF AckMark
  <1> HIDE DEF a
  <1>5. cc' \in MapEntry
    BY <1>1, <1>3, <1>4, EntryUpdate, Zenon
  <1>6. mark' \in 0 .. TxBuf
    BY WindowAssumption DEF AckMark
  <1>7. TypeOK'
    BY <1>5, <1>6 DEF IInv, TypeOK, AckMark, slowVars
  <1>8. /\ cc'.cnt_rx_ack_bytes = cc.cnt_rx_ack_bytes /\ cc'.rate = cc.rate
        /\ cc'.cnt_tx_drops = cc.cnt_tx_drops
    BY <1>1, <1>4 DEF MapEntry
  <1> QED BY <1>7, <1>8 DEF IInv, AckMark, slowVars, WindowBounds, FractionSound,
                            CountedOnce, Halvable

LEMMA ReadRateStep == ASSUME IInv, GoBackRead PROVE IInv'
  <1>1. cc \in MapEntry /\ cc.rate \in Rate
    BY Fields DEF IInv, TypeOK
  <1>2. cc' = [cc EXCEPT !.txp = FALSE]
    BY DEF GoBackRead
  <1>3. cc' \in MapEntry
    BY <1>1, <1>2 DEF MapEntry
  <1>4. /\ cc'.cnt_rx_ack_bytes = cc.cnt_rx_ack_bytes /\ cc'.rate = cc.rate
        /\ cc'.cnt_tx_drops = cc.cnt_tx_drops
    BY <1>1, <1>2 DEF MapEntry
  <1>5. out' \in 0 .. TxBuf
    BY WindowAssumption DEF GoBackRead
  <1>6. TypeOK'
    BY <1>1, <1>3, <1>5 DEF IInv, TypeOK, GoBackRead, slowVars
  <1> QED BY <1>4, <1>6 DEF IInv, GoBackRead, slowVars, WindowBounds, FractionSound,
                            CountedOnce, Halvable

LEMMA StoreRateStep == ASSUME IInv, GoBackStore PROVE IInv'
  <1> DEFINE r == IF cc.cnt_tx_drops = 0 THEN halving \div 2 ELSE cc.rate
             d == (cc.cnt_tx_drops + 1) % Short
  <1>1. /\ cc \in MapEntry /\ cc.rate \in Rate /\ cc.cnt_tx_drops \in 0 .. Short - 1
        /\ cc.cnt_rx_ack_bytes \in Counter /\ cc.rtt_est \in 0 .. MaxRtt - 1
        /\ halving \in Rate /\ cc.txp \in BOOLEAN
    BY Fields DEF IInv, TypeOK, GoBackStore
  <1>2. r \in Rate
    <2>1. CASE cc.cnt_tx_drops = 0
      <3>1. halving \in 2 .. MaxRate
        BY <1>1, <2>1, RateAssumption DEF IInv, Halvable, GoBackStore, Rate
      <3>2. halving \div 2 \in Rate
        BY <3>1, RateAssumption DEF Rate
      <3> QED BY <2>1, <3>2
    <2>2. CASE cc.cnt_tx_drops # 0
      BY <1>1, <2>2
    <2> QED BY <2>1, <2>2
  <1>3. d \in 0 .. Short - 1 /\ d = drops + 1 /\ drops + 1 <= MaxDrops
    BY <1>1, BoundAssumption DEF IInv, TypeOK, Halvable, GoBackStore
  <1>4. cc' = [cc EXCEPT !.rate = r, !.cnt_tx_drops = d]
    BY DEF GoBackStore
  <1> HIDE DEF r, d
  <1>5. cc' \in MapEntry
    BY <1>1, <1>2, <1>3, <1>4, EntryUpdate, Zenon
  <1>6. drops' \in 0 .. MaxDrops
    BY <1>3, BoundAssumption DEF GoBackStore, IInv, TypeOK
  <1>7. TypeOK'
    BY <1>5, <1>6 DEF IInv, TypeOK, GoBackStore, slowVars
  <1>8. /\ cc'.cnt_rx_ack_bytes = cc.cnt_rx_ack_bytes
        /\ cc'.cnt_tx_drops = d
    BY <1>1, <1>4 DEF MapEntry
  <1>9. Halvable'
    <2>1. drops' = d /\ halving' = -1 /\ drops' # 0
      BY <1>3, BoundAssumption DEF GoBackStore, IInv, TypeOK
    <2> QED BY <1>8, <2>1 DEF Halvable
  <1> QED BY <1>7, <1>8, <1>9 DEF IInv, GoBackStore, slowVars, WindowBounds,
                                  FractionSound, CountedOnce

\* The reads of the copies.
LEMMA CopyUpdate ==
  ASSUME NEW s \in Connection, NEW d \in 0 .. Short - 1, NEW e \in 0 .. Short - 1,
         NEW m \in Counter, NEW n \in Counter, NEW b \in BOOLEAN,
         NEW t \in 0 .. MaxRtt - 1
  PROVE  /\ [s EXCEPT !.cnt_tx_drops = d, !.cc_last_drops = e] \in Connection
         /\ [s EXCEPT !.cnt_rx_ack_bytes = m, !.cc_last_ackb = n] \in Connection
         /\ [s EXCEPT !.cnt_rx_ecn_bytes = m, !.cc_last_ecnb = n] \in Connection
         /\ [s EXCEPT !.txp = b, !.rtt_est = t, !.curr_tsc = 0] \in Connection
  BY DEF Connection

\* A step that leaves the window, the fraction and the fast path alone.
LEMMA CopyStep ==
  ASSUME IInv, c' \in Connection, pc' \in {"drops", "ackb", "ecnb", "rest", "eps"},
         c'.window = c.window, c'.ecn_rate = c.ecn_rate,
         c'.cc_last_ackb = c.cc_last_ackb, UNCHANGED <<fastVars, timer, seen>>
  PROVE  IInv'
  <1>1. TypeOK'
    BY DEF IInv, TypeOK, fastVars
  <1> QED BY <1>1 DEF IInv, fastVars, WindowBounds, FractionSound, CountedOnce,
                      Halvable

LEMMA ReadStep == ASSUME IInv, ReadDrops \/ ReadEcnb \/ ReadRest PROVE IInv'
  <1>1. /\ c \in Connection /\ TypeOK
        /\ 0 \in 0 .. Short - 1 /\ 0 \in Counter /\ 0 \in 0 .. MaxRtt - 1
    BY BoundAssumption, WordAssumption, RttAssumption DEF IInv, TypeOK, Counter
  <1>2. CASE ReadDrops
    <2> DEFINE d == (cc.cnt_tx_drops - c.cc_last_drops) % Short
    <2>1. d \in 0 .. Short - 1 /\ cc.cnt_tx_drops \in 0 .. Short - 1
      BY <1>1, Fields, BoundAssumption
    <2>2. c' = [c EXCEPT !.cnt_tx_drops = d, !.cc_last_drops = cc.cnt_tx_drops]
      BY <1>2 DEF ReadDrops
    <2> HIDE DEF d
    <2>3. c' \in Connection
      BY <1>1, <2>1, <2>2, CopyUpdate, Zenon
    <2>4. /\ c'.window = c.window /\ c'.ecn_rate = c.ecn_rate
          /\ c'.cc_last_ackb = c.cc_last_ackb
      BY <1>1, <2>2 DEF Connection
    <2> QED BY <1>2, <2>3, <2>4, CopyStep DEF ReadDrops
  <1>3. CASE ReadEcnb
    <2> DEFINE m == Sub(cc.cnt_rx_ecn_bytes, c.cc_last_ecnb)
    <2>1. m \in Counter /\ cc.cnt_rx_ecn_bytes \in Counter
      BY <1>1, Fields, AddSub
    <2>2. c' = [c EXCEPT !.cnt_rx_ecn_bytes = m, !.cc_last_ecnb = cc.cnt_rx_ecn_bytes]
      BY <1>3 DEF ReadEcnb
    <2> HIDE DEF m
    <2>3. c' \in Connection
      BY <1>1, <2>1, <2>2, CopyUpdate, Zenon
    <2>4. /\ c'.window = c.window /\ c'.ecn_rate = c.ecn_rate
          /\ c'.cc_last_ackb = c.cc_last_ackb
      BY <1>1, <2>2 DEF Connection
    <2> QED BY <1>3, <2>3, <2>4, CopyStep DEF ReadEcnb
  <1>4. CASE ReadRest
    <2>1. cc.txp \in BOOLEAN /\ cc.rtt_est \in 0 .. MaxRtt - 1 /\ cc.curr_tsc = 0
      BY <1>1, Fields
    <2>2. c' = [c EXCEPT !.txp = cc.txp, !.rtt_est = cc.rtt_est, !.curr_tsc = 0]
      BY <1>4, <2>1 DEF ReadRest
    <2>3. c' \in Connection
      BY <1>1, <2>1, <2>2 DEF Connection
    <2>4. /\ c'.window = c.window /\ c'.ecn_rate = c.ecn_rate
          /\ c'.cc_last_ackb = c.cc_last_ackb
      BY <1>1, <2>2 DEF Connection
    <2> QED BY <1>4, <2>3, <2>4, CopyStep DEF ReadRest
  <1> QED BY <1>2, <1>3, <1>4

LEMMA ReadAckbStep == ASSUME IInv, ReadAckb PROVE IInv'
  <1> DEFINE m == Sub(cc.cnt_rx_ack_bytes, c.cc_last_ackb)
             n == cc.cnt_rx_ack_bytes
  <1>1. c \in Connection /\ TypeOK /\ 0 \in 0 .. Short - 1 /\ 0 \in 0 .. MaxRtt - 1
    BY BoundAssumption, RttAssumption DEF IInv, TypeOK
  <1>2. m \in Counter /\ n \in Counter /\ Sub(n, n) = 0
    <2>1. n \in Counter /\ c.cc_last_ackb \in Counter
      BY <1>1, Fields
    <2>2. m \in Counter
      BY <2>1, AddSub
    <2>3. Sub(n, n) = 0
      BY <2>1, WordAssumption DEF Sub, Counter
    <2> QED BY <2>1, <2>2, <2>3
  <1>3. c' = [c EXCEPT !.cnt_rx_ack_bytes = m, !.cc_last_ackb = n]
    BY DEF ReadAckb
  <1>4. seen' = seen + m /\ acked - seen = m /\ acked \in Nat /\ seen \in Nat
    BY BoundAssumption DEF ReadAckb, IInv, TypeOK, CountedOnce
  <1> HIDE DEF m
  <1>5. c' \in Connection
    BY <1>1, <1>2, <1>3 DEF Connection
  <1>6. c'.window = c.window /\ c'.ecn_rate = c.ecn_rate /\ c'.cc_last_ackb = n
    BY <1>1, <1>3 DEF Connection
  <1>7. seen' = acked /\ seen' \in Nat
    BY <1>2, <1>4, WordAssumption DEF Counter
  <1>8. TypeOK'
    BY <1>1, <1>5, <1>7 DEF TypeOK, ReadAckb, fastVars
  <1>9. CountedOnce'
    BY <1>2, <1>4, <1>6, <1>7 DEF CountedOnce, ReadAckb, fastVars
  <1> QED BY <1>6, <1>8, <1>9 DEF IInv, ReadAckb, fastVars, WindowBounds,
                                  FractionSound, Halvable

LEMMA ProcessorsStep == ASSUME IInv, EventProcessors PROVE IInv'
  <1> DEFINE s == slows_congc_ep(c)
             r == set_tx_rate_ep(s.window, Rtt(s))
  <1>1. /\ c \in Connection /\ c.ecn_rate <= One /\ Mss <= c.window /\ c.window <= TxBuf
        /\ TypeOK
    BY DEF IInv, TypeOK, WindowBounds, FractionSound
  <1>2. s.window \in Mss .. TxBuf
    BY <1>1, WindowSound
  <1>3. /\ c' \in Connection /\ c'.window = s.window /\ c'.ecn_rate <= One
        /\ c'.cc_last_ackb = c.cc_last_ackb /\ Rtt(s) \in 1 .. MaxRtt
    BY <1>1, ProcessorsType DEF EventProcessors
  <1>4. cc' = [cc EXCEPT !.rate = r]
    BY DEF EventProcessors
  <1> HIDE DEF s
  <1>5. r \in 2 .. MaxRate
    BY <1>2, <1>3, RateSound
  <1> HIDE DEF r
  <1>6. r \in Rate /\ r >= 2
    BY <1>5, RateAssumption DEF Rate
  <1>7. cc' \in MapEntry /\ cc'.rate = r /\ cc'.cnt_tx_drops = cc.cnt_tx_drops
        /\ cc'.cnt_rx_ack_bytes = cc.cnt_rx_ack_bytes
    <2>1. cc \in MapEntry
      BY <1>1 DEF TypeOK
    <2>2. cc' \in MapEntry
      BY <1>4, <1>6, <2>1 DEF MapEntry
    <2> QED BY <1>4, <2>1, <2>2 DEF MapEntry
  <1>8. TypeOK'
    <2>1. timer' \in BOOLEAN
      BY DEF EventProcessors
    <2> QED BY <1>1, <1>3, <1>7, <2>1 DEF TypeOK, EventProcessors
  <1>9. WindowBounds' /\ FractionSound'
    BY <1>2, <1>3 DEF WindowBounds, FractionSound
  <1>10. CountedOnce'
    BY <1>3, <1>7 DEF EventProcessors, IInv, CountedOnce
  <1>11. Halvable'
    BY <1>6, <1>7 DEF EventProcessors, IInv, Halvable
  <1> QED BY <1>8, <1>9, <1>10, <1>11 DEF IInv

LEMMA NextIInv == IInv /\ [Next]_vars => IInv'
  <1> SUFFICES ASSUME IInv, [Next]_vars PROVE IInv'
    OBVIOUS
  <1>1. CASE FastPath
    <2>1. CASE \E n \in Sizes : send_ep(n)
      BY <2>1, SendStep
    <2>2. CASE \E n \in {0} \cup Sizes, ecn \in BOOLEAN, rtt \in {-1} \cup Rtts :
                 AckBytes(n, ecn, rtt)
      BY <2>2, AckStep
    <2>3. CASE AckMark
      BY <2>3, MarkStep
    <2>4. CASE GoBackRead
      BY <2>4, ReadRateStep
    <2>5. CASE GoBackStore
      BY <2>5, StoreRateStep
    <2> QED BY <1>1, <2>1, <2>2, <2>3, <2>4, <2>5 DEF FastPath
  <1>2. CASE poll_tcp_cc_to
    BY <1>2, ReadStep, ReadAckbStep, ProcessorsStep DEF poll_tcp_cc_to
  <1>3. CASE UNCHANGED vars
    BY <1>3 DEF vars, IInv, TypeOK, WindowBounds, FractionSound, CountedOnce, Halvable
  <1> QED BY <1>1, <1>2, <1>3 DEF Next

-----------------------------------------------------------------------------
(* The theorems                                                            *)

LEMMA Invariance == Spec => []IInv
  BY InitIInv, NextIInv, PTL DEF Spec

\* Types are kept; in particular no order of halving the rate by the fast path
\* and setting it by the slow path makes the rate zero, by which
\* cc_get_desired_tx_ts() divides.
THEOREM TypeCorrect == Spec => []TypeOK
  <1>1. IInv => TypeOK
    BY DEF IInv
  <1> QED BY <1>1, Invariance, PTL

\* The assertions of slows_congc_ep() on the window never fail, and the fraction
\* of marked bytes stays a fraction, whatever the copies show.
THEOREM WindowSafe == Spec => [](WindowBounds /\ FractionSound)
  <1>1. IInv => WindowBounds /\ FractionSound
    BY DEF IInv
  <1> QED BY <1>1, Invariance, PTL

\* The control loop takes every acknowledged byte into account exactly once
\* although it copies a counter that wraps without a lock.
THEOREM BytesCountedOnce == Spec => []CountedOnce
  <1>1. IInv => CountedOnce
    BY DEF IInv
  <1> QED BY <1>1, Invariance, PTL

\* What a step does to the window and to slow start.
LEMMA WindowStep ==
  ASSUME IInv, [Next]_vars
  PROVE  /\ c'.window <= c.window + c.cnt_rx_ack_bytes
         /\ c'.slowstart => c.slowstart
         /\ pc = "eps" /\ c' # c /\ c.cnt_tx_drops # 0 =>
              c'.window <= Mss \/ 2 * c'.window <= c.window
  <1>1. /\ c \in Connection /\ c.ecn_rate <= One /\ Mss <= c.window /\ c.window <= TxBuf
        /\ c.window \in Nat /\ c.cnt_rx_ack_bytes \in Nat
    BY Fields, WordAssumption DEF IInv, TypeOK, WindowBounds, FractionSound, Counter
  <1>2. CASE EventProcessors
    <2> DEFINE s == slows_congc_ep(c)
    <2>1. c'.window = s.window /\ (c'.slowstart => c.slowstart)
      BY <1>1, <1>2, ProcessorsType DEF EventProcessors
    <2>2. /\ s.window \in Mss .. TxBuf
          /\ s.window <= c.window + c.cnt_rx_ack_bytes
          /\ Congested(c) => s.window = Mss \/ 2 * s.window <= c.window
      BY <1>1, WindowSound
    <2> HIDE DEF s
    <2> QED BY <1>1, <2>1, <2>2, OneType DEF Congested
  <1>3. CASE c'.window = c.window /\ c'.slowstart = c.slowstart
             /\ (c' = c \/ pc # "eps")
    BY <1>1, <1>3
  <1>4. CASE ReadDrops \/ ReadAckb \/ ReadEcnb \/ ReadRest
    BY <1>1, <1>3, <1>4 DEF ReadDrops, ReadAckb, ReadEcnb, ReadRest, Connection
  <1>5. CASE FastPath \/ UNCHANGED vars
    BY <1>3, <1>5 DEF FastPath, send_ep, AckBytes, AckMark, GoBackRead,
                      GoBackStore, slowVars, vars
  <1> QED BY <1>2, <1>4, <1>5 DEF Next, poll_tcp_cc_to

\* A run of the control loop grows the window by no more than the bytes
\* acknowledged since the last run.
THEOREM GrowthIsBounded == Spec => GrowthBounded
  <1>1. IInv /\ [Next]_vars => [c'.window <= c.window + c.cnt_rx_ack_bytes]_c
    BY WindowStep
  <1> QED BY <1>1, Invariance, PTL DEF Spec, GrowthBounded

\* A run that sees a go-back halves the window down to a segment at least, and
\* slow start never comes back.
THEOREM LossBacksOff == Spec => BacksOff
  <1>1. IInv /\ [Next]_vars =>
          [/\ c'.slowstart => c.slowstart
           /\ pc = "eps" /\ c.cnt_tx_drops # 0 =>
                c'.window <= Mss \/ 2 * c'.window <= c.window]_c
    BY WindowStep
  <1> QED BY <1>1, Invariance, PTL DEF Spec, BacksOff
=============================================================================
