-------------------------------- MODULE TcpCc --------------------------------
(***************************************************************************)
(* Congestion control of one TCP connection: the counters that the fast    *)
(* path keeps in a map shared with the slow path (struct bpf_cc), and the  *)
(* control loop of the slow path, poll_tcp_cc_to() in                      *)
(* micro_kernel/tcp.cc, which copies them (mtp_snapshot_cc) and runs the   *)
(* event processors of micro_kernel/ctrl_plane_mtp.h: DCTCP on a window    *)
(* (slows_congc_ep), the rate (set_tx_rate_ep) and the retransmission      *)
(* timeout (ack_timeout_ep).                                               *)
(*                                                                         *)
(* The two run on different CPUs without a lock: the copy is made field by *)
(* field while the fast path counts.  The control loop runs an interval of *)
(* two round trips after the last time; here it may run at any time.       *)
(***************************************************************************)
EXTENDS SeqArith

CONSTANTS Mss,          \* 1448
          TxBuf,        \* tx_buf_size
          Short,        \* 2^16, the width of cnt_tx_drops
          Weight,       \* CC_DCTCP_WEIGHT
          RexmitInts,   \* REXMIT_INTS
          RtoMin,       \* TCP_RTO_MIN
          RttInit,      \* TCP_RTT_INIT
          MaxRtt,       \* TCP_MAX_RTT
          WinBits,      \* 8 * 1000000: a window over nanoseconds, in kbps
          RttNs,        \* 1000, the nanoseconds of a microsecond
          LinkGbps,     \* MAX_LINK_BANDWIDTH / 1e6
          Kbps,         \* 125, the bytes per second of a kbps
          MinRate,      \* CC_DCTCP_MIN, the rate at the start
          MaxRate,      \* 25 Gbps in bytes per second
          Sizes,        \* bound: bytes sent or acknowledged at once
          Rtts,         \* bound: samples of the round trip time
          MaxAcked,     \* bound: bytes that are acknowledged
          MaxDrops      \* bound: go-backs

\* UINT32_MAX, which stands for 1 in the fractions.
One == Word - 1

ASSUME WindowAssumption == /\ Mss \in Nat \ {0} /\ TxBuf \in Nat
                           /\ 2 * Mss <= TxBuf /\ TxBuf < Word
                           /\ Sizes \subseteq 1 .. TxBuf
ASSUME WeightAssumption == Weight \in 0 .. One
ASSUME RttAssumption == /\ RttInit \in Nat \ {0} /\ MaxRtt \in Nat
                        /\ RttInit < MaxRtt /\ Rtts \subseteq 0 .. MaxRtt - 1
                        /\ RttNs \in Nat \ {0}
                        /\ RexmitInts \in Nat /\ RtoMin \in Nat \ {0}
\* A segment per longest round trip is a rate, the link is no slower, and
\* every rate can be halved.
ASSUME RateAssumption == /\ WinBits \in Nat /\ LinkGbps \in Nat \ {0}
                         /\ Mss * WinBits >= MaxRtt * RttNs
                         /\ WinBits * LinkGbps >= 8
                         /\ Kbps \in Nat /\ MinRate \in Nat /\ MaxRate \in Nat
                         /\ 2 <= Kbps /\ 2 <= MinRate /\ MinRate <= MaxRate
\* Fewer go-backs than the counter can tell apart.
ASSUME BoundAssumption == /\ Short \in Nat \ {0} /\ MaxAcked \in Nat
                          /\ MaxDrops \in 0 .. Short - 1

VARIABLES
  cc,       \* struct bpf_cc, the map entry of the connection
  mark,     \* bytes of an acknowledgement whose ECN mark is not yet counted
  halving,  \* the rate that a go-back has read and not yet stored (-1: none)
  out,      \* bytes sent and not acknowledged
  c,        \* struct tcp_connection, the fields of congestion control
  pc,       \* what the control loop does next
  timer,    \* issue_retransmit() has sent its packet
  acked,    \* ghost: bytes acknowledged so far
  drops,    \* ghost: go-backs so far
  seen      \* ghost: bytes that the control loop has taken into account

vars == <<cc, mark, halving, out, c, pc, timer, acked, drops, seen>>
fastVars == <<cc, mark, halving, out, acked, drops>>
slowVars == <<c, pc, timer, seen>>

Init ==
  /\ cc = [rate |-> MinRate, cnt_tx_drops |-> 0, cnt_rx_ack_bytes |-> 0,
           cnt_rx_ecn_bytes |-> 0, rtt_est |-> 0, txp |-> FALSE, curr_tsc |-> 0]
  /\ mark = 0 /\ halving = -1 /\ out = 0
  /\ c = [cnt_tx_drops |-> 0, cnt_rx_ack_bytes |-> 0, cnt_rx_ecn_bytes |-> 0,
          rtt_est |-> 0, txp |-> FALSE, curr_tsc |-> 0,
          cc_last_drops |-> 0, cc_last_ackb |-> 0, cc_last_ecnb |-> 0,
          window |-> 2 * Mss, slowstart |-> TRUE, ecn_rate |-> 0,
          cc_rexmits |-> 0, cnt_tx_pending |-> 0, ts_tx_pending |-> 0]
  /\ pc = "drops" /\ timer = FALSE
  /\ acked = 0 /\ drops = 0 /\ seen = 0

-----------------------------------------------------------------------------
(* The fast path                                                           *)

Idle == mark = 0 /\ halving = -1

\* send_ep()
send_ep(n) ==
  /\ Idle
  /\ out + n <= TxBuf
  /\ out' = out + n
  /\ cc' = [cc EXCEPT !.txp = TRUE]
  /\ UNCHANGED <<mark, halving, acked, drops, slowVars>>

\* The estimate after a sample (-1: none), which is below TCP_MAX_RTT.
RttEst(rtt) == CASE rtt = -1 -> cc.rtt_est
                 [] rtt # -1 /\ cc.rtt_est = 0 -> rtt
                 [] OTHER -> (cc.rtt_est * 7 + rtt) \div 8

\* fast_retr_rec_ep() and ack_net_ep() for n acknowledged bytes: txp is
\* computed before the bytes are taken off.  Fewer than 2^32 bytes are
\* acknowledged between two runs of the control loop.
AckBytes(n, ecn, rtt) ==
  /\ Idle
  /\ n <= out /\ acked + n <= MaxAcked
  /\ acked + n - seen < Word
  /\ n = 0 => rtt = -1
  /\ out' = out - n
  /\ acked' = acked + n
  /\ cc' = [cc EXCEPT !.cnt_rx_ack_bytes = Add(@, n), !.txp = (out # 0),
                      !.rtt_est = RttEst(rtt)]
  /\ mark' = IF ecn THEN n ELSE 0
  /\ UNCHANGED <<halving, drops, slowVars>>

AckMark ==
  /\ mark > 0
  /\ cc' = [cc EXCEPT !.cnt_rx_ecn_bytes = Add(@, mark)]
  /\ mark' = 0
  /\ UNCHANGED <<halving, out, acked, drops, slowVars>>

\* A go-back after three duplicates (fast_retr_rec_ep): the rate is halved by
\* a read and a store if no drop was counted.
GoBackRead ==
  /\ Idle
  /\ out > 0 /\ drops < MaxDrops
  /\ out' = 0
  /\ cc' = [cc EXCEPT !.txp = FALSE]
  /\ halving' = cc.rate
  /\ UNCHANGED <<mark, acked, drops, slowVars>>

GoBackStore ==
  /\ halving # -1
  /\ cc' = [cc EXCEPT !.rate = IF cc.cnt_tx_drops = 0 THEN halving \div 2 ELSE @,
                      !.cnt_tx_drops = (@ + 1) % Short]
  /\ halving' = -1
  /\ drops' = drops + 1
  /\ UNCHANGED <<mark, out, acked, slowVars>>

FastPath == \/ \E n \in Sizes : send_ep(n)
            \/ \E n \in {0} \cup Sizes, ecn \in BOOLEAN, rtt \in {-1} \cup Rtts :
                 AckBytes(n, ecn, rtt)
            \/ AckMark
            \/ GoBackRead
            \/ GoBackStore

-----------------------------------------------------------------------------
(* The slow path: mtp_snapshot_cc(), one read per step                     *)

\* slows_congc_ep() replaces each copy by its difference to the last one.
ReadDrops ==
  /\ pc = "drops"
  /\ c' = [c EXCEPT !.cnt_tx_drops = (cc.cnt_tx_drops - c.cc_last_drops) % Short,
                    !.cc_last_drops = cc.cnt_tx_drops]
  /\ pc' = "ackb"
  /\ UNCHANGED <<fastVars, timer, seen>>

\* Mutant: the counter is not remembered.
ReadAckbForgets ==
  /\ pc = "ackb"
  /\ c' = [c EXCEPT !.cnt_rx_ack_bytes = Sub(cc.cnt_rx_ack_bytes, c.cc_last_ackb)]
  /\ seen' = seen + Sub(cc.cnt_rx_ack_bytes, c.cc_last_ackb)
  /\ pc' = "ecnb"
  /\ UNCHANGED <<fastVars, timer>>

ReadAckb ==
  /\ pc = "ackb"
  /\ c' = [c EXCEPT !.cnt_rx_ack_bytes = Sub(cc.cnt_rx_ack_bytes, c.cc_last_ackb),
                    !.cc_last_ackb = cc.cnt_rx_ack_bytes]
  /\ seen' = seen + Sub(cc.cnt_rx_ack_bytes, c.cc_last_ackb)
  /\ pc' = "ecnb"
  /\ UNCHANGED <<fastVars, timer>>

ReadEcnb ==
  /\ pc = "ecnb"
  /\ c' = [c EXCEPT !.cnt_rx_ecn_bytes = Sub(cc.cnt_rx_ecn_bytes, c.cc_last_ecnb),
                    !.cc_last_ecnb = cc.cnt_rx_ecn_bytes]
  /\ pc' = "rest"
  /\ UNCHANGED <<fastVars, timer, seen>>

\* The event, which held the current time, is overwritten by the one of the
\* map entry.
ReadRest ==
  /\ pc = "rest"
  /\ c' = [c EXCEPT !.txp = cc.txp, !.rtt_est = cc.rtt_est,
                    !.curr_tsc = cc.curr_tsc]
  /\ pc' = "eps"
  /\ UNCHANGED <<fastVars, timer, seen>>

-----------------------------------------------------------------------------
(* The slow path: the event processors                                     *)

Rtt(s) == IF s.rtt_est = 0 THEN RttInit ELSE s.rtt_est

Congested(s) == s.cnt_tx_drops # 0 \/ s.cc_rexmits # 0

\* Mutant: slow start ends only with a mark.
SlowStartKept(s) == s.slowstart /\ s.cnt_rx_ecn_bytes = 0

\* Slow start ends with any sign of congestion.
SlowStart(s) == s.slowstart /\ ~Congested(s) /\ s.cnt_rx_ecn_bytes = 0

\* The marked bytes, at most those acknowledged if there are any.
Marked(s) == IF s.cnt_rx_ack_bytes > 0
               THEN Min2(s.cnt_rx_ecn_bytes, s.cnt_rx_ack_bytes)
               ELSE s.cnt_rx_ecn_bytes

\* The moving average of the fraction of marked bytes.
EcnRate(s) ==
  IF s.cnt_rx_ack_bytes > 0
    THEN (((Marked(s) * One) \div s.cnt_rx_ack_bytes) * Weight
            + s.ecn_rate * (One - Weight)) \div One
    ELSE s.ecn_rate

\* The window of congestion avoidance, before the limits.
Avoidance(s) ==
  LET incr == (s.cnt_rx_ack_bytes * Mss) \div s.window
  IN  CASE Congested(s) -> s.window \div 2
        [] ~Congested(s) /\ Marked(s) > 0 ->
             (s.window * (One - EcnRate(s) \div 2)) \div One
        [] OTHER -> IF Add(s.window, incr) > s.window
                      THEN Add(s.window, incr) ELSE s.window

\* Mutant: slow start doubles the window.
GrowthDoubles(s) == 2 * s.window

Growth(s) == IF Add(s.window, s.cnt_rx_ack_bytes) > s.window
               THEN Add(s.window, s.cnt_rx_ack_bytes) ELSE s.window

\* Mutant: only the upper limit.
LimitedAbove(win) == Min2(win, TxBuf)

\* At least one segment, at most the send buffer.
Limited(win) == IF win < Mss THEN Mss ELSE Min2(win, TxBuf)

slows_congc_ep(s) ==
  [s EXCEPT !.window = Limited(IF SlowStart(s) THEN Growth(s) ELSE Avoidance(s)),
            !.slowstart = SlowStart(s),
            !.ecn_rate = IF SlowStart(s) \/ Congested(s) THEN @ ELSE EcnRate(s),
            !.cc_rexmits = 0]

\* set_tx_rate_ep(): at most a window per round trip, and what the link takes.
set_tx_rate_ep(win, rtt) ==
  LET link == (win * 8) \div LinkGbps
      time == IF link < rtt * RttNs THEN rtt * RttNs ELSE link
      kbps == Min2((win * WinBits) \div time, One)
  IN  Min2(kbps * Kbps, MaxRate)

\* ack_timeout_ep()
Stalled(s) == s.txp /\ s.cnt_rx_ack_bytes = 0

Expired(s) ==
  /\ Stalled(s)
  /\ s.cnt_tx_pending > 0
  /\ s.cnt_tx_pending + 1 >= RexmitInts
  /\ Sub(s.curr_tsc, s.ts_tx_pending) >= RexmitInts * Rtt(s)
  /\ Sub(s.curr_tsc, s.ts_tx_pending) >= RtoMin

ack_timeout_ep(s) ==
  IF Expired(s)
    THEN [s EXCEPT !.cnt_tx_pending = 0, !.cc_rexmits = @ + 1]
  ELSE IF Stalled(s)
    THEN [s EXCEPT !.cnt_tx_pending = Min2(@ + 1, RexmitInts),
                   !.ts_tx_pending = IF s.cnt_tx_pending = 0 THEN s.curr_tsc
                                                             ELSE @]
    ELSE [s EXCEPT !.cnt_tx_pending = 0]

\* The copies are overwritten before they are used again.
Forget(s) == [s EXCEPT !.cnt_tx_drops = 0, !.cnt_rx_ack_bytes = 0,
                       !.cnt_rx_ecn_bytes = 0, !.rtt_est = 0, !.txp = FALSE]

EventProcessors ==
  /\ pc = "eps"
  /\ LET s == slows_congc_ep(c)
     IN  /\ cc' = [cc EXCEPT !.rate = set_tx_rate_ep(s.window, Rtt(s))]
         /\ c' = Forget(ack_timeout_ep(s))
  /\ timer' = (timer \/ Expired(c))
  /\ pc' = "drops"
  /\ UNCHANGED <<mark, halving, out, acked, drops, seen>>

poll_tcp_cc_to == ReadDrops \/ ReadAckb \/ ReadEcnb \/ ReadRest \/ EventProcessors

Next == FastPath \/ poll_tcp_cc_to

\* The control loop runs for ever, and a handler of the fast path ends.
Spec == /\ Init /\ [][Next]_vars
        /\ WF_vars(poll_tcp_cc_to) /\ WF_vars(AckMark) /\ WF_vars(GoBackStore)

-----------------------------------------------------------------------------
(* Properties                                                              *)

Counter == 0 .. Word - 1
Rate == 1 .. MaxRate

MapEntry == [rate : Rate, cnt_tx_drops : 0 .. Short - 1,
             cnt_rx_ack_bytes : Counter, cnt_rx_ecn_bytes : Counter,
             rtt_est : 0 .. MaxRtt - 1, txp : BOOLEAN, curr_tsc : {0}]
Connection == [cnt_tx_drops : 0 .. Short - 1, cnt_rx_ack_bytes : Counter,
               cnt_rx_ecn_bytes : Counter, rtt_est : 0 .. MaxRtt - 1,
               txp : BOOLEAN, curr_tsc : {0}, cc_last_drops : 0 .. Short - 1,
               cc_last_ackb : Counter, cc_last_ecnb : Counter,
               window : Nat, slowstart : BOOLEAN, ecn_rate : Nat,
               cc_rexmits : Nat, cnt_tx_pending : 0 .. RexmitInts,
               ts_tx_pending : {0}]

\* Types; the rate is never zero, so that cc_get_desired_tx_ts() can divide
\* by it.
TypeOK ==
  /\ cc \in MapEntry
  /\ mark \in 0 .. TxBuf /\ halving \in {-1} \cup Rate /\ out \in 0 .. TxBuf
  /\ c \in Connection
  /\ pc \in {"drops", "ackb", "ecnb", "rest", "eps"} /\ timer \in BOOLEAN
  /\ acked \in 0 .. MaxAcked /\ drops \in 0 .. MaxDrops /\ seen \in Nat

\* The assertions of slows_congc_ep() hold, whatever the copies show: the
\* window is never below a segment and never above the send buffer.
WindowBounds == Mss <= c.window /\ c.window <= TxBuf

\* The fraction of marked bytes never exceeds one, although a copy torn by
\* the fast path shows more marked than acknowledged bytes.
FractionSound == c.ecn_rate <= One

\* Every acknowledged byte is taken into account once, across the wrap of the
\* counter and the race of the copies with the fast path.
CountedOnce == acked - seen = Sub(cc.cnt_rx_ack_bytes, c.cc_last_ackb)

\* A window grows by no more than was acknowledged since the last time.
GrowthBounded == [][c'.window <= c.window + c.cnt_rx_ack_bytes]_c

\* A run of the control loop that sees a go-back halves the window, down to a
\* segment at least, and slow start never comes back.
BacksOff ==
  [][/\ c'.slowstart => c.slowstart
     /\ pc = "eps" /\ c.cnt_tx_drops # 0 =>
          c'.window <= Mss \/ 2 * c'.window <= c.window]_c

\* The comment on ack_timeout_ep()'s packet: sent "due to timeout".  Data that
\* stays unacknowledged is eventually retransmitted.
StallEnds ==
  \A n \in 0 .. MaxAcked : ~<>[](acked = n /\ out > 0 /\ ~timer)
=============================================================================
