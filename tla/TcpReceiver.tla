----------------------------- MODULE TcpReceiver ----------------------------
(***************************************************************************)
(* The receiving half of the TCP connections of one application thread:    *)
(* the eBPF state with the event processors verify_trim_data_ep,           *)
(* detect_ooo_data_ep, flush_ooo_data_ep, data_net_ep and send_ack         *)
(* (micro_kernel/eBPF/tcp/mtp_tcp.h), the queue of acknowledgements that   *)
(* xdp_gen empties at the end of a NAPI batch, and the library's           *)
(* reassembly and receive buffer (lib/funcs_mtp.h, lib/eTran_posix.cc).    *)
(*                                                                         *)
(* The bytes of a stream are numbered from 0.  A packet in the RX ring or  *)
(* in the library carries the number of its first payload byte (off, a     *)
(* ghost that stands for the payload).                                     *)
(***************************************************************************)
EXTENDS SeqArith, Sequences, SequencesExt

CONSTANTS Conn,          \* connections of the thread
          RxBufSize,     \* rx_buf_size of the connections
          ThreadRxBuf,   \* rx_buf_size that the reassembly assumes
          RxAvail,       \* min(rx_buf_size, 0xffff << TCP_WND_SCALE)
          Mss,           \* TCP_MSS_W_TS
          Irs,           \* recv_init_seq
          AckRing,       \* NAPI_BATCH_SIZE, entries of the ACK queue
          Budget,        \* most packets of a NAPI batch
          StreamLen,     \* bound: bytes of a stream
          RingSize       \* bound: entries of the TX and the RX ring

ASSUME BufAssumption == /\ RxBufSize \in Nat \ {0} /\ ThreadRxBuf \in Nat \ {0}
                        /\ RxAvail \in 1 .. RxBufSize
                        /\ Word > 2 * RxBufSize
                        /\ Irs \in 0 .. Word - 1

VARIABLES
  conn,       \* struct bpf_tcp_conn, the receive fields
  ackq,       \* the ACK queue of the CPU
  batch,      \* packets of this NAPI batch so far
  rx, tx,     \* RX ring, and the SYNC packets in the TX ring
  th,         \* reassembly state of the thread (struct app_ctx_per_thread)
  sk,         \* struct eTrantcp_connection, the receive fields
  received,   \* ghost: the bytes that arrived
  delivered,  \* ghost: the bytes that the application has read
  acked       \* ghost: the last acknowledgement that left

vars == <<conn, ackq, batch, rx, tx, th, sk, received, delivered, acked>>

Init ==
  /\ conn = [c \in Conn |-> [rx_next_seq |-> Irs, rx_avail |-> RxAvail,
                             rx_ooo_start |-> 0, rx_ooo_len |-> 0]]
  /\ ackq = <<>> /\ batch = 0
  /\ rx = <<>> /\ tx = <<>>
  /\ th = [following_packets |-> FALSE, expected_seq |-> 0, ooo_start |-> 0,
           ooo_len |-> 0, last_offset |-> 0, rx_next_pos |-> 0]
  /\ sk = [c \in Conn |-> [rxb_head |-> 0, rxb_used |-> 0, rxb_bump |-> 0,
                           in_rx_bump_pending |-> FALSE,
                           rx_addrs |-> <<>>, ooo_rx_addrs |-> <<>>]]
  /\ received = [c \in Conn |-> {}]
  /\ delivered = [c \in Conn |-> <<>>]
  /\ acked = [c \in Conn |-> Irs]

-----------------------------------------------------------------------------
(* The kernel: xdp_sock, a data segment                                    *)

\* The event after verify_trim_data_ep(): data_len and seq_num are trimmed to
\* the receive buffer, plen (-1: not set) goes to the library.
verify_trim_data_ep(k, seq, len) ==
  LET first == k.rx_next_seq
      last == Add(first, k.rx_avail)
      ts == TrimStart(seq, first, last)
      te == TrimEnd(Add(seq, len), first, last)
      rest == IF len >= ts + te THEN len - ts - te ELSE len
  IN  IF Overlap(seq, Add(seq, len), first, last)
        THEN [seq_num |-> Add(seq, ts), data_len |-> rest, plen |-> rest,
              trim |-> ts, skip |-> FALSE, trigger_ack |-> TRUE]
        ELSE [seq_num |-> seq, data_len |-> len, plen |-> -1, trim |-> 0,
              skip |-> TRUE, trigger_ack |-> FALSE]

\* detect_ooo_data_ep(): the interval of out-of-order data, and the event.
OooInterval(k, ev) ==
  IF k.rx_ooo_len = 0
    THEN [k EXCEPT !.rx_ooo_start = ev.seq_num, !.rx_ooo_len = ev.data_len]
  ELSE IF Add(ev.seq_num, ev.data_len) = k.rx_ooo_start
    THEN [k EXCEPT !.rx_ooo_start = ev.seq_num,
                   !.rx_ooo_len = Add(@, ev.data_len)]
  ELSE IF Add(k.rx_ooo_start, k.rx_ooo_len) = ev.seq_num
    THEN [k EXCEPT !.rx_ooo_len = Add(@, ev.data_len)]
  ELSE k

OutOfOrder(k, ev) ==
  ~ev.skip /\ ev.seq_num # k.rx_next_seq /\ ev.data_len > 0

detect_ooo_data_ep(k, ev) ==
  IF OutOfOrder(k, ev) THEN OooInterval(k, ev) ELSE k

Refused(k, ev) == OutOfOrder(k, ev) /\ OooInterval(k, ev) = k

\* flush_ooo_data_ep(), which does not look at skip_data_eps: the result is
\* the connection and whether an acknowledgement is still due.
FlushInterval(k) ==
  LET first == k.rx_next_seq
      last == Add(first, k.rx_avail)
      end == Add(k.rx_ooo_start, k.rx_ooo_len)
      start == Add(k.rx_ooo_start, TrimStart(k.rx_ooo_start, first, last))
      len == Sub(k.rx_ooo_len, TrimStart(k.rx_ooo_start, first, last)
                                 + TrimEnd(end, first, last))
  IN  IF len > 0 /\ start = first
        THEN [k EXCEPT !.rx_avail = Sub(@, len), !.rx_next_seq = Add(@, len),
                       !.rx_ooo_start = start, !.rx_ooo_len = 0]
        ELSE [k EXCEPT !.rx_ooo_start = start, !.rx_ooo_len = len]

flush_ooo_data_ep(k, len, trigger_ack) ==
  LET j == [k EXCEPT !.rx_avail = Sub(@, len), !.rx_next_seq = Add(@, len)]
      end == Add(j.rx_ooo_start, j.rx_ooo_len)
  IN  IF len = 0 THEN [k |-> k, trigger_ack |-> trigger_ack]
      ELSE IF j.rx_ooo_len = 0 THEN [k |-> j, trigger_ack |-> trigger_ack]
      ELSE IF Overlap(j.rx_ooo_start, end, j.rx_next_seq,
                      Add(j.rx_next_seq, j.rx_avail))
             THEN [k |-> FlushInterval(j), trigger_ack |-> trigger_ack]
             ELSE [k |-> j, trigger_ack |-> FALSE]

\* Mutant: one acknowledgement per batch, the first.
AckOncePerBatch(a) == IF ackq = <<>> THEN Append(ackq, a) ELSE ackq

\* send_ack() and mtp_pkt_gen_for_xdp_gen(): the test for a full queue leads
\* to a store through a null pointer, so the compiler drops it; with the
\* queue full, ack_prod meets ack_cons and the queue is empty.
mtp_pkt_gen_for_xdp_gen(a) ==
  IF Len(ackq) = AckRing - 1 THEN <<>> ELSE Append(ackq, a)

\* tcp_rx_process() for a data segment with bytes off .. off + len - 1.
tcp_rx_process(c, off, len) ==
  LET seq == Add(Irs, off)
      k == conn[c]
      ev == verify_trim_data_ep(k, seq, len)
      refused == Refused(k, ev)
      f == flush_ooo_data_ep(detect_ooo_data_ep(k, ev),
                             IF refused THEN 0 ELSE ev.data_len,
                             ev.trigger_ack)
  IN  /\ batch < Budget
      /\ Len(rx) < RingSize
      /\ batch' = batch + 1
      /\ conn' = [conn EXCEPT ![c] = f.k]
      /\ rx' = Append(rx, [c |-> c, seq |-> seq, off |-> off + ev.trim,
                           trim |-> ev.trim,
                           plen |-> IF refused \/ ev.data_len = 0
                                       THEN -1 ELSE ev.plen,
                           offset |-> Sub(ev.seq_num, Irs)])
      /\ ackq' = IF f.trigger_ack
                   THEN mtp_pkt_gen_for_xdp_gen(
                          [c |-> c, ack |-> f.k.rx_next_seq])
                   ELSE ackq
      /\ received' = [received EXCEPT ![c] = @ \cup off .. off + len - 1]
      /\ UNCHANGED <<tx, th, sk, delivered, acked>>

\* xdp_gen_prog() until the queue is empty, at the end of the NAPI batch.
xdp_gen_prog ==
  /\ batch > 0
  /\ batch' = 0
  /\ acked' = [c \in Conn |->
       LET own == SelectSeq(ackq, LAMBDA a : a.c = c)
       IN  IF own = <<>> THEN acked[c] ELSE Last(own).ack]
  /\ ackq' = <<>>
  /\ UNCHANGED <<conn, rx, tx, th, sk, received, delivered>>

\* tcp_tx_process() for a SYNC packet: the window update leaves at once.
EgressSync ==
  /\ tx # <<>>
  /\ LET m == Head(tx)
     IN  /\ conn' = [conn EXCEPT ![m.c].rx_avail = Add(@, m.rx_bump)]
         /\ acked' = [acked EXCEPT ![m.c] = conn[m.c].rx_next_seq]
  /\ tx' = Tail(tx)
  /\ UNCHANGED <<ackq, batch, rx, th, sk, received, delivered>>

-----------------------------------------------------------------------------
(* The library: reassembly                                                 *)

Wrap(pos) == IF pos >= ThreadRxBuf THEN pos - ThreadRxBuf ELSE pos

\* The packet as it is kept: rx_pos is its place in the receive buffer.
Placed(m) == [off |-> m.off, plen |-> m.plen,
              pos |-> Wrap(Add(th.rx_next_pos, Sub(m.offset, th.last_offset)))]

\* Mutant: the packet that opens the stream is expected again.
FirstExpectsItself(m, end) ==
  /\ th' = [th EXCEPT !.following_packets = TRUE, !.expected_seq = m.seq,
                      !.last_offset = m.offset]
  /\ sk' = [sk EXCEPT ![m.c].rxb_used = @ + m.plen,
                      ![m.c].rx_addrs = Append(@,
                         [off |-> m.off, plen |-> m.plen,
                          pos |-> Wrap(th.rx_next_pos)])]

\* The cases of mtp_add_data_seg_wrapper() for packet m with sequence numbers
\* start .. end (the end that parse_packet() computes).
FirstPacket(m, end) ==
  /\ th' = [th EXCEPT !.following_packets = TRUE, !.expected_seq = end,
                      !.last_offset = m.offset]
  /\ sk' = [sk EXCEPT ![m.c].rxb_used = @ + m.plen,
                      ![m.c].rx_addrs = Append(@,
                         [off |-> m.off, plen |-> m.plen,
                          pos |-> Wrap(th.rx_next_pos)])]

FillsGap(m, end) ==
  /\ th.ooo_len > 0 /\ end = th.ooo_start
  /\ th' = [th EXCEPT !.rx_next_pos = Wrap(@ + m.plen + th.ooo_len),
                      !.last_offset = m.offset,
                      !.expected_seq = Add(th.ooo_start, th.ooo_len),
                      !.ooo_len = 0]
  /\ sk' = [sk EXCEPT ![m.c].rxb_used = @ + m.plen + th.ooo_len,
                      ![m.c].rx_addrs = Append(@ \o sk[m.c].ooo_rx_addrs,
                                               Placed(m)),
                      ![m.c].ooo_rx_addrs = <<>>]

NextPacket(m, end) ==
  /\ ~(th.ooo_len > 0 /\ end = th.ooo_start)
  /\ th' = [th EXCEPT !.expected_seq = Add(@, m.plen),
                      !.rx_next_pos =
                         Wrap(Add(@, Sub(m.offset, th.last_offset))),
                      !.last_offset = m.offset]
  /\ sk' = [sk EXCEPT ![m.c].rxb_used = @ + m.plen,
                      ![m.c].rx_addrs = Append(@, Placed(m))]

OooPacket(m, start, end) ==
  LET keep == sk' = [sk EXCEPT ![m.c].ooo_rx_addrs = Append(@, Placed(m))]
  IN  \/ /\ th.ooo_len = 0
         /\ th' = [th EXCEPT !.ooo_start = start, !.ooo_len = m.plen] /\ keep
      \/ /\ th.ooo_len > 0 /\ end = th.ooo_start
         /\ th' = [th EXCEPT !.ooo_start = start, !.ooo_len = @ + m.plen]
         /\ keep
      \/ /\ th.ooo_len > 0 /\ end # th.ooo_start
         /\ Add(th.ooo_start, th.ooo_len) = start
         /\ th' = [th EXCEPT !.ooo_len = @ + m.plen] /\ keep
      \/ /\ th.ooo_len > 0 /\ end # th.ooo_start
         /\ Add(th.ooo_start, th.ooo_len) # start
         /\ UNCHANGED <<th, sk>>

mtp_add_data_seg_wrapper(m) ==
  LET start == Add(m.seq, m.trim)
      end == Add(m.seq, m.plen)
  IN  IF ~th.following_packets THEN FirstPacket(m, end)
      ELSE IF th.expected_seq = start
             THEN FillsGap(m, end) \/ NextPacket(m, end)
             ELSE OooPacket(m, start, end)

\* handle_rx() for one packet.  A poll starts with tcp_ebpf_sync().
handle_rx ==
  /\ rx # <<>>
  /\ \A c \in Conn : ~sk[c].in_rx_bump_pending
  /\ IF Head(rx).plen = -1 THEN UNCHANGED <<th, sk>>
                           ELSE mtp_add_data_seg_wrapper(Head(rx))
  /\ rx' = Tail(rx)
  /\ UNCHANGED <<conn, ackq, batch, tx, received, delivered, acked>>

-----------------------------------------------------------------------------
(* The library: reading                                                    *)

\* Whether eTran_tcp_rx_peek_count_zc() takes packet p for a read of count
\* bytes from rxb_head.
Hit(p, head, count) ==
  IF head + count > RxBufSize
    THEN p.pos >= head \/ p.pos < head + count - RxBufSize
    ELSE p.pos >= head /\ p.pos < head + count

\* Mutant: what is left of a packet keeps its place.
TruncatedInPlace(p, n) ==
  [off |-> p.off + n, plen |-> p.plen - n, pos |-> p.pos]

\* The packet without its first n bytes.
Truncated(p, n) ==
  [off |-> p.off + n, plen |-> p.plen - n,
   pos |-> IF p.pos + n > RxBufSize THEN p.pos + n - RxBufSize ELSE p.pos + n]

\* One turn of the loop over rx_addrs: left bytes are wanted, keep is the new
\* list, copied what was read.
PeekStep(a, p, head, count) ==
  LET n == Min2(a.left, p.plen)
  IN  IF a.left > 0 /\ Hit(p, head, count)
        THEN [left |-> a.left - n,
              keep |-> IF n = p.plen THEN a.keep
                                     ELSE Append(a.keep, Truncated(p, n)),
              copied |-> a.copied \o [i \in 1 .. n |-> p.off + i - 1]]
        ELSE [a EXCEPT !.keep = Append(@, p)]

eTran_tcp_rx_peek_count_zc(s, count) ==
  FoldLeft(LAMBDA a, p : PeekStep(a, p, s.rxb_head, count),
           [left |-> count, keep |-> <<>>, copied |-> <<>>], s.rx_addrs)

\* The bump that makes the library tell the kernel.
BumpThreshold == Min2(RxBufSize \div 4, 32768)

\* Mutant: the kernel is never told about the space.
ReleaseSilently(s, n) ==
  [s EXCEPT !.rxb_used = @ - n,
            !.rxb_bump = @ + n,
            !.rxb_head = IF @ + n > RxBufSize THEN @ + n - RxBufSize ELSE @ + n]

eTran_tcp_rx_release(s, n) ==
  [s EXCEPT !.rxb_used = @ - n,
            !.rxb_bump = @ + n,
            !.rxb_head = IF @ + n > RxBufSize THEN @ + n - RxBufSize ELSE @ + n,
            !.in_rx_bump_pending = @ \/ s.rxb_bump + n > BumpThreshold]

conn_recv(c, n) ==
  LET s == sk[c]
      r == eTran_tcp_rx_peek_count_zc(s, Min2(n, s.rxb_used))
      len == Len(r.copied)
  IN  /\ s.rxb_used > 0
      /\ len > 0
      /\ sk' = [sk EXCEPT ![c] = eTran_tcp_rx_release(
                                   [s EXCEPT !.rx_addrs = r.keep], len)]
      /\ delivered' = [delivered EXCEPT ![c] = @ \o r.copied]
      /\ UNCHANGED <<conn, ackq, batch, rx, tx, th, received, acked>>

\* Mutant: the bump is announced again with the next SYNC packet.
SyncKeepsBump(c) ==
  /\ sk[c].in_rx_bump_pending
  /\ Len(tx) < RingSize
  /\ tx' = Append(tx, [c |-> c, rx_bump |-> sk[c].rxb_bump])
  /\ sk' = [sk EXCEPT ![c].in_rx_bump_pending = FALSE]
  /\ UNCHANGED <<conn, ackq, batch, rx, th, received, delivered, acked>>

\* tcp_ebpf_sync() for one connection of rx_bump_pending_conns.
tcp_ebpf_sync(c) ==
  /\ sk[c].in_rx_bump_pending
  /\ Len(tx) < RingSize
  /\ tx' = Append(tx, [c |-> c, rx_bump |-> sk[c].rxb_bump])
  /\ sk' = [sk EXCEPT ![c].rxb_bump = 0, ![c].in_rx_bump_pending = FALSE]
  /\ UNCHANGED <<conn, ackq, batch, rx, th, received, delivered, acked>>

-----------------------------------------------------------------------------
(* Specifications                                                          *)

Kernel == xdp_gen_prog \/ EgressSync

Library == \/ handle_rx
           \/ \E c \in Conn : tcp_ebpf_sync(c)
           \/ \E c \in Conn, n \in 1 .. RxBufSize : conn_recv(c, n)

\* A network that neither loses nor reorders, and a peer that respects the
\* space there is.
InOrderData ==
  \E c \in Conn, len \in 1 .. Mss :
    LET off == Sub(conn[c].rx_next_seq, Irs)
    IN  /\ len <= conn[c].rx_avail
        /\ off + len <= StreamLen
        /\ tcp_rx_process(c, off, len)

Next == Kernel \/ Library \/ InOrderData

Spec == Init /\ [][Next]_vars

\* A network that loses, repeats and reorders segments of a peer that has at
\* most RxAvail bytes outstanding.
AnyData ==
  \E c \in Conn, off \in 0 .. StreamLen - 1, len \in 1 .. Mss :
    /\ off + len <= Min2(StreamLen, Sub(acked[c], Irs) + RxAvail)
    /\ tcp_rx_process(c, off, len)

LossNext == Kernel \/ Library \/ AnyData

LossSpec == Init /\ [][LossNext]_vars

-----------------------------------------------------------------------------
(* Properties                                                              *)

Seqno == 0 .. Word - 1
Kept == [off : 0 .. StreamLen, plen : 0 .. Mss, pos : 0 .. RxBufSize]

TypeOK ==
  /\ conn \in [Conn -> [rx_next_seq : Seqno, rx_avail : 0 .. RxAvail,
                        rx_ooo_start : Seqno, rx_ooo_len : Seqno]]
  /\ ackq \in Seq([c : Conn, ack : Seqno])
  /\ Len(ackq) < AckRing /\ batch \in 0 .. Budget
  /\ rx \in Seq([c : Conn, seq : Seqno, off : 0 .. StreamLen, trim : Seqno,
                 plen : -1 .. Mss, offset : Seqno])
  /\ tx \in Seq([c : Conn, rx_bump : 1 .. RxBufSize])
  /\ th.rx_next_pos \in 0 .. ThreadRxBuf - 1
  /\ \A c \in Conn : /\ sk[c].rxb_head \in 0 .. RxBufSize
                     /\ sk[c].rxb_used \in 0 .. RxBufSize
                     /\ sk[c].rxb_bump \in 0 .. RxBufSize
                     /\ sk[c].rx_addrs \in Seq(Kept)
                     /\ sk[c].ooo_rx_addrs \in Seq(Kept)

\* The application reads the bytes of the stream in order, each one once:
\* the place that the reassembly gives a packet always lies in the range that
\* eTran_tcp_rx_peek_count_zc() searches, across the wrap of the buffer, the
\* truncation of packets and reads of any length.
ReadsStream ==
  \A c \in Conn : \A i \in 1 .. Len(delivered[c]) : delivered[c][i] = i - 1

SumPlen(s) == FoldLeft(LAMBDA n, p : n + p.plen, 0, s)
InRing(c) == SelectSeq(rx, LAMBDA m : m.c = c /\ m.plen > 0)

\* No byte of the receive buffer is lost or counted twice: what the kernel
\* offers, what is under way to the library, what the application has not
\* read and what it has read but not yet returned add up.
BufferConserved ==
  \A c \in Conn :
    conn[c].rx_avail + SumPlen(InRing(c)) + sk[c].rxb_used + sk[c].rxb_bump
      + FoldLeft(LAMBDA n, m : IF m.c = c THEN n + m.rx_bump ELSE n, 0, tx)
    = RxAvail

\* The bytes that the library counts as readable are in rx_addrs, so that
\* conn_recv() never waits for a packet that has already arrived.
UsedBacked ==
  \A c \in Conn : sk[c].rxb_used = SumPlen(sk[c].rx_addrs)

\* What the kernel has accepted in order is readable as soon as the library
\* has polled: mtp_add_data_seg_wrapper() takes a packet that continues the
\* stream for one that is "in order" and puts it in rx_addrs.
NothingHeldBack ==
  rx = <<>> =>
    \A c \in Conn : Len(delivered[c]) + sk[c].rxb_used
                      = Sub(conn[c].rx_next_seq, Irs)

\* At the end of a NAPI batch the last acknowledgement that has left covers
\* everything received: none of the queue was lost.
AcksComplete ==
  batch = 0 => \A c \in Conn : acked[c] = conn[c].rx_next_seq

\* The window cannot stay closed: once everything was read and returned, the
\* kernel offers all but what tcp_ebpf_sync() holds back.
WindowReopens ==
  \A c \in Conn :
    /\ rx = <<>> /\ tx = <<>> /\ sk[c].rxb_used = 0
    /\ ~sk[c].in_rx_bump_pending
    => conn[c].rx_avail >= RxAvail - BumpThreshold

\* rx_next_seq, which is acknowledged, is described as "Next sequence number
\* expected": all bytes before it have arrived.
RxNextHonest ==
  \A c \in Conn : 0 .. Sub(conn[c].rx_next_seq, Irs) - 1 \subseteq received[c]

\* verify_trim_data_ep() against the set of bytes it should keep: wherever the
\* window lies, the wrap of the sequence numbers included, a segment is
\* accepted exactly if it has a byte in the window (a closed window accepts
\* what reaches its edge, and answers it), and trimming leaves exactly its
\* bytes in the window.
TrimExact ==
  \A c \in Conn, seq \in Seqno, len \in 1 .. Mss :
    LET ev == verify_trim_data_ep(conn[c], seq, len)
        common == Range32(conn[c].rx_next_seq, conn[c].rx_avail)
                    \cap Range32(seq, len)
    IN  IF ev.skip THEN common = {}
                   ELSE /\ Range32(ev.seq_num, ev.data_len) = common
                        /\ common = {} => conn[c].rx_avail = 0
=============================================================================
