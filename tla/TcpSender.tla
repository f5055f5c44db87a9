----------------------------- MODULE TcpSender ------------------------------
(***************************************************************************)
(* The sending half of a TCP connection: the library's transmit accounting *)
(* (lib/eTran_posix.cc), the eBPF state of the connection with the event   *)
(* processors send_ep, fast_retr_rec_ep, ack_net_ep and                    *)
(* ack_timeout_xdp_ep (micro_kernel/eBPF/tcp/mtp_tcp.h), and the two       *)
(* AF_XDP rings between them.                                              *)
(*                                                                         *)
(* The application's bytes are numbered from 0.  A frame of the UMEM holds *)
(* a segment: the offset of its first byte (off, a ghost that stands for   *)
(* the payload), its length, and its position in the transmit buffer.      *)
(* The TX ring holds frames, not their contents: the position is read when *)
(* the kernel comes to the descriptor.                                     *)
(*                                                                         *)
(* The peer is any peer that acknowledges, duplicates included, what was   *)
(* sent and not yet acknowledged: an acknowledgement in the range that     *)
(* fast_retr_rec_ep accepts.  Segments may be lost at will.  Both XDP      *)
(* hooks of a connection run in the NAPI context of its queue, so each     *)
(* runs as one step; a library call runs concurrently with them.           *)
(***************************************************************************)
EXTENDS SeqArith, Sequences, SequencesExt

CONSTANTS Frame,      \* frames of the UMEM the thread may use
          TxBuf,      \* tx_buf_size
          Mss,        \* TCP_MSS_W_TS
          Iss,        \* first sequence number of the stream
          Wnd,        \* windows the peer advertises (shifted by TCP_WND_SCALE)
          InitWnd,    \* 0xFFFF << TCP_WND_SCALE
          StreamLen,  \* bound: bytes the application writes
          RingSize    \* bound: entries of the TX and the RX ring

ASSUME TxBufAssumption == TxBuf \in Nat \ {0} /\ Word % TxBuf = 0
ASSUME MssAssumption == Mss \in 1 .. TxBuf
ASSUME IssAssumption == Word > 2 * TxBuf /\ Iss \in 0 .. Word - 1

\* A metadata field that was not written (POISON_32).
NoUpdate == -1

\* RECOVERY_MASK: the top bit of a word.
RecoveryMask == Word \div 2

VARIABLES
  \* struct bpf_tcp_conn and struct bpf_cc
  send_una, tx_next_seq, buf_curr_seq, tx_next_pos, rx_remote_avail,
  rx_dupack_cnt, txp,
  \* struct eTrantcp_connection, and retransmission_conns
  txb_head, txb_sent, txb_allocated, xsk_budget, pending_free_bytes,
  unack_tx_addrs, retransmission_conns, lib,
  \* shared memory: frames, TX ring, RX ring
  frame, tx, rx,
  \* ghosts: bytes written so far, the last packet that left
  written, wire

connVars == <<send_una, tx_next_seq, buf_curr_seq, tx_next_pos,
              rx_remote_avail, rx_dupack_cnt, txp>>
libVars == <<txb_head, txb_sent, txb_allocated, xsk_budget,
             pending_free_bytes, unack_tx_addrs, retransmission_conns, lib>>
vars == <<connVars, libVars, frame, tx, rx, written, wire>>

NoPacket == [seq |-> -1, off |-> -1, plen |-> 0, len |-> 0]

Init == /\ send_una = Iss /\ tx_next_seq = Iss /\ buf_curr_seq = Iss
        /\ tx_next_pos = 0
        /\ rx_remote_avail = InitWnd
        /\ rx_dupack_cnt = 0
        /\ txp = FALSE
        /\ txb_head = 0 /\ txb_sent = 0 /\ txb_allocated = 0
        /\ xsk_budget = InitWnd
        /\ pending_free_bytes = 0
        /\ unack_tx_addrs = <<>>
        /\ retransmission_conns = <<>>
        /\ lib = "app"
        /\ frame = [f \in Frame |-> [off |-> 0, pos |-> 0, plen |-> 0]]
        /\ tx = <<>> /\ rx = <<>>
        /\ written = 0
        /\ wire = NoPacket

\* A position in the transmit buffer, advanced by n <= tx_buf_size bytes.
Advance(pos, n) == IF pos + n >= TxBuf THEN pos + n - TxBuf ELSE pos + n

\* The position n bytes back, and the number of bytes from `to' up to `from'.
GoBack(pos, n) == IF pos >= n THEN pos - n ELSE TxBuf - (n - pos)
Distance(from, to) == IF from > to THEN from - to ELSE TxBuf - (to - from)

\* The payload of a list of frames.
Bytes(s) == FoldLeft(LAMBDA n, f : n + frame[f].plen, 0, s)

-----------------------------------------------------------------------------
(* The library: writing                                                    *)

xsk_bytes_avail == IF xsk_budget > txb_sent THEN xsk_budget - txb_sent ELSE 0
txb_bytes_avail == Min2(Sub(TxBuf, txb_sent + txb_allocated), xsk_bytes_avail)

\* The bytes that eTran_tcp_tx_reserve_zc() grants.
eTran_tcp_tx_reserve_zc(n) == Min2(n, txb_bytes_avail)

\* tcp_flow_tx_segmentation_zc() for one segment.
segmentation_zc(f, len) ==
  /\ frame' = [frame EXCEPT ![f] = [off |-> written, pos |-> txb_head,
                                    plen |-> len]]
  /\ unack_tx_addrs' = Append(unack_tx_addrs, f)
  /\ tx' = Append(tx, [f |-> f, len |-> len])
  /\ txb_head' = Advance(txb_head, len)

\* conn_send(): reserve, then submit.  A longer write is several segments of
\* at most Mss bytes; nothing else of the library happens between them.
conn_send(n, f) ==
  /\ lib = "app"
  /\ f \notin Range(unack_tx_addrs)
  /\ Len(tx) < RingSize
  /\ LET len == eTran_tcp_tx_reserve_zc(n)
     IN  /\ len > 0
         /\ written + len <= StreamLen
         /\ segmentation_zc(f, len)
         /\ txb_sent' = Add(txb_sent, len)
         /\ written' = written + len
  /\ UNCHANGED <<connVars, txb_allocated, xsk_budget, pending_free_bytes,
                 retransmission_conns, lib, rx, wire>>

-----------------------------------------------------------------------------
(* The library: eTran_tcp_poll_events()                                    *)

\* Mutant: the bytes to retransmit still count as sent.
GoBackStillSent(pos) ==
  LET n == Distance(txb_head, pos)
  IN  /\ txb_head' = pos
      /\ txb_allocated' = Add(txb_allocated, n)
      /\ retransmission_conns' = Append(retransmission_conns, n)
      /\ UNCHANGED <<pending_free_bytes, txb_sent>>

\* The connection's state is reset to an earlier position.
SyncGoBack(pos) ==
  LET n == Distance(txb_head, pos)
  IN  /\ txb_head' = pos
      /\ txb_allocated' = Add(txb_allocated, n)
      /\ txb_sent' = Sub(txb_sent, n)
      /\ retransmission_conns' = Append(retransmission_conns, n)
      /\ UNCHANGED pending_free_bytes

\* Mutant: acknowledged bytes are counted twice.
AckTwice(n) ==
  /\ txb_sent' = Sub(txb_sent, n)
  /\ pending_free_bytes' = Add(pending_free_bytes, n + n)
  /\ UNCHANGED <<txb_head, txb_allocated, retransmission_conns>>

SyncAck(n) ==
  /\ txb_sent' = Sub(txb_sent, n)
  /\ pending_free_bytes' = Add(pending_free_bytes, n)
  /\ UNCHANGED <<txb_head, txb_allocated, retransmission_conns>>

\* One word of the metadata is a number of acknowledged bytes or, with the
\* top bit set, a position.
sync_state(m) ==
  LET pos == m.ack - RecoveryMask
  IN  /\ IF pos >= 0 /\ pos # txb_head THEN SyncGoBack(pos)
                                       ELSE SyncAck(m.ack)
      /\ xsk_budget' = IF m.budget = NoUpdate THEN xsk_budget ELSE m.budget

\* handle_rx() for a packet without payload: the loop of tcp_nic_poll().
handle_rx ==
  /\ lib \in {"app", "poll"}
  /\ rx # <<>>
  /\ sync_state(Head(rx))
  /\ rx' = Tail(rx)
  /\ lib' = "poll"
  /\ UNCHANGED <<connVars, unack_tx_addrs, frame, tx, written, wire>>

\* tcp_free_buffers(): frames are released from the front until the
\* acknowledged bytes are used up.  When no prefix fits, the loop runs past
\* the end of the list.
Released == {k \in 0 .. Len(unack_tx_addrs) :
               Bytes(SubSeq(unack_tx_addrs, 1, k)) = pending_free_bytes}

tcp_free_buffers ==
  /\ lib = "poll"
  /\ pending_free_bytes' = 0
  /\ IF Released # {}
       THEN /\ lib' = "retransmit"
            /\ \E k \in Released :
                 unack_tx_addrs' = SubSeq(unack_tx_addrs, k + 1,
                                          Len(unack_tx_addrs))
       ELSE lib' = "dead" /\ unack_tx_addrs' = <<>>
  /\ UNCHANGED <<connVars, txb_head, txb_sent, txb_allocated, xsk_budget,
                 retransmission_conns, frame, tx, rx, written, wire>>

\* Mutant: retransmission starts at the second segment.
ResentSkipsFirst(len) ==
  IF unack_tx_addrs = <<>> THEN <<>> ELSE Tail(unack_tx_addrs)

\* The segments that tcp_flow_tx_segmentation_zc_retransmission() submits
\* again for len bytes: the first txb_sent bytes are passed over.
Resent(len) ==
  LET u == unack_tx_addrs
      K == {k \in 1 .. Len(u) : Bytes(SubSeq(u, 1, k)) >= txb_sent}
      i == CHOOSE k \in K : \A h \in K : k <= h
      L == {k \in i .. Len(u) : Bytes(SubSeq(u, i, k)) >= len}
  IN  IF K = {} THEN <<>>
      ELSE IF L = {} THEN SubSeq(u, i, Len(u))
           ELSE SubSeq(u, i, CHOOSE k \in L : \A h \in L : k <= h)

\* tcp_retransmission(), for the first entry of the list.
tcp_retransmission ==
  /\ lib = "retransmit"
  /\ retransmission_conns # <<>>
  /\ LET len == Head(retransmission_conns)
         s == Resent(len)
         done == Min2(Bytes(s), len)
     IN  /\ Len(tx) + Len(s) <= RingSize
         /\ tx' = tx \o [i \in 1 .. Len(s) |->
                           [f |-> s[i], len |-> frame[s[i]].plen]]
         /\ frame' = [f \in Frame |->
              IF f \in Range(s)
                THEN [frame[f] EXCEPT !.pos =
                        Advance(txb_head,
                          Bytes(SubSeq(s, 1, (CHOOSE i \in 1 .. Len(s) :
                                                s[i] = f) - 1)))]
                ELSE frame[f]]
         /\ txb_head' = Advance(txb_head, Bytes(s))
         /\ txb_allocated' = Sub(txb_allocated, done)
         /\ txb_sent' = Add(txb_sent, done)
  /\ retransmission_conns' = Tail(retransmission_conns)
  /\ UNCHANGED <<connVars, xsk_budget, pending_free_bytes, unack_tx_addrs,
                 lib, rx, written, wire>>

PollEnd ==
  /\ lib = "retransmit"
  /\ retransmission_conns = <<>>
  /\ lib' = "app"
  /\ UNCHANGED <<connVars, txb_head, txb_sent, txb_allocated, xsk_budget,
                 pending_free_bytes, unack_tx_addrs, retransmission_conns,
                 frame, tx, rx, written, wire>>
-----------------------------------------------------------------------------
(* The kernel: xdp_egress                                                  *)

\* tcp_tx_process() for a descriptor of the TX ring whose position is not the
\* one expected next: a leftover from before a retransmission.
EgressDrop ==
  /\ tx # <<>>
  /\ frame[Head(tx).f].pos # tx_next_pos
  /\ tx' = Tail(tx)
  /\ UNCHANGED <<connVars, libVars, frame, rx, written, wire>>

\* mtp_pkt_gen_wrapper(SEG_DATA): n more bytes leave the transmit buffer.
seg_data(n) == /\ buf_curr_seq' = Add(buf_curr_seq, n)
               /\ tx_next_pos' = Advance(tx_next_pos, n)

send_ep(n) == /\ seg_data(n)
              /\ tx_next_seq' = Add(tx_next_seq, n)
              /\ txp' = (tx_next_seq' # send_una)

\* Mutant: the position of the descriptor is not compared with tx_next_pos.
EgressUnchecked ==
  /\ tx # <<>>
  /\ LET d == Head(tx)
         m == frame[d.f]
     IN  /\ send_ep(m.plen)
         /\ wire' = [seq |-> tx_next_seq, off |-> m.off, plen |-> m.plen,
                     len |-> d.len]
  /\ tx' = Tail(tx)
  /\ UNCHANGED <<send_una, rx_remote_avail, rx_dupack_cnt, libVars, frame, rx,
                 written>>

\* tcp_tx_process() for the descriptor expected next.
EgressSend ==
  /\ tx # <<>>
  /\ LET d == Head(tx)
         m == frame[d.f]
     IN  /\ m.pos = tx_next_pos
         /\ send_ep(m.plen)
         /\ wire' = [seq |-> tx_next_seq, off |-> m.off, plen |-> m.plen,
                     len |-> d.len]
  /\ tx' = Tail(tx)
  /\ UNCHANGED <<send_una, rx_remote_avail, rx_dupack_cnt, libVars, frame, rx,
                 written>>

-----------------------------------------------------------------------------
(* The kernel: going back to send_una                                      *)

\* Mutant: buf_curr_seq is not set back.
UnsegKeepsBuf(budget) ==
  LET pos == GoBack(tx_next_pos, Sub(buf_curr_seq, send_una))
  IN  /\ tx_next_pos' = pos
      /\ rx' = Append(rx, [ack |-> RecoveryMask + pos, budget |-> budget])
      /\ UNCHANGED buf_curr_seq

\* What mtp_pkt_gen_wrapper(UNSEG_DATA, ..., send_una) does after the
\* processor has set tx_next_seq back: the position to go back to is derived
\* from buf_curr_seq.  The wrapper's first branch (buf_curr_seq < seq_num) is
\* undefined for these calls, since it stores through the null iph they pass;
\* the compiler drops it, the verifier would reject the store.
unseg_data(budget) ==
  LET n == Sub(buf_curr_seq, send_una)
      pos == GoBack(tx_next_pos, n)
  IN  /\ buf_curr_seq' = Sub(buf_curr_seq, n)
      /\ tx_next_pos' = pos
      /\ rx' = Append(rx, [ack |-> RecoveryMask + pos, budget |-> budget])

\* The timer event: a dummy packet of the slow path, sent while the
\* connection has pending data.  Its metadata are zero, so tcp_tx_process()
\* lets it pass only when the position expected next is 0.
ack_timeout_xdp_ep ==
  /\ txp
  /\ tx_next_pos = 0
  /\ tx_next_seq # send_una
  /\ Len(rx) < RingSize
  /\ rx_dupack_cnt' = 0
  /\ rx_remote_avail' = Add(rx_remote_avail, Sub(tx_next_seq, send_una))
  /\ tx_next_seq' = send_una
  /\ txp' = FALSE
  /\ unseg_data(rx_remote_avail')
  /\ UNCHANGED <<send_una, libVars, frame, tx, written, wire>>

-----------------------------------------------------------------------------
(* The kernel: xdp_sock, an acknowledgement                                *)

\* The range check of fast_retr_rec_ep().
InRange(ack) == IF send_una <= tx_next_seq
                  THEN send_una <= ack /\ ack <= tx_next_seq
                  ELSE ~(send_una > ack /\ ack > tx_next_seq)

\* The metadata that the library gets with an acknowledgement.
mtp_tx_data_flush(n, budget) ==
  IF n > 0 \/ budget > 0 THEN [ack |-> n, budget |-> budget]
                         ELSE [ack |-> 0, budget |-> NoUpdate]

\* fast_retr_rec_ep() and ack_net_ep() for an acknowledgement of new data, or
\* one that is no duplicate because it moves the window.
AckNew(ack, wnd) ==
  LET acked == Sub(ack, send_una)
      budget == IF acked > 0 \/ rx_remote_avail < wnd THEN wnd
                                                      ELSE rx_remote_avail
  IN  /\ InRange(ack)
      /\ Len(rx) < RingSize
      /\ acked > 0 \/ rx_remote_avail # wnd
      /\ txp' = (tx_next_seq # send_una)
      /\ rx_dupack_cnt' = IF acked > 0 THEN 0 ELSE rx_dupack_cnt
      /\ rx_remote_avail' = budget
      /\ send_una' = ack
      /\ rx' = Append(rx, mtp_tx_data_flush(acked, budget))
      /\ UNCHANGED <<tx_next_seq, buf_curr_seq, tx_next_pos, libVars, frame,
                     tx, written, wire>>

\* The first and the second duplicate.
AckDuplicate ==
  /\ Len(rx) < RingSize
  /\ rx_dupack_cnt < 2
  /\ rx_dupack_cnt' = rx_dupack_cnt + 1
  /\ txp' = (tx_next_seq # send_una)
  /\ rx' = Append(rx, mtp_tx_data_flush(0, rx_remote_avail))
  /\ UNCHANGED <<send_una, tx_next_seq, buf_curr_seq, tx_next_pos,
                 rx_remote_avail, libVars, frame, tx, written, wire>>

\* The third: fast retransmission.
AckThird ==
  /\ Len(rx) < RingSize
  /\ rx_dupack_cnt = 2
  /\ rx_dupack_cnt' = 0
  /\ rx_remote_avail' = Add(rx_remote_avail, Sub(tx_next_seq, send_una))
  /\ tx_next_seq' = send_una
  /\ txp' = FALSE
  /\ unseg_data(rx_remote_avail')
  /\ UNCHANGED <<send_una, libVars, frame, tx, written, wire>>

\* An acknowledgement outside the range.  fast_retr_rec_ep() returns before
\* it sets num_acked_bytes, and ack_net_ep() reads the uninitialised value:
\* garbage.
AckRejected(ack, garbage) ==
  /\ ~InRange(ack)
  /\ Len(rx) < RingSize
  /\ send_una' = IF garbage > 0 THEN ack ELSE send_una
  /\ rx' = IF garbage > 0 \/ rx_remote_avail > 0
             THEN Append(rx, mtp_tx_data_flush(garbage, rx_remote_avail))
             ELSE rx
  /\ UNCHANGED <<tx_next_seq, buf_curr_seq, tx_next_pos, rx_remote_avail,
                 rx_dupack_cnt, txp, libVars, frame, tx, written, wire>>

-----------------------------------------------------------------------------
Library == \/ \E n \in 1 .. Mss, f \in Frame : conn_send(n, f)
           \/ handle_rx \/ tcp_free_buffers \/ tcp_retransmission \/ PollEnd

Egress == EgressDrop \/ EgressSend \/ ack_timeout_xdp_ep

Ack == \/ \E ack \in 0 .. Word - 1, wnd \in Wnd : AckNew(ack, wnd)
       \/ /\ rx_remote_avail \in Wnd
          /\ tx_next_seq # send_una
          /\ AckDuplicate \/ AckThird

Next == Library \/ Egress \/ Ack

Spec == Init /\ [][Next]_vars

\* The same with a network that delivers old acknowledgements late.
LateNext ==
  \/ Next
  \/ \E n \in 0 .. Sub(send_una, Iss), garbage \in 0 .. Mss :
       AckRejected(Add(Iss, n), garbage)

LateSpec == Init /\ [][LateNext]_vars
-----------------------------------------------------------------------------
(* Properties                                                              *)

Seqno == 0 .. Word - 1
Position == 0 .. TxBuf - 1
Segment == [off : 0 .. StreamLen, pos : Position, plen : 0 .. Mss]

TypeOK ==
  /\ send_una \in Seqno /\ tx_next_seq \in Seqno /\ buf_curr_seq \in Seqno
  /\ tx_next_pos \in Position /\ txb_head \in Position
  /\ rx_remote_avail \in Seqno /\ xsk_budget \in Seqno
  /\ rx_dupack_cnt \in 0 .. 2 /\ txp \in BOOLEAN
  /\ txb_sent \in Seqno /\ txb_allocated \in Seqno
  /\ pending_free_bytes \in Seqno
  /\ unack_tx_addrs \in Seq(Frame)
  /\ retransmission_conns \in Seq(1 .. TxBuf)
  /\ lib \in {"app", "poll", "retransmit", "dead"}
  /\ frame \in [Frame -> Segment]
  /\ tx \in Seq([f : Frame, len : 1 .. Mss])
  /\ rx \in Seq([ack : Seqno, budget : Seqno \cup {NoUpdate}])
  /\ written \in 0 .. StreamLen

\* The two descriptions of the next byte to send agree: buf_curr_seq, from
\* which mtp_pkt_gen_wrapper() derives how far to go back, is tx_next_seq, and
\* tx_next_pos is its place in the transmit buffer, across retransmissions
\* and the wrap of the buffer.
Aligned == /\ buf_curr_seq = tx_next_seq
           /\ tx_next_pos = Sub(tx_next_seq, Iss) % TxBuf

\* Every packet that leaves carries the bytes that its sequence number
\* promises, and as many as were counted: the test of tx_pos in
\* tcp_tx_process() filters exactly the descriptors that a retransmission has
\* left behind in the TX ring, even if their frames were reused since.
RightBytes ==
  wire # NoPacket => /\ wire.seq = Add(Iss, wire.off)
                     /\ wire.len = wire.plen

\* A frame is released only when all its bytes were acknowledged: what may
\* still have to be retransmitted stays in unack_tx_addrs.
KeptUntilAcked ==
  lib # "dead" =>
    \A b \in Sub(send_una, Iss) .. written - 1 :
      \E i \in 1 .. Len(unack_tx_addrs) :
        LET g == frame[unack_tx_addrs[i]]
        IN  g.off <= b /\ b < g.off + g.plen

\* Whenever the library has caught up with the kernel, its count of sent and
\* unacknowledged bytes is exact, and the next byte goes to its own place.
SentExact ==
  lib = "app" /\ rx = <<>> =>
    /\ txb_sent = written - Sub(send_una, Iss)
    /\ txb_allocated = 0
    /\ txb_head = written % TxBuf

\* No byte is stranded: once both rings are drained and the library is back
\* with the application, the kernel has sent everything that was written.
\* After a retransmission the kernel drops every descriptor until one for
\* tx_next_pos comes; the library has always submitted it.
NothingStranded ==
  lib = "app" /\ rx = <<>> /\ tx = <<>> => Sub(tx_next_seq, Iss) = written

\* The sender respects the window: rx_remote_avail is described as "Bytes
\* available in remote end for received segments".
WithinPeerWindow ==
  \E w \in Wnd \cup {InitWnd} : Sub(tx_next_seq, send_una) <= w

\* The comment of sync_state() on metadata that carry a position to go back
\* to: "retransmission happens, it's impossible to ack bytes".
RecoveryAcksNothing ==
  [][rx # <<>> /\ rx' = Tail(rx) /\ Head(rx).ack >= RecoveryMask
       => pending_free_bytes' = pending_free_bytes]_vars
=============================================================================
