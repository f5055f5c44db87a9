------------------------------- MODULE HomaRpc -------------------------------
(***************************************************************************)
(* The life of Homa RPCs between a client host "C" and a server host "S":  *)
(* the RPC table of the eBPF hooks (micro_kernel/eBPF/homa/rpc.h, main.c), *)
(* the rate limiter and its pacer (pacing.h), the timeouts of the slow     *)
(* path (micro_kernel/homa.cc) and the library that segments, retransmits  *)
(* and frees messages (lib/eTran_rpc.cc).                                  *)
(*                                                                         *)
(* Each host runs a library thread, a transmit hook, receive hooks on      *)
(* several CPUs, a pacer and the timer of the slow path.  A receive hook   *)
(* that deletes an RPC marks it DEAD under its lock and does the rest of   *)
(* its work later: it is then in fin.  The network loses packets and, if   *)
(* Reorder, reorders them.  Messages fit in the unscheduled bytes, so that *)
(* everything is granted; offsets are counted in packets.                  *)
(***************************************************************************)
EXTENDS Integers, FiniteSets, SequencesExt, FiniteSetsExt

CONSTANTS ReqPkts, RespPkts, \* packets of the request and response of each RPC
          Exact,         \* <<h, r>>: the message of h is a multiple of HOMA_MSS
          Reorder,       \* whether the network reorders
          SendFails,     \* whether bpf_packet_send() may fail
          MAX_BUCKET_SIZE, \* queues of the rate limiter
          RESEND_TICK, NEED_ACK_TICK, ABORT_RESEND,
          ACK_QUEUE,     \* dead client RPCs remembered for a peer
          RX_BATCH_SIZE,
          MAX_OUTSTANDING, \* slots of the library for requests
          Cpus,          \* bound: receive hooks at work on a host
          MaxNet, MaxRx, MaxTx \* bounds: packets on the wire and in the rings

Hosts == {"C", "S"}
Rpcs == DOMAIN ReqPkts
Qids == 0 .. MAX_BUCKET_SIZE - 1
Peer(h) == IF h = "C" THEN "S" ELSE "C"
Pkts(h, r) == IF h = "C" THEN ReqPkts[r] ELSE RespPkts[r]
None == 0

ASSUME HomaAssumption ==
  /\ MAX_BUCKET_SIZE \in Nat /\ ABORT_RESEND \in Nat \ {0}
  /\ RESEND_TICK \in Nat \ {0} /\ NEED_ACK_TICK \in Nat \ {0}
  /\ DOMAIN RespPkts = Rpcs /\ Rpcs \subseteq Nat \ {0}
  /\ \A h \in Hosts, r \in Rpcs : Pkts(h, r) \in Nat \ {0}

VARIABLES
  rpc,     \* rpc_tbl of each host
  shadow,  \* shadow_tbl; busy and moved: the counts differ from those kept
  del,     \* delete_keys of the timer
  fin,     \* receive hooks that have marked an RPC DEAD
  avail,   \* avail_pacing_idx
  rlq,     \* homa_throttle_list
  tree,    \* the throttle tree: the RPCs that have a node
  dead,    \* the client's queue of RPCs to acknowledge
  net,     \* packets on their way to each host
  txq, rx, \* AF_XDP rings
  next,    \* the next RPC that the client's application starts
  slots,   \* _available_slots: how many are left
  ackof,   \* the acknowledgement in each frame of a request
  have,    \* packets of an incomplete message that the library has
  todo,    \* requests that the server's application has still to answer
  retxq,   \* _retransmission_queue
  flag,    \* the flags of the first buffer of a message
  freed,   \* ghost: times that the buffers of a message were freed
  handled, \* ghost: times that the handler of a request was called
  lost     \* ghost: queue ids of RPCs deleted without free_qid()

kern == <<rpc, shadow, del, fin, avail, rlq, tree, dead, lost>>
lib == <<next, slots, have, todo, retxq, flag, freed, handled>>
vars == <<kern, lib, net, txq, rx, ackof>>

NoRpc == [state |-> "NONE", sent |-> 0, got |-> {}, qid |-> MAX_BUCKET_SIZE,
          rl |-> 0, head |-> FALSE, own |-> FALSE]
NoShadow == [known |-> FALSE, silent |-> 0, try |-> 0, done |-> 0,
             busy |-> FALSE, moved |-> FALSE]

Each(x) == [h \in Hosts |-> [r \in Rpcs |-> x]]

Init ==
  /\ rpc = Each(NoRpc) /\ shadow = Each(NoShadow)
  /\ del = [h \in Hosts |-> {}] /\ fin = [h \in Hosts |-> {}]
  /\ avail = [h \in Hosts |-> [i \in 1 .. MAX_BUCKET_SIZE |-> i - 1]]
  /\ rlq = [h \in Hosts |-> [q \in Qids |-> <<>>]]
  /\ tree = [h \in Hosts |-> {}]
  /\ dead = <<>>
  /\ net = [h \in Hosts |-> <<>>]
  /\ txq = [h \in Hosts |-> <<>>] /\ rx = [h \in Hosts |-> <<>>]
  /\ next = 1 /\ slots = MAX_OUTSTANDING
  /\ ackof = [r \in Rpcs |-> [i \in 0 .. ReqPkts[r] - 1 |-> None]]
  /\ have = Each(0) /\ todo = {}
  /\ retxq = [h \in Hosts |-> <<>>] /\ flag = Each({})
  /\ freed = Each(0)
  /\ handled = [r \in Rpcs |-> 0]
  /\ lost = [h \in Hosts |-> {}]

-----------------------------------------------------------------------------
(* Packets.  lo and hi are the packets that a RESEND asks for; cut says    *)
(* that a data packet does not carry the whole of its segment.             *)

Data(r, i) == [type |-> "DATA", r |-> r, seq |-> i, retx |-> FALSE,
               ack |-> None, cut |-> FALSE]
Ctrl(t, r) == [type |-> t, r |-> r]
Resend(r, lo, hi, whole) ==
  [type |-> "RESEND", r |-> r, lo |-> lo, hi |-> hi, whole |-> whole]

\* h sends the packets ps; the network loses some of them.
Transmit(h, n, ps) ==
  \E kept \in SUBSET DOMAIN ps :
    LET s == n[Peer(h)] \o [i \in 1 .. Cardinality(kept) |->
                              ps[SetToSortSeq(kept, <)[i]]]
    IN  net' = [n EXCEPT ![Peer(h)] = SubSeq(s, 1, Min({MaxNet, Len(s)}))]

\* own is a ghost: the state holds a queue id that was allocated for it.  The
\* state that a request creates has qid 0, which is not its own.
LostWith(h, rs) ==
  [lost EXCEPT ![h] = @ \cup {rpc[h][r].qid : r \in {x \in rs : rpc[h][x].own}}]

-----------------------------------------------------------------------------
(* The transmit hook                                                       *)

\* dequeue_dead_crpc()
AckFor(h) == IF h = "C" /\ dead # <<>> THEN Head(dead) ELSE None

Piggyback(h, d) ==
  /\ dead' = IF h = "C" /\ dead # <<>> THEN Tail(dead) ELSE dead
  /\ ackof' = IF h = "C" THEN [ackof EXCEPT ![d.r][d.seq] = AckFor(h)]
              ELSE ackof

\* The end of client_request() and server_response(), with the state slot:
\* the packet is sent at once, or put in the queue of the rate limiter; it
\* is dropped when the RPC has no queue and none is left.
SendOrThrottle(h, d, slot) ==
  LET p == [d EXCEPT !.ack = AckFor(h)]
      more == [slot EXCEPT !.rl = @ + 1]
      fresh == slot.qid = MAX_BUCKET_SIZE
      q == IF fresh THEN Head(avail[h]) ELSE slot.qid
  IN  \/ /\ Pkts(h, d.r) = 1 \/ slot.rl = 0
         /\ rpc' = [rpc EXCEPT ![h][d.r] = [slot EXCEPT !.sent = d.seq + 1]]
         /\ Piggyback(h, d)
         /\ Transmit(h, net, <<p>>)
         /\ UNCHANGED <<avail, rlq, tree>>
      \/ /\ Pkts(h, d.r) > 1
         /\ IF fresh /\ avail[h] = <<>>
            THEN /\ rpc' = [rpc EXCEPT ![h][d.r] = more]
                 /\ UNCHANGED <<avail, rlq, tree, dead, ackof>>
            ELSE /\ rpc' = [rpc EXCEPT ![h][d.r] =
                              [more EXCEPT !.qid = q, !.own = TRUE]]
                 /\ avail' = IF fresh THEN [avail EXCEPT ![h] = Tail(@)]
                             ELSE avail
                 /\ tree' = IF fresh THEN [tree EXCEPT ![h] = @ \cup {d.r}]
                            ELSE tree
                 /\ rlq' = [rlq EXCEPT ![h][q] = Append(@, p)]
                 /\ Piggyback(h, d)
         /\ UNCHANGED net

Dropped == UNCHANGED <<rpc, avail, rlq, tree, dead, ackof, net>>

client_request(d) ==
  LET old == rpc["C"][d.r]
      slot == IF d.seq = 0
              THEN [NoRpc EXCEPT !.state = "OUTGOING", !.sent = 1, !.head = TRUE]
              ELSE old
  IN  IF (old.state = "NONE") = (d.seq = 0) THEN SendOrThrottle("C", d, slot)
      ELSE Dropped

server_response(d) ==
  LET old == rpc["S"][d.r]
      slot == IF d.seq = 0
              THEN [old EXCEPT !.state = "OUTGOING", !.sent = 1, !.rl = 0,
                               !.head = TRUE, !.qid = MAX_BUCKET_SIZE,
                               !.own = FALSE]
              ELSE old
  IN  IF old.state # "NONE" THEN SendOrThrottle("S", d, slot) ELSE Dropped

\* xdp_egress_prog() for the next frame of the transmit ring.
xdp_egress_prog(h) ==
  /\ txq[h] # <<>>
  /\ txq' = [txq EXCEPT ![h] = Tail(@)]
  /\ LET d == Head(txq[h])
     IN  /\ IF d.retx
            THEN Transmit(h, net, <<d>>) /\
                 UNCHANGED <<rpc, avail, rlq, tree, dead, ackof>>
            ELSE IF h = "C" THEN client_request(d) ELSE server_response(d)
         /\ lost' = IF h = "S" /\ ~d.retx /\ d.seq = 0
                    THEN LostWith(h, {d.r}) ELSE lost
  /\ UNCHANGED <<shadow, del, fin, lib, rx>>

\* Packets that bpf_packet_send() takes before it fails; all of them if not.
Taken(q) == IF SendFails THEN 0 .. Len(q) ELSE {Len(q)}

\* Mutant: the RPC leaves the tree once its queue is empty.
pacer_timer_cbOnce(h, r) ==
  LET s == rpc[h][r]
      q == rlq[h][s.qid]
      sent == IF q = <<>> THEN s.sent ELSE Last(q).seq + 1
  IN  /\ r \in tree[h]
      /\ tree' = [tree EXCEPT ![h] = @ \ {r}]
      /\ IF \/ s.state # "OUTGOING"
            \/ s.qid = MAX_BUCKET_SIZE
            \/ s.sent >= Pkts(h, r)
         THEN UNCHANGED <<rpc, rlq, net>>
         ELSE /\ Transmit(h, net, q)
              /\ rlq' = [rlq EXCEPT ![h][s.qid] = <<>>]
              /\ rpc' = [rpc EXCEPT ![h][r].sent = sent, ![h][r].rl = @ - Len(q)]
      /\ UNCHANGED <<shadow, del, fin, avail, dead, lost, lib, txq, rx, ackof>>

\* pacer_timer_cb(): sends the packets of an RPC of the throttle tree, which
\* stays in the tree while the message has more.  A packet whose send fails is
\* gone from the queue, and is still counted in rl.
pacer_timer_cb(h, r) ==
  LET s == rpc[h][r]
      q == rlq[h][s.qid]
  IN  /\ r \in tree[h]
      /\ IF \/ s.state # "OUTGOING"
            \/ s.qid = MAX_BUCKET_SIZE
            \/ s.sent >= Pkts(h, r)
         THEN /\ tree' = [tree EXCEPT ![h] = @ \ {r}]
              /\ UNCHANGED <<rpc, rlq, net>>
         ELSE \E n \in Taken(q) :
                LET sent == IF n = 0 THEN s.sent ELSE q[n].seq + 1
                IN  /\ Transmit(h, net, SubSeq(q, 1, n))
                    /\ rlq' = [rlq EXCEPT ![h][s.qid] = SubSeq(@, n + 2, Len(@))]
                    /\ rpc' = [rpc EXCEPT ![h][r].sent = sent, ![h][r].rl = @ - n]
                    /\ tree' = IF sent < Pkts(h, r) THEN tree
                               ELSE [tree EXCEPT ![h] = @ \ {r}]
      /\ UNCHANGED <<shadow, del, fin, avail, dead, lost, lib, txq, rx, ackof>>

-----------------------------------------------------------------------------
(* The receive hook                                                        *)

Live(s) == s.state \notin {"NONE", "DEAD"}

\* The counts that the timer compares with its copy have changed.
Moved(h, r) == [shadow EXCEPT ![h][r].moved = shadow[h][r].known]

\* What the hook passes to the library: the packet, and in its metadata the
\* messages whose buffers may be freed.
Redirect(h, p, reap) ==
  rx' = [rx EXCEPT ![h] = Append(@, [pkt |-> p, reap |-> reap])]

\* Mutant: a retransmission may create the state of an RPC.
server_requestCreates(tbl, p, reap) ==
  LET s == tbl["S"][p.r]
      new == s.state = "NONE"
      got == s.got \cup {p.seq}
      state == IF Cardinality(got) = ReqPkts[p.r] THEN "IN_SERVICE"
               ELSE IF new THEN "INCOMING" ELSE s.state
  IN  IF s.state = "DEAD" \/ p.seq \in s.got
      THEN rpc' = tbl /\ UNCHANGED <<shadow, rx>>
      ELSE /\ rpc' = [tbl EXCEPT !["S"][p.r] =
                        IF new THEN [NoRpc EXCEPT !.state = state, !.got = got,
                                                  !.qid = 0]
                        ELSE [s EXCEPT !.state = state, !.got = got]]
           /\ shadow' = Moved("S", p.r)
           /\ Redirect("S", p, reap)

\* server_request() with the table tbl; a dropped packet takes its metadata
\* with it.
server_request(tbl, p, reap) ==
  LET s == tbl["S"][p.r]
      new == s.state = "NONE"
      got == s.got \cup {p.seq}
      state == IF Cardinality(got) = ReqPkts[p.r] THEN "IN_SERVICE"
               ELSE IF new THEN "INCOMING" ELSE s.state
  IN  IF \/ new /\ p.retx
         \/ s.state = "DEAD"
         \/ p.seq \in s.got
      THEN rpc' = tbl /\ UNCHANGED <<shadow, rx>>
      ELSE /\ rpc' = [tbl EXCEPT !["S"][p.r] =
                        IF new THEN [NoRpc EXCEPT !.state = state, !.got = got,
                                                  !.qid = 0]
                        ELSE [s EXCEPT !.state = state, !.got = got]]
           /\ shadow' = Moved("S", p.r)
           /\ Redirect("S", p, reap)

\* Mutant: reclaim_rpc() does not ask whether the RPC is DEAD.
xdp_sock_requestRaces(p) ==
  IF p.ack # None /\ rpc["S"][p.ack].state # "NONE"
  THEN LET s == rpc["S"][p.ack]
       IN  /\ rpc' = [rpc EXCEPT !["S"][p.ack].state = "DEAD",
                                 !["S"][p.ack].own = FALSE]
           /\ fin' = [fin EXCEPT !["S"] = @ \cup
                        {[r |-> p.ack, qid |-> s.qid, head |-> s.head, pkt |-> p]}]
           /\ UNCHANGED <<shadow, rx, lost>>
  ELSE server_request(rpc, p, {}) /\ UNCHANGED <<fin, lost>>

\* reclaim_rpc() takes the RPC for itself, if another has not; the rest of
\* it and server_request() follow in FinishReclaim.  What it reads of the RPC
\* after the unlock is taken here: only a response sent twice could change it.
xdp_sock_request(p) ==
  IF p.ack # None /\ Live(rpc["S"][p.ack])
  THEN LET s == rpc["S"][p.ack]
       IN  /\ rpc' = [rpc EXCEPT !["S"][p.ack].state = "DEAD", !["S"][p.ack].own = FALSE]
           /\ fin' = [fin EXCEPT !["S"] = @ \cup
                        {[r |-> p.ack, qid |-> s.qid, head |-> s.head, pkt |-> p]}]
           /\ UNCHANGED <<shadow, rx, lost>>
  ELSE server_request(rpc, p, {}) /\ UNCHANGED <<fin, lost>>

\* Mutant: client_response() does not ask whether the RPC is DEAD.
client_responseRaces(p) ==
  LET s == rpc["C"][p.r]
      first == s.state = "OUTGOING"
      got == IF first THEN {p.seq} ELSE s.got \cup {p.seq}
  IN  IF s.state = "NONE" \/ (~first /\ p.seq \in s.got)
      THEN UNCHANGED <<rpc, shadow, rx, fin>>
      ELSE IF Cardinality(got) = RespPkts[p.r]
      THEN /\ rpc' = [rpc EXCEPT !["C"][p.r].state = "DEAD",
                                 !["C"][p.r].own = FALSE]
           /\ fin' = [fin EXCEPT !["C"] = @ \cup
                        {[r |-> p.r, qid |-> s.qid, head |-> TRUE, pkt |-> p]}]
           /\ UNCHANGED <<shadow, rx>>
      ELSE /\ rpc' = [rpc EXCEPT !["C"][p.r] =
                        [s EXCEPT !.state = "INCOMING", !.got = got]]
           /\ shadow' = Moved("C", p.r)
           /\ Redirect("C", p, {})
           /\ UNCHANGED fin

\* client_response(); the packet that completes the response is finished in
\* FinishResponse.
client_response(p) ==
  LET s == rpc["C"][p.r]
      first == s.state = "OUTGOING"
      got == IF first THEN {p.seq} ELSE s.got \cup {p.seq}
  IN  IF ~Live(s) \/ (~first /\ p.seq \in s.got)
      THEN UNCHANGED <<rpc, shadow, rx, fin>>
      ELSE IF Cardinality(got) = RespPkts[p.r]
      THEN /\ rpc' = [rpc EXCEPT !["C"][p.r].state = "DEAD", !["C"][p.r].own = FALSE]
           /\ fin' = [fin EXCEPT !["C"] = @ \cup
                        {[r |-> p.r, qid |-> s.qid, head |-> TRUE, pkt |-> p]}]
           /\ UNCHANGED <<shadow, rx>>
      ELSE /\ rpc' = [rpc EXCEPT !["C"][p.r] =
                        [s EXCEPT !.state = "INCOMING", !.got = got]]
           /\ shadow' = Moved("C", p.r)
           /\ Redirect("C", p, {})
           /\ UNCHANGED fin

\* The bytes received exceed those of the whole packets announced.
AllReceived(h, r) == /\ Cardinality(rpc[h][r].got) = Pkts(Peer(h), r)
                     /\ <<Peer(h), r>> \notin Exact

resend_pkt(h, n, p) ==
  LET s == rpc[h][p.r]
      Reply(t) == Transmit(h, n, <<Ctrl(t, p.r)>>) /\ UNCHANGED <<shadow, rx>>
  IN  CASE ~Live(s) -> Reply("UNKNOWN")
        [] Live(s) /\ h = "S" /\ s.state # "OUTGOING" ->
             IF AllReceived(h, p.r) THEN Reply("BUSY")
             ELSE net' = n /\ UNCHANGED <<shadow, rx>>
        [] OTHER -> IF p.lo >= s.sent THEN Reply("BUSY")
                    ELSE /\ net' = n
                         /\ shadow' = Moved(h, p.r)
                         /\ Redirect(h, p, {})

\* unknown_pkt(): the client sends again what it has sent; the server's RPC
\* is deleted, in FinishUnknown, and its queue id is not given back.
unknown_pkt(h, p) ==
  LET s == rpc[h][p.r]
  IN  CASE h = "C" /\ s.state = "OUTGOING" ->
             /\ Redirect(h, Resend(p.r, 0, s.sent - 1, FALSE), {})
             /\ UNCHANGED <<rpc, fin, lost>>
        [] h = "S" /\ Live(s) ->
             /\ rpc' = [rpc EXCEPT ![h][p.r].state = "DEAD", ![h][p.r].head = FALSE]
             /\ fin' = [fin EXCEPT ![h] = @ \cup
                          {[r |-> p.r, qid |-> s.qid, head |-> s.head, pkt |-> p]}]
             /\ UNCHANGED <<lost, rx>>
        [] OTHER -> UNCHANGED <<rpc, fin, lost, rx>>

busy_pkt(h, p) ==
  shadow' = IF Live(rpc[h][p.r])
            THEN [shadow EXCEPT ![h][p.r].busy = shadow[h][p.r].known]
            ELSE shadow

\* xdp_sock_prog() for the i-th packet on its way to h.
xdp_sock_prog(h, i) ==
  LET p == net[h][i]
      n == [net EXCEPT ![h] = RemoveAt(@, i)]
  IN  /\ Cardinality(fin[h]) < Cpus
      /\ Len(rx[h]) + Cardinality(fin[h]) < MaxRx
      /\ CASE p.type = "DATA" ->
                /\ IF h = "S" THEN xdp_sock_request(p)
                   ELSE client_response(p) /\ UNCHANGED lost
                /\ net' = n
           [] p.type = "RESEND" ->
                resend_pkt(h, n, p) /\ UNCHANGED <<rpc, fin, lost>>
           [] p.type = "UNKNOWN" ->
                unknown_pkt(h, p) /\ net' = n /\ UNCHANGED shadow
           [] p.type = "BUSY" ->
                busy_pkt(h, p) /\ net' = n /\ UNCHANGED <<rpc, fin, lost, rx>>
      /\ UNCHANGED <<del, avail, rlq, tree, dead, lib, txq, ackof>>

Freed(h, f) == IF f.qid = MAX_BUCKET_SIZE THEN avail
               ELSE [avail EXCEPT ![h] = Append(@, f.qid)]

\* bpf_map_delete_elem() removes whatever the key names by now.
Deleted(h, r) == [rpc EXCEPT ![h][r] = NoRpc]

\* The rest of client_response(): the queue of RPCs to acknowledge forgets
\* the oldest when it is full.
FinishResponse(f) ==
  LET q == Append(dead, f.r)
  IN  /\ f \in fin["C"]
      /\ fin' = [fin EXCEPT !["C"] = @ \ {f}]
      /\ avail' = Freed("C", f)
      /\ rpc' = Deleted("C", f.r)
      /\ lost' = LostWith("C", {f.r})
      /\ dead' = IF Len(q) > ACK_QUEUE THEN Tail(q) ELSE q
      /\ Redirect("C", f.pkt, {f.r})
      /\ UNCHANGED <<shadow, del, rlq, tree, lib, net, txq, ackof>>

\* The rest of reclaim_rpc(), and server_request() for the packet.
FinishReclaim(f) ==
  /\ f \in fin["S"] /\ f.pkt.type = "DATA"
  /\ fin' = [fin EXCEPT !["S"] = @ \ {f}]
  /\ avail' = Freed("S", f)
  /\ lost' = LostWith("S", {f.r})
  /\ server_request(Deleted("S", f.r), f.pkt, IF f.head THEN {f.r} ELSE {})
  /\ UNCHANGED <<del, rlq, tree, dead, lib, net, txq, ackof>>

FinishUnknown(f) ==
  /\ f \in fin["S"] /\ f.pkt.type = "UNKNOWN"
  /\ fin' = [fin EXCEPT !["S"] = @ \ {f}]
  /\ lost' = LostWith("S", {f.r})
  /\ rpc' = Deleted("S", f.r)
  /\ Redirect("S", f.pkt, IF f.head THEN {f.r} ELSE {})
  /\ UNCHANGED <<shadow, del, avail, rlq, tree, dead, lib, net, txq, ackof>>

-----------------------------------------------------------------------------
(* The timer of the slow path                                              *)

\* find_first_zero_segment()
FirstHole(got, n) ==
  LET lo == Min(0 .. n - 1 \ got)
  IN  <<lo, Max({i \in lo .. n - 1 : lo .. i \cap got = {}})>>

\* get_resend_range(): a client without any response asks for 100 bytes.
get_resend_range(h, r) ==
  LET s == rpc[h][r]
      hole == FirstHole(s.got, Pkts(Peer(h), r))
  IN  IF s.state = "OUTGOING" THEN Resend(r, 0, 0, FALSE)
      ELSE Resend(r, hole[1], hole[2], TRUE)

\* What the scan of the slow path makes of an RPC: the entry of the shadow
\* table, and whether it is deleted or a RESEND is sent.
Keep(w) == [w |-> w, kill |-> FALSE, resend |-> FALSE]
Kill == [w |-> NoShadow, kill |-> TRUE, resend |-> FALSE]

\* check_timeout() with the entry w.  The receiver of a NEED_ACK drops it, so
\* that it is only counted here.
check_timeout(h, r, w) ==
  LET s == rpc[h][r]
      reset == [w EXCEPT !.silent = 0, !.try = 0]
  IN  CASE h = "S" /\ s.state = "OUTGOING" /\ s.sent >= Pkts(h, r) ->
             Keep(IF w.done = 0 THEN [w EXCEPT !.done = 1, !.try = 0]
                  ELSE IF w.done < NEED_ACK_TICK THEN [w EXCEPT !.done = @ + 1]
                  ELSE [w EXCEPT !.try = @ + 1])
        [] s.state = "OUTGOING" /\ s.sent < Pkts(h, r) -> Keep(reset)
        [] s.state = "INCOMING" /\ AllReceived(h, r) -> Keep(reset)
        [] s.state = "IN_SERVICE" -> Keep(reset)
        [] OTHER ->
             IF w.moved THEN Keep([reset EXCEPT !.moved = FALSE])
             ELSE IF w.silent < RESEND_TICK - 1 THEN Keep(w)
             ELSE [Keep([w EXCEPT !.try = @ + 1, !.silent = 0])
                     EXCEPT !.resend = TRUE]

Scan(h, r) ==
  LET s == rpc[h][r]
      w == shadow[h][r]
      silent == IF w.busy THEN 0 ELSE Min({w.silent + 1, RESEND_TICK})
  IN  CASE s.state = "NONE" -> Keep(NoShadow)
        [] s.state = "DEAD" -> Kill
        [] Live(s) /\ ~w.known -> Keep([NoShadow EXCEPT !.known = TRUE])
        [] Live(s) /\ w.known /\ w.try = ABORT_RESEND -> Kill
        [] OTHER -> check_timeout(h, r, [w EXCEPT !.silent = silent,
                                                  !.busy = FALSE])

\* poll_homa_to(): bpf_map_lookup_batch() copies the RPCs, which are then
\* looked at; those to delete are deleted at the end, in delete_batch.
poll_homa_to(h) ==
  LET seen == [r \in Rpcs |-> Scan(h, r)]
      asks == SetToSortSeq({r \in Rpcs : seen[r].resend}, <)
  IN  /\ del[h] = {}
      /\ \E r \in Rpcs : rpc[h][r].state # "NONE" \/ shadow[h][r].known
      /\ shadow' = [shadow EXCEPT ![h] = [r \in Rpcs |-> seen[r].w]]
      /\ del' = [del EXCEPT ![h] = {r \in Rpcs : seen[r].kill}]
      /\ Transmit(h, net, [i \in DOMAIN asks |-> get_resend_range(h, asks[i])])
      /\ UNCHANGED <<rpc, fin, avail, rlq, tree, dead, lost, lib, txq, rx, ackof>>

\* bpf_map_delete_batch()
delete_batch(h) ==
  /\ del[h] # {}
  /\ del' = [del EXCEPT ![h] = {}]
  /\ lost' = LostWith(h, del[h])
  /\ rpc' = [rpc EXCEPT ![h] = [r \in Rpcs |-> IF r \in del[h] THEN NoRpc ELSE @[r]]]
  /\ UNCHANGED <<shadow, fin, avail, rlq, tree, dead, lib, net, txq, rx, ackof>>

-----------------------------------------------------------------------------
(* The library                                                             *)

\* message_tx_segmentation(): the frames of a message.
Frames(h, r) == [i \in 1 .. Pkts(h, r) |-> Data(r, i - 1)]

\* enqueue_request() and flush_rpc_request_queue(): the client's application
\* starts its next RPC; without a slot it waits for a response.
enqueue_request ==
  /\ next \in Rpcs /\ slots > 0
  /\ Len(txq["C"]) < MaxTx
  /\ next' = next + 1 /\ slots' = slots - 1
  /\ txq' = [txq EXCEPT !["C"] = @ \o Frames("C", next)]
  /\ UNCHANGED <<kern, net, rx, ackof, have, todo, retxq, flag, freed, handled>>

\* enqueue_response() and flush_rpc_response_queue()
enqueue_response(r) ==
  /\ r \in todo
  /\ Len(txq["S"]) < MaxTx
  /\ todo' = todo \ {r}
  /\ txq' = [txq EXCEPT !["S"] = @ \o Frames("S", r)]
  /\ UNCHANGED <<kern, net, rx, ackof, next, slots, have, retxq, flag, freed,
                 handled>>

\* enqueue_reap_backlog(): homa_txmeta_set_flag() writes the whole word, so
\* that the flag of a retransmission is gone when it is tested.
enqueue_reap_backlog(L, r) ==
  LET fl == [L.flag EXCEPT ![r] = {"reap"}]
  IN  [L EXCEPT !.flag = fl,
                !.reap = IF "retx" \in fl[r] THEN @ ELSE Append(@, r)]

\* server_request() and client_response() of the library: the packets of a
\* message are counted; the last one calls the application.
Assemble(h, L, r) ==
  LET whole == L.have[r] + 1 = Pkts(Peer(h), r)
  IN  [L EXCEPT !.have[r] = IF whole THEN 0 ELSE @ + 1,
                !.calls = IF whole THEN Append(@, r) ELSE @]

\* poll_nic_rx() for one packet, with the state L of the library of h.
Receive(h, L, e) ==
  LET M == FoldSet(LAMBDA r, K : enqueue_reap_backlog(K, r), L, e.reap)
      p == e.pkt
  IN  CASE p.type = "DATA" -> Assemble(h, M, p.r)
        [] p.type = "RESEND" /\ M.flag[p.r] = {} ->
             [M EXCEPT !.flag[p.r] = {"retx"}, !.retxq = Append(@, p)]
        [] OTHER -> M

\* A copy made by prepare_retransmission(): it takes as many bytes of the
\* frame, headers included, as the RESEND asks for, and at most HOMA_MSS.
\* Only a last segment that is short is then copied whole.
Copy(h, p, i) ==
  [Data(p.r, i) EXCEPT
     !.retx = TRUE,
     !.ack = IF h = "C" THEN ackof[p.r][i] ELSE None,
     !.cut = ~(p.whole /\ i = Pkts(h, p.r) - 1 /\ <<h, p.r>> \notin Exact)]

Copies(h, p) == LET hi == Min({p.hi, Pkts(h, p.r) - 1})
                IN  [i \in 1 .. hi - p.lo + 1 |-> Copy(h, p, p.lo + i - 1)]

\* flush_reap_backlog()
flush_reap_backlog(h, L) ==
  freed' = [freed EXCEPT ![h] = [r \in Rpcs |-> @[r] +
              Cardinality({i \in DOMAIN L.reap : L.reap[i] = r})]]

\* flush_rpc_retransmission_queue(): the first of the retransmissions.  A
\* message that was freed has lost its flags, so that "reap" is never met.
flush_rpc_retransmission_queue(h, L) ==
  LET fl == [r \in Rpcs |-> IF r \in ToSet(L.reap) THEN {} ELSE L.flag[r]]
      p == Head(L.retxq)
  IN  IF L.retxq = <<>>
      THEN /\ flag' = [flag EXCEPT ![h] = fl]
           /\ retxq' = [retxq EXCEPT ![h] = <<>>]
           /\ UNCHANGED txq
      ELSE /\ flag' = [flag EXCEPT ![h] = [fl EXCEPT ![p.r] = @ \ {"retx"}]]
           /\ retxq' = [retxq EXCEPT ![h] = Tail(L.retxq)]
           /\ txq' = [txq EXCEPT ![h] = @ \o Copies(h, p)]

\* run_event_loop(); a retransmission waits for room in the transmit ring.
run_event_loop(h) ==
  LET n == Min({RX_BATCH_SIZE, Len(rx[h])})
      L == FoldLeft(LAMBDA K, e : Receive(h, K, e),
                    [have |-> have[h], flag |-> flag[h], retxq |-> retxq[h],
                     reap |-> <<>>, calls |-> <<>>],
                    SubSeq(rx[h], 1, n))
  IN  /\ rx[h] # <<>> \/ retxq[h] # <<>>
      /\ Len(txq[h]) < MaxTx
      /\ rx' = [rx EXCEPT ![h] = SubSeq(@, n + 1, Len(@))]
      /\ have' = [have EXCEPT ![h] = L.have]
      /\ IF h = "C"
         THEN slots' = slots + Len(L.calls) /\ UNCHANGED <<todo, handled>>
         ELSE /\ UNCHANGED slots
              /\ todo' = todo \cup ToSet(L.calls)
              /\ handled' = [r \in Rpcs |-> handled[r] +
                   Cardinality({i \in DOMAIN L.calls : L.calls[i] = r})]
      /\ flush_reap_backlog(h, L)
      /\ flush_rpc_retransmission_queue(h, L)
      /\ UNCHANGED <<kern, net, ackof, next>>

-----------------------------------------------------------------------------
Next ==
  \/ enqueue_request
  \/ \E r \in Rpcs : enqueue_response(r)
  \/ \E h \in Hosts :
       \/ xdp_egress_prog(h)
       \/ run_event_loop(h)
       \/ \E i \in DOMAIN net[h] : (Reorder \/ i = 1) /\ xdp_sock_prog(h, i)
       \/ \E r \in Rpcs : pacer_timer_cb(h, r)
       \/ poll_homa_to(h)
       \/ delete_batch(h)
  \/ \E f \in fin["C"] : FinishResponse(f)
  \/ \E f \in fin["S"] : FinishReclaim(f) \/ FinishUnknown(f)

Spec == Init /\ [][Next]_vars

Fairness ==
  /\ \A h \in Hosts :
       /\ WF_vars(xdp_egress_prog(h))
       /\ WF_vars(run_event_loop(h))
       /\ \A r \in Rpcs : WF_vars(pacer_timer_cb(h, r))
       /\ WF_vars(poll_homa_to(h))
       /\ WF_vars(delete_batch(h))
  /\ WF_vars(\E f \in fin["C"] : FinishResponse(f))
  /\ WF_vars(\E f \in fin["S"] : FinishReclaim(f) \/ FinishUnknown(f))

FairSpec == Spec /\ Fairness

-----------------------------------------------------------------------------
\* The states, queue ids and counts that the code can hold.  (One bound is the
\* timer's: it deletes an RPC before it counts past ABORT_RESEND.)
TypeOK ==
  /\ \A h \in Hosts, r \in Rpcs :
       /\ rpc[h][r].state \in {"NONE", "OUTGOING", "INCOMING", "IN_SERVICE", "DEAD"}
       /\ rpc[h][r].got \subseteq 0 .. Pkts(Peer(h), r) - 1
       /\ rpc[h][r].qid \in Qids \cup {MAX_BUCKET_SIZE}
       /\ rpc[h][r].rl \in 0 .. Pkts(h, r)
       /\ shadow[h][r].try \in 0 .. ABORT_RESEND

\* The server's application sees a request at most once, whatever is lost,
\* sent again or timed out: server_request() takes no packet twice, and does
\* not let a retransmission create an RPC that has been deleted (rpc.h:1450).
HandledOnce == \A r \in Rpcs : handled[r] <= 1

\* A queue of the rate limiter is free, or held by one RPC, or about to be
\* given back by the one hook that marked its RPC DEAD, or gone with an RPC
\* that was deleted without free_qid() (an abort, an UNKNOWN): it never serves
\* two messages, although two hooks and the timer may delete the same RPC.
QidExact ==
  \A h \in Hosts, q \in Qids :
    Cardinality({i \in DOMAIN avail[h] : avail[h][i] = q})
      + Cardinality({r \in Rpcs : rpc[h][r].own /\ rpc[h][r].qid = q})
      + Cardinality({f \in fin[h] : f.pkt.type = "DATA" /\ f.qid = q})
      + Cardinality({q} \cap lost[h]) = 1

\* The library frees the buffers of a message at most once (rpc.h:1404, 1577),
\* and the server those of a response only when the client no longer needs it:
\* the client's RPC is not live, so that it asks for no retransmission.
ReapedOnce ==
  \A r \in Rpcs :
    /\ freed["C"][r] <= 1 /\ freed["S"][r] <= 1
    /\ freed["S"][r] = 1 => ~Live(rpc["C"][r])

\* The timer leaves a message alone until all of it has been sent (homa.cc:400),
\* so that what is not sent must be on its way: packets are still in the
\* transmit ring, or in a queue whose RPC has a node in the throttle tree.
UnsentQueued ==
  \A h \in Hosts, r \in Rpcs :
    rpc[h][r].state = "OUTGOING" /\ rpc[h][r].sent < Pkts(h, r) =>
      \/ \E i \in DOMAIN txq[h] : txq[h][i].r = r /\ ~txq[h][i].retx
      \/ r \in tree[h] /\ rlq[h][rpc[h][r].qid] # <<>>

\* The client's RPC ends, answered or given up, and so does a server's RPC
\* whose response is sent: check_timeout() counts its tries up to ABORT_RESEND.
RpcEnds ==
  \A r \in Rpcs :
    /\ rpc["C"][r].state # "NONE" ~> rpc["C"][r].state = "NONE"
    /\ rpc["S"][r].state = "OUTGOING" /\ rpc["S"][r].sent >= RespPkts[r]
         ~> rpc["S"][r].state = "NONE"

\* No frame waits in the transmit ring whose message has been freed: the buffers
\* under retransmission are not reclaimed (xsk_if.h:151-153).
NoneSentFreed ==
  \A h \in Hosts : \A i \in DOMAIN txq[h] :
    txq[h][i].retx => freed[h][txq[h][i].r] = 0

\* What the library receives are whole segments: a RESEND makes the sender send
\* at least one full packet (homa.cc:166-170).
WholeDelivered ==
  \A h \in Hosts : \A i \in DOMAIN rx[h] :
    rx[h][i].pkt.type = "DATA" => ~rx[h][i].pkt.cut
=============================================================================
