----------------------------- MODULE TimingWheel -----------------------------
(***************************************************************************)
(* The pacing of TCP on one CPU: the timing wheel of                       *)
(* micro_kernel/eBPF/tcp/pacing.h, a ring of packet queues, one per slot   *)
(* of SLOT_WIDTH_NS.  tcp_tx_process() gives a packet the time at which it *)
(* should leave and sends it at once (the bypass) or puts it in the wheel; *)
(* a timer of the CPU, kicked by the first packet, empties the slots whose *)
(* time has come and starts again while packets are left.                  *)
(*                                                                         *)
(* The hook and the timer run in softirqs of the same CPU and exclude each *)
(* other; the clock runs on, and the callback reads it once.  A packet     *)
(* carries two ghosts, its number among those of its connection and the    *)
(* slot that it was put in.                                                *)
(***************************************************************************)
EXTENDS Integers, Sequences, FiniteSets

CONSTANTS Conns,        \* connections that send on this CPU
          MAX_BUCKETS,  \* 50000
          NR_SLOT_PER_BKT, \* 1024, the packets that a bucket holds
          SLOT_WIDTH_NS,   \* 500
          TW_BATCH_SIZE,   \* 32
          Probes,       \* 16, the slots that tw_extract() looks at
          Deltas,       \* bound: time that a packet takes at the rate
          LinkDelta,    \* the same at LINK_BANDWIDTH
          MaxPkts,      \* bound: packets of a connection
          MaxTime       \* bound: the clock, in nanoseconds

ASSUME WheelAssumption == /\ MAX_BUCKETS \in Nat \ {0}
                          /\ SLOT_WIDTH_NS \in Nat \ {0}
                          /\ NR_SLOT_PER_BKT \in Nat
                          /\ TW_BATCH_SIZE \in Nat \ {0} /\ Probes \in Nat \ {0}
ASSUME TimeAssumption == /\ Deltas \subseteq Nat /\ LinkDelta \in Nat
                         /\ MaxPkts \in Nat /\ MaxTime \in Nat

VARIABLES
  now,      \* bpf_ktime_get_ns()
  front,    \* front_timestamp, 0 until the first packet
  bucket,   \* the packet queues
  nr,       \* nr_pkts_in_tw
  has_kick, \* has_kick
  armed,    \* the timer has been started and its callback not yet run
  cb,       \* tw_cb(): what it does next, its time, its rounds and probes
  prev,     \* prev_desired_tx_ts of each connection
  sub,      \* ghost: packets of a connection submitted so far
  last,     \* ghost: the number of the last one on the wire
  lost      \* ghost: packets dropped by a full bucket or a failed send

vars == <<now, front, bucket, nr, has_kick, armed, cb, prev, sub, last, lost>>

Frames == [conn : Conns, n : Nat \ {0}, slot : Nat]

Off == [pc |-> "off", now |-> 0, tries |-> 0, probes |-> 0]

\* The module is loaded well after the clock was started.
Init ==
  /\ now = SLOT_WIDTH_NS
  /\ front = 0
  /\ bucket = [b \in 0 .. MAX_BUCKETS - 1 |-> <<>>]
  /\ nr = 0 /\ has_kick = FALSE /\ armed = FALSE
  /\ cb = Off
  /\ prev = [c \in Conns |-> 0]
  /\ sub = [c \in Conns |-> 0]
  /\ last = [c \in Conns |-> 0]
  /\ lost = 0

Slot(ts) == ts \div SLOT_WIDTH_NS

Later(a, b) == IF a <= b THEN b ELSE a

-----------------------------------------------------------------------------
(* The hook of the transmit path                                           *)

\* Mutant: the cached time is kept up to date.
ref_tsCached == now

\* The reference time: tx_cached_ts, which nothing writes, while the timer
\* is kicked.
ref_ts == IF has_kick THEN 0 ELSE now

cc_get_desired_tx_ts(c, delta) == Later(ref_ts, prev[c] + delta)

\* The slot of a packet: the current one when its time has passed, the last
\* one when it is too far away.
Clamp(f, ts) == CASE ts <= f -> f
                  [] ts > f + MAX_BUCKETS - 1 -> f + MAX_BUCKETS - 1
                  [] OTHER -> ts

\* BYPASS_RL: alone says that nothing else of the connection is in flight.
Bypass(delta, alone, desired) ==
  \/ delta <= LinkDelta /\ nr = 0
  \/ (nr = 0 \/ alone) /\ desired <= ref_ts

\* kick_tw()
kick_tw == has_kick' = TRUE /\ armed' = (armed \/ ~has_kick)

\* tw_insert() and the redirection to the bucket, which drops the packet
\* when the bucket is full; it has been counted by then.
tw_insert(c, desired) ==
  LET f == IF front = 0 THEN Slot(now) ELSE front
      slot == Clamp(f, Slot(desired))
      b == slot % MAX_BUCKETS
      full == Len(bucket[b]) = NR_SLOT_PER_BKT
      frame == [conn |-> c, n |-> sub[c] + 1, slot |-> slot]
  IN  /\ front' = f
      /\ nr' = nr + 1
      /\ bucket' = IF full THEN bucket
                   ELSE [bucket EXCEPT ![b] = Append(@, frame)]
      /\ lost' = IF full THEN lost + 1 ELSE lost
      /\ kick_tw

\* tcp_tx_process() for a packet with data: the pacing is charged twice, by
\* cc_get_desired_tx_ts() and again by send_ep().
tcp_tx_process(c, delta, alone) ==
  LET desired == cc_get_desired_tx_ts(c, delta) IN
  /\ cb.pc = "off"
  /\ sub[c] < MaxPkts /\ desired <= MaxTime /\ now + SLOT_WIDTH_NS <= MaxTime
  /\ prev' = [prev EXCEPT ![c] = Later(ref_ts, desired + delta)]
  /\ sub' = [sub EXCEPT ![c] = @ + 1]
  /\ \/ /\ Bypass(delta, alone, desired)
        /\ last' = [last EXCEPT ![c] = sub[c] + 1]
        /\ UNCHANGED <<front, bucket, nr, has_kick, armed, lost>>
     \/ /\ ~ Bypass(delta, alone, desired)
        /\ tw_insert(c, desired)
        /\ UNCHANGED last
  /\ UNCHANGED <<now, cb>>

\* tcp_tx_process() for the packet of a timeout, which follows data of
\* the connection: charged and not sent.
tcp_tx_timeout(c, delta) ==
  LET desired == cc_get_desired_tx_ts(c, delta) IN
  /\ cb.pc = "off"
  /\ sub[c] > 0 /\ desired <= MaxTime
  /\ prev' = [prev EXCEPT ![c] = desired]
  /\ UNCHANGED <<now, front, bucket, nr, has_kick, armed, cb, sub, last, lost>>

-----------------------------------------------------------------------------
(* The callback of the timer                                               *)

tw_cb ==
  /\ armed /\ cb.pc = "off"
  /\ armed' = FALSE /\ has_kick' = FALSE
  /\ cb' = [pc |-> "run", now |-> Slot(now), tries |-> 0, probes |-> 0]
  /\ UNCHANGED <<now, front, bucket, nr, prev, sub, last, lost>>

Current == front % MAX_BUCKETS

\* Mutant: the slot after the current time is emptied too.
ExtractingAhead ==
  cb.pc = "run" /\ cb.tries < TW_BATCH_SIZE /\ cb.now + 1 >= front

\* A round of the loop goes on to look at the slot in front.
Extracting == cb.pc = "run" /\ cb.tries < TW_BATCH_SIZE /\ cb.now >= front

\* tw_extract(): the slot in front is empty; after Probes of them the next
\* round begins.
SkipSlot ==
  /\ Extracting
  /\ bucket[Current] = <<>>
  /\ front' = front + 1
  /\ cb' = IF cb.probes + 1 < Probes
           THEN [cb EXCEPT !.probes = @ + 1]
           ELSE [cb EXCEPT !.probes = 0, !.tries = @ + 1]
  /\ UNCHANGED <<now, bucket, nr, has_kick, armed, prev, sub, last, lost>>

\* Mutant: a failed send is taken off the count.
SendPacketForgets ==
  /\ Extracting
  /\ bucket[Current] # <<>>
  /\ LET frame == Head(bucket[Current]) IN
     /\ bucket' = [bucket EXCEPT ![Current] = Tail(@)]
     /\ nr' = nr - 1
     /\ \/ /\ last' = [last EXCEPT ![frame.conn] = frame.n]
           /\ cb' = [cb EXCEPT !.probes = 0, !.tries = @ + 1]
           /\ UNCHANGED lost
        \/ /\ lost' = lost + 1
           /\ cb' = [cb EXCEPT !.pc = "end"]
           /\ UNCHANGED last
  /\ UNCHANGED <<now, front, has_kick, armed, prev, sub>>

\* A packet is taken from the slot in front and sent, or lost by an error
\* that ends the loop and leaves it counted.
SendPacket ==
  /\ Extracting
  /\ bucket[Current] # <<>>
  /\ LET frame == Head(bucket[Current]) IN
     /\ bucket' = [bucket EXCEPT ![Current] = Tail(@)]
     /\ \/ /\ nr' = nr - 1
           /\ last' = [last EXCEPT ![frame.conn] = frame.n]
           /\ cb' = [cb EXCEPT !.probes = 0, !.tries = @ + 1]
           /\ UNCHANGED lost
        \/ /\ lost' = lost + 1
           /\ cb' = [cb EXCEPT !.pc = "end"]
           /\ UNCHANGED <<nr, last>>
  /\ UNCHANGED <<now, front, has_kick, armed, prev, sub>>

\* Mutant: started again only when the slot in front has packets.
EndCallbackLazy ==
  /\ cb.pc \in {"run", "end"}
  /\ ~ Extracting
  /\ cb' = Off
  /\ IF bucket[Current] # <<>> THEN kick_tw ELSE UNCHANGED <<has_kick, armed>>
  /\ UNCHANGED <<now, front, bucket, nr, prev, sub, last, lost>>

\* The end of the callback: started again while packets are counted.
EndCallback ==
  /\ cb.pc \in {"run", "end"}
  /\ ~ Extracting
  /\ cb' = Off
  /\ IF nr > 0 THEN kick_tw ELSE UNCHANGED <<has_kick, armed>>
  /\ UNCHANGED <<now, front, bucket, nr, prev, sub, last, lost>>

Tick ==
  /\ now < MaxTime
  /\ now' = now + 1
  /\ UNCHANGED <<front, bucket, nr, has_kick, armed, cb, prev, sub, last, lost>>

Timer == tw_cb \/ SkipSlot \/ SendPacket \/ EndCallback

Next ==
  \/ \E c \in Conns, delta \in Deltas :
       \/ \E alone \in BOOLEAN : tcp_tx_process(c, delta, alone)
       \/ tcp_tx_timeout(c, delta)
  \/ tw_cb
  \/ SkipSlot
  \/ SendPacket
  \/ EndCallback
  \/ Tick

Spec == Init /\ [][Next]_vars

\* A timer that has been started fires, its callback runs to the end, and
\* time passes.
FairSpec == Spec /\ WF_vars(Timer) /\ WF_vars(Tick)

-----------------------------------------------------------------------------
(* Properties                                                              *)

Held == UNION {{bucket[b][i] : i \in DOMAIN bucket[b]} : b \in DOMAIN bucket}

\* Types of the wheel, its timer and the ghosts.
TypeOK ==
  /\ now \in Nat /\ front \in Nat /\ nr \in Nat /\ lost \in Nat
  /\ bucket \in [0 .. MAX_BUCKETS - 1 -> Seq(Frames)]
  /\ has_kick \in BOOLEAN /\ armed \in BOOLEAN
  /\ cb \in [pc : {"off", "run", "end"}, now : Nat, tries : Nat, probes : Nat]
  /\ prev \in [Conns -> Nat] /\ sub \in [Conns -> Nat] /\ last \in [Conns -> Nat]

\* The index of a bucket stands for one slot only, of the MAX_BUCKETS from
\* front_timestamp on: tw_insert() never puts a packet in a bucket that
\* tw_extract() has already passed in this turn of the wheel.
OneTurn ==
  \A b \in DOMAIN bucket : \A i \in DOMAIN bucket[b] :
    /\ bucket[b][i].slot \in front .. front + MAX_BUCKETS - 1
    /\ bucket[b][i].slot % MAX_BUCKETS = b

\* nr_pkts_in_tw counts the packets in the wheel and those that a full
\* bucket or a failed send has dropped: zero means that the wheel is empty.
CountExact == nr = Cardinality(Held) + lost

\* While packets are counted the timer is armed or its callback runs, and
\* the flag has_kick never claims a kick that did not happen.
NeverStalled ==
  /\ nr > 0 => armed \/ cb.pc # "off"
  /\ has_kick = armed

\* The packets of a connection reach the wire in the order in which
\* tcp_tx_process() accepted them, whatever their rates, whether they went
\* through the wheel or around it.
InOrder == [][\A c \in Conns : last'[c] >= last[c]]_vars

\* A packet leaves the wheel no earlier than the time of its slot.
OnTime == [][\A f \in Held : f \in Held' \/ f.slot <= Slot(now)]_vars

\* Every packet in the wheel leaves it, full buckets and failed sends of
\* others notwithstanding.
Drains == \A c \in Conns : (\E f \in Held : f.conn = c) ~> (\A f \in Held : f.conn # c)

=============================================================================
