-------------------------------- MODULE Lrpc --------------------------------
(***************************************************************************)
(* The shared-memory channel between the microkernel and one application   *)
(* thread (common/base/lrpc.h, lrpc.cc): a ring of Size slots, written by  *)
(* one sender and read by one receiver.  A slot is published by the parity *)
(* bit of its command, which flips on every lap; the sender learns of free *)
(* slots only from recv_head_wb, and only when its cached send_tail says   *)
(* that the ring is full.                                                  *)
(*                                                                         *)
(* The accesses to shared memory are separate steps: the payload copy, the *)
(* release store of the command, the acquire load of the command, the copy *)
(* out, the release store of recv_head_wb.  send_head, send_tail and       *)
(* recv_head are private to one side.  The counters are unsigned words     *)
(* that wrap at Word (2^32 in the code).                                   *)
(***************************************************************************)
EXTENDS Integers, Sequences

CONSTANTS Msg,      \* messages
          Size,     \* slots of the ring, LRPC_CHANNEL_SIZE
          Laps,     \* Word = Laps * 2 * Size
          NoMsg     \* the contents of a zeroed slot

ASSUME SizeAssumption == Size \in Nat \ {0}
ASSUME LapsAssumption == Laps \in Nat \ {0}
ASSUME NoMsgAssumption == NoMsg \notin Msg

\* Both Size and Word are powers of two in the code; what the algorithm needs
\* of that is only that a wrap of the counters keeps slot and parity in step.
Word == Laps * (2 * Size)

VARIABLES tbl,           \* slot -> [par, cmd, data], shared
          recv_head_wb,  \* shared, written by the receiver
          send_head, send_tail, spc, smsg,    \* sender
          recv_head, rpc, rmsg                \* receiver

vars == <<tbl, recv_head_wb, send_head, send_tail, spc, smsg,
          recv_head, rpc, rmsg>>
senderVars == <<send_head, send_tail, spc, smsg>>
receiverVars == <<recv_head, rpc, rmsg, recv_head_wb>>

Counter == 0 .. Word - 1
Slots == 0 .. Size - 1

\* Unsigned arithmetic of the width of the counters.
Inc(a) == (a + 1) % Word
Sub(a, b) == (a - b) % Word

Slot(head) == head % Size
\* Mutant: the parity does not flip from lap to lap.
ParityFixed(head) == 1

\* (head & size) ? 0 : LRPC_DONE_PARITY
Parity(head) == 1 - ((head \div Size) % 2)

Init == /\ tbl = [j \in Slots |-> [par |-> 0, cmd |-> NoMsg, data |-> NoMsg]]
        /\ recv_head_wb = 0
        /\ send_head = 0 /\ send_tail = 0 /\ spc = "idle" /\ smsg = NoMsg
        /\ recv_head = 0 /\ rpc = "idle"
        /\ rmsg = [cmd |-> NoMsg, data |-> NoMsg]

-----------------------------------------------------------------------------
(* lrpc_send() / __lrpc_send()                                             *)

\* The fast path: the cached tail leaves room.
SendFast(m) == /\ spc = "idle"
               /\ Sub(send_head, send_tail) < Size
               /\ spc' = "copy" /\ smsg' = m
               /\ UNCHANGED <<tbl, send_head, send_tail, receiverVars>>

\* Mutant: the slow path does not test again whether the ring is full.
SendSlowUnchecked(m) == /\ spc = "idle"
                        /\ Sub(send_head, send_tail) >= Size
                        /\ send_tail' = recv_head_wb
                        /\ spc' = "copy" /\ smsg' = m
                        /\ UNCHANGED <<tbl, send_head, receiverVars>>

\* The slow path re-reads the receiver's head; the call fails (-1) when the
\* ring is still full.
SendSlow(m) == /\ spc = "idle"
               /\ Sub(send_head, send_tail) >= Size
               /\ send_tail' = recv_head_wb
               /\ IF Sub(send_head, recv_head_wb) = Size
                    THEN UNCHANGED <<spc, smsg>>
                    ELSE spc' = "copy" /\ smsg' = m
               /\ UNCHANGED <<tbl, send_head, receiverVars>>

SendCopy == /\ spc = "copy"
            /\ tbl' = [tbl EXCEPT ![Slot(send_head)].data = smsg]
            /\ spc' = "publish"
            /\ UNCHANGED <<send_head, send_tail, smsg, receiverVars>>

\* The release store of the command; send_head++ is private to the sender.
SendPublish ==
  /\ spc = "publish"
  /\ tbl' = [tbl EXCEPT ![Slot(send_head)].par = Parity(send_head),
                        ![Slot(send_head)].cmd = smsg]
  /\ send_head' = Inc(send_head)
  /\ spc' = "idle"
  /\ UNCHANGED <<send_tail, smsg, receiverVars>>

-----------------------------------------------------------------------------
(* lrpc_recv() and lrpc_empty()                                            *)

\* Mutant: the receiver forgets that the parity flips.
LrpcEmptyFixed == tbl[Slot(recv_head)].par # 1

LrpcEmpty == tbl[Slot(recv_head)].par # Parity(recv_head)

\* Mutant: the head is written back before the payload is copied out.
RecvLoadEager == /\ rpc = "idle"
                 /\ ~LrpcEmpty
                 /\ recv_head' = Inc(recv_head)
                 /\ recv_head_wb' = Inc(recv_head)
                 /\ rmsg' = [rmsg EXCEPT !.cmd = tbl[Slot(recv_head)].cmd]
                 /\ rpc' = "copy"
                 /\ UNCHANGED <<tbl, senderVars>>

RecvLoad == /\ rpc = "idle"
            /\ ~LrpcEmpty
            /\ recv_head' = Inc(recv_head)
            /\ rmsg' = [rmsg EXCEPT !.cmd = tbl[Slot(recv_head)].cmd]
            /\ rpc' = "copy"
            /\ UNCHANGED <<tbl, recv_head_wb, senderVars>>

\* Mutant: the payload is read from the slot after the claimed one.
ClaimedNext == Slot(recv_head)

\* The slot the receiver has claimed, `m' in the code.
Claimed == Slot(Sub(recv_head, 1))

RecvCopy == /\ rpc = "copy"
            /\ rmsg' = [rmsg EXCEPT !.data = tbl[Claimed].data]
            /\ rpc' = "writeback"
            /\ UNCHANGED <<tbl, recv_head, recv_head_wb, senderVars>>

RecvWriteBack == /\ rpc = "writeback"
                 /\ recv_head_wb' = recv_head
                 /\ rpc' = "idle"
                 /\ UNCHANGED <<tbl, recv_head, rmsg, senderVars>>

-----------------------------------------------------------------------------
Send == (\E m \in Msg : SendFast(m) \/ SendSlow(m)) \/ SendCopy \/ SendPublish
Recv == RecvLoad \/ RecvCopy \/ RecvWriteBack

Next == Send \/ Recv

Spec == Init /\ [][Next]_vars

\* A call of lrpc_send() or lrpc_recv() runs to its end, and the receiver
\* polls the channel in every iteration of its loop.
FairSpec == Spec /\ WF_vars(Recv) /\ WF_vars(SendCopy \/ SendPublish)

-----------------------------------------------------------------------------
(* Properties                                                              *)

TypeOK ==
  /\ tbl \in [Slots -> [par : {0, 1}, cmd : Msg \cup {NoMsg},
                                      data : Msg \cup {NoMsg}]]
  /\ recv_head_wb \in Counter
  /\ send_head \in Counter /\ send_tail \in Counter
  /\ spc \in {"idle", "copy", "publish"}
  /\ smsg \in Msg \cup {NoMsg}
  /\ recv_head \in Counter
  /\ rpc \in {"idle", "copy", "writeback"}
  /\ rmsg \in [cmd : Msg \cup {NoMsg}, data : Msg \cup {NoMsg}]

\* The assertion of __lrpc_send (lrpc.cc:13): whenever lrpc_send() takes the
\* slow path, the distance to the cached tail is exactly the size of the ring.
SlowPathExact == Sub(send_head, send_tail) <= Size

\* The payload copies of the two sides never touch the same slot at the same
\* time, although neither side holds a lock: lrpc_send() writes a slot only
\* after the receiver has written back a head that is past it.
NoDataRace ==
  spc # "idle" /\ rpc # "idle" => Slot(send_head) # Claimed

\* lrpc_send() never writes over a message that was published and not yet
\* received.
NoOverwrite ==
  spc # "idle" => Sub(send_head, recv_head) < Size

\* lrpc_recv() returns the command and the payload of one message.
NoTornMessage == rpc # "copy" => rmsg.cmd = rmsg.data

\* The parity bit tells the receiver exactly which slots are published, on
\* every lap and across the wrap of the counters.
ParityExact == LrpcEmpty <=> (send_head = recv_head)

\* Callers test lrpc_empty() and then assert that lrpc_recv() succeeds
\* (eTran_posix.cc:470-472): a channel that is not empty stays so until the
\* receiver itself takes a message.
StaysNonEmpty == [][~LrpcEmpty /\ LrpcEmpty' => recv_head' # recv_head]_vars

\* Why the invariants above hold, as an inductive invariant.  The four
\* counters are in order and within one ring of each other; the sender
\* reserves a slot only inside that window; the parity bits of the table are
\* a function of send_head alone; a slot is whole unless it is the one the
\* sender is filling.
Outstanding == Sub(send_head, recv_head) + Sub(recv_head, recv_head_wb)
                 + Sub(recv_head_wb, send_tail)

WindowInv ==
  /\ Outstanding <= Size
  /\ Sub(send_head, send_tail) = Outstanding
  /\ Sub(recv_head, recv_head_wb) = (IF rpc = "idle" THEN 0 ELSE 1)
  /\ spc # "idle" => Outstanding < Size /\ smsg \in Msg

ParityInv ==
  \A j \in Slots : tbl[j].par = IF j < Slot(send_head)
                                  THEN Parity(send_head)
                                  ELSE 1 - Parity(send_head)

ContentInv ==
  /\ \A j \in Slots : \/ spc = "publish" /\ j = Slot(send_head)
                      \/ tbl[j].cmd = tbl[j].data
  /\ spc = "publish" => tbl[Slot(send_head)].data = smsg
  /\ rpc = "copy" => rmsg.cmd = tbl[Claimed].cmd
  /\ NoTornMessage

IInv == TypeOK /\ WindowInv /\ ParityInv /\ ContentInv

\* Every published message is taken by the receiver, in a ring that wraps.
EveryMessageTaken ==
  \A c \in Counter :
    (recv_head = c /\ send_head # c) ~> (recv_head = Inc(c))

\* The channel implements a bounded FIFO: the queue is the contents of the
\* slots from the oldest one the receiver has not copied to send_head.
Oldest == IF rpc = "copy" THEN Sub(recv_head, 1) ELSE recv_head
InFlight == [i \in 1 .. Sub(send_head, Oldest) |->
               [cmd |-> tbl[Slot(Oldest + i - 1)].cmd,
                data |-> tbl[Slot(Oldest + i - 1)].data]]
Delivered == IF rpc = "copy" THEN [cmd |-> rmsg.data, data |-> rmsg.data]
                             ELSE rmsg
Fifo == INSTANCE LrpcFifo WITH queue <- InFlight, out <- Delivered,
                               NoMsg <- [cmd |-> NoMsg, data |-> NoMsg]
ImplementsFifo == Fifo!FifoSpec
=============================================================================
