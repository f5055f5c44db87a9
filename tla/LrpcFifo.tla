------------------------------ MODULE LrpcFifo ------------------------------
(***************************************************************************)
(* What an LRPC channel promises its two users: a bounded FIFO.  `queue'   *)
(* holds the messages that were sent and not yet received; `out' is the    *)
(* message the last lrpc_recv() handed to its caller.                      *)
(***************************************************************************)
EXTENDS Naturals, Sequences

CONSTANTS Msg,      \* the messages
          Size,     \* capacity of the channel
          NoMsg     \* `out' before the first receive

VARIABLES queue, out

fifoVars == <<queue, out>>

\* A message as the two fields of an lrpc_msg: the command and the payload.
Whole(m) == [cmd |-> m, data |-> m]

FifoInit == queue = <<>> /\ out = NoMsg

FifoSend(m) == /\ Len(queue) < Size
               /\ queue' = Append(queue, Whole(m))
               /\ UNCHANGED out

FifoRecv == /\ queue # <<>>
            /\ out' = Head(queue)
            /\ queue' = Tail(queue)

FifoNext == (\E m \in Msg : FifoSend(m)) \/ FifoRecv

FifoSpec == FifoInit /\ [][FifoNext]_fifoVars
=============================================================================
