---------------------------- MODULE MCTcpSender -----------------------------
(* TcpSender for TLC; frames are interchangeable.                          *)
EXTENDS TcpSender

FrameSymmetry == Permutations(Frame)
=============================================================================
