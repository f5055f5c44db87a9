------------------------------- MODULE MCLrpc -------------------------------
(* Lrpc with a ring of two slots and counters of four laps, so that the     *)
(* counters wrap and every lap parity occurs.                              *)
EXTENDS Lrpc
=============================================================================
