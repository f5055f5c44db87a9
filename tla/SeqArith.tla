------------------------------ MODULE SeqArith ------------------------------
(***************************************************************************)
(* Arithmetic of sequence numbers: the range tests and the trimming of a   *)
(* segment to the receive window (common_funcs.h, and the copies of it in  *)
(* the event processors of mtp_tcp.h).                                     *)
(***************************************************************************)
EXTENDS Integers

CONSTANT Word         \* 2^32

ASSUME WordAssumption == Word \in Nat /\ Word > 1

Add(a, b) == (a + b) % Word
Sub(a, b) == (a - b) % Word
Min2(a, b) == IF a < b THEN a ELSE b

\* seq_in_range(): [start, end), or (start, end] if excluding.
seq_in_range(seq, start, end, excluding) ==
  LET lo == IF excluding THEN seq > start ELSE seq >= start
      hi == IF excluding THEN seq <= end ELSE seq < end
  IN  IF start <= end THEN lo /\ hi ELSE lo \/ hi

\* Mutant: a segment that covers the whole window is not recognised.
OverlapEnds(from, to, first, last) ==
  \/ seq_in_range(from, first, last, FALSE)
  \/ seq_in_range(to, first, last, TRUE)

\* The interval from..to overlaps the one the receive buffer expects.
Overlap(from, to, first, last) ==
  \/ seq_in_range(from, first, last, FALSE)
  \/ seq_in_range(to, first, last, TRUE)
  \/ seq_in_range(first, from, to, FALSE)
  \/ seq_in_range(last, from, to, TRUE)

\* trim_start and trim_end of verify_trim_data_ep().
TrimStart(from, first, last) ==
  IF seq_in_range(from, first, last, FALSE) THEN 0 ELSE Sub(first, from)

TrimEnd(to, first, last) ==
  IF seq_in_range(to, first, last, TRUE) THEN 0 ELSE Sub(to, last)

\* The n sequence numbers that start at from.
Range32(from, n) == {Add(from, i) : i \in 0 .. n - 1}
=============================================================================
