---------------------------- MODULE MCBufferPool ----------------------------
(* BufferPool on two instances: slabs of one buffer and the caches of two   *)
(* users (every operation on the pool races with every other), and slabs    *)
(* of two buffers with one cache that two threads create and free in turn.  *)
EXTENDS BufferPool
=============================================================================
