----------------------------- MODULE BufferPool -----------------------------
(***************************************************************************)
(* The UMEM buffer pool of an application (common/xskbp/xsk_buffer_pool.cc)*)
(* shared by the threads of the library and by the microkernel.  A slab is *)
(* an array of PerSlab buffer addresses.  The pool is a stack of slabs:    *)
(* below nr_slabs_avail they are full, above it they are empty.  A thread  *)
(* allocates from its slabs_cons and frees into its slabs_prod, and goes   *)
(* to the pool only to exchange an empty slab for a full one or a full one *)
(* for an empty one.  The two slabs a thread starts with come from a       *)
(* second stack, slabs_swap.                                               *)
(*                                                                         *)
(* Every function is one step: what it does to the pool is in the critical *)
(* section of bp->spinlock, and the rest touches only the thread's cache   *)
(* and the slabs that cache owns.  An entry of a slab that the code no     *)
(* longer counts is Stale: the model forgets the address that is still in  *)
(* it, so that reading it by mistake shows.                                *)
(***************************************************************************)
EXTENDS Integers, FiniteSets

CONSTANTS Thread,      \* users of the pool: library threads, microkernel
          NrSlabs,     \* bp->nr_slabs
          PerSlab,     \* bp_params.nr_buffers_per_slab
          UsersMax,    \* bp_params.nr_users_max
          FrameSize,   \* bp_params.buffer_size
          Stale        \* a slab entry that holds no free buffer

ASSUME NrSlabsAssumption == NrSlabs \in Nat \ {0}
ASSUME PerSlabAssumption == PerSlab \in Nat \ {0}
ASSUME UsersMaxAssumption == UsersMax \in Nat \ {0}
ASSUME FrameSizeAssumption == FrameSize \in Nat \ {0}

Index == 0 .. PerSlab - 1
PoolIndex == 0 .. NrSlabs - 1
SwapIndex == 0 .. 2 * UsersMax - 1

\* The slabs, numbered as bp_init() lays them out: those of the pool first,
\* then those of slabs_swap.
Slab == 0 .. NrSlabs + 2 * UsersMax - 1

\* A buffer is the number of its frame in the UMEM; its address is the
\* offset of that frame.
Buffer == 0 .. NrSlabs * PerSlab - 1
Address(b) == b * FrameSize

ASSUME StaleAssumption == Stale \notin Int

VARIABLES slabs, nr_slabs_avail,            \* the pool
          slabs_swap, nr_slabs_swap_avail,  \* spare slabs for new users
          content,     \* what the slabs hold: slab -> index -> entry
          users,       \* threads that have a cache
          bc,          \* thread -> its thread_bcache
          granted,     \* buffers the last thread_bcache_check() promised
          out          \* buffers that are in no slab: in use

vars == <<slabs, nr_slabs_avail, slabs_swap, nr_slabs_swap_avail, content,
          users, bc, granted, out>>

Cache == [slabs_cons : Slab, slabs_prod : Slab,
          nr_buffers_cons : 0 .. PerSlab, nr_buffers_prod : 0 .. PerSlab]

TypeOK == /\ slabs \in [PoolIndex -> Slab]
          /\ nr_slabs_avail \in 0 .. NrSlabs
          /\ slabs_swap \in [SwapIndex -> Slab \cup {Stale}]
          /\ nr_slabs_swap_avail \in 0 .. 2 * UsersMax
          /\ content \in [Slab -> [Index -> Buffer \cup {Stale}]]
          /\ users \in SUBSET Thread
          /\ bc \in [Thread -> Cache]
          /\ granted \in [Thread -> 0 .. PerSlab]
          /\ out \in SUBSET Buffer

NoCache == [slabs_cons |-> 0, slabs_prod |-> 0,
            nr_buffers_cons |-> 0, nr_buffers_prod |-> 0]

\* bp_init(): the pool is full and the buffers lie in it in order; the swap
\* slabs hold none.
Init == /\ slabs = [i \in PoolIndex |-> i]
        /\ nr_slabs_avail = NrSlabs
        /\ slabs_swap = [i \in SwapIndex |-> NrSlabs + i]
        /\ nr_slabs_swap_avail = 2 * UsersMax
        /\ content = [s \in Slab |-> [i \in Index |->
                        IF s < NrSlabs THEN s * PerSlab + i ELSE Stale]]
        /\ users = {}
        /\ bc = [t \in Thread |-> NoCache]
        /\ granted = [t \in Thread |-> 0]
        /\ out = {}

-----------------------------------------------------------------------------
Emptied == [i \in Index |-> Stale]

thread_bcache_create(t) ==
  /\ t \notin users
  /\ nr_slabs_swap_avail >= 2
  /\ bc' = [bc EXCEPT ![t] =
              [slabs_cons |-> slabs_swap[nr_slabs_swap_avail - 1],
               slabs_prod |-> slabs_swap[nr_slabs_swap_avail - 2],
               nr_buffers_cons |-> 0, nr_buffers_prod |-> 0]]
  /\ slabs_swap' = [slabs_swap EXCEPT ![nr_slabs_swap_avail - 1] = Stale,
                                      ![nr_slabs_swap_avail - 2] = Stale]
  /\ nr_slabs_swap_avail' = nr_slabs_swap_avail - 2
  /\ users' = users \cup {t}
  /\ granted' = [granted EXCEPT ![t] = 0]
  /\ UNCHANGED <<slabs, nr_slabs_avail, content, out>>

\* Whatever the two slabs still hold is forgotten: nothing records how many
\* of their entries were in use.
thread_bcache_free(t) ==
  /\ t \in users
  /\ slabs_swap' = [slabs_swap EXCEPT
                      ![nr_slabs_swap_avail] = bc[t].slabs_cons,
                      ![nr_slabs_swap_avail + 1] = bc[t].slabs_prod]
  /\ nr_slabs_swap_avail' = nr_slabs_swap_avail + 2
  /\ users' = users \ {t}
  /\ content' = [content EXCEPT ![bc[t].slabs_cons] = Emptied,
                                ![bc[t].slabs_prod] = Emptied]
  /\ bc' = [bc EXCEPT ![t] = NoCache]
  /\ granted' = [granted EXCEPT ![t] = 0]
  /\ UNCHANGED <<slabs, nr_slabs_avail, out>>

\* thread_bcache_check(bc, n) with buffers in the cache.
CheckFast(t, n) ==
  /\ t \in users
  /\ bc[t].nr_buffers_cons > 0
  /\ granted' = [granted EXCEPT ![t] =
                   IF bc[t].nr_buffers_cons < n
                     THEN bc[t].nr_buffers_cons ELSE n]
  /\ UNCHANGED <<slabs, nr_slabs_avail, slabs_swap, nr_slabs_swap_avail,
                 content, users, bc, out>>

\* thread_bcache_check(bc, n) with an empty cache: nothing to be had.
CheckNone(t) ==
  /\ t \in users
  /\ bc[t].nr_buffers_cons = 0
  /\ nr_slabs_avail = 0
  /\ granted' = [granted EXCEPT ![t] = 0]
  /\ UNCHANGED <<slabs, nr_slabs_avail, slabs_swap, nr_slabs_swap_avail,
                 content, users, bc, out>>

\* Mutant: the full slab is taken and no empty one is left in its place.
CheckRefillNoSwap(t, n) ==
  /\ t \in users
  /\ bc[t].nr_buffers_cons = 0
  /\ nr_slabs_avail > 0
  /\ nr_slabs_avail' = nr_slabs_avail - 1
  /\ bc' = [bc EXCEPT ![t].slabs_cons = slabs[nr_slabs_avail - 1],
                      ![t].nr_buffers_cons = PerSlab]
  /\ granted' = [granted EXCEPT ![t] = n]
  /\ UNCHANGED <<slabs, slabs_swap, nr_slabs_swap_avail, content, users, out>>

\* Mutant: the pool does not count the slab it gave away.
CheckRefillUncounted(t, n) ==
  /\ t \in users
  /\ bc[t].nr_buffers_cons = 0
  /\ nr_slabs_avail > 0
  /\ slabs' = [slabs EXCEPT ![nr_slabs_avail - 1] = bc[t].slabs_cons]
  /\ bc' = [bc EXCEPT ![t].slabs_cons = slabs[nr_slabs_avail - 1],
                      ![t].nr_buffers_cons = PerSlab]
  /\ granted' = [granted EXCEPT ![t] = n]
  /\ UNCHANGED <<nr_slabs_avail, slabs_swap, nr_slabs_swap_avail, content,
                 users, out>>

\* thread_bcache_check(bc, n) with an empty cache: the empty slab takes the
\* place of the full one on top of the pool.
CheckRefill(t, n) ==
  /\ t \in users
  /\ bc[t].nr_buffers_cons = 0
  /\ nr_slabs_avail > 0
  /\ nr_slabs_avail' = nr_slabs_avail - 1
  /\ slabs' = [slabs EXCEPT ![nr_slabs_avail - 1] = bc[t].slabs_cons]
  /\ bc' = [bc EXCEPT ![t].slabs_cons = slabs[nr_slabs_avail - 1],
                      ![t].nr_buffers_cons = PerSlab]
  /\ granted' = [granted EXCEPT ![t] = n]
  /\ UNCHANGED <<slabs_swap, nr_slabs_swap_avail, content, users, out>>

\* Mutant: the buffer is taken and stays in the cache.
ConsKeeps(t) ==
  /\ t \in users
  /\ granted[t] > 0
  /\ out' = out \cup {content[bc[t].slabs_cons][bc[t].nr_buffers_cons - 1]}
  /\ granted' = [granted EXCEPT ![t] = granted[t] - 1]
  /\ UNCHANGED <<slabs, nr_slabs_avail, slabs_swap, nr_slabs_swap_avail,
                 content, bc, users>>

\* Callers take buffers only within what thread_bcache_check() returned.
thread_bcache_cons(t) ==
  /\ t \in users
  /\ granted[t] > 0
  /\ LET n == bc[t].nr_buffers_cons - 1
     IN  /\ bc' = [bc EXCEPT ![t].nr_buffers_cons = n]
         /\ out' = out \cup {content[bc[t].slabs_cons][n]}
         /\ content' = [content EXCEPT ![bc[t].slabs_cons][n] = Stale]
  /\ granted' = [granted EXCEPT ![t] = granted[t] - 1]
  /\ UNCHANGED <<slabs, nr_slabs_avail, slabs_swap, nr_slabs_swap_avail,
                 users>>

\* The frame an address lies in: packets come back with an offset for
\* headroom and metadata.
fix_umem_offset(addr) == addr - (addr % FrameSize)

\* The buffer that is stored for an address handed to thread_bcache_prod().
Stored(addr) == fix_umem_offset(addr) \div FrameSize

\* thread_bcache_prod(bc, addr) with room in the cache.
ProdFast(t, b, off) ==
  /\ t \in users /\ b \in out
  /\ bc[t].nr_buffers_prod < PerSlab
  /\ content' = [content EXCEPT ![bc[t].slabs_prod][bc[t].nr_buffers_prod]
                   = Stored(Address(b) + off)]
  /\ bc' = [bc EXCEPT ![t].nr_buffers_prod = bc[t].nr_buffers_prod + 1]
  /\ out' = out \ {b}
  /\ UNCHANGED <<slabs, nr_slabs_avail, slabs_swap, nr_slabs_swap_avail,
                 users, granted>>

\* Mutant: the slabs are exchanged and the address is not stored.
ProdSwapForgets(t, b, off) ==
  /\ t \in users /\ b \in out
  /\ bc[t].nr_buffers_prod >= PerSlab
  /\ slabs' = [slabs EXCEPT ![nr_slabs_avail] = bc[t].slabs_prod]
  /\ bc' = [bc EXCEPT ![t].slabs_prod = slabs[nr_slabs_avail],
                      ![t].nr_buffers_prod = 0]
  /\ nr_slabs_avail' = nr_slabs_avail + 1
  /\ out' = out \ {b}
  /\ UNCHANGED <<slabs_swap, nr_slabs_swap_avail, content, users, granted>>

\* thread_bcache_prod(bc, addr) with a full cache: the full slab goes on top
\* of the pool, in exchange for the empty one that was there.
ProdSwap(t, b, off) ==
  /\ t \in users /\ b \in out
  /\ bc[t].nr_buffers_prod >= PerSlab
  /\ LET slab_empty == slabs[nr_slabs_avail]
     IN  /\ slabs' = [slabs EXCEPT ![nr_slabs_avail] = bc[t].slabs_prod]
         /\ content' = [content EXCEPT ![slab_empty][0]
                          = Stored(Address(b) + off)]
         /\ bc' = [bc EXCEPT ![t].slabs_prod = slab_empty,
                             ![t].nr_buffers_prod = 1]
  /\ nr_slabs_avail' = nr_slabs_avail + 1
  /\ out' = out \ {b}
  /\ UNCHANGED <<slabs_swap, nr_slabs_swap_avail, users, granted>>

-----------------------------------------------------------------------------
Check(t) == \/ \E n \in 1 .. PerSlab : CheckFast(t, n) \/ CheckRefill(t, n)
            \/ CheckNone(t)

thread_bcache_prod(t) ==
  \E b \in Buffer, off \in 0 .. FrameSize - 1 :
    ProdFast(t, b, off) \/ ProdSwap(t, b, off)

Next == \E t \in Thread : \/ thread_bcache_create(t)
                          \/ thread_bcache_free(t)
                          \/ Check(t)
                          \/ thread_bcache_cons(t)
                          \/ thread_bcache_prod(t)

Spec == Init /\ [][Next]_vars

-----------------------------------------------------------------------------
(* Properties                                                              *)

\* A slab pointer is in one place only: an entry of the pool, an entry of
\* slabs_swap below its top, or one of the two ends of one thread's cache.
\* The exchanges in thread_bcache_check() and thread_bcache_prod() and the
\* push of thread_bcache_free() never duplicate one.
SlabOwnedOnce ==
  /\ \A i, j \in PoolIndex : slabs[i] = slabs[j] => i = j
  /\ \A i \in SwapIndex : i < nr_slabs_swap_avail => slabs_swap[i] \in Slab
  /\ \A i, j \in SwapIndex :
       i < nr_slabs_swap_avail /\ j < nr_slabs_swap_avail
         /\ slabs_swap[i] = slabs_swap[j] => i = j
  /\ \A i \in PoolIndex, j \in SwapIndex :
       j < nr_slabs_swap_avail => slabs[i] # slabs_swap[j]
  /\ \A t \in users :
       /\ bc[t].slabs_cons # bc[t].slabs_prod
       /\ \A i \in PoolIndex : slabs[i] \notin {bc[t].slabs_cons,
                                                bc[t].slabs_prod}
       /\ \A i \in SwapIndex : i < nr_slabs_swap_avail =>
            slabs_swap[i] \notin {bc[t].slabs_cons, bc[t].slabs_prod}
       /\ \A u \in users \ {t} :
            /\ bc[t].slabs_cons \notin {bc[u].slabs_cons, bc[u].slabs_prod}
            /\ bc[t].slabs_prod \notin {bc[u].slabs_cons, bc[u].slabs_prod}

\* Entry i of slab s is a free buffer: the slab is one of the full ones of
\* the pool, or the entry lies below the fill level of a thread's cache.
Free(s, i) == \/ \E k \in PoolIndex : k < nr_slabs_avail /\ slabs[k] = s
              \/ \E t \in users : bc[t].slabs_cons = s
                                    /\ i < bc[t].nr_buffers_cons
              \/ \E t \in users : bc[t].slabs_prod = s
                                    /\ i < bc[t].nr_buffers_prod

\* No buffer is handed out twice: a buffer lies in at most one free entry of
\* one slab, and in none while it is in use, whichever threads took it with
\* thread_bcache_cons() and gave it back with thread_bcache_prod().
BufferOnce ==
  /\ \A s, r \in Slab : \A i, j \in Index :
       Free(s, i) /\ Free(r, j) /\ content[s][i] = content[r][j]
         => s = r /\ i = j
  /\ \A s \in Slab, i \in Index : Free(s, i) => content[s][i] \in Buffer \ out

\* What thread_bcache_check() promised is there when thread_bcache_cons()
\* takes it: the assertion of thread_bcache_cons() holds.
CheckKept == \A t \in users : granted[t] <= bc[t].nr_buffers_cons

\* The slow path of thread_bcache_prod() never indexes past the pool.  It
\* has no check: that there is an empty slab on top follows only from the
\* number of buffers.
ProdInBounds == out # {} => nr_slabs_avail < NrSlabs

\* thread_bcache_free() never indexes past slabs_swap: the spare slabs are
\* those of the users that are not there.
SwapInBounds ==
  /\ IsFiniteSet(users)
  /\ nr_slabs_swap_avail = 2 * (UsersMax - Cardinality(users))

\* The buffers the pool knows of, free or in use.
Known == out \cup {content[c[1]][c[2]] : c \in
                     {d \in Slab \X Index : Free(d[1], d[2])}}

\* No operation loses a buffer except thread_bcache_free() (whose comment
\* says that it cannot handle a cache that still holds some).
NothingLost == [][Known' # Known => users' # users /\ users' \subseteq users]_vars

IInv == TypeOK /\ SlabOwnedOnce /\ BufferOnce /\ CheckKept /\ SwapInBounds
=============================================================================
