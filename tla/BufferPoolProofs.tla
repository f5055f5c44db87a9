-------------------------- MODULE BufferPoolProofs --------------------------
(***************************************************************************)
(* Proofs about BufferPool, for any number of threads, slabs, buffers per  *)
(* slab and users.                                                         *)
(***************************************************************************)
EXTENDS BufferPool, FiniteSetTheorems, TLAPS

-----------------------------------------------------------------------------
(* Arithmetic of the layout                                                *)

\* A buffer number determines its slab and its index.
LEMMA LayoutUnique ==
  ASSUME NEW s \in Nat, NEW r \in Nat, NEW i \in Index, NEW j \in Index,
         s * PerSlab + i = r * PerSlab + j
  PROVE  s = r /\ i = j
<1>1. \A k \in Nat : k * PerSlab \in Nat
  BY PerSlabAssumption
<1>2. \A a, b \in Nat : a < b => a * PerSlab + PerSlab <= b * PerSlab
  <2>1. SUFFICES ASSUME NEW a \in Nat, NEW b \in Nat, a < b
                 PROVE  a * PerSlab + PerSlab <= b * PerSlab
    OBVIOUS
  <2>2. (a + 1) * PerSlab <= b * PerSlab
    BY <2>1, PerSlabAssumption
  <2>3. (a + 1) * PerSlab = a * PerSlab + PerSlab
    BY PerSlabAssumption
  <2> QED BY <2>2, <2>3
<1>3. ~(s < r)
  <2>1. SUFFICES ASSUME s < r PROVE FALSE
    OBVIOUS
  <2>2. s * PerSlab + PerSlab <= r * PerSlab
    BY <1>2, <2>1
  <2> QED BY <2>2, <1>1, PerSlabAssumption DEF Index
<1>4. ~(r < s)
  <2>1. SUFFICES ASSUME r < s PROVE FALSE
    OBVIOUS
  <2>2. r * PerSlab + PerSlab <= s * PerSlab
    BY <1>2, <2>1
  <2> QED BY <2>2, <1>1, PerSlabAssumption DEF Index
<1>5. s = r
  BY <1>3, <1>4
<1> QED BY <1>5, <1>1, PerSlabAssumption DEF Index

\* bp_init() numbers exactly the buffers of the UMEM.
LEMMA LayoutType ==
  ASSUME NEW s \in 0 .. NrSlabs - 1, NEW i \in Index
  PROVE  s * PerSlab + i \in Buffer
<1>1. s * PerSlab \in Nat
  BY PerSlabAssumption, NrSlabsAssumption
<1>2. (s + 1) * PerSlab <= NrSlabs * PerSlab
  BY PerSlabAssumption, NrSlabsAssumption
<1>3. (s + 1) * PerSlab = s * PerSlab + PerSlab
  BY PerSlabAssumption, NrSlabsAssumption
<1>4. NrSlabs * PerSlab \in Nat
  BY PerSlabAssumption, NrSlabsAssumption
<1> QED BY <1>1, <1>2, <1>3, <1>4, PerSlabAssumption DEF Index, Buffer

\* thread_bcache_prod() stores the buffer whatever the offset in its frame.
LEMMA StoredBuffer ==
  ASSUME NEW b \in Buffer, NEW off \in 0 .. FrameSize - 1
  PROVE  Stored(Address(b) + off) = b
<1> DEFINE a == b * FrameSize
<1>1. b \in Nat /\ a \in Nat
  BY FrameSizeAssumption, NrSlabsAssumption, PerSlabAssumption DEF Buffer
<1>2. (a + off) % FrameSize = off
  BY <1>1, FrameSizeAssumption
<1>3. a \div FrameSize = b
  BY <1>1, FrameSizeAssumption
<1>4. (a + off) - ((a + off) % FrameSize) = a
  BY <1>1, <1>2, FrameSizeAssumption
<1> QED BY <1>3, <1>4 DEF Stored, fix_umem_offset, Address

-----------------------------------------------------------------------------
(* The inductive invariant                                                 *)

LEMMA InitInv == Init => IInv
<1> SUFFICES ASSUME Init PROVE IInv
  OBVIOUS
<1> USE NrSlabsAssumption, PerSlabAssumption, UsersMaxAssumption,
        StaleAssumption
<1>1. content \in [Slab -> [Index -> Buffer \cup {Stale}]]
  <2>1. \A s \in Slab, i \in Index :
          s < NrSlabs => s * PerSlab + i \in Buffer
    BY LayoutType DEF Slab
  <2> QED BY <2>1 DEF Init
<1>2. TypeOK
  <2>1. NoCache \in Cache
    BY DEF NoCache, Cache, Slab
  <2>2. slabs \in [PoolIndex -> Slab]
    BY DEF Init, PoolIndex, Slab
  <2>3. slabs_swap \in [SwapIndex -> Slab \cup {Stale}]
    BY DEF Init, SwapIndex, Slab
  <2>4. granted \in [Thread -> 0 .. PerSlab] /\ bc \in [Thread -> Cache]
    BY <2>1 DEF Init
  <2>5. nr_slabs_avail \in 0 .. NrSlabs
          /\ nr_slabs_swap_avail \in 0 .. 2 * UsersMax
          /\ users \in SUBSET Thread /\ out \in SUBSET Buffer
    BY DEF Init
  <2> QED BY <1>1, <2>2, <2>3, <2>4, <2>5 DEF TypeOK
<1>3. SlabOwnedOnce
  BY DEF Init, SlabOwnedOnce, PoolIndex, SwapIndex, Slab
<1>4. \A s \in Slab, i \in Index : Free(s, i) =>
         s \in 0 .. NrSlabs - 1 /\ content[s][i] = s * PerSlab + i
  BY DEF Init, Free, PoolIndex, Slab
<1>5. BufferOnce
  <2>1. ASSUME NEW s \in Slab, NEW r \in Slab, NEW i \in Index,
               NEW j \in Index, Free(s, i), Free(r, j),
               content[s][i] = content[r][j]
        PROVE  s = r /\ i = j
    <3>1. s \in Nat /\ r \in Nat /\ s * PerSlab + i = r * PerSlab + j
      BY <1>4, <2>1
    <3> QED BY <3>1, LayoutUnique
  <2>2. ASSUME NEW s \in Slab, NEW i \in Index, Free(s, i)
        PROVE  content[s][i] \in Buffer \ out
    BY <1>4, <2>2, LayoutType DEF Init
  <2> QED BY <2>1, <2>2 DEF BufferOnce
<1>6. CheckKept
  BY DEF Init, CheckKept
<1>7. SwapInBounds
  BY FS_EmptySet DEF Init, SwapInBounds
<1> QED BY <1>2, <1>3, <1>5, <1>6, <1>7 DEF IInv

\* The pigeonhole argument behind thread_bcache_prod(): were all entries of
\* the pool full slabs, they would hold every buffer of the UMEM.
LEMMA FullPool == IInv => ProdInBounds
<1> SUFFICES ASSUME IInv, NEW b \in out, nr_slabs_avail >= NrSlabs
             PROVE  FALSE
  BY NrSlabsAssumption DEF IInv, TypeOK, ProdInBounds
<1> USE NrSlabsAssumption, PerSlabAssumption
<1> DEFINE S == PoolIndex \X Index
           T == Buffer \ {b}
           f == [c \in S |-> content[slabs[c[1]]][c[2]]]
<1>1. \A k \in PoolIndex, i \in Index : slabs[k] \in Slab /\ Free(slabs[k], i)
  BY DEF IInv, TypeOK, Free, PoolIndex
<1>2. f \in [S -> T]
  BY <1>1 DEF IInv, TypeOK, BufferOnce
<1>3. \A x, y \in S : x # y => f[x] # f[y]
  <2>1. SUFFICES ASSUME NEW x \in S, NEW y \in S, f[x] = f[y]
                 PROVE  x = y
    OBVIOUS
  <2>2. slabs[x[1]] = slabs[y[1]] /\ x[2] = y[2]
    BY <1>1, <2>1 DEF IInv, BufferOnce
  <2>3. x[1] = y[1]
    BY <2>2 DEF IInv, SlabOwnedOnce
  <2> QED BY <2>2, <2>3
<1>4. IsFiniteSet(S) /\ Cardinality(S) = NrSlabs * PerSlab
  <2>1. IsFiniteSet(PoolIndex) /\ Cardinality(PoolIndex) = NrSlabs
    BY FS_Interval DEF PoolIndex
  <2>2. IsFiniteSet(Index) /\ Cardinality(Index) = PerSlab
    BY FS_Interval DEF Index
  <2> QED BY <2>1, <2>2, FS_Product
<1>5. IsFiniteSet(T) /\ Cardinality(T) = NrSlabs * PerSlab - 1
  <2> DEFINE M == NrSlabs * PerSlab
  <2>1. M \in Nat \ {0} /\ Buffer = 0 .. M - 1
    BY DEF Buffer
  <2> HIDE DEF M
  <2>2. IsFiniteSet(0 .. M - 1) /\ Cardinality(0 .. M - 1) = M
    BY <2>1, FS_Interval
  <2>3. b \in Buffer
    BY DEF IInv, TypeOK
  <2> DEFINE R == (0 .. M - 1) \ {b}
  <2>4. /\ IsFiniteSet(R)
        /\ Cardinality(R) = IF b \in 0 .. M - 1 THEN Cardinality(0 .. M - 1) - 1
                                               ELSE Cardinality(0 .. M - 1)
    BY <2>2, FS_RemoveElement
  <2>5. R = T
    BY <2>1
  <2> HIDE DEF R
  <2> QED BY <2>1, <2>2, <2>3, <2>4, <2>5 DEF M
<1>6. Cardinality(T) < Cardinality(S)
  BY <1>4, <1>5
<1> HIDE DEF S, T, f
<1>7. \E x, y \in S : x # y /\ f[x] = f[y]
  BY <1>2, <1>4, <1>5, <1>6, FS_PigeonHole
<1> QED BY <1>3, <1>7

\* A live cache leaves room for its two slabs in slabs_swap.
LEMMA SwapRoom ==
  ASSUME IInv, NEW t \in users
  PROVE  /\ nr_slabs_swap_avail \in Nat
         /\ nr_slabs_swap_avail + 2 <= 2 * UsersMax
         /\ Cardinality(users) \in Nat \ {0}
<1>1. IsFiniteSet(users) /\ users # {}
  BY DEF IInv, SwapInBounds
<1>2. Cardinality(users) \in Nat \ {0}
  BY <1>1, FS_CardinalityType, FS_EmptySet
<1> QED BY <1>2, UsersMaxAssumption DEF IInv, SwapInBounds, TypeOK

LEMMA StepType == IInv /\ [Next]_vars => TypeOK'
<1> SUFFICES ASSUME IInv, [Next]_vars PROVE TypeOK'
  OBVIOUS
<1> USE NrSlabsAssumption, PerSlabAssumption, UsersMaxAssumption
<1> USE DEF TypeOK, Cache
<1>0. TypeOK /\ SwapInBounds /\ CheckKept /\ BufferOnce /\ SlabOwnedOnce
  BY DEF IInv
<1>1. ASSUME NEW t \in Thread, thread_bcache_create(t) PROVE TypeOK'
  <2>1. /\ slabs_swap[nr_slabs_swap_avail - 1] \in Slab
        /\ slabs_swap[nr_slabs_swap_avail - 2] \in Slab
    BY <1>0, <1>1 DEF thread_bcache_create, SlabOwnedOnce, SwapIndex
  <2>2. bc' \in [Thread -> Cache] /\ granted' \in [Thread -> 0 .. PerSlab]
    BY <1>0, <1>1, <2>1 DEF thread_bcache_create
  <2>3. slabs_swap' \in [SwapIndex -> Slab \cup {Stale}]
    BY <1>0, <1>1 DEF thread_bcache_create
  <2>4. nr_slabs_swap_avail' \in 0 .. 2 * UsersMax
    BY <1>0, <1>1 DEF thread_bcache_create
  <2> QED BY <1>0, <1>1, <2>2, <2>3, <2>4 DEF thread_bcache_create
<1>2. ASSUME NEW t \in Thread, thread_bcache_free(t) PROVE TypeOK'
  <2>1. nr_slabs_swap_avail + 2 \in 0 .. 2 * UsersMax
    BY <1>0, <1>2, SwapRoom DEF thread_bcache_free
  <2>2. NoCache \in Cache
    BY DEF NoCache, Cache, Slab
  <2>3. content' \in [Slab -> [Index -> Buffer \cup {Stale}]]
    <3>1. Emptied \in [Index -> Buffer \cup {Stale}]
      BY DEF Emptied
    <3> QED BY <1>0, <1>2, <3>1 DEF thread_bcache_free
  <2>4. slabs_swap' \in [SwapIndex -> Slab \cup {Stale}]
    BY <1>0, <1>2 DEF thread_bcache_free
  <2>5. granted' \in [Thread -> 0 .. PerSlab] /\ bc' \in [Thread -> Cache]
    BY <1>0, <1>2, <2>2 DEF thread_bcache_free
  <2> QED BY <1>0, <1>2, <2>1, <2>3, <2>4, <2>5 DEF thread_bcache_free
<1>3. ASSUME NEW t \in Thread, NEW n \in 1 .. PerSlab, CheckFast(t, n)
      PROVE  TypeOK'
  <2>1. granted' \in [Thread -> 0 .. PerSlab]
    BY <1>0, <1>3 DEF CheckFast
  <2> QED BY <1>0, <1>3, <2>1 DEF CheckFast
<1>4. ASSUME NEW t \in Thread, CheckNone(t) PROVE TypeOK'
  BY <1>0, <1>4 DEF CheckNone
<1>5. ASSUME NEW t \in Thread, NEW n \in 1 .. PerSlab, CheckRefill(t, n)
      PROVE  TypeOK'
  BY <1>0, <1>5 DEF CheckRefill, PoolIndex
<1>6. ASSUME NEW t \in Thread, thread_bcache_cons(t) PROVE TypeOK'
  <2> DEFINE n == bc[t].nr_buffers_cons - 1
  <2>1. n \in Index /\ n \in 0 .. PerSlab /\ granted[t] - 1 \in 0 .. PerSlab
    BY <1>0, <1>6 DEF thread_bcache_cons, CheckKept, Index
  <2>2. Free(bc[t].slabs_cons, n)
    <3>1. t \in users /\ n < bc[t].nr_buffers_cons
      BY <1>0, <1>6 DEF thread_bcache_cons
    <3> HIDE DEF n
    <3> QED BY <3>1 DEF Free
  <2>3. content[bc[t].slabs_cons][n] \in Buffer
    BY <1>0, <2>1, <2>2 DEF BufferOnce
  <2> QED BY <1>0, <1>6, <2>1, <2>3 DEF thread_bcache_cons
<1>7. ASSUME NEW t \in Thread, NEW b \in Buffer,
             NEW off \in 0 .. FrameSize - 1, ProdFast(t, b, off)
      PROVE  TypeOK'
  <2>1. Stored(Address(b) + off) \in Buffer
    BY StoredBuffer
  <2>2. content' \in [Slab -> [Index -> Buffer \cup {Stale}]]
    BY <1>0, <1>7, <2>1 DEF ProdFast
  <2>3. bc' \in [Thread -> Cache]
    <3>1. bc[t] \in Cache /\ bc[t].nr_buffers_prod + 1 \in 0 .. PerSlab
      BY <1>0, <1>7 DEF ProdFast
    <3>2. [bc[t] EXCEPT !.nr_buffers_prod = bc[t].nr_buffers_prod + 1] \in Cache
      BY <3>1
    <3> QED BY <1>0, <1>7, <3>2 DEF ProdFast
  <2> QED BY <1>0, <1>7, <2>2, <2>3 DEF ProdFast
<1>8. ASSUME NEW t \in Thread, NEW b \in Buffer,
             NEW off \in 0 .. FrameSize - 1, ProdSwap(t, b, off)
      PROVE  TypeOK'
  <2>1. nr_slabs_avail \in PoolIndex
    BY <1>0, <1>8, FullPool DEF ProdSwap, ProdInBounds, PoolIndex
  <2>2. slabs[nr_slabs_avail] \in Slab /\ 0 \in Index
    BY <1>0, <2>1 DEF Index
  <2>3. Stored(Address(b) + off) \in Buffer
    BY StoredBuffer
  <2>4. content' \in [Slab -> [Index -> Buffer \cup {Stale}]]
    BY <1>0, <1>8, <2>2, <2>3 DEF ProdSwap
  <2>5. bc' \in [Thread -> Cache]
    <3>1. bc[t] \in Cache /\ 1 \in 0 .. PerSlab
      BY <1>0
    <3>2. [bc[t] EXCEPT !.slabs_prod = slabs[nr_slabs_avail],
                        !.nr_buffers_prod = 1] \in Cache
      BY <2>2, <3>1
    <3> QED BY <1>0, <1>8, <3>2 DEF ProdSwap
  <2>7. slabs' \in [PoolIndex -> Slab]
    BY <1>0, <1>8, <2>1, <2>2 DEF ProdSwap
  <2>6. nr_slabs_avail' \in 0 .. NrSlabs /\ out' \in SUBSET Buffer
    BY <1>0, <1>8, <2>1 DEF ProdSwap, PoolIndex
  <2> QED BY <1>0, <1>8, <2>4, <2>5, <2>6, <2>7 DEF ProdSwap
<1>9. CASE UNCHANGED vars
  BY <1>0, <1>9 DEF vars
<1> QED BY <1>1, <1>2, <1>3, <1>4, <1>5, <1>6, <1>7, <1>8, <1>9
        DEF Next, Check, thread_bcache_prod

\* A step that leaves the two stacks, the users and the slabs of the caches
\* alone keeps SlabOwnedOnce.
LEMMA SameSlabs ==
  ASSUME SlabOwnedOnce,
         UNCHANGED <<slabs, slabs_swap, nr_slabs_swap_avail, users>>,
         \A t \in users : /\ bc'[t].slabs_cons = bc[t].slabs_cons
                          /\ bc'[t].slabs_prod = bc[t].slabs_prod
  PROVE  SlabOwnedOnce'
BY DEF SlabOwnedOnce

LEMMA StepSlabs == IInv /\ [Next]_vars => SlabOwnedOnce'
<1> SUFFICES ASSUME IInv, [Next]_vars PROVE SlabOwnedOnce'
  OBVIOUS
<1> USE NrSlabsAssumption, PerSlabAssumption, UsersMaxAssumption
<1>0. TypeOK /\ SlabOwnedOnce
  BY DEF IInv
<1>1. ASSUME NEW t \in Thread, thread_bcache_create(t) PROVE SlabOwnedOnce'
  <2> DEFINE n == nr_slabs_swap_avail
  <2>1. n - 1 \in SwapIndex /\ n - 2 \in SwapIndex /\ n \in Nat
    BY <1>0, <1>1 DEF thread_bcache_create, TypeOK, SwapIndex
  <2>2. /\ bc'[t].slabs_cons = slabs_swap[n - 1]
        /\ bc'[t].slabs_prod = slabs_swap[n - 2]
        /\ \A u \in users : u # t /\ bc'[u] = bc[u]
    BY <1>0, <1>1 DEF thread_bcache_create, TypeOK
  <2>3. \A i \in SwapIndex : i < n - 2 => slabs_swap'[i] = slabs_swap[i]
    BY <1>0, <1>1, <2>1 DEF thread_bcache_create, TypeOK, SwapIndex
  <2>4. slabs' = slabs /\ users' = users \cup {t} /\ nr_slabs_swap_avail' = n - 2
    BY <1>1 DEF thread_bcache_create
  <2> HIDE DEF n
  <2> QED BY <1>0, <2>1, <2>2, <2>3, <2>4 DEF SlabOwnedOnce, SwapIndex, n
<1>2. ASSUME NEW t \in Thread, thread_bcache_free(t) PROVE SlabOwnedOnce'
  <2> DEFINE n == nr_slabs_swap_avail
  <2>1. n \in SwapIndex /\ n + 1 \in SwapIndex /\ n \in Nat
    BY <1>2, SwapRoom DEF thread_bcache_free, SwapIndex
  <2>2. /\ slabs_swap'[n] = bc[t].slabs_cons
        /\ slabs_swap'[n + 1] = bc[t].slabs_prod
        /\ \A i \in SwapIndex : i < n => slabs_swap'[i] = slabs_swap[i]
    BY <1>0, <1>2, <2>1 DEF thread_bcache_free, TypeOK
  <2>3. /\ slabs' = slabs /\ users' = users \ {t} /\ t \in users
        /\ nr_slabs_swap_avail' = n + 2
        /\ \A u \in users' : bc'[u] = bc[u]
    BY <1>0, <1>2 DEF thread_bcache_free, TypeOK
  <2>4. bc[t].slabs_cons \in Slab /\ bc[t].slabs_prod \in Slab
    BY <1>0 DEF TypeOK, Cache
  <2>5. \A i \in SwapIndex : i < n + 2 => i < n \/ i = n \/ i = n + 1
    BY <2>1 DEF SwapIndex
  <2>6. /\ \A i \in SwapIndex : i < n => slabs_swap[i] \in Slab
        /\ \A i, j \in SwapIndex :
             i < n /\ j < n /\ slabs_swap[i] = slabs_swap[j] => i = j
        /\ \A i \in SwapIndex : i < n =>
             /\ slabs_swap[i] # bc[t].slabs_cons
             /\ slabs_swap[i] # bc[t].slabs_prod
        /\ bc[t].slabs_cons # bc[t].slabs_prod
    BY <1>0, <2>3 DEF SlabOwnedOnce
  <2> HIDE DEF n
  <2>7. \A i \in SwapIndex : i < n + 2 => slabs_swap'[i] \in Slab
    BY <2>2, <2>4, <2>5, <2>6
  <2>8. \A i, j \in SwapIndex :
          i < n + 2 /\ j < n + 2 /\ slabs_swap'[i] = slabs_swap'[j] => i = j
    BY <2>2, <2>5, <2>6
  <2>9. \A i \in PoolIndex, j \in SwapIndex :
          j < n + 2 => slabs[i] # slabs_swap'[j]
    BY <1>0, <2>2, <2>3, <2>5 DEF SlabOwnedOnce, n
  <2>10. \A u \in users', i \in SwapIndex : i < n + 2 =>
            slabs_swap'[i] \notin {bc[u].slabs_cons, bc[u].slabs_prod}
    BY <1>0, <2>2, <2>3, <2>5 DEF SlabOwnedOnce, n
  <2> QED BY <1>0, <2>3, <2>7, <2>8, <2>9, <2>10 DEF SlabOwnedOnce
<1>3. ASSUME NEW t \in Thread, NEW n \in 1 .. PerSlab, CheckFast(t, n)
      PROVE  SlabOwnedOnce'
  BY <1>0, <1>3, SameSlabs DEF CheckFast
<1>4. ASSUME NEW t \in Thread, CheckNone(t) PROVE SlabOwnedOnce'
  BY <1>0, <1>4, SameSlabs DEF CheckNone
<1>5. ASSUME NEW t \in Thread, NEW n \in 1 .. PerSlab, CheckRefill(t, n)
      PROVE  SlabOwnedOnce'
  <2> DEFINE k == nr_slabs_avail - 1
  <2>1. k \in PoolIndex /\ t \in users
    BY <1>0, <1>5 DEF CheckRefill, TypeOK, PoolIndex
  <2>2. /\ slabs'[k] = bc[t].slabs_cons
        /\ \A i \in PoolIndex : i # k => slabs'[i] = slabs[i]
        /\ bc'[t].slabs_cons = slabs[k] /\ bc'[t].slabs_prod = bc[t].slabs_prod
        /\ \A u \in users : u # t => bc'[u] = bc[u]
    BY <1>0, <1>5, <2>1 DEF CheckRefill, TypeOK, Cache
  <2>3. UNCHANGED <<slabs_swap, nr_slabs_swap_avail, users>>
    BY <1>5 DEF CheckRefill
  <2> HIDE DEF k
  <2> QED BY <1>0, <2>1, <2>2, <2>3 DEF SlabOwnedOnce
<1>6. ASSUME NEW t \in Thread, thread_bcache_cons(t) PROVE SlabOwnedOnce'
  <2>1. \A u \in users : /\ bc'[u].slabs_cons = bc[u].slabs_cons
                         /\ bc'[u].slabs_prod = bc[u].slabs_prod
    BY <1>0, <1>6 DEF thread_bcache_cons, TypeOK, Cache
  <2> QED BY <1>0, <1>6, <2>1, SameSlabs DEF thread_bcache_cons
<1>7. ASSUME NEW t \in Thread, NEW b \in Buffer,
             NEW off \in 0 .. FrameSize - 1, ProdFast(t, b, off)
      PROVE  SlabOwnedOnce'
  <2>1. \A u \in users : /\ bc'[u].slabs_cons = bc[u].slabs_cons
                         /\ bc'[u].slabs_prod = bc[u].slabs_prod
    BY <1>0, <1>7 DEF ProdFast, TypeOK, Cache
  <2> QED BY <1>0, <1>7, <2>1, SameSlabs DEF ProdFast
<1>8. ASSUME NEW t \in Thread, NEW b \in Buffer,
             NEW off \in 0 .. FrameSize - 1, ProdSwap(t, b, off)
      PROVE  SlabOwnedOnce'
  <2> DEFINE k == nr_slabs_avail
  <2>1. k \in PoolIndex /\ t \in users
    BY <1>0, <1>8, FullPool DEF ProdSwap, ProdInBounds, PoolIndex, TypeOK
  <2>2. /\ slabs'[k] = bc[t].slabs_prod
        /\ \A i \in PoolIndex : i # k => slabs'[i] = slabs[i]
        /\ bc'[t].slabs_prod = slabs[k] /\ bc'[t].slabs_cons = bc[t].slabs_cons
        /\ \A u \in users : u # t => bc'[u] = bc[u]
    BY <1>0, <1>8, <2>1 DEF ProdSwap, TypeOK, Cache
  <2>3. UNCHANGED <<slabs_swap, nr_slabs_swap_avail, users>>
    BY <1>8 DEF ProdSwap
  <2> HIDE DEF k
  <2> QED BY <1>0, <2>1, <2>2, <2>3 DEF SlabOwnedOnce
<1>9. CASE UNCHANGED vars
  BY <1>0, <1>9, SameSlabs DEF vars
<1> QED BY <1>1, <1>2, <1>3, <1>4, <1>5, <1>6, <1>7, <1>8, <1>9
        DEF Next, Check, thread_bcache_prod

\* The three ways in which a step changes the free entries.
LEMMA KeepFree ==
  ASSUME BufferOnce, out' = out,
         \A s \in Slab, i \in Index : Free(s, i)' =>
            Free(s, i) /\ content'[s][i] = content[s][i]
  PROVE  BufferOnce'
BY DEF BufferOnce

LEMMA TakeFree ==
  ASSUME BufferOnce, NEW r \in Slab, NEW j \in Index, Free(r, j),
         out' = out \cup {content[r][j]},
         \A s \in Slab, i \in Index : Free(s, i)' =>
            /\ Free(s, i) /\ content'[s][i] = content[s][i]
            /\ ~(s = r /\ i = j)
  PROVE  BufferOnce'
BY DEF BufferOnce

LEMMA PutFree ==
  ASSUME BufferOnce, NEW r \in Slab, NEW j \in Index, NEW b \in out,
         out \subseteq Buffer, out' = out \ {b}, content'[r][j] = b,
         \A s \in Slab, i \in Index : Free(s, i)' =>
            \/ Free(s, i) /\ content'[s][i] = content[s][i]
            \/ s = r /\ i = j
  PROVE  BufferOnce'
<1> DEFINE Old(s, i) == Free(s, i) /\ content'[s][i] = content[s][i]
<1>1. ASSUME NEW s \in Slab, NEW i \in Index, Free(s, i)'
      PROVE  content'[s][i] \in Buffer \ out'
  BY <1>1 DEF BufferOnce
<1>2. ASSUME NEW s \in Slab, NEW q \in Slab, NEW i \in Index, NEW k \in Index,
             Free(s, i)', Free(q, k)', content'[s][i] = content'[q][k]
      PROVE  s = q /\ i = k
  <2>1. CASE Old(s, i) /\ Old(q, k)
    BY <1>2, <2>1 DEF BufferOnce
  <2>2. CASE Old(s, i) /\ q = r /\ k = j
    BY <1>2, <2>2 DEF BufferOnce
  <2>3. CASE Old(q, k) /\ s = r /\ i = j
    BY <1>2, <2>3 DEF BufferOnce
  <2> QED BY <1>2, <2>1, <2>2, <2>3
<1> QED BY <1>1, <1>2 DEF BufferOnce

LEMMA StepBuffers == IInv /\ [Next]_vars => BufferOnce'
<1> SUFFICES ASSUME IInv, [Next]_vars PROVE BufferOnce'
  OBVIOUS
<1> USE NrSlabsAssumption, PerSlabAssumption, UsersMaxAssumption
<1>0. TypeOK /\ SlabOwnedOnce /\ BufferOnce
  BY DEF IInv
<1>1. ASSUME NEW t \in Thread, thread_bcache_create(t) PROVE BufferOnce'
  <2>1. /\ bc'[t].nr_buffers_cons = 0 /\ bc'[t].nr_buffers_prod = 0
        /\ \A u \in users : u # t /\ bc'[u] = bc[u]
        /\ users' = users \cup {t}
        /\ UNCHANGED <<slabs, nr_slabs_avail, content, out>>
    BY <1>0, <1>1 DEF thread_bcache_create, TypeOK
  <2>2. \A s \in Slab, i \in Index : Free(s, i)' => Free(s, i)
    BY <2>1 DEF Free, Index
  <2> QED BY <1>0, <2>1, <2>2, KeepFree
<1>2. ASSUME NEW t \in Thread, thread_bcache_free(t) PROVE BufferOnce'
  <2>1. /\ users' = users \ {t} /\ t \in users
        /\ \A u \in users' : bc'[u] = bc[u]
        /\ UNCHANGED <<slabs, nr_slabs_avail, out>>
        /\ \A s \in Slab : s # bc[t].slabs_cons /\ s # bc[t].slabs_prod
             => content'[s] = content[s]
    BY <1>0, <1>2 DEF thread_bcache_free, TypeOK
  <2>2. ASSUME NEW s \in Slab, NEW i \in Index, Free(s, i)'
        PROVE  /\ Free(s, i)
               /\ s # bc[t].slabs_cons /\ s # bc[t].slabs_prod
    BY <1>0, <2>1, <2>2 DEF Free, SlabOwnedOnce
  <2> QED BY <1>0, <2>1, <2>2, KeepFree
<1>3. ASSUME NEW t \in Thread, NEW n \in 1 .. PerSlab, CheckFast(t, n)
      PROVE  BufferOnce'
  BY <1>0, <1>3, KeepFree DEF CheckFast, Free
<1>4. ASSUME NEW t \in Thread, CheckNone(t) PROVE BufferOnce'
  BY <1>0, <1>4, KeepFree DEF CheckNone, Free
<1>5. ASSUME NEW t \in Thread, NEW n \in 1 .. PerSlab, CheckRefill(t, n)
      PROVE  BufferOnce'
  <2> DEFINE k == nr_slabs_avail - 1
  <2>1. k \in PoolIndex /\ k < nr_slabs_avail
    BY <1>0, <1>5 DEF CheckRefill, TypeOK, PoolIndex
  <2>2. /\ \A i \in PoolIndex : i < k =>
             i < nr_slabs_avail /\ slabs'[i] = slabs[i]
        /\ nr_slabs_avail' = k
        /\ bc'[t].slabs_cons = slabs[k]
        /\ bc'[t].slabs_prod = bc[t].slabs_prod
        /\ bc'[t].nr_buffers_prod = bc[t].nr_buffers_prod
        /\ \A u \in users : u # t => bc'[u] = bc[u]
        /\ UNCHANGED <<users, content, out>>
    BY <1>0, <1>5, <2>1 DEF CheckRefill, TypeOK, Cache, PoolIndex
  <2> HIDE DEF k
  <2>3. \A s \in Slab, i \in Index : Free(s, i)' => Free(s, i)
    BY <2>1, <2>2 DEF Free
  <2> QED BY <1>0, <2>2, <2>3, KeepFree
<1>6. ASSUME NEW t \in Thread, thread_bcache_cons(t) PROVE BufferOnce'
  <2> DEFINE n == bc[t].nr_buffers_cons - 1
             r == bc[t].slabs_cons
  <2>1. n \in Index /\ n < bc[t].nr_buffers_cons /\ r \in Slab /\ t \in users
    BY <1>6 DEF thread_bcache_cons, IInv, CheckKept, TypeOK, Cache, Index
  <2>2. /\ bc'[t].slabs_cons = r /\ bc'[t].nr_buffers_cons = n
        /\ bc'[t].slabs_prod = bc[t].slabs_prod
        /\ bc'[t].nr_buffers_prod = bc[t].nr_buffers_prod
        /\ \A u \in users : u # t => bc'[u] = bc[u]
        /\ UNCHANGED <<users, slabs, nr_slabs_avail>>
        /\ out' = out \cup {content[r][n]}
    BY <1>0, <1>6 DEF thread_bcache_cons, TypeOK, Cache
  <2>3. \A s \in Slab, i \in Index : ~(s = r /\ i = n) =>
          content'[s][i] = content[s][i]
    BY <1>0, <1>6, <2>1 DEF thread_bcache_cons, TypeOK
  <2>4. \A i \in Index : i < n => i < bc[t].nr_buffers_cons
    BY <1>0, <2>1 DEF Index, TypeOK, Cache
  <2>5. ~(n < n)
    BY <2>1 DEF Index
  <2> HIDE DEF n, r
  <2>6. Free(r, n)
    BY <2>1 DEF Free, r
  <2>7. \A s \in Slab, i \in Index : Free(s, i)' => Free(s, i)
    BY <2>1, <2>2, <2>4 DEF Free, r
  <2>8. \A s \in Slab, i \in Index : s = r /\ i = n => ~Free(s, i)'
    <3>1. ~\E j \in PoolIndex : j < nr_slabs_avail' /\ slabs'[j] = r
      BY <1>0, <2>1, <2>2 DEF SlabOwnedOnce, r
    <3>2. ~\E u \in users' : bc'[u].slabs_cons = r
                               /\ n < bc'[u].nr_buffers_cons
      BY <1>0, <2>1, <2>2, <2>5 DEF SlabOwnedOnce, r
    <3>3. ~\E u \in users' : bc'[u].slabs_prod = r
                               /\ n < bc'[u].nr_buffers_prod
      BY <1>0, <2>1, <2>2 DEF SlabOwnedOnce, r
    <3> QED BY <3>1, <3>2, <3>3 DEF Free
  <2>9. \A s \in Slab, i \in Index : Free(s, i)' =>
          /\ Free(s, i) /\ content'[s][i] = content[s][i]
          /\ ~(s = r /\ i = n)
    BY <2>3, <2>7, <2>8
  <2> QED BY <1>0, <2>1, <2>2, <2>6, <2>9, TakeFree
<1>7. ASSUME NEW t \in Thread, NEW b \in Buffer,
             NEW off \in 0 .. FrameSize - 1, ProdFast(t, b, off)
      PROVE  BufferOnce'
  <2> DEFINE n == bc[t].nr_buffers_prod
             r == bc[t].slabs_prod
  <2>1. n \in Index /\ r \in Slab /\ t \in users /\ b \in out
    BY <1>0, <1>7 DEF ProdFast, TypeOK, Cache, Index
  <2>2. /\ bc'[t].slabs_prod = r /\ bc'[t].nr_buffers_prod = n + 1
        /\ bc'[t].slabs_cons = bc[t].slabs_cons
        /\ bc'[t].nr_buffers_cons = bc[t].nr_buffers_cons
        /\ \A u \in users : u # t => bc'[u] = bc[u]
        /\ UNCHANGED <<users, slabs, nr_slabs_avail>>
        /\ out' = out \ {b}
    BY <1>0, <1>7 DEF ProdFast, TypeOK, Cache
  <2>3. /\ content'[r][n] = b
        /\ \A s \in Slab, i \in Index : ~(s = r /\ i = n) =>
             content'[s][i] = content[s][i]
    BY <1>0, <1>7, <2>1, StoredBuffer DEF ProdFast, TypeOK
  <2>4. \A i \in Index : i < n + 1 => i < n \/ i = n
    BY <2>1 DEF Index
  <2> HIDE DEF n, r
  <2>5. \A s \in Slab, i \in Index : Free(s, i)' =>
          Free(s, i) \/ (s = r /\ i = n)
    BY <2>1, <2>2, <2>4 DEF Free, r, n
  <2> QED BY <1>0, <2>1, <2>2, <2>3, <2>5, PutFree DEF TypeOK
<1>8. ASSUME NEW t \in Thread, NEW b \in Buffer,
             NEW off \in 0 .. FrameSize - 1, ProdSwap(t, b, off)
      PROVE  BufferOnce'
  <2> DEFINE k == nr_slabs_avail
             r == slabs[k]
  <2>1. k \in PoolIndex /\ t \in users /\ b \in out
    BY <1>0, <1>8, FullPool DEF ProdSwap, ProdInBounds, PoolIndex, TypeOK
  <2>2. r \in Slab /\ 0 \in Index
    BY <1>0, <2>1 DEF TypeOK, Index
  <2>3. /\ bc'[t].slabs_prod = r /\ bc'[t].nr_buffers_prod = 1
        /\ bc'[t].slabs_cons = bc[t].slabs_cons
        /\ bc'[t].nr_buffers_cons = bc[t].nr_buffers_cons
        /\ \A u \in users : u # t => bc'[u] = bc[u]
        /\ slabs'[k] = bc[t].slabs_prod
        /\ \A i \in PoolIndex : i # k => slabs'[i] = slabs[i]
        /\ nr_slabs_avail' = k + 1 /\ out' = out \ {b} /\ users' = users
    BY <1>0, <1>8, <2>1 DEF ProdSwap, TypeOK, Cache
  <2>4. /\ content'[r][0] = b
        /\ \A s \in Slab, i \in Index : ~(s = r /\ i = 0) =>
             content'[s][i] = content[s][i]
    BY <1>0, <1>8, <2>1, <2>2, StoredBuffer DEF ProdSwap, TypeOK
  <2>5. /\ \A i \in Index : i < 1 => i = 0
        /\ \A i \in PoolIndex : i < k + 1 => i < k \/ i = k
        /\ \A i \in Index : i < bc[t].nr_buffers_prod
    BY <1>0, <1>8, <2>1 DEF ProdSwap, Index, PoolIndex, TypeOK, Cache
  <2>6. \A s \in Slab, i \in Index : Free(s, i)' =>
          Free(s, i) \/ (s = r /\ i = 0)
    <3> HIDE DEF r
    <3> SUFFICES ASSUME NEW s \in Slab, NEW i \in Index, Free(s, i)'
                 PROVE  Free(s, i) \/ (s = r /\ i = 0)
      OBVIOUS
    <3>1. CASE \E j \in PoolIndex : j < nr_slabs_avail' /\ slabs'[j] = s
      BY <2>1, <2>3, <2>5, <3>1 DEF Free
    <3>2. CASE \E u \in users' : bc'[u].slabs_cons = s
                                   /\ i < bc'[u].nr_buffers_cons
      BY <2>3, <3>2 DEF Free
    <3>3. CASE \E u \in users' : bc'[u].slabs_prod = s
                                   /\ i < bc'[u].nr_buffers_prod
      BY <2>3, <2>5, <3>3 DEF Free
    <3> QED BY <3>1, <3>2, <3>3 DEF Free
  <2> HIDE DEF r
  <2> QED BY <1>0, <2>1, <2>2, <2>3, <2>4, <2>6, PutFree DEF TypeOK
<1>9. CASE UNCHANGED vars
  BY <1>0, <1>9, KeepFree DEF vars, Free
<1> QED BY <1>1, <1>2, <1>3, <1>4, <1>5, <1>6, <1>7, <1>8, <1>9
        DEF Next, Check, thread_bcache_prod

LEMMA StepKept == IInv /\ [Next]_vars => CheckKept'
<1> SUFFICES ASSUME IInv, [Next]_vars PROVE CheckKept'
  OBVIOUS
<1> USE PerSlabAssumption DEF CheckKept
<1>0. TypeOK /\ CheckKept
  BY DEF IInv
<1>1. ASSUME NEW t \in Thread, thread_bcache_create(t) PROVE CheckKept'
  BY <1>0, <1>1 DEF thread_bcache_create, TypeOK
<1>2. ASSUME NEW t \in Thread, thread_bcache_free(t) PROVE CheckKept'
  BY <1>0, <1>2 DEF thread_bcache_free, TypeOK
<1>3. ASSUME NEW t \in Thread, NEW n \in 1 .. PerSlab, CheckFast(t, n)
      PROVE  CheckKept'
  BY <1>0, <1>3 DEF CheckFast, TypeOK, Cache
<1>4. ASSUME NEW t \in Thread, CheckNone(t) PROVE CheckKept'
  BY <1>0, <1>4 DEF CheckNone, TypeOK, Cache
<1>5. ASSUME NEW t \in Thread, NEW n \in 1 .. PerSlab, CheckRefill(t, n)
      PROVE  CheckKept'
  BY <1>0, <1>5 DEF CheckRefill, TypeOK, Cache
<1>6. ASSUME NEW t \in Thread, thread_bcache_cons(t) PROVE CheckKept'
  BY <1>0, <1>6 DEF thread_bcache_cons, TypeOK, Cache
<1>7. ASSUME NEW t \in Thread, NEW b \in Buffer,
             NEW off \in 0 .. FrameSize - 1, ProdFast(t, b, off)
      PROVE  CheckKept'
  BY <1>0, <1>7 DEF ProdFast, TypeOK, Cache
<1>8. ASSUME NEW t \in Thread, NEW b \in Buffer,
             NEW off \in 0 .. FrameSize - 1, ProdSwap(t, b, off)
      PROVE  CheckKept'
  BY <1>0, <1>8 DEF ProdSwap, TypeOK, Cache
<1>9. CASE UNCHANGED vars
  BY <1>0, <1>9 DEF vars
<1> QED BY <1>1, <1>2, <1>3, <1>4, <1>5, <1>6, <1>7, <1>8, <1>9
        DEF Next, Check, thread_bcache_prod

LEMMA StepSwap == IInv /\ [Next]_vars => SwapInBounds'
<1> SUFFICES ASSUME IInv, [Next]_vars PROVE SwapInBounds'
  OBVIOUS
<1> USE UsersMaxAssumption DEF SwapInBounds
<1>0. TypeOK /\ SwapInBounds /\ Cardinality(users) \in Nat
  BY FS_CardinalityType DEF IInv
<1>1. ASSUME NEW t \in Thread, thread_bcache_create(t) PROVE SwapInBounds'
  <2>1. IsFiniteSet(users \cup {t})
          /\ Cardinality(users \cup {t}) = Cardinality(users) + 1
    BY <1>0, <1>1, FS_AddElement DEF thread_bcache_create
  <2> QED BY <1>0, <1>1, <2>1 DEF thread_bcache_create
<1>2. ASSUME NEW t \in Thread, thread_bcache_free(t) PROVE SwapInBounds'
  <2>1. IsFiniteSet(users \ {t})
          /\ Cardinality(users \ {t}) = Cardinality(users) - 1
    BY <1>0, <1>2, FS_RemoveElement DEF thread_bcache_free
  <2> QED BY <1>0, <1>2, <2>1 DEF thread_bcache_free
<1>3. ASSUME UNCHANGED <<users, nr_slabs_swap_avail>> PROVE SwapInBounds'
  BY <1>0, <1>3
<1> QED BY <1>1, <1>2, <1>3
        DEF Next, Check, thread_bcache_prod, CheckFast, CheckNone, CheckRefill,
            thread_bcache_cons, ProdFast, ProdSwap, vars

\* The inductive invariant holds in every state of the pool.
THEOREM PoolInvariance == Spec => []IInv
<1>1. IInv /\ [Next]_vars => IInv'
  BY StepType, StepSlabs, StepBuffers, StepKept, StepSwap DEF IInv
<1> QED BY InitInv, <1>1, PTL DEF Spec

-----------------------------------------------------------------------------
(* What a user of the pool relies on                                       *)

\* Every access of the pool functions to slabs, slabs_swap and a slab is
\* within the array: in particular nr_slabs_avail <= nr_slabs, which
\* thread_bcache_prod() asserts.
THEOREM PoolTypeCorrect == Spec => []TypeOK
BY PoolInvariance, PTL DEF IInv

\* A slab pointer is never in two places, however the threads interleave
\* create, check, prod and free.
THEOREM PoolSlabOwned == Spec => []SlabOwnedOnce
BY PoolInvariance, PTL DEF IInv

\* thread_bcache_cons() never hands out a buffer that is in use.
THEOREM PoolNoDoubleAllocation == Spec => []BufferOnce
BY PoolInvariance, PTL DEF IInv

\* thread_bcache_cons() finds what thread_bcache_check() promised.
THEOREM PoolCheckKept == Spec => []CheckKept
BY PoolInvariance, PTL DEF IInv

\* The unchecked index of the slow path of thread_bcache_prod() is in
\* bounds, by the number of buffers; so is that of thread_bcache_free().
THEOREM PoolProdInBounds == Spec => [](ProdInBounds /\ SwapInBounds)
<1>1. IInv => ProdInBounds /\ SwapInBounds
  BY FullPool DEF IInv
<1> QED BY <1>1, PoolInvariance, PTL
=============================================================================
