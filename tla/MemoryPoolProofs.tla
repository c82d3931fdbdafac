-------------------------- MODULE MemoryPoolProofs --------------------------
(***************************************************************************)
(* Proofs about MemoryPool.tla for every pool size, header size, request   *)
(* size and number of clients.                                             *)
(***************************************************************************)
EXTENDS MemoryPool, FiniteSetTheorems, WellFoundedInduction, TLAPS

-----------------------------------------------------------------------------
(* The inductive invariant. *)

\* Every byte of the pool belongs to a block.
Cover == \A x \in 0..(POOL_SIZE - 1) : \E b \in Blocks : b <= x /\ x < End(b)

\* p points behind the header of a block that is in use.
InUse(p) == p - HEADER \in Blocks /\ ~heap[p - HEADER].is_free

\* The blocks in use are the ones whose pointers clients have, or are about to
\* give back, and each is as large as was asked for.
Ownership ==
  /\ \A p \in DOMAIN live : InUse(p) /\ live[p] <= heap[p - HEADER].size
  /\ \A c \in Clients : pc[c] = "free" => InUse(arg[c]) /\ arg[c] \notin DOMAIN live
  /\ \A c, d \in Clients : pc[c] = "free" /\ pc[d] = "free" /\ arg[c] = arg[d] => c = d
  /\ \A b \in Blocks : ~heap[b].is_free =>
        \/ b + HEADER \in DOMAIN live
        \/ \E c \in Clients : pc[c] = "free" /\ arg[c] = b + HEADER

\* The mutex is held exactly during the loop of memory_pool_free.
MutexHeld ==
  /\ \A c \in Clients : pc[c] = "merge" <=> mutex = c
  /\ \A c \in Clients : pc[c] = "alloc" => arg[c] \in Sizes
  /\ \A c \in Clients : pc[c] = "free" => arg[c] \in Nat

\* What the loop has still to join lies at or behind its cursor.
CoalescedBehind ==
  \A b \in Blocks : CanMerge(b) => mutex # NULL /\ current # NULL /\ current <= b

PoolInv ==
  TypeOK /\ Tiling /\ Cover /\ Ownership /\ MutexHeld /\ CoalescedBehind

-----------------------------------------------------------------------------
(* Rounding. *)

\* A size is rounded up, to 8 at least.
LEMMA AlignedBounds ==
  ASSUME NEW n \in Nat \ {0}
  PROVE  Aligned(n) \in Nat /\ n <= Aligned(n) /\ 8 <= Aligned(n) /\ Aligned(n) < n + 8
  BY DEF Aligned

-----------------------------------------------------------------------------
(* What the three ways of changing the list do to it. *)

\* Marking a block changes nothing but the mark.
LEMMA MarkShape ==
  ASSUME TypeOK, NEW b \in Blocks, NEW v \in BOOLEAN,
         heap' = [heap EXCEPT ![b].is_free = v]
  PROVE  /\ Blocks' = Blocks
         /\ heap' \in [Blocks -> Headers]
         /\ \A x \in Blocks : /\ heap'[x].next = heap[x].next
                              /\ heap'[x].size = heap[x].size
                              /\ heap'[x].is_free = IF x = b THEN v ELSE heap[x].is_free
                              /\ End(x)' = End(x)
  BY DEF TypeOK, Headers, Blocks, End

\* Cutting a block puts one new free block into the bytes it gives up.
LEMMA SplitShape ==
  ASSUME TypeOK, Tiling, NEW b \in Blocks, NEW n \in Nat \ {0},
         n + HEADER + 8 <= heap[b].size, heap' = Split(b, n)
  PROVE  LET rest == b + HEADER + n IN
         /\ rest \in Nat /\ b < rest /\ rest < End(b) /\ rest \notin Blocks
         /\ Blocks' = Blocks \cup {rest}
         /\ heap' \in [Blocks \cup {rest} -> Headers]
         /\ heap'[rest].next = heap[b].next /\ heap'[rest].is_free
         /\ heap'[rest].size > 0 /\ End(rest)' = End(b)
         /\ heap'[b].next = rest /\ ~heap'[b].is_free
         /\ heap'[b].size = n /\ End(b)' = rest
         /\ \A x \in Blocks \ {b} : heap'[x] = heap[x] /\ End(x)' = End(x)
<1>. DEFINE rest == b + HEADER + n
<1>1. /\ heap[b] \in Headers /\ b \in Nat /\ HEADER \in Nat /\ HEADER > 0
      /\ heap[b].size \in Nat /\ heap[b].next \in Nat \cup {NULL}
  BY SizesAssumption DEF TypeOK, Headers
<1>2. rest \in Nat /\ b < rest /\ rest < End(b)
  BY <1>1 DEF End
<1>3. rest \notin Blocks
  BY <1>1, <1>2 DEF Tiling, End
<1>4. /\ Blocks' = Blocks \cup {rest}
      /\ heap'[rest] = [next |-> heap[b].next, size |-> heap[b].size - n - HEADER, is_free |-> TRUE]
      /\ heap'[b] = [next |-> rest, size |-> n, is_free |-> FALSE]
      /\ \A x \in Blocks \ {b} : heap'[x] = heap[x]
  BY <1>2, <1>3 DEF Split, Blocks
<1>5. heap' \in [Blocks \cup {rest} -> Headers]
  <2>1. \A x \in Blocks \cup {rest} : heap'[x] \in Headers
    <3>1. heap'[rest] \in Headers /\ heap'[b] \in Headers
      BY <1>1, <1>2, <1>4 DEF Headers
    <3>. QED
      BY <1>4, <3>1 DEF TypeOK
  <2>2. heap' = [x \in Blocks \cup {rest} |-> heap'[x]]
    BY DEF Split
  <2>. QED
    BY <2>1, <2>2
<1>. QED
  BY <1>1, <1>2, <1>3, <1>4, <1>5 DEF End

\* Joining a block with its successor takes the successor out of the list.
LEMMA JoinShape ==
  ASSUME TypeOK, Tiling, NEW b \in Blocks, CanMerge(b), heap' = Joined(b)
  PROVE  LET n == heap[b].next IN
         /\ n \in Blocks /\ n = End(b) /\ b < n
         /\ Blocks' = Blocks \ {n}
         /\ heap' \in [Blocks \ {n} -> Headers]
         /\ heap'[b].next = heap[n].next /\ heap'[b].is_free
         /\ heap'[b].size > 0 /\ End(b)' = End(n)
         /\ \A x \in Blocks \ {b, n} : heap'[x] = heap[x] /\ End(x)' = End(x)
<1>. DEFINE n == heap[b].next
<1>1. /\ heap[b] \in Headers /\ b \in Nat /\ HEADER \in Nat /\ HEADER > 0
      /\ heap[b].size \in Nat /\ n \in Nat /\ heap[b].is_free
  BY SizesAssumption, NullAssumption DEF TypeOK, Headers, CanMerge
<1>2. n \in Blocks /\ n = End(b) /\ b < n
  BY <1>1 DEF Tiling, CanMerge, End
<1>3. heap[n] \in Headers /\ heap[n].size \in Nat /\ heap[n].next \in Nat \cup {NULL}
  BY <1>2 DEF TypeOK, Headers
<1>4. /\ Blocks' = Blocks \ {n}
      /\ heap'[b] = [next |-> heap[n].next, size |-> heap[b].size + heap[n].size + HEADER,
                    is_free |-> TRUE]
      /\ \A x \in Blocks \ {b, n} : heap'[x] = heap[x]
  BY <1>1, <1>2 DEF Joined, Blocks
<1>5. /\ heap'[b].size = heap[b].size + heap[n].size + HEADER
      /\ heap'[b].next = heap[n].next /\ heap'[b].is_free /\ heap'[b] \in Headers
  BY <1>1, <1>3, <1>4 DEF Headers
<1>6. heap' \in [Blocks \ {n} -> Headers]
  <2>1. \A x \in Blocks \ {n} : heap'[x] \in Headers
    BY <1>4, <1>5 DEF TypeOK
  <2>2. heap' = [x \in Blocks \ {n} |-> heap'[x]]
    BY DEF Joined
  <2>. QED
    BY <2>1, <2>2
<1>7. End(b)' = End(n) /\ heap'[b].size > 0
  <2>1. b + HEADER + heap'[b].size = n + HEADER + heap[n].size
    BY <1>1, <1>2, <1>3, <1>5 DEF End
  <2>. QED
    BY <1>1, <1>3, <1>5, <2>1 DEF End
<1>8. \A x \in Blocks \ {b, n} : End(x)' = End(x)
  BY <1>4 DEF End
<1>. QED
  BY <1>2, <1>4, <1>5, <1>6, <1>7, <1>8, Zenon

\* An allocation takes a free block, whole or cut, that is as large as was asked
\* for and less than a smallest block larger.
LEMMA AllocShape ==
  ASSUME PoolInv, NEW c \in Clients, Alloc(c)
  PROVE  \E b \in Blocks :
           /\ heap[b].is_free /\ b \in Blocks' /\ ~heap'[b].is_free
           /\ Aligned(arg[c]) <= heap'[b].size
           /\ heap'[b].size < Aligned(arg[c]) + HEADER + 8
           /\ heap' \in [Blocks' -> Headers]
           /\ used_size' = used_size + heap'[b].size + HEADER
           /\ live' = [p \in DOMAIN live \cup {b + HEADER} |->
                         IF p = b + HEADER THEN arg[c] ELSE live[p]]
           /\ \A x \in Blocks \ {b} : x \in Blocks' /\ heap'[x] = heap[x]
           /\ \/ Blocks' = Blocks /\ heap'[b].next = heap[b].next
              \/ \E rest \in Nat : /\ Blocks' = Blocks \cup {rest} /\ rest \notin Blocks
                                   /\ heap'[rest].is_free /\ heap'[rest].next = heap[b].next
                                   /\ heap'[b].next = rest
<1>0. TypeOK /\ Tiling /\ MutexHeld
  BY DEF PoolInv
<1>. DEFINE n == Aligned(arg[c])
<1>1. n \in Nat \ {0}
  <2>1. arg[c] \in Nat \ {0}
    BY <1>0, SizesAssumption DEF MutexHeld, Alloc
  <2>. QED
    BY <2>1, AlignedBounds
<1>2. PICK b \in Blocks :
        /\ heap[b].is_free /\ heap[b].size >= n
        /\ heap' = IF heap[b].size - n >= HEADER + 8 THEN Split(b, n) ELSE Whole(b)
        /\ used_size' = used_size + heap'[b].size + HEADER
        /\ live' = [p \in DOMAIN live \cup {b + HEADER} |->
                      IF p = b + HEADER THEN arg[c] ELSE live[p]]
  BY DEF Alloc, BestFit, Candidates
<1>. HIDE DEF n
<1>3. heap[b].size \in Nat /\ HEADER \in Nat /\ b \in Nat
  BY <1>0, SizesAssumption DEF TypeOK, Headers
<1>4. CASE heap[b].size - n >= HEADER + 8
  <2>. DEFINE rest == b + HEADER + n
  <2>1. heap' = Split(b, n) /\ n + HEADER + 8 <= heap[b].size
    BY <1>1, <1>2, <1>3, <1>4
  <2>2. /\ rest \in Nat /\ rest \notin Blocks
        /\ Blocks' = Blocks \cup {rest}
        /\ heap' \in [Blocks \cup {rest} -> Headers]
        /\ heap'[rest].next = heap[b].next /\ heap'[rest].is_free
        /\ heap'[b].next = rest /\ ~heap'[b].is_free /\ heap'[b].size = n
        /\ \A x \in Blocks \ {b} : heap'[x] = heap[x]
    <3>1. b \in Blocks /\ TypeOK /\ Tiling
      BY <1>0
    <3>. QED
      BY <1>1, <2>1, <3>1, SplitShape, ZenonT(30)
  <2>. HIDE DEF rest
  <2>3. n <= heap'[b].size /\ heap'[b].size < n + HEADER + 8
    BY <1>1, <1>3, <2>2
  <2>. QED
    BY <1>2, <2>2, <2>3 DEF n
<1>5. CASE ~(heap[b].size - n >= HEADER + 8)
  <2>1. heap' = [heap EXCEPT ![b].is_free = FALSE]
    BY <1>2, <1>5 DEF Whole
  <2>2. /\ Blocks' = Blocks /\ heap' \in [Blocks -> Headers]
        /\ heap'[b].next = heap[b].next /\ heap'[b].size = heap[b].size
        /\ ~heap'[b].is_free
    BY <1>0, <2>1, MarkShape
  <2>3. \A x \in Blocks \ {b} : heap'[x] = heap[x]
    BY <2>1 DEF Blocks
  <2>4. n <= heap'[b].size /\ heap'[b].size < n + HEADER + 8
    BY <1>1, <1>2, <1>3, <1>5, <2>2
  <2>. QED
    BY <1>2, <2>2, <2>3, <2>4 DEF n
<1>. QED
  BY <1>4, <1>5

-----------------------------------------------------------------------------
(* The list always fills the pool. *)

\* Every step keeps the blocks in order, inside the pool and apart.
LEMMA GeometryStep ==
  ASSUME PoolInv, [Next]_vars
  PROVE  Tiling' /\ Cover'
<1>0. TypeOK /\ Tiling /\ Cover /\ Ownership /\ MutexHeld
  BY DEF PoolInv
<1>1. /\ HEADER \in Nat /\ HEADER > 0 /\ POOL_SIZE \in Nat
      /\ \A x \in Blocks : /\ x \in Nat /\ heap[x].size \in Nat /\ End(x) \in Nat /\ x < End(x)
                          /\ heap[x].next \in Nat \cup {NULL}
  BY <1>0, SizesAssumption DEF TypeOK, Headers, End
<1>2. CASE UNCHANGED heap
  BY <1>0, <1>2 DEF Tiling, Cover, Blocks, End
<1>3. ASSUME NEW b \in Blocks, NEW v \in BOOLEAN, heap' = [heap EXCEPT ![b].is_free = v]
      PROVE  Tiling' /\ Cover'
  <2>1. /\ Blocks' = Blocks
        /\ \A x \in Blocks : /\ heap'[x].next = heap[x].next
                            /\ heap'[x].size = heap[x].size
                            /\ End(x)' = End(x)
    BY <1>0, <1>3, MarkShape
  <2>. QED
    BY <1>0, <2>1 DEF Tiling, Cover
<1>4. ASSUME NEW b \in Blocks, NEW n \in Nat \ {0},
             n + HEADER + 8 <= heap[b].size, heap' = Split(b, n)
      PROVE  Tiling' /\ Cover'
  <2>. DEFINE rest == b + HEADER + n
  <2>1. /\ rest \in Nat /\ b < rest /\ rest < End(b) /\ rest \notin Blocks
        /\ Blocks' = Blocks \cup {rest}
        /\ heap'[rest].next = heap[b].next
        /\ heap'[rest].size > 0 /\ End(rest)' = End(b)
        /\ heap'[b].next = rest /\ heap'[b].size = n /\ End(b)' = rest
        /\ \A x \in Blocks \ {b} : heap'[x] = heap[x] /\ End(x)' = End(x)
    BY <1>0, <1>4, SplitShape, ZenonT(30)
  <2>. HIDE DEF rest
  <2>2. Cover'
    BY <1>0, <1>1, <2>1 DEF Cover
  <2>3. Tiling'
    BY <1>0, <1>1, <2>1, NullAssumption DEF Tiling
  <2>. QED
    BY <2>2, <2>3
<1>5. ASSUME NEW b \in Blocks, CanMerge(b), heap' = Joined(b)
      PROVE  Tiling' /\ Cover'
  <2>. DEFINE n == heap[b].next
  <2>1. /\ n \in Blocks /\ n = End(b) /\ b < n
        /\ Blocks' = Blocks \ {n}
        /\ heap'[b].next = heap[n].next
        /\ heap'[b].size > 0 /\ End(b)' = End(n)
        /\ \A x \in Blocks \ {b, n} : heap'[x] = heap[x] /\ End(x)' = End(x)
    BY <1>0, <1>5, JoinShape
  <2>. HIDE DEF n
  <2>2. Cover'
    BY <1>0, <1>1, <2>1 DEF Cover
  <2>3. Tiling'
    <3>1. 0 \in Blocks' /\ \A a, d \in Blocks' : a < d => End(a)' <= d
      BY <1>0, <1>1, <2>1 DEF Tiling
    <3>2. ASSUME NEW a \in Blocks'
          PROVE  /\ heap'[a].size > 0 /\ End(a)' <= POOL_SIZE
                 /\ IF heap'[a].next = NULL THEN End(a)' = POOL_SIZE
                    ELSE heap'[a].next = End(a)' /\ End(a)' \in Blocks'
      <4>1. CASE a = b
        BY <1>0, <1>1, <2>1, <4>1 DEF Tiling
      <4>2. CASE a # b
        BY <1>0, <1>1, <2>1, <4>2 DEF Tiling
      <4>. QED
        BY <4>1, <4>2
    <3>. QED
      BY <3>1, <3>2 DEF Tiling
  <2>. QED
    BY <2>2, <2>3
<1>6. ASSUME NEW c \in Clients, Alloc(c)
      PROVE  Tiling' /\ Cover'
  <2>. DEFINE n == Aligned(arg[c])
  <2>1. n \in Nat \ {0}
    <3>1. arg[c] \in Nat \ {0}
      BY <1>0, <1>6, SizesAssumption DEF MutexHeld, Alloc
    <3>. QED
      BY <3>1, AlignedBounds
  <2>2. PICK b \in Blocks : /\ heap[b].size >= n
                           /\ heap' = IF heap[b].size - n >= HEADER + 8
                                      THEN Split(b, n) ELSE Whole(b)
    BY <1>6 DEF Alloc, BestFit, Candidates
  <2>. HIDE DEF n
  <2>3. CASE heap[b].size - n >= HEADER + 8
    BY <1>1, <1>4, <2>1, <2>2, <2>3
  <2>4. CASE ~(heap[b].size - n >= HEADER + 8)
    BY <1>3, <2>2, <2>4 DEF Whole
  <2>. QED
    BY <2>3, <2>4
<1>7. ASSUME NEW c \in Clients, Free(c)
      PROVE  Tiling' /\ Cover'
  BY <1>0, <1>3, <1>7 DEF Free, Ownership, InUse
<1>8. ASSUME NEW c \in Clients, Merge(c)
      PROVE  Tiling' /\ Cover'
  BY <1>0, <1>5, <1>8 DEF Merge, TypeOK
<1>. QED
  BY <1>2, <1>6, <1>7, <1>8
  DEF Next, Enter, Loop, vars, AllocCall, AllocFails, FreeCall, StepOver, FreeReturn

-----------------------------------------------------------------------------
(* Type correctness and the discipline of the mutex. *)

\* Every step keeps the types.
LEMMA TypeStep ==
  ASSUME PoolInv, [Next]_vars
  PROVE  TypeOK'
<1>. USE SizesAssumption
<1>0. TypeOK /\ Tiling /\ Ownership /\ MutexHeld /\ Tiling'
  BY GeometryStep DEF PoolInv
<1>1. ASSUME heap' \in [Blocks' -> Headers], Blocks' \subseteq Nat
      PROVE  Blocks' \subseteq 0..POOL_SIZE
  BY <1>0, <1>1 DEF Tiling, End, Headers
<1>2. ASSUME NEW c \in Clients, NEW n \in Sizes, AllocCall(c, n)
      PROVE  TypeOK'
  BY <1>0, <1>2 DEF TypeOK, AllocCall, Blocks
<1>3. ASSUME NEW c \in Clients, NEW p \in DOMAIN live, FreeCall(c, p)
      PROVE  TypeOK'
  BY <1>0, <1>3 DEF TypeOK, FreeCall, Blocks
<1>4. ASSUME NEW c \in Clients, AllocFails(c) \/ StepOver(c) \/ FreeReturn(c)
      PROVE  TypeOK'
  BY <1>0, <1>4 DEF TypeOK, Tiling, AllocFails, StepOver, FreeReturn, Return, clientVars, Blocks
<1>5. ASSUME NEW c \in Clients, Alloc(c)
      PROVE  TypeOK'
  <2>1. PICK b \in Blocks :
          /\ b \in Blocks' /\ heap' \in [Blocks' -> Headers]
          /\ used_size' = used_size + heap'[b].size + HEADER
          /\ live' = [p \in DOMAIN live \cup {b + HEADER} |->
                        IF p = b + HEADER THEN arg[c] ELSE live[p]]
          /\ Blocks \subseteq Blocks' /\ Blocks' \subseteq Nat
    <3>1. Blocks \subseteq Nat
      BY <1>0 DEF TypeOK
    <3>. QED
      <4>1. PICK b \in Blocks :
              /\ b \in Blocks' /\ heap' \in [Blocks' -> Headers]
              /\ used_size' = used_size + heap'[b].size + HEADER
              /\ live' = [p \in DOMAIN live \cup {b + HEADER} |->
                            IF p = b + HEADER THEN arg[c] ELSE live[p]]
              /\ \A x \in Blocks \ {b} : x \in Blocks'
              /\ \/ Blocks' = Blocks
                 \/ \E rest \in Nat : Blocks' = Blocks \cup {rest}
        BY <1>5, AllocShape, ZenonT(30)
      <4>2. Blocks \subseteq Blocks' /\ Blocks' \subseteq Nat
        BY <3>1, <4>1, Zenon
      <4>. QED
        BY <4>1, <4>2, Zenon
  <2>2. heap'[b].size \in Nat /\ b \in Nat /\ arg[c] \in Sizes
    BY <1>0, <1>5, <2>1 DEF Headers, TypeOK, MutexHeld, Alloc
  <2>3. used_size' \in Int /\ peak_use' \in Nat
    BY <1>0, <1>5, <2>1, <2>2 DEF TypeOK, Alloc
  <2>4. DOMAIN live' \subseteq Nat /\ live' \in [DOMAIN live' -> Sizes]
    BY <1>0, <2>1, <2>2 DEF TypeOK
  <2>5. /\ pc' \in [Clients -> {"idle", "alloc", "free", "merge"}]
        /\ arg' \in [Clients -> Nat \cup {NULL}]
        /\ UNCHANGED <<mutex, current>>
    BY <1>0, <1>5 DEF TypeOK, Alloc, Return
  <2>. QED
    BY <1>0, <1>1, <2>1, <2>3, <2>4, <2>5 DEF TypeOK
<1>6. ASSUME NEW c \in Clients, Free(c)
      PROVE  TypeOK'
  <2>. DEFINE b == arg[c] - HEADER
  <2>1. b \in Blocks /\ heap[b].size \in Nat
    BY <1>0, <1>6 DEF Free, Ownership, InUse, TypeOK, Headers
  <2>2. Blocks' = Blocks /\ heap' \in [Blocks' -> Headers]
    BY <1>0, <1>6, <2>1, MarkShape DEF Free
  <2>3. current' \in Blocks' /\ used_size' \in Int
    BY <1>0, <1>6, <2>1, <2>2 DEF Free, Tiling, TypeOK
  <2>4. /\ mutex' \in Clients
        /\ pc' \in [Clients -> {"idle", "alloc", "free", "merge"}]
        /\ UNCHANGED <<peak_use, arg, live>>
    BY <1>0, <1>6 DEF TypeOK, Free
  <2>. QED
    BY <1>0, <2>2, <2>3, <2>4 DEF TypeOK
<1>7. ASSUME NEW c \in Clients, Merge(c)
      PROVE  TypeOK'
  <2>1. current \in Blocks /\ CanMerge(current) /\ heap' = Joined(current)
    BY <1>0, <1>7 DEF Merge, TypeOK
  <2>2. /\ Blocks' = Blocks \ {heap[current].next} /\ heap' \in [Blocks' -> Headers]
        /\ heap[current].next # current
    <3>. DEFINE n == heap[current].next
    <3>1. current \in Nat
      BY <1>0, <2>1 DEF TypeOK
    <3>2. current < n /\ Blocks' = Blocks \ {n} /\ heap' \in [Blocks \ {n} -> Headers]
      BY <1>0, <2>1, JoinShape
    <3>. QED
      BY <3>1, <3>2
  <2>. QED
    BY <1>0, <1>7, <2>1, <2>2 DEF TypeOK, Merge, clientVars
<1>8. CASE UNCHANGED vars
  BY <1>0, <1>8 DEF TypeOK, vars, clientVars, Blocks
<1>. QED
  BY <1>2, <1>3, <1>4, <1>5, <1>6, <1>7, <1>8 DEF Next, Enter, Loop

\* Every step keeps the mutex with the task that is inside.
LEMMA MutexStep ==
  ASSUME PoolInv, [Next]_vars
  PROVE  MutexHeld'
<1>0. TypeOK /\ MutexHeld /\ Ownership
  BY DEF PoolInv
<1>1. ASSUME NEW c \in Clients, NEW n \in Sizes, AllocCall(c, n)
      PROVE  MutexHeld'
  BY <1>0, <1>1, NullAssumption DEF MutexHeld, TypeOK, AllocCall
<1>2. ASSUME NEW c \in Clients, NEW p \in DOMAIN live, FreeCall(c, p)
      PROVE  MutexHeld'
  BY <1>0, <1>2, NullAssumption DEF MutexHeld, TypeOK, FreeCall
<1>3. ASSUME NEW c \in Clients, Alloc(c) \/ AllocFails(c) \/ FreeReturn(c)
      PROVE  MutexHeld'
  BY <1>0, <1>3, NullAssumption DEF MutexHeld, TypeOK, Alloc, AllocFails, FreeReturn, Return
<1>4. ASSUME NEW c \in Clients, Free(c)
      PROVE  MutexHeld'
  BY <1>0, <1>4, NullAssumption DEF MutexHeld, TypeOK, Free
<1>5. CASE UNCHANGED <<mutex, pc, arg>>
  BY <1>0, <1>5 DEF MutexHeld
<1>. QED
  BY <1>1, <1>2, <1>3, <1>4, <1>5
  DEF Next, Enter, Loop, vars, clientVars, Merge, StepOver

-----------------------------------------------------------------------------
(* Which blocks are in use, and by whom. *)

\* Every step keeps each used block with one owner.
LEMMA OwnershipStep ==
  ASSUME PoolInv, [Next]_vars
  PROVE  Ownership'
<1>. USE SizesAssumption
<1>0. TypeOK /\ Tiling /\ Ownership /\ MutexHeld
  BY DEF PoolInv
<1>1. ASSUME NEW c \in Clients, NEW n \in Sizes, AllocCall(c, n)
      PROVE  Ownership'
  BY <1>0, <1>1 DEF Ownership, InUse, TypeOK, AllocCall, Blocks
<1>2. ASSUME NEW c \in Clients, NEW p \in DOMAIN live, FreeCall(c, p)
      PROVE  Ownership'
  BY <1>0, <1>2 DEF Ownership, InUse, TypeOK, FreeCall, Blocks
<1>3. ASSUME NEW c \in Clients, AllocFails(c) \/ FreeReturn(c)
      PROVE  Ownership'
  BY <1>0, <1>3 DEF Ownership, InUse, TypeOK, AllocFails, FreeReturn, Return, Blocks
<1>4. ASSUME NEW c \in Clients, Free(c)
      PROVE  Ownership'
  <2>. DEFINE b == arg[c] - HEADER
  <2>1. b \in Blocks /\ arg[c] \in Nat
    BY <1>0, <1>4 DEF Free, Ownership, InUse, MutexHeld
  <2>2. /\ Blocks' = Blocks
        /\ \A x \in Blocks : /\ heap'[x].size = heap[x].size
                            /\ heap'[x].is_free = IF x = b THEN TRUE ELSE heap[x].is_free
    BY <1>0, <1>4, <2>1, MarkShape DEF Free
  <2>3. /\ UNCHANGED <<arg, live>>
        /\ \A d \in Clients : pc'[d] = "free" <=> pc[d] = "free" /\ d # c
    BY <1>0, <1>4 DEF Free, TypeOK
  <2>4. \A p \in DOMAIN live : p - HEADER # b /\ p \in Nat
    <3>1. arg[c] \notin DOMAIN live
      BY <1>0, <1>4 DEF Free, Ownership
    <3>2. \A p \in DOMAIN live : p \in Nat
      BY <1>0 DEF TypeOK
    <3>. QED
      BY <2>1, <3>1, <3>2, SizesAssumption
  <2>5. \A d \in Clients : pc'[d] = "free" => arg[d] - HEADER # b /\ arg[d] \in Nat
    BY <1>0, <1>4, <2>1, <2>3 DEF Free, Ownership, MutexHeld
  <2>6. \A p \in DOMAIN live : InUse(p)' /\ live[p] <= heap'[p - HEADER].size
    BY <1>0, <2>2, <2>4 DEF Ownership, InUse
  <2>7. \A d \in Clients : pc'[d] = "free" => InUse(arg[d])'
    BY <1>0, <2>2, <2>3, <2>5 DEF Ownership, InUse
  <2>8. \A x \in Blocks' : ~heap'[x].is_free =>
          \/ x + HEADER \in DOMAIN live
          \/ \E d \in Clients : pc'[d] = "free" /\ arg[d] = x + HEADER
    <3>1. \A x \in Blocks : x \in Nat /\ (x # b => x + HEADER # arg[c])
      BY <1>0, <2>1 DEF TypeOK
    <3>. QED
      BY <1>0, <2>2, <2>3, <3>1 DEF Ownership
  <2>. QED
    BY <1>0, <2>3, <2>6, <2>7, <2>8 DEF Ownership, InUse
<1>5. ASSUME NEW c \in Clients, Alloc(c)
      PROVE  Ownership'
  <2>1. PICK b \in Blocks :
          /\ heap[b].is_free /\ b \in Blocks' /\ ~heap'[b].is_free
          /\ Aligned(arg[c]) <= heap'[b].size
          /\ heap' \in [Blocks' -> Headers]
          /\ live' = [p \in DOMAIN live \cup {b + HEADER} |->
                        IF p = b + HEADER THEN arg[c] ELSE live[p]]
          /\ \A x \in Blocks \ {b} : x \in Blocks' /\ heap'[x] = heap[x]
          /\ \A x \in Blocks' \ Blocks : heap'[x].is_free
    BY <1>5, AllocShape
  <2>2. arg[c] <= heap'[b].size /\ b \in Nat
    <3>1. arg[c] \in Nat \ {0} /\ b \in Nat /\ heap'[b].size \in Nat
      BY <1>0, <1>5, <2>1 DEF MutexHeld, Alloc, TypeOK, Headers
    <3>. QED
      BY <2>1, <3>1, AlignedBounds
  <2>3. \A p \in DOMAIN live : p \in Nat /\ p - HEADER \in Blocks \ {b}
    BY <1>0, <2>1 DEF Ownership, InUse, TypeOK
  <2>4. \A d \in Clients : pc[d] = "free" => /\ arg[d] \in Nat
                                             /\ arg[d] - HEADER \in Blocks \ {b}
    BY <1>0, <2>1 DEF Ownership, InUse, MutexHeld
  <2>5. \A d \in Clients : /\ pc'[d] = "free" <=> pc[d] = "free"
                           /\ pc[d] = "free" => arg'[d] = arg[d]
    BY <1>0, <1>5 DEF Alloc, Return, TypeOK
  <2>6. \A p \in DOMAIN live' : InUse(p)' /\ live'[p] <= heap'[p - HEADER].size
    BY <1>0, <2>1, <2>2, <2>3 DEF Ownership, InUse
  <2>7. \A d \in Clients : pc'[d] = "free" => InUse(arg[d])' /\ arg'[d] \notin DOMAIN live'
    BY <1>0, <2>1, <2>2, <2>4, <2>5 DEF Ownership, InUse
  <2>8. \A x \in Blocks' : ~heap'[x].is_free =>
          \/ x + HEADER \in DOMAIN live'
          \/ \E d \in Clients : pc'[d] = "free" /\ arg'[d] = x + HEADER
    <3>1. ASSUME NEW x \in Blocks', ~heap'[x].is_free, x # b
          PROVE  \/ x + HEADER \in DOMAIN live
                 \/ \E d \in Clients : pc[d] = "free" /\ arg[d] = x + HEADER
      BY <1>0, <2>1, <3>1 DEF Ownership
    <3>. QED
      BY <2>1, <2>5, <3>1
  <2>. QED
    BY <1>0, <2>5, <2>6, <2>7, <2>8 DEF Ownership
<1>6. ASSUME NEW c \in Clients, Merge(c)
      PROVE  Ownership'
  <2>1. current \in Blocks /\ CanMerge(current) /\ heap' = Joined(current)
    BY <1>0, <1>6 DEF Merge, TypeOK
  <2>. DEFINE n == heap[current].next
  <2>2. /\ n \in Blocks /\ Blocks' = Blocks \ {n} /\ heap'[current].is_free
        /\ \A x \in Blocks \ {current, n} : heap'[x] = heap[x]
    BY <1>0, <2>1, JoinShape
  <2>3. heap[current].is_free /\ heap[n].is_free
    BY <2>1 DEF CanMerge
  <2>. HIDE DEF n
  <2>4. UNCHANGED <<pc, arg, live>>
    BY <1>6 DEF Merge, clientVars
  <2>5. \A p : InUse(p) => InUse(p)' /\ heap'[p - HEADER] = heap[p - HEADER]
    BY <2>2, <2>3 DEF InUse
  <2>6. \A x \in Blocks' : ~heap'[x].is_free => x \in Blocks /\ ~heap[x].is_free
    BY <2>2, <2>3
  <2>. QED
    BY <1>0, <2>4, <2>5, <2>6 DEF Ownership
<1>7. CASE UNCHANGED <<heap, pc, arg, live>>
  BY <1>0, <1>7 DEF Ownership, InUse, Blocks
<1>. QED
  BY <1>1, <1>2, <1>3, <1>4, <1>5, <1>6, <1>7
  DEF Next, Enter, Loop, vars, clientVars, StepOver

-----------------------------------------------------------------------------
(* The loop of memory_pool_free. *)

\* Every step keeps what is still to be joined at or behind the cursor of the loop.
LEMMA CoalescedStep ==
  ASSUME PoolInv, [Next]_vars
  PROVE  CoalescedBehind'
<1>. USE SizesAssumption
<1>0. TypeOK /\ Tiling /\ Ownership /\ MutexHeld /\ CoalescedBehind
  BY DEF PoolInv
<1>1. CASE UNCHANGED <<heap, mutex, current>>
  BY <1>0, <1>1 DEF CoalescedBehind, CanMerge, Blocks
<1>2. ASSUME NEW c \in Clients, Free(c)
      PROVE  CoalescedBehind'
  <2>1. Blocks' = Blocks /\ \A x \in Blocks : x \in Nat
    <3>1. arg[c] - HEADER \in Blocks
      BY <1>0, <1>2 DEF Free, Ownership, InUse
    <3>2. Blocks' = Blocks
      BY <1>0, <1>2, <3>1, MarkShape DEF Free
    <3>. QED
      BY <1>0, <3>2 DEF TypeOK
  <2>. QED
    BY <1>2, <2>1, NullAssumption DEF CoalescedBehind, Free
<1>3. ASSUME NEW c \in Clients, Alloc(c)
      PROVE  CoalescedBehind'
  <2>1. PICK b \in Blocks :
          /\ heap[b].is_free /\ ~heap'[b].is_free
          /\ \A x \in Blocks \ {b} : heap'[x] = heap[x]
          /\ \/ Blocks' = Blocks /\ heap'[b].next = heap[b].next
             \/ \E rest \in Nat : /\ Blocks' = Blocks \cup {rest} /\ rest \notin Blocks
                                  /\ heap'[rest].is_free /\ heap'[rest].next = heap[b].next
                                  /\ heap'[b].next = rest
    BY <1>3, AllocShape
  <2>2. \A x \in Blocks : ~CanMerge(x)
    BY <1>0, <1>3 DEF CoalescedBehind, Alloc
  <2>3. \A x \in Blocks : heap[x].next # NULL => heap[x].next \in Blocks
    BY <1>0 DEF Tiling
  <2>4. \A x \in Blocks \ {b} : ~CanMerge(x)'
    BY <2>1, <2>2, <2>3 DEF CanMerge
  <2>5. ~CanMerge(b)'
    BY <2>1 DEF CanMerge
  <2>6. \A x \in Blocks' \ Blocks : ~CanMerge(x)'
    <3>1. heap[b].next # NULL => heap[b].next # b /\ ~heap[heap[b].next].is_free
      BY <2>1, <2>2 DEF CanMerge
    <3>. QED
      BY <2>1, <2>3, <3>1 DEF CanMerge
  <2>. QED
    BY <2>4, <2>5, <2>6 DEF CoalescedBehind
<1>4. ASSUME NEW c \in Clients, Merge(c)
      PROVE  CoalescedBehind'
  <2>. DEFINE n == heap[current].next
  <2>1. current \in Blocks /\ CanMerge(current) /\ heap' = Joined(current)
    BY <1>0, <1>4 DEF Merge, TypeOK
  <2>2. /\ n \in Blocks /\ Blocks' = Blocks \ {n} /\ heap'[current].is_free
        /\ current < n /\ heap[current].is_free /\ n = End(current)
        /\ \A x \in Blocks \ {current, n} : heap'[x] = heap[x]
    BY <1>0, <2>1, JoinShape DEF CanMerge
  <2>. HIDE DEF n
  <2>3. \A x \in Blocks : x < current => ~CanMerge(x)
    BY <1>0, <2>1 DEF CoalescedBehind, TypeOK
  <2>4. ASSUME NEW x \in Blocks', x < current, heap[x].next # NULL
        PROVE  heap[x].next \in Blocks' /\ heap[x].next # n
    <3>1. heap[x].next = End(x) /\ End(x) \in Blocks /\ End(x) <= current
      BY <1>0, <2>1, <2>2, <2>4 DEF Tiling
    <3>. QED
      BY <1>0, <2>1, <2>2, <3>1 DEF TypeOK
  <2>5. \A x \in Blocks' : x < current => ~CanMerge(x)'
    BY <2>1, <2>2, <2>3, <2>4 DEF CanMerge
  <2>6. mutex' # NULL /\ current' # NULL /\ current' = current
    BY <1>0, <1>4, NullAssumption DEF MutexHeld, Merge
  <2>. QED
    BY <1>0, <2>1, <2>2, <2>5, <2>6 DEF CoalescedBehind, TypeOK
<1>5. ASSUME NEW c \in Clients, StepOver(c)
      PROVE  CoalescedBehind'
  <2>1. /\ current \in Blocks /\ ~CanMerge(current) /\ mutex # NULL
        /\ current' = heap[current].next /\ UNCHANGED <<heap, mutex>>
    BY <1>0, <1>5, NullAssumption DEF StepOver, TypeOK, MutexHeld
  <2>2. ASSUME NEW x \in Blocks, CanMerge(x)
        PROVE  heap[current].next # NULL /\ heap[current].next <= x
    <3>1. current < x
      BY <1>0, <2>1, <2>2 DEF CoalescedBehind, TypeOK
    <3>2. End(current) <= x /\ x < End(x) /\ End(x) <= POOL_SIZE
      BY <1>0, <2>1, <3>1 DEF Tiling, TypeOK, End, Headers
    <3>. QED
      BY <1>0, <2>1, <3>2 DEF Tiling, TypeOK, End, Headers
  <2>. QED
    BY <2>1, <2>2 DEF CoalescedBehind, CanMerge, Blocks
<1>6. ASSUME NEW c \in Clients, FreeReturn(c)
      PROVE  CoalescedBehind'
  BY <1>0, <1>6 DEF CoalescedBehind, CanMerge, FreeReturn, Blocks
<1>. QED
  BY <1>1, <1>2, <1>3, <1>4, <1>5, <1>6
  DEF Next, Enter, Loop, vars, AllocCall, FreeCall, AllocFails

-----------------------------------------------------------------------------
(* The theorems. *)

\* The strengthening holds of the empty pool.
LEMMA PoolInit == Init => PoolInv
<1>. SUFFICES ASSUME Init PROVE PoolInv
  OBVIOUS
<1>. USE SizesAssumption, NullAssumption
<1>1. /\ Blocks = {0} /\ heap[0] = FirstBlock /\ DOMAIN live = {}
      /\ heap = [b \in {0} |-> FirstBlock]
  BY DEF Init, Blocks
<1>2. heap[0].size = POOL_SIZE - HEADER /\ heap[0].next = NULL /\ heap[0].is_free
  BY <1>1 DEF FirstBlock
<1>3. TypeOK
  <2>1. heap \in [Blocks -> Headers]
    BY <1>1 DEF Headers, FirstBlock
  <2>2. live \in [DOMAIN live -> Sizes]
    BY <1>1 DEF Init
  <2>. QED
    BY <1>1, <2>1, <2>2 DEF Init, TypeOK
<1>4. Tiling /\ Cover
  BY <1>1, <1>2 DEF Tiling, Cover, End
<1>5. Ownership /\ MutexHeld
  BY <1>1, <1>2 DEF Init, Ownership, MutexHeld
<1>6. CoalescedBehind
  BY <1>1, <1>2 DEF CoalescedBehind, CanMerge
<1>. QED
  BY <1>3, <1>4, <1>5, <1>6 DEF PoolInv

\* PoolInv holds in every reachable state.
THEOREM PoolInvariance == Spec => []PoolInv
<1>1. PoolInv /\ [Next]_vars => PoolInv'
  BY TypeStep, GeometryStep, OwnershipStep, MutexStep, CoalescedStep DEF PoolInv
<1>. QED
  BY <1>1, PoolInit, PTL DEF Spec

\* Every variable of the allocator stays in its type.
THEOREM TypeCorrect == Spec => []TypeOK
<1>. QED
  BY PoolInvariance, PTL DEF PoolInv

\* The list fills the pool without a hole or an overlap.
THEOREM PoolTiled == Spec => []Tiling
<1>. QED
  BY PoolInvariance, PTL DEF PoolInv

\* No two pointers in use share a byte, and none reaches a header.
THEOREM ClientsSeparated == Spec => []NoOverlap
<1>1. ASSUME PoolInv PROVE NoOverlap
  <2>. USE SizesAssumption
  <2>0. TypeOK /\ Tiling /\ Ownership
    BY <1>1 DEF PoolInv
  <2>1. ASSUME NEW p \in DOMAIN live
        PROVE  /\ p \in Nat /\ p - HEADER \in Blocks /\ p - HEADER >= 0
               /\ live[p] \in Nat /\ p + live[p] <= End(p - HEADER)
               /\ End(p - HEADER) \in Nat /\ End(p - HEADER) <= POOL_SIZE
    BY <2>0 DEF TypeOK, Ownership, InUse, Tiling, End, Headers
  <2>2. ASSUME NEW p \in DOMAIN live, NEW b \in Blocks
        PROVE  b + HEADER <= p \/ p + live[p] <= b
    BY <2>0, <2>1 DEF Tiling, TypeOK
  <2>3. ASSUME NEW p \in DOMAIN live, NEW q \in DOMAIN live, p < q
        PROVE  p + live[p] + HEADER <= q
    <3>1. p - HEADER < q - HEADER
      BY <2>1, <2>3
    <3>2. End(p - HEADER) <= q - HEADER
      BY <2>0, <2>1, <3>1 DEF Tiling
    <3>. QED
      BY <2>1, <3>2
  <2>. QED
    BY <2>1, <2>2, <2>3 DEF NoOverlap
<1>. QED
  BY <1>1, PoolInvariance, PTL

\* Free neighbours exist only while a memory_pool_free is still joining them.
THEOREM AlwaysCoalesced == Spec => []Coalesced
<1>1. PoolInv => Coalesced
  BY DEF PoolInv, CoalescedBehind, Coalesced
<1>. QED
  BY <1>1, PoolInvariance, PTL

\* However the pool was used, it is one block again when everything is released.
THEOREM PoolRecovers == Spec => []FullRecovery
<1>1. ASSUME PoolInv PROVE FullRecovery
  <2>. USE SizesAssumption, NullAssumption
  <2>0. TypeOK /\ Tiling /\ Ownership /\ MutexHeld /\ CoalescedBehind
    BY <1>1 DEF PoolInv
  <2>. SUFFICES ASSUME DOMAIN live = {},
                       \A c \in Clients : pc[c] \notin {"free", "merge"}
                PROVE  heap = [b \in {0} |-> FirstBlock]
    BY DEF FullRecovery
  <2>1. \A b \in Blocks : heap[b].is_free /\ ~CanMerge(b)
    BY <2>0 DEF Ownership, MutexHeld, TypeOK, CoalescedBehind, Headers
  <2>2. \A b \in Blocks : heap[b].next = NULL /\ End(b) = POOL_SIZE
    BY <2>0, <2>1 DEF Tiling, CanMerge
  <2>3. Blocks = {0}
    <3>1. ASSUME NEW b \in Blocks, b # 0
          PROVE  FALSE
      <4>1. b \in Nat /\ b < End(b)
        BY <2>0 DEF TypeOK, End, Headers
      <4>2. End(0) <= b
        BY <2>0, <3>1, <4>1 DEF Tiling
      <4>. QED
        BY <2>0, <2>2, <4>1, <4>2 DEF Tiling
    <3>. QED
      BY <2>0, <3>1 DEF Tiling
  <2>4. heap[0] = FirstBlock
    BY <2>0, <2>1, <2>2, <2>3 DEF TypeOK, Headers, FirstBlock, End
  <2>. QED
    BY <2>0, <2>3, <2>4 DEF TypeOK
<1>. QED
  BY <1>1, PoolInvariance, PTL

-----------------------------------------------------------------------------
(* Sums over finite sets, by induction over their parts. *)

\* There is no endless descent in the natural numbers.
LEMMA NatLess == IsWellFoundedOn({ss \in Nat \X Nat : ss[1] < ss[2]}, Nat)
  BY NatLessThanWellFounded DEF OpToRel

\* A set of natural numbers has a least element.
LEMMA Smallest ==
  ASSUME NEW T, T \subseteq Nat, T # {}
  PROVE  \E x \in T : \A y \in T : x <= y
<1>1. PICK x \in T : \A y \in T : ~ (<<y, x>> \in {ss \in Nat \X Nat : ss[1] < ss[2]})
  BY NatLess, WFMin
<1>2. x \in Nat /\ \A y \in T : y \in Nat /\ <<y, x>> \in Nat \X Nat
  OBVIOUS
<1>3. \A y \in T : ~ (y < x)
  BY <1>1, <1>2
<1>. QED
  BY <1>2, <1>3

\* Induction, over a set instead of a predicate.
LEMMA Induction ==
  ASSUME NEW S, 0 \in S, \A n \in Nat : n \in S => n + 1 \in S
  PROVE  Nat \subseteq S
<1>. SUFFICES ASSUME Nat \ S # {}
              PROVE  FALSE
  OBVIOUS
<1>1. PICK x \in Nat \ S : \A y \in Nat \ S : x <= y
  BY Smallest
<1>2. x - 1 \in Nat /\ x - 1 \notin Nat \ S
  BY <1>1
<1>. QED
  BY <1>1, <1>2

One(s) == CHOOSE x \in s : TRUE

\* One more round of adding up, and a function that adds up f over every part of
\* S, one element after the other.
SumStep(g, f, S) ==
  [s \in SUBSET S |-> IF s = {} THEN 0 ELSE f[One(s)] + g[s \ {One(s)}]]

Sums(g, f, S) == g = SumStep(g, f, S)

\* SumFunctionOnSet is the sum over the whole set.
LEMMA TotalDef ==
  ASSUME NEW f, NEW S
  PROVE  SumFunctionOnSet(f, S) = (CHOOSE g : Sums(g, f, S))[S]
  BY DEF SumFunctionOnSet, FoldFunctionOnSet, MapThenFoldSet, Sums, SumStep, One

\* A part of a finite set and the part that one element less makes.
LEMMA Parts ==
  ASSUME NEW S, IsFiniteSet(S), NEW s \in SUBSET S, s # {}
  PROVE  /\ One(s) \in s
         /\ \A x \in s : /\ s \ {x} \in SUBSET S
                         /\ Cardinality(s) \in Nat /\ Cardinality(s \ {x}) \in Nat
                         /\ Cardinality(s \ {x}) = Cardinality(s) - 1
<1>1. One(s) \in s
  BY DEF One
<1>2. IsFiniteSet(s)
  BY FS_Subset
<1>3. ASSUME NEW x \in s
      PROVE  /\ Cardinality(s) \in Nat /\ Cardinality(s \ {x}) \in Nat
             /\ Cardinality(s \ {x}) = Cardinality(s) - 1
  BY <1>2, FS_RemoveElement, FS_CardinalityType
<1>. QED
  BY <1>1, <1>3

\* Induction over the parts of a finite set.
LEMMA PartsInduction ==
  ASSUME NEW S, IsFiniteSet(S), NEW G,
         \A s \in SUBSET S : (\A x \in s : s \ {x} \in G) => s \in G
  PROVE  SUBSET S \subseteq G
<1>. DEFINE N == {n \in Nat : \A s \in SUBSET S : Cardinality(s) <= n => s \in G}
<1>0. \A s \in SUBSET S : IsFiniteSet(s) /\ Cardinality(s) \in Nat
  BY FS_Subset, FS_CardinalityType
<1>1. 0 \in N
  <2>1. ASSUME NEW s \in SUBSET S, Cardinality(s) <= 0
        PROVE  s \in G
    <3>1. s = {}
      BY <1>0, <2>1, FS_EmptySet
    <3>. QED
      BY <3>1
  <2>. QED
    BY <2>1
<1>2. ASSUME NEW n \in Nat, n \in N
      PROVE  n + 1 \in N
  <2>1. ASSUME NEW s \in SUBSET S, Cardinality(s) <= n + 1
        PROVE  s \in G
    <3>1. \A x \in s : s \ {x} \in SUBSET S /\ Cardinality(s \ {x}) <= n
      BY <2>1, <1>0, Parts
    <3>. QED
      BY <1>2, <3>1
  <2>. QED
    BY <2>1
<1>. HIDE DEF N
<1>3. Nat \subseteq N
  BY <1>1, <1>2, Induction
<1>4. ASSUME NEW s \in SUBSET S
      PROVE  s \in G
  <2>1. Cardinality(s) \in Nat /\ Cardinality(s) \in N
    BY <1>0, <1>3
  <2>. QED
    BY <2>1 DEF N
<1>. QED
  BY <1>4

\* The recursion that defines a sum has a solution.
LEMMA SumsExist ==
  ASSUME NEW S, IsFiniteSet(S), NEW f
  PROVE  \E g : Sums(g, f, S)
<1>. DEFINE N == {n \in Nat :
                    \E g : \A s \in SUBSET S : Cardinality(s) <= n => g[s] = SumStep(g, f, S)[s]}
<1>1. \A s \in SUBSET S : IsFiniteSet(s) /\ Cardinality(s) \in Nat
  BY FS_Subset, FS_CardinalityType
<1>2. 0 \in N
  <2>. DEFINE g == [s \in SUBSET S |-> 0]
  <2>1. ASSUME NEW s \in SUBSET S, Cardinality(s) <= 0
        PROVE  g[s] = SumStep(g, f, S)[s]
    <3>1. s = {}
      BY <1>1, <2>1, FS_EmptySet
    <3>. QED
      BY <3>1 DEF SumStep
  <2>. HIDE DEF g
  <2>. QED
    BY <2>1
<1>3. ASSUME NEW n \in Nat, n \in N
      PROVE  n + 1 \in N
  <2>1. PICK g : \A s \in SUBSET S : Cardinality(s) <= n => g[s] = SumStep(g, f, S)[s]
    BY <1>3
  <2>. DEFINE h == SumStep(g, f, S)
  <2>2. ASSUME NEW s \in SUBSET S, Cardinality(s) <= n + 1
        PROVE  h[s] = SumStep(h, f, S)[s]
    <3>1. CASE s = {}
      BY <3>1 DEF SumStep
    <3>2. CASE s # {}
      <4>. DEFINE r == s \ {One(s)}
      <4>1. r \in SUBSET S /\ Cardinality(r) <= n
        BY <1>1, <2>2, <3>2, Parts
      <4>2. g[r] = h[r]
        BY <2>1, <4>1
      <4>. QED
        BY <3>2, <4>2 DEF SumStep
    <3>. QED
      BY <3>1, <3>2
  <2>. HIDE DEF h
  <2>. QED
    BY <2>2
<1>. HIDE DEF N
<1>4. Nat \subseteq N
  BY <1>2, <1>3, Induction
<1>5. Cardinality(S) \in N /\ \A s \in SUBSET S : Cardinality(s) <= Cardinality(S)
  BY <1>4, FS_Subset, FS_CardinalityType
<1>6. PICK g : \A s \in SUBSET S : g[s] = SumStep(g, f, S)[s]
  BY <1>5 DEF N
<1>. DEFINE h == SumStep(g, f, S)
<1>7. \A s \in SUBSET S : s # {} => g[s \ {One(s)}] = h[s \ {One(s)}]
  BY <1>6
<1>8. h = SumStep(h, f, S)
  <2>. HIDE DEF h
  <2>1. h = [s \in SUBSET S |-> IF s = {} THEN 0 ELSE f[One(s)] + g[s \ {One(s)}]]
    BY DEF h, SumStep
  <2>. QED
    BY <1>7, <2>1 DEF SumStep
<1>. HIDE DEF h
<1>. QED
  BY <1>8 DEF Sums

\* Sums of integers are integers.
LEMMA SumsInt ==
  ASSUME NEW S, IsFiniteSet(S), NEW f, \A x \in S : f[x] \in Int, NEW g, Sums(g, f, S)
  PROVE  \A s \in SUBSET S : g[s] \in Int
<1>. DEFINE G == {s \in SUBSET S : g[s] \in Int}
<1>1. \A s \in SUBSET S : g[s] = IF s = {} THEN 0 ELSE f[One(s)] + g[s \ {One(s)}]
  BY DEF Sums, SumStep
<1>2. ASSUME NEW s \in SUBSET S, \A x \in s : s \ {x} \in G
      PROVE  s \in G
  <2>1. CASE s = {}
    <3>1. g[s] = 0
      BY <1>1, <2>1
    <3>. QED
      BY <2>1, <3>1
  <2>2. CASE s # {}
    <3>1. One(s) \in s /\ s \ {One(s)} \in G
      BY <1>2, <2>2 DEF One
    <3>2. f[One(s)] \in Int /\ g[s \ {One(s)}] \in Int
      BY <3>1
    <3>3. g[s] = f[One(s)] + g[s \ {One(s)}]
      BY <1>1, <2>2
    <3>. QED
      BY <3>2, <3>3
  <2>. QED
    BY <2>1, <2>2
<1>. HIDE DEF G
<1>3. SUBSET S \subseteq G
  BY <1>2, PartsInduction
<1>. QED
  BY <1>3 DEF G

\* A sum does not depend on the order.
LEMMA SumsTakeOut ==
  ASSUME NEW S, IsFiniteSet(S), NEW f, \A x \in S : f[x] \in Int, NEW g, Sums(g, f, S)
  PROVE  \A s \in SUBSET S : g[s] \in Int /\ \A x \in s : g[s] = f[x] + g[s \ {x}]
<1>. DEFINE G == {s \in SUBSET S : g[s] \in Int /\ \A x \in s : g[s] = f[x] + g[s \ {x}]}
<1>1. \A s \in SUBSET S : g[s] = IF s = {} THEN 0 ELSE f[One(s)] + g[s \ {One(s)}]
  BY DEF Sums, SumStep
<1>2. ASSUME NEW s \in SUBSET S, \A x \in s : s \ {x} \in G
      PROVE  s \in G
  <2>1. CASE s = {}
    <3>1. g[s] = 0
      BY <1>1, <2>1
    <3>. QED
      BY <2>1, <3>1
  <2>2. CASE s # {}
    <3>. DEFINE y == One(s)
    <3>1. y \in s
      BY <2>2 DEF One
    <3>2. g[s] = f[y] + g[s \ {y}]
      BY <1>1, <2>2
    <3>. HIDE DEF y
    <3>3. ASSUME NEW x \in s
          PROVE  g[s] = f[x] + g[s \ {x}]
      <4>1. CASE x = y
        BY <3>2, <4>1
      <4>2. CASE x # y
        <5>. DEFINE r == (s \ {x}) \ {y}
        <5>1. r = (s \ {y}) \ {x} /\ x \in s \ {y} /\ y \in s \ {x}
          BY <3>1, <4>2
        <5>2. g[s \ {y}] = f[x] + g[r]
          BY <1>2, <3>1, <5>1
        <5>3. g[s \ {x}] = f[y] + g[r]
          BY <1>2, <5>1
        <5>4. f[x] \in Int /\ f[y] \in Int /\ g[r] \in Int
          <6>1. r \in SUBSET S
            OBVIOUS
          <6>. QED
            BY <6>1, <3>1, SumsInt
        <5>. QED
          BY <3>2, <5>2, <5>3, <5>4
      <4>. QED
        BY <4>1, <4>2
    <3>4. g[s] \in Int
      BY SumsInt
    <3>. QED
      BY <3>3, <3>4
  <2>. QED
    BY <2>1, <2>2
<1>. HIDE DEF G
<1>3. SUBSET S \subseteq G
  BY <1>2, PartsInduction
<1>. QED
  BY <1>3 DEF G
\* The sum over a finite set is what the recursion gives.
LEMMA TotalSums ==
  ASSUME NEW S, IsFiniteSet(S), NEW f
  PROVE  \E g : Sums(g, f, S) /\ SumFunctionOnSet(f, S) = g[S]
  BY SumsExist, TotalDef

\* Sums of functions that agree agree, whatever sets they are defined on.
LEMMA SumsAgree ==
  ASSUME NEW S, IsFiniteSet(S), NEW f, NEW g, Sums(g, f, S),
         NEW T, NEW e, NEW h, Sums(h, e, T),
         S \subseteq T, \A x \in S : e[x] = f[x]
  PROVE  g[S] = h[S]
<1>. DEFINE G == {s \in SUBSET S : g[s] = h[s]}
<1>1. \A s \in SUBSET S : /\ g[s] = IF s = {} THEN 0 ELSE f[One(s)] + g[s \ {One(s)}]
                          /\ h[s] = IF s = {} THEN 0 ELSE e[One(s)] + h[s \ {One(s)}]
  BY DEF Sums, SumStep
<1>2. ASSUME NEW s \in SUBSET S, \A x \in s : s \ {x} \in G
      PROVE  s \in G
  <2>1. CASE s = {}
    <3>1. g[s] = 0 /\ h[s] = 0
      BY <1>1, <2>1
    <3>. QED
      BY <3>1
  <2>2. CASE s # {}
    <3>1. One(s) \in s /\ g[s \ {One(s)}] = h[s \ {One(s)}] /\ e[One(s)] = f[One(s)]
      BY <1>2, <2>2 DEF One
    <3>2. g[s] = f[One(s)] + g[s \ {One(s)}] /\ h[s] = e[One(s)] + h[s \ {One(s)}]
      BY <1>1, <2>2
    <3>3. g[s] = h[s]
      BY <3>1, <3>2
    <3>. QED
      BY <3>3
  <2>. QED
    BY <2>1, <2>2
<1>. HIDE DEF G
<1>3. SUBSET S \subseteq G
  BY <1>2, PartsInduction
<1>. QED
  BY <1>3 DEF G

\* Functions that agree on a set have the same sum over it.
LEMMA TotalAgree ==
  ASSUME NEW S, IsFiniteSet(S), NEW f, NEW e, \A x \in S : e[x] = f[x]
  PROVE  SumFunctionOnSet(e, S) = SumFunctionOnSet(f, S)
<1>1. PICK g : Sums(g, f, S) /\ SumFunctionOnSet(f, S) = g[S]
  BY TotalSums
<1>2. PICK h : Sums(h, e, S) /\ SumFunctionOnSet(e, S) = h[S]
  BY TotalSums
<1>. QED
  BY <1>1, <1>2, SumsAgree

\* The sum over nothing.
LEMMA TotalEmpty ==
  ASSUME NEW f
  PROVE  SumFunctionOnSet(f, {}) = 0
<1>1. PICK g : Sums(g, f, {}) /\ SumFunctionOnSet(f, {}) = g[{}]
  BY TotalSums, FS_EmptySet
<1>. QED
  BY <1>1 DEF Sums, SumStep

\* The sum of integers.
LEMMA TotalInt ==
  ASSUME NEW S, IsFiniteSet(S), NEW f, \A x \in S : f[x] \in Int
  PROVE  SumFunctionOnSet(f, S) \in Int
<1>1. PICK g : Sums(g, f, S) /\ SumFunctionOnSet(f, S) = g[S]
  BY TotalSums
<1>. QED
  BY <1>1, SumsInt

\* Any element can be taken out of a sum.
LEMMA TotalTakeOut ==
  ASSUME NEW S, IsFiniteSet(S), NEW f, \A y \in S : f[y] \in Int, NEW x \in S
  PROVE  SumFunctionOnSet(f, S) = f[x] + SumFunctionOnSet(f, S \ {x})
<1>1. PICK g : Sums(g, f, S) /\ SumFunctionOnSet(f, S) = g[S]
  BY TotalSums
<1>2. g[S] = f[x] + g[S \ {x}]
  <2>1. \A s \in SUBSET S : g[s] \in Int /\ \A y \in s : g[s] = f[y] + g[s \ {y}]
    <3>1. Sums(g, f, S)
      BY <1>1
    <3>. QED
      BY <3>1, SumsTakeOut
  <2>2. S \in SUBSET S
    OBVIOUS
  <2>. QED
    BY <2>1, <2>2
<1>3. IsFiniteSet(S \ {x})
  BY FS_RemoveElement
<1>4. PICK h : Sums(h, f, S \ {x}) /\ SumFunctionOnSet(f, S \ {x}) = h[S \ {x}]
  BY <1>3, TotalSums
<1>5. h[S \ {x}] = g[S \ {x}]
  BY <1>1, <1>3, <1>4, SumsAgree
<1>. QED
  BY <1>1, <1>2, <1>4, <1>5

-----------------------------------------------------------------------------
(* What used_size counts. *)

\* A sum of sizes is a number.
LEMMA BytesType ==
  ASSUME TypeOK
  PROVE  /\ IsFiniteSet(Blocks) /\ IsFiniteSet(Taken)
         /\ \A b \in Blocks : Bytes[b] \in Nat /\ End(b) = b + Bytes[b] /\ b \in Nat
<1>1. IsFiniteSet(0..POOL_SIZE) /\ Blocks \in SUBSET (0..POOL_SIZE)
  <2>1. POOL_SIZE \in Int /\ 0 \in Int
    BY SizesAssumption
  <2>2. IsFiniteSet(0..POOL_SIZE)
    BY <2>1, FS_Interval
  <2>. QED
    BY <2>2 DEF TypeOK
<1>2. IsFiniteSet(Blocks)
  BY <1>1, FS_Subset
<1>3. Taken \in SUBSET Blocks
  BY DEF Taken
<1>4. IsFiniteSet(Taken)
  BY <1>2, <1>3, FS_Subset
<1>5. ASSUME NEW b \in Blocks
      PROVE  Bytes[b] \in Nat /\ End(b) = b + Bytes[b] /\ b \in Nat
  <2>1. heap[b].size \in Nat /\ b \in Nat /\ HEADER \in Nat
    BY SizesAssumption DEF TypeOK, Headers
  <2>. QED
    BY <2>1 DEF Bytes, End
<1>. QED
  BY <1>2, <1>4, <1>5

\* Blocks that end at m or before do not take more than m bytes.
LEMMA BytesBounded ==
  ASSUME TypeOK, Tiling, NEW m \in Nat,
         NEW T \in SUBSET Blocks, \A b \in T : End(b) <= m
  PROVE  SumFunctionOnSet(Bytes, T) <= m
<1>. DEFINE Fits(k) == \A U \in SUBSET Blocks :
                         (\A b \in U : End(b) <= k) => SumFunctionOnSet(Bytes, U) <= k
            N == {n \in Nat : \A k \in 0..n : Fits(k)}
<1>0. \A U \in SUBSET Blocks : /\ IsFiniteSet(U) /\ \A b \in U : Bytes[b] \in Int
                               /\ SumFunctionOnSet(Bytes, U) \in Int
  BY BytesType, FS_Subset, TotalInt
<1>1. \A b \in Blocks : b \in Nat /\ End(b) \in Nat /\ b < End(b) /\ End(b) = b + Bytes[b]
  <2>1. ASSUME NEW b \in Blocks
        PROVE  b \in Nat /\ End(b) \in Nat /\ b < End(b)
    BY SizesAssumption DEF TypeOK, Headers, End
  <2>. QED
    BY <2>1, BytesType
<1>2. ASSUME NEW k \in Nat, \A j \in Nat : j < k => Fits(j)
      PROVE  Fits(k)
  <2>. SUFFICES ASSUME NEW U \in SUBSET Blocks, \A b \in U : End(b) <= k
                PROVE  SumFunctionOnSet(Bytes, U) <= k
    OBVIOUS
  <2>1. CASE U = {}
    BY <2>1, TotalEmpty
  <2>2. CASE U # {} /\ \E b \in U : End(b) = k
    <3>1. PICK b \in U : End(b) = k
      BY <2>2
    <3>2. b \in Blocks /\ b \in Nat /\ b < k
      BY <1>1, <3>1
    <3>3. ASSUME NEW x \in U \ {b}
          PROVE  End(x) <= b
      <4>1. x \in Blocks /\ x \in Nat /\ x # b /\ End(x) \in Nat /\ x < End(x) /\ End(x) <= k
        BY <1>1, <3>3
      <4>2. ~(b < x)
        BY <3>1, <3>2, <4>1 DEF Tiling
      <4>. QED
        BY <3>2, <4>1, <4>2 DEF Tiling
    <3>4. Fits(b)
      BY <1>2, <3>2
    <3>5. SumFunctionOnSet(Bytes, U \ {b}) <= b
      BY <3>3, <3>4
    <3>6. SumFunctionOnSet(Bytes, U) = Bytes[b] + SumFunctionOnSet(Bytes, U \ {b})
      BY <1>0, <3>1, TotalTakeOut
    <3>7. Bytes[b] \in Int /\ k = b + Bytes[b] /\ SumFunctionOnSet(Bytes, U \ {b}) \in Int
      BY <1>0, <1>1, <3>1, <3>2, BytesType
    <3>. QED
      BY <3>2, <3>5, <3>6, <3>7
  <2>3. CASE U # {} /\ \A b \in U : End(b) # k
    <3>1. \A b \in U : End(b) <= k - 1 /\ End(b) \in Nat
      BY <1>1, <2>3
    <3>2. k - 1 \in Nat
      BY <2>3, <3>1
    <3>3. SumFunctionOnSet(Bytes, U) <= k - 1
      BY <1>2, <3>1, <3>2
    <3>. QED
      BY <1>0, <3>3
  <2>. QED
    BY <2>1, <2>2, <2>3
<1>. HIDE DEF Fits
<1>3. 0 \in N
  BY <1>2
<1>4. ASSUME NEW n \in Nat, n \in N
      PROVE  n + 1 \in N
  <2>1. Fits(n + 1)
    BY <1>2, <1>4
  <2>. QED
    BY <1>4, <2>1
<1>5. Nat \subseteq N
  <2>. HIDE DEF N
  <2>. QED
    BY <1>3, <1>4, Induction
<1>. QED
  BY <1>5 DEF Fits

\* No set of blocks takes more than the pool.
LEMMA BytesInPool ==
  ASSUME TypeOK, Tiling, NEW T \in SUBSET Blocks
  PROVE  SumFunctionOnSet(Bytes, T) <= POOL_SIZE
<1>1. POOL_SIZE \in Nat /\ \A b \in T : End(b) <= POOL_SIZE
  BY SizesAssumption DEF Tiling
<1>. QED
  BY <1>1, BytesBounded

\* The two facts about the list after a step.
LEMMA BytesNext ==
  /\ TypeOK' => IsFiniteSet(Taken') /\ \A b \in Blocks' : Bytes'[b] \in Nat
  /\ TypeOK' /\ Tiling' => SumFunctionOnSet(Bytes', Taken') <= POOL_SIZE
<1>1. TypeOK => IsFiniteSet(Taken) /\ \A b \in Blocks : Bytes[b] \in Nat
  BY BytesType
<1>2. TypeOK /\ Tiling => SumFunctionOnSet(Bytes, Taken) <= POOL_SIZE
  <2>1. Taken \in SUBSET Blocks
    BY DEF Taken
  <2>. QED
    BY <2>1, BytesInPool
<1>3. (TypeOK => IsFiniteSet(Taken) /\ \A b \in Blocks : Bytes[b] \in Nat)'
  BY <1>1, PTL
<1>4. (TypeOK /\ Tiling => SumFunctionOnSet(Bytes, Taken) <= POOL_SIZE)'
  BY <1>2, PTL
<1>. QED
  BY <1>3, <1>4

\* Every step keeps the account, because it changes at most one block in use.
LEMMA AccountingStep ==
  ASSUME PoolInv, PoolInv', Accounting, [Next]_vars
  PROVE  Accounting'
<1>0. TypeOK /\ Tiling /\ TypeOK' /\ Tiling' /\ Ownership /\ MutexHeld
  BY DEF PoolInv
<1>1. /\ IsFiniteSet(Taken) /\ IsFiniteSet(Taken')
      /\ \A b \in Blocks : Bytes[b] \in Nat
      /\ \A b \in Blocks' : Bytes'[b] \in Nat
  BY <1>0, BytesType, BytesNext
<1>. DEFINE Sum == SumFunctionOnSet(Bytes, Taken)
            Sum1 == SumFunctionOnSet(Bytes', Taken')
<1>2. Sum' = Sum1
  OBVIOUS
<1>3. used_size = Sum /\ used_size \in Int /\ peak_use \in Nat /\ used_size <= peak_use
      /\ peak_use <= POOL_SIZE /\ POOL_SIZE \in Nat
  BY <1>0, SizesAssumption DEF Accounting, TypeOK
<1>4. ASSUME UNCHANGED <<heap, used_size, peak_use>>
      PROVE  Accounting'
  <2>1. Taken' = Taken /\ Bytes' = Bytes
    BY <1>4 DEF Taken, Bytes, Blocks
  <2>. QED
    BY <1>2, <1>3, <1>4, <2>1 DEF Accounting
<1>5. ASSUME NEW c \in Clients, Alloc(c)
      PROVE  Accounting'
  <2>1. PICK b \in Blocks :
          /\ heap[b].is_free /\ b \in Blocks' /\ ~heap'[b].is_free
          /\ used_size' = used_size + heap'[b].size + HEADER
          /\ \A x \in Blocks \ {b} : x \in Blocks' /\ heap'[x] = heap[x]
          /\ \A x \in Blocks' \ Blocks : heap'[x].is_free
    BY <1>5, AllocShape
  <2>2. Taken' = Taken \cup {b} /\ b \notin Taken
    <3>1. Taken' = {x \in Blocks' : ~heap'[x].is_free}
      BY DEF Taken
    <3>. QED
      BY <2>1, <3>1 DEF Taken
  <2>3. \A x \in Taken : Bytes'[x] = Bytes[x]
    <3>1. Bytes' = [x \in Blocks' |-> heap'[x].size + HEADER]
      BY DEF Bytes
    <3>. QED
      BY <2>1, <3>1 DEF Taken, Bytes
  <2>4. Bytes'[b] = heap'[b].size + HEADER /\ Bytes'[b] \in Nat
    <3>1. Bytes' = [x \in Blocks' |-> heap'[x].size + HEADER]
      BY DEF Bytes
    <3>. QED
      BY <1>1, <2>1, <3>1
  <2>5. Sum1 = Bytes'[b] + SumFunctionOnSet(Bytes', Taken)
    <3>1. \A x \in Taken' : Bytes'[x] \in Int
      BY <1>1 DEF Taken
    <3>2. b \in Taken' /\ Taken' \ {b} = Taken
      BY <2>2
    <3>. QED
      BY <1>1, <3>1, <3>2, TotalTakeOut
  <2>6. SumFunctionOnSet(Bytes', Taken) = Sum
    BY <1>1, <2>3, TotalAgree
  <2>7. heap'[b].size \in Nat /\ HEADER \in Nat
    BY <1>0, <2>1, SizesAssumption DEF TypeOK, Headers
  <2>. HIDE DEF Sum, Sum1
  <2>8. used_size' = Sum1 /\ used_size' \in Int
    BY <1>3, <2>1, <2>4, <2>5, <2>6, <2>7
  <2>9. used_size' <= POOL_SIZE
    <3>1. SumFunctionOnSet(Bytes', Taken') <= POOL_SIZE
      BY <1>0, BytesNext
    <3>. QED
      BY <2>8, <3>1 DEF Sum1
  <2>10. peak_use' = IF used_size' > peak_use THEN used_size' ELSE peak_use
    BY <1>5 DEF Alloc
  <2>. QED
    BY <1>2, <1>3, <2>8, <2>9, <2>10 DEF Accounting, Sum, Sum1
<1>6. ASSUME NEW c \in Clients, Free(c)
      PROVE  Accounting'
  <2>. DEFINE b == arg[c] - HEADER
  <2>1. b \in Blocks /\ ~heap[b].is_free
    BY <1>0, <1>6 DEF Free, Ownership, InUse
  <2>2. /\ Blocks' = Blocks
        /\ \A x \in Blocks : /\ heap'[x].size = heap[x].size
                            /\ heap'[x].is_free = IF x = b THEN TRUE ELSE heap[x].is_free
    BY <1>0, <1>6, <2>1, MarkShape DEF Free
  <2>3. used_size' = used_size - (heap[b].size + HEADER) /\ peak_use' = peak_use
    BY <1>6 DEF Free
  <2>. HIDE DEF b
  <2>4. Taken' = Taken \ {b} /\ b \in Taken
    <3>1. Taken' = {x \in Blocks' : ~heap'[x].is_free}
      BY DEF Taken
    <3>. QED
      BY <2>1, <2>2, <3>1 DEF Taken
  <2>5. Bytes' = Bytes
    <3>1. Bytes' = [x \in Blocks' |-> heap'[x].size + HEADER]
      BY DEF Bytes
    <3>. QED
      BY <2>2, <3>1 DEF Bytes
  <2>6. Bytes[b] = heap[b].size + HEADER /\ Bytes[b] \in Nat
    BY <1>1, <2>1 DEF Bytes
  <2>7. Sum = Bytes[b] + Sum1 /\ Sum1 \in Int
    <3>1. \A x \in Taken : Bytes[x] \in Int
      BY <1>1 DEF Taken
    <3>2. SumFunctionOnSet(Bytes, Taken) = Bytes[b] + SumFunctionOnSet(Bytes, Taken \ {b})
      BY <1>1, <2>4, <3>1, TotalTakeOut
    <3>3. SumFunctionOnSet(Bytes, Taken') \in Int
      BY <1>1, <2>4, <3>1, TotalInt
    <3>. QED
      BY <2>4, <2>5, <3>2, <3>3
  <2>. HIDE DEF Sum, Sum1
  <2>8. used_size' = Sum1 /\ used_size' <= peak_use
    BY <1>3, <2>3, <2>6, <2>7
  <2>. QED
    BY <1>2, <1>3, <2>3, <2>8 DEF Accounting, Sum, Sum1
<1>7. ASSUME NEW c \in Clients, Merge(c)
      PROVE  Accounting'
  <2>. DEFINE n == heap[current].next
  <2>1. current \in Blocks /\ CanMerge(current) /\ heap' = Joined(current)
        /\ UNCHANGED <<used_size, peak_use>>
    BY <1>0, <1>7, NullAssumption DEF Merge, TypeOK
  <2>2. /\ n \in Blocks /\ Blocks' = Blocks \ {n} /\ heap'[current].is_free
        /\ \A x \in Blocks \ {current, n} : heap'[x] = heap[x] /\ End(x)' = End(x)
    BY <1>0, <2>1, JoinShape
  <2>3. heap[current].is_free /\ heap[n].is_free
    BY <2>1 DEF CanMerge
  <2>. HIDE DEF n
  <2>4. Taken' = Taken
    <3>1. Taken' = {x \in Blocks' : ~heap'[x].is_free}
      BY DEF Taken
    <3>. QED
      BY <2>2, <2>3, <3>1 DEF Taken
  <2>5. \A x \in Taken : Bytes'[x] = Bytes[x]
    <3>1. Bytes' = [x \in Blocks' |-> heap'[x].size + HEADER]
      BY DEF Bytes
    <3>. QED
      BY <2>2, <2>3, <3>1 DEF Taken, Bytes
  <2>6. Sum1 = Sum
    BY <1>1, <2>4, <2>5, TotalAgree
  <2>. QED
    BY <1>2, <1>3, <2>1, <2>6 DEF Accounting
<1>8. CASE UNCHANGED vars
  BY <1>4, <1>8 DEF vars
<1>9. CASE Next
  <2>1. \A c \in Clients : (\E n \in Sizes : AllocCall(c, n)) => UNCHANGED <<heap, used_size, peak_use>>
    BY DEF AllocCall
  <2>2. \A c \in Clients : (\E p \in DOMAIN live : FreeCall(c, p)) => UNCHANGED <<heap, used_size, peak_use>>
    BY DEF FreeCall
  <2>3. \A c \in Clients : AllocFails(c) \/ StepOver(c) \/ FreeReturn(c)
                             => UNCHANGED <<heap, used_size, peak_use>>
    BY DEF AllocFails, StepOver, FreeReturn
  <2>. HIDE DEF Sum, Sum1
  <2>. QED
    BY <1>4, <1>5, <1>6, <1>7, <1>9, <2>1, <2>2, <2>3 DEF Next, Enter, Loop
<1>. QED
  BY <1>8, <1>9

\* used_size is the sum of the blocks in use and their headers in every state of
\* every pool, never above peak_use, and peak_use never above the pool's size.
THEOREM UsageAccounted == Spec => []Accounting
<1>1. Init => Accounting
  <2>1. ASSUME Init
        PROVE  Accounting
    <3>1. Taken = {}
      BY <2>1 DEF Init, Taken, Blocks, FirstBlock
    <3>2. SumFunctionOnSet(Bytes, {}) = 0
      BY TotalEmpty
    <3>. QED
      BY <2>1, <3>1, <3>2, SizesAssumption DEF Init, Accounting
  <2>. QED
    BY <2>1
<1>. QED
  BY <1>1, AccountingStep, PoolInvariance, PTL DEF Spec

-----------------------------------------------------------------------------
(* The pool implements its contract. *)

Want == [c \in Clients |-> IF pc[c] = "alloc" THEN arg[c] ELSE NULL]
Held == {<<b, End(b)>> : b \in {x \in Blocks : ~heap[x].is_free}}

\* A stretch of the pool that no block in use touches lies within one free block,
\* because free neighbours have been joined.
LEMMA GapInBlock ==
  ASSUME PoolInv, mutex = NULL,
         NEW lo \in Nat, NEW hi \in Nat, lo < hi, hi <= POOL_SIZE,
         \A b \in Blocks : ~heap[b].is_free => hi <= b \/ End(b) <= lo
  PROVE  \E b \in Blocks : heap[b].is_free /\ b <= lo /\ hi <= End(b)
<1>. USE SizesAssumption
<1>0. TypeOK /\ Tiling /\ Cover /\ CoalescedBehind
  BY DEF PoolInv
<1>1. \A b \in Blocks : b \in Nat /\ End(b) \in Nat /\ b < End(b)
  BY <1>0 DEF TypeOK, End, Headers
<1>2. PICK b \in Blocks : b <= lo /\ lo < End(b)
  BY <1>0 DEF Cover
<1>3. heap[b].is_free
  BY <1>1, <1>2
<1>4. ASSUME End(b) < hi
      PROVE  FALSE
  <2>1. heap[b].next = End(b) /\ End(b) \in Blocks /\ End(b) # NULL
    BY <1>0, <1>1, <1>4, NullAssumption DEF Tiling
  <2>2. heap[End(b)].is_free
    BY <1>1, <1>2, <1>4, <2>1
  <2>3. CanMerge(b)
    BY <1>3, <2>1, <2>2 DEF CanMerge
  <2>. QED
    BY <1>0, <2>3 DEF CoalescedBehind
<1>. QED
  BY <1>1, <1>2, <1>3, <1>4

\* A size is a number, and NULL is none.
LEMMA SizesNotNull == \A n \in Sizes : n # NULL
<1>1. \A n \in Sizes : n \in Int
  BY SizesAssumption
<1>2. NULL \notin Int
  BY NullAssumption
<1>. QED
  BY <1>1, <1>2

\* Every step of the pool is a step of the contract, or changes nothing of it.
LEMMA ContractStep ==
  ASSUME PoolInv, PoolInv', [Next]_vars
  PROVE  [Contract!ContractNext]_(Contract!poolVars)
<1>. USE SizesAssumption, NullAssumption
<1>0. TypeOK /\ Tiling /\ Ownership /\ MutexHeld /\ TypeOK' /\ Tiling'
  BY DEF PoolInv
<1>1. SUFFICES Contract!ContractNext \/ UNCHANGED <<Want, Held>>
  BY DEF Contract!poolVars, Want, Held
<1>2. \A n \in Sizes : Contract!Need(n) = Aligned(n) + HEADER
  BY DEF Contract!Need, Aligned
<1>3. ASSUME NEW c \in Clients, NEW n \in Sizes, AllocCall(c, n)
      PROVE  Contract!Ask(c, n)
  <2>1. Want[c] = NULL /\ Want' = [Want EXCEPT ![c] = n]
    BY <1>0, <1>3 DEF Want, AllocCall, TypeOK
  <2>2. Held' = Held
    BY <1>3 DEF Held, AllocCall, Blocks, End
  <2>. QED
    BY <2>1, <2>2 DEF Contract!Ask, Want, Held
<1>4. ASSUME NEW c \in Clients, NEW p \in DOMAIN live, FreeCall(c, p)
      PROVE  UNCHANGED <<Want, Held>>
  <2>1. Want' = Want
    BY <1>0, <1>4 DEF Want, FreeCall, TypeOK
  <2>. QED
    BY <1>4, <2>1 DEF Held, FreeCall, Blocks, End
<1>5. ASSUME NEW c \in Clients, AllocFails(c)
      PROVE  Contract!Refuse(c)
  <2>. DEFINE need == Aligned(arg[c]) + HEADER
  <2>1. /\ arg[c] \in Sizes /\ need \in Nat /\ need > HEADER
        /\ Want[c] = arg[c] /\ Contract!Need(Want[c]) = need
    <3>1. arg[c] \in Sizes /\ Want[c] = arg[c]
      BY <1>0, <1>5 DEF MutexHeld, AllocFails, Want
    <3>2. Aligned(arg[c]) \in Nat /\ 8 <= Aligned(arg[c])
      BY <3>1, AlignedBounds
    <3>3. Contract!Need(Want[c]) = need
      BY <1>2, <3>1
    <3>4. need \in Nat /\ need > HEADER
      BY <3>2
    <3>. QED
      BY <3>1, <3>3, <3>4
  <2>2. Want' = [Want EXCEPT ![c] = NULL] /\ Held' = Held
    <3>1. Want' = [Want EXCEPT ![c] = NULL]
      BY <1>0, <1>5 DEF Want, AllocFails, Return, TypeOK
    <3>. QED
      BY <1>5, <3>1 DEF Held, AllocFails, Blocks, End
  <2>3. ASSUME NEW lo \in 0..(POOL_SIZE - need),
               \A r \in Held : lo + need <= r[1] \/ r[2] <= lo
        PROVE  FALSE
    <3>1. \A b \in Blocks : ~heap[b].is_free => lo + need <= b \/ End(b) <= lo
      <4>1. \A b \in Blocks : ~heap[b].is_free => <<b, End(b)>> \in Held
        BY DEF Held
      <4>. QED
        BY <2>3, <4>1
    <3>2. lo \in Nat /\ lo + need \in Nat /\ lo < lo + need /\ lo + need <= POOL_SIZE
      BY <2>1
    <3>3. mutex = NULL
      BY <1>5 DEF AllocFails
    <3>. HIDE DEF need
    <3>4. PICK b \in Blocks : heap[b].is_free /\ b <= lo /\ lo + need <= End(b)
      BY <3>1, <3>2, <3>3, GapInBlock
    <3>5. heap[b].size >= Aligned(arg[c])
      BY <1>0, <2>1, <3>2, <3>4, AlignedBounds DEF End, TypeOK, Headers, need
    <3>. QED
      BY <1>5, <3>4, <3>5 DEF AllocFails, Candidates
  <2>4. \A lo \in 0..(POOL_SIZE - need) : ~Contract!IsGap(lo, lo + need)
    BY <2>3 DEF Contract!IsGap, Held
  <2>5. Want[c] # NULL
    <3>1. arg[c] # NULL
      BY <2>1, SizesNotNull
    <3>. QED
      BY <2>1, <3>1
  <2>. QED
    BY <2>1, <2>2, <2>4, <2>5 DEF Contract!Refuse, Want, Held
<1>6. ASSUME NEW c \in Clients, Alloc(c)
      PROVE  Contract!Grant(c)
  <2>. DEFINE need == Aligned(arg[c]) + HEADER
  <2>1. arg[c] \in Sizes /\ Want[c] = arg[c] /\ Want[c] # NULL
    <3>1. arg[c] \in Sizes /\ Want[c] = arg[c]
      BY <1>0, <1>6 DEF MutexHeld, Alloc, Want
    <3>2. arg[c] # NULL
      BY <3>1, SizesNotNull
    <3>. QED
      BY <3>1, <3>2
  <2>2. Contract!Need(Want[c]) = need /\ need \in Nat
    <3>1. Aligned(arg[c]) \in Nat
      BY <2>1, AlignedBounds
    <3>2. Contract!Need(Want[c]) = need
      BY <1>2, <2>1
    <3>. QED
      BY <3>1, <3>2
  <2>. HIDE DEF need
  <2>3. Want' = [Want EXCEPT ![c] = NULL]
    BY <1>0, <1>6 DEF Want, Alloc, Return, TypeOK
  <2>4. PICK b \in Blocks :
          /\ heap[b].is_free /\ b \in Blocks' /\ ~heap'[b].is_free
          /\ Aligned(arg[c]) <= heap'[b].size
          /\ heap'[b].size < Aligned(arg[c]) + HEADER + 8
          /\ \A x \in Blocks \ {b} : x \in Blocks' /\ heap'[x] = heap[x]
          /\ \A x \in Blocks' \ Blocks : heap'[x].is_free
    BY <1>6, AllocShape, ZenonT(30)
  <2>. DEFINE end == b + HEADER + heap'[b].size
  <2>5. /\ b \in 0..POOL_SIZE /\ end \in 0..POOL_SIZE
        /\ need <= end - b /\ end - b < need + HEADER + 8
    <3>1. b \in Nat /\ heap'[b].size \in Nat /\ end <= POOL_SIZE /\ b <= POOL_SIZE
      BY <1>0, <2>4 DEF TypeOK, Headers, Tiling, End
    <3>2. Aligned(arg[c]) \in Nat
      BY <2>1, AlignedBounds
    <3>. QED
      BY <2>4, <3>1, <3>2 DEF need
  <2>6. \A x \in Blocks : ~heap[x].is_free => end <= x \/ End(x) <= b
    <3>1. ASSUME NEW x \in Blocks, ~heap[x].is_free
          PROVE  end <= x \/ End(x) <= b
      <4>1. x # b /\ x \in Blocks' /\ x \in Nat /\ b \in Nat
        BY <1>0, <2>4, <3>1 DEF TypeOK
      <4>2. CASE x < b
        BY <1>0, <4>2 DEF Tiling
      <4>3. CASE b < x
        BY <1>0, <2>4, <4>1, <4>3 DEF Tiling, End
      <4>. QED
        BY <4>1, <4>2, <4>3
    <3>. QED
      BY <3>1
  <2>7. Contract!IsGap(b, end)
    <3>1. \A r \in Held : \E x \in Blocks : ~heap[x].is_free /\ r = <<x, End(x)>>
      BY DEF Held
    <3>2. \A r \in Held : end <= r[1] \/ r[2] <= b
      BY <2>6, <3>1
    <3>. QED
      BY <3>2 DEF Contract!IsGap, Held
  <2>8. Held' = Held \cup {<<b, end>>}
    <3>1. \A x \in Blocks' : ~heap'[x].is_free <=> x = b \/ (x \in Blocks /\ ~heap[x].is_free)
      BY <2>4
    <3>2. \A x \in Blocks : ~heap[x].is_free => x \in Blocks' /\ End(x)' = End(x) /\ x # b
      BY <2>4 DEF End
    <3>3. End(b)' = end
      BY DEF End
    <3>4. Held' = {<<x, End(x)'>> : x \in {y \in Blocks' : ~heap'[y].is_free}}
      BY DEF Held
    <3>. HIDE DEF end
    <3>. QED
      BY <2>4, <3>1, <3>2, <3>3, <3>4 DEF Held
  <2>. HIDE DEF end
  <2>9. \E lo, hi \in 0..POOL_SIZE :
          /\ Contract!Need(Want[c]) <= hi - lo
          /\ hi - lo < Contract!Need(Want[c]) + HEADER + 8
          /\ Contract!IsGap(lo, hi)
          /\ Held' = Held \cup {<<lo, hi>>}
    BY <2>2, <2>5, <2>7, <2>8
  <2>. QED
    BY <2>1, <2>3, <2>9 DEF Contract!Grant, Want, Held
<1>7. ASSUME NEW c \in Clients, Free(c)
      PROVE  Contract!Release
  <2>. DEFINE b == arg[c] - HEADER
  <2>1. b \in Blocks /\ ~heap[b].is_free
    BY <1>0, <1>7 DEF Free, Ownership, InUse
  <2>2. /\ Blocks' = Blocks
        /\ \A x \in Blocks : /\ End(x)' = End(x)
                            /\ heap'[x].is_free = IF x = b THEN TRUE ELSE heap[x].is_free
    BY <1>0, <1>7, <2>1, MarkShape DEF Free
  <2>. HIDE DEF b
  <2>3. <<b, End(b)>> \in Held
    BY <2>1 DEF Held
  <2>4. Held' = {<<x, End(x)'>> : x \in {y \in Blocks' : ~heap'[y].is_free}}
    BY DEF Held
  <2>5. Held' = Held \ {<<b, End(b)>>}
    <3>1. Held' = {<<x, End(x)>> : x \in {y \in Blocks : ~heap[y].is_free /\ y # b}}
      BY <2>2, <2>4
    <3>2. \A x \in Blocks : x # b => <<x, End(x)>> # <<b, End(b)>>
      OBVIOUS
    <3>. QED
      BY <3>1, <3>2 DEF Held
  <2>6. Want' = Want
    BY <1>0, <1>7 DEF Want, Free, TypeOK
  <2>. QED
    BY <2>3, <2>5, <2>6 DEF Contract!Release, Want, Held
<1>8. ASSUME NEW c \in Clients, Merge(c)
      PROVE  UNCHANGED <<Want, Held>>
  <2>. DEFINE n == heap[current].next
  <2>1. current \in Blocks /\ CanMerge(current) /\ heap' = Joined(current)
    BY <1>0, <1>8 DEF Merge, TypeOK
  <2>2. /\ n \in Blocks /\ Blocks' = Blocks \ {n} /\ heap'[current].is_free
        /\ \A x \in Blocks \ {current, n} : heap'[x] = heap[x] /\ End(x)' = End(x)
    BY <1>0, <2>1, JoinShape
  <2>3. heap[current].is_free /\ heap[n].is_free
    BY <2>1 DEF CanMerge
  <2>. HIDE DEF n
  <2>4. Held' = {<<x, End(x)'>> : x \in {y \in Blocks' : ~heap'[y].is_free}}
    BY DEF Held
  <2>5. Held' = Held
    BY <2>2, <2>3, <2>4 DEF Held
  <2>6. Want' = Want
    BY <1>8 DEF Want, Merge, clientVars
  <2>. QED
    BY <2>5, <2>6
<1>9. ASSUME NEW c \in Clients, StepOver(c) \/ FreeReturn(c)
      PROVE  UNCHANGED <<Want, Held>>
  <2>1. Want' = Want
    BY <1>0, <1>9 DEF Want, StepOver, FreeReturn, Return, clientVars, TypeOK
  <2>. QED
    BY <1>9, <2>1 DEF Held, StepOver, FreeReturn, Blocks, End
<1>10. ASSUME UNCHANGED vars
       PROVE  UNCHANGED <<Want, Held>>
  <2>1. Want' = Want
    BY <1>10 DEF Want, vars, clientVars
  <2>2. Held' = Held
    BY <1>10 DEF Held, vars, Blocks, End
  <2>. QED
    BY <2>1, <2>2
<1>. QED
  BY <1>3, <1>4, <1>5, <1>6, <1>7, <1>8, <1>9, <1>10
  DEF Next, Enter, Loop, Contract!ContractNext

\* The pool implements its contract: disjoint blocks, hardly larger than asked for,
\* and no request refused that a gap could hold.
THEOREM KeepsContract == Spec => ContractSpec
<1>1. Init => Contract!ContractInit
  BY DEF Init, Contract!ContractInit, Blocks, FirstBlock
<1>. QED
  BY <1>1, ContractStep, PoolInvariance, PTL DEF Spec, ContractSpec, Contract!ContractSpec
=============================================================================
