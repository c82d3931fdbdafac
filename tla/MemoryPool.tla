----------------------------- MODULE MemoryPool -----------------------------
(***************************************************************************)
(* memory_pool.c: a best-fit allocator over one list of blocks that fills  *)
(* the pool, used by every task under one mutex.  A block is a header and  *)
(* the bytes behind it; it is known by the offset of its header.           *)
(*                                                                         *)
(* memory_pool_alloc is one step, because it does everything with the      *)
(* mutex held.  memory_pool_free is the step that marks the block and then *)
(* the steps of its loop, so that the loop's progress is part of the state.*)
(* A request of 0 bytes and a NULL pointer return at once and change       *)
(* nothing; memory_pool_stats only reads.                                  *)
(***************************************************************************)
EXTENDS Integers, Functions

CONSTANTS
  Clients,                   (* tasks that use the pool                    *)
  Sizes,                     (* sizes they ask for                         *)
  POOL_SIZE,                 (* MEMORY_POOL_BLOCKS * MEMORY_BLOCK_SIZE     *)
  HEADER,                    (* sizeof(block_header_t)                     *)
  NULL

\* The pool holds at least one block.  Sizes are numbers of any magnitude: size_t
\* is never so large that size + 7 leaves its 32 bits.
ASSUME SizesAssumption ==
  /\ HEADER \in Nat \ {0} /\ POOL_SIZE \in Nat /\ POOL_SIZE > HEADER
  /\ Sizes \subseteq Nat \ {0}

ASSUME NullAssumption == NULL \notin Int \cup Clients

VARIABLES
  heap,                      (* the headers of the list, by their offset   *)
  mutex,                     (* its holder                                 *)
  used_size,
  peak_use,
  current,                   (* cursor of the loop in memory_pool_free     *)
  pc,                        (* where each client is in its call           *)
  arg,                       (* the size or the pointer it passed          *)
  live                       (* size asked for, by pointer in use          *)

clientVars == <<pc, arg, live>>
vars == <<heap, mutex, used_size, peak_use, current, clientVars>>

Blocks == DOMAIN heap
End(b) == b + HEADER + heap[b].size

FirstBlock == [next |-> NULL, size |-> POOL_SIZE - HEADER, is_free |-> TRUE]

\* The state that memory_pool_init leaves.
Init ==
  /\ heap = [b \in {0} |-> FirstBlock]
  /\ mutex = NULL
  /\ used_size = 0
  /\ peak_use  = 0
  /\ current = NULL
  /\ pc   = [c \in Clients |-> "idle"]
  /\ arg  = [c \in Clients |-> NULL]
  /\ live = [p \in {} |-> NULL]

Return(c) ==
  /\ pc'  = [pc EXCEPT ![c] = "idle"]
  /\ arg' = [arg EXCEPT ![c] = NULL]

-----------------------------------------------------------------------------
(* memory_pool_alloc *)

Aligned(n) == ((n + 7) \div 8) * 8

AllocCall(c, n) ==
  /\ pc[c] = "idle"
  /\ pc'  = [pc EXCEPT ![c] = "alloc"]
  /\ arg' = [arg EXCEPT ![c] = n]
  /\ UNCHANGED <<heap, mutex, used_size, peak_use, current, live>>

\* Mutant: a block of exactly the right size is passed over.
LargerThan(n) == {b \in Blocks : heap[b].is_free /\ heap[b].size > n}

Candidates(n) == {b \in Blocks : heap[b].is_free /\ heap[b].size >= n}

\* The first of the smallest candidates; the list is in address order.
BestFit(n) ==
  {b \in Candidates(n) :
     \A c \in Candidates(n) : \/ heap[b].size < heap[c].size
                              \/ heap[b].size = heap[c].size /\ b <= c}

\* Block b cut down to n bytes, and a free block behind it.
Split(b, n) ==
  LET rest == b + HEADER + n IN
  [x \in Blocks \cup {rest} |->
     CASE x = rest -> [next |-> heap[b].next, size |-> heap[b].size - n - HEADER, is_free |-> TRUE]
       [] x = b    -> [next |-> rest, size |-> n, is_free |-> FALSE]
       [] OTHER    -> heap[x]]

Whole(b) == [heap EXCEPT ![b].is_free = FALSE]

Alloc(c) ==
  LET n == Aligned(arg[c]) IN
  /\ pc[c] = "alloc"
  /\ mutex = NULL
  /\ \E b \in BestFit(n) :
       /\ heap' = IF heap[b].size - n >= HEADER + 8 THEN Split(b, n) ELSE Whole(b)
       /\ used_size' = used_size + heap'[b].size + HEADER
       /\ live' = [p \in DOMAIN live \cup {b + HEADER} |->
                     IF p = b + HEADER THEN arg[c] ELSE live[p]]
  /\ peak_use' = IF used_size' > peak_use THEN used_size' ELSE peak_use
  /\ Return(c)
  /\ UNCHANGED <<mutex, current>>

AllocFails(c) ==
  /\ pc[c] = "alloc"
  /\ mutex = NULL
  /\ Candidates(Aligned(arg[c])) = {}
  /\ Return(c)
  /\ UNCHANGED <<heap, mutex, used_size, peak_use, current, live>>

-----------------------------------------------------------------------------
(* memory_pool_free: a client passes a pointer it was given and no longer uses. *)

FreeCall(c, p) ==
  /\ pc[c] = "idle"
  /\ pc'   = [pc EXCEPT ![c] = "free"]
  /\ arg'  = [arg EXCEPT ![c] = p]
  /\ live' = [q \in DOMAIN live \ {p} |-> live[q]]
  /\ UNCHANGED <<heap, mutex, used_size, peak_use, current>>

\* Mutant: the header of the freed block stays in used_size.
FreeForgetsHeader(c) ==
  LET b == arg[c] - HEADER IN
  /\ pc[c] = "free"
  /\ mutex = NULL
  /\ mutex' = c
  /\ heap' = [heap EXCEPT ![b].is_free = TRUE]
  /\ used_size' = used_size - heap[b].size
  /\ current' = 0
  /\ pc' = [pc EXCEPT ![c] = "merge"]
  /\ UNCHANGED <<peak_use, arg, live>>

Free(c) ==
  LET b == arg[c] - HEADER IN
  /\ pc[c] = "free"
  /\ mutex = NULL
  /\ mutex' = c
  /\ heap' = [heap EXCEPT ![b].is_free = TRUE]
  /\ used_size' = used_size - (heap[b].size + HEADER)
  /\ current' = 0
  /\ pc' = [pc EXCEPT ![c] = "merge"]
  /\ UNCHANGED <<peak_use, arg, live>>

CanMerge(b) ==
  heap[b].is_free /\ heap[b].next # NULL /\ heap[heap[b].next].is_free

\* Block b with its successor taken into it.
Joined(b) ==
  LET n == heap[b].next IN
  [x \in Blocks \ {n} |->
     IF x = b
     THEN [next |-> heap[n].next, size |-> heap[b].size + heap[n].size + HEADER, is_free |-> TRUE]
     ELSE heap[x]]

Merge(c) ==
  /\ pc[c] = "merge"
  /\ current # NULL
  /\ CanMerge(current)
  /\ heap' = Joined(current)
  /\ UNCHANGED <<mutex, used_size, peak_use, current, clientVars>>

\* Mutant: the loop does not move on.
StepOverStays(c) ==
  /\ pc[c] = "merge"
  /\ current # NULL
  /\ ~CanMerge(current)
  /\ UNCHANGED vars

StepOver(c) ==
  /\ pc[c] = "merge"
  /\ current # NULL
  /\ ~CanMerge(current)
  /\ current' = heap[current].next
  /\ UNCHANGED <<heap, mutex, used_size, peak_use, clientVars>>

FreeReturn(c) ==
  /\ pc[c] = "merge"
  /\ current = NULL
  /\ mutex' = NULL
  /\ Return(c)
  /\ UNCHANGED <<heap, used_size, peak_use, current, live>>

-----------------------------------------------------------------------------

Enter(c) == Alloc(c) \/ AllocFails(c) \/ Free(c)
Loop(c)  == Merge(c) \/ StepOver(c) \/ FreeReturn(c)

Next ==
  \E c \in Clients :
    \/ \E n \in Sizes : AllocCall(c, n)
    \/ \E p \in DOMAIN live : FreeCall(c, p)
    \/ Enter(c)
    \/ Loop(c)

Spec == Init /\ [][Next]_vars

\* A client that is not blocked runs, and the mutex reaches every waiter.
Fairness == \A c \in Clients : SF_vars(Enter(c)) /\ WF_vars(Loop(c))

FairSpec == Spec /\ Fairness

-----------------------------------------------------------------------------
(* Properties *)

Headers == [next : Nat \cup {NULL}, size : Nat, is_free : BOOLEAN]

\* Every variable stays in its type.
TypeOK ==
  /\ Blocks \subseteq 0..POOL_SIZE
  /\ heap \in [Blocks -> Headers]
  /\ mutex \in Clients \cup {NULL}
  /\ used_size \in Int /\ peak_use \in Nat
  /\ current \in Blocks \cup {NULL}
  /\ pc \in [Clients -> {"idle", "alloc", "free", "merge"}]
  /\ arg \in [Clients -> Nat \cup {NULL}]
  /\ DOMAIN live \subseteq Nat
  /\ live \in [DOMAIN live -> Sizes]

\* The blocks of the list fill the pool without a hole or an overlap, in the
\* order of the list: cutting and joining keep sizes and links in step.
Tiling ==
  /\ 0 \in Blocks
  /\ \A b \in Blocks :
       /\ heap[b].size > 0
       /\ End(b) <= POOL_SIZE
       /\ IF heap[b].next = NULL THEN End(b) = POOL_SIZE
                                 ELSE heap[b].next = End(b) /\ End(b) \in Blocks
  /\ \A a, b \in Blocks : a < b => End(a) <= b

\* Two pointers in use never share a byte, with each other or with a header:
\* what one client writes within the size it asked for, no other client sees
\* and the list is not damaged by it.
NoOverlap ==
  /\ \A p \in DOMAIN live :
       /\ HEADER <= p /\ p + live[p] <= POOL_SIZE
       /\ \A b \in Blocks : b + HEADER <= p \/ p + live[p] <= b
  /\ \A p, q \in DOMAIN live : p < q => p + live[p] + HEADER <= q

\* Whenever the mutex is free no two neighbours are both free, so that the pool
\* never fails a request for lack of a merge.
Coalesced ==
  mutex = NULL => \A b \in Blocks : ~CanMerge(b)

\* When every pointer has been given back and every memory_pool_free has
\* returned, the pool is the one block it was at the start: in no order of
\* allocations and releases does it stay fragmented.
FullRecovery ==
  DOMAIN live = {} /\ (\A c \in Clients : pc[c] \notin {"free", "merge"}) =>
    heap = [b \in {0} |-> FirstBlock]

Taken == {b \in Blocks : ~heap[b].is_free}
Bytes == [b \in Blocks |-> heap[b].size + HEADER]

\* used_size is what the blocks in use take with their headers, so that its
\* subtraction never wraps around, and peak_use is not below it.
Accounting ==
  /\ used_size = SumFunctionOnSet(Bytes, Taken)
  /\ used_size <= peak_use /\ peak_use <= POOL_SIZE

\* Every call returns: the loop of memory_pool_free ends.
CallsReturn == \A c \in Clients : pc[c] # "idle" ~> pc[c] = "idle"

-----------------------------------------------------------------------------
(* What the pool implements. *)

Contract == INSTANCE PoolContract WITH
  GRAIN <- 8,
  want  <- [c \in Clients |-> IF pc[c] = "alloc" THEN arg[c] ELSE NULL],
  held  <- {<<b, End(b)>> : b \in {x \in Blocks : ~heap[x].is_free}}

\* The pool keeps the promise of PoolContract: in particular it refuses a request
\* only if no gap could hold it.
ContractSpec == Contract!ContractSpec
=============================================================================
