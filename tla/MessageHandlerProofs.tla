------------------------ MODULE MessageHandlerProofs ------------------------
(***************************************************************************)
(* Proofs about MessageHandler.tla for every number of tasks, calls,       *)
(* retries, blocks and every size of the queue.                            *)
(***************************************************************************)
EXTENDS MessageHandler, FiniteSetTheorems, SequenceTheorems, TLAPS

-----------------------------------------------------------------------------
(* Lemmas: how often an element occurs in a queue. *)

Occurrences(q, m) == Cardinality({i \in DOMAIN q : q[i] = m})

\* The positions of a sequence that hold an element are finitely many.
LEMMA PositionsFinite ==
  ASSUME NEW S, NEW q \in Seq(S), NEW m
  PROVE  /\ IsFiniteSet({i \in DOMAIN q : q[i] = m})
         /\ Occurrences(q, m) \in Nat
<1>1. DOMAIN q = 1..Len(q) /\ Len(q) \in Nat
  BY LenProperties
<1>2. IsFiniteSet(1..Len(q))
  BY <1>1, FS_Interval
<1>3. {i \in DOMAIN q : q[i] = m} \in SUBSET (1..Len(q))
  BY <1>1
<1>. QED
  BY <1>2, <1>3, FS_Subset, FS_CardinalityType DEF Occurrences

\* Appending an element adds one occurrence of it and of no other.
LEMMA OccurrencesAppend ==
  ASSUME NEW S, NEW q \in Seq(S), NEW x \in S, NEW m
  PROVE  Occurrences(Append(q, x), m) = Occurrences(q, m) + (IF x = m THEN 1 ELSE 0)
<1>. DEFINE P == {i \in DOMAIN q : q[i] = m}
            R == {i \in DOMAIN Append(q, x) : Append(q, x)[i] = m}
            n == Len(q) + 1
<1>1. /\ DOMAIN q = 1..Len(q) /\ Len(q) \in Nat
      /\ DOMAIN Append(q, x) = 1..n
      /\ \A i \in 1..Len(q) : Append(q, x)[i] = q[i]
      /\ Append(q, x)[n] = x
  BY AppendProperties, LenProperties
<1>2. IsFiniteSet(P) /\ Cardinality(P) \in Nat
  BY PositionsFinite DEF Occurrences
<1>3. CASE x = m
  <2>1. R = P \cup {n} /\ n \notin P
    BY <1>1, <1>3
  <2>. QED
    BY <2>1, <1>2, <1>3, FS_AddElement DEF Occurrences
<1>4. CASE x # m
  <2>1. R = P
    BY <1>1, <1>4
  <2>. HIDE DEF P, R
  <2>2. Cardinality(R) = Cardinality(P) + 0
    BY <2>1, <1>2
  <2>. QED
    BY <2>2, <1>4 DEF Occurrences, P, R
<1>. QED
  BY <1>3, <1>4

\* Taking the first element away removes one occurrence of it and of no other.
LEMMA OccurrencesTail ==
  ASSUME NEW S, NEW q \in Seq(S), q # <<>>, NEW m
  PROVE  Occurrences(q, m) = Occurrences(Tail(q), m) + (IF Head(q) = m THEN 1 ELSE 0)
<1>. DEFINE P == {i \in DOMAIN q : q[i] = m}
            R == {i \in DOMAIN Tail(q) : Tail(q)[i] = m}
<1>1. /\ DOMAIN q = 1..Len(q) /\ Len(q) \in Nat /\ Len(q) > 0
      /\ Tail(q) \in Seq(S) /\ DOMAIN Tail(q) = 1..(Len(q) - 1)
      /\ \A i \in 1..(Len(q) - 1) : Tail(q)[i] = q[i + 1]
      /\ Head(q) = q[1]
  <2>1. Len(q) > 0
    BY EmptySeq, LenProperties
  <2>. QED
    BY <2>1, HeadTailProperties, LenProperties
<1>2. IsFiniteSet(R) /\ IsFiniteSet(P) /\ Cardinality(R) \in Nat /\ Cardinality(P) \in Nat
  BY <1>1, PositionsFinite DEF Occurrences
<1>. DEFINE T == P \ {1}
            f == [i \in R |-> i + 1]
<1>3. f \in Bijection(R, T)
  <2>1. f \in [R -> T]
    BY <1>1
  <2>2. \A i, j \in R : f[i] = f[j] => i = j
    BY <1>1
  <2>3. ASSUME NEW k \in T PROVE \E i \in R : f[i] = k
    <3>1. k - 1 \in R /\ f[k - 1] = k
      BY <1>1
    <3>. QED
      BY <3>1
  <2>. QED
    BY <2>1, <2>2, <2>3 DEF Bijection, Injection, Surjection, IsInjective
<1>4. ExistsBijection(R, T)
  BY <1>3 DEF ExistsBijection
<1>5. IsFiniteSet(T) /\ Cardinality(T) = Cardinality(R)
  BY <1>2, <1>4, FS_Bijection
<1>6. Cardinality(T) = IF 1 \in P THEN Cardinality(P) - 1 ELSE Cardinality(P)
  BY <1>2, FS_RemoveElement
<1>7. 1 \in P <=> Head(q) = m
  BY <1>1
<1>. HIDE DEF P, R, T, f
<1>8. Cardinality(P) = Cardinality(R) + (IF Head(q) = m THEN 1 ELSE 0)
  BY <1>2, <1>5, <1>6, <1>7
<1>. QED
  BY <1>8 DEF Occurrences, P, R

\* Putting an element in front does the same as appending it.
LEMMA OccurrencesFront ==
  ASSUME NEW S, NEW q \in Seq(S), NEW x \in S, NEW m
  PROVE  /\ <<x>> \o q \in Seq(S) /\ Len(<<x>> \o q) = Len(q) + 1
         /\ Occurrences(<<x>> \o q, m) = Occurrences(q, m) + (IF x = m THEN 1 ELSE 0)
<1>. DEFINE p == <<x>> \o q
<1>1. Len(q) \in Nat /\ q \in [1..Len(q) -> S]
  BY LenProperties
<1>2. /\ p \in Seq(S) /\ Len(p) = Len(q) + 1 /\ p[1] = x
      /\ \A i \in 1..Len(q) : p[i + 1] = q[i]
  <2>1. <<x>> \in Seq(S) /\ Len(<<x>>) = 1 /\ <<x>>[1] = x
    OBVIOUS
  <2>2. /\ p \in Seq(S) /\ Len(p) = 1 + Len(q)
        /\ \A i \in 1..(1 + Len(q)) : p[i] = IF i <= 1 THEN <<x>>[i] ELSE q[i - 1]
    BY <2>1, ConcatProperties
  <2>. HIDE DEF p
  <2>. QED
    BY <1>1, <2>1, <2>2
<1>. HIDE DEF p
<1>3. p # <<>> /\ Head(p) = x
  BY <1>1, <1>2, EmptySeq, HeadTailProperties
<1>4. Tail(p) = q
  <2>1. /\ Tail(p) \in Seq(S) /\ Len(Tail(p)) = Len(p) - 1
        /\ \A i \in 1..Len(Tail(p)) : Tail(p)[i] = p[i + 1]
    BY <1>2, <1>3, HeadTailProperties
  <2>2. Len(Tail(p)) = Len(q) /\ \A i \in 1..Len(q) : Tail(p)[i] = q[i]
    BY <1>1, <1>2, <2>1
  <2>. QED
    BY <2>1, <2>2, SeqEqual
<1>5. Occurrences(p, m) = Occurrences(Tail(p), m) + (IF Head(p) = m THEN 1 ELSE 0)
  BY <1>2, <1>3, OccurrencesTail
<1>. QED
  BY <1>2, <1>3, <1>4, <1>5 DEF p

-----------------------------------------------------------------------------
(* The strengthening: what a call has established, and what the counters of  *)
(* a message have to do with each other.                                     *)

\* Where a task is while it makes a pending message.
Creating == {"message", "data", "timer"}

\* The task between TakeLock and its return is the one that holds the lock and
\* the one that has an id; the id is not used by anything else.
CallInv ==
  \A t \in Tasks :
    /\ pc[t] \in InCall <=> lock = t
    /\ msg_id[t] # NULL <=> lock = t
    /\ msg_id[t] # NULL => /\ msg_id[t] < next_msg_id
                           /\ result[msg_id[t]] = NULL
                           /\ kind[msg_id[t]] = qos[t]
    /\ pc[t] \in Creating => /\ qos[t] # TOPIC_QOS_AT_MOST_ONCE
                             /\ msg_id[t] \notin pending

\* An id that was not given out yet has no history.
UnusedInv ==
  \A m \in Ids : m >= next_msg_id =>
    kind[m] = NULL /\ result[m] = NULL /\ m \notin pending

\* A message is published once by its call and once by each of its retries, and
\* only pending messages are retried.
CountInv ==
  \A m \in Ids :
    /\ attempts[m] = retry_count[m] + (IF result[m] \in {"OK", "ERR"} THEN 1 ELSE 0)
    /\ retry_count[m] <= RETRY_COUNT
    /\ retry_count[m] > 0 => m \in pending
    /\ kind[m] = TOPIC_QOS_AT_MOST_ONCE => m \notin pending
    /\ result[m] = "NO_MEM" => m \notin pending

Messages == Ids \cup {Foreign}

\* No message has been delivered or is on its way more often than published.
DeliveryInv ==
  \A m \in Ids : delivered[m] + Copies(m) <= attempts[m]

HandlerInv == TypeOK /\ CallInv /\ UnusedInv /\ CountInv /\ DeliveryInv /\ PoolConserved

-----------------------------------------------------------------------------
(* Lemmas: what one call of pubsub_publish and one delivery do to the copies. *)

\* The copies of a message are a number.
LEMMA CopiesType ==
  ASSUME TypeOK, NEW m \in Ids
  PROVE  /\ Copies(m) \in Nat
         /\ Copies(m) = Occurrences(queue, m) + (IF in_hand = m THEN 1 ELSE 0)
         /\ Occurrences(queue, m) \in Nat
<1>1. queue \in Seq(Messages)
  BY DEF TypeOK, Messages
<1>2. Queued(m) = Occurrences(queue, m) /\ Occurrences(queue, m) \in Nat
  BY <1>1, PositionsFinite DEF Queued, Occurrences
<1>. QED
  BY <1>2 DEF Copies

\* What the pool is made of are numbers.
LEMMA BlocksType ==
  ASSUME TypeOK
  PROVE  /\ BlocksOfCall \in {0, 1, 2}
         /\ IsFiniteSet(pending) /\ Cardinality(pending) \in Nat
         /\ free_cells \in 0..CELLS /\ CELLS \in Nat
         /\ queue \in Seq(Messages) /\ Len(queue) \in Nat /\ Len(queue) <= MAX_QUEUE_SIZE
         /\ MAX_QUEUE_SIZE \in Nat
<1>1. IsFiniteSet(Ids) /\ pending \in SUBSET Ids
  BY LimitsAssumption, FS_Interval DEF Ids, TypeOK
<1>2. IsFiniteSet(pending) /\ Cardinality(pending) \in Nat
  BY <1>1, FS_Subset, FS_CardinalityType
<1>3. queue \in Seq(Messages) /\ Len(queue) \in Nat
  BY LenProperties DEF TypeOK, Messages
<1>. QED
  BY <1>2, <1>3, LimitsAssumption DEF TypeOK, BlocksOfCall

\* The pool is conserved by a step that takes as many blocks for the call and
\* for the pending messages as it takes from the free ones.
LEMMA PoolStep ==
  ASSUME HandlerInv, queue' = queue, in_hand' = in_hand,
         NEW call \in Nat, NEW kept \in Nat,
         BlocksOfCall' = call, Cardinality(pending') = kept,
         free_cells' + call + 2 * kept = free_cells + BlocksOfCall + 2 * Cardinality(pending),
         free_cells' \in Int
  PROVE  PoolConserved' /\ free_cells' \in Int
<1>. DEFINE h == IF in_hand = NULL THEN 0 ELSE 1
            n == Len(queue)
            f == free_cells
            b == BlocksOfCall
            k == Cardinality(pending)
<1>1. h \in Nat /\ n \in Nat /\ f \in Nat /\ b \in Nat /\ k \in Nat /\ CELLS \in Nat
  BY BlocksType DEF HandlerInv
<1>2. CELLS = f + b + 2 * k + n + h
  BY DEF HandlerInv, PoolConserved
<1>3. free_cells' + call + 2 * kept = f + b + 2 * k
  OBVIOUS
<1>4. PoolConserved' <=> CELLS = free_cells' + call + 2 * kept + n + h
  BY DEF PoolConserved
<1>. HIDE DEF h, n, f, b, k
<1>. QED
  BY <1>1, <1>2, <1>3, <1>4

\* An accepted message is one more copy of it, a refused one changes nothing;
\* either way the blocks of the pool are still accounted for.
LEMMA PublishOnce ==
  ASSUME TypeOK, PoolConserved, NEW x \in Messages, NEW critical \in BOOLEAN,
         Accepted(x, critical) \/ Refused,
         in_hand' = in_hand, pending' = pending, BlocksOfCall' = BlocksOfCall
  PROVE  /\ queue' \in Seq(Messages) /\ Len(queue') <= MAX_QUEUE_SIZE
         /\ free_cells' \in 0..CELLS
         /\ PoolConserved'
         /\ \A m \in Ids : /\ Copies(m) \in Nat /\ Copies(m)' \in Nat
                            /\ Copies(m)' <= Copies(m) + (IF m = x THEN 1 ELSE 0)
<1>1. /\ queue \in Seq(Messages) /\ Len(queue) \in Nat /\ Len(queue) <= MAX_QUEUE_SIZE
      /\ free_cells \in 0..CELLS /\ CELLS \in Nat /\ MAX_QUEUE_SIZE \in Nat
      /\ Cardinality(pending) \in Nat /\ BlocksOfCall \in Nat
  BY BlocksType
<1>3. \A m \in Ids : /\ Copies(m) = Occurrences(queue, m) + (IF in_hand = m THEN 1 ELSE 0)
                     /\ Occurrences(queue, m) \in Nat
  BY CopiesType
<1>4. CASE Refused
  <2>1. queue' = queue /\ free_cells' = free_cells
    BY <1>4 DEF Refused
  <2>2. \A m \in Ids : Copies(m)' = Copies(m)
    BY <2>1 DEF Copies, Queued
  <2>3. PoolConserved'
    BY <2>1 DEF PoolConserved
  <2>. QED
    BY <1>1, <1>3, <2>1, <2>2, <2>3
<1>5. CASE Accepted(x, critical)
  <2>1. /\ queue' = IF critical THEN <<x>> \o queue ELSE Append(queue, x)
        /\ free_cells' = free_cells - 1 /\ free_cells > 0
        /\ Len(queue) < MAX_QUEUE_SIZE
    BY <1>5 DEF Accepted
  <2>2. /\ queue' \in Seq(Messages) /\ Len(queue') = Len(queue) + 1
        /\ \A m : Occurrences(queue', m) = Occurrences(queue, m) + (IF x = m THEN 1 ELSE 0)
    <3>1. CASE critical
      <4>1. queue' = <<x>> \o queue
        BY <2>1, <3>1
      <4>. QED
        BY <1>1, <4>1, OccurrencesFront
    <3>2. CASE ~critical
      <4>1. queue' = Append(queue, x)
        BY <2>1, <3>2
      <4>2. queue' \in Seq(Messages) /\ Len(queue') = Len(queue) + 1
        BY <1>1, <4>1, AppendProperties
      <4>. QED
        BY <1>1, <4>1, <4>2, OccurrencesAppend
    <3>. QED
      BY <3>1, <3>2
  <2>3. PoolConserved'
    <3>. DEFINE k == Cardinality(pending)
                h == IF in_hand = NULL THEN 0 ELSE 1
                b == BlocksOfCall
    <3>1. /\ k \in Nat /\ h \in Nat /\ b \in Nat
          /\ CELLS = free_cells + b + 2 * k + Len(queue) + h
      BY <1>1 DEF PoolConserved
    <3>2. PoolConserved' <=> CELLS = free_cells' + b + 2 * k + Len(queue') + h
      BY DEF PoolConserved
    <3>. DEFINE n == Len(queue)
                after == Len(queue')
    <3>3. /\ n \in Nat /\ after = n + 1 /\ free_cells' = free_cells - 1
          /\ free_cells \in Nat /\ CELLS \in Nat
      BY <1>1, <2>1, <2>2
    <3>. HIDE DEF k, h, b, n, after
    <3>4. CELLS = free_cells' + b + 2 * k + after + h
      <4>1. CELLS = free_cells + b + 2 * k + n + h /\ k \in Nat /\ h \in Nat /\ b \in Nat
        BY <3>1 DEF n
      <4>. QED
        BY <3>3, <4>1
    <3>. QED
      BY <3>2, <3>4 DEF after
  <2>4. ASSUME NEW m \in Ids
        PROVE  /\ Copies(m) \in Nat /\ Copies(m)' \in Nat
               /\ Copies(m)' <= Copies(m) + (IF m = x THEN 1 ELSE 0)
    <3>1. Copies(m)' = Occurrences(queue', m) + (IF in_hand = m THEN 1 ELSE 0)
      BY DEF Copies, Queued, Occurrences
    <3>2. Occurrences(queue', m) = Occurrences(queue, m) + (IF x = m THEN 1 ELSE 0)
      BY <2>2
    <3>. QED
      BY <3>1, <3>2, <1>3
  <2>. QED
    BY <1>1, <2>1, <2>2, <2>3, <2>4
<1>. QED
  BY <1>4, <1>5

-----------------------------------------------------------------------------
(* The invariant holds at the start, and every action keeps it. *)

\* The state message_handler_init leaves has the invariant.
LEMMA InitInv == Init => HandlerInv
<1>. SUFFICES ASSUME Init PROVE HandlerInv
  OBVIOUS
<1>1. /\ CELLS \in Nat /\ MAX_QUEUE_SIZE \in Nat /\ RETRY_COUNT \in Nat /\ MAX_ID \in Nat
      /\ NULL \notin Tasks /\ NULL \notin Nat /\ NULL \notin {"OK", "ERR", "NO_MEM"}
  BY LimitsAssumption, NullAssumption
<1>2. TypeOK
  BY <1>1 DEF Init, TypeOK, Ids, Qualities, TOPIC_QOS_AT_MOST_ONCE, Priorities
<1>3. CallInv
  BY <1>1 DEF Init, CallInv, InCall, Creating
<1>4. UnusedInv
  BY <1>1 DEF Init, UnusedInv
<1>5. CountInv
  BY <1>1 DEF Init, CountInv, TOPIC_QOS_AT_MOST_ONCE
<1>6. ASSUME NEW m \in Ids PROVE Copies(m) = 0
  <2>1. {i \in DOMAIN queue : queue[i] = m} = {}
    BY DEF Init
  <2>2. in_hand # m
    BY <1>1 DEF Init, Ids
  <2>. QED
    BY <2>1, <2>2, FS_EmptySet DEF Copies, Queued
<1>7. DeliveryInv
  BY <1>1, <1>6 DEF Init, DeliveryInv
<1>8. PoolConserved
  BY <1>1, FS_EmptySet DEF Init, PoolConserved, BlocksOfCall
<1>. QED
  BY <1>2, <1>3, <1>4, <1>5, <1>7, <1>8 DEF HandlerInv

\* The invariant is kept by a step that leaves copies and counters alone.
LEMMA CopiesUnchanged ==
  ASSUME HandlerInv, UNCHANGED <<queue, in_hand, delivered, attempts>>
  PROVE  DeliveryInv'
  BY DEF HandlerInv, DeliveryInv, Copies, Queued

\* A task enters message_publish_with_qos.
LEMMA CallStep ==
  ASSUME HandlerInv, NEW t \in Tasks, NEW q \in Qualities, NEW p \in Priorities, Call(t, q, p)
  PROVE  HandlerInv'
<1>. USE DEF HandlerInv
<1>0. /\ pc[t] = "idle" /\ pc' = [pc EXCEPT ![t] = "enter"]
      /\ qos' = [qos EXCEPT ![t] = q] /\ priority' = [priority EXCEPT ![t] = p]
      /\ UNCHANGED <<lock, next_msg_id, pending, armed, retry_count, urgent, msg_id,
                     free_cells, queue, in_hand, kind, result, attempts, delivered>>
      /\ NULL \notin Tasks
  BY NullAssumption DEF Call, GoesOn, handlerVars, busVars, historyVars
<1>1. TypeOK'
  BY <1>0 DEF TypeOK
<1>2. lock # t /\ msg_id[t] = NULL
  BY <1>0 DEF CallInv, InCall
<1>3. CallInv'
  BY <1>0, <1>2 DEF CallInv, TypeOK, InCall, Creating
<1>4. UnusedInv' /\ CountInv'
  BY <1>0 DEF UnusedInv, CountInv
<1>5. PoolConserved'
  <2>1. BlocksOfCall' = BlocksOfCall
    BY <1>0, <1>2 DEF BlocksOfCall, TypeOK
  <2>. QED
    BY <1>0, <2>1 DEF PoolConserved
<1>6. DeliveryInv'
  BY <1>0, CopiesUnchanged
<1>. QED
  BY <1>1, <1>3, <1>4, <1>5, <1>6

\* It takes the lock and is given an id.
LEMMA TakeLockStep ==
  ASSUME HandlerInv, NEW t \in Tasks, TakeLock(t)
  PROVE  HandlerInv'
<1>. USE DEF HandlerInv
<1>. DEFINE at == IF qos[t] > TOPIC_QOS_AT_MOST_ONCE THEN "message" ELSE "publish"
<1>0. /\ MAX_ID \in Nat /\ NULL \notin Tasks /\ NULL \notin Nat
      /\ next_msg_id \in Ids /\ next_msg_id \in Nat
      /\ at \in {"message", "publish"}
  BY LimitsAssumption, NullAssumption DEF TypeOK, TakeLock, TakeLockThen, Ids
<1>a. /\ lock = NULL /\ lock' = t
      /\ pc' = [pc EXCEPT ![t] = at]
      /\ msg_id' = [msg_id EXCEPT ![t] = next_msg_id]
      /\ kind'   = [kind EXCEPT ![next_msg_id] = qos[t]]
      /\ urgent' \in {urgent, urgent \cup {next_msg_id}}
      /\ next_msg_id' = next_msg_id + 1
      /\ UNCHANGED <<pending, armed, retry_count, qos, priority, free_cells, queue, in_hand,
                     result, attempts, delivered>>
  BY DEF TakeLock, TakeLockThen, GoesOn, busVars
<1>1. TypeOK'
  <2>1. next_msg_id + 1 \in 1..(MAX_ID + 1)
    BY <1>0 DEF Ids
  <2>2. qos[t] \in Qualities
    BY DEF TypeOK
  <2>3. urgent' \subseteq Ids
    BY <1>0, <1>a DEF TypeOK
  <2>4. pc' \in [Tasks -> {"idle", "enter"} \cup InCall]
    BY <1>0, <1>a DEF TypeOK, InCall
  <2>. HIDE DEF at
  <2>. QED
    BY <1>0, <1>a, <2>1, <2>2, <2>3, <2>4 DEF TypeOK
<1>2. CallInv'
  <2>1. \A u \in Tasks : msg_id[u] = NULL /\ pc[u] \notin InCall
    BY <1>0, <1>a DEF CallInv
  <2>2. kind[next_msg_id] = NULL /\ result[next_msg_id] = NULL /\ next_msg_id \notin pending
    BY <1>0 DEF UnusedInv
  <2>4. \A u \in Tasks : u # t => /\ pc'[u] = pc[u] /\ msg_id'[u] = NULL /\ lock' # u
    BY <2>1, <1>a DEF TypeOK
  <2>5. /\ pc'[t] = at
        /\ msg_id'[t] = next_msg_id /\ kind'[next_msg_id] = qos[t] /\ lock' = t
    BY <1>0, <1>a DEF TypeOK
  <2>6. qos[t] \in Nat
    <3>1. qos[t] \in Qualities
      BY DEF TypeOK
    <3>. QED
      BY <3>1 DEF Qualities, TOPIC_QOS_AT_MOST_ONCE, TOPIC_QOS_AT_LEAST_ONCE, TOPIC_QOS_EXACTLY_ONCE
  <2>. QED
    BY <1>0, <1>a, <2>1, <2>2, <2>4, <2>5, <2>6
       DEF CallInv, TOPIC_QOS_AT_MOST_ONCE, InCall, Creating
<1>3. UnusedInv'
  BY <1>0, <1>a DEF UnusedInv, TypeOK, Ids
<1>4. CountInv'
  BY <1>0, <1>a DEF CountInv, UnusedInv, TypeOK
<1>5. PoolConserved' /\ DeliveryInv'
  <2>1. BlocksOfCall = 0 /\ BlocksOfCall' = 0
    BY <1>0, <1>a DEF BlocksOfCall, TypeOK
  <2>2. PoolConserved'
    BY <1>a, <2>1 DEF PoolConserved
  <2>. QED
    BY <1>a, <2>2, CopiesUnchanged
<1>. QED
  BY <1>1, <1>2, <1>3, <1>4, <1>5

\* What is known of the call that holds the lock.
LEMMA InTheCall ==
  ASSUME HandlerInv, NEW t \in Tasks, pc[t] \in InCall
  PROVE  /\ NULL \notin Tasks /\ NULL \notin Nat /\ NULL \notin {"OK", "ERR", "NO_MEM"}
         /\ lock = t /\ lock # NULL
         /\ msg_id[t] \in Ids /\ msg_id[t] # NULL
         /\ msg_id[t] < next_msg_id /\ next_msg_id \in Nat
         /\ result[msg_id[t]] = NULL /\ kind[msg_id[t]] = qos[t]
         /\ \A u \in Tasks : u # t => lock # u /\ msg_id[u] = NULL /\ pc[u] \notin InCall
  BY NullAssumption DEF HandlerInv, TypeOK, CallInv

\* The next block of a pending message is allocated.
LEMMA AllocBlockStep ==
  ASSUME HandlerInv, NEW t \in Tasks, AllocMessage(t) \/ AllocData(t)
  PROVE  HandlerInv'
<1>. USE DEF HandlerInv
<1>. DEFINE before == IF pc[t] = "message" THEN 0 ELSE 1
            next   == IF pc[t] = "message" THEN "data" ELSE "timer"
<1>0. /\ pc[t] \in {"message", "data"} /\ pc' = [pc EXCEPT ![t] = next]
      /\ free_cells > 0 /\ free_cells' = free_cells - 1
      /\ UNCHANGED <<lock, next_msg_id, pending, armed, retry_count, urgent, qos, priority,
                     msg_id, queue, in_hand, kind, result, attempts, delivered>>
  BY DEF AllocMessage, AllocData, AllocBlock, GoesOn, handlerVars, historyVars
<1>1. pc[t] \in InCall /\ pc[t] \in Creating
  BY <1>0 DEF InCall, Creating
<1>2. /\ NULL \notin Tasks /\ lock = t /\ lock # NULL
  BY <1>1, InTheCall
<1>3. TypeOK'
  BY <1>0, BlocksType DEF TypeOK, InCall
<1>4. CallInv'
  BY <1>0, <1>1, <1>2 DEF CallInv, TypeOK, InCall, Creating
<1>5. UnusedInv' /\ CountInv'
  BY <1>0 DEF UnusedInv, CountInv
<1>6. DeliveryInv'
  BY <1>0, CopiesUnchanged
<1>7. PoolConserved'
  <2>1. BlocksOfCall = before /\ BlocksOfCall' = before + 1
    BY <1>0, <1>2 DEF BlocksOfCall, TypeOK
  <2>2. before + 1 \in Nat /\ Cardinality(pending') = Cardinality(pending)
    BY <1>0
  <2>3. /\ Cardinality(pending) \in Nat /\ free_cells \in Nat
        /\ free_cells' + (before + 1) + 2 * Cardinality(pending)
             = free_cells + BlocksOfCall + 2 * Cardinality(pending)
    BY <1>0, <2>1, BlocksType
  <2>. HIDE DEF before
  <2>. QED
    BY <1>0, <2>1, <2>2, <2>3, PoolStep
<1>. QED
  BY <1>3, <1>4, <1>5, <1>6, <1>7

\* The message joins the list of pending ones.
LEMMA AddPendingStep ==
  ASSUME HandlerInv, NEW t \in Tasks, AddPending(t)
  PROVE  HandlerInv'
<1>. USE DEF HandlerInv
<1>0. pc[t] = "timer" /\ pc[t] \in InCall /\ pc[t] \in Creating
  BY DEF AddPending, InCall, Creating
<1>a. /\ NULL \notin Tasks /\ NULL \notin Nat /\ NULL \notin {"OK", "ERR", "NO_MEM"}
      /\ lock = t /\ lock # NULL
      /\ msg_id[t] \in Ids /\ msg_id[t] # NULL
      /\ msg_id[t] < next_msg_id /\ next_msg_id \in Nat
      /\ result[msg_id[t]] = NULL /\ kind[msg_id[t]] = qos[t]
  BY <1>0, InTheCall
<1>b. qos[t] # TOPIC_QOS_AT_MOST_ONCE /\ msg_id[t] \notin pending
  BY <1>0 DEF CallInv
<1>c. /\ pending' = pending \cup {msg_id[t]}
      /\ armed' \in {armed, armed \cup {msg_id[t]}}
      /\ retry_count' = [retry_count EXCEPT ![msg_id[t]] = 0]
      /\ pc' = [pc EXCEPT ![t] = "publish"]
      /\ UNCHANGED <<lock, next_msg_id, urgent, qos, priority, msg_id, free_cells, queue,
                     in_hand, kind, result, attempts, delivered>>
  BY DEF AddPending, GoesOn, busVars, historyVars
<1>1. TypeOK'
  BY <1>a, <1>c DEF TypeOK, InCall
<1>2. \A m \in Ids : retry_count'[m] = retry_count[m]
  BY <1>a, <1>b, <1>c DEF TypeOK, CountInv
<1>3. CallInv'
  BY <1>a, <1>0, <1>c DEF CallInv, TypeOK, InCall, Creating
<1>4. UnusedInv'
  <2>1. \A m \in Ids : m >= next_msg_id => m # msg_id[t]
    BY <1>a DEF TypeOK, Ids
  <2>. QED
    BY <1>c, <2>1 DEF UnusedInv
<1>5. CountInv'
  BY <1>a, <1>b, <1>c, <1>2 DEF CountInv
<1>6. DeliveryInv'
  BY <1>c, CopiesUnchanged
<1>7. PoolConserved'
  <2>1. IsFiniteSet(pending) /\ Cardinality(pending) \in Nat /\ free_cells \in Nat
    BY BlocksType
  <2>2. Cardinality(pending') = Cardinality(pending) + 1
    BY <1>b, <1>c, <2>1, FS_AddElement
  <2>3. BlocksOfCall = 2 /\ BlocksOfCall' = 0
    BY <1>0, <1>a, <1>c DEF BlocksOfCall, TypeOK
  <2>4. /\ Cardinality(pending) + 1 \in Nat /\ free_cells' \in Int
        /\ free_cells' + 0 + 2 * (Cardinality(pending) + 1)
             = free_cells + BlocksOfCall + 2 * Cardinality(pending)
    BY <1>c, <2>1, <2>3
  <2>. QED
    BY <1>c, <2>2, <2>3, <2>4, PoolStep
<1>. QED
  BY <1>1, <1>3, <1>4, <1>5, <1>6, <1>7

\* What a return does to the calls.
LEMMA ReturnStep ==
  ASSUME HandlerInv, NEW t \in Tasks, pc[t] \in InCall,
         NEW r \in {"OK", "ERR", "NO_MEM"}, Return(t, r),
         UNCHANGED <<next_msg_id, pending, armed, retry_count, urgent, in_hand, kind, delivered>>
  PROVE  /\ CallInv' /\ UnusedInv'
         /\ lock' \in Tasks \cup {NULL} /\ msg_id' \in [Tasks -> Ids \cup {NULL}]
         /\ pc' \in [Tasks -> {"idle", "enter"} \cup InCall]
         /\ qos' \in [Tasks -> Qualities] /\ priority' \in [Tasks -> Priorities]
         /\ result' \in [Ids -> {NULL, "OK", "ERR", "NO_MEM"}]
         /\ BlocksOfCall' = 0
         /\ lock = t /\ msg_id[t] \in Ids
         /\ result' = [result EXCEPT ![msg_id[t]] = r]
<1>. USE DEF HandlerInv
<1>1. /\ NULL \notin Tasks /\ NULL \notin Nat /\ NULL \notin {"OK", "ERR", "NO_MEM"}
      /\ lock = t /\ lock # NULL
      /\ msg_id[t] \in Ids /\ msg_id[t] # NULL
      /\ msg_id[t] < next_msg_id /\ next_msg_id \in Nat
      /\ \A u \in Tasks : u # t => lock # u /\ msg_id[u] = NULL /\ pc[u] \notin InCall
  BY InTheCall
<1>2. /\ lock' = NULL
      /\ result' = [result EXCEPT ![msg_id[t]] = r]
      /\ pc'     = [pc EXCEPT ![t] = "idle"]
      /\ msg_id' = [msg_id EXCEPT ![t] = NULL]
      /\ qos'      = [qos EXCEPT ![t] = TOPIC_QOS_AT_MOST_ONCE]
      /\ priority' = [priority EXCEPT ![t] = MSG_PRIORITY_NORMAL]
  BY DEF Return
<1>3. CallInv'
  BY <1>1, <1>2 DEF CallInv, TypeOK, InCall, Creating
<1>4. UnusedInv'
  BY <1>1, <1>2 DEF UnusedInv, TypeOK, Ids
<1>5. BlocksOfCall' = 0
  BY <1>2 DEF BlocksOfCall
<1>6. /\ pc' \in [Tasks -> {"idle", "enter"} \cup InCall]
      /\ qos' \in [Tasks -> Qualities] /\ priority' \in [Tasks -> Priorities]
  BY <1>2 DEF TypeOK, Qualities, Priorities
<1>7. result' \in [Ids -> {NULL, "OK", "ERR", "NO_MEM"}] /\ msg_id' \in [Tasks -> Ids \cup {NULL}]
  BY <1>1, <1>2 DEF TypeOK
<1>. QED
  BY <1>1, <1>2, <1>3, <1>4, <1>5, <1>6, <1>7

\* The call gives up without a block or a timer, and frees what it has.
LEMMA GiveUpStep ==
  ASSUME HandlerInv, NEW t \in Tasks, MessageFails(t) \/ DataFails(t) \/ TimerFails(t)
  PROVE  HandlerInv'
<1>. USE DEF HandlerInv
<1>. DEFINE blocks == IF pc[t] = "message" THEN 0 ELSE IF pc[t] = "data" THEN 1 ELSE 2
<1>0. /\ pc[t] \in Creating /\ free_cells' = free_cells + blocks
      /\ Return(t, "NO_MEM")
      /\ UNCHANGED <<next_msg_id, pending, armed, retry_count, urgent, queue, in_hand,
                     kind, attempts, delivered>>
  BY DEF MessageFails, DataFails, TimerFails, GiveUp, Creating
<1>1. pc[t] \in InCall
  BY <1>0 DEF InCall, Creating
<1>2. /\ CallInv' /\ UnusedInv'
      /\ lock' \in Tasks \cup {NULL} /\ msg_id' \in [Tasks -> Ids \cup {NULL}]
      /\ pc' \in [Tasks -> {"idle", "enter"} \cup InCall]
      /\ qos' \in [Tasks -> Qualities] /\ priority' \in [Tasks -> Priorities]
      /\ result' \in [Ids -> {NULL, "OK", "ERR", "NO_MEM"}]
      /\ BlocksOfCall' = 0
      /\ lock = t /\ msg_id[t] \in Ids
      /\ result' = [result EXCEPT ![msg_id[t]] = "NO_MEM"]
  BY <1>0, <1>1, ReturnStep
<1>3. /\ msg_id[t] \notin pending /\ result[msg_id[t]] = NULL
      /\ NULL \notin {"OK", "ERR", "NO_MEM"} /\ lock # NULL
  BY <1>0, <1>1, InTheCall DEF CallInv
<1>4. CountInv'
  BY <1>0, <1>2, <1>3 DEF CountInv, TypeOK
<1>5. DeliveryInv'
  BY <1>0, CopiesUnchanged
<1>6. PoolConserved' /\ free_cells' \in Int
  <2>1. BlocksOfCall = blocks
    BY <1>0, <1>2, <1>3 DEF BlocksOfCall, Creating
  <2>2. /\ Cardinality(pending) \in Nat /\ free_cells \in Nat /\ blocks \in Nat
    BY BlocksType, <2>1
  <2>3. /\ free_cells' + 0 + 2 * Cardinality(pending)
             = free_cells + BlocksOfCall + 2 * Cardinality(pending)
        /\ free_cells' \in Int /\ Cardinality(pending') = Cardinality(pending)
    BY <1>0, <2>1, <2>2
  <2>. QED
    BY <1>0, <1>2, <2>2, <2>3, PoolStep
<1>7. free_cells' \in 0..CELLS
  <2>. DEFINE k == Cardinality(pending)
              n == Len(queue)
              h == IF in_hand = NULL THEN 0 ELSE 1
  <2>1. k \in Nat /\ n \in Nat /\ h \in Nat /\ CELLS \in Nat /\ free_cells \in Nat
    BY BlocksType
  <2>2. CELLS = free_cells' + 0 + 2 * k + n + h
    BY <1>0, <1>2, <1>6 DEF PoolConserved
  <2>3. free_cells' = free_cells + blocks /\ blocks \in Nat
    BY <1>0
  <2>. DEFINE rest == 2 * k + n + h
  <2>. HIDE DEF k, n, h, blocks, HandlerInv
  <2>4. free_cells' \in Nat /\ rest \in Nat
    BY <2>1, <2>3
  <2>5. CELLS = free_cells' + rest
    BY <2>1, <2>2, <2>4
  <2>6. ASSUME NEW f \in Nat, NEW r \in Nat, NEW c \in Nat, c = f + r PROVE f \in 0..c
    BY <2>6
  <2>. HIDE DEF rest
  <2>. QED
    BY <2>1, <2>4, <2>5, <2>6
<1>8. TypeOK'
  BY <1>0, <1>2, <1>7 DEF TypeOK
<1>. QED
  BY <1>2, <1>4, <1>5, <1>6, <1>8

\* The counters of a message that is published once more.
LEMMA AttemptStep ==
  ASSUME HandlerInv, NEW x \in Ids, attempts' = [attempts EXCEPT ![x] = @ + 1],
         delivered' = delivered,
         \A m \in Ids : /\ Copies(m) \in Nat /\ Copies(m)' \in Nat
                        /\ Copies(m)' <= Copies(m) + (IF m = x THEN 1 ELSE 0)
  PROVE  DeliveryInv' /\ attempts' \in [Ids -> Nat]
<1>1. ASSUME NEW m \in Ids PROVE delivered'[m] + Copies(m)' <= attempts'[m]
  <2>. DEFINE before == Copies(m)
              after  == Copies(m)'
  <2>1. /\ before \in Nat /\ after \in Nat
        /\ after <= before + (IF m = x THEN 1 ELSE 0)
        /\ delivered[m] + before <= attempts[m]
    BY DEF HandlerInv, DeliveryInv
  <2>2. /\ delivered \in [Ids -> Nat] /\ attempts \in [Ids -> Nat]
        /\ delivered[m] \in Nat /\ attempts[m] \in Nat
    BY DEF HandlerInv, TypeOK
  <2>. HIDE DEF before, after
  <2>3. attempts'[m] = attempts[m] + (IF m = x THEN 1 ELSE 0)
    BY <2>2
  <2>. HIDE DEF before, after
  <2>4. delivered[m] + after <= attempts'[m]
    BY <2>1, <2>2, <2>3
  <2>. QED
    BY <2>4 DEF after
<1>2. attempts' \in [Ids -> Nat]
  BY DEF HandlerInv, TypeOK
<1>. QED
  BY <1>1, <1>2 DEF DeliveryInv

\* The message is published by its call.
LEMMA PublishStep ==
  ASSUME HandlerInv, NEW t \in Tasks, Publish(t)
  PROVE  HandlerInv'
<1>. USE DEF HandlerInv
<1>. DEFINE x == msg_id[t]
            critical == x \in urgent
<1>0. pc[t] = "publish" /\ pc[t] \in InCall
  BY DEF Publish, PublishThen, InCall
<1>1. PICK r \in {"OK", "ERR"} : Return(t, r)
  BY DEF Publish, PublishThen
<1>2. Accepted(x, critical) \/ Refused
  BY DEF Publish, PublishThen
<1>3. /\ attempts' = [attempts EXCEPT ![x] = @ + 1]
      /\ UNCHANGED <<next_msg_id, pending, armed, retry_count, urgent, in_hand, kind, delivered>>
  BY DEF Publish, PublishThen, Attempt
<1>4. /\ CallInv' /\ UnusedInv'
      /\ lock' \in Tasks \cup {NULL} /\ msg_id' \in [Tasks -> Ids \cup {NULL}]
      /\ pc' \in [Tasks -> {"idle", "enter"} \cup InCall]
      /\ qos' \in [Tasks -> Qualities] /\ priority' \in [Tasks -> Priorities]
      /\ result' \in [Ids -> {NULL, "OK", "ERR", "NO_MEM"}]
      /\ BlocksOfCall' = 0
      /\ lock = t /\ x \in Ids
      /\ result' = [result EXCEPT ![x] = r]
  BY <1>0, <1>1, <1>3, ReturnStep
<1>5. /\ result[x] = NULL /\ NULL \notin {"OK", "ERR", "NO_MEM"} /\ lock # NULL
  BY <1>0, InTheCall
<1>6. BlocksOfCall' = BlocksOfCall /\ x \in Messages /\ critical \in BOOLEAN
  BY <1>0, <1>4, <1>5 DEF BlocksOfCall, Messages
<1>7. /\ queue' \in Seq(Messages) /\ Len(queue') <= MAX_QUEUE_SIZE
      /\ free_cells' \in 0..CELLS
      /\ PoolConserved'
      /\ \A m \in Ids : /\ Copies(m) \in Nat /\ Copies(m)' \in Nat
                         /\ Copies(m)' <= Copies(m) + (IF m = x THEN 1 ELSE 0)
  <2>. HIDE DEF x, critical
  <2>. QED
    BY <1>2, <1>3, <1>6, PublishOnce
<1>. HIDE DEF x
<1>8. DeliveryInv' /\ attempts' \in [Ids -> Nat]
  BY <1>3, <1>4, <1>7, AttemptStep
<1>9. TypeOK'
  BY <1>3, <1>4, <1>7, <1>8 DEF TypeOK, Messages
<1>10. CountInv'
  BY <1>3, <1>4, <1>5 DEF CountInv, TypeOK
<1>. QED
  BY <1>4, <1>7, <1>8, <1>9, <1>10

\* A timer publishes its message again.
LEMMA RetryStep ==
  ASSUME HandlerInv, NEW x \in Ids, Retry(x)
  PROVE  HandlerInv'
<1>. USE DEF HandlerInv
<1>. DEFINE critical == x \in urgent
<1>0. /\ NULL \notin Tasks /\ NULL \notin Nat /\ NULL \notin {"OK", "ERR", "NO_MEM"}
      /\ RETRY_COUNT \in Nat
      /\ x \in pending /\ retry_count[x] < RETRY_COUNT
      /\ x \in Messages /\ critical \in BOOLEAN
  BY NullAssumption, LimitsAssumption DEF TypeOK, Retry, Messages
<1>2. Accepted(x, critical) \/ Refused
  BY DEF Retry, Republish
<1>3. /\ attempts' = [attempts EXCEPT ![x] = @ + 1]
      /\ retry_count' = [retry_count EXCEPT ![x] = @ + 1]
      /\ UNCHANGED <<lock, next_msg_id, pending, armed, urgent, pc, qos, priority, msg_id,
                     in_hand, kind, result, delivered>>
  BY DEF Retry, Republish, Attempt, callVars
<1>4. BlocksOfCall' = BlocksOfCall
  BY <1>3 DEF BlocksOfCall
<1>5. /\ queue' \in Seq(Messages) /\ Len(queue') <= MAX_QUEUE_SIZE
      /\ free_cells' \in 0..CELLS
      /\ PoolConserved'
      /\ \A m \in Ids : /\ Copies(m) \in Nat /\ Copies(m)' \in Nat
                         /\ Copies(m)' <= Copies(m) + (IF m = x THEN 1 ELSE 0)
  <2>. HIDE DEF critical
  <2>. QED
    BY <1>0, <1>2, <1>3, <1>4, PublishOnce
<1>6. DeliveryInv' /\ attempts' \in [Ids -> Nat]
  BY <1>3, <1>5, AttemptStep
<1>7. TypeOK'
  <2>1. retry_count' \in [Ids -> Nat]
    BY <1>3 DEF TypeOK
  <2>. QED
    BY <1>3, <1>5, <1>6, <2>1 DEF TypeOK, Messages
<1>8. CallInv' /\ UnusedInv'
  BY <1>3 DEF CallInv, UnusedInv
<1>9. CountInv'
  <2>1. ASSUME NEW m \in Ids
        PROVE  /\ retry_count[m] \in Nat /\ attempts[m] \in Nat
               /\ retry_count'[m] = retry_count[m] + (IF m = x THEN 1 ELSE 0)
               /\ attempts'[m] = attempts[m] + (IF m = x THEN 1 ELSE 0)
    <3>1. retry_count \in [Ids -> Nat] /\ attempts \in [Ids -> Nat]
      BY DEF TypeOK
    <3>. QED
      BY <1>3, <3>1
  <2>. QED
    BY <1>0, <1>3, <2>1 DEF CountInv
<1>. QED
  BY <1>5, <1>6, <1>7, <1>8, <1>9

\* Another publisher puts a message in front of all others.
LEMMA PublishForeignStep ==
  ASSUME HandlerInv, PublishForeign
  PROVE  HandlerInv'
<1>. USE DEF HandlerInv
<1>1. /\ Accepted(Foreign, TRUE) /\ Foreign \in Messages /\ Foreign \notin Ids
      /\ UNCHANGED <<lock, next_msg_id, pending, armed, retry_count, urgent, pc, qos, priority,
                     msg_id, in_hand, kind, result, attempts, delivered>>
  <2>1. Foreign \in Messages /\ Foreign \notin Ids
    BY DEF Messages, Foreign, Ids
  <2>. QED
    BY <2>1 DEF PublishForeign, handlerVars, callVars, historyVars
<1>2. BlocksOfCall' = BlocksOfCall
  BY <1>1 DEF BlocksOfCall
<1>3. /\ queue' \in Seq(Messages) /\ Len(queue') <= MAX_QUEUE_SIZE
      /\ free_cells' \in 0..CELLS
      /\ PoolConserved'
      /\ \A m \in Ids : /\ Copies(m) \in Nat /\ Copies(m)' \in Nat
                         /\ Copies(m)' <= Copies(m) + (IF m = Foreign THEN 1 ELSE 0)
  BY <1>1, <1>2, PublishOnce
<1>4. TypeOK'
  BY <1>1, <1>3 DEF TypeOK, Messages
<1>5. CallInv' /\ UnusedInv' /\ CountInv'
  BY <1>1 DEF CallInv, UnusedInv, CountInv
<1>6. ASSUME NEW m \in Ids PROVE delivered'[m] + Copies(m)' <= attempts'[m]
  <2>. DEFINE before == Copies(m)
              after  == Copies(m)'
  <2>1. before \in Nat /\ after \in Nat /\ after <= before
    BY <1>1, <1>3
  <2>2. delivered[m] + before <= attempts[m] /\ delivered[m] \in Nat /\ attempts[m] \in Nat
    BY DEF DeliveryInv, TypeOK
  <2>. HIDE DEF before, after
  <2>3. delivered[m] + after <= attempts[m]
    BY <2>1, <2>2
  <2>. QED
    BY <1>1, <2>3 DEF after
<1>. QED
  BY <1>3, <1>4, <1>5, <1>6 DEF DeliveryInv

\* The topic task takes the next copy.
LEMMA ReceiveStep ==
  ASSUME HandlerInv, Receive
  PROVE  HandlerInv'
<1>. USE DEF HandlerInv
<1>1. /\ NULL \notin Nat /\ in_hand = NULL /\ queue # <<>> /\ queue \in Seq(Messages)
      /\ in_hand' = Head(queue) /\ queue' = Tail(queue)
      /\ UNCHANGED <<lock, next_msg_id, pending, armed, retry_count, urgent, pc, qos, priority,
                     msg_id, free_cells, kind, result, attempts, delivered>>
  BY NullAssumption DEF Receive, handlerVars, callVars, historyVars, TypeOK, Messages
<1>2. /\ Head(queue) \in Messages /\ Tail(queue) \in Seq(Messages)
      /\ Len(Tail(queue)) = Len(queue) - 1 /\ Len(queue) \in Nat
  BY <1>1, HeadTailProperties, LenProperties
<1>3. Head(queue) # NULL
  BY <1>1, <1>2 DEF Ids, Messages, Foreign
<1>4. TypeOK'
  BY <1>1, <1>2, LimitsAssumption DEF TypeOK, Messages
<1>5. CallInv' /\ UnusedInv' /\ CountInv'
  BY <1>1 DEF CallInv, UnusedInv, CountInv
<1>6. ASSUME NEW m \in Ids PROVE Copies(m)' = Copies(m)
  <2>1. m # NULL
    BY <1>1 DEF Ids
  <2>2. Copies(m) = Occurrences(queue, m) + 0
    BY <1>1, <2>1 DEF Copies, Queued, Occurrences
  <2>3. Copies(m)' = Occurrences(Tail(queue), m) + (IF Head(queue) = m THEN 1 ELSE 0)
    BY <1>1 DEF Copies, Queued, Occurrences
  <2>4. Occurrences(queue, m) = Occurrences(Tail(queue), m) + (IF Head(queue) = m THEN 1 ELSE 0)
    BY <1>1, OccurrencesTail
  <2>5. Occurrences(queue, m) \in Nat
    BY <1>1, PositionsFinite
  <2>. QED
    BY <2>2, <2>3, <2>4, <2>5
<1>7. DeliveryInv'
  BY <1>1, <1>6 DEF DeliveryInv
<1>8. PoolConserved'
  <2>. DEFINE k == Cardinality(pending)
              b == BlocksOfCall
  <2>1. k \in Nat /\ b \in Nat /\ free_cells \in Nat
    BY BlocksType
  <2>2. CELLS = free_cells + b + 2 * k + Len(queue) + 0
    BY <1>1 DEF PoolConserved
  <2>3. PoolConserved' <=> CELLS = free_cells + b + 2 * k + Len(queue') + 1
    BY <1>1, <1>3 DEF PoolConserved, BlocksOfCall
  <2>. HIDE DEF k, b
  <2>. QED
    BY <1>1, <1>2, <2>1, <2>2, <2>3
<1>. QED
  BY <1>4, <1>5, <1>7, <1>8

\* It delivers the copy and frees its block.
LEMMA DeliverStep ==
  ASSUME HandlerInv, Deliver
  PROVE  HandlerInv'
<1>. USE DEF HandlerInv
<1>1. /\ NULL \notin Nat /\ in_hand # NULL /\ in_hand' = NULL
      /\ delivered' = [m \in Ids |-> delivered[m] + (IF m = in_hand THEN 1 ELSE 0)]
      /\ free_cells' = free_cells + 1
      /\ UNCHANGED <<lock, next_msg_id, pending, armed, retry_count, urgent, pc, qos, priority,
                     msg_id, queue, kind, result, attempts>>
  BY NullAssumption DEF Deliver, handlerVars, callVars
<1>2. PoolConserved' /\ free_cells' \in 0..CELLS
  <2>. DEFINE k == Cardinality(pending)
              b == BlocksOfCall
  <2>1. k \in Nat /\ b \in Nat /\ free_cells \in Nat /\ Len(queue) \in Nat /\ CELLS \in Nat
    BY BlocksType
  <2>2. CELLS = free_cells + b + 2 * k + Len(queue) + 1
    BY <1>1 DEF PoolConserved
  <2>3. PoolConserved' <=> CELLS = free_cells' + b + 2 * k + Len(queue) + 0
    BY <1>1 DEF PoolConserved, BlocksOfCall
  <2>. HIDE DEF k, b
  <2>. QED
    BY <1>1, <2>1, <2>2, <2>3
<1>6. TypeOK'
  <2>1. delivered' \in [Ids -> Nat]
    BY <1>1 DEF TypeOK
  <2>. QED
    BY <1>1, <1>2, <2>1 DEF TypeOK
<1>7. CallInv' /\ UnusedInv' /\ CountInv'
  BY <1>1 DEF CallInv, UnusedInv, CountInv
<1>8. ASSUME NEW m \in Ids PROVE delivered'[m] + Copies(m)' <= attempts'[m]
  <2>1. m # NULL
    BY <1>1 DEF Ids
  <2>2. Copies(m)' = Occurrences(queue, m) + 0
    BY <1>1, <2>1 DEF Copies, Queued, Occurrences
  <2>3. /\ Copies(m) = Occurrences(queue, m) + (IF in_hand = m THEN 1 ELSE 0)
        /\ Occurrences(queue, m) \in Nat
    BY CopiesType
  <2>4. delivered[m] \in Nat /\ attempts[m] \in Nat
    BY DEF TypeOK
  <2>5. delivered'[m] = delivered[m] + (IF in_hand = m THEN 1 ELSE 0)
    BY <1>1, <2>4 DEF TypeOK
  <2>6. delivered[m] + Copies(m) <= attempts[m]
    BY DEF DeliveryInv
  <2>. QED
    BY <1>1, <2>2, <2>3, <2>4, <2>5, <2>6
<1>9. DeliveryInv'
  BY <1>8 DEF DeliveryInv
<1>. QED
  BY <1>2, <1>6, <1>7, <1>9

\* A step that changes nothing keeps the invariant.
LEMMA StutterStep ==
  ASSUME HandlerInv, UNCHANGED vars
  PROVE  HandlerInv'
<1>1. DeliveryInv'
  BY CopiesUnchanged DEF vars, busVars, historyVars
<1>. QED
  BY <1>1 DEF HandlerInv, TypeOK, CallInv, UnusedInv, CountInv, PoolConserved, BlocksOfCall,
              vars, handlerVars, callVars, busVars, historyVars

-----------------------------------------------------------------------------
(* The theorems. *)

\* The invariant is inductive: it holds in every state of every behaviour.
THEOREM HandlerInvariance == Spec => []HandlerInv
<1>1. HandlerInv /\ [Next]_vars => HandlerInv'
  <2>. SUFFICES ASSUME HandlerInv, [Next]_vars PROVE HandlerInv'
    OBVIOUS
  <2>1. CASE UNCHANGED vars
    BY <2>1, StutterStep
  <2>2. ASSUME NEW t \in Tasks, NEW q \in Qualities, NEW p \in Priorities, Call(t, q, p)
        PROVE  HandlerInv'
    BY <2>2, CallStep
  <2>3. ASSUME NEW t \in Tasks, TakeLock(t) PROVE HandlerInv'
    BY <2>3, TakeLockStep
  <2>4. ASSUME NEW t \in Tasks, Proceed(t) PROVE HandlerInv'
    BY <2>4, AllocBlockStep, AddPendingStep, GiveUpStep, PublishStep DEF Proceed
  <2>5. ASSUME NEW m \in Ids, Retry(m) PROVE HandlerInv'
    BY <2>5, RetryStep
  <2>6. ASSUME NEW m \in Ids, RetriesExceeded(m) PROVE HandlerInv'
    BY <2>6, StutterStep DEF RetriesExceeded
  <2>7. CASE Receive
    BY <2>7, ReceiveStep
  <2>8. CASE Deliver
    BY <2>8, DeliverStep
  <2>9. CASE PublishForeign
    BY <2>9, PublishForeignStep
  <2>. QED
    BY <2>1, <2>2, <2>3, <2>4, <2>5, <2>6, <2>7, <2>8, <2>9 DEF Next
<1>. QED
  BY InitInv, <1>1, PTL DEF Spec

\* Every variable of the message handler stays in its type.
THEOREM TypeCorrect == Spec => []TypeOK
<1>1. HandlerInv => TypeOK
  BY DEF HandlerInv
<1>. QED
  BY <1>1, HandlerInvariance, PTL

\* A message is published at most once and RETRY_COUNT times more, and never
\* delivered more often than it was published.
THEOREM AttemptsAreBounded == Spec => []AttemptsBounded
<1>1. HandlerInv => AttemptsBounded
  <2>. SUFFICES ASSUME HandlerInv, NEW m \in Ids
                PROVE  /\ attempts[m] <= 1 + RETRY_COUNT
                       /\ delivered[m] + Copies(m) <= attempts[m]
    BY DEF AttemptsBounded
  <2>1. retry_count[m] \in Nat /\ RETRY_COUNT \in Nat
    BY LimitsAssumption DEF HandlerInv, TypeOK
  <2>. QED
    BY <2>1 DEF HandlerInv, CountInv, DeliveryInv
<1>. QED
  BY <1>1, HandlerInvariance, PTL

\* A message of quality AT_MOST_ONCE is never delivered twice.
THEOREM DeliveredAtMostOnce == Spec => []AtMostOnce
<1>1. HandlerInv => AtMostOnce
  <2>. SUFFICES ASSUME HandlerInv, NEW m \in Ids, kind[m] = TOPIC_QOS_AT_MOST_ONCE
                PROVE  delivered[m] + Copies(m) <= 1
    BY DEF AtMostOnce
  <2>1. retry_count[m] \in Nat /\ ~(retry_count[m] > 0)
    BY DEF HandlerInv, CountInv, TypeOK
  <2>2. attempts[m] <= 1
    BY <2>1 DEF HandlerInv, CountInv
  <2>3. delivered[m] + Copies(m) <= attempts[m] /\ delivered[m] \in Nat /\ attempts[m] \in Nat
    BY DEF HandlerInv, DeliveryInv, TypeOK
  <2>4. Copies(m) \in Nat
    BY CopiesType DEF HandlerInv
  <2>. QED
    BY <2>2, <2>3, <2>4
<1>. QED
  BY <1>1, HandlerInvariance, PTL

\* A call that failed with ESP_ERR_NO_MEM leaves no message behind.
THEOREM NoMemLeavesNothing == Spec => []NoMemSilent
<1>1. HandlerInv => NoMemSilent
  <2>. SUFFICES ASSUME HandlerInv, NEW m \in Ids, result[m] = "NO_MEM"
                PROVE  m \notin pending /\ attempts[m] = 0
    BY DEF NoMemSilent
  <2>1. m \notin pending /\ retry_count[m] \in Nat /\ ~(retry_count[m] > 0)
    BY DEF HandlerInv, CountInv, TypeOK
  <2>. QED
    BY <2>1 DEF HandlerInv, CountInv
<1>. QED
  BY <1>1, HandlerInvariance, PTL

\* Every block of the pool is free or belongs to one message or one copy.
THEOREM BlocksConserved == Spec => []PoolConserved
<1>1. HandlerInv => PoolConserved
  BY DEF HandlerInv
<1>. QED
  BY <1>1, HandlerInvariance, PTL

\* No two calls share an id.
THEOREM IdsNotShared == Spec => []IdsUnique
<1>1. HandlerInv => IdsUnique
  BY DEF HandlerInv, CallInv, IdsUnique
<1>. QED
  BY <1>1, HandlerInvariance, PTL
=============================================================================
