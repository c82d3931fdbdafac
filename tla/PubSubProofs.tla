---------------------------- MODULE PubSubProofs ----------------------------
(***************************************************************************)
(* Proofs about PubSub.tla for every number of tasks, topics, subscribers, *)
(* messages and pool blocks.                                               *)
(***************************************************************************)
EXTENDS PubSub, SequenceTheorems, FiniteSetTheorems, TLAPS

-----------------------------------------------------------------------------
(* The strengthening: what a call has established when it is in each place. *)

\* A call that has found its topic is a request of the right kind for a topic
\* that exists.
CallOK ==
  \A t \in Tasks :
    /\ pc[t] # "idle" => call[t] \in Requests
    /\ pc[t] = "send" => call[t].op = "publish" /\ Matches(call[t].name) # {}
    /\ pc[t] = "edit" => /\ call[t].op \in {"subscribe", "unsubscribe"}
                         /\ Matches(call[t].name) # {}

CoreInv == TypeOK /\ CallOK /\ NamesDistinct /\ LockDiscipline /\ ListsConsistent

-----------------------------------------------------------------------------
(* Lemmas about the operators of the model. *)

\* A request has the fields its operation needs.
LEMMA RequestFields ==
  ASSUME NEW r \in Requests
  PROVE  /\ r.name \in Names
         /\ r.op \in {"create", "subscribe", "unsubscribe", "publish"}
         /\ r.op = "publish" => r.payload \in Payloads /\ r.priority \in Priorities
         /\ r.op \in {"subscribe", "unsubscribe"} => r.callback \in Callbacks
<1>1. CASE r \in [op : {"create"}, name : Names]
  BY <1>1
<1>2. CASE r \in [op : {"subscribe", "unsubscribe"}, name : Names, callback : Callbacks]
  BY <1>2
<1>3. CASE r \in [op : {"publish"}, name : Names, payload : Payloads, priority : Priorities]
  BY <1>3
<1>. QED
  BY <1>1, <1>2, <1>3 DEF Requests

\* The lookup finds the one entry that has the name.
LEMMA SlotFound ==
  ASSUME TypeOK, NamesDistinct, NEW n, Matches(n) # {}
  PROVE  /\ Slot(n) \in Slots
         /\ Slot(n) \in 1..topic_count
         /\ name[Slot(n)] = n
         /\ Matches(n) = {Slot(n)}
<1>1. PICK s \in 1..topic_count : name[s] = n
  BY DEF Matches
<1>2. Matches(n) = {s}
  BY <1>1, LimitsAssumption DEF Matches, NamesDistinct, TypeOK
<1>3. Slot(n) = s
  BY <1>2 DEF Slot, TypeOK
<1>. QED
  BY <1>1, <1>2, <1>3, LimitsAssumption DEF TypeOK, Slots

\* Removing an element of a sequence keeps the others in their order.
LEMMA RemoveAtProperties ==
  ASSUME NEW S, NEW seq \in Seq(S), NEW i \in 1..Len(seq)
  PROVE  /\ RemoveAt(seq, i) \in Seq(S)
         /\ Len(RemoveAt(seq, i)) = Len(seq) - 1
         /\ \A j \in 1..(Len(seq) - 1) :
              RemoveAt(seq, i)[j] = IF j < i THEN seq[j] ELSE seq[j + 1]
<1>. DEFINE front == SubSeq(seq, 1, i - 1)
            back  == SubSeq(seq, i + 1, Len(seq))
<1>1. Len(seq) \in Nat /\ \A j \in 1..Len(seq) : seq[j] \in S
  BY LenProperties, ElementOfSeq
<1>2. /\ front \in Seq(S) /\ Len(front) = i - 1
      /\ \A j \in 1..(i - 1) : front[j] = seq[j]
  BY <1>1, SubSeqProperties, Z3
<1>3. /\ back \in Seq(S) /\ Len(back) = Len(seq) - i
      /\ \A j \in 1..(Len(seq) - i) : back[j] = seq[i + j]
  BY <1>1, SubSeqProperties, Z3
<1>. HIDE DEF front, back
<1>4. /\ front \o back \in Seq(S)
      /\ Len(front \o back) = Len(front) + Len(back)
      /\ \A j \in 1..(Len(front) + Len(back)) :
           (front \o back)[j] = IF j <= Len(front) THEN front[j] ELSE back[j - Len(front)]
  BY <1>2, <1>3, ConcatProperties
<1>5. ASSUME NEW j \in 1..(Len(seq) - 1)
      PROVE  (front \o back)[j] = IF j < i THEN seq[j] ELSE seq[j + 1]
  <2>1. CASE j < i
    BY <1>1, <1>2, <1>3, <1>4, <2>1
  <2>2. CASE ~(j < i)
    <3>1. j - (i - 1) \in 1..(Len(seq) - i) /\ i + (j - (i - 1)) = j + 1
      BY <1>1, <2>2
    <3>2. j \in 1..(Len(front) + Len(back)) /\ ~(j <= Len(front))
      BY <1>1, <1>2, <1>3, <2>2
    <3>3. (front \o back)[j] = back[j - (i - 1)]
      BY <1>2, <1>4, <3>2
    <3>4. back[j - (i - 1)] = seq[i + (j - (i - 1))]
      BY <1>3, <3>1
    <3>. QED
      BY <2>2, <3>1, <3>3, <3>4
  <2>. QED
    BY <2>1, <2>2
<1>6. RemoveAt(seq, i) = front \o back
  BY DEF RemoveAt, front, back
<1>7. Len(front) + Len(back) = Len(seq) - 1
  BY <1>1, <1>2, <1>3
<1>. QED
  BY <1>4, <1>5, <1>6, <1>7

\* Creating a topic is the only thing that changes the table of names.
LEMMA NamesFrame ==
  ASSUME [Next]_vars
  PROVE  \/ UNCHANGED <<name, topic_count>>
         \/ \E t \in Tasks : CreateFailed(t) \/ CreateTopic(t)
<1>1. ASSUME NEW t \in Tasks,
             \/ \E r \in Requests : Call(t, r)
             \/ TakeTopicsLock(t) \/ TakeTopicLock(t) \/ TopicNotFound(t) \/ CreateRefused(t)
      PROVE  UNCHANGED <<name, topic_count>>
  BY <1>1 DEF tableVars, Call, TakeTopicsLock, TakeTopicLock, TopicNotFound, CreateRefused
<1>2. ASSUME NEW t \in Tasks,
             PublishAlloc(t) \/ PublishNoMemory(t) \/ PublishSend(t) \/ PublishQueueFull(t)
      PROVE  UNCHANGED <<name, topic_count>>
  BY <1>2 DEF tableVars, PublishAlloc, PublishNoMemory, PublishSend, PublishQueueFull
<1>3. ASSUME NEW t \in Tasks,
             Subscribe(t) \/ SubscribeRefused(t) \/ Unsubscribe(t) \/ NotSubscribed(t)
      PROVE  UNCHANGED <<name, topic_count>>
  BY <1>3 DEF tableVars, Subscribe, SubscribeRefused, Unsubscribe, NotSubscribed
<1>4. ASSUME NEW s \in Slots,
             Receive(s) \/ StartDelivery(s) \/ RunCallback(s) \/ FinishDelivery(s)
      PROVE  UNCHANGED <<name, topic_count>>
  BY <1>4 DEF tableVars, Receive, StartDelivery, RunCallback, FinishDelivery
<1>5. CASE UNCHANGED vars
  BY <1>5 DEF vars, tableVars
<1>. QED
  BY <1>1, <1>2, <1>3, <1>4, <1>5 DEF Next, Proceed

\* A topic that the lookup finds is found in the same slot for ever.
LEMMA LookupStable ==
  ASSUME TypeOK, [Next]_vars, NEW n, Matches(n) # {}
  PROVE  Matches(n)' = Matches(n) /\ Slot(n)' = Slot(n)
<1>1. Matches(n)' = Matches(n)
  <2>1. CASE UNCHANGED <<name, topic_count>>
    BY <2>1 DEF Matches
  <2>2. ASSUME NEW t \in Tasks, CreateFailed(t)
        PROVE  Matches(n)' = Matches(n)
    BY <2>2, LimitsAssumption DEF TypeOK, Slots, CreateFailed, Matches
  <2>3. ASSUME NEW t \in Tasks, CreateTopic(t)
        PROVE  Matches(n)' = Matches(n)
    <3>1. n # call[t].name
      BY <2>3 DEF CreateTopic
    <3>2. /\ topic_count' = topic_count + 1 /\ topic_count + 1 \in Slots
          /\ name' = [name EXCEPT ![topic_count + 1] = call[t].name]
          /\ name \in [Slots -> Names \cup {NULL}]
      BY <2>3, LimitsAssumption DEF TypeOK, Slots, CreateTopic
    <3>3. topic_count \in Nat /\ 1..topic_count \subseteq Slots
      BY LimitsAssumption DEF TypeOK, Slots
    <3>4. \A s \in 1..topic_count : name'[s] = name[s]
      BY <3>2, <3>3
    <3>5. name'[topic_count + 1] # n
      BY <3>1, <3>2
    <3>. QED
      BY <3>2, <3>3, <3>4, <3>5 DEF Matches
  <2>. QED
    BY <2>1, <2>2, <2>3, NamesFrame
<1>. QED
  BY <1>1 DEF Slot

-----------------------------------------------------------------------------
(* Type correctness. *)

\* The initial state is well typed.
LEMMA TypeInit == Init => TypeOK
  BY LimitsAssumption, OwnersAssumption DEF Init, TypeOK, Slots

\* Every step keeps every variable in its type.
LEMMA TypeStep ==
  ASSUME CoreInv, [Next]_vars
  PROVE  TypeOK'
<1>. USE LimitsAssumption, OwnersAssumption
<1>0. TypeOK /\ CallOK /\ NamesDistinct /\ LockDiscipline /\ ListsConsistent
  BY DEF CoreInv
<1>1. ASSUME NEW t \in Tasks, NEW r \in Requests, Call(t, r)
      PROVE  TypeOK'
  BY <1>0, <1>1 DEF TypeOK, Call, tableVars, lockVars, topicVars
<1>2. ASSUME NEW t \in Tasks, TakeTopicsLock(t)
      PROVE  TypeOK'
  BY <1>0, <1>2 DEF TypeOK, TakeTopicsLock, tableVars, topicVars
<1>3. ASSUME NEW t \in Tasks, TakeTopicLock(t)
      PROVE  TypeOK'
  BY <1>0, <1>3 DEF TypeOK, TakeTopicLock, tableVars, topicVars
<1>4. ASSUME NEW t \in Tasks, TopicNotFound(t) \/ CreateRefused(t)
      PROVE  TypeOK'
  BY <1>0, <1>4 DEF TypeOK, TopicNotFound, CreateRefused, ReturnFromCall, tableVars, topicVars
<1>5. ASSUME NEW t \in Tasks, CreateFailed(t)
      PROVE  TypeOK'
  <2>1. call[t].name \in Names
    BY <1>0, <1>5, RequestFields DEF CallOK, CreateFailed
  <2>. QED
    BY <1>0, <1>5, <2>1 DEF TypeOK, CreateFailed, ReturnFromCall, topicVars
<1>6. ASSUME NEW t \in Tasks, CreateTopic(t)
      PROVE  TypeOK'
  <2>1. call[t].name \in Names
    BY <1>0, <1>6, RequestFields DEF CallOK, CreateTopic
  <2>2. topic_count + 1 \in Slots /\ topic_count + 1 \in 0..MAX_TOPICS
    BY <1>0, <1>6 DEF TypeOK, CreateTopic, Slots
  <2>. QED
    BY <1>0, <1>6, <2>1, <2>2 DEF TypeOK, CreateTopic, ReturnFromCall
<1>7. ASSUME NEW t \in Tasks, PublishAlloc(t)
      PROVE  TypeOK'
  <2>1. used' \in SUBSET Cells /\ block' \in [Tasks -> Cells \cup {NULL}]
    <3>1. CASE UNCHANGED <<used, block>>
      BY <1>0, <3>1 DEF TypeOK
    <3>2. ASSUME NEW c \in Cells, used' = used \cup {c}, block' = [block EXCEPT ![t] = c]
          PROVE  used' \in SUBSET Cells /\ block' \in [Tasks -> Cells \cup {NULL}]
      BY <1>0, <3>2 DEF TypeOK
    <3>. QED
      BY <1>7, <3>1, <3>2 DEF PublishAlloc
  <2>2. pc' \in [Tasks -> {"idle", "enter", "locked", "send", "edit"}]
    BY <1>0, <1>7 DEF TypeOK, PublishAlloc
  <2>. QED
    BY <1>0, <1>7, <2>1, <2>2 DEF TypeOK, PublishAlloc, tableVars, lockVars, topicVars
<1>8. ASSUME NEW t \in Tasks, PublishNoMemory(t) \/ PublishQueueFull(t)
      PROVE  TypeOK'
  BY <1>0, <1>8 DEF TypeOK, PublishNoMemory, PublishQueueFull, ReturnFromCall, tableVars, topicVars
<1>9. ASSUME NEW t \in Tasks, PublishSend(t)
      PROVE  TypeOK'
  <2>. DEFINE s == Slot(call[t].name)
              m == [payload |-> call[t].payload, priority |-> call[t].priority,
                    data |-> block[t]]
  <2>1. s \in Slots /\ m \in Msgs
    BY <1>0, <1>9, SlotFound, RequestFields DEF CallOK, PublishSend, Msgs, TypeOK
  <2>2. Enqueue(msg_queue[s], m) \in Seq(Msgs)
    BY <1>0, <2>1 DEF TypeOK, Enqueue
  <2>3. msg_queue' \in [Slots -> Seq(Msgs)]
    BY <1>0, <1>9, <2>1, <2>2 DEF TypeOK, PublishSend
  <2>. QED
    BY <1>0, <1>9, <2>3 DEF TypeOK, PublishSend, ReturnFromCall, topicVars
<1>10. ASSUME NEW t \in Tasks, Subscribe(t)
       PROVE  TypeOK'
  <2>. DEFINE s == Slot(call[t].name)
  <2>1. s \in Slots /\ call[t].callback \in Callbacks
    BY <1>0, <1>10, SlotFound, RequestFields DEF CallOK, Subscribe
  <2>2. ASSUME NEW c \in Cells
        PROVE  <<[callback |-> call[t].callback, node |-> c]>> \o subscribers[s]
                 \in Seq(Subscribers)
    <3>1. <<[callback |-> call[t].callback, node |-> c]>> \in Seq(Subscribers)
      BY <2>1 DEF Subscribers
    <3>. QED
      BY <1>0, <2>1, <3>1, ConcatProperties DEF TypeOK
  <2>3. subscribers' \in [Slots -> Seq(Subscribers)] /\ used' \in SUBSET Cells
    BY <1>0, <1>10, <2>1, <2>2 DEF TypeOK, Subscribe
  <2>4. subscriber_count' \in [Slots -> Nat]
    BY <1>0, <1>10, <2>1 DEF TypeOK, Subscribe
  <2>. QED
    BY <1>0, <1>10, <2>3, <2>4 DEF TypeOK, Subscribe, GiveTopicLock, ReturnFromCall, topicVars
<1>11. ASSUME NEW t \in Tasks, SubscribeRefused(t) \/ NotSubscribed(t)
       PROVE  TypeOK'
  BY <1>0, <1>11 DEF TypeOK, SubscribeRefused, NotSubscribed, GiveTopicLock, ReturnFromCall,
                     tableVars, topicVars
<1>12. ASSUME NEW t \in Tasks, Unsubscribe(t)
       PROVE  TypeOK'
  <2>. DEFINE s == Slot(call[t].name)
  <2>1. s \in Slots
    BY <1>0, <1>12, SlotFound DEF CallOK, Unsubscribe
  <2>2. PICK i \in DOMAIN subscribers[s] :
          /\ used' = used \ {subscribers[s][i].node}
          /\ subscribers' = [subscribers EXCEPT ![s] = RemoveAt(@, i)]
    BY <1>12 DEF Unsubscribe
  <2>3. RemoveAt(subscribers[s], i) \in Seq(Subscribers) /\ Len(subscribers[s]) >= 1
    BY <1>0, <2>1, <2>2, RemoveAtProperties, LenProperties DEF TypeOK
  <2>4. subscriber_count' \in [Slots -> Nat]
    BY <1>0, <1>12, <2>1, <2>3 DEF TypeOK, ListsConsistent, Unsubscribe
  <2>. QED
    BY <1>0, <1>12, <2>1, <2>2, <2>3, <2>4
    DEF TypeOK, Unsubscribe, GiveTopicLock, ReturnFromCall, topicVars
<1>13. ASSUME NEW s \in Slots, Receive(s)
       PROVE  TypeOK'
  <2>1. Head(msg_queue[s]) \in Msgs /\ Tail(msg_queue[s]) \in Seq(Msgs)
    BY <1>0, <1>13 DEF TypeOK, Receive
  <2>. QED
    BY <1>0, <1>13, <2>1 DEF TypeOK, Receive, lockVars, taskVars
<1>14. ASSUME NEW s \in Slots, NEW i
       PROVE  NodeAt(s, i) \in Cells \cup {NULL}
  <2>1. CASE i \in DOMAIN subscribers[s]
    <3>1. subscribers[s][i] \in Subscribers
      BY <1>0, <2>1, ElementOfSeq, LenProperties DEF TypeOK
    <3>. QED
      BY <2>1, <3>1 DEF NodeAt, Subscribers
  <2>. QED
    BY <2>1 DEF NodeAt
<1>15. ASSUME NEW s \in Slots, StartDelivery(s)
       PROVE  TypeOK'
  <2>1. NodeAt(s, 1) \in Cells \cup {NULL}
    BY <1>14
  <2>. QED
    BY <1>0, <1>15, <2>1 DEF TypeOK, StartDelivery, tableVars, taskVars
<1>16. ASSUME NEW s \in Slots, RunCallback(s)
       PROVE  TypeOK'
  <2>1. NodeAt(s, Position(s) + 1) \in Cells \cup {NULL}
    BY <1>14
  <2>. QED
    BY <1>0, <1>16, <2>1 DEF TypeOK, RunCallback, tableVars, lockVars, taskVars
<1>17. ASSUME NEW s \in Slots, FinishDelivery(s)
       PROVE  TypeOK'
  BY <1>0, <1>17 DEF TypeOK, FinishDelivery, GiveTopicLock, tableVars, taskVars
<1>18. CASE UNCHANGED vars
  BY <1>0, <1>18 DEF TypeOK, vars, tableVars, lockVars, taskVars, topicVars
<1>. QED
  BY <1>1, <1>2, <1>3, <1>4, <1>5, <1>6, <1>7, <1>8, <1>9, <1>10, <1>11, <1>12,
     <1>13, <1>15, <1>16, <1>17, <1>18 DEF Next, Proceed

-----------------------------------------------------------------------------
(* The other parts of the inductive invariant. *)

\* Creating a topic never duplicates a name, not even after a creation that
\* failed half-way.
LEMMA NamesStep ==
  ASSUME CoreInv, [Next]_vars
  PROVE  NamesDistinct'
<1>0. TypeOK /\ NamesDistinct
  BY DEF CoreInv
<1>1. CASE UNCHANGED <<name, topic_count>>
  BY <1>0, <1>1 DEF NamesDistinct
<1>2. ASSUME NEW t \in Tasks, CreateFailed(t)
      PROVE  NamesDistinct'
  BY <1>0, <1>2, LimitsAssumption DEF NamesDistinct, TypeOK, Slots, CreateFailed
<1>3. ASSUME NEW t \in Tasks, CreateTopic(t)
      PROVE  NamesDistinct'
  <2>1. \A s \in 1..topic_count : name[s] # call[t].name
    BY <1>3 DEF CreateTopic, Matches
  <2>2. /\ topic_count \in Nat /\ topic_count' = topic_count + 1
        /\ name'[topic_count + 1] = call[t].name
        /\ \A s \in 1..topic_count : name'[s] = name[s]
    BY <1>0, <1>3, LimitsAssumption DEF TypeOK, Slots, CreateTopic
  <2>. QED
    BY <1>0, <2>1, <2>2 DEF NamesDistinct
<1>. QED
  BY <1>1, <1>2, <1>3, NamesFrame

\* A call that has found its topic keeps it: topics are never removed.
LEMMA CallStep ==
  ASSUME CoreInv, [Next]_vars
  PROVE  CallOK'
<1>0. TypeOK /\ CallOK
  BY DEF CoreInv
<1>1. \A n : Matches(n) # {} => Matches(n)' # {}
  BY <1>0, LookupStable
<1>2. ASSUME NEW t \in Tasks, ReturnFromCall(t)
      PROVE  CallOK'
  BY <1>0, <1>1, <1>2 DEF CallOK, TypeOK, ReturnFromCall
<1>3. CASE UNCHANGED <<pc, call>>
  BY <1>0, <1>1, <1>3 DEF CallOK
<1>4. ASSUME NEW t \in Tasks, NEW r \in Requests, Call(t, r)
      PROVE  CallOK'
  BY <1>0, <1>1, <1>4 DEF CallOK, TypeOK, Call
<1>5. ASSUME NEW t \in Tasks, TakeTopicsLock(t) \/ TakeTopicLock(t) \/ PublishAlloc(t)
      PROVE  CallOK'
  BY <1>0, <1>1, <1>5 DEF CallOK, TypeOK, TakeTopicsLock, TakeTopicLock, PublishAlloc
<1>. QED
  BY <1>2, <1>3, <1>4, <1>5
  DEF Next, Proceed, vars, taskVars, TopicNotFound, CreateRefused, CreateFailed, CreateTopic,
      PublishNoMemory, PublishSend, PublishQueueFull, Subscribe, SubscribeRefused,
      Unsubscribe, NotSubscribed, Receive, StartDelivery, RunCallback, FinishDelivery

\* Every step hands the two levels of locks over as LockDiscipline says.
LEMMA LockStep ==
  ASSUME CoreInv, [Next]_vars
  PROVE  LockDiscipline'
<1>. USE OwnersAssumption
<1>0. TypeOK /\ CallOK /\ NamesDistinct /\ LockDiscipline
  BY DEF CoreInv
<1>1. \A n : Matches(n) # {} => Slot(n)' = Slot(n) /\ Slot(n) \in Slots
  BY <1>0, LookupStable, SlotFound
<1>2. ASSUME NEW t \in Tasks,
             \/ \E r \in Requests : Call(t, r)
             \/ TakeTopicsLock(t) \/ PublishAlloc(t)
      PROVE  LockDiscipline'
  BY <1>0, <1>1, <1>2
  DEF LockDiscipline, CallOK, TypeOK, Call, TakeTopicsLock, PublishAlloc, lockVars, topicVars
<1>3. ASSUME NEW t \in Tasks, TakeTopicLock(t)
      PROVE  LockDiscipline'
  BY <1>0, <1>1, <1>3 DEF LockDiscipline, CallOK, TypeOK, TakeTopicLock, topicVars
<1>4. ASSUME NEW t \in Tasks,
             \/ TopicNotFound(t) \/ CreateRefused(t) \/ CreateFailed(t)
             \/ PublishNoMemory(t) \/ PublishSend(t) \/ PublishQueueFull(t)
      PROVE  LockDiscipline'
  <2>1. /\ pc[t] \in {"locked", "send"} /\ ReturnFromCall(t)
        /\ UNCHANGED <<lock, worker>>
    BY <1>4 DEF TopicNotFound, CreateRefused, CreateFailed, PublishNoMemory,
                PublishSend, PublishQueueFull, topicVars
  <2>. QED
    BY <1>0, <1>1, <2>1 DEF LockDiscipline, CallOK, TypeOK, ReturnFromCall
<1>5. ASSUME NEW t \in Tasks, CreateTopic(t)
      PROVE  LockDiscipline'
  BY <1>0, <1>1, <1>5, LimitsAssumption
  DEF LockDiscipline, CallOK, TypeOK, Slots, CreateTopic, ReturnFromCall
<1>6. ASSUME NEW t \in Tasks,
             Subscribe(t) \/ SubscribeRefused(t) \/ Unsubscribe(t) \/ NotSubscribed(t)
      PROVE  LockDiscipline'
  <2>1. /\ pc[t] = "edit" /\ ReturnFromCall(t) /\ GiveTopicLock(Slot(call[t].name))
        /\ UNCHANGED worker
    BY <1>6 DEF Subscribe, SubscribeRefused, Unsubscribe, NotSubscribed, topicVars
  <2>. QED
    BY <1>0, <1>1, <2>1 DEF LockDiscipline, CallOK, TypeOK, ReturnFromCall, GiveTopicLock
<1>7. ASSUME NEW s \in Slots,
             Receive(s) \/ StartDelivery(s) \/ RunCallback(s) \/ FinishDelivery(s)
      PROVE  LockDiscipline'
  <2>1. UNCHANGED <<topics_lock, pc, call>>
    BY <1>7 DEF Receive, StartDelivery, RunCallback, FinishDelivery, lockVars, taskVars
  <2>2. \A t \in Tasks : pc[t] = "edit" => Slot(call[t].name)' = Slot(call[t].name)
    BY <1>0, <1>1, <2>1 DEF CallOK
  <2>3. /\ \A r \in Slots \ {s} : lock'[r] = lock[r] /\ worker'[r] = worker[r]
        /\ lock'[s] = TOPIC_TASK <=> worker'[s] = "deliver"
        /\ \A t \in Tasks : lock'[s] = t <=> lock[s] = t
    <3>1. CASE Receive(s) \/ RunCallback(s)
      BY <1>0, <3>1 DEF LockDiscipline, TypeOK, Receive, RunCallback, lockVars
    <3>2. CASE StartDelivery(s)
      BY <1>0, <3>2 DEF TypeOK, StartDelivery
    <3>3. CASE FinishDelivery(s)
      BY <1>0, <3>3 DEF LockDiscipline, TypeOK, FinishDelivery, GiveTopicLock
    <3>. QED
      BY <1>7, <3>1, <3>2, <3>3
  <2>. QED
    BY <1>0, <2>1, <2>2, <2>3 DEF LockDiscipline
<1>8. CASE UNCHANGED vars
  BY <1>0, <1>1, <1>8
  DEF LockDiscipline, CallOK, vars, lockVars, taskVars, topicVars
<1>. QED
  BY <1>2, <1>3, <1>4, <1>5, <1>6, <1>7, <1>8 DEF Next, Proceed

\* subscriber_count follows the list, and no callback enters a list twice.
LEMMA ListsStep ==
  ASSUME CoreInv, [Next]_vars
  PROVE  ListsConsistent'
<1>0. TypeOK /\ CallOK /\ NamesDistinct /\ ListsConsistent
  BY DEF CoreInv
<1>1. CASE UNCHANGED <<subscribers, subscriber_count>>
  BY <1>0, <1>1 DEF ListsConsistent
<1>2. ASSUME NEW t \in Tasks, CreateTopic(t)
      PROVE  ListsConsistent'
  BY <1>0, <1>2, EmptySeq DEF ListsConsistent, TypeOK, CreateTopic
<1>3. ASSUME NEW t \in Tasks, Subscribe(t)
      PROVE  ListsConsistent'
  <2>. DEFINE s == Slot(call[t].name)
  <2>1. s \in Slots /\ call[t].callback \in Callbacks
    BY <1>0, <1>3, SlotFound, RequestFields DEF CallOK, Subscribe
  <2>2. PICK c \in Cells :
          subscribers' = [subscribers EXCEPT ![s] =
                            <<[callback |-> call[t].callback, node |-> c]>> \o @]
    BY <1>3 DEF Subscribe
  <2>. DEFINE new == <<[callback |-> call[t].callback, node |-> c]>>
  <2>3. new \in Seq(Subscribers) /\ Len(new) = 1 /\ new[1].callback = call[t].callback
    BY <2>1 DEF Subscribers
  <2>. HIDE DEF new
  <2>4. /\ new \o subscribers[s] \in Seq(Subscribers)
        /\ Len(new \o subscribers[s]) = 1 + Len(subscribers[s])
        /\ \A i \in 1..(1 + Len(subscribers[s])) :
             (new \o subscribers[s])[i] = IF i <= 1 THEN new[i] ELSE subscribers[s][i - 1]
    <3>1. subscribers[s] \in Seq(Subscribers) /\ Len(subscribers[s]) \in Nat
      BY <1>0, <2>1, LenProperties DEF TypeOK
    <3>2. /\ new \o subscribers[s] \in Seq(Subscribers)
          /\ Len(new \o subscribers[s]) = Len(new) + Len(subscribers[s])
          /\ \A i \in 1..(Len(new) + Len(subscribers[s])) :
               (new \o subscribers[s])[i] =
                 IF i <= Len(new) THEN new[i] ELSE subscribers[s][i - Len(new)]
      BY <2>3, <3>1, ConcatProperties
    <3>. QED
      BY <2>3, <3>1, <3>2
  <2>5. subscribers'[s] = new \o subscribers[s]
    BY <1>0, <2>1, <2>2 DEF TypeOK, new
  <2>6. \A r \in Slots \ {s} : /\ subscribers'[r] = subscribers[r]
                               /\ subscriber_count'[r] = subscriber_count[r]
    BY <1>0, <1>3, <2>1, <2>2 DEF TypeOK, Subscribe
  <2>7. subscriber_count'[s] = Len(subscribers'[s])
    BY <1>0, <1>3, <2>1, <2>4, <2>5 DEF ListsConsistent, TypeOK, Subscribe
  <2>8. \A i \in DOMAIN subscribers[s] : subscribers[s][i].callback # call[t].callback
    BY <1>3 DEF Subscribe, Subscribed
  <2>9. \A i, j \in DOMAIN subscribers'[s] :
          subscribers'[s][i].callback = subscribers'[s][j].callback => i = j
    <3>1. /\ DOMAIN subscribers[s] = 1..Len(subscribers[s]) /\ Len(subscribers[s]) \in Nat
          /\ DOMAIN subscribers'[s] = 1..(1 + Len(subscribers[s]))
      BY <1>0, <2>1, <2>4, <2>5, LenProperties DEF TypeOK
    <3>2. ASSUME NEW i \in DOMAIN subscribers'[s]
          PROVE  /\ i = 1 => subscribers'[s][i].callback = call[t].callback
                 /\ i # 1 => /\ i - 1 \in DOMAIN subscribers[s]
                             /\ subscribers'[s][i] = subscribers[s][i - 1]
      BY <2>3, <2>4, <2>5, <3>1
    <3>. SUFFICES ASSUME NEW i \in DOMAIN subscribers'[s], NEW j \in DOMAIN subscribers'[s],
                         subscribers'[s][i].callback = subscribers'[s][j].callback
                  PROVE  i = j
      OBVIOUS
    <3>3. CASE i # 1 /\ j # 1
      <4>1. i - 1 = j - 1
        BY <1>0, <2>1, <3>2, <3>3 DEF ListsConsistent
      <4>. QED
        BY <3>1, <4>1
    <3>4. CASE i = 1 \/ j = 1
      BY <2>8, <3>2, <3>4
    <3>. QED
      BY <3>3, <3>4
  <2>. QED
    BY <1>0, <2>6, <2>7, <2>9 DEF ListsConsistent
<1>4. ASSUME NEW t \in Tasks, Unsubscribe(t)
      PROVE  ListsConsistent'
  <2>. DEFINE s == Slot(call[t].name)
  <2>1. s \in Slots
    BY <1>0, <1>4, SlotFound DEF CallOK, Unsubscribe
  <2>2. PICK i \in DOMAIN subscribers[s] :
          subscribers' = [subscribers EXCEPT ![s] = RemoveAt(@, i)]
    BY <1>4 DEF Unsubscribe
  <2>3. /\ subscribers'[s] = RemoveAt(subscribers[s], i)
        /\ \A r \in Slots \ {s} : /\ subscribers'[r] = subscribers[r]
                                  /\ subscriber_count'[r] = subscriber_count[r]
    BY <1>0, <1>4, <2>1, <2>2 DEF TypeOK, Unsubscribe
  <2>4. /\ DOMAIN subscribers[s] = 1..Len(subscribers[s]) /\ Len(subscribers[s]) \in Nat
        /\ subscribers[s] \in Seq(Subscribers)
    BY <1>0, <2>1, LenProperties DEF TypeOK
  <2>5. /\ DOMAIN subscribers'[s] = 1..(Len(subscribers[s]) - 1)
        /\ Len(subscribers'[s]) = Len(subscribers[s]) - 1
        /\ \A j \in 1..(Len(subscribers[s]) - 1) :
             subscribers'[s][j] = IF j < i THEN subscribers[s][j] ELSE subscribers[s][j + 1]
    BY <2>2, <2>3, <2>4, RemoveAtProperties, LenProperties
  <2>6. subscriber_count'[s] = Len(subscribers'[s])
    BY <1>0, <1>4, <2>1, <2>5 DEF ListsConsistent, TypeOK, Unsubscribe
  <2>7. ASSUME NEW j \in DOMAIN subscribers'[s], NEW k \in DOMAIN subscribers'[s],
               subscribers'[s][j].callback = subscribers'[s][k].callback
        PROVE  j = k
    <3>. DEFINE old(x) == IF x < i THEN x ELSE x + 1
    <3>1. ASSUME NEW x \in DOMAIN subscribers'[s]
          PROVE  old(x) \in DOMAIN subscribers[s] /\ subscribers'[s][x] = subscribers[s][old(x)]
      <4>1. CASE x < i
        BY <2>2, <2>4, <2>5, <4>1
      <4>2. CASE ~(x < i)
        BY <2>2, <2>4, <2>5, <4>2
      <4>. QED
        BY <4>1, <4>2
    <3>2. old(j) = old(k)
      <4>1. subscribers[s][old(j)].callback = subscribers[s][old(k)].callback
        BY <2>7, <3>1
      <4>. QED
        BY <1>0, <2>1, <3>1, <4>1 DEF ListsConsistent
    <3>. QED
      BY <2>2, <2>4, <2>5, <3>2
  <2>. QED
    BY <1>0, <2>3, <2>6, <2>7 DEF ListsConsistent
<1>. QED
  BY <1>1, <1>2, <1>3, <1>4
  DEF Next, Proceed, vars, tableVars, Call, TakeTopicsLock, TakeTopicLock, TopicNotFound,
      CreateRefused, CreateFailed, PublishAlloc, PublishNoMemory, PublishSend,
      PublishQueueFull, SubscribeRefused, NotSubscribed, Receive, StartDelivery, RunCallback,
      FinishDelivery

\* No step takes the node under a delivery's cursor out of its list.
LEMMA CursorStep ==
  ASSUME CoreInv, CursorInList, [Next]_vars
  PROVE  CursorInList'
<1>. USE OwnersAssumption
<1>0. TypeOK /\ CallOK /\ NamesDistinct /\ LockDiscipline
  BY DEF CoreInv
<1>1. CASE UNCHANGED <<subscribers, worker, current>>
  BY <1>1 DEF CursorInList
<1>2. ASSUME NEW t \in Tasks, CreateTopic(t)
      PROVE  CursorInList'
  BY <1>0, <1>2, LimitsAssumption DEF CursorInList, TypeOK, Slots, CreateTopic
<1>3. ASSUME NEW t \in Tasks, Subscribe(t) \/ Unsubscribe(t)
      PROVE  CursorInList'
  <2>1. worker[Slot(call[t].name)] # "deliver"
    <3>1. pc[t] = "edit"
      BY <1>3 DEF Subscribe, Unsubscribe
    <3>2. Slot(call[t].name) \in Slots
      BY <1>0, <3>1, SlotFound DEF CallOK
    <3>3. lock[Slot(call[t].name)] = t
      BY <1>0, <3>1, <3>2 DEF LockDiscipline
    <3>. QED
      BY <1>0, <3>2, <3>3 DEF LockDiscipline
  <2>2. /\ UNCHANGED <<worker, current>>
        /\ \A s \in Slots : s # Slot(call[t].name) => subscribers'[s] = subscribers[s]
    BY <1>0, <1>3 DEF TypeOK, Subscribe, Unsubscribe, topicVars
  <2>. QED
    BY <2>1, <2>2 DEF CursorInList
<1>4. ASSUME NEW s \in Slots, Receive(s) \/ FinishDelivery(s)
      PROVE  CursorInList'
  BY <1>0, <1>4 DEF CursorInList, TypeOK, Receive, FinishDelivery, tableVars
<1>5. ASSUME NEW s \in Slots, NEW i, current' = [current EXCEPT ![s] = NodeAt(s, i)],
             UNCHANGED subscribers, \A r \in Slots \ {s} : worker'[r] = worker[r]
      PROVE  CursorInList'
  BY <1>0, <1>5 DEF CursorInList, TypeOK, NodeAt
<1>6. ASSUME NEW s \in Slots, StartDelivery(s) \/ RunCallback(s)
      PROVE  CursorInList'
  BY <1>0, <1>5, <1>6 DEF TypeOK, StartDelivery, RunCallback, tableVars
<1>. QED
  BY <1>1, <1>2, <1>3, <1>4, <1>6
  DEF Next, Proceed, vars, tableVars, topicVars, Call, TakeTopicsLock, TakeTopicLock,
      TopicNotFound, CreateRefused, CreateFailed, PublishAlloc, PublishNoMemory,
      PublishSend, PublishQueueFull, SubscribeRefused, NotSubscribed

-----------------------------------------------------------------------------
(* The pool's blocks.  A step moves blocks between the places that refer to    *)
(* them; each place that refers to a block after the step took it over from a  *)
(* place of its own before the step, or refers to the block just allocated.    *)

\* What the places are when they refer to nothing, and how many there are.
PlacesOK ==
  /\ \A t \in Tasks : block[t] # NULL => pc[t] = "send"
  /\ \A s \in Slots :
       /\ msg[s] = NULL <=> worker[s] \in {"none", "receive"}
       /\ Len(msg_queue[s]) <= MAX_QUEUE_SIZE
       /\ Len(subscribers[s]) <= MAX_SUBSCRIBERS_PER_TOPIC
       /\ s > topic_count => /\ msg_queue[s] = <<>>
                             /\ subscribers[s] = <<>>
                             /\ worker[s] = "none"

Blocks == [r \in References |-> Block(r)]

\* The places R, of which r refers to b[r], own the blocks in U.
Owned(R, b, U) ==
  /\ U = {b[r] : r \in R} \ {NULL}
  /\ \A r1, r2 \in R : b[r1] = b[r2] /\ b[r1] # NULL => r1 = r2

\* What each of the four kinds of places refers to.
BlocksByKind ==
  /\ \A s \in Slots, i \in 1..MAX_QUEUE_SIZE :
       /\ <<"queue", s, i>> \in References
       /\ Blocks[<<"queue", s, i>>] = IF i \in DOMAIN msg_queue[s] THEN msg_queue[s][i].data ELSE NULL
  /\ \A s \in Slots, i \in 1..MAX_SUBSCRIBERS_PER_TOPIC :
       /\ <<"list", s, i>> \in References
       /\ Blocks[<<"list", s, i>>] = NodeAt(s, i)
  /\ \A s \in Slots :
       /\ <<"topic_task", s>> \in References
       /\ Blocks[<<"topic_task", s>>] = IF msg[s] = NULL THEN NULL ELSE msg[s].data
  /\ \A t \in Tasks :
       /\ <<"caller", t>> \in References
       /\ Blocks[<<"caller", t>>] = block[t]

\* It is what Block says.
LEMMA BlocksOf == BlocksByKind
<1>1. ASSUME NEW s \in Slots, NEW i \in 1..MAX_QUEUE_SIZE
      PROVE  /\ <<"queue", s, i>> \in References
             /\ Block(<<"queue", s, i>>) = IF i \in DOMAIN msg_queue[s] THEN msg_queue[s][i].data ELSE NULL
  BY DEF References, Block
<1>2. ASSUME NEW s \in Slots, NEW i \in 1..MAX_SUBSCRIBERS_PER_TOPIC
      PROVE  /\ <<"list", s, i>> \in References
             /\ Block(<<"list", s, i>>) = NodeAt(s, i)
  BY DEF References, Block
<1>3. ASSUME NEW s \in Slots
      PROVE  /\ <<"topic_task", s>> \in References
             /\ Block(<<"topic_task", s>>) = IF msg[s] = NULL THEN NULL ELSE msg[s].data
  BY DEF References, Block
<1>4. ASSUME NEW t \in Tasks
      PROVE  /\ <<"caller", t>> \in References
             /\ Block(<<"caller", t>>) = block[t]
  BY DEF References, Block
<1>. QED
  BY <1>1, <1>2, <1>3, <1>4 DEF Blocks, BlocksByKind

\* It is so after every step too.
LEMMA BlocksOfNext == BlocksByKind'
  BY BlocksOf, PTL

\* Every place is of one of the four kinds.
LEMMA PlaceKinds ==
  ASSUME NEW r \in References
  PROVE  \/ \E s \in Slots, i \in 1..MAX_QUEUE_SIZE : r = <<"queue", s, i>>
         \/ \E s \in Slots, i \in 1..MAX_SUBSCRIBERS_PER_TOPIC : r = <<"list", s, i>>
         \/ \E s \in Slots : r = <<"topic_task", s>>
         \/ \E t \in Tasks : r = <<"caller", t>>
  BY DEF References

\* PoolOwnership is ownership by the places, before a step and after it.
LEMMA OwnershipOf ==
  /\ PoolOwnership <=> Owned(References, Blocks, used)
  /\ PoolOwnership' <=> Owned(References, Blocks', used')
<1>1. \A r \in References : Blocks[r] = Block(r) /\ Blocks'[r] = Block(r)'
  BY DEF Blocks
<1>2. References' = References
  BY DEF References, Slots
<1>. QED
  BY <1>1, <1>2 DEF PoolOwnership, Owned

\* Blocks change hands, and the block gone, if it is one, is given back.
LEMMA BlocksMoved ==
  ASSUME PoolOwnership, NEW gone, used' = used \ {gone}, NEW from,
         \A r \in References : Blocks'[r] # NULL =>
           /\ from[r] \in References /\ Blocks[from[r]] = Blocks'[r]
           /\ Blocks'[r] # gone,
         \A r1, r2 \in References :
           Blocks'[r1] # NULL /\ Blocks'[r2] # NULL /\ from[r1] = from[r2] => r1 = r2,
         \A r \in References : Blocks[r] # NULL /\ Blocks[r] # gone =>
           \E q \in References : Blocks'[q] = Blocks[r]
  PROVE  PoolOwnership'
<1>1. /\ used = {Blocks[r] : r \in References} \ {NULL}
      /\ \A r1, r2 \in References : Blocks[r1] = Blocks[r2] /\ Blocks[r1] # NULL => r1 = r2
  BY OwnershipOf DEF Owned
<1>2. used' = {Blocks'[r] : r \in References} \ {NULL}
  BY <1>1
<1>3. \A r1, r2 \in References : Blocks'[r1] = Blocks'[r2] /\ Blocks'[r1] # NULL => r1 = r2
  BY <1>1
<1>. QED
  BY <1>2, <1>3, OwnershipOf DEF Owned

\* Blocks change hands, and the place at refers to a block that was free.
LEMMA BlockAdded ==
  ASSUME PoolOwnership, NEW new, new \notin used, new # NULL, used' = used \cup {new},
         NEW at \in References, Blocks'[at] = new, NEW from,
         \A r \in References \ {at} : Blocks'[r] # NULL =>
           from[r] \in References /\ Blocks[from[r]] = Blocks'[r],
         \A r1, r2 \in References \ {at} :
           Blocks'[r1] # NULL /\ Blocks'[r2] # NULL /\ from[r1] = from[r2] => r1 = r2,
         \A r \in References : Blocks[r] # NULL =>
           \E q \in References : Blocks'[q] = Blocks[r]
  PROVE  PoolOwnership'
<1>1. /\ used = {Blocks[r] : r \in References} \ {NULL}
      /\ \A r1, r2 \in References : Blocks[r1] = Blocks[r2] /\ Blocks[r1] # NULL => r1 = r2
  BY OwnershipOf DEF Owned
<1>2. used' = {Blocks'[r] : r \in References} \ {NULL}
  BY <1>1
<1>3. \A r \in References \ {at} : Blocks'[r] # new
  BY <1>1
<1>4. \A r1, r2 \in References : Blocks'[r1] = Blocks'[r2] /\ Blocks'[r1] # NULL => r1 = r2
  BY <1>1, <1>3
<1>. QED
  BY <1>2, <1>4, OwnershipOf DEF Owned

\* A place whose variable a step leaves alone refers to what it referred to.
LEMMA BlockKept ==
  ASSUME NEW r \in References,
         \A s \in Slots, i \in 1..MAX_QUEUE_SIZE :
           r = <<"queue", s, i>> => msg_queue'[s] = msg_queue[s],
         \A s \in Slots, i \in 1..MAX_SUBSCRIBERS_PER_TOPIC :
           r = <<"list", s, i>> => subscribers'[s] = subscribers[s],
         \A s \in Slots : r = <<"topic_task", s>> => msg'[s] = msg[s],
         \A t \in Tasks : r = <<"caller", t>> => block'[t] = block[t]
  PROVE  Blocks'[r] = Blocks[r]
  BY PlaceKinds, BlocksOf, BlocksOfNext DEF BlocksByKind, NodeAt

\* A step that moves no block keeps the pool owned.
LEMMA OwnershipFrame ==
  ASSUME PoolOwnership, UNCHANGED <<subscribers, msg_queue, msg, block, used>>
  PROVE  PoolOwnership'
<1>1. Blocks' = Blocks
  BY DEF Blocks, Block, NodeAt, References, Slots
<1>. QED
  BY <1>1, OwnershipOf

\* The copy of a message's data belongs to the publisher that allocated it.
LEMMA PublishAllocOwns ==
  ASSUME CoreInv, PlacesOK, PoolOwnership, NEW t \in Tasks, PublishAlloc(t)
  PROVE  PoolOwnership'
<1>. USE OwnersAssumption
<1>0. TypeOK
  BY DEF CoreInv
<1>1. CASE UNCHANGED <<used, block>>
  BY <1>1, OwnershipFrame DEF PublishAlloc, tableVars, topicVars
<1>2. ASSUME NEW c \in Cells \ used, used' = used \cup {c}, block' = [block EXCEPT ![t] = c]
      PROVE  PoolOwnership'
  <2>. DEFINE at   == <<"caller", t>>
              from == [r \in References |-> r]
  <2>1. UNCHANGED <<subscribers, msg_queue, msg>>
    BY DEF PublishAlloc, tableVars, topicVars
  <2>2. at \in References /\ Blocks[at] = NULL /\ Blocks'[at] = c
    BY <1>0, <1>2, BlocksOf, BlocksOfNext DEF BlocksByKind, PlacesOK, PublishAlloc, TypeOK
  <2>3. ASSUME NEW r \in References, r # at
        PROVE  Blocks'[r] = Blocks[r]
    BY <1>0, <1>2, <2>1, <2>3, BlockKept DEF TypeOK
  <2>4. c # NULL
    BY <1>2
  <2>5. /\ \A r \in References \ {at} : from[r] = r /\ Blocks'[r] = Blocks[r]
        /\ \A r \in References : Blocks[r] # NULL => Blocks'[r] = Blocks[r]
    BY <2>2, <2>3
  <2>. HIDE DEF at, from
  <2>6. /\ \A r \in References \ {at} :
             Blocks'[r] # NULL => from[r] \in References /\ Blocks[from[r]] = Blocks'[r]
        /\ \A r1, r2 \in References \ {at} :
             Blocks'[r1] # NULL /\ Blocks'[r2] # NULL /\ from[r1] = from[r2] => r1 = r2
        /\ \A r \in References : Blocks[r] # NULL => \E q \in References : Blocks'[q] = Blocks[r]
    BY <2>5
  <2>. QED
    BY <1>2, <2>2, <2>4, <2>6, BlockAdded
<1>. QED
  BY <1>1, <1>2 DEF PublishAlloc

\* A block a place gives up, and that goes back to the pool.
LEMMA BlockReturned ==
  ASSUME PoolOwnership, NEW at \in References, used' = used \ {Blocks[at]}, Blocks'[at] = NULL,
         \A r \in References : r # at => Blocks'[r] = Blocks[r]
  PROVE  PoolOwnership'
<1>1. /\ used = {Blocks[r] : r \in References} \ {NULL}
      /\ \A r1, r2 \in References : Blocks[r1] = Blocks[r2] /\ Blocks[r1] # NULL => r1 = r2
  BY OwnershipOf DEF Owned
<1>2. used' = {Blocks'[r] : r \in References} \ {NULL}
  BY <1>1
<1>3. \A r1, r2 \in References : Blocks'[r1] = Blocks'[r2] /\ Blocks'[r1] # NULL => r1 = r2
  BY <1>1
<1>. QED
  BY <1>2, <1>3, OwnershipOf DEF Owned

\* When the queue is full the copy goes back to the pool.
LEMMA PublishQueueFullOwns ==
  ASSUME CoreInv, PlacesOK, PoolOwnership, NEW t \in Tasks, PublishQueueFull(t)
  PROVE  PoolOwnership'
<1>. DEFINE at == <<"caller", t>>
<1>0. TypeOK
  BY DEF CoreInv
<1>1. /\ UNCHANGED <<subscribers, msg_queue, msg>> /\ used' = used \ {block[t]}
      /\ block' = [block EXCEPT ![t] = NULL]
  BY DEF PublishQueueFull, ReturnFromCall, tableVars, topicVars
<1>2. at \in References /\ Blocks[at] = block[t] /\ Blocks'[at] = NULL
  BY <1>0, <1>1, BlocksOf, BlocksOfNext DEF BlocksByKind, TypeOK
<1>3. ASSUME NEW r \in References, r # at
      PROVE  Blocks'[r] = Blocks[r]
  BY <1>0, <1>1, <1>3, BlockKept DEF TypeOK
<1>. QED
  BY <1>1, <1>2, <1>3, BlockReturned

\* After the last callback the message's data goes back to the pool.
LEMMA FinishDeliveryOwns ==
  ASSUME CoreInv, PlacesOK, PoolOwnership, NEW s \in Slots, FinishDelivery(s)
  PROVE  PoolOwnership'
<1>. DEFINE at == <<"topic_task", s>>
<1>0. TypeOK
  BY DEF CoreInv
<1>1. /\ UNCHANGED <<subscribers, msg_queue, block>> /\ used' = used \ {msg[s].data}
      /\ msg' = [msg EXCEPT ![s] = NULL] /\ msg[s] # NULL
  BY DEF FinishDelivery, PlacesOK, tableVars, taskVars
<1>2. at \in References /\ Blocks[at] = msg[s].data /\ Blocks'[at] = NULL
  BY <1>0, <1>1, BlocksOf, BlocksOfNext DEF BlocksByKind, TypeOK
<1>3. ASSUME NEW r \in References, r # at
      PROVE  Blocks'[r] = Blocks[r]
  BY <1>0, <1>1, <1>3, BlockKept DEF TypeOK
<1>. QED
  BY <1>1, <1>2, <1>3, BlockReturned

\* The queue takes the message's data over from the publisher.
LEMMA PublishSendOwns ==
  ASSUME CoreInv, PlacesOK, PoolOwnership, NEW t \in Tasks, PublishSend(t)
  PROVE  PoolOwnership'
<1>. USE OwnersAssumption
<1>. DEFINE s == Slot(call[t].name)
            n == Len(msg_queue[s])
            m == [payload |-> call[t].payload, priority |-> call[t].priority,
                  data |-> block[t]]
            front == m.priority = MSG_PRIORITY_CRITICAL
            caller == <<"caller", t>>
            from == [r \in References |->
                       IF r[1] = "queue" /\ r[2] = s
                       THEN IF front
                            THEN IF r[3] = 1 THEN caller ELSE <<"queue", s, r[3] - 1>>
                            ELSE IF r[3] = n + 1 THEN caller ELSE r
                       ELSE r]
<1>0. TypeOK /\ CallOK /\ NamesDistinct
  BY DEF CoreInv
<1>1. s \in Slots /\ m \in Msgs
  BY <1>0, SlotFound, RequestFields DEF CallOK, PublishSend, Msgs, TypeOK
<1>2. /\ UNCHANGED <<subscribers, msg, used>> /\ block' = [block EXCEPT ![t] = NULL]
      /\ msg_queue' = [msg_queue EXCEPT ![s] = Enqueue(@, m)]
      /\ n \in Nat /\ n < MAX_QUEUE_SIZE /\ MAX_QUEUE_SIZE \in Nat
      /\ msg_queue[s] \in Seq(Msgs) /\ DOMAIN msg_queue[s] = 1..n
  BY <1>0, <1>1, LenProperties, LimitsAssumption DEF PublishSend, ReturnFromCall, topicVars, TypeOK
<1>. HIDE DEF m, n, front
<1>3. /\ DOMAIN msg_queue'[s] = 1..(n + 1)
      /\ \A i \in 1..(n + 1) :
           msg_queue'[s][i] = IF front
                              THEN IF i = 1 THEN m ELSE msg_queue[s][i - 1]
                              ELSE IF i = n + 1 THEN m ELSE msg_queue[s][i]
  <2>1. msg_queue'[s] = IF front THEN <<m>> \o msg_queue[s] ELSE Append(msg_queue[s], m)
    BY <1>0, <1>1, <1>2 DEF TypeOK, Enqueue, front
  <2>2. CASE front
    <3>1. <<m>> \in Seq(Msgs) /\ Len(<<m>>) = 1 /\ <<m>>[1] = m
      BY <1>1
    <3>2. /\ Len(<<m>> \o msg_queue[s]) = 1 + n /\ <<m>> \o msg_queue[s] \in Seq(Msgs)
          /\ \A i \in 1..(1 + n) :
               (<<m>> \o msg_queue[s])[i] = IF i <= 1 THEN <<m>>[i] ELSE msg_queue[s][i - 1]
      BY <1>2, <3>1, ConcatProperties DEF n
    <3>. QED
      BY <1>2, <2>1, <2>2, <3>1, <3>2, LenProperties
  <2>3. CASE ~front
    <3>1. /\ Append(msg_queue[s], m) \in Seq(Msgs) /\ Len(Append(msg_queue[s], m)) = n + 1
          /\ \A i \in 1..n : Append(msg_queue[s], m)[i] = msg_queue[s][i]
          /\ Append(msg_queue[s], m)[n + 1] = m
      BY <1>1, <1>2, AppendProperties DEF n
    <3>. QED
      BY <1>2, <2>1, <2>3, <3>1, LenProperties
  <2>. QED
    BY <2>2, <2>3
<1>4. /\ caller \in References /\ Blocks[caller] = m.data /\ Blocks'[caller] = NULL
      /\ m.data = block[t]
  BY <1>0, <1>2, BlocksOf, BlocksOfNext DEF BlocksByKind, TypeOK, m
<1>5. ASSUME NEW i \in 1..MAX_QUEUE_SIZE
      PROVE  /\ <<"queue", s, i>> \in References
             /\ Blocks[<<"queue", s, i>>] = IF i <= n THEN msg_queue[s][i].data ELSE NULL
             /\ Blocks'[<<"queue", s, i>>] =
                  IF i <= n + 1 THEN msg_queue'[s][i].data ELSE NULL
  BY <1>1, <1>2, <1>3, BlocksOf, BlocksOfNext DEF BlocksByKind
<1>6. ASSUME NEW r \in References, r # caller, \A i \in 1..MAX_QUEUE_SIZE : r # <<"queue", s, i>>
      PROVE  from[r] = r /\ Blocks'[r] = Blocks[r]
  <2>1. Blocks'[r] = Blocks[r]
    BY <1>0, <1>1, <1>2, <1>6, BlockKept DEF TypeOK
  <2>2. from[r] = r
    BY <1>6, PlaceKinds
  <2>. QED
    BY <2>1, <2>2
<1>. DEFINE q(i) == <<"queue", s, i>>
            new == IF front THEN 1 ELSE n + 1
            old(i) == IF front THEN i - 1 ELSE i
<1>7. ASSUME NEW i \in 1..MAX_QUEUE_SIZE, Blocks'[q(i)] # NULL
      PROVE  /\ i <= n + 1
             /\ i = new => from[q(i)] = caller /\ Blocks'[q(i)] = Blocks[caller]
             /\ i # new => /\ from[q(i)] = q(old(i)) /\ old(i) \in 1..n
                           /\ Blocks'[q(i)] = Blocks[q(old(i))]
  <2>1. i <= n + 1 /\ Blocks'[q(i)] = msg_queue'[s][i].data
    BY <1>5, <1>7
  <2>2. CASE i = new
    BY <1>1, <1>2, <1>3, <1>4, <1>5, <2>1, <2>2
  <2>3. CASE i # new
    <3>1. old(i) \in 1..n /\ old(i) \in 1..MAX_QUEUE_SIZE
      BY <1>2, <2>1, <2>3
    <3>2. msg_queue'[s][i] = msg_queue[s][old(i)]
      BY <1>2, <1>3, <2>1, <2>3
    <3>3. Blocks[q(old(i))] = msg_queue[s][old(i)].data
      BY <1>2, <1>5, <3>1
    <3>4. from[q(i)] = q(old(i))
      BY <1>2, <1>5, <2>1, <2>3
    <3>. QED
      BY <2>1, <2>3, <3>1, <3>2, <3>3, <3>4
  <2>. QED
    BY <2>2, <2>3
<1>8. ASSUME NEW i \in 1..n
      PROVE  \E j \in 1..MAX_QUEUE_SIZE : Blocks'[q(j)] = Blocks[q(i)]
  <2>. DEFINE j == IF front THEN i + 1 ELSE i
  <2>1. j \in 1..(n + 1) /\ j \in 1..MAX_QUEUE_SIZE /\ msg_queue'[s][j] = msg_queue[s][i]
    BY <1>2, <1>3
  <2>. QED
    BY <1>2, <1>5, <2>1
<1>9. Blocks'[q(new)] = Blocks[caller] /\ new \in 1..MAX_QUEUE_SIZE
  BY <1>2, <1>3, <1>4, <1>5
<1>10. /\ \A i \in 1..MAX_QUEUE_SIZE : q(i) \in References /\ q(i) # caller
       /\ \A i, j \in 1..MAX_QUEUE_SIZE : q(i) = q(j) => i = j
       /\ \A i, j \in 1..MAX_QUEUE_SIZE : old(i) = old(j) => i = j
       /\ 1..n \subseteq 1..MAX_QUEUE_SIZE
  BY <1>2, <1>5
<1>. HIDE DEF from, q, new, old, caller
<1>11. ASSUME NEW r \in References, Blocks'[r] # NULL
       PROVE  \/ r # caller /\ (\A i \in 1..MAX_QUEUE_SIZE : r # q(i))
                /\ from[r] = r /\ Blocks[r] = Blocks'[r]
              \/ r = q(new) /\ from[r] = caller /\ Blocks[caller] = Blocks'[r]
              \/ \E i \in 1..MAX_QUEUE_SIZE :
                   /\ r = q(i) /\ from[r] = q(old(i)) /\ old(i) \in 1..MAX_QUEUE_SIZE
                   /\ Blocks[q(old(i))] = Blocks'[r]
  <2>1. CASE \E i \in 1..MAX_QUEUE_SIZE : r = q(i)
    BY <1>7, <1>10, <1>11, <2>1
  <2>2. CASE ~ \E i \in 1..MAX_QUEUE_SIZE : r = q(i)
    <3>1. r # caller
      BY <1>4, <1>11
    <3>. QED
      BY <1>6, <2>2, <3>1 DEF q
  <2>. QED
    BY <2>1, <2>2
<1>12. ASSUME NEW r1 \in References, NEW r2 \in References,
              Blocks'[r1] # NULL, Blocks'[r2] # NULL, from[r1] = from[r2]
       PROVE  r1 = r2
  BY <1>10, <1>11, <1>12
<1>13. ASSUME NEW r \in References, Blocks[r] # NULL
       PROVE  \E r2 \in References : Blocks'[r2] = Blocks[r]
  <2>1. CASE r = caller
    BY <1>9, <1>10, <2>1
  <2>2. ASSUME NEW i \in 1..MAX_QUEUE_SIZE, r = q(i)
        PROVE  \E r2 \in References : Blocks'[r2] = Blocks[r]
    <3>1. i \in 1..n
      BY <1>2, <1>5, <1>13, <2>2 DEF q
    <3>. QED
      BY <1>8, <1>10, <2>2, <3>1
  <2>3. CASE r # caller /\ \A i \in 1..MAX_QUEUE_SIZE : r # q(i)
    BY <1>6, <2>3 DEF q
  <2>. QED
    BY <2>1, <2>2, <2>3
<1>14. /\ \A r \in References : Blocks'[r] # NULL =>
            from[r] \in References /\ Blocks[from[r]] = Blocks'[r] /\ Blocks'[r] # NULL
       /\ \A r1, r2 \in References :
            Blocks'[r1] # NULL /\ Blocks'[r2] # NULL /\ from[r1] = from[r2] => r1 = r2
       /\ \A r \in References : Blocks[r] # NULL /\ Blocks[r] # NULL =>
            \E r2 \in References : Blocks'[r2] = Blocks[r]
  BY <1>4, <1>10, <1>11, <1>12, <1>13
<1>15. used' = used \ {NULL}
  BY <1>0, <1>2 DEF TypeOK
<1>. QED
  BY <1>14, <1>15, BlocksMoved

\* The topic task takes the data over from the head of the queue.
LEMMA ReceiveOwns ==
  ASSUME CoreInv, PlacesOK, PoolOwnership, NEW s \in Slots, Receive(s)
  PROVE  PoolOwnership'
<1>. USE OwnersAssumption
<1>. DEFINE n == Len(msg_queue[s])
            q(i) == <<"queue", s, i>>
            task == <<"topic_task", s>>
            from == [r \in References |->
                       IF r = task THEN q(1)
                       ELSE IF r[1] = "queue" /\ r[2] = s THEN q(r[3] + 1) ELSE r]
<1>0. TypeOK
  BY DEF CoreInv
<1>1. /\ msg_queue[s] \in Seq(Msgs) /\ DOMAIN msg_queue[s] = 1..n /\ n \in Nat
      /\ n <= MAX_QUEUE_SIZE /\ MAX_QUEUE_SIZE \in Nat /\ n >= 1
  BY <1>0, LenProperties, EmptySeq, LimitsAssumption DEF Receive, PlacesOK, TypeOK
<1>2. /\ UNCHANGED <<subscribers, block, used>> /\ msg[s] = NULL
      /\ msg' = [msg EXCEPT ![s] = msg_queue[s][1]]
      /\ msg_queue' = [msg_queue EXCEPT ![s] = Tail(@)]
  BY <1>0, <1>1 DEF Receive, PlacesOK, TypeOK, taskVars
<1>3. /\ DOMAIN msg_queue'[s] = 1..(n - 1)
      /\ \A i \in 1..(n - 1) : msg_queue'[s][i] = msg_queue[s][i + 1]
      /\ msg_queue[s][1] # NULL
  <2>1. /\ Len(Tail(msg_queue[s])) = n - 1 /\ Tail(msg_queue[s]) \in Seq(Msgs)
        /\ \A i \in 1..(n - 1) : Tail(msg_queue[s])[i] = msg_queue[s][i + 1]
    BY <1>1, HeadTailProperties, EmptySeq
  <2>2. msg_queue'[s] = Tail(msg_queue[s])
    BY <1>0, <1>2 DEF TypeOK
  <2>3. msg_queue[s][1] \in Msgs
    BY <1>1, ElementOfSeq
  <2>. QED
    BY <2>1, <2>2, <2>3, LenProperties, NullAssumption
<1>4. /\ task \in References /\ Blocks[task] = NULL
      /\ Blocks'[task] = msg_queue[s][1].data
  BY <1>0, <1>2, <1>3, BlocksOf, BlocksOfNext DEF BlocksByKind, TypeOK
<1>. HIDE DEF n
<1>5. ASSUME NEW i \in 1..MAX_QUEUE_SIZE
      PROVE  /\ q(i) \in References
             /\ Blocks[q(i)] = IF i <= n THEN msg_queue[s][i].data ELSE NULL
             /\ Blocks'[q(i)] = IF i <= n - 1 THEN msg_queue[s][i + 1].data ELSE NULL
  BY <1>1, <1>3, BlocksOf, BlocksOfNext DEF BlocksByKind
<1>6. ASSUME NEW r \in References, r # task, \A i \in 1..MAX_QUEUE_SIZE : r # q(i)
      PROVE  from[r] = r /\ Blocks'[r] = Blocks[r]
  <2>1. Blocks'[r] = Blocks[r]
    BY <1>0, <1>1, <1>2, <1>6, BlockKept DEF TypeOK
  <2>2. from[r] = r
    BY <1>6, PlaceKinds
  <2>. QED
    BY <2>1, <2>2
<1>7. /\ from[task] = q(1) /\ Blocks'[task] = Blocks[q(1)] /\ 1 \in 1..MAX_QUEUE_SIZE
      /\ \A i \in 1..MAX_QUEUE_SIZE :
           Blocks'[q(i)] # NULL => /\ i + 1 \in 1..MAX_QUEUE_SIZE /\ from[q(i)] = q(i + 1)
                                   /\ Blocks'[q(i)] = Blocks[q(i + 1)]
      /\ \A i \in 1..MAX_QUEUE_SIZE :
           Blocks[q(i)] # NULL /\ i # 1 => /\ i - 1 \in 1..MAX_QUEUE_SIZE
                                           /\ Blocks'[q(i - 1)] = Blocks[q(i)]
  BY <1>1, <1>4, <1>5
<1>8. /\ \A i \in 1..MAX_QUEUE_SIZE : q(i) \in References /\ q(i) # task
      /\ \A i, j \in 1..MAX_QUEUE_SIZE : q(i) = q(j) => i = j
  BY <1>5
<1>9. \A i, j \in 1..MAX_QUEUE_SIZE : (i + 1 = j + 1 => i = j) /\ i + 1 # 1
  OBVIOUS
<1>. HIDE DEF from, task
<1>10. ASSUME NEW r \in References, Blocks'[r] # NULL
       PROVE  \/ r # task /\ (\A i \in 1..MAX_QUEUE_SIZE : r # q(i))
                /\ from[r] = r /\ Blocks[r] = Blocks'[r]
              \/ r = task /\ from[r] = q(1) /\ Blocks[q(1)] = Blocks'[r]
              \/ \E i \in 1..MAX_QUEUE_SIZE :
                   /\ r = q(i) /\ from[r] = q(i + 1) /\ i + 1 \in 1..MAX_QUEUE_SIZE
                   /\ Blocks[q(i + 1)] = Blocks'[r]
  <2>1. CASE r = task
    BY <1>7, <2>1
  <2>2. ASSUME NEW i \in 1..MAX_QUEUE_SIZE, r = q(i)
        PROVE  /\ from[r] = q(i + 1) /\ i + 1 \in 1..MAX_QUEUE_SIZE
               /\ Blocks[q(i + 1)] = Blocks'[r]
    BY <1>7, <1>10, <2>2
  <2>3. CASE r # task /\ \A i \in 1..MAX_QUEUE_SIZE : r # q(i)
    BY <1>6, <2>3
  <2>. HIDE DEF q
  <2>. QED
    BY <2>1, <2>2, <2>3
<1>11. ASSUME NEW r \in References, Blocks[r] # NULL
       PROVE  \E r2 \in References : Blocks'[r2] = Blocks[r]
  <2>1. ASSUME NEW i \in 1..MAX_QUEUE_SIZE, r = q(i), i = 1
        PROVE  \E r2 \in References : Blocks'[r2] = Blocks[r]
    BY <1>4, <1>7, <2>1
  <2>2. ASSUME NEW i \in 1..MAX_QUEUE_SIZE, r = q(i), i # 1
        PROVE  \E r2 \in References : Blocks'[r2] = Blocks[r]
    <3>1. q(i - 1) \in References /\ Blocks'[q(i - 1)] = Blocks[r]
      BY <1>7, <1>8, <1>11, <2>2
    <3>. QED
      BY <3>1
  <2>3. CASE r # task /\ \A i \in 1..MAX_QUEUE_SIZE : r # q(i)
    BY <1>6, <2>3
  <2>. HIDE DEF q
  <2>. QED
    BY <1>4, <1>11, <2>1, <2>2, <2>3
<1>. HIDE DEF q
<1>12. ASSUME NEW r1 \in References, NEW r2 \in References,
              Blocks'[r1] # NULL, Blocks'[r2] # NULL, from[r1] = from[r2]
       PROVE  r1 = r2
  BY <1>7, <1>8, <1>9, <1>10, <1>12
<1>13. /\ \A r \in References : Blocks'[r] # NULL =>
            from[r] \in References /\ Blocks[from[r]] = Blocks'[r] /\ Blocks'[r] # NULL
       /\ \A r1, r2 \in References :
            Blocks'[r1] # NULL /\ Blocks'[r2] # NULL /\ from[r1] = from[r2] => r1 = r2
       /\ \A r \in References : Blocks[r] # NULL /\ Blocks[r] # NULL =>
            \E r2 \in References : Blocks'[r2] = Blocks[r]
  BY <1>7, <1>8, <1>10, <1>11, <1>12
<1>14. used' = used \ {NULL}
  BY <1>0, <1>2 DEF TypeOK
<1>. QED
  BY <1>13, <1>14, BlocksMoved

\* The list takes the node just allocated.
LEMMA SubscribeOwns ==
  ASSUME CoreInv, PlacesOK, PoolOwnership, NEW t \in Tasks, Subscribe(t)
  PROVE  PoolOwnership'
<1>. USE OwnersAssumption
<1>. DEFINE s == Slot(call[t].name)
            n == Len(subscribers[s])
            l(i) == <<"list", s, i>>
            from == [r \in References |->
                       IF r[1] = "list" /\ r[2] = s THEN l(r[3] - 1) ELSE r]
<1>0. TypeOK /\ CallOK /\ NamesDistinct /\ ListsConsistent
  BY DEF CoreInv
<1>1. s \in Slots
  BY <1>0, SlotFound DEF CallOK, Subscribe
<1>2. PICK c \in Cells \ used :
        /\ used' = used \cup {c}
        /\ subscribers' = [subscribers EXCEPT ![s] =
                             <<[callback |-> call[t].callback, node |-> c]>> \o @]
  BY DEF Subscribe
<1>3. /\ UNCHANGED <<msg_queue, msg>> /\ block[t] = NULL
      /\ block' = [block EXCEPT ![t] = NULL]
      /\ n < MAX_SUBSCRIBERS_PER_TOPIC /\ n \in Nat /\ MAX_SUBSCRIBERS_PER_TOPIC \in Nat
      /\ subscribers[s] \in Seq(Subscribers) /\ DOMAIN subscribers[s] = 1..n
  BY <1>0, <1>1, LenProperties, LimitsAssumption
  DEF Subscribe, ReturnFromCall, PlacesOK, ListsConsistent, TypeOK, topicVars
<1>4. UNCHANGED block
  BY <1>0, <1>3 DEF TypeOK
<1>. HIDE DEF n
<1>5. /\ DOMAIN subscribers'[s] = 1..(n + 1)
      /\ subscribers'[s][1].node = c
      /\ \A i \in 1..n : subscribers'[s][i + 1] = subscribers[s][i]
  <2>. DEFINE new == <<[callback |-> call[t].callback, node |-> c]>>
  <2>1. call[t].callback \in Callbacks
    BY <1>0, RequestFields DEF CallOK, Subscribe
  <2>2. new \in Seq(Subscribers) /\ Len(new) = 1 /\ new[1].node = c
    BY <2>1 DEF Subscribers
  <2>3. subscribers'[s] = new \o subscribers[s]
    BY <1>0, <1>1, <1>2 DEF TypeOK
  <2>. HIDE DEF new
  <2>4. /\ new \o subscribers[s] \in Seq(Subscribers)
        /\ Len(new \o subscribers[s]) = 1 + n
        /\ \A i \in 1..(1 + n) :
             (new \o subscribers[s])[i] = IF i <= 1 THEN new[i] ELSE subscribers[s][i - 1]
    <3>1. /\ new \o subscribers[s] \in Seq(Subscribers)
          /\ Len(new \o subscribers[s]) = Len(new) + Len(subscribers[s])
          /\ \A i \in 1..(Len(new) + Len(subscribers[s])) :
               (new \o subscribers[s])[i] =
                 IF i <= Len(new) THEN new[i] ELSE subscribers[s][i - Len(new)]
      BY <1>3, <2>2, ConcatProperties
    <3>. QED
      BY <1>3, <2>2, <3>1 DEF n
  <2>5. \A i \in 1..n : i + 1 \in 1..(1 + n) /\ ~(i + 1 <= 1) /\ (i + 1) - 1 = i
    BY <1>3
  <2>. QED
    BY <1>3, <2>2, <2>3, <2>4, <2>5, LenProperties
<1>6. ASSUME NEW i \in 1..MAX_SUBSCRIBERS_PER_TOPIC
      PROVE  /\ l(i) \in References
             /\ Blocks[l(i)] = IF i <= n THEN subscribers[s][i].node ELSE NULL
             /\ Blocks'[l(i)] = IF i <= n + 1 THEN subscribers'[s][i].node ELSE NULL
  BY <1>1, <1>3, <1>5, BlocksOf, BlocksOfNext DEF BlocksByKind, NodeAt
<1>7. ASSUME NEW r \in References, \A i \in 1..MAX_SUBSCRIBERS_PER_TOPIC : r # l(i)
      PROVE  from[r] = r /\ Blocks'[r] = Blocks[r]
  <2>1. Blocks'[r] = Blocks[r]
    BY <1>0, <1>1, <1>2, <1>3, <1>4, <1>7, BlockKept DEF TypeOK
  <2>2. from[r] = r
    BY <1>7, PlaceKinds
  <2>. QED
    BY <2>1, <2>2
<1>8. /\ 1 \in 1..MAX_SUBSCRIBERS_PER_TOPIC /\ Blocks'[l(1)] = c
      /\ \A i \in 1..MAX_SUBSCRIBERS_PER_TOPIC :
           Blocks[l(i)] # NULL => /\ i + 1 \in 1..MAX_SUBSCRIBERS_PER_TOPIC
                                  /\ Blocks'[l(i + 1)] = Blocks[l(i)]
  <2>1. ASSUME NEW i \in 1..MAX_SUBSCRIBERS_PER_TOPIC, Blocks[l(i)] # NULL
        PROVE  /\ i + 1 \in 1..MAX_SUBSCRIBERS_PER_TOPIC
               /\ Blocks'[l(i + 1)] = Blocks[l(i)]
    <3>1. i \in 1..n /\ Blocks[l(i)] = subscribers[s][i].node
      BY <1>3, <1>6, <2>1
    <3>2. i + 1 \in 1..MAX_SUBSCRIBERS_PER_TOPIC /\ i + 1 <= n + 1
      BY <1>3, <3>1
    <3>3. Blocks'[l(i + 1)] = subscribers'[s][i + 1].node
      BY <1>6, <3>2
    <3>. QED
      BY <1>5, <3>1, <3>2, <3>3
  <2>2. 1 \in 1..MAX_SUBSCRIBERS_PER_TOPIC /\ 1 <= n + 1
    BY <1>3
  <2>3. Blocks'[l(1)] = c
    BY <1>5, <1>6, <2>2
  <2>. QED
    BY <2>1, <2>2, <2>3
<1>9. ASSUME NEW i \in 1..MAX_SUBSCRIBERS_PER_TOPIC, i # 1, Blocks'[l(i)] # NULL
      PROVE  /\ i - 1 \in 1..MAX_SUBSCRIBERS_PER_TOPIC /\ from[l(i)] = l(i - 1)
             /\ Blocks'[l(i)] = Blocks[l(i - 1)]
  <2>1. i - 1 \in 1..n /\ (i - 1) + 1 = i /\ i - 1 \in 1..MAX_SUBSCRIBERS_PER_TOPIC
    BY <1>3, <1>6, <1>9
  <2>2. subscribers'[s][i] = subscribers[s][i - 1]
    BY <1>5, <2>1
  <2>3. from[l(i)] = l(i - 1)
    BY <1>6
  <2>. QED
    BY <1>3, <1>6, <2>1, <2>2, <2>3
<1>10. /\ \A i \in 1..MAX_SUBSCRIBERS_PER_TOPIC : l(i) \in References
       /\ \A i, j \in 1..MAX_SUBSCRIBERS_PER_TOPIC : l(i) = l(j) => i = j
       /\ \A i, j \in 1..MAX_SUBSCRIBERS_PER_TOPIC : i - 1 = j - 1 => i = j
  BY <1>6
<1>. HIDE DEF from, l
<1>11. ASSUME NEW r \in References, r # l(1), Blocks'[r] # NULL
       PROVE  \/ (\A i \in 1..MAX_SUBSCRIBERS_PER_TOPIC : r # l(i))
                /\ from[r] = r /\ Blocks[r] = Blocks'[r]
              \/ \E i \in 1..MAX_SUBSCRIBERS_PER_TOPIC :
                   /\ r = l(i) /\ from[r] = l(i - 1)
                   /\ i - 1 \in 1..MAX_SUBSCRIBERS_PER_TOPIC
                   /\ Blocks[l(i - 1)] = Blocks'[r]
  <2>1. CASE \E i \in 1..MAX_SUBSCRIBERS_PER_TOPIC : r = l(i)
    BY <1>9, <1>11, <2>1
  <2>2. CASE \A i \in 1..MAX_SUBSCRIBERS_PER_TOPIC : r # l(i)
    BY <1>7, <2>2 DEF l
  <2>. QED
    BY <2>1, <2>2
<1>12. ASSUME NEW r \in References, Blocks[r] # NULL
       PROVE  \E r2 \in References : Blocks'[r2] = Blocks[r]
  <2>1. CASE \E i \in 1..MAX_SUBSCRIBERS_PER_TOPIC : r = l(i)
    BY <1>8, <1>10, <1>12, <2>1
  <2>2. CASE \A i \in 1..MAX_SUBSCRIBERS_PER_TOPIC : r # l(i)
    BY <1>7, <2>2 DEF l
  <2>. QED
    BY <2>1, <2>2
<1>13. ASSUME NEW r1 \in References, NEW r2 \in References, r1 # l(1), r2 # l(1),
              Blocks'[r1] # NULL, Blocks'[r2] # NULL, from[r1] = from[r2]
       PROVE  r1 = r2
  BY <1>10, <1>11, <1>13
<1>14. /\ \A r \in References \ {l(1)} : Blocks'[r] # NULL =>
            from[r] \in References /\ Blocks[from[r]] = Blocks'[r]
       /\ \A r1, r2 \in References \ {l(1)} :
            Blocks'[r1] # NULL /\ Blocks'[r2] # NULL /\ from[r1] = from[r2] => r1 = r2
       /\ \A r \in References : Blocks[r] # NULL =>
            \E r2 \in References : Blocks'[r2] = Blocks[r]
       /\ l(1) \in References /\ c # NULL
  BY <1>8, <1>10, <1>11, <1>12, <1>13
<1>. QED
  BY <1>2, <1>8, <1>14, BlockAdded

\* The node that leaves the list goes back to the pool.
LEMMA UnsubscribeOwns ==
  ASSUME CoreInv, PlacesOK, PoolOwnership, NEW t \in Tasks, Unsubscribe(t)
  PROVE  PoolOwnership'
<1>. USE OwnersAssumption
<1>. DEFINE s == Slot(call[t].name)
            n == Len(subscribers[s])
            l(i) == <<"list", s, i>>
<1>0. TypeOK /\ CallOK /\ NamesDistinct /\ ListsConsistent
  BY DEF CoreInv
<1>1. s \in Slots
  BY <1>0, SlotFound DEF CallOK, Unsubscribe
<1>2. PICK k \in DOMAIN subscribers[s] :
        /\ used' = used \ {subscribers[s][k].node}
        /\ subscribers' = [subscribers EXCEPT ![s] = RemoveAt(@, k)]
  BY DEF Unsubscribe
<1>. DEFINE old(i) == IF i < k THEN i ELSE i + 1
            from == [r \in References |->
                       IF r[1] = "list" /\ r[2] = s THEN l(old(r[3])) ELSE r]
            gone == subscribers[s][k].node
<1>3. /\ UNCHANGED <<msg_queue, msg>> /\ block[t] = NULL
      /\ block' = [block EXCEPT ![t] = NULL]
      /\ n \in Nat /\ k \in 1..n
      /\ subscribers[s] \in Seq(Subscribers) /\ DOMAIN subscribers[s] = 1..n
  BY <1>0, <1>1, LenProperties
  DEF Unsubscribe, ReturnFromCall, PlacesOK, TypeOK, topicVars
<1>4. UNCHANGED block
  BY <1>0, <1>3 DEF TypeOK
<1>5. /\ DOMAIN subscribers'[s] = 1..(n - 1)
      /\ \A i \in 1..(n - 1) : subscribers'[s][i] = subscribers[s][old(i)]
  <2>1. subscribers'[s] = RemoveAt(subscribers[s], k)
    BY <1>0, <1>1, <1>2 DEF TypeOK
  <2>. QED
    BY <1>3, <2>1, RemoveAtProperties, LenProperties
<1>. HIDE DEF n
<1>6. ASSUME NEW i \in 1..MAX_SUBSCRIBERS_PER_TOPIC
      PROVE  /\ l(i) \in References
             /\ Blocks[l(i)] = IF i <= n THEN subscribers[s][i].node ELSE NULL
             /\ Blocks'[l(i)] = IF i <= n - 1 THEN subscribers'[s][i].node ELSE NULL
  BY <1>1, <1>3, <1>5, BlocksOf, BlocksOfNext DEF BlocksByKind, NodeAt
<1>7. ASSUME NEW r \in References, \A i \in 1..MAX_SUBSCRIBERS_PER_TOPIC : r # l(i)
      PROVE  from[r] = r /\ Blocks'[r] = Blocks[r]
  <2>1. Blocks'[r] = Blocks[r]
    BY <1>0, <1>1, <1>2, <1>3, <1>4, <1>7, BlockKept DEF TypeOK
  <2>2. from[r] = r
    BY <1>7, PlaceKinds
  <2>. QED
    BY <2>1, <2>2
<1>8. n <= MAX_SUBSCRIBERS_PER_TOPIC /\ MAX_SUBSCRIBERS_PER_TOPIC \in Nat
  BY <1>1, LimitsAssumption DEF PlacesOK, n
<1>9. ASSUME NEW i \in 1..MAX_SUBSCRIBERS_PER_TOPIC, Blocks'[l(i)] # NULL
      PROVE  /\ old(i) \in 1..MAX_SUBSCRIBERS_PER_TOPIC /\ old(i) # k
             /\ from[l(i)] = l(old(i)) /\ Blocks'[l(i)] = Blocks[l(old(i))]
  <2>1. i \in 1..(n - 1) /\ Blocks'[l(i)] = subscribers'[s][i].node
    BY <1>3, <1>6, <1>9
  <2>2. old(i) \in 1..n /\ old(i) # k /\ old(i) \in 1..MAX_SUBSCRIBERS_PER_TOPIC
    BY <1>3, <1>8, <2>1
  <2>3. Blocks[l(old(i))] = subscribers[s][old(i)].node
    BY <1>6, <2>2
  <2>4. from[l(i)] = l(old(i))
    BY <1>6
  <2>. QED
    BY <1>5, <2>1, <2>2, <2>3, <2>4
<1>10. ASSUME NEW i \in 1..MAX_SUBSCRIBERS_PER_TOPIC, Blocks[l(i)] # NULL, i # k
       PROVE  \E j \in 1..MAX_SUBSCRIBERS_PER_TOPIC : Blocks'[l(j)] = Blocks[l(i)]
  <2>. DEFINE j == IF i < k THEN i ELSE i - 1
  <2>1. i \in 1..n /\ Blocks[l(i)] = subscribers[s][i].node
    BY <1>3, <1>6, <1>10
  <2>2. j \in 1..(n - 1) /\ old(j) = i /\ j \in 1..MAX_SUBSCRIBERS_PER_TOPIC
    BY <1>3, <1>8, <1>10, <2>1
  <2>3. Blocks'[l(j)] = subscribers'[s][j].node
    BY <1>3, <1>6, <2>2
  <2>. QED
    BY <1>5, <2>1, <2>2, <2>3
<1>11. /\ \A i \in 1..MAX_SUBSCRIBERS_PER_TOPIC : l(i) \in References
       /\ \A i, j \in 1..MAX_SUBSCRIBERS_PER_TOPIC : l(i) = l(j) => i = j
       /\ \A i, j \in 1..MAX_SUBSCRIBERS_PER_TOPIC : old(i) = old(j) => i = j
       /\ k \in 1..MAX_SUBSCRIBERS_PER_TOPIC /\ Blocks[l(k)] = gone
  BY <1>3, <1>6, <1>8
<1>. HIDE DEF from, l, old, gone
<1>12. ASSUME NEW r1 \in References, NEW r2 \in References, Blocks[r1] = Blocks[r2],
              Blocks[r1] # NULL
       PROVE  r1 = r2
  BY <1>12, OwnershipOf DEF Owned
<1>13. ASSUME NEW r \in References, Blocks'[r] # NULL
       PROVE  /\ from[r] \in References /\ Blocks[from[r]] = Blocks'[r] /\ from[r] # l(k)
              /\ \/ (\A i \in 1..MAX_SUBSCRIBERS_PER_TOPIC : r # l(i)) /\ from[r] = r
                 \/ \E i \in 1..MAX_SUBSCRIBERS_PER_TOPIC :
                      /\ r = l(i) /\ from[r] = l(old(i))
                      /\ old(i) \in 1..MAX_SUBSCRIBERS_PER_TOPIC
  <2>1. CASE \E i \in 1..MAX_SUBSCRIBERS_PER_TOPIC : r = l(i)
    BY <1>9, <1>11, <1>13, <2>1
  <2>2. CASE \A i \in 1..MAX_SUBSCRIBERS_PER_TOPIC : r # l(i)
    <3>1. from[r] = r /\ Blocks'[r] = Blocks[r]
      BY <1>7, <2>2 DEF l
    <3>. QED
      BY <1>11, <2>2, <3>1
  <2>. QED
    BY <2>1, <2>2
<1>14. ASSUME NEW r \in References, Blocks[r] # NULL, Blocks[r] # gone
       PROVE  \E r2 \in References : Blocks'[r2] = Blocks[r]
  <2>1. CASE \E i \in 1..MAX_SUBSCRIBERS_PER_TOPIC : r = l(i)
    BY <1>10, <1>11, <1>14, <2>1
  <2>2. CASE \A i \in 1..MAX_SUBSCRIBERS_PER_TOPIC : r # l(i)
    BY <1>7, <2>2 DEF l
  <2>. QED
    BY <2>1, <2>2
<1>15. ASSUME NEW r1 \in References, NEW r2 \in References,
              Blocks'[r1] # NULL, Blocks'[r2] # NULL, from[r1] = from[r2]
       PROVE  r1 = r2
  BY <1>11, <1>13, <1>15
<1>16. /\ \A r \in References : Blocks'[r] # NULL =>
            from[r] \in References /\ Blocks[from[r]] = Blocks'[r] /\ Blocks'[r] # gone
       /\ \A r1, r2 \in References :
            Blocks'[r1] # NULL /\ Blocks'[r2] # NULL /\ from[r1] = from[r2] => r1 = r2
       /\ \A r \in References : Blocks[r] # NULL /\ Blocks[r] # gone =>
            \E r2 \in References : Blocks'[r2] = Blocks[r]
       /\ used' = used \ {gone}
  BY <1>2, <1>11, <1>12, <1>13, <1>14, <1>15 DEF gone
<1>. QED
  BY <1>16, BlocksMoved

\* Every step leaves the places that refer to nothing as PlacesOK says.
LEMMA PlacesStep ==
  ASSUME CoreInv, PlacesOK, [Next]_vars
  PROVE  PlacesOK'
<1>. USE LimitsAssumption, OwnersAssumption
<1>0. TypeOK /\ CallOK /\ NamesDistinct /\ ListsConsistent
  BY DEF CoreInv
<1>a. \A n : Matches(n) # {} => Slot(n) \in 1..topic_count /\ Slot(n) \in Slots
  BY <1>0, SlotFound
<1>b. ASSUME NEW s \in Slots
      PROVE  /\ msg_queue[s] \in Seq(Msgs) /\ Len(msg_queue[s]) \in Nat
             /\ subscribers[s] \in Seq(Subscribers) /\ Len(subscribers[s]) \in Nat
  BY <1>0, LenProperties DEF TypeOK
<1>1. ASSUME NEW t \in Tasks, ReturnFromCall(t),
             UNCHANGED <<subscribers, msg_queue, msg, worker, topic_count>>
      PROVE  PlacesOK'
  BY <1>0, <1>1 DEF PlacesOK, ReturnFromCall, TypeOK
<1>2. ASSUME NEW t \in Tasks,
             \/ \E r \in Requests : Call(t, r)
             \/ TakeTopicsLock(t) \/ TakeTopicLock(t)
      PROVE  PlacesOK'
  BY <1>0, <1>2
  DEF PlacesOK, TypeOK, Call, TakeTopicsLock, TakeTopicLock, tableVars, topicVars
<1>3. ASSUME NEW t \in Tasks, PublishAlloc(t)
      PROVE  PlacesOK'
  <2>1. \A u \in Tasks : u # t => block'[u] = block[u] /\ pc'[u] = pc[u]
    BY <1>0, <1>3 DEF TypeOK, PublishAlloc
  <2>2. pc'[t] = "send"
    BY <1>0, <1>3 DEF TypeOK, PublishAlloc
  <2>. QED
    BY <1>3, <2>1, <2>2 DEF PlacesOK, PublishAlloc, tableVars, topicVars
<1>4. ASSUME NEW t \in Tasks, CreateTopic(t)
      PROVE  PlacesOK'
  <2>1. topic_count + 1 \in Slots /\ worker[topic_count + 1] = "none"
    BY <1>0, <1>4 DEF CreateTopic, TypeOK, Slots, PlacesOK
  <2>2. \A s \in Slots : s > topic_count + 1 => s > topic_count
    BY <1>0 DEF TypeOK, Slots
  <2>3. ASSUME NEW s \in Slots, s # topic_count + 1
        PROVE  /\ msg_queue'[s] = msg_queue[s] /\ subscribers'[s] = subscribers[s]
               /\ worker'[s] = worker[s]
    BY <1>0, <1>4, <2>3 DEF CreateTopic, TypeOK
  <2>4. LET s == topic_count + 1
        IN  /\ msg_queue'[s] = <<>> /\ subscribers'[s] = <<>> /\ worker'[s] = "receive"
            /\ ~(s > topic_count') /\ Len(<<>>) <= MAX_QUEUE_SIZE
            /\ Len(<<>>) <= MAX_SUBSCRIBERS_PER_TOPIC
    BY <1>0, <1>4, <2>1, EmptySeq DEF CreateTopic, TypeOK
  <2>5. UNCHANGED msg /\ topic_count' = topic_count + 1
    BY <1>4 DEF CreateTopic
  <2>6. \A u \in Tasks : block'[u] # NULL => pc'[u] = "send"
    BY <1>0, <1>4 DEF CreateTopic, ReturnFromCall, PlacesOK, TypeOK
  <2>. QED
    BY <2>1, <2>2, <2>3, <2>4, <2>5, <2>6 DEF PlacesOK
<1>5. ASSUME NEW t \in Tasks, PublishSend(t)
      PROVE  PlacesOK'
  <2>. DEFINE s == Slot(call[t].name)
              m == [payload |-> call[t].payload, priority |-> call[t].priority,
                    data |-> block[t]]
  <2>1. s \in Slots /\ s \in 1..topic_count /\ m \in Msgs
    BY <1>0, <1>5, <1>a, RequestFields DEF CallOK, PublishSend, Msgs, TypeOK
  <2>2. Len(Enqueue(msg_queue[s], m)) = Len(msg_queue[s]) + 1
    <3>1. Len(<<m>> \o msg_queue[s]) = Len(msg_queue[s]) + 1
      BY <1>b, <2>1, ConcatProperties
    <3>2. Len(Append(msg_queue[s], m)) = Len(msg_queue[s]) + 1
      BY <1>b, <2>1, AppendProperties
    <3>. QED
      BY <3>1, <3>2 DEF Enqueue
  <2>3. /\ msg_queue'[s] = Enqueue(msg_queue[s], m) /\ Len(msg_queue[s]) < MAX_QUEUE_SIZE
        /\ \A r \in Slots \ {s} : msg_queue'[r] = msg_queue[r]
        /\ UNCHANGED <<subscribers, topic_count, worker, msg>>
    BY <1>0, <1>5, <2>1 DEF PublishSend, TypeOK, topicVars
  <2>4. \A u \in Tasks : block'[u] # NULL => pc'[u] = "send"
    BY <1>0, <1>5 DEF PublishSend, ReturnFromCall, PlacesOK, TypeOK
  <2>5. Len(msg_queue'[s]) <= MAX_QUEUE_SIZE /\ ~(s > topic_count)
    BY <1>0, <1>b, <2>1, <2>2, <2>3 DEF TypeOK
  <2>. HIDE DEF s, m
  <2>. QED
    BY <2>1, <2>3, <2>4, <2>5 DEF PlacesOK
<1>6. ASSUME NEW t \in Tasks, Subscribe(t) \/ Unsubscribe(t)
      PROVE  PlacesOK'
  <2>. DEFINE s == Slot(call[t].name)
  <2>1. s \in Slots /\ s \in 1..topic_count
    BY <1>0, <1>6, <1>a DEF CallOK, Subscribe, Unsubscribe
  <2>2. /\ \A r \in Slots \ {s} : subscribers'[r] = subscribers[r]
        /\ UNCHANGED <<msg_queue, topic_count, worker, msg>> /\ ReturnFromCall(t)
    BY <1>0, <1>6, <2>1 DEF Subscribe, Unsubscribe, TypeOK, topicVars
  <2>3. Len(subscribers'[s]) <= MAX_SUBSCRIBERS_PER_TOPIC
    <3>1. ListsConsistent' /\ TypeOK'
      BY ListsStep, TypeStep
    <3>2. Len(subscribers'[s]) = subscriber_count'[s]
      BY <2>1, <3>1 DEF ListsConsistent, Slots
    <3>3. CASE Subscribe(t)
      BY <1>0, <2>1, <3>2, <3>3 DEF Subscribe, TypeOK
    <3>4. CASE Unsubscribe(t)
      <4>1. subscriber_count'[s] = subscriber_count[s] - 1 /\ subscriber_count[s] \in Nat
        BY <1>0, <2>1, <3>4 DEF Unsubscribe, TypeOK
      <4>. QED
        BY <1>0, <2>1, <3>2, <4>1 DEF ListsConsistent, PlacesOK
    <3>. QED
      BY <1>6, <3>3, <3>4
  <2>4. \A u \in Tasks : block'[u] # NULL => pc'[u] = "send"
    BY <1>0, <2>2 DEF ReturnFromCall, PlacesOK, TypeOK
  <2>5. ~(s > topic_count)
    BY <1>0, <2>1 DEF TypeOK
  <2>. HIDE DEF s
  <2>. QED
    BY <2>1, <2>2, <2>3, <2>4, <2>5 DEF PlacesOK
<1>7. ASSUME NEW s \in Slots,
             Receive(s) \/ StartDelivery(s) \/ RunCallback(s) \/ FinishDelivery(s)
      PROVE  PlacesOK'
  <2>1. ASSUME NEW r \in Slots, r # s
        PROVE  /\ msg_queue'[r] = msg_queue[r] /\ msg'[r] = msg[r] /\ worker'[r] = worker[r]
    BY <1>0, <1>7, <2>1
    DEF Receive, StartDelivery, RunCallback, FinishDelivery, TypeOK, tableVars
  <2>2. UNCHANGED <<subscribers, topic_count, block, pc>>
    BY <1>7 DEF Receive, StartDelivery, RunCallback, FinishDelivery, tableVars, taskVars
  <2>3. worker[s] # "none" /\ worker'[s] # "none" /\ ~(s > topic_count)
    BY <1>0, <1>7
    DEF Receive, StartDelivery, RunCallback, FinishDelivery, PlacesOK, TypeOK
  <2>4. Len(msg_queue'[s]) <= MAX_QUEUE_SIZE
    <3>1. CASE Receive(s)
      <4>1. msg_queue'[s] = Tail(msg_queue[s]) /\ Len(Tail(msg_queue[s])) = Len(msg_queue[s]) - 1
        BY <1>0, <1>b, <3>1, HeadTailProperties DEF Receive, TypeOK
      <4>. QED
        BY <1>b, <4>1 DEF PlacesOK
    <3>2. CASE ~Receive(s)
      BY <1>7, <3>2 DEF StartDelivery, RunCallback, FinishDelivery, PlacesOK, tableVars
    <3>. QED
      BY <3>1, <3>2
  <2>5. msg'[s] = NULL <=> worker'[s] \in {"none", "receive"}
    <3>1. CASE Receive(s)
      <4>1. Head(msg_queue[s]) \in Msgs
        BY <1>b, <3>1, HeadTailProperties DEF Receive
      <4>. QED
        BY <1>0, <3>1, <4>1, NullAssumption DEF Receive, TypeOK
    <3>2. CASE ~Receive(s)
      BY <1>0, <1>7, <3>2 DEF StartDelivery, RunCallback, FinishDelivery, PlacesOK, TypeOK
    <3>. QED
      BY <3>1, <3>2
  <2>. QED
    BY <2>1, <2>2, <2>3, <2>4, <2>5 DEF PlacesOK
<1>8. CASE UNCHANGED vars
  BY <1>8 DEF PlacesOK, vars, tableVars, taskVars, topicVars
<1>. QED
  BY <1>1, <1>2, <1>3, <1>4, <1>5, <1>6, <1>7, <1>8
  DEF Next, Proceed, TopicNotFound, CreateRefused, CreateFailed, PublishNoMemory,
      PublishQueueFull, SubscribeRefused, NotSubscribed, tableVars, topicVars

\* No step leaks a block, shares one or gives one back twice.
LEMMA OwnershipStep ==
  ASSUME CoreInv, PlacesOK, PoolOwnership, [Next]_vars
  PROVE  PoolOwnership'
<1>0. TypeOK
  BY DEF CoreInv
<1>1. ASSUME NEW t \in Tasks, pc[t] # "send", ReturnFromCall(t),
             UNCHANGED <<subscribers, msg_queue, msg, used>>
      PROVE  PoolOwnership'
  <2>1. UNCHANGED block
    BY <1>0, <1>1 DEF PlacesOK, ReturnFromCall, TypeOK
  <2>. QED
    BY <1>1, <2>1, OwnershipFrame
<1>2. ASSUME NEW t \in Tasks,
             \/ \E r \in Requests : Call(t, r)
             \/ TakeTopicsLock(t) \/ TakeTopicLock(t)
      PROVE  PoolOwnership'
  BY <1>2, OwnershipFrame DEF Call, TakeTopicsLock, TakeTopicLock, tableVars, topicVars
<1>3. ASSUME NEW t \in Tasks,
             \/ TopicNotFound(t) \/ CreateRefused(t) \/ CreateFailed(t)
             \/ PublishNoMemory(t) \/ SubscribeRefused(t) \/ NotSubscribed(t)
      PROVE  PoolOwnership'
  BY <1>1, <1>3
  DEF TopicNotFound, CreateRefused, CreateFailed, PublishNoMemory, SubscribeRefused,
      NotSubscribed, tableVars, topicVars
<1>4. ASSUME NEW t \in Tasks, CreateTopic(t)
      PROVE  PoolOwnership'
  <2>1. topic_count + 1 \in Slots /\ topic_count + 1 > topic_count
    BY <1>0, <1>4, LimitsAssumption DEF CreateTopic, TypeOK, Slots
  <2>2. UNCHANGED <<subscribers, msg_queue>>
    BY <1>0, <1>4, <2>1 DEF CreateTopic, PlacesOK, TypeOK
  <2>. QED
    BY <1>1, <1>4, <2>2 DEF CreateTopic
<1>5. ASSUME NEW s \in Slots, StartDelivery(s) \/ RunCallback(s)
      PROVE  PoolOwnership'
  BY <1>5, OwnershipFrame DEF StartDelivery, RunCallback, tableVars, taskVars
<1>6. CASE UNCHANGED vars
  BY <1>6, OwnershipFrame DEF vars, tableVars, taskVars, topicVars
<1>. QED
  BY <1>2, <1>3, <1>4, <1>5, <1>6, PublishAllocOwns, PublishSendOwns, PublishQueueFullOwns,
     SubscribeOwns, UnsubscribeOwns, ReceiveOwns, FinishDeliveryOwns DEF Next, Proceed

\* At the start no place refers to a block and none is allocated.
LEMMA OwnershipInit == Init => PlacesOK /\ PoolOwnership
<1>. SUFFICES ASSUME Init
              PROVE  PlacesOK /\ PoolOwnership
  OBVIOUS
<1>1. PlacesOK
  BY LimitsAssumption, EmptySeq DEF Init, PlacesOK
<1>2. ASSUME NEW r \in References
      PROVE  Blocks[r] = NULL
  BY PlaceKinds, BlocksOf, EmptySeq DEF BlocksByKind, NodeAt, Init
<1>3. used = {Blocks[r] : r \in References} \ {NULL}
  BY <1>2 DEF Init
<1>. QED
  BY <1>1, <1>2, <1>3, OwnershipOf DEF Owned

-----------------------------------------------------------------------------
(* The theorems.  Each part of CoreInv needs the others: the lookups are      *)
(* stable because names are distinct and only the holder of topics_lock adds  *)
(* one, the lists and cursors because their mutex is held by who touches them.*)

\* The initial state satisfies the inductive invariant.
LEMMA CoreInit == Init => CoreInv /\ CursorInList
<1>1. Init => TypeOK
  BY TypeInit
<1>2. Init => CallOK /\ NamesDistinct /\ LockDiscipline /\ ListsConsistent /\ CursorInList
  BY LimitsAssumption, OwnersAssumption
  DEF Init, Slots, CallOK, NamesDistinct, LockDiscipline, ListsConsistent, CursorInList
<1>. QED
  BY <1>1, <1>2 DEF CoreInv

\* CoreInv and CursorInList hold in every reachable state.
THEOREM CoreInvariance == Spec => [](CoreInv /\ CursorInList)
<1>1. CoreInv /\ CursorInList /\ [Next]_vars => (CoreInv /\ CursorInList)'
  BY TypeStep, CallStep, NamesStep, LockStep, ListsStep, CursorStep DEF CoreInv
<1>. QED
  BY <1>1, CoreInit, PTL DEF Spec

\* Every variable of the core stays in its type.
THEOREM TypeCorrect == Spec => []TypeOK
<1>. QED
  BY CoreInvariance, PTL DEF CoreInv

\* topics_lock and the topics' mutexes are held exactly by the task that is past
\* them, for any number of tasks and topics.
THEOREM LocksHeld == Spec => []LockDiscipline
<1>. QED
  BY CoreInvariance, PTL DEF CoreInv

\* A topic task never follows a freed subscriber node.
THEOREM CursorSafe == Spec => []CursorInList
<1>. QED
  BY CoreInvariance, PTL

\* subscriber_count is the length of the list, whose callbacks are distinct.
THEOREM ListsAgree == Spec => []ListsConsistent
<1>. QED
  BY CoreInvariance, PTL DEF CoreInv

\* Every block the core has allocated is referred to from exactly one place, for
\* any number of publishers, subscribers and topics: no message, list node or
\* callback is leaked, freed twice, or used after it was freed.
THEOREM PoolOwned == Spec => []PoolOwnership
<1>1. CoreInv /\ PlacesOK /\ PoolOwnership /\ [Next]_vars => PlacesOK' /\ PoolOwnership'
  BY PlacesStep, OwnershipStep
<1>. QED
  BY <1>1, OwnershipInit, CoreInvariance, PTL DEF Spec

\* No two topics ever have the same name.
THEOREM NamesUnique == Spec => []NamesDistinct
<1>. QED
  BY CoreInvariance, PTL DEF CoreInv
-----------------------------------------------------------------------------
(* PubSub implements TopicBus: every step is a step of the bus or a stutter.   *)

\* The critical messages of a queue are ahead of the others.
CriticalsLead(q) ==
  \E k \in 0..Len(q) : \A i \in 1..Len(q) : q[i].priority = MSG_PRIORITY_CRITICAL <=> i <= k

CriticalFirst == \A s \in Slots : CriticalsLead(msg_queue[s])

\* A topic that exists has a name.
Named == \A s \in 1..topic_count : name[s] \in Names

\* How many critical messages are ahead.
LEMMA CriticalAheadIs ==
  ASSUME NEW q, Len(q) \in Nat, NEW k \in 0..Len(q),
         \A i \in 1..Len(q) : q[i].priority = MSG_PRIORITY_CRITICAL <=> i <= k
  PROVE  CriticalAhead(q) = k
<1>. DEFINE Is(m) == /\ \A i \in 1..m : q[i].priority = MSG_PRIORITY_CRITICAL
                     /\ m < Len(q) => q[m + 1].priority # MSG_PRIORITY_CRITICAL
<1>1. Is(k)
  OBVIOUS
<1>2. ASSUME NEW m \in 0..Len(q), Is(m)
      PROVE  m = k
  <2>1. m > 0 => m \in 1..Len(q) /\ q[m].priority = MSG_PRIORITY_CRITICAL
    BY <1>2
  <2>2. m < Len(q) => m + 1 \in 1..Len(q) /\ q[m + 1].priority # MSG_PRIORITY_CRITICAL
    BY <1>2
  <2>. QED
    BY <2>1, <2>2
<1>3. CriticalAhead(q) = CHOOSE m \in 0..Len(q) : Is(m)
  BY DEF CriticalAhead
<1>. HIDE DEF Is
<1>. QED
  BY <1>1, <1>2, <1>3

\* The nodes of a list are different blocks.
LEMMA NodesDistinct ==
  ASSUME TypeOK, PlacesOK, PoolOwnership, NEW s \in Slots,
         NEW i \in DOMAIN subscribers[s], NEW j \in DOMAIN subscribers[s],
         subscribers[s][i].node = subscribers[s][j].node
  PROVE  i = j
<1>1. /\ i \in 1..MAX_SUBSCRIBERS_PER_TOPIC /\ j \in 1..MAX_SUBSCRIBERS_PER_TOPIC
      /\ subscribers[s][i] \in Subscribers
  BY LenProperties, ElementOfSeq, LimitsAssumption DEF TypeOK, PlacesOK
<1>2. subscribers[s][i].node # NULL
  BY <1>1, OwnersAssumption DEF Subscribers
<1>3. Blocks[<<"list", s, i>>] = Blocks[<<"list", s, j>>]
  BY <1>1, BlocksOf DEF BlocksByKind, NodeAt
<1>4. Blocks[<<"list", s, i>>] # NULL
  BY <1>1, <1>2, BlocksOf DEF BlocksByKind, NodeAt
<1>5. <<"list", s, i>> = <<"list", s, j>>
  BY <1>1, <1>3, <1>4, BlocksOf, OwnershipOf DEF BlocksByKind, Owned
<1>. QED
  BY <1>5

\* Slot s is the one of the topic named n, and only its entry of the table changes.
SlotStep(n, s) ==
  /\ Matches(n) # {} /\ s = Slot(n)
  /\ UNCHANGED <<name, topic_count>>
  /\ \A r \in Slots \ {s} :
       /\ subscribers'[r] = subscribers[r] /\ msg_queue'[r] = msg_queue[r]
       /\ msg'[r] = msg[r] /\ worker'[r] = worker[r] /\ current'[r] = current[r]

\* What such a step changes in the bus are the values of that topic.
LEMMA BusOfSlotStep ==
  ASSUME TypeOK, NamesDistinct, NEW n \in Names, NEW s \in Slots, SlotStep(n, s)
  PROVE  /\ n \in BusTopics /\ UNCHANGED BusTopics
         /\ BusMembers' = [BusMembers EXCEPT ![n] = Subscribed(s)'] /\ BusMembers[n] = Subscribed(s)
         /\ BusUrgent' = [BusUrgent EXCEPT ![n] = Urgent(s)'] /\ BusUrgent[n] = Urgent(s)
         /\ BusNormal' = [BusNormal EXCEPT ![n] = Normal(s)'] /\ BusNormal[n] = Normal(s)
         /\ BusHand' = [BusHand EXCEPT ![n] = Hand(s)'] /\ BusHand[n] = Hand(s)
         /\ BusTodo' = [BusTodo EXCEPT ![n] = Todo(s)'] /\ BusTodo[n] = Todo(s)
<1>1. \A m : Matches(m)' = Matches(m) /\ Slot(m)' = Slot(m)
  BY DEF SlotStep, Matches, Slot
<1>2. ASSUME NEW m \in Names, m # n, Matches(m) # {}
      PROVE  Slot(m) \in Slots \ {s}
  BY <1>2, SlotFound DEF SlotStep
<1>3. ASSUME NEW r \in Slots \ {s}
      PROVE  /\ Subscribed(r)' = Subscribed(r) /\ Urgent(r)' = Urgent(r)
             /\ Normal(r)' = Normal(r) /\ Hand(r)' = Hand(r) /\ Todo(r)' = Todo(r)
  <2>1. Subscribed(r)' = Subscribed(r) /\ Hand(r)' = Hand(r)
    BY <1>3 DEF SlotStep, Subscribed, Hand
  <2>2. Urgent(r)' = Urgent(r) /\ Normal(r)' = Normal(r)
    BY <1>3 DEF SlotStep, Urgent, Normal
  <2>3. Position(r)' = Position(r)
    BY <1>3 DEF SlotStep, Position
  <2>4. Todo(r)' = Todo(r)
    <3>1. {subscribers[r][i].callback : i \in Position(r)..Len(subscribers[r])}'
            = {subscribers[r][i].callback : i \in Position(r)..Len(subscribers[r])}
      BY <1>3, <2>3 DEF SlotStep
    <3>2. worker'[r] = worker[r] /\ current'[r] = current[r]
      BY <1>3 DEF SlotStep
    <3>. QED
      BY <3>1, <3>2 DEF Todo
  <2>. QED
    BY <2>1, <2>2, <2>4
<1>4. /\ n \in BusTopics /\ UNCHANGED BusTopics
  BY <1>1 DEF SlotStep, BusTopics
<1>5. BusMembers' = [BusMembers EXCEPT ![n] = Subscribed(s)'] /\ BusMembers[n] = Subscribed(s)
  BY <1>1, <1>2, <1>3 DEF SlotStep, BusMembers, OfTopic
<1>6. BusUrgent' = [BusUrgent EXCEPT ![n] = Urgent(s)'] /\ BusUrgent[n] = Urgent(s)
  BY <1>1, <1>2, <1>3 DEF SlotStep, BusUrgent, OfTopic
<1>7. BusNormal' = [BusNormal EXCEPT ![n] = Normal(s)'] /\ BusNormal[n] = Normal(s)
  BY <1>1, <1>2, <1>3 DEF SlotStep, BusNormal, OfTopic
<1>8. BusHand' = [BusHand EXCEPT ![n] = Hand(s)'] /\ BusHand[n] = Hand(s)
  BY <1>1, <1>2, <1>3 DEF SlotStep, BusHand, OfTopic
<1>9. BusTodo' = [BusTodo EXCEPT ![n] = Todo(s)'] /\ BusTodo[n] = Todo(s)
  BY <1>1, <1>2, <1>3 DEF SlotStep, BusTodo, OfTopic
<1>. QED
  BY <1>4, <1>5, <1>6, <1>7, <1>8, <1>9

\* A step that changes no queue, list or delivery is a stutter of the bus.
LEMMA BusKept ==
  ASSUME TypeOK, NamesDistinct, UNCHANGED <<subscribers, msg_queue, msg, worker, current>>,
         \A n : Matches(n)' = Matches(n)
  PROVE  UNCHANGED Bus!busVars
<1>1. \A n : Slot(n)' = Slot(n)
  BY DEF Slot
<1>2. ASSUME NEW s
      PROVE  /\ Subscribed(s)' = Subscribed(s) /\ Urgent(s)' = Urgent(s)
             /\ Normal(s)' = Normal(s) /\ Hand(s)' = Hand(s) /\ Todo(s)' = Todo(s)
  BY DEF Subscribed, Urgent, Normal, Hand, Todo, Position
<1>3. UNCHANGED BusTopics
  BY DEF BusTopics
<1>4. UNCHANGED <<BusMembers, BusUrgent, BusNormal, BusHand, BusTodo>>
  BY <1>1, <1>2 DEF BusMembers, BusUrgent, BusNormal, BusHand, BusTodo, OfTopic
<1>. QED
  BY <1>3, <1>4 DEF Bus!busVars

\* A creation that fails half-way is a stutter: the name it left behind is not
\* looked at.
LEMMA CreateFailedIsStutter ==
  ASSUME TypeOK, NamesDistinct, NEW t \in Tasks, CreateFailed(t)
  PROVE  UNCHANGED Bus!busVars
<1>1. /\ UNCHANGED <<topic_count, subscribers, msg_queue, msg, worker, current>>
      /\ \A s \in 1..topic_count : name'[s] = name[s]
  BY LimitsAssumption DEF CreateFailed, TypeOK, Slots, topicVars
<1>2. \A n : Matches(n)' = Matches(n)
  BY <1>1 DEF Matches
<1>. QED
  BY <1>1, <1>2, BusKept

\* pubsub_create_topic makes a topic without members and without backlog.
LEMMA CreateIsCreate ==
  ASSUME CoreInv, PlacesOK, NEW t \in Tasks, CreateTopic(t)
  PROVE  Bus!Create(call[t].name)
<1>0. TypeOK /\ CallOK /\ NamesDistinct
  BY DEF CoreInv
<1>a. call[t].name \in Names
  BY <1>0, RequestFields DEF CallOK, CreateTopic
<1>b. topic_count + 1 \in Slots /\ topic_count \in Nat
  BY <1>0, LimitsAssumption DEF CreateTopic, TypeOK, Slots
<1>c. PICK n \in Names : n = call[t].name
  BY <1>a
<1>d. PICK s \in Slots : s = topic_count + 1
  BY <1>b
<1>1. Matches(n) = {} /\ s > topic_count
  BY <1>b, <1>c, <1>d DEF CreateTopic
<1>2. /\ UNCHANGED <<subscribers, msg_queue, msg, current>>
      /\ subscribers[s] = <<>> /\ msg_queue[s] = <<>> /\ msg[s] = NULL
      /\ worker' = [worker EXCEPT ![s] = "receive"] /\ worker[s] = "none"
      /\ topic_count' = s /\ name' = [name EXCEPT ![s] = n]
  BY <1>0, <1>1, <1>c, <1>d DEF CreateTopic, PlacesOK, TypeOK
<1>e. \A r \in 1..topic_count' : r = s \/ (r \in 1..topic_count /\ name'[r] = name[r])
  BY <1>0, <1>2, <1>b, <1>d, LimitsAssumption DEF TypeOK, Slots
<1>f. name'[s] = n /\ s \in 1..topic_count' /\ 1..topic_count \subseteq 1..topic_count'
  BY <1>0, <1>2, <1>b, <1>d DEF TypeOK
<1>3. ASSUME NEW m, m # n
      PROVE  Matches(m)' = Matches(m)
  BY <1>1, <1>b, <1>e, <1>f, <1>3 DEF Matches
<1>4. Matches(n)' = {s} /\ Slot(n)' = s
  <2>1. Matches(n)' = {s}
    BY <1>1, <1>e, <1>f DEF Matches
  <2>. QED
    BY <1>b, <1>d, <2>1 DEF Slot
<1>5. \A m : m # n => Slot(m)' = Slot(m)
  BY <1>3 DEF Slot
<1>6. ASSUME NEW r \in Slots
      PROVE  /\ Subscribed(r)' = Subscribed(r) /\ Urgent(r)' = Urgent(r)
             /\ Normal(r)' = Normal(r) /\ Hand(r)' = Hand(r) /\ Todo(r)' = Todo(r)
  <2>1. /\ Subscribed(r)' = Subscribed(r) /\ Urgent(r)' = Urgent(r)
        /\ Normal(r)' = Normal(r) /\ Hand(r)' = Hand(r) /\ Position(r)' = Position(r)
    BY <1>2 DEF Subscribed, Urgent, Normal, Hand, Position
  <2>2. worker'[r] # "deliver" <=> worker[r] # "deliver"
    BY <1>0, <1>1, <1>2 DEF TypeOK
  <2>. QED
    BY <1>2, <2>1, <2>2 DEF Todo
<1>7. /\ Subscribed(s) = {} /\ Urgent(s) = <<>> /\ Normal(s) = <<>>
      /\ Hand(s) = NULL /\ Todo(s) = NULL
  <2>1. CriticalAhead(<<>>) = 0
    BY CriticalAheadIs, EmptySeq
  <2>2. Urgent(s) = <<>> /\ Normal(s) = <<>>
    BY <1>2, <2>1, EmptySeq DEF Urgent, Normal
  <2>. QED
    BY <1>2, <2>2, EmptySeq DEF Subscribed, Hand, Todo
<1>8. ASSUME NEW m \in Names, Matches(m) # {}
      PROVE  Slot(m) \in Slots
  BY <1>0, <1>8, SlotFound
<1>9. BusTopics' = BusTopics \cup {n} /\ n \notin BusTopics
  BY <1>1, <1>3, <1>4 DEF BusTopics
<1>10. UNCHANGED <<BusMembers, BusUrgent, BusNormal, BusHand, BusTodo>>
  <2>1. ASSUME NEW m \in Names, m # n
        PROVE  /\ (Matches(m) = {})' <=> Matches(m) = {}
               /\ Matches(m) # {} => Slot(m) \in Slots /\ Slot(m)' = Slot(m)
    BY <1>3, <1>5, <1>8, <2>1
  <2>2. UNCHANGED BusMembers
    BY <1>1, <1>4, <1>6, <1>7, <2>1 DEF BusMembers, OfTopic
  <2>3. UNCHANGED BusUrgent
    BY <1>1, <1>4, <1>6, <1>7, <2>1 DEF BusUrgent, OfTopic
  <2>4. UNCHANGED BusNormal
    BY <1>1, <1>4, <1>6, <1>7, <2>1 DEF BusNormal, OfTopic
  <2>5. UNCHANGED BusHand
    BY <1>1, <1>4, <1>6, <1>7, <2>1 DEF BusHand, OfTopic
  <2>6. UNCHANGED BusTodo
    BY <1>1, <1>4, <1>6, <1>7, <2>1 DEF BusTodo, OfTopic
  <2>. QED
    BY <2>2, <2>3, <2>4, <2>5, <2>6
<1>. QED
  BY <1>9, <1>10, <1>c DEF Bus!Create

\* The values that stay as they are in that topic stay as they are in the bus.
LEMMA BusOfSlotKept ==
  ASSUME TypeOK, NamesDistinct, NEW n \in Names, NEW s \in Slots, SlotStep(n, s)
  PROVE  /\ Subscribed(s)' = Subscribed(s) => UNCHANGED BusMembers
         /\ Urgent(s)' = Urgent(s) => UNCHANGED BusUrgent
         /\ Normal(s)' = Normal(s) => UNCHANGED BusNormal
         /\ Hand(s)' = Hand(s) => UNCHANGED BusHand
         /\ Todo(s)' = Todo(s) => UNCHANGED BusTodo
<1>1. ASSUME NEW f, f = [x \in Names |-> f[x]]
      PROVE  [f EXCEPT ![n] = f[n]] = f
  BY <1>1
<1>2. /\ BusMembers = [x \in Names |-> BusMembers[x]]
      /\ BusUrgent = [x \in Names |-> BusUrgent[x]]
      /\ BusNormal = [x \in Names |-> BusNormal[x]]
      /\ BusHand = [x \in Names |-> BusHand[x]]
      /\ BusTodo = [x \in Names |-> BusTodo[x]]
  BY DEF BusMembers, BusUrgent, BusNormal, BusHand, BusTodo
<1>. QED
  BY <1>1, <1>2, BusOfSlotStep

\* The bus counts as the core does.
LEMMA BusCardinality == \A S : Bus!Cardinality(S) = Cardinality(S)
  BY DEF Bus!Cardinality, Cardinality

\* What a call knows of the topic it has found, when it changes that topic.
LEMMA CallersSlot ==
  ASSUME CoreInv, NEW t \in Tasks, call[t] \in Requests, Matches(call[t].name) # {}
  PROVE  \E n \in Names, s \in Slots : n = call[t].name /\ Matches(n) # {} /\ s = Slot(n)
  BY RequestFields, SlotFound DEF CoreInv

\* The topic task of a slot has a topic.
LEMMA WorkersSlot ==
  ASSUME CoreInv, PlacesOK, Named, NEW s \in Slots, worker[s] # "none"
  PROVE  \E n \in Names : Matches(n) # {} /\ s = Slot(n)
<1>1. s \in 1..topic_count
  BY DEF CoreInv, PlacesOK, TypeOK, Slots
<1>2. s \in Matches(name[s]) /\ name[s] \in Names
  BY <1>1 DEF Matches, Named
<1>. QED
  BY <1>2, SlotFound DEF CoreInv

\* pubsub_subscribe adds a member while nothing is being delivered.
LEMMA SubscribeIsJoin ==
  ASSUME CoreInv, PlacesOK, NEW t \in Tasks, Subscribe(t)
  PROVE  \E n \in Names, cb \in Callbacks : Bus!Join(n, cb)
<1>. USE OwnersAssumption
<1>0. TypeOK /\ CallOK /\ NamesDistinct /\ LockDiscipline /\ ListsConsistent
  BY DEF CoreInv
<1>1. PICK n \in Names, s \in Slots : n = call[t].name /\ Matches(n) # {} /\ s = Slot(n)
  BY <1>0, CallersSlot DEF CallOK, Subscribe
<1>2. PICK cb \in Callbacks : cb = call[t].callback
  BY <1>0, RequestFields DEF CallOK, Subscribe
<1>3. /\ UNCHANGED <<name, topic_count, msg_queue, worker, msg, current>>
      /\ \A r \in Slots \ {s} : subscribers'[r] = subscribers[r]
      /\ cb \notin Subscribed(s) /\ subscriber_count[s] < MAX_SUBSCRIBERS_PER_TOPIC
      /\ pc[t] = "edit"
  BY <1>0, <1>1, <1>2 DEF Subscribe, TypeOK, topicVars
<1>4. SlotStep(n, s)
  BY <1>1, <1>3 DEF SlotStep
<1>5. worker[s] # "deliver"
  BY <1>0, <1>1, <1>3 DEF LockDiscipline
<1>6. PICK c \in Cells : subscribers'[s] = <<[callback |-> cb, node |-> c]>> \o subscribers[s]
  BY <1>0, <1>1, <1>2 DEF Subscribe, TypeOK
<1>7. Subscribed(s)' = Subscribed(s) \cup {cb}
  <2>. DEFINE new == <<[callback |-> cb, node |-> c]>>
              n0  == Len(subscribers[s])
  <2>1. /\ subscribers[s] \in Seq(Subscribers) /\ n0 \in Nat
        /\ DOMAIN subscribers[s] = 1..n0
    BY <1>0, LenProperties DEF TypeOK
  <2>2. new \in Seq(Subscribers) /\ Len(new) = 1 /\ new[1].callback = cb
    BY DEF Subscribers
  <2>. HIDE DEF new
  <2>3. /\ DOMAIN (new \o subscribers[s]) = 1..(1 + n0)
        /\ (new \o subscribers[s])[1] = new[1]
        /\ \A i \in 1..n0 : (new \o subscribers[s])[i + 1] = subscribers[s][i]
    <3>1. /\ new \o subscribers[s] \in Seq(Subscribers)
          /\ Len(new \o subscribers[s]) = Len(new) + Len(subscribers[s])
          /\ \A i \in 1..(Len(new) + Len(subscribers[s])) :
               (new \o subscribers[s])[i] =
                 IF i <= Len(new) THEN new[i] ELSE subscribers[s][i - Len(new)]
      BY <2>1, <2>2, ConcatProperties
    <3>2. \A i \in 1..n0 : i + 1 \in 1..(1 + n0) /\ ~(i + 1 <= 1) /\ (i + 1) - 1 = i
      BY <2>1
    <3>. QED
      BY <2>1, <2>2, <3>1, <3>2, LenProperties
  <2>. HIDE DEF n0
  <2>4. \A j \in 1..(1 + n0) : j = 1 \/ \E i \in 1..n0 : j = i + 1
    <3>1. \A j \in 1..(1 + n0) : j # 1 => j - 1 \in 1..n0 /\ j = (j - 1) + 1
      BY <2>1
    <3>. QED
      BY <3>1
  <2>5. 1 \in 1..(1 + n0) /\ \A i \in 1..n0 : i + 1 \in 1..(1 + n0)
    BY <2>1
  <2>6. subscribers'[s] = new \o subscribers[s]
    BY <1>6 DEF new
  <2>7. /\ DOMAIN subscribers'[s] = 1..(1 + n0) /\ subscribers'[s][1].callback = cb
        /\ \A i \in 1..n0 : subscribers'[s][i + 1].callback = subscribers[s][i].callback
    BY <2>2, <2>3, <2>6
  <2>. QED
    <3>1. ASSUME NEW j \in DOMAIN subscribers'[s]
          PROVE  subscribers'[s][j].callback \in Subscribed(s) \cup {cb}
      <4>1. ASSUME NEW i \in 1..n0, j = i + 1
            PROVE  subscribers'[s][j].callback \in Subscribed(s)
        BY <2>1, <2>7, <4>1 DEF Subscribed
      <4>. QED
        BY <2>4, <2>7, <4>1
    <3>2. ASSUME NEW i \in DOMAIN subscribers[s]
          PROVE  \E j \in DOMAIN subscribers'[s] :
                   subscribers'[s][j].callback = subscribers[s][i].callback
      BY <2>1, <2>5, <2>7
    <3>3. \E j \in DOMAIN subscribers'[s] : subscribers'[s][j].callback = cb
      BY <2>5, <2>7
    <3>4. Subscribed(s)' \subseteq Subscribed(s) \cup {cb}
      BY <3>1 DEF Subscribed
    <3>5. Subscribed(s) \cup {cb} \subseteq Subscribed(s)'
      BY <3>2, <3>3 DEF Subscribed
    <3>. QED
      BY <3>4, <3>5
<1>8. Cardinality(Subscribed(s)) < MAX_SUBSCRIBERS_PER_TOPIC
  <2>. DEFINE n0 == Len(subscribers[s])
              f  == [i \in 1..n0 |-> subscribers[s][i].callback]
  <2>1. n0 \in Nat /\ DOMAIN subscribers[s] = 1..n0
    BY <1>0, LenProperties DEF TypeOK
  <2>2. f \in Surjection(1..n0, Subscribed(s))
    BY <2>1 DEF Surjection, Subscribed
  <2>3. IsFiniteSet(Subscribed(s)) /\ Cardinality(Subscribed(s)) <= n0
    <3>1. IsFiniteSet(1..n0) /\ Cardinality(1..n0) = n0
      BY <2>1, FS_Interval
    <3>. HIDE DEF f
    <3>. QED
      BY <2>2, <3>1, FS_Surjection
  <2>4. Cardinality(Subscribed(s)) \in Nat
    BY <2>3, FS_CardinalityType
  <2>. QED
    BY <1>0, <1>3, <2>1, <2>3, <2>4, LimitsAssumption DEF ListsConsistent, TypeOK
<1>9. Urgent(s)' = Urgent(s) /\ Normal(s)' = Normal(s) /\ Hand(s)' = Hand(s)
  BY <1>3 DEF Urgent, Normal, Hand
<1>10. Todo(s) = NULL /\ Todo(s)' = NULL
  BY <1>3, <1>5 DEF Todo
<1>11. /\ n \in BusTopics /\ UNCHANGED BusTopics
       /\ BusMembers' = [BusMembers EXCEPT ![n] = BusMembers[n] \cup {cb}]
       /\ BusMembers[n] = Subscribed(s) /\ BusTodo[n] = NULL
  BY <1>0, <1>4, <1>7, <1>10, BusOfSlotStep
<1>12. UNCHANGED <<BusUrgent, BusNormal, BusHand, BusTodo>>
  BY <1>0, <1>4, <1>9, <1>10, BusOfSlotKept
<1>13. Bus!Join(n, cb)
  <2>1. BusTodo[n] = NULL /\ cb \notin BusMembers[n] /\ n \in BusTopics
    BY <1>3, <1>11
  <2>2. Cardinality(BusMembers[n]) < MAX_SUBSCRIBERS_PER_TOPIC
    BY <1>8, <1>11
  <2>. QED
    BY <1>11, <1>12, <2>1, <2>2, BusCardinality DEF Bus!Join
<1>. QED
  BY <1>13

\* pubsub_unsubscribe removes a member while nothing is being delivered.
LEMMA UnsubscribeIsLeave ==
  ASSUME CoreInv, PlacesOK, NEW t \in Tasks, Unsubscribe(t)
  PROVE  \E n \in Names, cb \in Callbacks : Bus!Leave(n, cb)
<1>. USE OwnersAssumption
<1>0. TypeOK /\ CallOK /\ NamesDistinct /\ LockDiscipline /\ ListsConsistent
  BY DEF CoreInv
<1>1. PICK n \in Names, s \in Slots : n = call[t].name /\ Matches(n) # {} /\ s = Slot(n)
  BY <1>0, CallersSlot DEF CallOK, Unsubscribe
<1>2. PICK cb \in Callbacks : cb = call[t].callback
  BY <1>0, RequestFields DEF CallOK, Unsubscribe
<1>3. /\ UNCHANGED <<name, topic_count, msg_queue, worker, msg, current>>
      /\ \A r \in Slots \ {s} : subscribers'[r] = subscribers[r]
      /\ pc[t] = "edit"
  BY <1>0, <1>1, <1>2 DEF Unsubscribe, TypeOK, topicVars
<1>4. SlotStep(n, s)
  BY <1>1, <1>3 DEF SlotStep
<1>5. worker[s] # "deliver"
  BY <1>0, <1>1, <1>3 DEF LockDiscipline
<1>6. PICK k \in DOMAIN subscribers[s] :
        /\ subscribers[s][k].callback = cb
        /\ subscribers' = [subscribers EXCEPT ![s] = RemoveAt(@, k)]
  BY <1>1, <1>2 DEF Unsubscribe
<1>7. Subscribed(s)' = Subscribed(s) \ {cb}
  <2>. DEFINE n0 == Len(subscribers[s])
  <2>1. /\ subscribers[s] \in Seq(Subscribers) /\ n0 \in Nat
        /\ DOMAIN subscribers[s] = 1..n0
    BY <1>0, LenProperties DEF TypeOK
  <2>2. /\ DOMAIN subscribers'[s] = 1..(n0 - 1)
        /\ \A i \in 1..(n0 - 1) :
             subscribers'[s][i] = IF i < k THEN subscribers[s][i] ELSE subscribers[s][i + 1]
    <3>1. subscribers'[s] = RemoveAt(subscribers[s], k)
      BY <1>0, <1>6 DEF TypeOK
    <3>. QED
      <4>1. k \in 1..Len(subscribers[s])
        BY <1>6, <2>1
      <4>2. /\ subscribers'[s] \in Seq(Subscribers)
            /\ Len(subscribers'[s]) = Len(subscribers[s]) - 1
            /\ \A i \in 1..(Len(subscribers[s]) - 1) :
                 subscribers'[s][i] = IF i < k THEN subscribers[s][i] ELSE subscribers[s][i + 1]
        <5>1. subscribers[s] \in Seq(Subscribers)
          BY <2>1
        <5>. HIDE DEF n0
        <5>2. /\ RemoveAt(subscribers[s], k) \in Seq(Subscribers)
              /\ Len(RemoveAt(subscribers[s], k)) = Len(subscribers[s]) - 1
              /\ \A i \in 1..(Len(subscribers[s]) - 1) :
                   RemoveAt(subscribers[s], k)[i] =
                     IF i < k THEN subscribers[s][i] ELSE subscribers[s][i + 1]
          BY <4>1, <5>1, RemoveAtProperties
        <5>. QED
          BY <3>1, <5>2
      <4>. QED
        BY <4>2, LenProperties
  <2>. HIDE DEF n0
  <2>3. ASSUME NEW j \in DOMAIN subscribers'[s]
        PROVE  subscribers'[s][j].callback \in Subscribed(s) \ {cb}
    <3>. DEFINE i == IF j < k THEN j ELSE j + 1
    <3>1. i \in 1..n0 /\ i # k /\ subscribers'[s][j] = subscribers[s][i]
      BY <1>6, <2>1, <2>2
    <3>. HIDE DEF i
    <3>. QED
      BY <1>0, <1>6, <2>1, <3>1 DEF Subscribed, ListsConsistent
  <2>4. ASSUME NEW i \in DOMAIN subscribers[s], subscribers[s][i].callback # cb
        PROVE  \E j \in DOMAIN subscribers'[s] :
                 subscribers'[s][j].callback = subscribers[s][i].callback
    <3>1. CASE i < k
      <4>1. i \in 1..(n0 - 1) /\ subscribers'[s][i] = subscribers[s][i]
        BY <1>6, <2>1, <2>2, <3>1
      <4>. QED
        BY <2>2, <4>1
    <3>2. CASE i > k
      <4>1. i - 1 \in 1..(n0 - 1) /\ ~(i - 1 < k) /\ (i - 1) + 1 = i
        BY <1>6, <2>1, <3>2
      <4>2. subscribers'[s][i - 1] = subscribers[s][i]
        BY <2>2, <4>1
      <4>. QED
        BY <2>2, <4>1, <4>2
    <3>. QED
      BY <1>6, <2>1, <2>4, <3>1, <3>2
  <2>5. Subscribed(s)' \subseteq Subscribed(s) \ {cb}
    BY <2>3 DEF Subscribed
  <2>6. Subscribed(s) \ {cb} \subseteq Subscribed(s)'
    BY <2>4 DEF Subscribed
  <2>. QED
    BY <2>5, <2>6
<1>8. Urgent(s)' = Urgent(s) /\ Normal(s)' = Normal(s) /\ Hand(s)' = Hand(s)
  BY <1>3 DEF Urgent, Normal, Hand
<1>9. Todo(s) = NULL /\ Todo(s)' = NULL
  BY <1>3, <1>5 DEF Todo
<1>10. /\ n \in BusTopics /\ UNCHANGED BusTopics
       /\ BusMembers' = [BusMembers EXCEPT ![n] = BusMembers[n] \ {cb}]
       /\ BusTodo[n] = NULL
  BY <1>0, <1>4, <1>7, <1>9, BusOfSlotStep
<1>11. UNCHANGED <<BusUrgent, BusNormal, BusHand, BusTodo>>
  BY <1>0, <1>4, <1>8, <1>9, BusOfSlotKept
<1>12. Bus!Leave(n, cb)
  BY <1>10, <1>11 DEF Bus!Leave
<1>. QED
  BY <1>12

\* The callback that runs is the one at the cursor.
LEMMA PositionIs ==
  ASSUME TypeOK, PlacesOK, PoolOwnership, NEW s \in Slots, NEW i \in DOMAIN subscribers[s]
  PROVE  (CHOOSE j \in DOMAIN subscribers[s] : subscribers[s][j].node = subscribers[s][i].node) = i
<1>1. \A j \in DOMAIN subscribers[s] : subscribers[s][j].node = subscribers[s][i].node => j = i
  BY NodesDistinct
<1>. QED
  BY <1>1

\* A topic task and its topic.
LEMMA DeliveryStep ==
  ASSUME CoreInv, PlacesOK, Named, NEW s \in Slots, StartDelivery(s) \/ RunCallback(s) \/ FinishDelivery(s)
  PROVE  \E n \in Names : SlotStep(n, s)
<1>0. TypeOK /\ NamesDistinct
  BY DEF CoreInv
<1>1. worker[s] # "none"
  BY DEF StartDelivery, RunCallback, FinishDelivery
<1>2. PICK n \in Names : Matches(n) # {} /\ s = Slot(n)
  BY <1>1, WorkersSlot
<1>3. SlotStep(n, s)
  BY <1>0, <1>2 DEF SlotStep, StartDelivery, RunCallback, FinishDelivery, TypeOK, tableVars
<1>. QED
  BY <1>3

\* The topic task opens the delivery to the members of that moment.
LEMMA StartDeliveryIsOpen ==
  ASSUME CoreInv, PlacesOK, PoolOwnership, Named, NEW s \in Slots, StartDelivery(s)
  PROVE  \E n \in Names : Bus!Open(n)
<1>. USE OwnersAssumption
<1>0. TypeOK /\ NamesDistinct
  BY DEF CoreInv
<1>1. PICK n \in Names : SlotStep(n, s)
  BY DeliveryStep
<1>2. /\ UNCHANGED <<subscribers, msg_queue, msg>> /\ worker[s] = "wait"
      /\ worker'[s] = "deliver" /\ current'[s] = NodeAt(s, 1) /\ msg[s] # NULL
  BY <1>0 DEF StartDelivery, TypeOK, PlacesOK, tableVars
<1>. DEFINE n0 == Len(subscribers[s])
<1>3. /\ subscribers[s] \in Seq(Subscribers) /\ DOMAIN subscribers[s] = 1..n0 /\ n0 \in Nat
  BY <1>0, LenProperties DEF TypeOK
<1>4. Todo(s)' = Subscribed(s)
  <2>1. CASE n0 = 0
    BY <1>2, <1>3, <2>1 DEF Todo, Subscribed, NodeAt
  <2>2. CASE n0 # 0
    <3>1. 1 \in DOMAIN subscribers[s] /\ current'[s] = subscribers[s][1].node
      BY <1>2, <1>3, <2>2 DEF NodeAt
    <3>2. Position(s)' = 1
      BY <1>0, <1>2, <3>1, PositionIs DEF Position
    <3>3. current'[s] # NULL
      <4>1. subscribers[s][1] \in Subscribers
        BY <1>3, <3>1, ElementOfSeq
      <4>. QED
        BY <3>1, <4>1 DEF Subscribers
    <3>. QED
      BY <1>2, <1>3, <3>2, <3>3 DEF Todo, Subscribed
  <2>. QED
    BY <2>1, <2>2
<1>5. /\ Subscribed(s)' = Subscribed(s) /\ Urgent(s)' = Urgent(s)
      /\ Normal(s)' = Normal(s) /\ Hand(s)' = Hand(s)
  BY <1>2 DEF Subscribed, Urgent, Normal, Hand
<1>6. Todo(s) = NULL /\ Hand(s) # NULL
  <2>1. Message(msg[s]) \in [payload : Payloads, priority : Priorities]
    BY <1>0, <1>2 DEF TypeOK, Msgs, Message
  <2>. QED
    BY <1>2, <2>1, NullAssumption DEF Todo, Hand
<1>7. /\ BusTodo' = [BusTodo EXCEPT ![n] = BusMembers[n]]
      /\ BusTodo[n] = NULL /\ BusHand[n] # NULL /\ UNCHANGED BusTopics
  BY <1>0, <1>1, <1>4, <1>6, BusOfSlotStep
<1>8. UNCHANGED <<BusMembers, BusUrgent, BusNormal, BusHand>>
  BY <1>0, <1>1, <1>5, BusOfSlotKept
<1>. QED
  BY <1>7, <1>8 DEF Bus!Open

\* The topic task runs one of the callbacks that are still to be run.
LEMMA RunCallbackIsRun ==
  ASSUME CoreInv, PlacesOK, PoolOwnership, Named, CursorInList, NEW s \in Slots, RunCallback(s)
  PROVE  \E n \in Names, cb \in Callbacks : Bus!Run(n, cb)
<1>. USE OwnersAssumption
<1>0. TypeOK /\ NamesDistinct /\ ListsConsistent
  BY DEF CoreInv
<1>1. PICK n \in Names : SlotStep(n, s)
  BY DeliveryStep
<1>2. /\ UNCHANGED <<subscribers, msg_queue, msg, worker>> /\ worker[s] = "deliver"
      /\ current[s] # NULL /\ current'[s] = NodeAt(s, Position(s) + 1)
  BY <1>0 DEF RunCallback, TypeOK, tableVars
<1>3. PICK i \in DOMAIN subscribers[s] : subscribers[s][i].node = current[s]
  BY <1>2 DEF CursorInList
<1>4. Position(s) = i
  BY <1>0, <1>3, PositionIs DEF Position
<1>. DEFINE n0 == Len(subscribers[s])
<1>5. /\ subscribers[s] \in Seq(Subscribers) /\ DOMAIN subscribers[s] = 1..n0 /\ n0 \in Nat
      /\ \A j \in 1..n0 : subscribers[s][j] \in Subscribers
  BY <1>0, LenProperties, ElementOfSeq DEF TypeOK
<1>6. PICK cb \in Callbacks : cb = subscribers[s][i].callback
  BY <1>5 DEF Subscribers
<1>. HIDE DEF n0
<1>7. Todo(s) = {subscribers[s][j].callback : j \in i..n0}
  BY <1>2, <1>4 DEF Todo, n0
<1>8. Todo(s)' = {subscribers[s][j].callback : j \in (i + 1)..n0}
  <2>1. CASE i = n0
    BY <1>2, <1>4, <1>5, <2>1 DEF Todo, NodeAt
  <2>2. CASE i # n0
    <3>1. i + 1 \in DOMAIN subscribers[s] /\ current'[s] = subscribers[s][i + 1].node
      BY <1>2, <1>4, <1>5, <2>2 DEF NodeAt
    <3>2. Position(s)' = i + 1
      BY <1>0, <1>2, <3>1, PositionIs DEF Position
    <3>3. current'[s] # NULL
      BY <1>5, <3>1 DEF Subscribers
    <3>. QED
      BY <1>2, <3>2, <3>3 DEF Todo, n0
  <2>. QED
    BY <2>1, <2>2
<1>9. Todo(s)' = Todo(s) \ {cb} /\ cb \in Todo(s)
  <2>1. \A j \in i..n0 : j \in DOMAIN subscribers[s] /\ (j = i \/ j \in (i + 1)..n0)
    BY <1>5
  <2>2. \A j \in (i + 1)..n0 : j \in i..n0 /\ j # i
    BY <1>5
  <2>3. \A j \in (i + 1)..n0 : subscribers[s][j].callback # cb
    BY <1>0, <1>6, <2>1, <2>2 DEF ListsConsistent
  <2>4. i \in i..n0
    BY <1>5
  <2>. QED
    BY <1>6, <1>7, <1>8, <2>1, <2>2, <2>3, <2>4
<1>10. Todo(s) # NULL
  <2>1. Todo(s) \in SUBSET Callbacks
    BY <1>5, <1>7 DEF Subscribers
  <2>. QED
    BY <2>1, NullAssumption
<1>11. /\ Subscribed(s)' = Subscribed(s) /\ Urgent(s)' = Urgent(s)
       /\ Normal(s)' = Normal(s) /\ Hand(s)' = Hand(s)
  BY <1>2 DEF Subscribed, Urgent, Normal, Hand
<1>12. /\ BusTodo' = [BusTodo EXCEPT ![n] = BusTodo[n] \ {cb}]
       /\ BusTodo[n] # NULL /\ cb \in BusTodo[n] /\ UNCHANGED BusTopics
  BY <1>0, <1>1, <1>9, <1>10, BusOfSlotStep
<1>13. UNCHANGED <<BusMembers, BusUrgent, BusNormal, BusHand>>
  BY <1>0, <1>1, <1>11, BusOfSlotKept
<1>. QED
  BY <1>12, <1>13 DEF Bus!Run

\* The topic task closes the delivery when no callback is left.
LEMMA FinishDeliveryIsClose ==
  ASSUME CoreInv, PlacesOK, Named, NEW s \in Slots, FinishDelivery(s)
  PROVE  \E n \in Names : Bus!Close(n)
<1>0. TypeOK /\ NamesDistinct
  BY DEF CoreInv
<1>1. PICK n \in Names : SlotStep(n, s)
  BY DeliveryStep
<1>2. /\ UNCHANGED <<subscribers, msg_queue, current>> /\ worker[s] = "deliver"
      /\ current[s] = NULL /\ worker'[s] = "receive" /\ msg'[s] = NULL
  BY <1>0 DEF FinishDelivery, TypeOK, tableVars
<1>3. Todo(s) = {} /\ Todo(s)' = NULL /\ Hand(s)' = NULL
  BY <1>2 DEF Todo, Hand
<1>4. Subscribed(s)' = Subscribed(s) /\ Urgent(s)' = Urgent(s) /\ Normal(s)' = Normal(s)
  BY <1>2 DEF Subscribed, Urgent, Normal
<1>5. /\ BusTodo' = [BusTodo EXCEPT ![n] = NULL] /\ BusTodo[n] = {}
      /\ BusHand' = [BusHand EXCEPT ![n] = NULL] /\ UNCHANGED BusTopics
  BY <1>0, <1>1, <1>3, BusOfSlotStep
<1>6. UNCHANGED <<BusMembers, BusUrgent, BusNormal>>
  BY <1>0, <1>1, <1>4, BusOfSlotKept
<1>. QED
  BY <1>5, <1>6 DEF Bus!Close

\* The messages of the bus.
BusMessages == [payload : Payloads, priority : Priorities]

\* What the two backlogs of a topic are to its queue.
QueueViews ==
  \A s \in Slots : \E k \in 0..Len(msg_queue[s]) :
    LET q == msg_queue[s] IN
    /\ \A i \in 1..Len(q) : q[i].priority = MSG_PRIORITY_CRITICAL <=> i <= k
    /\ Urgent(s) \in Seq(BusMessages) /\ Len(Urgent(s)) = k
    /\ \A i \in 1..k : Urgent(s)[i] = Message(q[i])
    /\ Normal(s) \in Seq(BusMessages) /\ Len(Normal(s)) = Len(q) - k
    /\ \A i \in 1..(Len(q) - k) : Normal(s)[i] = Message(q[k + i])

\* A function on 1..n is a sequence of length n.
LEMMA SeqOfFunction ==
  ASSUME NEW S, NEW n \in Nat, NEW f \in [1..n -> S]
  PROVE  f \in Seq(S) /\ Len(f) = n
<1>1. f \in Seq(S)
  BY SeqDef
<1>2. DOMAIN f = 1..Len(f) /\ Len(f) \in Nat /\ DOMAIN f = 1..n
  BY <1>1, LenProperties
<1>. QED
  BY <1>1, <1>2

\* The queue is the urgent backlog and, behind it, the normal one.
LEMMA QueueViewsOf == TypeOK /\ CriticalFirst => QueueViews
<1>. SUFFICES ASSUME TypeOK, CriticalFirst, NEW s \in Slots
              PROVE  \E k \in 0..Len(msg_queue[s]) :
                       LET q == msg_queue[s] IN
                       /\ \A i \in 1..Len(q) : q[i].priority = MSG_PRIORITY_CRITICAL <=> i <= k
                       /\ Urgent(s) \in Seq(BusMessages) /\ Len(Urgent(s)) = k
                       /\ \A i \in 1..k : Urgent(s)[i] = Message(q[i])
                       /\ Normal(s) \in Seq(BusMessages) /\ Len(Normal(s)) = Len(q) - k
                       /\ \A i \in 1..(Len(q) - k) : Normal(s)[i] = Message(q[k + i])
  BY DEF QueueViews
<1>. DEFINE q == msg_queue[s]
<1>1. q \in Seq(Msgs) /\ Len(q) \in Nat /\ \A i \in 1..Len(q) : q[i] \in Msgs
  BY LenProperties, ElementOfSeq DEF TypeOK
<1>2. PICK k \in 0..Len(q) : \A i \in 1..Len(q) : q[i].priority = MSG_PRIORITY_CRITICAL <=> i <= k
  BY DEF CriticalFirst, CriticalsLead
<1>3. CriticalAhead(q) = k
  BY <1>1, <1>2, CriticalAheadIs
<1>4. \A i \in 1..Len(q) : Message(q[i]) \in BusMessages
  BY <1>1 DEF Message, BusMessages, Msgs
<1>5. Urgent(s) = [i \in 1..k |-> Message(q[i])]
  BY <1>3 DEF Urgent
<1>6. Normal(s) = [i \in 1..(Len(q) - k) |-> Message(q[k + i])]
  BY <1>3 DEF Normal
<1>. HIDE DEF q
<1>7. Urgent(s) \in [1..k -> BusMessages]
  BY <1>1, <1>4, <1>5
<1>8. Normal(s) \in [1..(Len(q) - k) -> BusMessages]
  <2>1. \A i \in 1..(Len(q) - k) : k + i \in 1..Len(q)
    BY <1>1
  <2>2. \A i \in 1..(Len(q) - k) : Message(q[k + i]) \in BusMessages
    BY <1>4, <2>1
  <2>. QED
    BY <1>6, <2>2
<1>9. k \in Nat /\ Len(q) - k \in Nat
  BY <1>1
<1>10. /\ Urgent(s) \in Seq(BusMessages) /\ Len(Urgent(s)) = k
       /\ Normal(s) \in Seq(BusMessages) /\ Len(Normal(s)) = Len(q) - k
  BY <1>7, <1>8, <1>9, SeqOfFunction
<1>. QED
  BY <1>2, <1>5, <1>6, <1>10 DEF q

\* It is so after every step too.
LEMMA QueueViewsOfNext == TypeOK' /\ CriticalFirst' => QueueViews'
  BY QueueViewsOf, PTL

\* What pubsub_publish does to the queue of its topic.
LEMMA SendStep ==
  ASSUME CoreInv, NEW t \in Tasks, PublishSend(t)
  PROVE  \E n \in Names, s \in Slots, m \in Msgs :
           LET len == Len(msg_queue[s]) IN
           /\ SlotStep(n, s) /\ UNCHANGED <<subscribers, msg, worker, current>>
           /\ len \in Nat /\ len < MAX_QUEUE_SIZE
           /\ msg_queue'[s] \in Seq(Msgs) /\ Len(msg_queue'[s]) = len + 1
           /\ \A i \in 1..(len + 1) :
                msg_queue'[s][i] = IF m.priority = MSG_PRIORITY_CRITICAL
                                   THEN IF i = 1 THEN m ELSE msg_queue[s][i - 1]
                                   ELSE IF i = len + 1 THEN m ELSE msg_queue[s][i]
<1>. USE OwnersAssumption
<1>0. TypeOK /\ CallOK /\ NamesDistinct
  BY DEF CoreInv
<1>1. PICK n \in Names, s \in Slots : n = call[t].name /\ Matches(n) # {} /\ s = Slot(n)
  BY <1>0, CallersSlot DEF CallOK, PublishSend
<1>2. [payload |-> call[t].payload, priority |-> call[t].priority, data |-> block[t]] \in Msgs
  BY <1>0, RequestFields DEF CallOK, PublishSend, Msgs, TypeOK
<1>3. PICK m \in Msgs :
        m = [payload |-> call[t].payload, priority |-> call[t].priority, data |-> block[t]]
  BY <1>2
<1>4. /\ UNCHANGED <<name, topic_count, subscribers, msg, worker, current>>
      /\ msg_queue' = [msg_queue EXCEPT ![s] = Enqueue(@, m)]
      /\ Len(msg_queue[s]) < MAX_QUEUE_SIZE
  BY <1>1, <1>3 DEF PublishSend, topicVars
<1>5. /\ msg_queue'[s] = Enqueue(msg_queue[s], m)
      /\ \A r \in Slots \ {s} : msg_queue'[r] = msg_queue[r]
  BY <1>0, <1>4 DEF TypeOK
<1>6. SlotStep(n, s)
  BY <1>1, <1>4, <1>5 DEF SlotStep
<1>7. msg_queue[s] \in Seq(Msgs) /\ Len(msg_queue[s]) \in Nat
  BY <1>0, LenProperties DEF TypeOK
<1>8. /\ Append(msg_queue[s], m) \in Seq(Msgs)
      /\ Len(Append(msg_queue[s], m)) = Len(msg_queue[s]) + 1
      /\ \A i \in 1..(Len(msg_queue[s]) + 1) :
           Append(msg_queue[s], m)[i] = IF i = Len(msg_queue[s]) + 1 THEN m ELSE msg_queue[s][i]
  BY <1>7, AppendProperties
<1>9. /\ <<m>> \o msg_queue[s] \in Seq(Msgs)
      /\ Len(<<m>> \o msg_queue[s]) = Len(msg_queue[s]) + 1
      /\ \A i \in 1..(Len(msg_queue[s]) + 1) :
           (<<m>> \o msg_queue[s])[i] = IF i = 1 THEN m ELSE msg_queue[s][i - 1]
  <2>1. <<m>> \in Seq(Msgs) /\ Len(<<m>>) = 1 /\ <<m>>[1] = m
    OBVIOUS
  <2>2. /\ <<m>> \o msg_queue[s] \in Seq(Msgs)
        /\ Len(<<m>> \o msg_queue[s]) = 1 + Len(msg_queue[s])
        /\ \A i \in 1..(1 + Len(msg_queue[s])) :
             (<<m>> \o msg_queue[s])[i] = IF i <= 1 THEN <<m>>[i] ELSE msg_queue[s][i - 1]
    BY <1>7, <2>1, ConcatProperties
  <2>. QED
    BY <1>7, <2>1, <2>2
<1>10. /\ msg_queue'[s] \in Seq(Msgs) /\ Len(msg_queue'[s]) = Len(msg_queue[s]) + 1
       /\ \A i \in 1..(Len(msg_queue[s]) + 1) :
            msg_queue'[s][i] = IF m.priority = MSG_PRIORITY_CRITICAL
                               THEN IF i = 1 THEN m ELSE msg_queue[s][i - 1]
                               ELSE IF i = Len(msg_queue[s]) + 1 THEN m ELSE msg_queue[s][i]
  <2>1. CASE m.priority = MSG_PRIORITY_CRITICAL
    <3>1. msg_queue'[s] = <<m>> \o msg_queue[s]
      BY <1>5, <2>1 DEF Enqueue
    <3>. QED
      BY <1>9, <2>1, <3>1
  <2>2. CASE m.priority # MSG_PRIORITY_CRITICAL
    <3>1. msg_queue'[s] = Append(msg_queue[s], m)
      BY <1>5, <2>2 DEF Enqueue
    <3>. QED
      BY <1>8, <2>2, <3>1
  <2>. QED
    BY <2>1, <2>2
<1>. QED
  BY <1>4, <1>6, <1>7, <1>10

\* What the topic task does to the queue of its topic.
LEMMA ReceiveStep ==
  ASSUME CoreInv, PlacesOK, Named, NEW s \in Slots, Receive(s)
  PROVE  \E n \in Names :
           LET len == Len(msg_queue[s]) IN
           /\ SlotStep(n, s) /\ UNCHANGED <<subscribers, current>>
           /\ len \in Nat \ {0} /\ msg_queue[s][1] \in Msgs
           /\ msg[s] = NULL /\ msg'[s] = msg_queue[s][1]
           /\ worker[s] = "receive" /\ worker'[s] = "wait"
           /\ msg_queue'[s] \in Seq(Msgs) /\ Len(msg_queue'[s]) = len - 1
           /\ \A i \in 1..(len - 1) : msg_queue'[s][i] = msg_queue[s][i + 1]
<1>0. TypeOK
  BY DEF CoreInv
<1>1. PICK n \in Names : Matches(n) # {} /\ s = Slot(n)
  BY WorkersSlot DEF Receive
<1>2. /\ msg_queue[s] \in Seq(Msgs) /\ msg_queue[s] # <<>>
      /\ Len(msg_queue[s]) \in Nat \ {0}
  BY <1>0, EmptySeq DEF Receive, TypeOK
<1>3. SlotStep(n, s) /\ UNCHANGED <<subscribers, current>>
  BY <1>0, <1>1 DEF SlotStep, Receive, TypeOK
<1>4. /\ msg'[s] = msg_queue[s][1] /\ msg_queue'[s] = Tail(msg_queue[s])
      /\ msg[s] = NULL /\ worker[s] = "receive" /\ worker'[s] = "wait"
  BY <1>0, <1>2 DEF Receive, PlacesOK, TypeOK
<1>5. /\ Tail(msg_queue[s]) \in Seq(Msgs)
      /\ Len(Tail(msg_queue[s])) = Len(msg_queue[s]) - 1
      /\ \A i \in 1..(Len(msg_queue[s]) - 1) : Tail(msg_queue[s])[i] = msg_queue[s][i + 1]
  BY <1>2, HeadTailProperties
<1>6. msg_queue[s][1] \in Msgs
  BY <1>2, ElementOfSeq
<1>. QED
  BY <1>2, <1>3, <1>4, <1>5, <1>6

\* Every step leaves the critical messages ahead of the others, and the topics
\* that exist named.
LEMMA QueueStep ==
  ASSUME CoreInv, PlacesOK, Named, CriticalFirst, [Next]_vars
  PROVE  Named' /\ CriticalFirst'
<1>0. TypeOK /\ CallOK /\ NamesDistinct
  BY DEF CoreInv
<1>1. Named'
  <2>1. ASSUME NEW t \in Tasks, CreateFailed(t)
        PROVE  Named'
    BY <1>0, <2>1, LimitsAssumption DEF Named, CreateFailed, TypeOK, Slots
  <2>2. ASSUME NEW t \in Tasks, CreateTopic(t)
        PROVE  Named'
    <3>1. call[t].name \in Names
      BY <1>0, <2>2, RequestFields DEF CallOK, CreateTopic
    <3>. QED
      BY <1>0, <2>2, <3>1, LimitsAssumption DEF Named, CreateTopic, TypeOK, Slots
  <2>. QED
    BY <2>1, <2>2, NamesFrame DEF Named
<1>2. UNCHANGED msg_queue => CriticalFirst'
  BY DEF CriticalFirst
<1>3. ASSUME NEW t \in Tasks, CreateTopic(t)
      PROVE  CriticalFirst'
  <2>1. topic_count + 1 \in Slots /\ topic_count + 1 > topic_count
    BY <1>0, <1>3, LimitsAssumption DEF CreateTopic, TypeOK, Slots
  <2>2. UNCHANGED msg_queue
    BY <1>0, <1>3, <2>1 DEF CreateTopic, PlacesOK, TypeOK
  <2>. QED
    BY <2>2 DEF CriticalFirst
<1>4. ASSUME NEW t \in Tasks, PublishSend(t)
      PROVE  CriticalFirst'
  <2>1. PICK n \in Names, s \in Slots, m \in Msgs :
          LET len == Len(msg_queue[s]) IN
          /\ SlotStep(n, s)
          /\ len \in Nat
          /\ Len(msg_queue'[s]) = len + 1
          /\ \A i \in 1..(len + 1) :
               msg_queue'[s][i] = IF m.priority = MSG_PRIORITY_CRITICAL
                                  THEN IF i = 1 THEN m ELSE msg_queue[s][i - 1]
                                  ELSE IF i = len + 1 THEN m ELSE msg_queue[s][i]
    BY <1>4, SendStep
  <2>2. PICK k \in 0..Len(msg_queue[s]) : \A i \in 1..Len(msg_queue[s]) :
          msg_queue[s][i].priority = MSG_PRIORITY_CRITICAL <=> i <= k
    BY DEF CriticalFirst, CriticalsLead
  <2>. DEFINE j == IF m.priority = MSG_PRIORITY_CRITICAL THEN k + 1 ELSE k
  <2>3. /\ j \in 0..Len(msg_queue'[s])
        /\ \A i \in 1..Len(msg_queue'[s]) :
             msg_queue'[s][i].priority = MSG_PRIORITY_CRITICAL <=> i <= j
    <3>1. CASE m.priority = MSG_PRIORITY_CRITICAL
      <4>1. \A i \in 1..(Len(msg_queue[s]) + 1) :
              i = 1 \/ (i - 1 \in 1..Len(msg_queue[s]) /\ (i - 1 <= k <=> i <= k + 1))
        BY <2>1
      <4>. QED
        BY <2>1, <2>2, <3>1, <4>1
    <3>2. CASE m.priority # MSG_PRIORITY_CRITICAL
      BY <2>1, <2>2, <3>2
    <3>. QED
      BY <3>1, <3>2
  <2>4. \A r \in Slots \ {s} : msg_queue'[r] = msg_queue[r]
    BY <2>1 DEF SlotStep
  <2>. HIDE DEF j
  <2>5. CriticalsLead(msg_queue'[s])
    BY <2>3 DEF CriticalsLead
  <2>. QED
    BY <2>4, <2>5 DEF CriticalFirst
<1>5. ASSUME NEW s \in Slots, Receive(s)
      PROVE  CriticalFirst'
  <2>1. PICK n \in Names :
          LET len == Len(msg_queue[s]) IN
          /\ SlotStep(n, s)
          /\ len \in Nat \ {0}
          /\ Len(msg_queue'[s]) = len - 1
          /\ \A i \in 1..(len - 1) : msg_queue'[s][i] = msg_queue[s][i + 1]
    BY <1>5, ReceiveStep
  <2>2. PICK k \in 0..Len(msg_queue[s]) : \A i \in 1..Len(msg_queue[s]) :
          msg_queue[s][i].priority = MSG_PRIORITY_CRITICAL <=> i <= k
    BY DEF CriticalFirst, CriticalsLead
  <2>. DEFINE j == IF k = 0 THEN 0 ELSE k - 1
  <2>3. /\ j \in 0..Len(msg_queue'[s])
        /\ \A i \in 1..Len(msg_queue'[s]) :
             msg_queue'[s][i].priority = MSG_PRIORITY_CRITICAL <=> i <= j
    <3>1. \A i \in 1..(Len(msg_queue[s]) - 1) :
            i + 1 \in 1..Len(msg_queue[s]) /\ (i + 1 <= k <=> i <= j)
      BY <2>1
    <3>2. j \in 0..Len(msg_queue'[s])
      BY <2>1
    <3>3. ASSUME NEW i \in 1..Len(msg_queue'[s])
          PROVE  msg_queue'[s][i].priority = MSG_PRIORITY_CRITICAL <=> i <= j
      <4>1. i \in 1..(Len(msg_queue[s]) - 1)
        BY <2>1
      <4>2. msg_queue'[s][i] = msg_queue[s][i + 1]
        BY <2>1, <4>1
      <4>3. i + 1 \in 1..Len(msg_queue[s]) /\ (i + 1 <= k <=> i <= j)
        BY <3>1, <4>1
      <4>. HIDE DEF j
      <4>. QED
        BY <2>2, <4>2, <4>3
    <3>. QED
      BY <3>2, <3>3
  <2>4. \A r \in Slots \ {s} : msg_queue'[r] = msg_queue[r]
    BY <2>1 DEF SlotStep
  <2>. HIDE DEF j
  <2>5. CriticalsLead(msg_queue'[s])
    BY <2>3 DEF CriticalsLead
  <2>. QED
    BY <2>4, <2>5 DEF CriticalFirst
<1>. QED
  BY <1>1, <1>2, <1>3, <1>4, <1>5
  DEF Next, Proceed, vars, tableVars, Call, TakeTopicsLock, TakeTopicLock, TopicNotFound,
      CreateRefused, CreateFailed, PublishAlloc, PublishNoMemory, PublishQueueFull,
      Subscribe, SubscribeRefused, Unsubscribe, NotSubscribed, StartDelivery, RunCallback,
      FinishDelivery

\* One cut of a queue into critical messages and others.
LEMMA OneCut ==
  ASSUME NEW n \in Nat, NEW j \in 0..n, NEW k \in 0..n, \A i \in 1..n : i <= j <=> i <= k
  PROVE  j = k
<1>1. j \in 1..n => j <= k
  OBVIOUS
<1>2. k \in 1..n => k <= j
  OBVIOUS
<1>. QED
  BY <1>1, <1>2

\* pubsub_publish adds a message to one of the two backlogs.
LEMMA SendIsAccept ==
  ASSUME CoreInv, PlacesOK, Named, CriticalFirst, NEW t \in Tasks, PublishSend(t), [Next]_vars
  PROVE  \E n \in Names, m \in BusMessages : Bus!Accept(n, m)
<1>0. TypeOK /\ NamesDistinct /\ TypeOK' /\ CriticalFirst'
  BY TypeStep, QueueStep DEF CoreInv
<1>1. PICK n \in Names, s \in Slots, x \in Msgs :
        LET len == Len(msg_queue[s]) IN
        /\ SlotStep(n, s) /\ UNCHANGED <<subscribers, msg, worker, current>>
        /\ len \in Nat /\ len < MAX_QUEUE_SIZE
        /\ msg_queue'[s] \in Seq(Msgs) /\ Len(msg_queue'[s]) = len + 1
        /\ \A i \in 1..(len + 1) :
             msg_queue'[s][i] = IF x.priority = MSG_PRIORITY_CRITICAL
                                THEN IF i = 1 THEN x ELSE msg_queue[s][i - 1]
                                ELSE IF i = len + 1 THEN x ELSE msg_queue[s][i]
  BY SendStep
<1>2. PICK m \in BusMessages : m = Message(x) /\ m.priority = x.priority
  <2>1. Message(x) \in BusMessages /\ Message(x).priority = x.priority
    BY DEF BusMessages, Message, Msgs
  <2>. QED
    BY <2>1
<1>. DEFINE len == Len(msg_queue[s])
<1>3. PICK k \in 0..len :
        /\ \A i \in 1..len : msg_queue[s][i].priority = MSG_PRIORITY_CRITICAL <=> i <= k
        /\ Urgent(s) \in Seq(BusMessages) /\ Len(Urgent(s)) = k
        /\ \A i \in 1..k : Urgent(s)[i] = Message(msg_queue[s][i])
        /\ Normal(s) \in Seq(BusMessages) /\ Len(Normal(s)) = len - k
        /\ \A i \in 1..(len - k) : Normal(s)[i] = Message(msg_queue[s][k + i])
  BY <1>0, QueueViewsOf DEF QueueViews
<1>4. PICK j \in 0..(len + 1) :
        /\ \A i \in 1..(len + 1) : msg_queue'[s][i].priority = MSG_PRIORITY_CRITICAL <=> i <= j
        /\ Urgent(s)' \in Seq(BusMessages) /\ Len(Urgent(s)') = j
        /\ \A i \in 1..j : Urgent(s)'[i] = Message(msg_queue'[s][i])
        /\ Normal(s)' \in Seq(BusMessages) /\ Len(Normal(s)') = len + 1 - j
        /\ \A i \in 1..(len + 1 - j) : Normal(s)'[i] = Message(msg_queue'[s][j + i])
  <2>1. Len(msg_queue'[s]) = len + 1 /\ len \in Nat
    BY <1>1
  <2>. HIDE DEF len
  <2>2. PICK j \in 0..Len(msg_queue'[s]) :
          /\ \A i \in 1..Len(msg_queue'[s]) :
               msg_queue'[s][i].priority = MSG_PRIORITY_CRITICAL <=> i <= j
          /\ Urgent(s)' \in Seq(BusMessages) /\ Len(Urgent(s)') = j
          /\ \A i \in 1..j : Urgent(s)'[i] = Message(msg_queue'[s][i])
          /\ Normal(s)' \in Seq(BusMessages) /\ Len(Normal(s)') = Len(msg_queue'[s]) - j
          /\ \A i \in 1..(Len(msg_queue'[s]) - j) : Normal(s)'[i] = Message(msg_queue'[s][j + i])
    BY <1>0, QueueViewsOfNext DEF QueueViews
  <2>3. j \in 0..(len + 1) /\ Len(Urgent(s)') = j /\ Len(Normal(s)') = len + 1 - j
    BY <2>1, <2>2
  <2>4. \A i \in 1..(len + 1) :
          msg_queue'[s][i].priority = MSG_PRIORITY_CRITICAL <=> i <= j
    BY <2>1, <2>2
  <2>5. \A i \in 1..(len + 1 - j) : Normal(s)'[i] = Message(msg_queue'[s][j + i])
    BY <2>1, <2>2
  <2>. QED
    BY <2>2, <2>3, <2>4, <2>5
<1>. HIDE DEF len
<1>5. len \in Nat /\ len < MAX_QUEUE_SIZE
  BY <1>1 DEF len
<1>6. ASSUME NEW i \in 1..(len + 1)
      PROVE  msg_queue'[s][i] = IF x.priority = MSG_PRIORITY_CRITICAL
                                THEN IF i = 1 THEN x ELSE msg_queue[s][i - 1]
                                ELSE IF i = len + 1 THEN x ELSE msg_queue[s][i]
  BY <1>1 DEF len
<1>7. /\ Subscribed(s)' = Subscribed(s) /\ Hand(s)' = Hand(s) /\ Todo(s)' = Todo(s)
  BY <1>1 DEF Subscribed, Hand, Todo, Position
<1>8. UNCHANGED <<BusMembers, BusHand, BusTodo>>
  BY <1>0, <1>1, <1>7, BusOfSlotKept
<1>9. n \in BusTopics /\ UNCHANGED BusTopics /\ BusUrgent[n] = Urgent(s) /\ BusNormal[n] = Normal(s)
  BY <1>0, <1>1, BusOfSlotStep
<1>10. Len(BusUrgent[n]) + Len(BusNormal[n]) < MAX_QUEUE_SIZE
  <2>1. Len(BusUrgent[n]) = k /\ Len(BusNormal[n]) = len - k
    BY <1>3, <1>9
  <2>. QED
    BY <1>5, <2>1
<1>11. CASE x.priority = MSG_PRIORITY_CRITICAL
  <2>1. j = k + 1
    <3>1. \A i \in 1..(len + 1) :
            i = 1 \/ (i - 1 \in 1..len /\ (i - 1 <= k <=> i <= k + 1))
      BY <1>5
    <3>2. \A i \in 1..(len + 1) : i <= j <=> i <= k + 1
      <4>1. ASSUME NEW i \in 1..(len + 1)
            PROVE  msg_queue'[s][i].priority = MSG_PRIORITY_CRITICAL <=> i <= k + 1
        <5>1. CASE i = 1
          BY <1>5, <1>6, <1>11, <5>1
        <5>2. CASE i # 1
          <6>1. i - 1 \in 1..len /\ (i - 1 <= k <=> i <= k + 1)
            BY <3>1, <5>2
          <6>2. msg_queue'[s][i] = msg_queue[s][i - 1]
            BY <1>6, <1>11, <5>2
          <6>. QED
            BY <1>3, <6>1, <6>2
        <5>. QED
          BY <5>1, <5>2
      <4>. QED
        BY <1>4, <4>1
    <3>3. k + 1 \in 0..(len + 1) /\ len + 1 \in Nat
      BY <1>5
    <3>. QED
      BY <3>2, <3>3, OneCut
  <2>2. <<m>> \in Seq(BusMessages) /\ Len(<<m>>) = 1 /\ <<m>>[1] = m
    OBVIOUS
  <2>3. /\ <<m>> \o Urgent(s) \in Seq(BusMessages) /\ Len(<<m>> \o Urgent(s)) = 1 + k
        /\ \A i \in 1..(1 + k) :
             (<<m>> \o Urgent(s))[i] = IF i <= 1 THEN <<m>>[i] ELSE Urgent(s)[i - 1]
    BY <1>3, <2>2, ConcatProperties
  <2>4. Urgent(s)' = <<m>> \o Urgent(s)
    <3>1. ASSUME NEW i \in 1..j
          PROVE  Urgent(s)'[i] = (<<m>> \o Urgent(s))[i]
      <4>1. i \in 1..(len + 1) /\ i \in 1..(1 + k)
        BY <1>5, <2>1
      <4>2. CASE i = 1
        BY <1>2, <1>4, <1>6, <1>11, <2>2, <2>3, <4>1, <4>2
      <4>3. CASE i # 1
        <5>1. i - 1 \in 1..k /\ ~(i <= 1)
          BY <4>1, <4>3
        <5>. QED
          BY <1>3, <1>4, <1>6, <1>11, <2>3, <4>1, <4>3, <5>1
      <4>. QED
        BY <4>2, <4>3
    <3>. QED
      BY <1>4, <2>1, <2>3, <3>1, SeqEqual
  <2>5. Normal(s)' = Normal(s)
    <3>1. ASSUME NEW i \in 1..(len - k)
          PROVE  Normal(s)'[i] = Normal(s)[i]
      <4>1. /\ i \in 1..(len + 1 - j) /\ j + i \in 1..(len + 1) /\ j + i # 1
            /\ (j + i) - 1 = k + i
        BY <1>5, <2>1
      <4>2. msg_queue'[s][j + i] = msg_queue[s][k + i]
        BY <1>6, <1>11, <4>1
      <4>. QED
        BY <1>3, <1>4, <4>1, <4>2
    <3>2. Len(Normal(s)') = Len(Normal(s))
      BY <1>3, <1>4, <1>5, <2>1
    <3>. QED
      BY <1>3, <1>4, <3>1, <3>2, SeqEqual
  <2>6. /\ BusUrgent' = [BusUrgent EXCEPT ![n] = <<m>> \o BusUrgent[n]]
        /\ UNCHANGED BusNormal
    BY <1>0, <1>1, <1>9, <2>4, <2>5, BusOfSlotStep, BusOfSlotKept
  <2>7. Bus!Accept(n, m)
    BY <1>2, <1>8, <1>9, <1>10, <1>11, <2>6 DEF Bus!Accept
  <2>. QED
    BY <2>7
<1>12. CASE x.priority # MSG_PRIORITY_CRITICAL
  <2>1. j = k
    <3>1. \A i \in 1..(len + 1) : i = len + 1 \/ i \in 1..len
      BY <1>5
    <3>2. \A i \in 1..(len + 1) : i <= j <=> i <= k
      <4>1. ASSUME NEW i \in 1..(len + 1)
            PROVE  msg_queue'[s][i].priority = MSG_PRIORITY_CRITICAL <=> i <= k
        <5>1. CASE i = len + 1
          BY <1>5, <1>6, <1>12, <5>1
        <5>2. CASE i # len + 1
          <6>1. msg_queue'[s][i] = msg_queue[s][i] /\ i \in 1..len
            BY <1>6, <1>12, <3>1, <5>2
          <6>. QED
            BY <1>3, <6>1
        <5>. QED
          BY <5>1, <5>2
      <4>. QED
        BY <1>4, <4>1
    <3>3. k \in 0..(len + 1) /\ len + 1 \in Nat
      BY <1>5
    <3>. QED
      BY <3>2, <3>3, OneCut
  <2>2. Urgent(s)' = Urgent(s)
    <3>1. ASSUME NEW i \in 1..k
          PROVE  Urgent(s)'[i] = Urgent(s)[i]
      <4>1. i \in 1..(len + 1) /\ i # len + 1
        BY <1>5
      <4>. QED
        BY <1>3, <1>4, <1>6, <1>12, <2>1, <4>1
    <3>. QED
      BY <1>3, <1>4, <2>1, <3>1, SeqEqual
  <2>3. /\ Append(Normal(s), m) \in Seq(BusMessages)
        /\ Len(Append(Normal(s), m)) = len + 1 - k
        /\ \A i \in 1..(len - k) : Append(Normal(s), m)[i] = Normal(s)[i]
        /\ Append(Normal(s), m)[len + 1 - k] = m
    <3>1. /\ Append(Normal(s), m) \in Seq(BusMessages)
          /\ Len(Append(Normal(s), m)) = Len(Normal(s)) + 1
          /\ \A i \in 1..Len(Normal(s)) : Append(Normal(s), m)[i] = Normal(s)[i]
          /\ Append(Normal(s), m)[Len(Normal(s)) + 1] = m
      BY <1>3, AppendProperties
    <3>2. Len(Normal(s)) = len - k /\ (len - k) + 1 = len + 1 - k
      BY <1>3, <1>5
    <3>. QED
      BY <3>1, <3>2
  <2>4. Normal(s)' = Append(Normal(s), m)
    <3>1. ASSUME NEW i \in 1..(len + 1 - k)
          PROVE  Normal(s)'[i] = Append(Normal(s), m)[i]
      <4>1. CASE i = len + 1 - k
        <5>1. k + i = len + 1 /\ k + i \in 1..(len + 1)
          BY <1>5, <4>1
        <5>2. msg_queue'[s][k + i] = x
          BY <1>6, <1>12, <5>1
        <5>. QED
          BY <1>2, <1>4, <2>1, <2>3, <4>1, <5>2
      <4>2. CASE i # len + 1 - k
        <5>1. i \in 1..(len - k) /\ k + i \in 1..(len + 1) /\ k + i # len + 1
          BY <1>5, <4>2
        <5>2. msg_queue'[s][k + i] = msg_queue[s][k + i]
          BY <1>6, <1>12, <5>1
        <5>. QED
          BY <1>3, <1>4, <2>1, <2>3, <5>1, <5>2
      <4>. QED
        BY <4>1, <4>2
    <3>. QED
      BY <1>4, <2>1, <2>3, <3>1, SeqEqual
  <2>5. /\ BusNormal' = [BusNormal EXCEPT ![n] = Append(BusNormal[n], m)]
        /\ UNCHANGED BusUrgent
    BY <1>0, <1>1, <1>9, <2>2, <2>4, BusOfSlotStep, BusOfSlotKept
  <2>6. Bus!Accept(n, m)
    BY <1>2, <1>8, <1>9, <1>10, <1>12, <2>5 DEF Bus!Accept
  <2>. QED
    BY <2>6
<1>. QED
  BY <1>11, <1>12

\* The topic task takes the newest critical message, or the oldest other one if
\* there is none.
LEMMA ReceiveIsTake ==
  ASSUME CoreInv, PlacesOK, Named, CriticalFirst, NEW s \in Slots, Receive(s), [Next]_vars
  PROVE  \E n \in Names : Bus!Take(n)
<1>0. TypeOK /\ NamesDistinct /\ TypeOK' /\ CriticalFirst'
  BY TypeStep, QueueStep DEF CoreInv
<1>1. PICK n \in Names :
        LET len == Len(msg_queue[s]) IN
        /\ SlotStep(n, s) /\ UNCHANGED <<subscribers, current>>
        /\ len \in Nat \ {0} /\ msg_queue[s][1] \in Msgs
        /\ msg[s] = NULL /\ msg'[s] = msg_queue[s][1]
        /\ worker[s] = "receive" /\ worker'[s] = "wait"
        /\ msg_queue'[s] \in Seq(Msgs) /\ Len(msg_queue'[s]) = len - 1
        /\ \A i \in 1..(len - 1) : msg_queue'[s][i] = msg_queue[s][i + 1]
  BY ReceiveStep
<1>. DEFINE len == Len(msg_queue[s])
<1>2. PICK k \in 0..len :
        /\ \A i \in 1..len : msg_queue[s][i].priority = MSG_PRIORITY_CRITICAL <=> i <= k
        /\ Urgent(s) \in Seq(BusMessages) /\ Len(Urgent(s)) = k
        /\ \A i \in 1..k : Urgent(s)[i] = Message(msg_queue[s][i])
        /\ Normal(s) \in Seq(BusMessages) /\ Len(Normal(s)) = len - k
        /\ \A i \in 1..(len - k) : Normal(s)[i] = Message(msg_queue[s][k + i])
  BY <1>0, QueueViewsOf DEF QueueViews
<1>3. PICK j \in 0..(len - 1) :
        /\ \A i \in 1..(len - 1) : msg_queue'[s][i].priority = MSG_PRIORITY_CRITICAL <=> i <= j
        /\ Urgent(s)' \in Seq(BusMessages) /\ Len(Urgent(s)') = j
        /\ \A i \in 1..j : Urgent(s)'[i] = Message(msg_queue'[s][i])
        /\ Normal(s)' \in Seq(BusMessages) /\ Len(Normal(s)') = len - 1 - j
        /\ \A i \in 1..(len - 1 - j) : Normal(s)'[i] = Message(msg_queue'[s][j + i])
  <2>1. Len(msg_queue'[s]) = len - 1 /\ len \in Nat
    BY <1>1
  <2>. HIDE DEF len
  <2>2. PICK j \in 0..Len(msg_queue'[s]) :
          /\ \A i \in 1..Len(msg_queue'[s]) :
               msg_queue'[s][i].priority = MSG_PRIORITY_CRITICAL <=> i <= j
          /\ Urgent(s)' \in Seq(BusMessages) /\ Len(Urgent(s)') = j
          /\ \A i \in 1..j : Urgent(s)'[i] = Message(msg_queue'[s][i])
          /\ Normal(s)' \in Seq(BusMessages) /\ Len(Normal(s)') = Len(msg_queue'[s]) - j
          /\ \A i \in 1..(Len(msg_queue'[s]) - j) : Normal(s)'[i] = Message(msg_queue'[s][j + i])
    BY <1>0, QueueViewsOfNext DEF QueueViews
  <2>3. j \in 0..(len - 1) /\ Len(Urgent(s)') = j /\ Len(Normal(s)') = len - 1 - j
    BY <2>1, <2>2
  <2>4. \A i \in 1..(len - 1) :
          msg_queue'[s][i].priority = MSG_PRIORITY_CRITICAL <=> i <= j
    BY <2>1, <2>2
  <2>5. \A i \in 1..(len - 1 - j) : Normal(s)'[i] = Message(msg_queue'[s][j + i])
    BY <2>1, <2>2
  <2>. QED
    BY <2>2, <2>3, <2>4, <2>5
<1>. HIDE DEF len
<1>4. len \in Nat \ {0}
  BY <1>1 DEF len
<1>5. \A i \in 1..(len - 1) : msg_queue'[s][i] = msg_queue[s][i + 1] /\ i + 1 \in 1..len
  BY <1>1, <1>4 DEF len
<1>6. j = IF k = 0 THEN 0 ELSE k - 1
  <2>. DEFINE h == IF k = 0 THEN 0 ELSE k - 1
  <2>1. \A i \in 1..(len - 1) : i + 1 <= k <=> i <= h
    BY <1>4
  <2>2. \A i \in 1..(len - 1) : i <= j <=> i <= h
    BY <1>2, <1>3, <1>5, <2>1
  <2>3. h \in 0..(len - 1) /\ len - 1 \in Nat
    BY <1>4
  <2>. HIDE DEF h
  <2>4. j = h
    BY <2>2, <2>3, OneCut
  <2>. QED
    BY <2>4 DEF h
<1>7. Subscribed(s)' = Subscribed(s) /\ Todo(s)' = Todo(s)
  BY <1>1 DEF Subscribed, Todo
<1>8. Hand(s) = NULL /\ Hand(s)' = Message(msg_queue[s][1])
  <2>1. msg'[s] # NULL
    BY <1>1, NullAssumption
  <2>. QED
    BY <1>1, <2>1 DEF Hand
<1>9. UNCHANGED <<BusMembers, BusTodo>>
  BY <1>0, <1>1, <1>7, BusOfSlotKept
<1>10. /\ UNCHANGED BusTopics /\ BusUrgent[n] = Urgent(s) /\ BusNormal[n] = Normal(s)
       /\ BusHand[n] = NULL /\ BusHand' = [BusHand EXCEPT ![n] = Message(msg_queue[s][1])]
  BY <1>0, <1>1, <1>8, BusOfSlotStep
<1>11. CASE k # 0
  <2>1. Urgent(s) # <<>> /\ Head(Urgent(s)) = Message(msg_queue[s][1])
    <3>1. Urgent(s) # <<>>
      BY <1>2, <1>11, EmptySeq
    <3>2. 1 \in 1..k /\ Urgent(s)[1] = Message(msg_queue[s][1])
      BY <1>2, <1>4, <1>11
    <3>. QED
      BY <3>1, <3>2
  <2>2. /\ Tail(Urgent(s)) \in Seq(BusMessages) /\ Len(Tail(Urgent(s))) = k - 1
        /\ \A i \in 1..(k - 1) : Tail(Urgent(s))[i] = Urgent(s)[i + 1]
    BY <1>2, <2>1, HeadTailProperties
  <2>3. Urgent(s)' = Tail(Urgent(s))
    <3>1. ASSUME NEW i \in 1..j
          PROVE  Urgent(s)'[i] = Tail(Urgent(s))[i]
      <4>1. i \in 1..(k - 1) /\ i + 1 \in 1..k /\ i \in 1..(len - 1)
        BY <1>4, <1>6, <1>11
      <4>. QED
        BY <1>2, <1>3, <1>5, <2>2, <4>1
    <3>2. Len(Urgent(s)') = Len(Tail(Urgent(s))) /\ j = Len(Urgent(s)')
      BY <1>3, <1>6, <1>11, <2>2
    <3>. QED
      BY <1>3, <2>2, <3>1, <3>2, SeqEqual
  <2>4. Normal(s)' = Normal(s)
    <3>1. ASSUME NEW i \in 1..(len - k)
          PROVE  Normal(s)'[i] = Normal(s)[i]
      <4>1. /\ i \in 1..(len - 1 - j) /\ j + i \in 1..(len - 1) /\ (j + i) + 1 = k + i
        BY <1>4, <1>6, <1>11
      <4>2. msg_queue'[s][j + i] = msg_queue[s][k + i]
        BY <1>5, <4>1
      <4>. QED
        BY <1>2, <1>3, <4>1, <4>2
    <3>2. Len(Normal(s)') = Len(Normal(s)) /\ Len(Normal(s)) = len - k
      BY <1>2, <1>3, <1>4, <1>6, <1>11
    <3>. QED
      BY <1>2, <1>3, <3>1, <3>2, SeqEqual
  <2>5. /\ BusUrgent' = [BusUrgent EXCEPT ![n] = Tail(BusUrgent[n])]
        /\ UNCHANGED BusNormal
    <3>1. BusUrgent' = [BusUrgent EXCEPT ![n] = Urgent(s)']
      BY <1>0, <1>1, BusOfSlotStep
    <3>2. UNCHANGED BusNormal
      BY <1>0, <1>1, <2>4, BusOfSlotKept
    <3>. QED
      BY <1>10, <2>3, <3>1, <3>2
  <2>6. BusUrgent[n] # <<>> /\ BusHand' = [BusHand EXCEPT ![n] = Head(BusUrgent[n])]
    BY <1>10, <2>1
  <2>7. Bus!Take(n)
    BY <1>9, <1>10, <2>5, <2>6 DEF Bus!Take
  <2>. QED
    BY <2>7
<1>12. CASE k = 0
  <2>1. Urgent(s) = <<>>
    BY <1>2, <1>12, EmptySeq
  <2>2. Normal(s) # <<>> /\ Head(Normal(s)) = Message(msg_queue[s][1])
    <3>1. Normal(s) # <<>>
      BY <1>2, <1>4, <1>12, EmptySeq
    <3>2. 1 \in 1..(len - k) /\ k + 1 = 1
      BY <1>4, <1>12
    <3>3. Normal(s)[1] = Message(msg_queue[s][1])
      BY <1>2, <3>2
    <3>. QED
      BY <3>1, <3>3
  <2>3. /\ Tail(Normal(s)) \in Seq(BusMessages) /\ Len(Tail(Normal(s))) = len - 1
        /\ \A i \in 1..(len - 1) : Tail(Normal(s))[i] = Normal(s)[i + 1]
    <3>1. Len(Normal(s)) = len
      BY <1>2, <1>4, <1>12
    <3>. QED
      BY <1>2, <2>2, <3>1, HeadTailProperties
  <2>4. Urgent(s)' = Urgent(s)
    BY <1>3, <1>6, <1>12, <2>1, EmptySeq
  <2>5. Normal(s)' = Tail(Normal(s))
    <3>1. ASSUME NEW i \in 1..(len - 1)
          PROVE  Normal(s)'[i] = Tail(Normal(s))[i]
      <4>1. /\ i \in 1..(len - 1 - j) /\ j + i = i /\ i + 1 \in 1..(len - k) /\ k + (i + 1) = i + 1
        BY <1>4, <1>6, <1>12
      <4>2. Normal(s)'[i] = Message(msg_queue'[s][i])
        BY <1>3, <4>1
      <4>3. Normal(s)[i + 1] = Message(msg_queue[s][i + 1])
        BY <1>2, <4>1
      <4>. QED
        BY <1>5, <2>3, <4>2, <4>3
    <3>2. Len(Normal(s)') = Len(Tail(Normal(s))) /\ Len(Normal(s)') = len - 1
      BY <1>3, <1>4, <1>6, <1>12, <2>3
    <3>. QED
      BY <1>3, <2>3, <3>1, <3>2, SeqEqual
  <2>6. /\ BusNormal' = [BusNormal EXCEPT ![n] = Tail(BusNormal[n])]
        /\ UNCHANGED BusUrgent
    <3>1. BusNormal' = [BusNormal EXCEPT ![n] = Normal(s)']
      BY <1>0, <1>1, BusOfSlotStep
    <3>2. UNCHANGED BusUrgent
      BY <1>0, <1>1, <2>4, BusOfSlotKept
    <3>. QED
      BY <1>10, <2>5, <3>1, <3>2
  <2>7. /\ BusUrgent[n] = <<>> /\ BusNormal[n] # <<>>
        /\ BusHand' = [BusHand EXCEPT ![n] = Head(BusNormal[n])]
    BY <1>10, <2>1, <2>2
  <2>8. Bus!Take(n)
    BY <1>9, <1>10, <2>6, <2>7 DEF Bus!Take
  <2>. QED
    BY <2>8
<1>. QED
  BY <1>11, <1>12

\* The steps in which no queue, list, delivery or name changes.
LEMMA StutterStep ==
  ASSUME CoreInv,
         \/ \E t \in Tasks :
              \/ \E r \in Requests : Call(t, r)
              \/ TakeTopicsLock(t) \/ TakeTopicLock(t) \/ TopicNotFound(t) \/ CreateRefused(t)
              \/ PublishAlloc(t) \/ PublishNoMemory(t) \/ PublishQueueFull(t)
              \/ SubscribeRefused(t) \/ NotSubscribed(t)
         \/ UNCHANGED vars
  PROVE  UNCHANGED Bus!busVars
<1>1. UNCHANGED <<name, topic_count, subscribers, msg_queue, msg, worker, current>>
  BY DEF vars, tableVars, topicVars, Call, TakeTopicsLock, TakeTopicLock, TopicNotFound,
     CreateRefused, PublishAlloc, PublishNoMemory, PublishQueueFull, SubscribeRefused,
     NotSubscribed
<1>2. \A n : Matches(n)' = Matches(n)
  BY <1>1 DEF Matches
<1>. QED
  BY <1>1, <1>2, BusKept DEF CoreInv

\* The bus starts without topics.
LEMMA BusStart == Init => Bus!BusInit /\ Named /\ CriticalFirst
<1>. SUFFICES ASSUME Init
              PROVE  Bus!BusInit /\ Named /\ CriticalFirst
  OBVIOUS
<1>1. \A n : Matches(n) = {}
  BY DEF Init, Matches
<1>2. Bus!BusInit
  BY <1>1 DEF Bus!BusInit, BusTopics, BusMembers, BusUrgent, BusNormal, BusHand, BusTodo, OfTopic
<1>3. Named
  BY DEF Init, Named
<1>4. CriticalFirst
  BY EmptySeq DEF Init, CriticalFirst, CriticalsLead
<1>. QED
  BY <1>2, <1>3, <1>4

\* Every step of the core is a step of the bus or a stutter.
LEMMA BusStep ==
  ASSUME CoreInv, CursorInList, PlacesOK, PoolOwnership, Named, CriticalFirst, [Next]_vars
  PROVE  [Bus!BusNext]_(Bus!busVars)
<1>. DEFINE Kept == UNCHANGED Bus!busVars
<1>1. ASSUME NEW t \in Tasks, CreateTopic(t)
      PROVE  Bus!BusNext
  <2>1. call[t].name \in Names
    BY <1>1, RequestFields DEF CoreInv, CallOK, CreateTopic
  <2>. QED
    BY <1>1, <2>1, CreateIsCreate DEF Bus!BusNext
<1>2. ASSUME NEW t \in Tasks, PublishSend(t)
      PROVE  Bus!BusNext
  <2>1. PICK n \in Names, m \in BusMessages : Bus!Accept(n, m)
    BY <1>2, SendIsAccept
  <2>. QED
    BY <2>1 DEF Bus!BusNext, BusMessages
<1>3. ASSUME NEW t \in Tasks, Subscribe(t) \/ Unsubscribe(t)
      PROVE  Bus!BusNext
  <2>1. PICK n \in Names, cb \in Callbacks : Bus!Join(n, cb) \/ Bus!Leave(n, cb)
    BY <1>3, SubscribeIsJoin, UnsubscribeIsLeave
  <2>. QED
    BY <2>1 DEF Bus!BusNext
<1>4. ASSUME NEW s \in Slots, Receive(s) \/ StartDelivery(s) \/ FinishDelivery(s)
      PROVE  Bus!BusNext
  <2>1. PICK n \in Names : Bus!Take(n) \/ Bus!Open(n) \/ Bus!Close(n)
    BY <1>4, ReceiveIsTake, StartDeliveryIsOpen, FinishDeliveryIsClose
  <2>. QED
    BY <2>1 DEF Bus!BusNext
<1>5. ASSUME NEW s \in Slots, RunCallback(s)
      PROVE  Bus!BusNext
  <2>1. PICK n \in Names, cb \in Callbacks : Bus!Run(n, cb)
    BY <1>5, RunCallbackIsRun
  <2>. QED
    BY <2>1 DEF Bus!BusNext
<1>6. ASSUME NEW t \in Tasks, CreateFailed(t)
      PROVE  Kept
  BY <1>6, CreateFailedIsStutter DEF CoreInv
<1>7. Kept \/ Bus!BusNext
  <2>. HIDE DEF Kept
  <2>1. ASSUME \/ \E t \in Tasks :
                    \/ \E r \in Requests : Call(t, r)
                    \/ TakeTopicsLock(t) \/ TakeTopicLock(t) \/ TopicNotFound(t)
                    \/ CreateRefused(t) \/ PublishAlloc(t) \/ PublishNoMemory(t)
                    \/ PublishQueueFull(t) \/ SubscribeRefused(t) \/ NotSubscribed(t)
               \/ UNCHANGED vars
        PROVE  Kept
    BY <2>1, StutterStep DEF Kept
  <2>. QED
    BY <1>1, <1>2, <1>3, <1>4, <1>5, <1>6, <2>1 DEF Next, Proceed
<1>. QED
  BY <1>7

\* What the clients of the core can see is what TopicBus promises, for any number
\* of tasks, topics, subscribers and messages: the lookup by name under a lock,
\* the two locks, the pool and the cursor implement a bus in which exactly the
\* members of a topic get every accepted message, each once, critical ones first.
THEOREM KeepsPromise == Spec => Bus!BusSafety
<1>. DEFINE Inv == /\ CoreInv /\ CursorInList
                   /\ PlacesOK /\ PoolOwnership
                   /\ Named /\ CriticalFirst
<1>1. Init => Inv /\ Bus!BusInit
  BY CoreInit, OwnershipInit, BusStart
<1>2. Inv /\ [Next]_vars => Inv'
  BY TypeStep, CallStep, NamesStep, LockStep, ListsStep, CursorStep, PlacesStep,
     OwnershipStep, QueueStep DEF CoreInv
<1>3. Inv /\ [Next]_vars => [Bus!BusNext]_(Bus!busVars)
  BY BusStep
<1>. HIDE DEF Inv
<1>. QED
  BY <1>1, <1>2, <1>3, PTL DEF Spec, Bus!BusSafety

=============================================================================
