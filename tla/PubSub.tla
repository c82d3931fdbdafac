------------------------------- MODULE PubSub -------------------------------
(***************************************************************************)
(* The publish-subscribe core: topic_manager.c (topic table, topic tasks), *)
(* subscriber_manager.c and publisher.c, under their two levels of FreeRTOS*)
(* mutex.                                                                  *)
(*                                                                         *)
(* Application tasks call pubsub_create_topic, pubsub_subscribe,           *)
(* pubsub_unsubscribe and pubsub_publish; each topic has a task of its own *)
(* that takes messages from the topic's queue and runs the callbacks with  *)
(* the topic's mutex held.  A call with a NULL argument returns before it  *)
(* takes a lock and changes nothing, so it is a stuttering step here.      *)
(*                                                                         *)
(* The memory pool is a set of cells: a cell is one allocated block, and   *)
(* any allocation may fail because the pool is shared with other users and *)
(* fragments (MemoryPool.tla models the allocator itself).                 *)
(***************************************************************************)
EXTENDS Naturals, SequencesExt

CONSTANTS
  Tasks,                     (* application tasks that call the API        *)
  Names,                     (* topic names                                *)
  Callbacks,                 (* subscriber callbacks                       *)
  Payloads,                  (* message contents                           *)
  EMPTY,                     (* the content with data_len = 0              *)
  Priorities,                (* the message priorities in use              *)
  Cells,                     (* blocks the memory pool can hand out        *)
  TOPIC_TASK,                (* owner of topic->lock when topic_task has it*)
  NULL,
  MAX_TOPICS, MAX_SUBSCRIBERS_PER_TOPIC, MAX_QUEUE_SIZE

MSG_PRIORITY_CRITICAL == 3

ASSUME LimitsAssumption ==
  /\ MAX_TOPICS \in Nat \ {0}
  /\ MAX_SUBSCRIBERS_PER_TOPIC \in Nat \ {0}
  /\ MAX_QUEUE_SIZE \in Nat \ {0}
  /\ Priorities \subseteq 0..MSG_PRIORITY_CRITICAL

ASSUME OwnersAssumption ==
  /\ TOPIC_TASK \notin Tasks
  /\ NULL \notin Tasks \cup Names \cup Cells \cup {TOPIC_TASK}

VARIABLES
  \* topics[]: one entry per slot
  name,                      (* topics[s].name, NULL for the empty string  *)
  subscribers,               (* topics[s].subscribers, head of list first  *)
  subscriber_count,          (* topics[s].subscriber_count                 *)
  msg_queue,                 (* topics[s].msg_queue, next to receive first *)
  lock,                      (* holder of topics[s].lock                   *)
  topic_count,
  topics_lock,               (* holder of topics_lock                      *)
  used,                      (* allocated blocks of the memory pool        *)
  \* application tasks
  pc,                        (* where the task is in its call              *)
  call,                      (* the call it is executing, NULL if none     *)
  block,                     (* msg.data of pubsub_publish                 *)
  \* topic tasks
  worker,                    (* where topic_task of slot s is              *)
  msg,                       (* its msg, NULL when it has none             *)
  current                    (* its list cursor                            *)

tableVars == <<name, subscribers, subscriber_count, msg_queue, topic_count>>
lockVars  == <<topics_lock, lock>>
taskVars  == <<pc, call, block>>
topicVars == <<worker, msg, current>>
vars      == <<tableVars, lockVars, used, taskVars, topicVars>>

Slots == 1..MAX_TOPICS

Requests ==
       [op : {"create"}, name : Names]
  \cup [op : {"subscribe", "unsubscribe"}, name : Names, callback : Callbacks]
  \cup [op : {"publish"}, name : Names, payload : Payloads, priority : Priorities]

Msgs == [payload : Payloads, priority : Priorities, data : Cells \cup {NULL}]
Subscribers == [callback : Callbacks, node : Cells]

ASSUME NullAssumption ==
  /\ NULL \notin Msgs
  /\ NULL \notin [payload : Payloads, priority : Priorities]
  /\ \A S \in SUBSET Callbacks : S # NULL

Init ==
  /\ name             = [s \in Slots |-> NULL]
  /\ subscribers      = [s \in Slots |-> <<>>]
  /\ subscriber_count = [s \in Slots |-> 0]
  /\ msg_queue        = [s \in Slots |-> <<>>]
  /\ lock             = [s \in Slots |-> NULL]
  /\ topic_count = 0
  /\ topics_lock = NULL
  /\ used    = {}
  /\ pc      = [t \in Tasks |-> "idle"]
  /\ call    = [t \in Tasks |-> NULL]
  /\ block   = [t \in Tasks |-> NULL]
  /\ worker  = [s \in Slots |-> "none"]
  /\ msg     = [s \in Slots |-> NULL]
  /\ current = [s \in Slots |-> NULL]

-----------------------------------------------------------------------------
(* The lookup every call makes under topics_lock. *)

\* Mutant: the loop over the topics stops one entry early.
MatchesButLast(n) == {s \in 1..topic_count : s < topic_count /\ name[s] = n}

Matches(n) == {s \in 1..topic_count : name[s] = n}
Slot(n)    == CHOOSE s \in Matches(n) : \A r \in Matches(n) : s <= r

\* The task gives topics_lock back and its call returns.
ReturnFromCall(t) ==
  /\ topics_lock' = NULL
  /\ pc'    = [pc EXCEPT ![t] = "idle"]
  /\ call'  = [call EXCEPT ![t] = NULL]
  /\ block' = [block EXCEPT ![t] = NULL]

Call(t, r) ==
  /\ pc[t] = "idle"
  /\ pc'   = [pc EXCEPT ![t] = "enter"]
  /\ call' = [call EXCEPT ![t] = r]
  /\ UNCHANGED <<tableVars, lockVars, used, block, topicVars>>

TakeTopicsLock(t) ==
  /\ pc[t] = "enter"
  /\ topics_lock = NULL
  /\ topics_lock' = t
  /\ pc' = [pc EXCEPT ![t] = "locked"]
  /\ UNCHANGED <<tableVars, lock, used, call, block, topicVars>>

TopicNotFound(t) ==
  /\ pc[t] = "locked"
  /\ call[t].op # "create"
  /\ Matches(call[t].name) = {}
  /\ ReturnFromCall(t)
  /\ UNCHANGED <<tableVars, lock, used, topicVars>>

-----------------------------------------------------------------------------
(* pubsub_create_topic *)

CreateRefused(t) ==                 \* TOPIC_EXISTS, or NO_MEMORY: table full
  /\ pc[t] = "locked"
  /\ call[t].op = "create"
  /\ Matches(call[t].name) # {} \/ topic_count >= MAX_TOPICS
  /\ ReturnFromCall(t)
  /\ UNCHANGED <<tableVars, lock, used, topicVars>>

\* The queue, the mutex or the task cannot be created: the entry that
\* topic_count does not cover yet keeps the name written into it.
CreateFailed(t) ==
  /\ pc[t] = "locked"
  /\ call[t].op = "create"
  /\ Matches(call[t].name) = {} /\ topic_count < MAX_TOPICS
  /\ name' = [name EXCEPT ![topic_count + 1] = call[t].name]
  /\ ReturnFromCall(t)
  /\ UNCHANGED <<subscribers, subscriber_count, msg_queue, topic_count,
                 lock, used, topicVars>>

CreateTopic(t) ==
  LET s == topic_count + 1 IN
  /\ pc[t] = "locked"
  /\ call[t].op = "create"
  /\ Matches(call[t].name) = {} /\ topic_count < MAX_TOPICS
  /\ name'             = [name EXCEPT ![s] = call[t].name]
  /\ msg_queue'        = [msg_queue EXCEPT ![s] = <<>>]
  /\ subscribers'      = [subscribers EXCEPT ![s] = <<>>]
  /\ subscriber_count' = [subscriber_count EXCEPT ![s] = 0]
  /\ lock'             = [lock EXCEPT ![s] = NULL]
  /\ worker'           = [worker EXCEPT ![s] = "receive"]
  /\ topic_count'      = s
  /\ ReturnFromCall(t)
  /\ UNCHANGED <<used, msg, current>>

-----------------------------------------------------------------------------
(* pubsub_publish *)

\* memory_pool_alloc, or no allocation at all for a message without data.
PublishAlloc(t) ==
  /\ pc[t] = "locked"
  /\ call[t].op = "publish"
  /\ Matches(call[t].name) # {}
  /\ \/ /\ call[t].payload = EMPTY
        /\ UNCHANGED <<used, block>>
     \/ /\ call[t].payload # EMPTY
        /\ \E c \in Cells \ used : /\ used'  = used \cup {c}
                                   /\ block' = [block EXCEPT ![t] = c]
  /\ pc' = [pc EXCEPT ![t] = "send"]
  /\ UNCHANGED <<tableVars, lockVars, call, topicVars>>

PublishNoMemory(t) ==
  /\ pc[t] = "locked"
  /\ call[t].op = "publish"
  /\ Matches(call[t].name) # {}
  /\ call[t].payload # EMPTY
  /\ ReturnFromCall(t)
  /\ UNCHANGED <<tableVars, lock, used, topicVars>>

\* Mutant: critical messages are sent to the back like all others.
EnqueueAtBack(q, m) == Append(q, m)

Enqueue(q, m) ==
  IF m.priority = MSG_PRIORITY_CRITICAL THEN <<m>> \o q ELSE Append(q, m)

\* xQueueSend or xQueueSendToFront with room in the queue.
PublishSend(t) ==
  LET s == Slot(call[t].name)
      m == [payload |-> call[t].payload, priority |-> call[t].priority,
            data |-> block[t]]
  IN
  /\ pc[t] = "send"
  /\ Len(msg_queue[s]) < MAX_QUEUE_SIZE
  /\ msg_queue' = [msg_queue EXCEPT ![s] = Enqueue(@, m)]
  /\ ReturnFromCall(t)
  /\ UNCHANGED <<name, subscribers, subscriber_count, topic_count,
                 lock, used, topicVars>>

\* Mutant: the copy of the data is not freed when the queue is full.
PublishQueueFullLeaks(t) ==
  /\ pc[t] = "send"
  /\ Len(msg_queue[Slot(call[t].name)]) >= MAX_QUEUE_SIZE
  /\ ReturnFromCall(t)
  /\ UNCHANGED <<tableVars, lock, used, topicVars>>

PublishQueueFull(t) ==
  /\ pc[t] = "send"
  /\ Len(msg_queue[Slot(call[t].name)]) >= MAX_QUEUE_SIZE
  /\ used' = used \ {block[t]}
  /\ ReturnFromCall(t)
  /\ UNCHANGED <<tableVars, lock, topicVars>>

-----------------------------------------------------------------------------
(* pubsub_subscribe and pubsub_unsubscribe: topic->lock inside topics_lock *)

\* Mutant: the list is edited under topics_lock alone.
TakeNoTopicLock(t) ==
  /\ pc[t] = "locked"
  /\ call[t].op \in {"subscribe", "unsubscribe"}
  /\ Matches(call[t].name) # {}
  /\ pc' = [pc EXCEPT ![t] = "edit"]
  /\ UNCHANGED <<tableVars, lockVars, used, call, block, topicVars>>

TakeTopicLock(t) ==
  LET s == Slot(call[t].name) IN
  /\ pc[t] = "locked"
  /\ call[t].op \in {"subscribe", "unsubscribe"}
  /\ Matches(call[t].name) # {}
  /\ lock[s] = NULL
  /\ lock' = [lock EXCEPT ![s] = t]
  /\ pc'   = [pc EXCEPT ![t] = "edit"]
  /\ UNCHANGED <<tableVars, topics_lock, used, call, block, topicVars>>

\* Mutant: the search of the list starts at the second subscriber.
SubscribedButHead(s) == {subscribers[s][i].callback : i \in 2..Len(subscribers[s])}

Subscribed(s) == {subscribers[s][i].callback : i \in DOMAIN subscribers[s]}

\* Mutant: topic->lock is not given back.
KeepTopicLock(s) == UNCHANGED lock

GiveTopicLock(s) == lock' = [lock EXCEPT ![s] = NULL]

Subscribe(t) ==
  LET s == Slot(call[t].name) IN
  /\ pc[t] = "edit"
  /\ call[t].op = "subscribe"
  /\ call[t].callback \notin Subscribed(s)
  /\ subscriber_count[s] < MAX_SUBSCRIBERS_PER_TOPIC
  /\ \E c \in Cells \ used :
       /\ used' = used \cup {c}
       /\ subscribers' = [subscribers EXCEPT ![s] =
                            <<[callback |-> call[t].callback, node |-> c]>> \o @]
  /\ subscriber_count' = [subscriber_count EXCEPT ![s] = @ + 1]
  /\ GiveTopicLock(s)
  /\ ReturnFromCall(t)
  /\ UNCHANGED <<name, msg_queue, topic_count, topicVars>>

\* Subscribed already, MAX_SUBSCRIBERS, or NO_MEMORY, which is always possible.
SubscribeRefused(t) ==
  /\ pc[t] = "edit"
  /\ call[t].op = "subscribe"
  /\ GiveTopicLock(Slot(call[t].name))
  /\ ReturnFromCall(t)
  /\ UNCHANGED <<tableVars, used, topicVars>>

Unsubscribe(t) ==
  LET s == Slot(call[t].name) IN
  /\ pc[t] = "edit"
  /\ call[t].op = "unsubscribe"
  /\ \E i \in DOMAIN subscribers[s] :
       /\ subscribers[s][i].callback = call[t].callback
       /\ \A j \in 1..(i - 1) : subscribers[s][j].callback # call[t].callback
       /\ used' = used \ {subscribers[s][i].node}
       /\ subscribers' = [subscribers EXCEPT ![s] = RemoveAt(@, i)]
  /\ subscriber_count' = [subscriber_count EXCEPT ![s] = @ - 1]
  /\ GiveTopicLock(s)
  /\ ReturnFromCall(t)
  /\ UNCHANGED <<name, msg_queue, topic_count, topicVars>>

NotSubscribed(t) ==
  LET s == Slot(call[t].name) IN
  /\ pc[t] = "edit"
  /\ call[t].op = "unsubscribe"
  /\ call[t].callback \notin Subscribed(s)
  /\ GiveTopicLock(s)
  /\ ReturnFromCall(t)
  /\ UNCHANGED <<tableVars, used, topicVars>>

-----------------------------------------------------------------------------
(* topic_task of the topic in slot s *)

Receive(s) ==
  /\ worker[s] = "receive"
  /\ msg_queue[s] # <<>>
  /\ msg'       = [msg EXCEPT ![s] = Head(msg_queue[s])]
  /\ msg_queue' = [msg_queue EXCEPT ![s] = Tail(@)]
  /\ worker'    = [worker EXCEPT ![s] = "wait"]
  /\ UNCHANGED <<name, subscribers, subscriber_count, topic_count,
                 lockVars, used, taskVars, current>>

NodeAt(s, i) == IF i \in DOMAIN subscribers[s] THEN subscribers[s][i].node ELSE NULL

StartDelivery(s) ==
  /\ worker[s] = "wait"
  /\ lock[s] = NULL
  /\ lock'    = [lock EXCEPT ![s] = TOPIC_TASK]
  /\ current' = [current EXCEPT ![s] = NodeAt(s, 1)]
  /\ worker'  = [worker EXCEPT ![s] = "deliver"]
  /\ UNCHANGED <<tableVars, topics_lock, used, taskVars, msg>>

Position(s) == CHOOSE i \in DOMAIN subscribers[s] : subscribers[s][i].node = current[s]

\* Mutant: the loop over the subscribers does not move on.
RunCallbackStays(s) ==
  /\ worker[s] = "deliver"
  /\ current[s] # NULL
  /\ UNCHANGED vars

\* current->callback(&msg, ...); current = current->next.  The callback is the
\* application's; the one in main.c only writes to the log.
RunCallback(s) ==
  /\ worker[s] = "deliver"
  /\ current[s] # NULL
  /\ current' = [current EXCEPT ![s] = NodeAt(s, Position(s) + 1)]
  /\ UNCHANGED <<tableVars, lockVars, used, taskVars, worker, msg>>

FinishDelivery(s) ==
  /\ worker[s] = "deliver"
  /\ current[s] = NULL
  /\ used'   = used \ {msg[s].data}
  /\ msg'    = [msg EXCEPT ![s] = NULL]
  /\ worker' = [worker EXCEPT ![s] = "receive"]
  /\ GiveTopicLock(s)
  /\ UNCHANGED <<tableVars, topics_lock, taskVars, current>>

-----------------------------------------------------------------------------

\* What a task that has the locks it needs does next.
Proceed(t) ==
  \/ TopicNotFound(t)
  \/ CreateRefused(t) \/ CreateFailed(t) \/ CreateTopic(t)
  \/ PublishAlloc(t) \/ PublishNoMemory(t) \/ PublishSend(t) \/ PublishQueueFull(t)
  \/ Subscribe(t) \/ SubscribeRefused(t) \/ Unsubscribe(t) \/ NotSubscribed(t)

Next ==
  \/ \E t \in Tasks :
       \/ \E r \in Requests : Call(t, r)
       \/ TakeTopicsLock(t) \/ TakeTopicLock(t)
       \/ Proceed(t)
  \/ \E s \in Slots :
       Receive(s) \/ StartDelivery(s) \/ RunCallback(s) \/ FinishDelivery(s)

Spec == Init /\ [][Next]_vars

\* A task that is not blocked runs, and a mutex that is given again and again
\* reaches every waiter: FreeRTOS wakes the waiters of a mutex by priority and
\* then in the order they began to wait.
Fairness ==
  /\ \A t \in Tasks : /\ SF_vars(TakeTopicsLock(t))
                      /\ SF_vars(TakeTopicLock(t))
                      /\ WF_vars(Proceed(t))
  /\ \A s \in Slots : /\ WF_vars(Receive(s))
                      /\ SF_vars(StartDelivery(s))
                      /\ WF_vars(RunCallback(s))
                      /\ WF_vars(FinishDelivery(s))

FairSpec == Spec /\ Fairness

-----------------------------------------------------------------------------
(* Properties *)

\* Every variable stays in its type: the queues hold messages, the lists hold
\* subscribers, a lock is held by a task that can hold it.
TypeOK ==
  /\ name \in [Slots -> Names \cup {NULL}]
  /\ subscribers \in [Slots -> Seq(Subscribers)]
  /\ subscriber_count \in [Slots -> Nat]
  /\ msg_queue \in [Slots -> Seq(Msgs)]
  /\ lock \in [Slots -> Tasks \cup {TOPIC_TASK, NULL}]
  /\ topic_count \in 0..MAX_TOPICS
  /\ topics_lock \in Tasks \cup {NULL}
  /\ used \in SUBSET Cells
  /\ pc \in [Tasks -> {"idle", "enter", "locked", "send", "edit"}]
  /\ call \in [Tasks -> Requests \cup {NULL}]
  /\ block \in [Tasks -> Cells \cup {NULL}]
  /\ worker \in [Slots -> {"none", "receive", "wait", "deliver"}]
  /\ msg \in [Slots -> Msgs \cup {NULL}]
  /\ current \in [Slots -> Cells \cup {NULL}]

\* A task inside pubsub_* is the only one past topics_lock, the task that edits
\* a topic's list holds that topic's mutex and topics_lock, and a topic task
\* that is running callbacks holds its topic's mutex: the two locks are really
\* held exactly where the code touches what they guard.
LockDiscipline ==
  /\ \A t \in Tasks :
       /\ pc[t] \in {"locked", "send", "edit"} <=> topics_lock = t
       /\ \A s \in Slots :
            lock[s] = t <=> pc[t] = "edit" /\ s = Slot(call[t].name)
  /\ \A s \in Slots : lock[s] = TOPIC_TASK <=> worker[s] = "deliver"

\* The cursor of a topic task that is running callbacks is the end of the list
\* or a node that is in the list now: no other task frees the node between two
\* callbacks.
CursorInList ==
  \A s \in Slots :
    worker[s] = "deliver" /\ current[s] # NULL =>
      \E i \in DOMAIN subscribers[s] : subscribers[s][i].node = current[s]

\* The places in the program that refer to a block of the memory pool, and the
\* block each of them refers to.
References ==
       ({"queue"} \X Slots \X (1..MAX_QUEUE_SIZE))
  \cup ({"list"} \X Slots \X (1..MAX_SUBSCRIBERS_PER_TOPIC))
  \cup ({"topic_task"} \X Slots)
  \cup ({"caller"} \X Tasks)

Block(r) ==
  CASE r[1] = "queue" -> IF r[3] \in DOMAIN msg_queue[r[2]]
                         THEN msg_queue[r[2]][r[3]].data ELSE NULL
    [] r[1] = "list"  -> NodeAt(r[2], r[3])
    [] r[1] = "topic_task" -> IF msg[r[2]] = NULL THEN NULL ELSE msg[r[2]].data
    [] r[1] = "caller" -> block[r[2]]

\* Every allocated block is referred to from exactly one place and every free
\* block from none: over any interleaving of publishers, subscribers and topic
\* tasks nothing is leaked, freed twice, or read after it was freed.
PoolOwnership ==
  /\ used = {Block(r) : r \in References} \ {NULL}
  /\ \A r1, r2 \in References :
       Block(r1) = Block(r2) /\ Block(r1) # NULL => r1 = r2

\* subscriber_count agrees with the list whose length it stands for, and no
\* callback is in a list twice, so that unsubscribing it removes it for good.
ListsConsistent ==
  \A s \in Slots :
    /\ subscriber_count[s] = Len(subscribers[s])
    /\ \A i, j \in DOMAIN subscribers[s] :
         subscribers[s][i].callback = subscribers[s][j].callback => i = j

\* The names of the topics are distinct, so the lookup that stops at the first
\* match and the one that looks at every entry agree.
NamesDistinct ==
  \A r, s \in 1..topic_count : name[r] = name[s] => r = s

\* Every call returns: no interleaving of the two locks leaves a task waiting.
CallsReturn == \A t \in Tasks : pc[t] # "idle" ~> pc[t] = "idle"

-----------------------------------------------------------------------------
(* What the core implements.  The promise is stated by topic name; the slot  *)
(* of a name is found as the code finds it.                                  *)

Message(m) == [payload |-> m.payload, priority |-> m.priority]

\* The number of critical messages at the front of a queue.
CriticalAhead(q) ==
  CHOOSE k \in 0..Len(q) :
    /\ \A i \in 1..k : q[i].priority = MSG_PRIORITY_CRITICAL
    /\ k < Len(q) => q[k + 1].priority # MSG_PRIORITY_CRITICAL

Urgent(s) == [i \in 1..CriticalAhead(msg_queue[s]) |-> Message(msg_queue[s][i])]

Normal(s) ==
  LET q == msg_queue[s] IN
  [i \in 1..(Len(q) - CriticalAhead(q)) |-> Message(q[CriticalAhead(q) + i])]

Hand(s) == IF msg[s] = NULL THEN NULL ELSE Message(msg[s])

Todo(s) ==
  IF worker[s] # "deliver" THEN NULL
  ELSE IF current[s] = NULL THEN {}
  ELSE {subscribers[s][i].callback : i \in Position(s)..Len(subscribers[s])}

\* The value e(s) of the topic named n, or the value it has before its creation.
OfTopic(n, e(_), before) == IF Matches(n) = {} THEN before ELSE e(Slot(n))

BusTopics  == {n \in Names : Matches(n) # {}}
BusMembers == [n \in Names |-> OfTopic(n, Subscribed, {})]
BusUrgent  == [n \in Names |-> OfTopic(n, Urgent, <<>>)]
BusNormal  == [n \in Names |-> OfTopic(n, Normal, <<>>)]
BusHand    == [n \in Names |-> OfTopic(n, Hand, NULL)]
BusTodo    == [n \in Names |-> OfTopic(n, Todo, NULL)]

Bus == INSTANCE TopicBus WITH
  Messages <- [payload : Payloads, priority : Priorities],
  CRITICAL <- MSG_PRIORITY_CRITICAL,
  topics   <- BusTopics,  members <- BusMembers,
  urgent   <- BusUrgent,  normal  <- BusNormal,
  hand     <- BusHand,    todo    <- BusTodo

\* The core keeps the promise of TopicBus: exactly the subscribed callbacks run,
\* once each, for every message the topic task takes, critical messages are taken
\* before the others and newest first, and the topic task takes a message and
\* finishes its delivery as long as there is one.  That a given message is ever
\* taken is not promised: see BacklogWorkedOff.
BusSpec == Bus!BusSpec

CriticalSent(s) ==
  \E t \in Tasks : /\ PublishSend(t)
                   /\ Slot(call[t].name) = s
                   /\ call[t].priority = MSG_PRIORITY_CRITICAL

NormalTaken(s) == Receive(s) /\ Head(msg_queue[s]).priority # MSG_PRIORITY_CRITICAL

\* The messages of a topic that are not critical are taken one after another
\* until none is left, unless critical ones keep coming for ever.  Without that
\* exception it does not hold: every critical message goes in front of what is
\* waiting, older critical messages included, which then wait for ever.
BacklogWorkedOff ==
  \A s \in Slots :
    \/ []<><<CriticalSent(s)>>_vars
    \/ []<><<NormalTaken(s)>>_vars
    \/ []<>(Normal(s) = <<>>)
=============================================================================
