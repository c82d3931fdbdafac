--------------------------- MODULE MessageHandler ---------------------------
(***************************************************************************)
(* message_handler.c: publication with a quality of service, on top of     *)
(* pubsub_publish.  A message with QoS 1 or 2 is kept in a list of pending *)
(* messages and published again each time its auto-reload timer expires,   *)
(* max_retries times; no code takes it from the list or stops the timer.   *)
(*                                                                         *)
(* Calls run in application tasks under the handler's mutex.  The timer    *)
(* callback runs in the FreeRTOS timer task without it: a timer may expire *)
(* before the call that started it has published the message.              *)
(*                                                                         *)
(* pubsub_publish is one step here: it is accepted, if its topic has room  *)
(* and the pool a block, or refused (PubSub.tla has its steps).  It puts a *)
(* critical message in front of all others.  The topic task takes the      *)
(* accepted copies one by one; it shares the topic with publishers that do *)
(* not use this module.                                                    *)
(***************************************************************************)
EXTENDS Naturals, SequencesExt

CONSTANTS
  Tasks,                     (* tasks that call message_publish_with_qos   *)
  RETRY_COUNT,               (* message_handler_config_t.retry_count       *)
  MAX_ID,                    (* bound of the model: calls in a behaviour   *)
  CELLS,                     (* blocks of the memory pool                  *)
  MAX_QUEUE_SIZE,
  NULL

ASSUME LimitsAssumption ==
  RETRY_COUNT \in Nat /\ MAX_ID \in Nat /\ CELLS \in Nat /\ MAX_QUEUE_SIZE \in Nat

ASSUME NullAssumption == NULL \notin Tasks \cup Nat \cup {"OK", "ERR", "NO_MEM"}

TOPIC_QOS_AT_MOST_ONCE  == 0
TOPIC_QOS_AT_LEAST_ONCE == 1
TOPIC_QOS_EXACTLY_ONCE  == 2
Qualities == {TOPIC_QOS_AT_MOST_ONCE, TOPIC_QOS_AT_LEAST_ONCE, TOPIC_QOS_EXACTLY_ONCE}

MSG_PRIORITY_NORMAL   == 1
MSG_PRIORITY_CRITICAL == 3
Priorities == {MSG_PRIORITY_NORMAL, MSG_PRIORITY_CRITICAL}

Ids == 1..MAX_ID

\* A message of the topic that was not published by one of the MAX_ID calls.
Foreign == 0

VARIABLES
  lock,                      (* holder of message_handler_ctx.lock         *)
  next_msg_id,
  pending,                   (* the ids in pending_messages                *)
  armed,                     (* those whose timer was started              *)
  retry_count,               (* retry_count of each pending message        *)
  urgent,                    (* the ids whose messages are critical        *)
  pc,                        (* where each task is in its call             *)
  qos,                       (* the quality it asked for                   *)
  priority,                  (* and the priority                           *)
  msg_id,                    (* the id its call was given                  *)
  free_cells,                (* free blocks of the memory pool             *)
  queue,                     (* msg_queue of the topic: ids, and Foreign   *)
  in_hand,                   (* the copy the topic task has taken          *)
  \* what has happened so far, for the properties
  kind,                      (* the quality each id was published with     *)
  result,                    (* what the call of each id returned          *)
  attempts,                  (* calls of pubsub_publish for each id        *)
  delivered                  (* copies of each id that were delivered      *)

handlerVars == <<lock, next_msg_id, pending, armed, retry_count, urgent>>
callVars    == <<pc, qos, priority, msg_id>>
busVars     == <<free_cells, queue, in_hand>>
historyVars == <<kind, result, attempts, delivered>>
vars        == <<handlerVars, callVars, busVars, historyVars>>

Init ==
  /\ lock = NULL
  /\ next_msg_id = 1
  /\ pending = {} /\ armed = {} /\ urgent = {}
  /\ retry_count = [m \in Ids |-> 0]
  /\ pc     = [t \in Tasks |-> "idle"]
  /\ qos      = [t \in Tasks |-> TOPIC_QOS_AT_MOST_ONCE]
  /\ priority = [t \in Tasks |-> MSG_PRIORITY_NORMAL]
  /\ msg_id = [t \in Tasks |-> NULL]
  /\ free_cells = CELLS
  /\ queue = <<>>
  /\ in_hand = NULL
  /\ kind      = [m \in Ids |-> NULL]
  /\ result    = [m \in Ids |-> NULL]
  /\ attempts  = [m \in Ids |-> 0]
  /\ delivered = [m \in Ids |-> 0]

-----------------------------------------------------------------------------
(* pubsub_publish: a copy of the data goes into a block and the queue, or not. *)

\* xQueueSendToFront for what is critical, xQueueSend for the rest.
Accepted(m, critical) ==
  /\ free_cells > 0
  /\ Len(queue) < MAX_QUEUE_SIZE
  /\ free_cells' = free_cells - 1
  /\ queue' = IF critical THEN <<m>> \o queue ELSE Append(queue, m)

\* TOPIC_NOT_FOUND, NO_MEMORY or QUEUE_FULL.
Refused == UNCHANGED <<free_cells, queue>>

Attempt(m) == attempts' = [attempts EXCEPT ![m] = @ + 1]

\* A critical message of another publisher, or of a call after the MAX_ID ones;
\* it may come at any time and as often as it likes.
PublishForeign ==
  /\ Accepted(Foreign, TRUE)
  /\ UNCHANGED <<handlerVars, callVars, in_hand, historyVars>>

-----------------------------------------------------------------------------
(* message_publish_with_qos *)

\* The arguments of the call are gone with it.
Return(t, r) ==
  /\ lock' = NULL
  /\ result' = [result EXCEPT ![msg_id[t]] = r]
  /\ pc'     = [pc EXCEPT ![t] = "idle"]
  /\ msg_id' = [msg_id EXCEPT ![t] = NULL]
  /\ qos'      = [qos EXCEPT ![t] = TOPIC_QOS_AT_MOST_ONCE]
  /\ priority' = [priority EXCEPT ![t] = MSG_PRIORITY_NORMAL]

GoesOn(t, at) == pc' = [pc EXCEPT ![t] = at]

\* Every call gets an id: the model has MAX_ID of them.
Call(t, q, p) ==
  /\ pc[t] = "idle"
  /\ next_msg_id + Cardinality({u \in Tasks : pc[u] = "enter"}) <= MAX_ID
  /\ GoesOn(t, "enter")
  /\ qos'      = [qos EXCEPT ![t] = q]
  /\ priority' = [priority EXCEPT ![t] = p]
  /\ UNCHANGED <<handlerVars, msg_id, busVars, historyVars>>

\* What the caller asked for, and the id it gets.
TakeLockThen(t, at) ==
  /\ pc[t] = "enter"
  /\ lock = NULL
  /\ next_msg_id <= MAX_ID
  /\ lock' = t
  /\ msg_id' = [msg_id EXCEPT ![t] = next_msg_id]
  /\ kind'   = [kind EXCEPT ![next_msg_id] = qos[t]]
  /\ urgent' = IF priority[t] = MSG_PRIORITY_CRITICAL THEN urgent \cup {next_msg_id} ELSE urgent
  /\ next_msg_id' = next_msg_id + 1
  /\ GoesOn(t, at)
  /\ UNCHANGED <<pending, armed, retry_count, qos, priority, busVars,
                 result, attempts, delivered>>

\* Mutant: the test for the quality is >=, so that every message is retried.
TakeLockAllPending(t) ==
  TakeLockThen(t, IF qos[t] >= TOPIC_QOS_AT_MOST_ONCE THEN "message" ELSE "publish")

TakeLock(t) ==
  TakeLockThen(t, IF qos[t] > TOPIC_QOS_AT_MOST_ONCE THEN "message" ELSE "publish")

\* create_pending_message: a block for the message, one for its data, and the
\* timer.  Each of them may be refused; what was allocated before is freed.
AllocBlock(t, at, next) ==
  /\ pc[t] = at
  /\ free_cells > 0
  /\ free_cells' = free_cells - 1
  /\ GoesOn(t, next)
  /\ UNCHANGED <<handlerVars, qos, priority, msg_id, queue, in_hand, historyVars>>

AllocMessage(t) == AllocBlock(t, "message", "data")
AllocData(t)    == AllocBlock(t, "data", "timer")

GiveUp(t, at, blocks) ==
  /\ pc[t] = at
  /\ free_cells' = free_cells + blocks
  /\ Return(t, "NO_MEM")
  /\ UNCHANGED <<next_msg_id, pending, armed, retry_count, urgent,
                 queue, in_hand, kind, attempts, delivered>>

\* Mutant: without a timer only the message is freed, not its data.
TimerFailsKeepsData(t) == GiveUp(t, "timer", 1)

MessageFails(t) == GiveUp(t, "message", 0)
DataFails(t)    == GiveUp(t, "data", 1)
TimerFails(t)   == GiveUp(t, "timer", 2)

\* The message joins the list and its timer is started; that xTimerStart may
\* fail is not looked at.
AddPending(t) ==
  /\ pc[t] = "timer"
  /\ pending' = pending \cup {msg_id[t]}
  /\ armed' \in {armed, armed \cup {msg_id[t]}}
  /\ retry_count' = [retry_count EXCEPT ![msg_id[t]] = 0]
  /\ GoesOn(t, "publish")
  /\ UNCHANGED <<lock, next_msg_id, urgent, qos, priority, msg_id, busVars, historyVars>>

PublishThen(t, accepted, refused) ==
  /\ pc[t] = "publish"
  /\ Attempt(msg_id[t])
  /\ \/ Accepted(msg_id[t], msg_id[t] \in urgent) /\ Return(t, accepted)
     \/ Refused /\ Return(t, refused)
  /\ UNCHANGED <<next_msg_id, pending, armed, retry_count, urgent, in_hand,
                 kind, delivered>>

\* Mutant: the answer of pubsub_publish is not looked at.
PublishAlwaysOk(t) == PublishThen(t, "OK", "OK")

Publish(t) == PublishThen(t, "OK", "ERR")

-----------------------------------------------------------------------------
(* retry_timer_callback *)

Republish(m) ==
  /\ Accepted(m, m \in urgent) \/ Refused
  /\ Attempt(m)
  /\ retry_count' = [retry_count EXCEPT ![m] = @ + 1]
  /\ UNCHANGED <<lock, next_msg_id, pending, urgent, callVars, in_hand,
                 kind, result, delivered>>

\* Mutant: one retry too many.
RetryOnceMore(m) ==
  m \in armed /\ retry_count[m] <= RETRY_COUNT /\ Republish(m) /\ UNCHANGED armed

\* Mutant: a retry that is refused stops the timer.
RetryGivesUp(m) ==
  /\ m \in armed
  /\ retry_count[m] < RETRY_COUNT
  /\ Republish(m)
  /\ armed' = IF queue' = queue THEN armed \ {m} ELSE armed

Retry(m) ==
  m \in armed /\ retry_count[m] < RETRY_COUNT /\ Republish(m) /\ UNCHANGED armed

\* "exceeded max retries": reported, each time the timer expires again.
RetriesExceeded(m) ==
  /\ m \in armed
  /\ retry_count[m] >= RETRY_COUNT
  /\ UNCHANGED vars

-----------------------------------------------------------------------------
(* topic_task *)

Receive ==
  /\ in_hand = NULL
  /\ queue # <<>>
  /\ in_hand' = Head(queue)
  /\ queue'   = Tail(queue)
  /\ UNCHANGED <<handlerVars, callVars, free_cells, historyVars>>

Deliver ==
  /\ in_hand # NULL
  /\ delivered' = [m \in Ids |-> delivered[m] + (IF m = in_hand THEN 1 ELSE 0)]
  /\ free_cells' = free_cells + 1
  /\ in_hand' = NULL
  /\ UNCHANGED <<handlerVars, callVars, queue, kind, result, attempts>>

-----------------------------------------------------------------------------

Proceed(t) ==
  \/ AllocMessage(t) \/ AllocData(t) \/ AddPending(t)
  \/ MessageFails(t) \/ DataFails(t) \/ TimerFails(t)
  \/ Publish(t)

Next ==
  \/ \E t \in Tasks :
       (\E q \in Qualities, p \in Priorities : Call(t, q, p)) \/ TakeLock(t) \/ Proceed(t)
  \/ \E m \in Ids : Retry(m) \/ RetriesExceeded(m)
  \/ Receive \/ Deliver
  \/ PublishForeign

Spec == Init /\ [][Next]_vars

\* Tasks that are not blocked run, started timers expire again and again, and
\* the mutex reaches its waiters.
Fairness ==
  /\ \A t \in Tasks : SF_vars(TakeLock(t)) /\ WF_vars(Proceed(t))
  /\ \A m \in Ids : WF_vars(Retry(m))
  /\ WF_vars(Receive) /\ WF_vars(Deliver)

FairSpec == Spec /\ Fairness

-----------------------------------------------------------------------------
(* Properties *)

\* Where a task is while it holds the lock.
InCall == {"message", "data", "timer", "publish"}

\* Every variable stays in its type.
TypeOK ==
  /\ lock \in Tasks \cup {NULL}
  /\ next_msg_id \in 1..(MAX_ID + 1)
  /\ pending \subseteq Ids /\ armed \subseteq pending
  /\ retry_count \in [Ids -> Nat]
  /\ urgent \subseteq Ids
  /\ pc \in [Tasks -> {"idle", "enter"} \cup InCall]
  /\ qos \in [Tasks -> Qualities]
  /\ priority \in [Tasks -> Priorities]
  /\ msg_id \in [Tasks -> Ids \cup {NULL}]
  /\ free_cells \in 0..CELLS
  /\ queue \in Seq(Ids \cup {Foreign}) /\ Len(queue) <= MAX_QUEUE_SIZE
  /\ in_hand \in Ids \cup {Foreign, NULL}
  /\ kind \in [Ids -> Qualities \cup {NULL}]
  /\ result \in [Ids -> {NULL, "OK", "ERR", "NO_MEM"}]
  /\ attempts \in [Ids -> Nat] /\ delivered \in [Ids -> Nat]

Queued(m) == Cardinality({i \in DOMAIN queue : queue[i] = m})
Copies(m) == Queued(m) + (IF in_hand = m THEN 1 ELSE 0)

\* A message is published once by its call and at most RETRY_COUNT times by its
\* timer, whichever comes first, and never delivered more often than published.
AttemptsBounded ==
  \A m \in Ids : /\ attempts[m] <= 1 + RETRY_COUNT
                 /\ delivered[m] + Copies(m) <= attempts[m]

\* A message asked for at most once is delivered at most once, whatever becomes
\* of the messages around it.
AtMostOnce ==
  \A m \in Ids : kind[m] = TOPIC_QOS_AT_MOST_ONCE => delivered[m] + Copies(m) <= 1

\* A call that returned ESP_ERR_NO_MEM has left nothing behind: its message is
\* neither pending nor on its way, nor was it ever delivered.
NoMemSilent ==
  \A m \in Ids : result[m] = "NO_MEM" => m \notin pending /\ attempts[m] = 0

\* The blocks the call that holds the lock has allocated for a message that is
\* not pending yet.
BlocksOfCall ==
  IF lock = NULL THEN 0
  ELSE IF pc[lock] = "data" THEN 1
  ELSE IF pc[lock] = "timer" THEN 2 ELSE 0

\* No block is lost or freed twice: the blocks of the pool are those of the
\* pending messages, two each, those of a message being made, those of the copies
\* on their way, and the free ones.  (The pending messages themselves never give
\* their blocks back: see the README.)
PoolConserved ==
  CELLS = free_cells + BlocksOfCall + 2 * Cardinality(pending) + Len(queue)
            + (IF in_hand = NULL THEN 0 ELSE 1)

\* Two calls never have the same id, even while both are running.
IdsUnique ==
  /\ \A t, u \in Tasks : msg_id[t] # NULL /\ msg_id[t] = msg_id[u] => t = u
  /\ \A t \in Tasks : msg_id[t] # NULL => result[msg_id[t]] = NULL

\* What a call has reported as published reaches the subscribers, unless critical
\* messages of others keep coming for ever: they all go in front of it.
PublishedIsDelivered ==
  \/ []<><<PublishForeign>>_vars
  \/ \A m \in Ids : result[m] = "OK" ~> delivered[m] >= 1

\* Retrying comes to an end: a started timer uses up its retries.
RetriesEnd ==
  \A m \in Ids : m \in armed ~> retry_count[m] >= RETRY_COUNT

\* What topic_qos_t calls EXACTLY_ONCE: such a message is never delivered twice.
\* NOT a property of the code, which publishes it once by the call and again by
\* every expiry of its timer; no run checks it.
ExactlyOnce ==
  \A m \in Ids : kind[m] = TOPIC_QOS_EXACTLY_ONCE => delivered[m] <= 1
=============================================================================
