--------------------------- MODULE TopicAdvanced ---------------------------
(***************************************************************************)
(* topic_manager_advanced.c: topics that are created with a configuration. *)
(* It is kept in a table of its own, at the slot the topic is expected to  *)
(* get, which is looked up without topics_lock before pubsub_create_topic  *)
(* is called.                                                              *)
(*                                                                         *)
(* pubsub_create_topic is one step here, under topics_lock, with the table *)
(* of PubSub.  Nothing sets the filter (topic_set_filter has no            *)
(* definition) or a retained message, and pubsub_delete_topic has no       *)
(* definition either: the model has the part of topic_delete_with_cleanup  *)
(* before it.                                                              *)
(***************************************************************************)
EXTENDS Naturals

CONSTANTS
  Tasks,
  Names,
  Configs,                   (* configurations of a topic                  *)
  MAX_TOPICS,
  None

Slots == 1..MAX_TOPICS

VARIABLES
  name,                      (* topics[].name, None while empty            *)
  topic_count,
  config,                    (* topic_advanced_data[].config, None at first *)
  stamped,                   (* slots whose statistics have a timestamp    *)
  call                       (* of a task: where it is, the topic, the     *)
                             (* configuration and the slot it has found    *)

vars == <<name, topic_count, config, stamped, call>>

Idle == [at |-> "idle"]

Init ==
  /\ name = [s \in Slots |-> None]
  /\ topic_count = 0
  /\ config = [s \in Slots |-> None]
  /\ stamped = {}
  /\ call = [t \in Tasks |-> Idle]

\* The loop of topic_create_with_config over the slots.
Unnamed == {s \in Slots : name[s] = None}

FindSlot(t, n, c) ==
  /\ call[t] = Idle
  /\ \E slot \in Unnamed :
       /\ \A s \in Unnamed : slot <= s
       /\ call' = [call EXCEPT ![t] = [at |-> "copy", topic |-> n, config |-> c, slot |-> slot]]
  /\ UNCHANGED <<name, topic_count, config, stamped>>

\* The statistics of the slot are set with it, under its stats_lock.
CopyConfig(t) ==
  /\ call[t].at = "copy"
  /\ config' = [config EXCEPT ![call[t].slot] = call[t].config]
  /\ stamped' = stamped \cup {call[t].slot}
  /\ call' = [call EXCEPT ![t].at = "create"]
  /\ UNCHANGED <<name, topic_count>>

\* pubsub_create_topic: the topic exists, or the table is full.
CreateRefused(t) ==
  /\ call[t].at = "create"
  /\ \/ \E s \in 1..topic_count : name[s] = call[t].topic
     \/ topic_count = MAX_TOPICS
  /\ call' = [call EXCEPT ![t] = Idle]
  /\ UNCHANGED <<name, topic_count, config, stamped>>

Created(t, ok) ==
  /\ call[t].at = "create"
  /\ \A s \in 1..topic_count : name[s] # call[t].topic
  /\ topic_count < MAX_TOPICS
  /\ name' = [name EXCEPT ![topic_count + 1] = call[t].topic]
  /\ topic_count' = IF ok THEN topic_count + 1 ELSE topic_count
  /\ call' = [call EXCEPT ![t] = Idle]
  /\ UNCHANGED <<config, stamped>>

CreateTopic(t) == Created(t, TRUE)

\* The queue, the mutex or the task cannot be created: the name stays.
CreateFailed(t) == Created(t, FALSE)

\* topic_delete_with_cleanup resets the statistics of the first slot with the
\* name, and leaves the configuration; topic_get_stats only reads.
Cleanup(n) ==
  /\ \E slot \in Slots :
       /\ name[slot] = n
       /\ \A s \in 1..(slot - 1) : name[s] # n
       /\ stamped' = stamped \ {slot}
  /\ UNCHANGED <<name, topic_count, config, call>>

Next == \E t \in Tasks :
  \/ \E n \in Names, c \in Configs : FindSlot(t, n, c)
  \/ CopyConfig(t) \/ CreateRefused(t) \/ CreateTopic(t) \/ CreateFailed(t)
  \/ \E n \in Names : Cleanup(n)

Spec == Init /\ [][Next]_vars

-----------------------------------------------------------------------------
\* A call copies its configuration to an available slot, as the comments of
\* topic_create_with_config say: it never replaces that of a topic that exists.
ConfigKept == [][\A s \in 1..topic_count : config'[s] = config[s]]_vars
=============================================================================
