------------------------------ MODULE TopicBus ------------------------------
(***************************************************************************)
(* What the publish-subscribe core promises its clients, with no locks, no *)
(* memory pool and no tasks: topics with members, a bounded backlog per    *)
(* topic, and a delivery that hands one message at a time to exactly the   *)
(* members the topic has when the delivery opens, each of them once, the   *)
(* membership being frozen until the delivery is finished.                 *)
(*                                                                         *)
(* Critical messages form a stack that is always emptied before the queue  *)
(* of the other messages, which leave in the order they were published.    *)
(***************************************************************************)
EXTENDS Naturals, Sequences, FiniteSets

CONSTANTS
  Names,             (* topic names                                        *)
  Callbacks,         (* subscriber callbacks                               *)
  Messages,          (* what a publisher can publish: [payload, priority]  *)
  CRITICAL,          (* the priority that overtakes                        *)
  NULL,
  MAX_SUBSCRIBERS_PER_TOPIC,
  MAX_QUEUE_SIZE     (* bound on the backlog of a topic                    *)

VARIABLES
  topics,            (* the topics that exist                              *)
  members,           (* the subscribed callbacks of each name              *)
  urgent,            (* backlog of critical messages, newest first         *)
  normal,            (* backlog of the other messages, oldest first        *)
  hand,              (* the message taken for delivery, or NULL            *)
  todo               (* callbacks still to run for it, NULL before Open    *)

busVars == <<topics, members, urgent, normal, hand, todo>>

BusInit ==
  /\ topics  = {}
  /\ members = [n \in Names |-> {}]
  /\ urgent  = [n \in Names |-> <<>>]
  /\ normal  = [n \in Names |-> <<>>]
  /\ hand    = [n \in Names |-> NULL]
  /\ todo    = [n \in Names |-> NULL]

Create(n) ==
  /\ n \notin topics
  /\ topics' = topics \cup {n}
  /\ UNCHANGED <<members, urgent, normal, hand, todo>>

\* Membership changes only while no callback of the topic is being run.
Join(n, cb) ==
  /\ n \in topics
  /\ todo[n] = NULL
  /\ cb \notin members[n]
  /\ Cardinality(members[n]) < MAX_SUBSCRIBERS_PER_TOPIC
  /\ members' = [members EXCEPT ![n] = @ \cup {cb}]
  /\ UNCHANGED <<topics, urgent, normal, hand, todo>>

Leave(n, cb) ==
  /\ n \in topics
  /\ todo[n] = NULL
  /\ members' = [members EXCEPT ![n] = @ \ {cb}]
  /\ UNCHANGED <<topics, urgent, normal, hand, todo>>

Accept(n, m) ==
  /\ n \in topics
  /\ Len(urgent[n]) + Len(normal[n]) < MAX_QUEUE_SIZE
  /\ IF m.priority = CRITICAL
     THEN urgent' = [urgent EXCEPT ![n] = <<m>> \o @] /\ UNCHANGED normal
     ELSE normal' = [normal EXCEPT ![n] = Append(@, m)] /\ UNCHANGED urgent
  /\ UNCHANGED <<topics, members, hand, todo>>

Take(n) ==
  /\ hand[n] = NULL
  /\ \/ /\ urgent[n] # <<>>
        /\ hand'   = [hand EXCEPT ![n] = Head(urgent[n])]
        /\ urgent' = [urgent EXCEPT ![n] = Tail(@)]
        /\ UNCHANGED normal
     \/ /\ urgent[n] = <<>> /\ normal[n] # <<>>
        /\ hand'   = [hand EXCEPT ![n] = Head(normal[n])]
        /\ normal' = [normal EXCEPT ![n] = Tail(@)]
        /\ UNCHANGED urgent
  /\ UNCHANGED <<topics, members, todo>>

Open(n) ==
  /\ hand[n] # NULL
  /\ todo[n] = NULL
  /\ todo' = [todo EXCEPT ![n] = members[n]]
  /\ UNCHANGED <<topics, members, urgent, normal, hand>>

Run(n, cb) ==
  /\ todo[n] # NULL
  /\ cb \in todo[n]
  /\ todo' = [todo EXCEPT ![n] = @ \ {cb}]
  /\ UNCHANGED <<topics, members, urgent, normal, hand>>

Close(n) ==
  /\ todo[n] = {}
  /\ todo' = [todo EXCEPT ![n] = NULL]
  /\ hand' = [hand EXCEPT ![n] = NULL]
  /\ UNCHANGED <<topics, members, urgent, normal>>

BusNext ==
  \E n \in Names :
    \/ Create(n)
    \/ \E cb \in Callbacks : Join(n, cb) \/ Leave(n, cb) \/ Run(n, cb)
    \/ \E m \in Messages : Accept(n, m)
    \/ Take(n) \/ Open(n) \/ Close(n)

\* As long as there is a backlog a message of it is taken, and a delivery that has
\* begun is completed.  Which message is taken is Take's affair: one that is not
\* critical, or not the newest critical one, may wait for ever while critical
\* ones keep being accepted.
BusFairness ==
  \A n \in Names :
    /\ WF_busVars(Take(n))
    /\ WF_busVars(Open(n))
    /\ WF_busVars(\E cb \in Callbacks : Run(n, cb))
    /\ WF_busVars(Close(n))

BusSafety == BusInit /\ [][BusNext]_busVars

BusSpec == BusSafety /\ BusFairness
=============================================================================
