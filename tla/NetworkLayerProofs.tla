------------------------- MODULE NetworkLayerProofs -------------------------
(***************************************************************************)
(* Proofs about NetworkLayer.tla for every length of the event queue.      *)
(***************************************************************************)
EXTENDS NetworkLayer, SequenceTheorems, TLAPS

-----------------------------------------------------------------------------
(* The strengthening. *)

\* Until the first event is handled nothing else happens on the link.
StartInv ==
  \A i \in DOMAIN events : events[i] = WIFI_EVENT_STA_START =>
    Len(events) = 1 /\ link = "idle" /\ WIFI_CONNECTED_BIT \notin bits

\* The event that was posted last says whether the link is up.
LastEventInv ==
  events # <<>> => (link = "up" <=> events[Len(events)] = IP_EVENT_STA_GOT_IP)

\* Inside the WiFi handler the first event is the loss it handles.
HandlerInv ==
  /\ wifi # "idle" => events # <<>> /\ events[1] = WIFI_EVENT_STA_DISCONNECTED
  /\ wifi = "callback" => WIFI_CONNECTED_BIT \notin bits

\* A link that nobody connects was lost after the loss in the handler.
RetryInv == link = "idle" => events # <<>> /\ (wifi = "idle" \/ Len(events) > 1)

\* What the MQTT handler was called for is the state of the session.
MqttInv ==
  /\ mqtt = MQTT_EVENT_CONNECTED => session = "up"
  /\ mqtt = MQTT_EVENT_DISCONNECTED => session = "down"
  /\ mqtt = MQTT_EVENT_ERROR => (MQTT_CONNECTED_BIT \in bits <=> session = "up")

LayerInv ==
  /\ TypeOK /\ StartInv /\ LastEventInv /\ HandlerInv /\ RetryInv /\ MqttInv
  /\ BitsMatch /\ ConnectedHasSession

-----------------------------------------------------------------------------
(* The steps. *)

\* The events are different.
LEMMA EventsDiffer ==
  /\ WIFI_EVENT_STA_START # WIFI_EVENT_STA_DISCONNECTED
  /\ WIFI_EVENT_STA_START # IP_EVENT_STA_GOT_IP
  /\ WIFI_EVENT_STA_DISCONNECTED # IP_EVENT_STA_GOT_IP
BY DEF WIFI_EVENT_STA_START, WIFI_EVENT_STA_DISCONNECTED, IP_EVENT_STA_GOT_IP

\* The queue as a sequence.
LEMMA QueueShape ==
  ASSUME TypeOK
  PROVE  /\ Len(events) \in Nat /\ MAX_EVENTS \in Nat
         /\ DOMAIN events = 1..Len(events)
         /\ events # <<>> <=> Len(events) > 0
<1>1. events \in Seq(Events) /\ MAX_EVENTS \in Nat
  BY EventsAssumption DEF TypeOK
<1>2. Len(events) \in Nat /\ DOMAIN events = 1..Len(events)
  BY <1>1, LenProperties
<1>3. Len(events) = 0 <=> events = <<>>
  BY <1>1, EmptySeq
<1>. QED
  BY <1>1, <1>2, <1>3

\* The driver posts what became of the link.
LEMMA DriverKeeps ==
  ASSUME LayerInv, DriverStep
  PROVE  LayerInv'
<1>. USE DEF LayerInv
<1>1. PICK e \in {IP_EVENT_STA_GOT_IP, WIFI_EVENT_STA_DISCONNECTED} :
        /\ Post(e)
        /\ link # "idle"
        /\ link' \in {"idle", "up"} /\ (link' = "up" <=> e = IP_EVENT_STA_GOT_IP)
  BY DEF DriverStep, Driver, GetIp, FailToConnect, LoseLink, IP_EVENT_STA_GOT_IP,
         WIFI_EVENT_STA_DISCONNECTED
<1>2. UNCHANGED <<session, bits, current_status, wifi, mqtt>>
  BY DEF DriverStep
<1>3. /\ events \in Seq(Events) /\ e \in Events /\ e # WIFI_EVENT_STA_START
      /\ Len(events) \in Nat /\ MAX_EVENTS \in Nat /\ DOMAIN events = 1..Len(events)
      /\ events # <<>> <=> Len(events) > 0
  BY QueueShape, EventsDiffer DEF TypeOK, Events
<1>4. /\ events' \in Seq(Events) /\ Len(events') = Len(events) + 1
      /\ Len(events') <= MAX_EVENTS /\ events' # <<>>
      /\ DOMAIN events' = 1..Len(events')
      /\ \A i \in 1..Len(events) : events'[i] = events[i]
      /\ events'[Len(events')] = e
  <2>1. events' = Append(events, e) /\ Len(events) < MAX_EVENTS
    BY <1>1 DEF Post
  <2>. QED
    BY <1>3, <2>1, AppendProperties, LenProperties, EmptySeq
<1>5. TypeOK' /\ LastEventInv' /\ BitsMatch' /\ ConnectedHasSession' /\ MqttInv'
  BY <1>1, <1>2, <1>4 DEF TypeOK, Links, LastEventInv, BitsMatch, ConnectedHasSession, MqttInv
<1>6. StartInv'
  <2>1. \A i \in DOMAIN events : events[i] # WIFI_EVENT_STA_START
    BY <1>1 DEF StartInv
  <2>2. \A i \in DOMAIN events' : events'[i] # WIFI_EVENT_STA_START
    BY <1>3, <1>4, <2>1
  <2>. QED
    BY <2>2 DEF StartInv
<1>7. HandlerInv' /\ RetryInv'
  <2>1. wifi # "idle" => Len(events) > 0 /\ events'[1] = events[1]
    <3>1. wifi # "idle" => Len(events) > 0
      BY <1>3 DEF HandlerInv
    <3>2. Len(events) > 0 => 1 \in 1..Len(events)
      BY <1>3
    <3>. QED
      BY <1>4, <3>1, <3>2
  <2>2. wifi # "idle" => Len(events') > 1
    BY <1>3, <1>4, <2>1
  <2>. QED
    BY <1>2, <1>4, <2>1, <2>2 DEF HandlerInv, RetryInv
<1>. QED
  BY <1>5, <1>6, <1>7

\* What the end of an event does to the queue.
LEMMA EventEnds ==
  ASSUME LayerInv, NEW e, Handling(e), events' = Tail(events)
  PROVE  /\ events' \in Seq(Events) /\ Len(events') <= MAX_EVENTS
         /\ e = WIFI_EVENT_STA_START => events' = <<>>
         /\ \A i \in DOMAIN events' : events'[i] # WIFI_EVENT_STA_START
         /\ events' # <<>> => events'[Len(events')] = events[Len(events)]
         /\ events' = <<>> => Len(events) = 1 /\ e = events[Len(events)]
<1>. USE DEF LayerInv
<1>1. /\ events \in Seq(Events) /\ events # <<>> /\ Len(events) <= MAX_EVENTS
      /\ Len(events) \in Nat /\ MAX_EVENTS \in Nat /\ Len(events) > 0
      /\ DOMAIN events = 1..Len(events)
  BY QueueShape DEF Handling, TypeOK
<1>2. /\ events' \in Seq(Events) /\ Len(events') = Len(events) - 1
      /\ DOMAIN events' = 1..(Len(events) - 1) /\ e = events[1]
      /\ \A i \in 1..(Len(events) - 1) : events'[i] = events[i + 1]
  BY <1>1, HeadTailProperties, LenProperties DEF Handling
<1>3. Len(events) = 1 <=> events' = <<>>
  <2>1. Len(events') = 0 <=> events' = <<>>
    BY <1>2, EmptySeq
  <2>2. Len(events') = 0 <=> Len(events) = 1
    BY <1>1, <1>2
  <2>. QED
    BY <2>1, <2>2
<1>4. e = WIFI_EVENT_STA_START => events' = <<>>
  <2>1. 1 \in DOMAIN events
    BY <1>1
  <2>2. events[1] = WIFI_EVENT_STA_START => Len(events) = 1
    BY <2>1 DEF StartInv
  <2>. QED
    BY <1>2, <1>3, <2>2
<1>5. \A i \in DOMAIN events' : events'[i] # WIFI_EVENT_STA_START
  <2>. SUFFICES ASSUME NEW i \in 1..(Len(events) - 1) PROVE events[i + 1] # WIFI_EVENT_STA_START
    BY <1>2
  <2>1. i + 1 \in DOMAIN events /\ Len(events) # 1
    BY <1>1
  <2>. QED
    BY <2>1 DEF StartInv
<1>6. ASSUME events' # <<>>
      PROVE  events'[Len(events')] = events[Len(events)]
  <2>1. Len(events) - 1 \in 1..(Len(events) - 1)
    BY <1>1, <1>3, <1>6
  <2>. QED
    BY <1>1, <1>2, <2>1
<1>. QED
  BY <1>1, <1>2, <1>3, <1>4, <1>5, <1>6

\* The WiFi handler's steps.
LEMMA WifiKeeps ==
  ASSUME LayerInv, WifiHandler
  PROVE  LayerInv'
<1>. USE DEF LayerInv
<1>0. /\ Len(events) \in Nat /\ DOMAIN events = 1..Len(events)
      /\ events # <<>> <=> Len(events) > 0
      /\ events # <<>> => 1 \in DOMAIN events /\ Head(events) = events[1]
  BY QueueShape
<1>1. CASE HandleStart
  <2>1. /\ UNCHANGED <<session, bits, current_status, wifi, mqtt>>
        /\ Handling(WIFI_EVENT_STA_START) /\ events' = Tail(events)
        /\ link' \in {"connecting", "refused"} /\ link # "up" /\ WIFI_CONNECTED_BIT \notin bits
        /\ wifi = "idle"
    <3>1. link = "idle" /\ WIFI_CONNECTED_BIT \notin bits /\ events[1] = WIFI_EVENT_STA_START
      BY <1>0, <1>1 DEF HandleStart, Handling, StartInv
    <3>2. wifi = "idle"
      BY <3>1, EventsDiffer DEF HandlerInv
    <3>. QED
      BY <1>1, <3>1, <3>2 DEF HandleStart, Down, esp_wifi_connect
  <2>2. events' \in Seq(Events) /\ Len(events') <= MAX_EVENTS /\ events' = <<>>
        /\ \A i \in DOMAIN events' : events'[i] # WIFI_EVENT_STA_START
    BY <2>1, EventEnds
  <2>3. TypeOK' /\ StartInv' /\ LastEventInv' /\ HandlerInv' /\ RetryInv'
    BY <2>1, <2>2 DEF TypeOK, Links, StartInv, LastEventInv, HandlerInv, RetryInv
  <2>4. BitsMatch' /\ ConnectedHasSession' /\ MqttInv'
    BY <2>1, <2>2 DEF BitsMatch, ConnectedHasSession, MqttInv
  <2>. QED
    BY <2>3, <2>4
<1>2. CASE HandleGotIp
  <2>1. /\ UNCHANGED <<link, session, current_status, wifi, mqtt>>
        /\ Handling(IP_EVENT_STA_GOT_IP) /\ events' = Tail(events)
        /\ bits' = bits \cup {WIFI_CONNECTED_BIT}
        /\ wifi = "idle"
    BY <1>0, <1>2, EventsDiffer DEF HandleGotIp, Handling, HandlerInv, TypeOK
  <2>2. /\ events' \in Seq(Events) /\ Len(events') <= MAX_EVENTS
        /\ \A i \in DOMAIN events' : events'[i] # WIFI_EVENT_STA_START
        /\ events' # <<>> => events'[Len(events')] = events[Len(events)]
        /\ events' = <<>> => events[Len(events)] = IP_EVENT_STA_GOT_IP
    BY <2>1, EventEnds
  <2>3. (events' = <<>> => link = "up") /\ LastEventInv'
    BY <2>1, <2>2 DEF LastEventInv, Handling
  <2>4. TypeOK' /\ StartInv' /\ HandlerInv' /\ RetryInv'
    BY <2>1, <2>2, <2>3 DEF TypeOK, Bits, StartInv, HandlerInv, RetryInv
  <2>5. BitsMatch' /\ ConnectedHasSession' /\ MqttInv'
    BY <2>1, <2>3 DEF BitsMatch, ConnectedHasSession, MqttInv, WIFI_CONNECTED_BIT, MQTT_CONNECTED_BIT
  <2>. QED
    BY <2>3, <2>4, <2>5
<1>3. CASE LostConnect
  <2>1. /\ UNCHANGED <<events, session, bits, current_status, mqtt>>
        /\ events # <<>> /\ events[1] = WIFI_EVENT_STA_DISCONNECTED
        /\ wifi' = "clear" /\ link' \in {"connecting", "up", "refused"}
        /\ link' = "up" <=> link = "up"
    BY <1>0, <1>3 DEF LostConnect, Handling, Down, Links, esp_wifi_connect, TypeOK
  <2>2. \A i \in DOMAIN events : events[i] # WIFI_EVENT_STA_START
    <3>1. ASSUME NEW i \in DOMAIN events, events[i] = WIFI_EVENT_STA_START
          PROVE  FALSE
      <4>1. i = 1
        BY <1>0, <3>1 DEF StartInv
      <4>. QED
        BY <2>1, <3>1, <4>1, EventsDiffer
    <3>. QED
      BY <3>1
  <2>3. TypeOK' /\ StartInv' /\ LastEventInv' /\ HandlerInv' /\ RetryInv'
    BY <2>1, <2>2 DEF TypeOK, Links, StartInv, LastEventInv, HandlerInv, RetryInv
  <2>4. BitsMatch' /\ ConnectedHasSession' /\ MqttInv'
    BY <2>1 DEF BitsMatch, ConnectedHasSession, MqttInv
  <2>. QED
    BY <2>3, <2>4
<1>4. CASE LostRecord
  <2>1. /\ UNCHANGED <<link, events, session, mqtt>>
        /\ bits' = bits \ {WIFI_CONNECTED_BIT} /\ wifi = "clear" /\ wifi' = "callback"
        /\ current_status' = NETWORK_STATUS_DISCONNECTED
        /\ events # <<>>
    BY <1>4 DEF LostRecord, linkVars, HandlerInv
  <2>2. TypeOK' /\ StartInv' /\ LastEventInv' /\ HandlerInv' /\ RetryInv'
    BY <2>1 DEF TypeOK, Statuses, StartInv, LastEventInv, HandlerInv, RetryInv
  <2>3. BitsMatch' /\ MqttInv'
    BY <2>1 DEF BitsMatch, MqttInv, WIFI_CONNECTED_BIT, MQTT_CONNECTED_BIT
  <2>4. ConnectedHasSession'
    BY <2>1 DEF ConnectedHasSession, NETWORK_STATUS_DISCONNECTED, NETWORK_STATUS_CONNECTED
  <2>. QED
    BY <2>2, <2>3, <2>4
<1>5. CASE WifiCallback
  <2>1. /\ UNCHANGED <<link, session, bits, current_status, mqtt>>
        /\ wifi = "callback" /\ wifi' = "idle" /\ events' = Tail(events)
        /\ Handling(WIFI_EVENT_STA_DISCONNECTED) /\ WIFI_CONNECTED_BIT \notin bits
    BY <1>0, <1>5 DEF WifiCallback, HandlerInv, Handling
  <2>2. /\ events' \in Seq(Events) /\ Len(events') <= MAX_EVENTS
        /\ \A i \in DOMAIN events' : events'[i] # WIFI_EVENT_STA_START
        /\ events' # <<>> => events'[Len(events')] = events[Len(events)]
        /\ events' = <<>> => Len(events) = 1 /\ events[Len(events)] = WIFI_EVENT_STA_DISCONNECTED
    BY <2>1, EventEnds
  <2>3. (events' = <<>> => link # "up") /\ LastEventInv'
    BY <2>1, <2>2, EventsDiffer DEF LastEventInv, Handling
  <2>4. link = "idle" => events' # <<>>
    BY <2>1, <2>2 DEF RetryInv
  <2>5. TypeOK' /\ StartInv' /\ HandlerInv' /\ RetryInv'
    BY <2>1, <2>2, <2>4 DEF TypeOK, StartInv, HandlerInv, RetryInv
  <2>6. BitsMatch' /\ ConnectedHasSession' /\ MqttInv'
    BY <2>1, <2>3 DEF BitsMatch, ConnectedHasSession, MqttInv
  <2>. QED
    BY <2>3, <2>5, <2>6
<1>. QED
  BY <1>1, <1>2, <1>3, <1>4, <1>5 DEF WifiHandler

\* The session and the MQTT handler: they touch neither the link nor its bit.
LEMMA MqttKeeps ==
  ASSUME LayerInv, MqttClient \/ MqttHandler
  PROVE  LayerInv'
<1>. USE DEF LayerInv
<1>1. /\ UNCHANGED <<link, events, wifi>>
      /\ bits' \subseteq Bits /\ (WIFI_CONNECTED_BIT \in bits' <=> WIFI_CONNECTED_BIT \in bits)
  BY DEF MqttClient, SessionBegins, SessionEnds, SessionError, Session, MqttHandler,
         MqttConnected, MqttDisconnected, MqttError, MqttCallback, linkVars, TypeOK, Bits,
         WIFI_CONNECTED_BIT, MQTT_CONNECTED_BIT
<1>2. StartInv' /\ LastEventInv' /\ HandlerInv' /\ RetryInv'
  BY <1>1 DEF StartInv, LastEventInv, HandlerInv, RetryInv
<1>3. /\ mqtt' \in {"idle", "callback"} \cup MqttEvents
      /\ session' \in {"down", "up"} /\ current_status' \in Statuses
      /\ mqtt' \notin MqttEvents => (MQTT_CONNECTED_BIT \in bits' <=> session' = "up")
      /\ ConnectedHasSession' /\ MqttInv'
  <2>. USE DEF MqttEvents, MQTT_EVENT_CONNECTED, MQTT_EVENT_DISCONNECTED, MQTT_EVENT_ERROR,
               Statuses, NETWORK_STATUS_CONNECTED, NETWORK_STATUS_DISCONNECTED,
               NETWORK_STATUS_ERROR
  <2>1. CASE SessionBegins \/ SessionEnds \/ SessionError
    BY <2>1 DEF SessionBegins, SessionEnds, SessionError, Session, TypeOK, BitsMatch,
                   ConnectedHasSession, MqttInv
  <2>2. CASE MqttConnected
    BY <2>2 DEF MqttConnected, TypeOK, ConnectedHasSession, MqttInv
  <2>3. CASE MqttDisconnected \/ MqttCallback
    BY <2>3 DEF MqttDisconnected, MqttCallback, TypeOK, BitsMatch, ConnectedHasSession, MqttInv
  <2>4. CASE MqttError
    BY <2>4 DEF MqttError, TypeOK, ConnectedHasSession, MqttInv
  <2>. QED
    BY <2>1, <2>2, <2>3, <2>4 DEF MqttClient, MqttHandler
<1>4. TypeOK' /\ BitsMatch'
  BY <1>1, <1>3 DEF TypeOK, BitsMatch
<1>. QED
  BY <1>2, <1>3, <1>4

-----------------------------------------------------------------------------
(* Theorems *)

\* The strengthening is an invariant of network_layer.c.
THEOREM LayerInvariance == Spec => []LayerInv
<1>1. Init => LayerInv
  <2>. SUFFICES ASSUME Init PROVE LayerInv
    OBVIOUS
  <2>1. /\ events = <<WIFI_EVENT_STA_START>> /\ link = "idle" /\ bits = {} /\ session = "down"
        /\ wifi = "idle" /\ mqtt = "idle" /\ current_status = NETWORK_STATUS_DISCONNECTED
    BY DEF Init, LinkInit
  <2>2. /\ events \in Seq(Events) /\ Len(events) = 1 /\ events # <<>>
        /\ events[1] = WIFI_EVENT_STA_START
    BY <2>1 DEF Events
  <2>3. TypeOK
    BY <2>1, <2>2, EventsAssumption DEF TypeOK, Statuses, Links
  <2>4. StartInv /\ LastEventInv /\ HandlerInv /\ RetryInv
    BY <2>1, <2>2, EventsDiffer DEF StartInv, LastEventInv, HandlerInv, RetryInv
  <2>5. BitsMatch /\ ConnectedHasSession /\ MqttInv
    BY <2>1, <2>2 DEF BitsMatch, ConnectedHasSession, MqttInv, NETWORK_STATUS_DISCONNECTED,
                      NETWORK_STATUS_CONNECTED, MQTT_EVENT_CONNECTED,
                      MQTT_EVENT_DISCONNECTED, MQTT_EVENT_ERROR
  <2>. QED
    BY <2>3, <2>4, <2>5 DEF LayerInv
<1>2. LayerInv /\ [Next]_vars => LayerInv'
  <2>. SUFFICES ASSUME LayerInv, [Next]_vars PROVE LayerInv'
    OBVIOUS
  <2>1. CASE Next
    BY <2>1, DriverKeeps, WifiKeeps, MqttKeeps DEF Next
  <2>2. CASE UNCHANGED vars
    BY <2>2 DEF vars, linkVars, LayerInv, TypeOK, StartInv, LastEventInv, HandlerInv,
                RetryInv, BitsMatch, ConnectedHasSession, MqttInv
  <2>. QED
    BY <2>1, <2>2
<1>. QED
  BY <1>1, <1>2, PTL DEF Spec

\* Every variable stays in its type.
THEOREM TypeCorrect == Spec => []TypeOK
<1>1. LayerInv => TypeOK
  BY DEF LayerInv
<1>. QED
  BY LayerInvariance, <1>1, PTL

\* Once the handlers have run, the bits of network_event_group say what link and
\* session are.
THEOREM BitsFollow == Spec => []BitsMatch
<1>1. LayerInv => BitsMatch
  BY DEF LayerInv
<1>. QED
  BY LayerInvariance, <1>1, PTL

\* current_status says connected only while mqtt_event_handler has not been told
\* that the session ended.
THEOREM ConnectedIsTrue == Spec => []ConnectedHasSession
<1>1. LayerInv => ConnectedHasSession
  BY DEF LayerInv
<1>. QED
  BY LayerInvariance, <1>1, PTL

\* wifi_event_handler never leaves a lost link without another esp_wifi_connect to
\* come.
THEOREM RetryIsNeverLost == Spec => []NoLostRetry
<1>1. LayerInv => NoLostRetry
  <2>. SUFFICES ASSUME LayerInv, link = "idle"
                PROVE  \E i \in DOMAIN events :
                         /\ events[i] \in {WIFI_EVENT_STA_START, WIFI_EVENT_STA_DISCONNECTED}
                         /\ i = 1 => wifi = "idle"
    BY DEF NoLostRetry
  <2>. USE DEF LayerInv
  <2>1. /\ events \in Seq(Events) /\ Len(events) \in Nat /\ DOMAIN events = 1..Len(events)
        /\ events # <<>> /\ Len(events) > 0 /\ (wifi = "idle" \/ Len(events) > 1)
    BY QueueShape DEF RetryInv, TypeOK
  <2>2. Len(events) \in DOMAIN events
    BY <2>1
  <2>3. events[Len(events)] \in Events /\ events[Len(events)] # IP_EVENT_STA_GOT_IP
    <3>1. events[Len(events)] \in Events
      BY <2>1, <2>2, ElementOfSeq
    <3>. QED
      BY <2>1, <3>1 DEF LastEventInv
  <2>. WITNESS Len(events) \in DOMAIN events
  <2>. QED
    BY <2>1, <2>3 DEF Events
<1>. QED
  BY LayerInvariance, <1>1, PTL
=============================================================================
