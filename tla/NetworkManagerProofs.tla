------------------------ MODULE NetworkManagerProofs ------------------------
(***************************************************************************)
(* Proofs about NetworkManager.tla for every length of the event queue and *)
(* every configuration.                                                    *)
(***************************************************************************)
EXTENDS NetworkManager, SequenceTheorems, TLAPS

-----------------------------------------------------------------------------
(* The strengthening. *)

\* Until the first event is handled nothing else happens.
StartInv ==
  \A i \in DOMAIN events : events[i] = WIFI_EVENT_STA_START =>
    Len(events) = 1 /\ link = "idle" /\ bits = {}

\* The event that was posted last says whether the link is up.
LastEventInv ==
  events # <<>> => (link = "up" <=> events[Len(events)] = IP_EVENT_STA_GOT_IP)

\* Between its two changes of the bits the handler is at an event whose bit is set.
HandlerInv ==
  handler = "clear" => events # <<>> /\ BitSet(Head(events)) \in bits

\* The monitor works only with bits that were set.
SeenInv == monitor = "work" => bits # {}

LinkInv == TypeOK /\ StartInv /\ LastEventInv /\ HandlerInv /\ SeenInv /\ BitsMatchLink

-----------------------------------------------------------------------------
(* The steps. *)

\* The driver posts what became of the link.
LEMMA DriverKeeps ==
  ASSUME LinkInv, DriverStep
  PROVE  LinkInv'
<1>. USE DEF LinkInv
<1>1. PICK e \in {IP_EVENT_STA_GOT_IP, WIFI_EVENT_STA_DISCONNECTED} :
        /\ Post(e)
        /\ link # "idle"
        /\ link' \in {"idle", "up"} /\ (link' = "up" <=> e = IP_EVENT_STA_GOT_IP)
  BY DEF DriverStep, Driver, GetIp, FailToConnect, LoseLink, IP_EVENT_STA_GOT_IP,
         WIFI_EVENT_STA_DISCONNECTED
<1>2. UNCHANGED <<config, bits, current_status, reconnect_attempts, tried, handler, monitor, seen>>
  BY DEF DriverStep, statusVars
<1>3. events \in Seq(Events) /\ e \in Events /\ Len(events) \in Nat /\ MAX_EVENTS \in Nat
      /\ DOMAIN events = 1..Len(events)
  BY LenProperties, EventsAssumption DEF TypeOK, Events
<1>4. /\ events' \in Seq(Events) /\ Len(events') = Len(events) + 1
      /\ Len(events') <= MAX_EVENTS /\ events' # <<>>
      /\ DOMAIN events' = 1..Len(events')
      /\ \A i \in 1..Len(events) : events'[i] = events[i]
      /\ events'[Len(events')] = e
  <2>1. events' = Append(events, e) /\ Len(events) < MAX_EVENTS
    BY <1>1 DEF Post
  <2>. QED
    BY <1>3, <2>1, AppendProperties, LenProperties, EmptySeq
<1>5. TypeOK'
  BY <1>1, <1>2, <1>4 DEF TypeOK, Links
<1>6. StartInv'
  <2>1. \A i \in DOMAIN events : events[i] # WIFI_EVENT_STA_START
    BY <1>1 DEF StartInv
  <2>2. e # WIFI_EVENT_STA_START
    BY <1>1 DEF IP_EVENT_STA_GOT_IP, WIFI_EVENT_STA_DISCONNECTED, WIFI_EVENT_STA_START
  <2>3. \A i \in DOMAIN events' : events'[i] # WIFI_EVENT_STA_START
    BY <1>3, <1>4, <2>1, <2>2
  <2>. QED
    BY <2>3 DEF StartInv
<1>7. LastEventInv' /\ BitsMatchLink'
  BY <1>1, <1>4 DEF LastEventInv, BitsMatchLink
<1>8. HandlerInv' /\ SeenInv'
  <2>1. handler = "clear" => Head(events') = Head(events)
    <3>1. handler = "clear" => 1 \in 1..Len(events)
      BY <1>3, EmptySeq DEF HandlerInv
    <3>2. Head(events') = events'[1] /\ Head(events) = events[1]
      OBVIOUS
    <3>. QED
      BY <1>4, <3>1, <3>2
  <2>. QED
    BY <1>2, <1>4, <2>1 DEF HandlerInv, SeenInv, BitSet
<1>. QED
  BY <1>5, <1>6, <1>7, <1>8

\* What handling the first event does to the queue.
LEMMA HeadHandled ==
  ASSUME LinkInv, NEW e, Handling(e), events' = Tail(events), (link' = "up") <=> (link = "up")
  PROVE  /\ events' \in Seq(Events) /\ Len(events') <= MAX_EVENTS
         /\ e = WIFI_EVENT_STA_START => events' = <<>>
         /\ \A i \in DOMAIN events' : events'[i] # WIFI_EVENT_STA_START
         /\ LastEventInv'
         /\ events' = <<>> => (link = "up" <=> e = IP_EVENT_STA_GOT_IP)
<1>. USE DEF LinkInv
<1>1. /\ events \in Seq(Events) /\ Len(events) \in Nat /\ Len(events) > 0
      /\ Len(events) <= MAX_EVENTS /\ MAX_EVENTS \in Nat
      /\ DOMAIN events = 1..Len(events) /\ events # <<>>
  BY LenProperties, EmptySeq, EventsAssumption DEF TypeOK, Handling
<1>2. /\ events' \in Seq(Events) /\ Len(events') = Len(events) - 1
      /\ DOMAIN events' = 1..(Len(events) - 1) /\ e = events[1]
      /\ \A i \in 1..(Len(events) - 1) : events'[i] = events[i + 1]
  BY <1>1, HeadTailProperties, LenProperties DEF Handling
<1>3. Len(events) = 1 <=> events' = <<>>
  <2>1. Len(events') = 0 <=> events' = <<>>
    BY <1>2, EmptySeq
  <2>2. Len(events') = 0 <=> Len(events) = 1
    BY <1>1, <1>2
  <2>. QED
    BY <2>1, <2>2
<1>4. e = WIFI_EVENT_STA_START => events' = <<>>
  <2>1. 1 \in DOMAIN events
    BY <1>1
  <2>2. events[1] = WIFI_EVENT_STA_START => Len(events) = 1
    BY <2>1 DEF StartInv
  <2>. QED
    BY <1>2, <1>3, <2>2
<1>5. \A i \in DOMAIN events' : events'[i] # WIFI_EVENT_STA_START
  <2>. SUFFICES ASSUME NEW i \in 1..(Len(events) - 1) PROVE events[i + 1] # WIFI_EVENT_STA_START
    BY <1>2
  <2>1. i + 1 \in DOMAIN events /\ Len(events) # 1
    BY <1>1
  <2>. QED
    BY <2>1 DEF StartInv
<1>6. LastEventInv'
  <2>1. ASSUME events' # <<>>
        PROVE  events'[Len(events')] = events[Len(events)]
    <3>1. Len(events) - 1 \in 1..(Len(events) - 1)
      BY <1>1, <1>3, <2>1
    <3>. QED
      BY <1>1, <1>2, <3>1
  <2>. QED
    BY <1>1, <2>1 DEF LastEventInv
<1>7. events' = <<>> => (link = "up" <=> e = IP_EVENT_STA_GOT_IP)
  BY <1>1, <1>2, <1>3 DEF LastEventInv
<1>. QED
  BY <1>1, <1>2, <1>4, <1>5, <1>6, <1>7

\* Connecting does not bring the link up by itself.
LEMMA ConnectKeeps ==
  ASSUME LinkInv, esp_wifi_connect
  PROVE  /\ link' \in Links
         /\ link' = "up" <=> link = "up"
BY DEF LinkInv, TypeOK, Links, Down, esp_wifi_connect

\* The handler's steps.
LEMMA HandlerKeeps ==
  ASSUME LinkInv, Handler
  PROVE  LinkInv'
<1>. USE DEF LinkInv
<1>1. CASE HandleStart
  <2>1. UNCHANGED <<config, bits, current_status, reconnect_attempts, tried, handler, monitor, seen>>
    BY <1>1 DEF HandleStart, statusVars
  <2>2. /\ events' \in Seq(Events) /\ Len(events') <= MAX_EVENTS /\ events' = <<>>
        /\ LastEventInv' /\ link \in Links
        /\ link' \in Links /\ (link' = "up" <=> link = "up")
    BY <1>1, ConnectKeeps, HeadHandled DEF HandleStart, TypeOK
  <2>3. bits = {} /\ link # "up" /\ handler = "idle"
    <3>1. 1 \in DOMAIN events /\ events[1] = WIFI_EVENT_STA_START
      BY <1>1, LenProperties, EmptySeq DEF HandleStart, Handling, TypeOK
    <3>2. bits = {} /\ link = "idle"
      BY <3>1 DEF StartInv
    <3>. QED
      BY <3>2 DEF HandlerInv, TypeOK
  <2>4. TypeOK'
    BY <2>1, <2>2 DEF TypeOK
  <2>5. StartInv' /\ HandlerInv' /\ SeenInv' /\ BitsMatchLink'
    BY <2>1, <2>2, <2>3 DEF StartInv, HandlerInv, SeenInv, BitsMatchLink
  <2>. QED
    BY <2>2, <2>4, <2>5
<1>2. ASSUME NEW e \in Events, SetBit(e)
      PROVE  LinkInv'
  <2>1. /\ UNCHANGED <<link, events, config, current_status, reconnect_attempts, tried, monitor, seen>>
        /\ bits' = bits \cup {BitSet(e)} /\ handler' = "clear"
        /\ events # <<>> /\ Head(events) = e /\ e # WIFI_EVENT_STA_START
    BY <1>2 DEF SetBit, Handling, linkVars, statusVars
  <2>2. BitSet(e) \in Bits
    BY DEF BitSet, Bits
  <2>3. TypeOK'
    BY <2>1, <2>2 DEF TypeOK
  <2>4. StartInv'
    <3>1. \A i \in DOMAIN events : events[i] # WIFI_EVENT_STA_START
      <4>1. 1 \in DOMAIN events /\ events[1] = e /\ DOMAIN events = 1..Len(events)
        BY <2>1, LenProperties, EmptySeq DEF TypeOK
      <4>. QED
        BY <2>1, <4>1 DEF StartInv
    <3>. QED
      BY <2>1, <3>1 DEF StartInv
  <2>5. LastEventInv' /\ HandlerInv' /\ SeenInv' /\ BitsMatchLink'
    BY <2>1 DEF LastEventInv, HandlerInv, SeenInv, BitsMatchLink, BitSet
  <2>. QED
    BY <2>3, <2>4, <2>5
<1>3. ASSUME NEW e \in Events, ClearBit(e)
      PROVE  LinkInv'
  <2>1. /\ UNCHANGED <<link, config, current_status, reconnect_attempts, tried, monitor, seen>>
        /\ bits' = bits \ BitCleared(e) /\ handler = "clear" /\ handler' = "idle"
        /\ Handling(e) /\ events' = Tail(events) /\ BitSet(e) \in bits
    BY <1>3 DEF ClearBit, Handling, statusVars, HandlerInv
  <2>2. /\ events' \in Seq(Events) /\ Len(events') <= MAX_EVENTS
        /\ \A i \in DOMAIN events' : events'[i] # WIFI_EVENT_STA_START
        /\ LastEventInv'
        /\ events' = <<>> => (link = "up" <=> e = IP_EVENT_STA_GOT_IP)
    BY <2>1, HeadHandled
  <2>3. /\ bits \subseteq {WIFI_CONNECTED_BIT, WIFI_FAIL_BIT}
        /\ WIFI_CONNECTED_BIT # WIFI_FAIL_BIT
    BY DEF TypeOK, Bits, WIFI_CONNECTED_BIT, WIFI_FAIL_BIT
  <2>4. CASE e = IP_EVENT_STA_GOT_IP
    <3>1. bits' = {WIFI_CONNECTED_BIT}
      BY <2>1, <2>3, <2>4 DEF BitCleared, BitSet
    <3>. QED
      BY <2>1, <2>2, <2>4, <3>1
      DEF TypeOK, Bits, StartInv, HandlerInv, SeenInv, BitsMatchLink
  <2>5. CASE e # IP_EVENT_STA_GOT_IP
    <3>1. bits' = {WIFI_FAIL_BIT}
      BY <2>1, <2>3, <2>5 DEF BitCleared, BitSet
    <3>. QED
      BY <2>1, <2>2, <2>5, <3>1
      DEF TypeOK, Bits, StartInv, HandlerInv, SeenInv, BitsMatchLink
  <2>. QED
    BY <2>4, <2>5
<1>. QED
  BY <1>1, <1>2, <1>3 DEF Handler

\* The monitor's steps: none of them touches the bits or brings the link up.
LEMMA MonitorKeeps ==
  ASSUME LinkInv, Monitor
  PROVE  LinkInv'
<1>. USE DEF LinkInv
<1>1. /\ UNCHANGED <<events, config, bits, handler>>
      /\ link' \in Links /\ (link' = "up" <=> link = "up")
      /\ bits = {} => link' = link
  <2>1. CASE ReadBits \/ Connected \/ GiveUp \/ DelayEnds
    BY <2>1 DEF ReadBits, Connected, GiveUp, DelayEnds, EndOfRound, linkVars, TypeOK
  <2>2. CASE Reconnect
    BY <2>2, ConnectKeeps DEF Reconnect, EndOfRound, SeenInv
  <2>. QED
    BY <2>1, <2>2 DEF Monitor
<1>2. /\ config \in Configs
      /\ config.max_reconnect_attempts \in Nat /\ reconnect_attempts \in Nat /\ tried \in Nat
      /\ reconnect_attempts <= config.max_reconnect_attempts /\ tried <= reconnect_attempts
  BY AttemptsAssumption DEF TypeOK, Configs
<1>3. /\ current_status' \in Statuses
      /\ reconnect_attempts' \in Nat /\ reconnect_attempts' <= config.max_reconnect_attempts
      /\ tried' \in Nat /\ tried' <= reconnect_attempts'
  <2>1. CASE ReadBits \/ DelayEnds \/ GiveUp
    BY <1>2, <2>1 DEF ReadBits, DelayEnds, GiveUp, statusVars, TypeOK, Statuses
  <2>2. CASE Connected
    BY <1>2, <2>2 DEF Connected, Statuses
  <2>3. CASE Reconnect
    BY <1>2, <2>3 DEF Reconnect, MayReconnect, Statuses
  <2>. QED
    BY <2>1, <2>2, <2>3 DEF Monitor
<1>4. monitor' \in {"wait", "work", "delay"} /\ seen' \subseteq Bits /\ (monitor' = "work" => bits # {})
  BY DEF Monitor, ReadBits, Connected, Reconnect, GiveUp, DelayEnds, EndOfRound, TypeOK
<1>5. TypeOK'
  BY <1>1, <1>2, <1>3, <1>4 DEF TypeOK
<1>6. StartInv' /\ LastEventInv' /\ HandlerInv' /\ SeenInv' /\ BitsMatchLink'
  BY <1>1, <1>4 DEF StartInv, LastEventInv, HandlerInv, SeenInv, BitsMatchLink, BitSet
<1>. QED
  BY <1>5, <1>6

-----------------------------------------------------------------------------
(* Theorems *)

\* The strengthening is an invariant of network_manager.c.
THEOREM LinkInvariance == Spec => []LinkInv
<1>1. Init => LinkInv
  <2>. SUFFICES ASSUME Init PROVE LinkInv
    OBVIOUS
  <2>1. /\ events = <<WIFI_EVENT_STA_START>> /\ link = "idle" /\ bits = {} /\ seen = {}
        /\ handler = "idle" /\ monitor = "wait" /\ config \in Configs
        /\ current_status = NETWORK_STATUS_DISCONNECTED /\ reconnect_attempts = 0 /\ tried = 0
    BY DEF Init, LinkInit
  <2>2. events \in Seq(Events) /\ Len(events) = 1 /\ events # <<>>
        /\ events[1] = WIFI_EVENT_STA_START
    BY <2>1 DEF Events
  <2>3. config.max_reconnect_attempts \in Nat
    BY <2>1, AttemptsAssumption DEF Configs
  <2>4. TypeOK
    BY <2>1, <2>2, <2>3, EventsAssumption DEF TypeOK, Statuses, Links
  <2>5. LastEventInv
    BY <2>1, <2>2 DEF LastEventInv, WIFI_EVENT_STA_START, IP_EVENT_STA_GOT_IP
  <2>6. StartInv /\ HandlerInv /\ SeenInv /\ BitsMatchLink
    BY <2>1, <2>2 DEF StartInv, HandlerInv, SeenInv, BitsMatchLink
  <2>. QED
    BY <2>4, <2>5, <2>6 DEF LinkInv
<1>2. LinkInv /\ [Next]_vars => LinkInv'
  <2>. SUFFICES ASSUME LinkInv, [Next]_vars PROVE LinkInv'
    OBVIOUS
  <2>1. CASE Next
    BY <2>1, DriverKeeps, HandlerKeeps, MonitorKeeps DEF Next
  <2>2. CASE UNCHANGED vars
    BY <2>2 DEF vars, linkVars, statusVars, LinkInv, TypeOK, StartInv, LastEventInv, HandlerInv,
                SeenInv, BitsMatchLink, BitSet
  <2>. QED
    BY <2>1, <2>2
<1>. QED
  BY <1>1, <1>2, PTL DEF Spec

\* Every variable stays in its type, and network_monitor_task never counts more
\* reconnections than max_reconnect_attempts.
THEOREM TypeCorrect == Spec => []TypeOK
<1>1. LinkInv => TypeOK
  BY DEF LinkInv
<1>. QED
  BY LinkInvariance, <1>1, PTL

\* After wifi_event_handler has handled every event the bits of the event group
\* say what the link is.
THEOREM BitsFollowLink == Spec => []BitsMatchLink
<1>1. LinkInv => BitsMatchLink
  BY DEF LinkInv
<1>. QED
  BY LinkInvariance, <1>1, PTL
=============================================================================
