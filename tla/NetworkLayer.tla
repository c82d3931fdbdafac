---------------------------- MODULE NetworkLayer ----------------------------
(***************************************************************************)
(* network_layer.c: the WiFi handler keeps the link connected, the MQTT    *)
(* handler follows the session with the broker, and both write one status. *)
(*                                                                         *)
(* The WiFi handler runs in the task of the event loop, the MQTT handler   *)
(* in the task of the MQTT client, without a lock.  The model begins with  *)
(* network_init done and WiFi and the MQTT client started.  The functions  *)
(* that would start them (network_connect) and register the callback are   *)
(* declared and have no definition.                                        *)
(***************************************************************************)
EXTENDS WifiLink

NETWORK_STATUS_DISCONNECTED == "disconnected"
NETWORK_STATUS_CONNECTING   == "connecting"
NETWORK_STATUS_CONNECTED    == "connected"
NETWORK_STATUS_ERROR        == "error"
Statuses == {NETWORK_STATUS_DISCONNECTED, NETWORK_STATUS_CONNECTED, NETWORK_STATUS_ERROR}

WIFI_CONNECTED_BIT == "wifi_connected"
MQTT_CONNECTED_BIT == "mqtt_connected"
Bits == {WIFI_CONNECTED_BIT, MQTT_CONNECTED_BIT}

MQTT_EVENT_CONNECTED    == "mqtt_event_connected"
MQTT_EVENT_DISCONNECTED == "mqtt_event_disconnected"
MQTT_EVENT_ERROR        == "mqtt_event_error"
MqttEvents == {MQTT_EVENT_CONNECTED, MQTT_EVENT_DISCONNECTED, MQTT_EVENT_ERROR}

VARIABLES
  session,                   (* the broker's side: "down" or "up"          *)
  bits,                      (* the bits set in network_event_group        *)
  current_status,
  wifi,                      (* where wifi_event_handler is                *)
  mqtt                       (* where mqtt_event_handler is, or the event  *)
                             (* it is called with                          *)

vars == <<linkVars, session, bits, current_status, wifi, mqtt>>

Init ==
  /\ LinkInit
  /\ session = "down"
  /\ bits = {}
  /\ current_status = NETWORK_STATUS_DISCONNECTED
  /\ wifi = "idle"
  /\ mqtt = "idle"

-----------------------------------------------------------------------------
(* The driver, and the MQTT client of ESP-IDF, which calls the handler in  *)
(* its own task.  A session needs the link to begin and survives a short   *)
(* loss of it; an error does not always end it.                            *)

DriverStep == Driver /\ UNCHANGED <<session, bits, current_status, wifi, mqtt>>

Session(e) ==
  /\ mqtt = "idle"
  /\ mqtt' = e
  /\ UNCHANGED <<linkVars, bits, current_status, wifi>>

SessionBegins ==
  Session(MQTT_EVENT_CONNECTED) /\ session = "down" /\ link = "up" /\ session' = "up"

SessionEnds  == Session(MQTT_EVENT_DISCONNECTED) /\ session' = "down"
SessionError == Session(MQTT_EVENT_ERROR) /\ UNCHANGED session

MqttClient == SessionBegins \/ SessionEnds \/ SessionError

-----------------------------------------------------------------------------
(* wifi_event_handler *)

Handling(e) == events # <<>> /\ Head(events) = e

HandleStart ==
  /\ Handling(WIFI_EVENT_STA_START)
  /\ esp_wifi_connect
  /\ events' = Tail(events)
  /\ UNCHANGED <<session, bits, current_status, wifi, mqtt>>

HandleGotIp ==
  /\ Handling(IP_EVENT_STA_GOT_IP)
  /\ bits' = bits \cup {WIFI_CONNECTED_BIT}
  /\ events' = Tail(events)
  /\ UNCHANGED <<link, session, current_status, wifi, mqtt>>

\* Mutant: a lost link is not connected again.
LostWithoutConnect ==
  /\ Handling(WIFI_EVENT_STA_DISCONNECTED)
  /\ wifi = "idle"
  /\ wifi' = "clear"
  /\ UNCHANGED <<linkVars, session, bits, current_status, mqtt>>

\* A disconnection asks for the link again before it is recorded.
LostConnect ==
  /\ Handling(WIFI_EVENT_STA_DISCONNECTED)
  /\ wifi = "idle"
  /\ esp_wifi_connect
  /\ wifi' = "clear"
  /\ UNCHANGED <<events, session, bits, current_status, mqtt>>

\* Mutant: the bit of the link stays set.
LostRecordOnlyStatus ==
  /\ wifi = "clear"
  /\ current_status' = NETWORK_STATUS_DISCONNECTED
  /\ wifi' = "callback"
  /\ UNCHANGED <<linkVars, session, bits, mqtt>>

LostRecord ==
  /\ wifi = "clear"
  /\ bits' = bits \ {WIFI_CONNECTED_BIT}
  /\ current_status' = NETWORK_STATUS_DISCONNECTED
  /\ wifi' = "callback"
  /\ UNCHANGED <<linkVars, session, mqtt>>

\* user_callback, if there is one, and the end of the handler.
WifiCallback ==
  /\ wifi = "callback"
  /\ wifi' = "idle"
  /\ events' = Tail(events)
  /\ UNCHANGED <<link, session, bits, current_status, mqtt>>

-----------------------------------------------------------------------------
(* mqtt_event_handler *)

MqttConnected ==
  /\ mqtt = MQTT_EVENT_CONNECTED
  /\ bits' = bits \cup {MQTT_CONNECTED_BIT}
  /\ current_status' = NETWORK_STATUS_CONNECTED
  /\ mqtt' = "callback"
  /\ UNCHANGED <<linkVars, session, wifi>>

\* Mutant: the end of a session is not written to the status.
MqttDisconnectedOnlyBit ==
  /\ mqtt = MQTT_EVENT_DISCONNECTED
  /\ bits' = bits \ {MQTT_CONNECTED_BIT}
  /\ mqtt' = "callback"
  /\ UNCHANGED <<linkVars, session, current_status, wifi>>

MqttDisconnected ==
  /\ mqtt = MQTT_EVENT_DISCONNECTED
  /\ bits' = bits \ {MQTT_CONNECTED_BIT}
  /\ current_status' = NETWORK_STATUS_DISCONNECTED
  /\ mqtt' = "callback"
  /\ UNCHANGED <<linkVars, session, wifi>>

MqttError ==
  /\ mqtt = MQTT_EVENT_ERROR
  /\ current_status' = NETWORK_STATUS_ERROR
  /\ mqtt' = "callback"
  /\ UNCHANGED <<linkVars, session, bits, wifi>>

MqttCallback ==
  /\ mqtt = "callback"
  /\ mqtt' = "idle"
  /\ UNCHANGED <<linkVars, session, bits, current_status, wifi>>

-----------------------------------------------------------------------------

WifiHandler == HandleStart \/ HandleGotIp \/ LostConnect \/ LostRecord \/ WifiCallback
MqttHandler == MqttConnected \/ MqttDisconnected \/ MqttError \/ MqttCallback

Next == DriverStep \/ MqttClient \/ WifiHandler \/ MqttHandler

Spec == Init /\ [][Next]_vars

\* Both tasks go on.  Neither the driver nor the broker owes anything.
FairSpec == Spec /\ WF_vars(WifiHandler) /\ WF_vars(MqttHandler)

-----------------------------------------------------------------------------
(* Properties *)

\* Every variable stays in its type; NETWORK_STATUS_CONNECTING is declared and never
\* reported.
TypeOK ==
  /\ link \in Links
  /\ events \in Seq(Events) /\ Len(events) <= MAX_EVENTS
  /\ session \in {"down", "up"}
  /\ bits \subseteq Bits
  /\ current_status \in Statuses
  /\ wifi \in {"idle", "clear", "callback"}
  /\ mqtt \in {"idle", "callback"} \cup MqttEvents

\* When no event is left to handle the bits say what link and session are, although
\* the link is asked for again, and may come up, before its loss is recorded.
BitsMatch ==
  /\ events = <<>> => (WIFI_CONNECTED_BIT \in bits <=> link = "up")
  /\ mqtt \notin MqttEvents => (MQTT_CONNECTED_BIT \in bits <=> session = "up")

\* The status says connected only while there is a session or its end is being
\* handled, whatever the WiFi handler writes in between.
ConnectedHasSession ==
  current_status = NETWORK_STATUS_CONNECTED =>
    session = "up" \/ mqtt = MQTT_EVENT_DISCONNECTED

\* A link that is down and not being connected has an event outstanding for which
\* the handler will ask for it: no loss, however it meets the handler, leaves it
\* down without another esp_wifi_connect, unless the driver has refused one.
NoLostRetry ==
  link = "idle" =>
    \E i \in DOMAIN events :
      /\ events[i] \in {WIFI_EVENT_STA_START, WIFI_EVENT_STA_DISCONNECTED}
      /\ i = 1 => wifi = "idle"

\* Every loss of the link is followed by another esp_wifi_connect.  One that the
\* driver refuses is the last: the handler does not look at its result.
Reconnects == link = "idle" ~> link # "idle"
=============================================================================
