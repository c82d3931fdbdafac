------------------------------ MODULE WifiLink ------------------------------
(***************************************************************************)
(* The WiFi driver and the event loop of ESP-IDF, as far as the network    *)
(* parts see them: a link that is connected on request, may fail to be or  *)
(* be lost at any time, and posts what happened to it, in order.  A        *)
(* request may also be refused: esp_wifi_connect then returns an error,    *)
(* which neither part reads, and no event follows.                         *)
(***************************************************************************)
EXTENDS Naturals, Sequences

CONSTANT MAX_EVENTS          (* length of the event loop's queue           *)

ASSUME EventsAssumption == MAX_EVENTS \in Nat \ {0}

WIFI_EVENT_STA_START        == "sta_start"
WIFI_EVENT_STA_DISCONNECTED == "sta_disconnected"
IP_EVENT_STA_GOT_IP         == "sta_got_ip"

Events == {WIFI_EVENT_STA_START, WIFI_EVENT_STA_DISCONNECTED, IP_EVENT_STA_GOT_IP}

VARIABLES
  link,                      (* one of Links                               *)
  events                     (* posted and not handled yet, oldest first   *)

linkVars == <<link, events>>

\* A refused link is idle, and no event will tell of it.
Links == {"idle", "connecting", "up", "refused"}

Down == link \in {"idle", "refused"}

\* esp_wifi_start has been called.
LinkInit == link = "idle" /\ events = <<WIFI_EVENT_STA_START>>

\* esp_wifi_connect has no effect on a link that is up or being connected.
esp_wifi_connect == IF Down THEN link' \in {"connecting", "refused"} ELSE UNCHANGED link

Post(e) == Len(events) < MAX_EVENTS /\ events' = Append(events, e)

GetIp         == link = "connecting" /\ link' = "up" /\ Post(IP_EVENT_STA_GOT_IP)
FailToConnect == link = "connecting" /\ link' = "idle" /\ Post(WIFI_EVENT_STA_DISCONNECTED)
LoseLink      == link = "up" /\ link' = "idle" /\ Post(WIFI_EVENT_STA_DISCONNECTED)

Driver == GetIp \/ FailToConnect \/ LoseLink
=============================================================================
