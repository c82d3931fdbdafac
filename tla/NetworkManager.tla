--------------------------- MODULE NetworkManager ---------------------------
(***************************************************************************)
(* network_manager.c: an event handler turns the events of the WiFi driver *)
(* into two bits, and a monitor task turns the bits into a status and      *)
(* tries to reconnect.                                                     *)
(*                                                                         *)
(* The handler runs in the task of the event loop; between its two changes *)
(* of the bits the monitor may read them.  The monitor waits for a bit     *)
(* without clearing it, works with the bits it read, and delays after a    *)
(* failure.  network_manager_ctx.lock is taken by the monitor alone: no    *)
(* other function that is defined takes it.                                *)
(*                                                                         *)
(* The model begins with network_manager_init done, the monitor running    *)
(* and WiFi started.  network_manager_start and _stop, which would create  *)
(* and end the monitor, are declared and have no definition.               *)
(***************************************************************************)
EXTENDS WifiLink

CONSTANT MAX_ATTEMPTS        (* the configurations have at most so many    *)

ASSUME AttemptsAssumption == MAX_ATTEMPTS \in Nat

NETWORK_STATUS_DISCONNECTED == "disconnected"
NETWORK_STATUS_CONNECTED    == "connected"
NETWORK_STATUS_ERROR        == "error"
Statuses == {NETWORK_STATUS_DISCONNECTED, NETWORK_STATUS_CONNECTED, NETWORK_STATUS_ERROR}

WIFI_CONNECTED_BIT == "wifi_connected"
WIFI_FAIL_BIT      == "wifi_fail"
Bits == {WIFI_CONNECTED_BIT, WIFI_FAIL_BIT}

Configs == [auto_reconnect : BOOLEAN, max_reconnect_attempts : 0..MAX_ATTEMPTS]

VARIABLES
  config,                    (* network_manager_ctx.config                 *)
  bits,                      (* the bits set in event_group                *)
  current_status,
  reconnect_attempts,
  handler,                   (* where wifi_event_handler is                *)
  monitor,                   (* where network_monitor_task is              *)
  seen,                      (* the bits it has read                       *)
  tried                      (* connections it began since the last status *)
                             (* CONNECTED, for the properties              *)

statusVars == <<current_status, reconnect_attempts, tried>>
vars == <<linkVars, config, bits, statusVars, handler, monitor, seen>>

Init ==
  /\ LinkInit
  /\ config \in Configs
  /\ bits = {}
  /\ current_status = NETWORK_STATUS_DISCONNECTED
  /\ reconnect_attempts = 0
  /\ handler = "idle"
  /\ monitor = "wait"
  /\ seen  = {}
  /\ tried = 0

-----------------------------------------------------------------------------
(* The driver, and wifi_event_handler *)

DriverStep ==
  /\ Driver
  /\ UNCHANGED <<config, bits, statusVars, handler, monitor, seen>>

Handling(e) == events # <<>> /\ Head(events) = e

HandleStart ==
  /\ Handling(WIFI_EVENT_STA_START)
  /\ esp_wifi_connect
  /\ events' = Tail(events)
  /\ UNCHANGED <<config, bits, statusVars, handler, monitor, seen>>

\* The bit an event sets, and the one it then clears.
BitSet(e) == IF e = IP_EVENT_STA_GOT_IP THEN WIFI_CONNECTED_BIT ELSE WIFI_FAIL_BIT

\* Mutant: a disconnection leaves WIFI_CONNECTED_BIT as it is.
BitClearedByIp(e) == IF e = IP_EVENT_STA_GOT_IP THEN {WIFI_FAIL_BIT} ELSE {}

BitCleared(e) == IF e = IP_EVENT_STA_GOT_IP THEN {WIFI_FAIL_BIT} ELSE {WIFI_CONNECTED_BIT}

SetBit(e) ==
  /\ handler = "idle"
  /\ e # WIFI_EVENT_STA_START
  /\ Handling(e)
  /\ bits' = bits \cup {BitSet(e)}
  /\ handler' = "clear"
  /\ UNCHANGED <<linkVars, config, statusVars, monitor, seen>>

ClearBit(e) ==
  /\ handler = "clear"
  /\ Handling(e)
  /\ bits' = bits \ BitCleared(e)
  /\ events' = Tail(events)
  /\ handler' = "idle"
  /\ UNCHANGED <<link, config, statusVars, monitor, seen>>

-----------------------------------------------------------------------------
(* network_monitor_task *)

\* xEventGroupWaitBits, which leaves the bits set.
ReadBits ==
  /\ monitor = "wait"
  /\ bits # {}
  /\ seen' = bits
  /\ monitor' = "work"
  /\ UNCHANGED <<linkVars, config, bits, statusVars, handler>>

\* The status callback, and then a delay if the failure bit was read.
EndOfRound ==
  /\ monitor = "work"
  /\ monitor' = IF WIFI_FAIL_BIT \in seen THEN "delay" ELSE "wait"
  /\ seen' = {}
  /\ UNCHANGED <<events, config, bits, handler>>

Connected ==
  /\ EndOfRound
  /\ WIFI_CONNECTED_BIT \in seen
  /\ current_status' = NETWORK_STATUS_CONNECTED
  /\ reconnect_attempts' = 0
  /\ tried' = 0
  /\ UNCHANGED link

MayReconnect ==
  config.auto_reconnect /\ reconnect_attempts < config.max_reconnect_attempts

Reconnect ==
  /\ EndOfRound
  /\ WIFI_CONNECTED_BIT \notin seen
  /\ MayReconnect
  /\ current_status' = NETWORK_STATUS_DISCONNECTED
  /\ reconnect_attempts' = reconnect_attempts + 1
  /\ esp_wifi_connect
  /\ tried' = IF Down THEN tried + 1 ELSE tried

\* Mutant: the status stays as it is when the attempts are used up.
GiveUpSilently ==
  /\ EndOfRound
  /\ WIFI_CONNECTED_BIT \notin seen
  /\ ~MayReconnect
  /\ UNCHANGED <<link, statusVars>>

\* "Maximum reconnection attempts reached".
GiveUp ==
  /\ EndOfRound
  /\ WIFI_CONNECTED_BIT \notin seen
  /\ ~MayReconnect
  /\ current_status' = NETWORK_STATUS_ERROR
  /\ UNCHANGED <<link, reconnect_attempts, tried>>

DelayEnds ==
  /\ monitor = "delay"
  /\ monitor' = "wait"
  /\ UNCHANGED <<linkVars, config, bits, statusVars, handler, seen>>

-----------------------------------------------------------------------------

Handler == HandleStart \/ \E e \in Events : SetBit(e) \/ ClearBit(e)
Monitor == ReadBits \/ Connected \/ Reconnect \/ GiveUp \/ DelayEnds

Next == DriverStep \/ Handler \/ Monitor

Spec == Init /\ [][Next]_vars

\* The two tasks run and a delay ends.  The driver may do nothing for ever.
Fairness == WF_vars(Handler) /\ WF_vars(Monitor)

FairSpec == Spec /\ Fairness

-----------------------------------------------------------------------------
(* Properties *)

\* Every variable stays in its type, and no more reconnections are counted than
\* the configuration allows.
TypeOK ==
  /\ link \in Links
  /\ events \in Seq(Events) /\ Len(events) <= MAX_EVENTS
  /\ config \in Configs
  /\ bits \subseteq Bits /\ seen \subseteq Bits
  /\ current_status \in Statuses
  /\ reconnect_attempts \in 0..config.max_reconnect_attempts
  /\ handler \in {"idle", "clear"}
  /\ monitor \in {"wait", "work", "delay"}
  /\ tried \in 0..reconnect_attempts

\* When no event is left to handle the bits say what the link is: whatever the
\* order in which it went up and down, no bit of an earlier time survives.
BitsMatchLink ==
  events = <<>> =>
    IF link = "up" THEN bits = {WIFI_CONNECTED_BIT} ELSE bits \subseteq {WIFI_FAIL_BIT}

\* The status follows the link: a link that stays up is in the end reported as
\* connected, and one that stays down after a failure ends in an error, even if
\* the monitor read the bits between the two changes of the handler.
StatusSettles ==
  /\ <>[](link = "up") => <>[](current_status = NETWORK_STATUS_CONNECTED)
  /\ <>[](link # "up") =>
       <>[](current_status = IF WIFI_FAIL_BIT \in bits THEN NETWORK_STATUS_ERROR
                             ELSE NETWORK_STATUS_DISCONNECTED)

\* "Maximum reconnection attempts reached": when the monitor gives up it has made
\* as many attempts to connect as the configuration asks for.  NOT a property of
\* the code, which reads one failure again after every interval and counts an
\* attempt each time; no run checks it.
MaximumReached ==
  current_status = NETWORK_STATUS_ERROR /\ config.auto_reconnect =>
    tried = config.max_reconnect_attempts
=============================================================================
