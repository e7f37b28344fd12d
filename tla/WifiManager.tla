----------------------------- MODULE WifiManager -----------------------------
(***************************************************************************)
(* The Wi-Fi manager (components/wifi_manager): at boot a controller task  *)
(* tries the saved network and falls back to an access point, event        *)
(* handlers retry lost connections, and the web server scans and saves new *)
(* credentials.                                                            *)
(*                                                                         *)
(* Three tasks share struct wifi_manager: the controller, which ends once  *)
(* it has decided; the event loop, which runs the handlers one event after *)
(* the other, some time after the driver posted it; and the httpd task.    *)
(* Between two calls into the driver the others run.  Time is abstracted:  *)
(* the wait of 20 s may end at any moment, and a connection attempt may    *)
(* take any time.                                                          *)
(*                                                                         *)
(* AnyBit, OneRetryMore, KeepsBudget and WaitsForBits are mistaken         *)
(* versions of what follows them, to try the properties against.           *)
(***************************************************************************)
EXTENDS Integers, Sequences

CONSTANTS
    Ssid, Pass,         \* what a user may save; an open network has the
                        \* empty password
    None,               \* a string missing in NVS, or the initial one in RAM
    ApName,             \* midifoot-XXXX
    Unreadable,         \* pairs too long for the buffers of load_credentials
    Accepted,           \* pairs some router accepts, as apply_sta_config cuts
                        \* them: to 31 and 63 bytes
    WIFI_MGR_MAX_STA_TRIES

Pair == [ssid : Ssid, pass : Pass]
Stored == [ssid : Ssid \cup {None}, pass : Pass \cup {None}]
NoCreds == [ssid |-> None, pass |-> None]

ASSUME WifiAssumption ==
    /\ WIFI_MGR_MAX_STA_TRIES \in Nat \ {0}
    /\ None \notin Ssid \cup Pass \cup {ApName}
    /\ ApName \notin Ssid
    /\ Accepted \subseteq Pair
    /\ Unreadable \subseteq Pair

VARIABLES
    nvs,            \* the credentials in flash
    post,           \* the POST of credentials under way, or NoCreds
    restarting,     \* deferred_restart_task is waiting
    ctl,            \* where controller_task is
    creds,          \* what it has loaded
    state, ssid, ip, mdns_started, sta_attempts, bits,
    \* External: the driver, its queue of events and the air.
    mode, started, link, events,
    \* History, for the properties only:
    losses          \* failed or lost connections since the budget was renewed

mgr_vars == <<state, ssid, ip, mdns_started, sta_attempts, bits>>
radio_vars == <<mode, started, link, events>>
web_vars == <<nvs, post, restarting>>
vars == <<nvs, post, restarting, ctl, creds, state, ssid, ip, mdns_started,
          sta_attempts, bits, mode, started, link, events, losses>>

Event == {"STA_START", "STA_DISCONNECTED", "STA_GOT_IP"}
Step == {"load", "start_sta", "wait", "connected", "stop_sta", "ap", "start_ap", "ended"}

TypeOK ==
    /\ nvs \in Stored
    /\ post \in Pair \cup {NoCreds}
    /\ restarting \in BOOLEAN
    /\ ctl \in Step
    /\ creds \in Pair \cup {NoCreds}
    /\ state \in {"OFF", "STA_CONNECTING", "STA_CONNECTED", "AP"}
    /\ ssid \in Ssid \cup {None, ApName}
    /\ ip \in {None, "sta", "ap"}
    /\ mdns_started \in BOOLEAN
    /\ sta_attempts \in 0 .. WIFI_MGR_MAX_STA_TRIES
    /\ bits \subseteq {"STA_GOT_IP_BIT", "STA_DISCONNECTED_BIT"}
    /\ mode \in {"NULL", "STA", "AP", "APSTA"}
    /\ started \in BOOLEAN
    /\ link \in {"down", "connecting", "up"}
    /\ events \in Seq(Event)
    /\ losses \in Nat

-------------------------------------------------------------------------------
(* Boot *)

(* What a restart leaves of struct wifi_manager, the driver and the tasks. *)
Restarted ==
    /\ post' = NoCreds
    /\ restarting' = FALSE
    /\ ctl' = "load"
    /\ creds' = NoCreds
    /\ state' = "OFF"
    /\ ssid' = None
    /\ ip' = None
    /\ mdns_started' = FALSE
    /\ sta_attempts' = 0
    /\ bits' = {}
    /\ mode' = "NULL"
    /\ started' = FALSE
    /\ link' = "down"
    /\ events' = <<>>
    /\ losses' = 0

Init ==
    /\ nvs \in Stored
    /\ post = NoCreds
    /\ restarting = FALSE
    /\ ctl = "load"
    /\ creds = NoCreds
    /\ state = "OFF"
    /\ ssid = None
    /\ ip = None
    /\ mdns_started = FALSE
    /\ sta_attempts = 0
    /\ bits = {}
    /\ mode = "NULL"
    /\ started = FALSE
    /\ link = "down"
    /\ events = <<>>
    /\ losses = 0

-------------------------------------------------------------------------------
(* controller_task *)

(* load_credentials finds both strings, and they fit. *)
HaveCreds == nvs \in Pair \ Unreadable

LoadCredentials ==
    /\ ctl = "load"
    /\ IF HaveCreds
       THEN /\ creds' = nvs
            /\ ssid' = nvs.ssid
            /\ state' = "STA_CONNECTING"
            /\ mode' = "STA"
            /\ ctl' = "start_sta"
       ELSE /\ ctl' = "ap"
            /\ UNCHANGED <<creds, ssid, state, mode>>
    /\ UNCHANGED <<web_vars, ip, mdns_started, sta_attempts, bits, started,
                   link, events, losses>>

StartStation ==
    /\ ctl = "start_sta"
    /\ started' = TRUE
    /\ events' = Append(events, "STA_START")
    /\ ctl' = "wait"
    /\ UNCHANGED <<web_vars, creds, mgr_vars, mode, link, losses>>

AnyBit == bits # {}

GotIp == "STA_GOT_IP_BIT" \in bits

WaitsForBits ==
    /\ ctl = "wait"
    /\ \A k \in DOMAIN events : events[k] # "STA_START"
    /\ bits # {}
    /\ ctl' = IF GotIp THEN "connected" ELSE "stop_sta"
    /\ UNCHANGED <<web_vars, creds, mgr_vars, radio_vars, losses>>

(* xEventGroupWaitBits returns for a bit, or because 20 s are over; what    *)
(* follows depends on the bits of this moment.  20 s are long enough for    *)
(* the event loop to get at the STA_START of this boot.                     *)
WaitEnds ==
    /\ ctl = "wait"
    /\ \A k \in DOMAIN events : events[k] # "STA_START"
    /\ ctl' = IF GotIp THEN "connected" ELSE "stop_sta"
    /\ UNCHANGED <<web_vars, creds, mgr_vars, radio_vars, losses>>

StartMdns == mdns_started' \in {mdns_started, TRUE}

Connected ==
    /\ ctl = "connected"
    /\ state' = "STA_CONNECTED"
    /\ StartMdns
    /\ ctl' = "ended"
    /\ UNCHANGED <<web_vars, creds, ssid, ip, sta_attempts, bits, radio_vars, losses>>

(* esp_wifi_stop: a connection, or an attempt, ends with an event. *)
StopStation ==
    /\ ctl = "stop_sta"
    /\ started' = FALSE
    /\ link' = "down"
    /\ IF link = "down"
       THEN UNCHANGED <<events, losses>>
       ELSE events' = Append(events, "STA_DISCONNECTED") /\ losses' = losses + 1
    /\ state' = "OFF"
    /\ ctl' = "ap"
    /\ UNCHANGED <<web_vars, creds, ssid, ip, mdns_started, sta_attempts, bits, mode>>

(* apply_ap_config *)
ConfigureAccessPoint ==
    /\ ctl = "ap"
    /\ ssid' = ApName
    /\ mode' = "AP"
    /\ ip' \in {ip, "ap"}
    /\ ctl' = "start_ap"
    /\ UNCHANGED <<web_vars, creds, state, mdns_started, sta_attempts, bits,
                   started, link, events, losses>>

StartAccessPoint ==
    /\ ctl = "start_ap"
    /\ started' = TRUE
    /\ state' = "AP"
    /\ StartMdns
    /\ ctl' = "ended"
    /\ UNCHANGED <<web_vars, creds, ssid, ip, sta_attempts, bits, mode, link,
                   events, losses>>

Controller ==
    \/ LoadCredentials
    \/ StartStation
    \/ WaitEnds
    \/ Connected
    \/ StopStation
    \/ ConfigureAccessPoint
    \/ StartAccessPoint

-------------------------------------------------------------------------------
(* The event handlers *)

Stationed == started /\ mode \in {"STA", "APSTA"}

(* esp_wifi_connect; its errors are not looked at. *)
Connect ==
    link' = IF Stationed /\ creds # NoCreds /\ link = "down" THEN "connecting" ELSE link

Handles(event) ==
    /\ events # <<>>
    /\ Head(events) = event
    /\ events' = Tail(events)

OnStaStart ==
    /\ Handles("STA_START")
    /\ sta_attempts' = 1
    /\ Connect
    /\ losses' = 0
    /\ UNCHANGED <<web_vars, ctl, creds, state, ssid, ip, mdns_started, bits,
                   mode, started>>

OneRetryMore == sta_attempts <= WIFI_MGR_MAX_STA_TRIES

MayRetry == sta_attempts < WIFI_MGR_MAX_STA_TRIES

OnDisconnected ==
    /\ Handles("STA_DISCONNECTED")
    /\ IF MayRetry
       THEN sta_attempts' = sta_attempts + 1 /\ Connect /\ UNCHANGED bits
       ELSE /\ bits' = bits \cup {"STA_DISCONNECTED_BIT"}
            /\ UNCHANGED <<sta_attempts, link>>
    /\ UNCHANGED <<web_vars, ctl, creds, state, ssid, ip, mdns_started, mode,
                   started, losses>>

KeepsBudget == sta_attempts

(* "a runtime disconnect later gets a full round of reconnect attempts" *)
RenewedBudget == 0

OnGotIp ==
    /\ Handles("STA_GOT_IP")
    /\ ip' = "sta"
    /\ sta_attempts' = RenewedBudget
    /\ bits' = bits \cup {"STA_GOT_IP_BIT"}
    /\ UNCHANGED <<web_vars, ctl, creds, state, ssid, mdns_started, mode,
                   started, link, losses>>

EventLoop == OnStaStart \/ OnDisconnected \/ OnGotIp

-------------------------------------------------------------------------------
(* The driver and the air: external *)

(* The router accepts the station and gives it an address. *)
LinkUp ==
    /\ link = "connecting"
    /\ creds \in Accepted
    /\ link' = "up"
    /\ events' = Append(events, "STA_GOT_IP")
    /\ losses' = 0
    /\ UNCHANGED <<web_vars, ctl, creds, mgr_vars, mode, started>>

(* An attempt fails, or the router goes away. *)
LinkDown ==
    /\ link # "down"
    /\ link' = "down"
    /\ events' = Append(events, "STA_DISCONNECTED")
    /\ losses' = losses + 1
    /\ UNCHANGED <<web_vars, ctl, creds, mgr_vars, mode, started>>

-------------------------------------------------------------------------------
(* The httpd task *)

(* Somebody can reach the web server. *)
Reachable == started /\ (mode \in {"AP", "APSTA"} \/ link = "up")

(* wifi_manager_scan: switching the station on makes the driver start it.   *)
(* Nothing else it does changes a state.  The user has had to join the      *)
(* access point first; by then the event loop has caught up.                *)
Scan ==
    /\ post = NoCreds
    /\ Reachable
    /\ mode = "AP"
    /\ events = <<>>
    /\ mode' = "APSTA"
    /\ events' = Append(events, "STA_START")
    /\ UNCHANGED <<web_vars, ctl, creds, mgr_vars, started, link, losses>>

(* wifi_manager_set_sta_credentials: the first nvs_set_str. *)
SaveSsid(pair) ==
    /\ post = NoCreds
    /\ Reachable
    /\ post' = pair
    /\ nvs' = [nvs EXCEPT !.ssid = pair.ssid]
    /\ UNCHANGED <<restarting, ctl, creds, mgr_vars, radio_vars, losses>>

(* The second one, the commit, the answer and the restart it announces. *)
SavePass ==
    /\ post # NoCreds
    /\ nvs' = [nvs EXCEPT !.pass = post.pass]
    /\ post' = NoCreds
    /\ restarting' = TRUE
    /\ UNCHANGED <<ctl, creds, mgr_vars, radio_vars, losses>>

(* The second or the commit fails: "save failed", and the first stays. *)
SaveFails ==
    /\ post # NoCreds
    /\ nvs' \in {nvs, [nvs EXCEPT !.pass = post.pass]}
    /\ post' = NoCreds
    /\ UNCHANGED <<restarting, ctl, creds, mgr_vars, radio_vars, losses>>

(* deferred_restart_task: httpd_stop waits for the request being served. *)
Restart ==
    /\ restarting
    /\ post = NoCreds
    /\ Restarted
    /\ UNCHANGED nvs

PowerLoss == Restarted /\ UNCHANGED nvs

Next ==
    \/ Controller
    \/ EventLoop
    \/ LinkUp
    \/ LinkDown
    \/ Scan
    \/ \E pair \in Pair : SaveSsid(pair)
    \/ SavePass
    \/ SaveFails
    \/ Restart
    \/ PowerLoss

Spec == Init /\ [][Next]_vars

(* The two tasks run, and the wait of the controller has a timeout.         *)
(* Nothing is assumed about the driver, the air or the users.               *)
FairSpec == Spec /\ WF_vars(Controller) /\ WF_vars(EventLoop)

-------------------------------------------------------------------------------
(* Properties *)

(* After every boot the device becomes reachable, through the network or    *)
(* through its own access point, unless it loses power before: whatever the *)
(* flash holds, be it the halves of two saves, whatever the router does,    *)
(* and even if the driver never reports anything (controller_task).         *)
BootComesUp ==
    \/ []<>(state \in {"STA_CONNECTED", "AP"})
    \/ []<><<PowerLoss \/ Restart>>_vars

(* What the status page says is what the radio does: an access point is     *)
(* announced only while it is up, scans included, and a connection only     *)
(* with the network's name and the address it gave.                         *)
StatusIsTrue ==
    /\ state = "AP" => started /\ mode \in {"AP", "APSTA"} /\ ssid = ApName
    /\ state = "STA_CONNECTED" =>
          /\ Stationed
          /\ ssid = creds.ssid
          /\ ip = "sta"

(* The station is given up, and the network with it, only after as many     *)
(* failures in a row as there are tries: neither a late event nor a         *)
(* connection that was lost again shortens the round (lines 55-66, 89-91).  *)
FullRound ==
    [][(bits' \ bits) = {"STA_DISCONNECTED_BIT"} =>
          losses >= WIFI_MGR_MAX_STA_TRIES]_vars

(* Line 62: "STA gave up after %d attempts - falling back to AP". *)
GivingUpFallsBack ==
    ("STA_DISCONNECTED_BIT" \in bits) ~> (state = "AP" \/ ctl = "load")
===============================================================================
