--------------------------- MODULE WifiManagerProofs ---------------------------
(***************************************************************************)
(* Theorems about WifiManager, for any networks, passwords and number of   *)
(* tries.  What the status page says follows from where the controller is; *)
(* the event handlers and the scan disturb it only as far as StatusInv     *)
(* allows.                                                                 *)
(***************************************************************************)
EXTENDS WifiManager, SequenceTheorems, TLAPS

(* What the controller has done when it is where it is. *)
ControllerInv ==
    /\ ctl \in {"load", "ap", "start_ap"} => state = "OFF" /\ ~started
    /\ ctl \in {"start_sta", "wait", "connected", "stop_sta"} =>
          /\ state = "STA_CONNECTING"
          /\ mode = "STA"
          /\ ssid = creds.ssid
    /\ ctl \in {"wait", "connected"} => started
    /\ ctl = "start_ap" => mode = "AP" /\ ssid = ApName
    /\ ctl = "ended" => state \in {"AP", "STA_CONNECTED"}

(* The bit is set after the address has been stored, and only the access    *)
(* point replaces the address.                                              *)
AddressInv ==
    /\ ctl = "connected" \/ state = "STA_CONNECTED" => GotIp
    /\ ctl \in {"load", "start_sta", "wait", "connected"} \/ state = "STA_CONNECTED" =>
          (GotIp => ip = "sta")

StatusInv ==
    /\ ControllerInv
    /\ AddressInv
    /\ state = "AP" => started /\ mode \in {"AP", "APSTA"} /\ ssid = ApName
    /\ state = "STA_CONNECTED" => started /\ mode = "STA" /\ ssid = creds.ssid

LEMMA StatusInit == Init => StatusInv
  BY DEF Init, StatusInv, ControllerInv, AddressInv, GotIp

LEMMA StatusRestarted == Restarted => StatusInv'
  BY DEF Restarted, StatusInv, ControllerInv, AddressInv, GotIp

(* Most of the other tasks' steps touch nothing of this. *)
LEMMA StatusUntouched ==
  ASSUME StatusInv, UNCHANGED <<ctl, creds, state, ssid, ip, bits, mode, started>>
  PROVE  StatusInv'
BY DEF StatusInv, ControllerInv, AddressInv, GotIp

LEMMA StatusController == StatusInv /\ Controller => StatusInv'
<1> SUFFICES ASSUME StatusInv, Controller
             PROVE  StatusInv'
    OBVIOUS
<1> USE DEF StatusInv, ControllerInv, AddressInv, GotIp
<1>1. CASE LoadCredentials
  BY <1>1 DEF LoadCredentials
<1>2. CASE StartStation
  BY <1>2 DEF StartStation, mgr_vars
<1>3. CASE WaitEnds
  BY <1>3 DEF WaitEnds, mgr_vars, radio_vars
<1>4. CASE Connected
  BY <1>4 DEF Connected, radio_vars
<1>5. CASE StopStation
  BY <1>5 DEF StopStation
<1>6. CASE ConfigureAccessPoint
  BY <1>6 DEF ConfigureAccessPoint
<1>7. CASE StartAccessPoint
  BY <1>7 DEF StartAccessPoint
<1>. QED
  BY <1>1, <1>2, <1>3, <1>4, <1>5, <1>6, <1>7 DEF Controller

LEMMA StatusEventLoop == StatusInv /\ EventLoop => StatusInv'
<1> SUFFICES ASSUME StatusInv, EventLoop
             PROVE  StatusInv'
    OBVIOUS
<1> USE DEF StatusInv, ControllerInv, AddressInv, GotIp
<1>1. CASE OnStaStart
  BY <1>1 DEF OnStaStart
<1>2. CASE OnDisconnected
  BY <1>2 DEF OnDisconnected
<1>3. CASE OnGotIp
  BY <1>3 DEF OnGotIp
<1>. QED
  BY <1>1, <1>2, <1>3 DEF EventLoop

LEMMA StatusStep == StatusInv /\ [Next]_vars => StatusInv'
<1> SUFFICES ASSUME StatusInv, [Next]_vars
             PROVE  StatusInv'
    OBVIOUS
<1>1. CASE Controller
  BY <1>1, StatusController
<1>2. CASE EventLoop
  BY <1>2, StatusEventLoop
<1>3. CASE Restart \/ PowerLoss
  BY <1>3, StatusRestarted DEF Restart, PowerLoss
<1>4. CASE LinkUp
  BY <1>4, StatusUntouched DEF LinkUp, mgr_vars
<1>5. CASE LinkDown
  BY <1>5, StatusUntouched DEF LinkDown, mgr_vars
<1>6. CASE Scan
  BY <1>6 DEF Scan, Reachable, mgr_vars, StatusInv, ControllerInv, AddressInv, GotIp
<1>7. CASE SavePass
  BY <1>7, StatusUntouched DEF SavePass, mgr_vars, radio_vars
<1>8. CASE SaveFails
  BY <1>8, StatusUntouched DEF SaveFails, mgr_vars, radio_vars
<1>9. ASSUME NEW pair \in Pair, SaveSsid(pair)
      PROVE  StatusInv'
  BY <1>9, StatusUntouched DEF SaveSsid, mgr_vars, radio_vars
<1>10. CASE UNCHANGED vars
  BY <1>10, StatusUntouched DEF vars
<1>. QED
  BY <1>1, <1>2, <1>3, <1>4, <1>5, <1>6, <1>7, <1>8, <1>9, <1>10
     DEF Next

(* The status page announces an access point only while it is up, and a     *)
(* connection only with the network's own name and address.                 *)
THEOREM StatusTrue == Spec => []StatusIsTrue
<1>1. StatusInv => StatusIsTrue
  BY DEF StatusInv, AddressInv, StatusIsTrue, Stationed
<1>. QED
  BY <1>1, StatusInit, StatusStep, PTL DEF Spec

-------------------------------------------------------------------------------
LEMMA NothingYet == 0 \in 0 .. WIFI_MGR_MAX_STA_TRIES /\ <<>> \in Seq(Event)
  BY WifiAssumption

LEMMA TypeRestarted == TypeOK /\ Restarted /\ UNCHANGED nvs => TypeOK'
<1>1. Restarted => events' \in Seq(Event)
  BY NothingYet, Zenon DEF Restarted
<1>2. Restarted => losses' \in Nat
  BY DEF Restarted
<1>. QED
  BY <1>1, <1>2, NothingYet DEF TypeOK, Restarted, Step

LEMMA HandlesTyped ==
  ASSUME TypeOK, NEW event, Handles(event)
  PROVE  events' \in Seq(Event)
BY DEF TypeOK, Handles

LEMMA ConnectTyped == TypeOK /\ Connect => link' \in {"down", "connecting", "up"}
  BY DEF TypeOK, Connect

LEMMA TypeController == TypeOK /\ Controller => TypeOK'
<1> SUFFICES ASSUME TypeOK, Controller
             PROVE  TypeOK'
    OBVIOUS
<1> USE DEF TypeOK, web_vars, mgr_vars, radio_vars, Step
<1>1. CASE LoadCredentials
  BY <1>1 DEF LoadCredentials, HaveCreds, Pair
<1>2. CASE StartStation
  BY <1>2 DEF StartStation, Event
<1>3. CASE WaitEnds
  BY <1>3 DEF WaitEnds
<1>4. CASE Connected
  BY <1>4 DEF Connected, StartMdns
<1>5. CASE StopStation
  <2>1. events' \in Seq(Event) /\ losses' \in Nat
    BY <1>5 DEF StopStation, Event
  <2>2. UNCHANGED <<web_vars, creds, ssid, ip, mdns_started, sta_attempts, bits, mode>>
    BY <1>5 DEF StopStation
  <2>. QED
    BY <1>5, <2>1, <2>2 DEF StopStation
<1>6. CASE ConfigureAccessPoint
  BY <1>6 DEF ConfigureAccessPoint
<1>7. CASE StartAccessPoint
  BY <1>7 DEF StartAccessPoint, StartMdns
<1>. QED
  BY <1>1, <1>2, <1>3, <1>4, <1>5, <1>6, <1>7 DEF Controller

LEMMA TypeEventLoop == TypeOK /\ EventLoop => TypeOK'
<1> SUFFICES ASSUME TypeOK, EventLoop
             PROVE  TypeOK'
    OBVIOUS
<1> USE WifiAssumption DEF TypeOK, web_vars, Step
<1>1. CASE OnStaStart
  BY <1>1, HandlesTyped, ConnectTyped DEF OnStaStart
<1>2. CASE OnDisconnected
  <2>1. events' \in Seq(Event)
    BY <1>2, HandlesTyped DEF OnDisconnected
  <2>2. sta_attempts' \in 0 .. WIFI_MGR_MAX_STA_TRIES
    BY <1>2 DEF OnDisconnected, MayRetry
  <2>3. link' \in {"down", "connecting", "up"}
    BY <1>2, ConnectTyped DEF OnDisconnected
  <2>4. bits' \subseteq {"STA_GOT_IP_BIT", "STA_DISCONNECTED_BIT"}
    BY <1>2 DEF OnDisconnected
  <2>. QED
    BY <1>2, <2>1, <2>2, <2>3, <2>4 DEF OnDisconnected
<1>3. CASE OnGotIp
  BY <1>3, HandlesTyped DEF OnGotIp, RenewedBudget
<1>. QED
  BY <1>1, <1>2, <1>3 DEF EventLoop

LEMMA TypeStep == TypeOK /\ [Next]_vars => TypeOK'
<1> SUFFICES ASSUME TypeOK, [Next]_vars
             PROVE  TypeOK'
    OBVIOUS
<1>1. CASE Controller
  BY <1>1, TypeController
<1>2. CASE EventLoop
  BY <1>2, TypeEventLoop
<1>3. CASE Restart \/ PowerLoss
  BY <1>3, TypeRestarted DEF Restart, PowerLoss
<1> USE DEF TypeOK, web_vars, mgr_vars, radio_vars, Step
<1>4. CASE LinkUp
  BY <1>4 DEF LinkUp, Event
<1>5. CASE LinkDown
  BY <1>5 DEF LinkDown, Event
<1>6. CASE Scan
  BY <1>6 DEF Scan, Event
<1>7. CASE SavePass
  BY <1>7 DEF SavePass, Pair, Stored
<1>8. CASE SaveFails
  BY <1>8 DEF SaveFails, Pair, Stored
<1>9. ASSUME NEW pair \in Pair, SaveSsid(pair)
      PROVE  TypeOK'
  BY <1>9 DEF SaveSsid, Pair, Stored
<1>10. CASE UNCHANGED vars
  BY <1>10 DEF vars
<1>. QED
  BY <1>1, <1>2, <1>3, <1>4, <1>5, <1>6, <1>7, <1>8, <1>9, <1>10 DEF Next

LEMMA TypeInit == Init => TypeOK
<1>1. Init => events \in Seq(Event)
  BY NothingYet, Zenon DEF Init
<1>2. Init => losses \in Nat
  BY DEF Init
<1>. QED
  BY <1>1, <1>2, NothingYet DEF Init, TypeOK, Step

(* Every variable keeps its type: in particular the budget of attempts is   *)
(* never exceeded, whatever events come in whatever order.                  *)
THEOREM TypeCorrect == Spec => []TypeOK
  BY TypeInit, TypeStep, PTL DEF Spec

-------------------------------------------------------------------------------
(* Why a round is full.  Events are handled some time after they were        *)
(* posted, but a connection attempt is only made by a handler, so the queue   *)
(* never holds more than what has happened to one attempt; and while nothing  *)
(* is queued that renews the budget, each attempt but the one under way has   *)
(* failed since.                                                              *)
QueueInv ==
    /\ ctl \in {"load", "start_sta"} => events = <<>> /\ link = "down"
    /\ ctl \in {"ap", "start_ap"} \/ mode \in {"NULL", "AP"} => link = "down"
    /\ link = "connecting" => events = <<>> /\ losses >= sta_attempts - 1
    /\ link = "up" =>
          events = <<"STA_GOT_IP">> \/ (events = <<>> /\ losses >= sta_attempts - 1)
    /\ link = "down" =>
          \/ events \in {<<>>, <<"STA_START">>, <<"STA_GOT_IP", "STA_DISCONNECTED">>}
          \/ events = <<"STA_DISCONNECTED">> /\ losses >= sta_attempts

LEMMA AppendToOne ==
  ASSUME NEW S, NEW e \in S, NEW f \in S
  PROVE  Append(<<e>>, f) = <<e, f>>
<1> DEFINE s == <<e>>
           t == <<e, f>>
<1>1. s \in Seq(S) /\ Len(s) = 1 /\ s[1] = e
  OBVIOUS
<1>2. t \in Seq(S) /\ Len(t) = 2 /\ t[1] = e /\ t[2] = f
  OBVIOUS
<1> HIDE DEF s, t
<1>3. /\ Append(s, f) \in Seq(S) /\ Len(Append(s, f)) = Len(s) + 1
      /\ \A i \in 1 .. Len(s) : Append(s, f)[i] = s[i]
      /\ Append(s, f)[Len(s) + 1] = f
  BY <1>1, AppendProperties
<1>4. Len(Append(s, f)) = 2 /\ Append(s, f)[1] = e /\ Append(s, f)[2] = f
  BY <1>1, <1>3
<1>5. Append(s, f) = t
  BY <1>2, <1>3, <1>4, SeqEqual
<1>. QED
  BY <1>5 DEF s, t

LEMMA Queues ==
  /\ \A e : Append(<<>>, e) = <<e>>
  /\ \A e, f \in Event : Append(<<e>>, f) = <<e, f>>
  /\ \A e : <<e>> # <<>> /\ Head(<<e>>) = e /\ Tail(<<e>>) = <<>>
  /\ \A e, f : <<e, f>> # <<>> /\ Head(<<e, f>>) = e /\ Tail(<<e, f>>) = <<f>>
<1>1. \A e : Append(<<>>, e) = <<e>>
  OBVIOUS
<1>2. \A e, f \in Event : Append(<<e>>, f) = <<e, f>>
  BY AppendToOne, Zenon
<1>3. \A e : <<e>> # <<>> /\ Head(<<e>>) = e /\ Tail(<<e>>) = <<>>
  OBVIOUS
<1>4. \A e, f : <<e, f>> # <<>> /\ Head(<<e, f>>) = e /\ Tail(<<e, f>>) = <<f>>
  OBVIOUS
<1>. QED
  BY <1>1, <1>2, <1>3, <1>4, Zenon

LEMMA QueueInit == Init => QueueInv
  BY DEF Init, QueueInv

LEMMA QueueRestarted == Restarted => QueueInv'
  BY DEF Restarted, QueueInv

LEMMA QueueUntouched ==
  ASSUME QueueInv, UNCHANGED <<ctl, sta_attempts, mode, link, events, losses>>
  PROVE  QueueInv'
BY DEF QueueInv

LEMMA QueueController == TypeOK /\ StatusInv /\ QueueInv /\ Controller => QueueInv'
<1> SUFFICES ASSUME TypeOK, StatusInv, QueueInv, Controller
             PROVE  QueueInv'
    OBVIOUS
<1>1. CASE LoadCredentials
  BY <1>1 DEF LoadCredentials, QueueInv
<1>2. CASE StartStation
  <2>1. events' = <<"STA_START">> /\ link = "down"
    BY <1>2, Queues DEF StartStation, QueueInv
  <2>2. QED
    BY <1>2, <2>1 DEF StartStation, QueueInv, mgr_vars
<1>3. CASE WaitEnds
  BY <1>3 DEF WaitEnds, QueueInv, mgr_vars, radio_vars
<1>4. CASE Connected
  BY <1>4 DEF Connected, QueueInv, radio_vars
<1>5. CASE StopStation
  <2>1. CASE link = "down"
    BY <1>5, <2>1 DEF StopStation, QueueInv
  <2>2. CASE link # "down"
    <3>1. /\ link' = "down" /\ ctl' = "ap"
          /\ events' = Append(events, "STA_DISCONNECTED")
          /\ losses' = losses + 1 /\ sta_attempts' = sta_attempts
      BY <1>5, <2>2 DEF StopStation
    <3>2. losses \in Nat /\ sta_attempts \in Int
      BY DEF TypeOK
    <3>3. \/ events' = <<"STA_GOT_IP", "STA_DISCONNECTED">>
          \/ events' = <<"STA_DISCONNECTED">> /\ losses >= sta_attempts - 1
      BY <2>2, <3>1, Queues DEF QueueInv, TypeOK, Event
    <3>4. QED
      BY <3>1, <3>2, <3>3 DEF QueueInv
  <2>3. QED
    BY <2>1, <2>2
<1>6. CASE ConfigureAccessPoint
  BY <1>6 DEF ConfigureAccessPoint, QueueInv
<1>7. CASE StartAccessPoint
  BY <1>7 DEF StartAccessPoint, QueueInv
<1>. QED
  BY <1>1, <1>2, <1>3, <1>4, <1>5, <1>6, <1>7 DEF Controller

(* A handler connects only a station that is on. *)
LEMMA ConnectStationed ==
  ASSUME TypeOK, StatusInv, QueueInv, link = "down", Connect,
         UNCHANGED <<ctl, mode>>
  PROVE  /\ link' \in {"down", "connecting"}
         /\ (ctl \in {"ap", "start_ap"} \/ mode \in {"NULL", "AP"}) => link' = "down"
BY DEF StatusInv, ControllerInv, Connect, Stationed

LEMMA QueueEventLoop == TypeOK /\ StatusInv /\ QueueInv /\ EventLoop => QueueInv'
<1> SUFFICES ASSUME TypeOK, StatusInv, QueueInv, EventLoop
             PROVE  QueueInv'
    OBVIOUS
<1>1. ctl \notin {"load", "start_sta"}
  BY DEF QueueInv, EventLoop, OnStaStart, OnDisconnected, OnGotIp, Handles
<1>2. losses \in Nat /\ sta_attempts \in Int /\ link \in {"down", "connecting", "up"}
  BY DEF TypeOK
<1>3. CASE OnStaStart
  <2>1. link = "down" /\ events' = <<>>
    BY <1>2, <1>3, Queues DEF OnStaStart, Handles, QueueInv
  <2>2. UNCHANGED <<ctl, mode>> /\ Connect /\ losses' = 0 /\ sta_attempts' = 1
    BY <1>3 DEF OnStaStart
  <2>3. QED
    BY <1>1, <2>1, <2>2, ConnectStationed DEF QueueInv
<1>4. CASE OnDisconnected
  <2>1. link = "down" /\ events' = <<>> /\ losses >= sta_attempts
    BY <1>2, <1>4, Queues DEF OnDisconnected, Handles, QueueInv
  <2>2. UNCHANGED <<ctl, mode, losses>>
    BY <1>4 DEF OnDisconnected
  <2>3. CASE MayRetry
    <3>1. Connect /\ sta_attempts' = sta_attempts + 1
      BY <1>4, <2>3 DEF OnDisconnected
    <3>2. losses' >= sta_attempts' - 1
      BY <1>2, <2>1, <2>2, <3>1
    <3>3. QED
      BY <1>1, <2>1, <2>2, <3>1, <3>2, ConnectStationed DEF QueueInv
  <2>4. CASE ~MayRetry
    BY <1>1, <1>4, <2>1, <2>2, <2>4 DEF OnDisconnected, QueueInv
  <2>5. QED
    BY <2>3, <2>4
<1>5. CASE OnGotIp
  <2>1. /\ sta_attempts' = 0 /\ losses' \in Nat
        /\ UNCHANGED <<ctl, mode, link>>
    BY <1>2, <1>5 DEF OnGotIp, RenewedBudget
  <2>2. \/ link = "down" /\ events' = <<"STA_DISCONNECTED">>
        \/ link = "up" /\ events' = <<>>
    <3>1. events # <<>> /\ Head(events) = "STA_GOT_IP" /\ events' = Tail(events)
      BY <1>5 DEF OnGotIp, Handles
    <3>2. \/ link = "down" /\ events = <<"STA_GOT_IP", "STA_DISCONNECTED">>
          \/ link = "up" /\ events = <<"STA_GOT_IP">>
      BY <1>2, <3>1, Queues DEF QueueInv
    <3>3. /\ Tail(<<"STA_GOT_IP", "STA_DISCONNECTED">>) = <<"STA_DISCONNECTED">>
          /\ Tail(<<"STA_GOT_IP">>) = <<>>
      BY Queues, Zenon
    <3>4. QED
      BY <3>1, <3>2, <3>3, Zenon
  <2>3. losses' >= sta_attempts' /\ losses' >= sta_attempts' - 1
    BY <2>1
  <2>4. QED
    BY <1>1, <2>1, <2>2, <2>3 DEF QueueInv
<1>6. QED
  BY <1>3, <1>4, <1>5 DEF EventLoop

LEMMA QueueStep == TypeOK /\ StatusInv /\ QueueInv /\ [Next]_vars => QueueInv'
<1> SUFFICES ASSUME TypeOK, StatusInv, QueueInv, [Next]_vars
             PROVE  QueueInv'
    OBVIOUS
<1>1. losses \in Nat /\ sta_attempts \in Int /\ link \in {"down", "connecting", "up"}
  BY DEF TypeOK
<1>2. CASE LinkUp
  <2>1. events' = <<"STA_GOT_IP">> /\ link' = "up"
    BY <1>2, Queues DEF LinkUp, QueueInv
  <2>2. ctl \notin {"load", "start_sta", "ap", "start_ap"} /\ mode \notin {"NULL", "AP"}
    BY <1>2 DEF LinkUp, QueueInv
  <2>3. QED
    BY <1>2, <2>1, <2>2 DEF LinkUp, QueueInv
<1>3. CASE LinkDown
  <2>1. \/ events' = <<"STA_GOT_IP", "STA_DISCONNECTED">>
        \/ events' = <<"STA_DISCONNECTED">> /\ losses >= sta_attempts - 1
    BY <1>1, <1>3, Queues DEF LinkDown, QueueInv, Event
  <2>2. ctl \notin {"load", "start_sta"}
    BY <1>3 DEF LinkDown, QueueInv
  <2>3. link' = "down" /\ losses' = losses + 1 /\ UNCHANGED <<ctl, sta_attempts>>
    BY <1>3 DEF LinkDown, mgr_vars
  <2>4. QED
    BY <1>1, <2>1, <2>2, <2>3 DEF QueueInv
<1>4. CASE Scan
  <2>1. events' = <<"STA_START">> /\ link = "down" /\ link' = "down"
    BY <1>4, Queues DEF Scan, QueueInv
  <2>2. ctl \notin {"load", "start_sta"}
    BY <1>4 DEF Scan, Reachable, StatusInv, ControllerInv
  <2>3. QED
    BY <1>4, <2>1, <2>2 DEF Scan, QueueInv
<1>5. CASE SavePass \/ SaveFails
  BY <1>5, QueueUntouched DEF SavePass, SaveFails, mgr_vars, radio_vars
<1>6. ASSUME NEW pair \in Pair, SaveSsid(pair)
      PROVE  QueueInv'
  BY <1>6, QueueUntouched DEF SaveSsid, mgr_vars, radio_vars
<1>7. CASE Restart \/ PowerLoss
  BY <1>7, QueueRestarted DEF Restart, PowerLoss
<1>8. CASE UNCHANGED vars
  BY <1>8, QueueUntouched DEF vars
<1>9. QED
  BY <1>2, <1>3, <1>4, <1>5, <1>6, <1>7, <1>8, QueueController, QueueEventLoop DEF Next

(* The saved network is given up for the access point only after a full     *)
(* round of failures in a row, for any number of tries: no late event makes *)
(* an attempt count twice (the event handler of wifi_manager.c).            *)
THEOREM RoundIsFull == Spec => FullRound
<1> DEFINE QInv == TypeOK /\ StatusInv /\ QueueInv
           Full == (bits' \ bits) = {"STA_DISCONNECTED_BIT"} =>
                        losses >= WIFI_MGR_MAX_STA_TRIES
<1>1. Init => QInv
  BY TypeInit, StatusInit, QueueInit
<1>2. QInv /\ [Next]_vars => QInv'
  BY TypeStep, StatusStep, QueueStep
<1>3. ASSUME QInv, [Next]_vars
      PROVE  Full
  <2> SUFFICES ASSUME "STA_DISCONNECTED_BIT" \in bits' \ bits
               PROVE  losses >= WIFI_MGR_MAX_STA_TRIES
      OBVIOUS
  <2>1. OnDisconnected /\ ~MayRetry
    <3>1. ~(UNCHANGED bits) /\ ~Restarted /\ ~OnGotIp
      BY DEF Restarted, OnGotIp
    <3>2. CASE Controller
      BY <3>1, <3>2 DEF Controller, LoadCredentials, StartStation, WaitEnds, Connected,
          StopStation, ConfigureAccessPoint, StartAccessPoint, mgr_vars
    <3>3. CASE EventLoop
      BY <3>1, <3>3 DEF EventLoop, OnStaStart, OnDisconnected
    <3>4. CASE ~Controller /\ ~EventLoop
      BY <1>3, <3>1, <3>4 DEF Next, LinkUp, LinkDown, Scan, SaveSsid, SavePass, SaveFails,
          Restart, PowerLoss, mgr_vars, vars
    <3>5. QED
      BY <3>2, <3>3, <3>4
  <2>2. losses >= sta_attempts
    BY <1>3, <2>1, Queues DEF OnDisconnected, Handles, QueueInv, TypeOK
  <2>3. QED
    BY <1>3, <2>1, <2>2, WifiAssumption DEF MayRetry, TypeOK
<1> HIDE DEF QInv, Full
<1>4. QInv /\ [Next]_vars => [Full]_vars
  BY <1>3
<1>5. Spec => [][Full]_vars
  BY <1>1, <1>2, <1>4, PTL DEF Spec
<1>6. QED
  BY <1>5 DEF FullRound, Full
================================================================================
