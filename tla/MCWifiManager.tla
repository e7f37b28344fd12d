----------------------------- MODULE MCWifiManager -----------------------------
(* Two networks and two passwords; each network accepts one of them.  The   *)
(* network far is also one whose name is too long to be read back when it   *)
(* was saved with the other password.                                       *)
EXTENDS WifiManager

CONSTANTS home, far, p, q

MCSsid == {home, far}
MCPass == {p, q}
MCAccepted == {[ssid |-> home, pass |-> p], [ssid |-> far, pass |-> q]}
MCUnreadable == {[ssid |-> far, pass |-> p]}
================================================================================
