---------------------------- MODULE VpnInterface ----------------------------
(***************************************************************************)
(* What VpnManager promises its callers, whatever threads call it and      *)
(* however the native packet forwarder is scheduled: packets are forwarded *)
(* only while the VPN interface is open, forwarding is started on an       *)
(* interface that is open and has no forwarder yet, and the interface is   *)
(* closed only after its forwarder has gone.                               *)
(***************************************************************************)

VARIABLES
  interface,   \* "closed" or "open": the tun descriptor of the VPN session
  forwarding   \* TRUE while an instance of tun2socks is alive

vars == <<interface, forwarding>>

TypeOK ==
  /\ interface \in {"closed", "open"}
  /\ forwarding \in BOOLEAN

Init ==
  /\ interface = "closed"
  /\ forwarding = FALSE

Open ==
  /\ interface = "closed"
  /\ ~forwarding
  /\ interface' = "open"
  /\ UNCHANGED forwarding

StartForwarding ==
  /\ interface = "open"
  /\ ~forwarding
  /\ forwarding' = TRUE
  /\ UNCHANGED interface

StopForwarding ==
  /\ forwarding
  /\ forwarding' = FALSE
  /\ UNCHANGED interface

Close ==
  /\ interface = "open"
  /\ ~forwarding
  /\ interface' = "closed"
  /\ UNCHANGED forwarding

Next == Open \/ StartForwarding \/ StopForwarding \/ Close

Spec == Init /\ [][Next]_vars
=============================================================================
