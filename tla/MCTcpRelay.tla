---------------------------- MODULE MCTcpRelay ----------------------------
(* Values for the constants of TcpRelay.                                   *)
EXTENDS TcpRelay, TLC

CONSTANTS c1, c2

AllKinds == {"tcp", "socks", "bind", "udp", "proxy", "http", "tunnel"}

(* One connection with data, one that competes for the permit.             *)
OneBusy == c1 :> 1 @@ c2 :> 0
=============================================================================
