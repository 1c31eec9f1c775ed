----------------------------- MODULE MCUdpSessions -----------------------------
(* Two clients; a channel that holds one packet.                           *)
EXTENDS UdpSessions, TLC

CONSTANTS a, b

MCMaxPackets == a :> 3 @@ b :> 1
===============================================================================
