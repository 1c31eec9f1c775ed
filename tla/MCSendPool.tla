----------------------------- MODULE MCSendPool -----------------------------
(* SendPool for TLC: the attempts are model values given by the cfg.       *)
EXTENDS SendPool
=============================================================================
