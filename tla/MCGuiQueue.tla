------------------------------ MODULE MCGuiQueue ------------------------------
(* Two windows on one queue, a send in one, a receive in either of them.   *)
EXTENDS GuiQueue, TLC

CONSTANTS g1, g2, i1, i2, send, recv

MCWindows == send :> {g1} @@ recv :> {g1, g2}
===============================================================================
