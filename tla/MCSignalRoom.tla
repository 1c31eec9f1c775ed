--------------------------- MODULE MCSignalRoom ---------------------------
(* Values for the constants of SignalRoom come from the .cfg.              *)
EXTENDS SignalRoom
=============================================================================
