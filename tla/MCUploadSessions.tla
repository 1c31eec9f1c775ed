-------------------------- MODULE MCUploadSessions --------------------------
(* UploadSessions for TLC: tabs and files are model values of the cfg.     *)
EXTENDS UploadSessions
=============================================================================
