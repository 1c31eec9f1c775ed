------------------------------ MODULE FilePlan ------------------------------
(***************************************************************************)
(* plan_file_receive (transport/p2p.rs): what `ii recv` does with the file *)
(* f it finds under the ticket's name.  A file is a sequence of blocks,    *)
(* <<>> when it is missing or empty: the code treats the two alike, the    *)
(* payload being non-empty.  MD5 is taken to tell contents apart.  A mode  *)
(* is "auto" (no flag), "overwrite", "resume", or "stdout", which plans    *)
(* nothing and writes all of the payload.                                  *)
(***************************************************************************)
EXTENDS Naturals, Sequences

Skips(m, f, payload) == m = "auto" /\ f = payload

ResumeFromNever(m, f, payload) == IF m = "resume" THEN Len(f) ELSE 0
ResumeFrom(m, f, payload) ==
    IF m = "resume" \/ (m = "auto" /\ Len(f) < Len(payload)) THEN Len(f) ELSE 0
=============================================================================
