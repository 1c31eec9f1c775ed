------------------------------ MODULE FileDrop ------------------------------
(***************************************************************************)
(* What an upload form promises its users, with the sessions, the chunks,  *)
(* the temporary files and the requests left out: the file under the name  *)
(* is replaced in one step by all of another one, a user hears that a file *)
(* was saved only after it was put in place for somebody, and nothing is   *)
(* put in place once the form is closed.                                   *)
(***************************************************************************)
CONSTANTS Users,
          Files,    (* what they may choose                                *)
          Content,  (* file to what is in it                               *)
          Old       (* what is in place at first                           *)

VARIABLES current,  (* what is in place                                    *)
          stored,   (* the files that were put in place by the form        *)
          open,     (* FALSE once the form is closed                       *)
          wants,    (* user to the file chosen last                        *)
          state     (* user to "idle", "waiting" or "saved"                *)

vars == <<current, stored, open, wants, state>>

Init == /\ current = Old
        /\ stored = {}
        /\ open = TRUE
        /\ wants \in [Users -> Files]
        /\ state = [u \in Users |-> "idle"]

Choose(u, f) ==
    /\ state[u] # "waiting"
    /\ state' = [state EXCEPT ![u] = "waiting"]
    /\ wants' = [wants EXCEPT ![u] = f]
    /\ UNCHANGED <<current, stored, open>>

(* A file arrives in full, whether the user still waits for it or not.     *)
Place(f) ==
    /\ open
    /\ current' = Content[f]
    /\ stored' = stored \cup {f}
    /\ UNCHANGED <<open, wants, state>>

(* So does one that did not come from the form.                            *)
Replace(f) ==
    /\ open
    /\ current' = Content[f]
    /\ UNCHANGED <<stored, open, wants, state>>

Hear(u) ==
    /\ state[u] = "waiting"
    /\ wants[u] \in stored
    /\ state' = [state EXCEPT ![u] = "saved"]
    /\ UNCHANGED <<current, stored, open, wants>>

GiveUp(u) ==
    /\ state[u] = "waiting"
    /\ state' = [state EXCEPT ![u] = "idle"]
    /\ UNCHANGED <<current, stored, open, wants>>

Close ==
    /\ open
    /\ open' = FALSE
    /\ UNCHANGED <<current, stored, wants, state>>

Next == \/ \E u \in Users : \/ \E f \in Files : Choose(u, f)
                            \/ Hear(u) \/ GiveUp(u)
        \/ \E f \in Files : Place(f) \/ Replace(f)
        \/ Close

Spec == Init /\ [][Next]_vars
=============================================================================
