---------------------------- MODULE ServiceQueue ----------------------------
(***************************************************************************)
(* What `ii send --keep-alive` promises its receivers, with the tasks, the *)
(* handshakes and the event loop left out: a first-come first-served queue *)
(* in front of Servers identical servers.  A client that has arrived is    *)
(* served in the order of arrival, a free server never idles while a       *)
(* client waits, and no client is lost before the whole queue shuts.       *)
(***************************************************************************)
EXTENDS Integers, Sequences, FiniteSets

CONSTANTS Clients,  (* whoever may arrive                                  *)
          Servers   (* how many clients are served at the same time        *)

VARIABLES order,    (* every client that arrived, first to last            *)
          begun,    (* order[1..begun] are being served or have been       *)
          finished, (* the clients whose service has ended                 *)
          open      (* FALSE once the queue has shut                       *)

vars == <<order, begun, finished, open>>

Arrived == {order[i] : i \in 1..Len(order)}
InService == {order[i] : i \in 1..begun} \ finished

Init == /\ order = <<>>
        /\ begun = 0
        /\ finished = {}
        /\ open = TRUE

(* A client arrives; it is served at once when a server is free.           *)
Arrive(c) ==
    /\ open
    /\ c \notin Arrived
    /\ order' = Append(order, c)
    /\ begun' = IF Cardinality(InService) < Servers THEN begun + 1 ELSE begun
    /\ UNCHANGED <<finished, open>>

(* A service ends; the longest waiting client takes the server over.       *)
Finish(c) ==
    /\ open
    /\ c \in InService
    /\ finished' = finished \cup {c}
    /\ begun' = IF begun < Len(order) THEN begun + 1 ELSE begun
    /\ UNCHANGED <<order, open>>

(* The queue shuts and drops everybody, served, waiting or done.           *)
Shut ==
    /\ open
    /\ open' = FALSE
    /\ order' = <<>>
    /\ begun' = 0
    /\ finished' = {}

Next == \/ \E c \in Clients : Arrive(c) \/ Finish(c)
        \/ Shut

Spec == Init /\ [][Next]_vars
=============================================================================
