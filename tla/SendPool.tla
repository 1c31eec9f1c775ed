------------------------------ MODULE SendPool ------------------------------
(***************************************************************************)
(* `ii send --keep-alive`: the event loop that admits receivers, completes *)
(* their QUIC handshakes and streams the payload to them                   *)
(* (serve_keep_alive_with_limits_and_rate).  One loop owns two JoinSets of *)
(* spawned tasks, `handshakes` and `transfers`, and a FIFO `waiting` of    *)
(* connected receivers without a transfer slot.  The runtime has a single  *)
(* thread: the loop body between two awaits is one atomic step, and tasks  *)
(* end between its steps.                                                  *)
(*                                                                         *)
(* A member of Peers is one connection attempt; an attempt is made once.   *)
(* The number a connection is given is its position in `numbered`.         *)
(***************************************************************************)
EXTENDS Integers, Sequences, FiniteSets

CONSTANTS Peers,      (* the connection attempts                           *)
          MaxActive,  (* TransferLimits.active                             *)
          MaxQueued   (* TransferLimits.queued                             *)

ASSUME LimitsAssumption == /\ MaxActive \in Nat \ {0}
                           /\ MaxQueued \in Nat

VARIABLES
    fresh,       (* attempts not made yet                                  *)
    dialled,     (* attempts endpoint.accept() has yet to return           *)
    handshakes,  (* JoinSet of handshake tasks, ended ones included        *)
    transfers,   (* JoinSet of transfer tasks, ended ones included         *)
    result,      (* what the peer's task returned, "pending" while it runs *)
    waiting,     (* VecDeque of connected peers without a slot             *)
    numbered,    (* connected peers in the order they got their number     *)
    accepted,    (* the loop's count of transfers joined as Sent           *)
    phase        (* the loop serves, closes the endpoint, has returned     *)

vars == <<fresh, dialled, handshakes, transfers, result, waiting, numbered,
          accepted, phase>>

HandshakeResults == {"connected", "failed"}
(* NotSent is any other end: Ignored, an error, a panic of the task.       *)
TransferResults == {"Sent", "NotSent"}

-----------------------------------------------------------------------------
(* A definition named after another one with a fault added (...OffByOne,   *)
(* ...Never, ...Uncounting) is a mutant: it stands for a plausible bug and *)
(* no specification uses it.                                               *)

(* The tasks of a JoinSet whose result the loop can join.                  *)
Ended(tasks) == {p \in tasks : result[p] # "pending"}

HasCapacityIgnoringHandshakes(active, queued, pending) ==
    active + queued < MaxActive + MaxQueued
HasCapacity(active, queued, pending) ==
    active + queued + pending < MaxActive + MaxQueued

(* How many queued connections start_queued_transfers takes off the front. *)
PoppedOffByOne(t, w) ==
    LET free == MaxActive + 1 - Cardinality(t)
    IN  IF free < Len(w) THEN free ELSE Len(w)
Popped(t, w) ==
    LET free == MaxActive - Cardinality(t)
    IN  IF free < Len(w) THEN free ELSE Len(w)

(* start_queued_transfers, run at the top of every iteration of the loop:  *)
(* spawn transfers from the front of the queue while slots are free.       *)
StartQueuedNever(t, w) ==
    /\ transfers' = t
    /\ waiting' = w
StartQueued(t, w) ==
    LET n == Popped(t, w)
    IN  /\ transfers' = t \cup {w[i] : i \in 1..n}
        /\ waiting' = SubSeq(w, n + 1, Len(w))

-----------------------------------------------------------------------------
Init == /\ fresh = Peers
        /\ dialled = {}
        /\ handshakes = {}
        /\ transfers = {}
        /\ result = [p \in Peers |-> "pending"]
        /\ waiting = <<>>
        /\ numbered = <<>>
        /\ accepted = 0
        /\ phase = "serving"

(* A receiver dials the ticket's endpoint.                                 *)
Dial(p) ==
    /\ phase = "serving"
    /\ p \in fresh
    /\ fresh' = fresh \ {p}
    /\ dialled' = dialled \cup {p}
    /\ UNCHANGED <<handshakes, transfers, result, waiting, numbered, accepted,
                   phase>>

(* The spawned tasks run whenever the loop awaits, endpoint.close()        *)
(* included.                                                               *)
HandshakeEnds(p, r) ==
    /\ phase # "stopped"
    /\ p \in handshakes
    /\ result[p] = "pending"
    /\ result' = [result EXCEPT ![p] = r]
    /\ UNCHANGED <<fresh, dialled, handshakes, transfers, waiting, numbered,
                   accepted, phase>>

TransferEnds(p, r) ==
    /\ phase # "stopped"
    /\ p \in transfers
    /\ result[p] = "pending"
    /\ result' = [result EXCEPT ![p] = r]
    /\ UNCHANGED <<fresh, dialled, handshakes, transfers, waiting, numbered,
                   accepted, phase>>

-----------------------------------------------------------------------------
(* The branches of the biased select!, each followed by the refill at the  *)
(* top of the next iteration.  A branch is taken only when no branch       *)
(* before it is ready.                                                     *)

(* transfers.join_next()                                                   *)
JoinTransferUncounting(p) ==
    /\ phase = "serving"
    /\ p \in Ended(transfers)
    /\ accepted' = IF result[p] = "Sent" THEN accepted + 1 ELSE accepted - 1
    /\ StartQueued(transfers \ {p}, waiting)
    /\ UNCHANGED <<fresh, dialled, handshakes, result, numbered, phase>>
JoinTransferCountingAll(p) ==
    /\ phase = "serving"
    /\ p \in Ended(transfers)
    /\ accepted' = accepted + 1
    /\ StartQueued(transfers \ {p}, waiting)
    /\ UNCHANGED <<fresh, dialled, handshakes, result, numbered, phase>>
JoinTransfer(p) ==
    /\ phase = "serving"
    /\ p \in Ended(transfers)
    /\ accepted' = IF result[p] = "Sent" THEN accepted + 1 ELSE accepted
    /\ StartQueued(transfers \ {p}, waiting)
    /\ UNCHANGED <<fresh, dialled, handshakes, result, numbered, phase>>

(* handshakes.join_next(): a connected peer gets the next number and a     *)
(* slot, or queues up; a failed handshake is only reported.                *)
JoinConnected(p) ==
    /\ result[p] = "connected"
    /\ numbered' = Append(numbered, p)
    /\ result' = [result EXCEPT ![p] = "pending"]
    /\ IF Cardinality(transfers) < MaxActive
       THEN StartQueued(transfers \cup {p}, waiting)
       ELSE StartQueued(transfers, Append(waiting, p))

JoinFailed(p) ==
    /\ result[p] = "failed"
    /\ StartQueued(transfers, waiting)
    /\ UNCHANGED <<result, numbered>>

JoinHandshake(p) ==
    /\ phase = "serving"
    /\ Ended(transfers) = {}
    /\ p \in Ended(handshakes)
    /\ handshakes' = handshakes \ {p}
    /\ JoinConnected(p) \/ JoinFailed(p)
    /\ UNCHANGED <<fresh, dialled, accepted, phase>>

(* endpoint.accept(): refuse at capacity, else spawn the handshake task.   *)
Accept(p) ==
    /\ phase = "serving"
    /\ Ended(transfers) = {}
    /\ Ended(handshakes) = {}
    /\ p \in dialled
    /\ dialled' = dialled \ {p}
    /\ handshakes' =
         IF HasCapacity(Cardinality(transfers), Len(waiting),
                        Cardinality(handshakes))
         THEN handshakes \cup {p}
         ELSE handshakes
    /\ StartQueued(transfers, waiting)
    /\ UNCHANGED <<fresh, result, numbered, accepted, phase>>

(* ctrl_c, or the endpoint closing under the loop: break out of it.        *)
Interrupt ==
    /\ phase = "serving"
    /\ phase' = "closing"
    /\ UNCHANGED <<fresh, dialled, handshakes, transfers, result, waiting,
                   numbered, accepted>>

(* endpoint.close() has returned: clear the queue, abort and drain both    *)
(* JoinSets, return `accepted`.  No result is joined any more.             *)
Stop ==
    /\ phase = "closing"
    /\ phase' = "stopped"
    /\ waiting' = <<>>
    /\ handshakes' = {}
    /\ transfers' = {}
    /\ UNCHANGED <<fresh, dialled, result, numbered, accepted>>

-----------------------------------------------------------------------------
Loop(p) == JoinTransfer(p) \/ JoinHandshake(p) \/ Accept(p)

Next ==
    \/ \E p \in Peers : \/ Dial(p)
                        \/ \E r \in HandshakeResults : HandshakeEnds(p, r)
                        \/ \E r \in TransferResults : TransferEnds(p, r)
                        \/ Loop(p)
    \/ Interrupt
    \/ Stop

Spec == Init /\ [][Next]_vars

(* The executor polls a ready loop and a ready task.  A handshake ends: it *)
(* is QUIC's, with QUIC's timeout.  That a transfer ends is an assumption  *)
(* on the receivers: serve_one has no timeout of its own, so a receiver    *)
(* must read to the end, close, or be declared lost by QUIC.               *)
Fairness ==
    /\ WF_vars(\E p \in Peers : Loop(p))
    /\ WF_vars(Stop)
    /\ \A p \in Peers :
         /\ WF_vars(\E r \in HandshakeResults : HandshakeEnds(p, r))
         /\ WF_vars(\E r \in TransferResults : TransferEnds(p, r))

FairSpec == Spec /\ Fairness

-----------------------------------------------------------------------------
(* Properties.                                                             *)

Numbered == {numbered[i] : i \in 1..Len(numbered)}

TypeOK ==
    /\ fresh \in SUBSET Peers
    /\ dialled \in SUBSET Peers
    /\ handshakes \in SUBSET Peers /\ IsFiniteSet(handshakes)
    /\ transfers \in SUBSET Peers /\ IsFiniteSet(transfers)
    /\ result \in [Peers -> {"pending"} \cup HandshakeResults
                                        \cup TransferResults]
    /\ waiting \in Seq(Peers)
    /\ numbered \in Seq(Peers)
    /\ accepted \in Nat
    /\ phase \in {"serving", "closing", "stopped"}

(* send.rs:519 counts handshakes and the queue into the capacity so that a *)
(* burst of attempts cannot overrun it later: whatever order handshakes    *)
(* complete in, never more than MaxActive transfers run, and never more    *)
(* connections are held than both limits allow.                            *)
WithinLimits ==
    /\ Cardinality(transfers) <= MaxActive
    /\ Cardinality(transfers) + Len(waiting) + Cardinality(handshakes)
         <= MaxActive + MaxQueued

(* Both: a limit is the size of a variable of its type.                    *)
StaysWithinLimits == TypeOK /\ WithinLimits

(* Slots are refilled at one place only, the top of the loop (send.rs:450):*)
(* a receiver never waits beside a free slot, in any state the other tasks *)
(* can observe, and hence the queue proper never exceeds MaxQueued.        *)
NoIdleSlot ==
    waiting # <<>> =>
        /\ Cardinality(transfers) = MaxActive
        /\ Len(waiting) + Cardinality(handshakes) <= MaxQueued

(* A connection may start without queueing (send.rs:475) while others are  *)
(* queued by the same code: no overtaking all the same.  Until the loop    *)
(* returns, those that wait are exactly the last numbered ones, in order,  *)
(* and only those before them have had a transfer.                         *)
NoOvertaking ==
    phase # "stopped" =>
        LET begun == Len(numbered) - Len(waiting)
        IN  /\ begun >= 0
            /\ waiting = SubSeq(numbered, begun + 1, Len(numbered))
            /\ transfers \subseteq {numbered[i] : i \in 1..begun}

(* The count the sender reports (0 is reported as "no receiver connected") *)
(* is that of the payloads sent, except for those a shutdown leaves in the *)
(* JoinSet.                                                                *)
CountsSent ==
    phase # "stopped" =>
        accepted = Cardinality({p \in Peers \ transfers : result[p] = "Sent"})

(* The loop implements the abstract first-come first-served queue.         *)
Begun == IF phase = "stopped" THEN 0 ELSE Len(numbered) - Len(waiting)
Queue == INSTANCE ServiceQueue WITH
    Clients  <- Peers,
    Servers  <- MaxActive,
    order    <- IF phase = "stopped" THEN <<>> ELSE numbered,
    begun    <- Begun,
    finished <- {numbered[i] : i \in 1..Begun} \ transfers,
    open     <- phase # "stopped"

ServesFirstCome == Queue!Spec

(* A receiver that got past the capacity check is served to the end or its *)
(* handshake fails, unless the sender is interrupted: the single refill,   *)
(* the biased order and the queue starve nobody.                           *)
AdmittedIsServed ==
    \A p \in Peers :
        p \in handshakes ~> \/ result[p] = "failed"
                            \/ p \in Numbered /\ result[p] # "pending"
                            \/ phase # "serving"
=============================================================================
