---------------------------- MODULE FileTransfer ----------------------------
(***************************************************************************)
(* One plain `ii send` of a file (serve_once: one receiver at a time, until*)
(* one of them is Sent) and the `ii recv` runs made with its ticket.  A    *)
(* run plans what to do with the file it finds under the ticket's name,    *)
(* dials, asks for the payload from an offset and appends what comes.      *)
(* Connections and receivers fail at any moment; what was written stays.   *)
(*                                                                         *)
(* Files are as in FilePlan.  Each receiver has a directory of its own, and*)
(* the source file stays as it was when the ticket was made.               *)
(***************************************************************************)
EXTENDS Integers, Sequences, FiniteSets, SequencesExt, FilePlan

CONSTANTS Receivers,   (* those who hold the ticket                        *)
          Payload,     (* the blocks of the file the ticket was made for   *)
          StartFiles,  (* what they may have under the ticket's name       *)
          Modes,       (* flags of `ii recv`, as in FilePlan               *)
          MaxRuns,     (* bound: runs of `ii recv`                         *)
          MaxSlow,     (* bound: dials that miss the first 3 s, writes to  *)
                       (* stdout that are lost                             *)
          Window       (* bound: blocks in flight on a connection          *)

ASSUME PayloadAssumption == /\ Payload \in Seq(STRING)
                            /\ Payload # <<>>
ASSUME BoundsAssumption == MaxRuns \in Nat /\ MaxSlow \in Nat /\ Window \in Nat \ {0}
ASSUME ModesAssumption == Modes \subseteq {"auto", "overwrite", "resume", "stdout"}
ASSUME FilesAssumption == StartFiles \subseteq [Receivers -> Seq(STRING)]

VARIABLES
    sender,    (* where serve_once is                                      *)
    peer,      (* the receiver whose connection it serves, or served to the *)
               (* end                                                       *)
    sent,      (* its position in the source file                          *)
    accepted,  (* serve_once's count of Sent connections                   *)
    run,       (* where the receiver's latest run is                       *)
    mode,      (* the flag of that run while it goes on                    *)
    offset,    (* its ResumeRequest.resume_from                            *)
    runs,      (* how many runs were made                                 *)
    file,      (* its file, or what its --stdout is redirected to          *)
    stray,     (* receivers that gave up a dial the sender may still accept*)
    slow,      (* how many slow dials and lost writes there were           *)
    unflushed, (* history: runs that lost the last write to stdout         *)
    up,        (* the receivers whose connection is up                     *)
    wire,      (* blocks on their way to the receiver                      *)
    fin        (* whether the end of the payload follows them              *)

senderVars == <<sender, peer, sent, accepted>>
planVars == <<mode, offset, runs>>
netVars == <<up, wire, fin>>
dialVars == <<stray, slow, unflushed>>
vars == <<senderVars, run, planVars, file, netVars, dialVars>>

Size == Len(Payload)
Nobody == "nobody"
Ended == {"idle", "skipped", "done", "failed"}
Dialling == {"dialling", "redialling"}
Receiving == {"connected", "requested", "copying"}

-----------------------------------------------------------------------------
Init == /\ sender = "listening"
        /\ peer = Nobody
        /\ sent = 0
        /\ accepted = 0
        /\ run = [r \in Receivers |-> "idle"]
        /\ mode = [r \in Receivers |-> "auto"]
        /\ offset = [r \in Receivers |-> 0]
        /\ runs = 0
        /\ file \in StartFiles
        /\ up = {}
        /\ wire = [r \in Receivers |-> <<>>]
        /\ fin = [r \in Receivers |-> FALSE]
        /\ stray = {}
        /\ slow = 0
        /\ unflushed = {}

-----------------------------------------------------------------------------
(* The receiver.                                                           *)

(* A run that fails leaves nothing but its file.                           *)
Fails(r) ==
    /\ run' = [run EXCEPT ![r] = "failed"]
    /\ mode' = [mode EXCEPT ![r] = "auto"]
    /\ offset' = [offset EXCEPT ![r] = 0]

(* `ii recv <ticket> [--overwrite | --resume | --stdout > file]`, up to the*)
(* dialling.  The shell empties the file that stdout is redirected to.     *)
Emptied(r, m) == IF m = "stdout" THEN [file EXCEPT ![r] = <<>>] ELSE file

Recv(r, m) ==
    /\ run[r] \in Ended
    /\ runs < MaxRuns
    /\ runs' = runs + 1
    /\ mode' = [mode EXCEPT ![r] = m]
    /\ offset' = [offset EXCEPT ![r] = ResumeFrom(m, file[r], Payload)]
    /\ run' = [run EXCEPT ![r] = IF Skips(m, file[r], Payload) THEN "skipped"
                                                               ELSE "dialling"]
    /\ file' = Emptied(r, m)
    /\ unflushed' = unflushed \ {r}
    /\ UNCHANGED <<senderVars, netVars, stray, slow>>

(* No address of the ticket is usable under the flags, or no endpoint can  *)
(* be bound: the run is over before it has touched anything.               *)
BindFails(r, m) ==
    /\ run[r] \in Ended
    /\ runs < MaxRuns
    /\ ~Skips(m, file[r], Payload)
    /\ runs' = runs + 1
    /\ run' = [run EXCEPT ![r] = "failed"]
    /\ mode' = [mode EXCEPT ![r] = m]
    /\ offset' = [offset EXCEPT ![r] = 0]
    /\ file' = Emptied(r, m)
    /\ unflushed' = unflushed \ {r}
    /\ UNCHANGED <<senderVars, netVars, stray, slow>>

(* connect_to_peer: the first dial, to all addresses, has 3 s; after that  *)
(* it is dropped for one through the relay.  The sender may have seen it.  *)
FallsBack(r) ==
    /\ run[r] = "dialling"
    /\ slow < MaxSlow
    /\ slow' = slow + 1
    /\ run' = [run EXCEPT ![r] = "redialling"]
    /\ stray' = stray \cup {r}
    /\ UNCHANGED <<senderVars, planVars, file, netVars, unflushed>>

(* It gives up.                                                            *)
DialFails(r) ==
    /\ run[r] \in Dialling
    /\ Fails(r)
    /\ UNCHANGED <<senderVars, runs, file, netVars, dialVars>>

(* Open the stream, write the ResumeRequest and finish.                    *)
Request(r) ==
    /\ run[r] = "connected"
    /\ r \in up
    /\ run' = [run EXCEPT ![r] = "requested"]
    /\ UNCHANGED <<senderVars, planVars, file, netVars, dialVars>>

(* write_to_file opens the destination: append, or create and truncate.    *)
Open(r) ==
    /\ run[r] = "requested"
    /\ run' = [run EXCEPT ![r] = "copying"]
    /\ file' = [file EXCEPT ![r] = IF offset[r] > 0 THEN @ ELSE <<>>]
    /\ UNCHANGED <<senderVars, planVars, netVars, dialVars>>

(* One round of copy_with_progress.  What has arrived can be read after    *)
(* the connection is gone.                                                 *)
Copy(r) ==
    /\ run[r] = "copying"
    /\ wire[r] # <<>>
    /\ file' = [file EXCEPT ![r] = Append(@, Head(wire[r]))]
    /\ wire' = [wire EXCEPT ![r] = Tail(@)]
    /\ UNCHANGED <<senderVars, run, planVars, up, fin, dialVars>>

(* End of stream: flush, close the connection with "done".                 *)
FinishesWithoutClosing(r) ==
    /\ run[r] = "copying"
    /\ wire[r] = <<>>
    /\ fin[r]
    /\ run' = [run EXCEPT ![r] = "done"]
    /\ mode' = [mode EXCEPT ![r] = "auto"]
    /\ UNCHANGED <<senderVars, offset, runs, netVars>>
Finishes(r) ==
    /\ run[r] = "copying"
    /\ wire[r] = <<>>
    /\ fin[r]
    /\ run' = [run EXCEPT ![r] = "done"]
    /\ mode' = [mode EXCEPT ![r] = "auto"]
    /\ up' = up \ {r}
    /\ UNCHANGED <<senderVars, offset, runs, wire, fin>>

Complete(r) == Finishes(r) /\ UNCHANGED <<file, dialVars>>

(* The same on stdout, whose writes are done behind the copy's back: the   *)
(* last one fails, and the flush that says so is ignored.                  *)
CompleteUnflushed(r) ==
    /\ Finishes(r)
    /\ mode[r] = "stdout"
    /\ file[r] # <<>>
    /\ slow < MaxSlow
    /\ slow' = slow + 1
    /\ file' = [file EXCEPT ![r] = Front(@)]
    /\ unflushed' = unflushed \cup {r}
    /\ UNCHANGED stray

(* The connection is lost before the end of the stream was read.           *)
RecvFails(r) ==
    /\ run[r] \in Receiving
    /\ r \notin up
    /\ run[r] = "connected" \/ (wire[r] = <<>> /\ ~fin[r])
    /\ Fails(r)
    /\ UNCHANGED <<senderVars, runs, file, netVars, dialVars>>

(* The process is interrupted, or cannot write.                            *)
Killed(r) ==
    /\ run[r] \in Receiving \cup Dialling
    /\ Fails(r)
    /\ up' = up \ {r}
    /\ wire' = [wire EXCEPT ![r] = <<>>]
    /\ fin' = [fin EXCEPT ![r] = FALSE]
    /\ UNCHANGED <<senderVars, runs, file, dialVars>>

(* QUIC gives the connection up.  Of what was in flight, some arrived.     *)
ConnectionLost(r) ==
    /\ r \in up
    /\ up' = up \ {r}
    /\ \E n \in 0..Len(wire[r]) :
         /\ wire' = [wire EXCEPT ![r] = SubSeq(@, 1, n)]
         /\ fin' = [fin EXCEPT ![r] = @ /\ n = Len(wire[r])]
    /\ UNCHANGED <<senderVars, run, planVars, file, dialVars>>

-----------------------------------------------------------------------------
(* The sender: serve_once, with serve_one_inner inline.                    *)

Accept(r) ==
    /\ sender = "listening"
    /\ run[r] \in Dialling
    /\ sender' = "accepted"
    /\ peer' = r
    /\ run' = [run EXCEPT ![r] = "connected"]
    /\ up' = up \cup {r}
    /\ wire' = [wire EXCEPT ![r] = <<>>]
    /\ fin' = [fin EXCEPT ![r] = FALSE]
    /\ UNCHANGED <<sent, accepted, planVars, file, dialVars>>

(* A dial that nobody waits for any more: the sender finds it closed.      *)
AcceptStray(r) ==
    /\ sender = "listening"
    /\ r \in stray
    /\ sender' = "accepted"
    /\ peer' = r
    /\ stray' = stray \ {r}
    /\ UNCHANGED <<sent, accepted, run, planVars, file, netVars, slow, unflushed>>

(* Read the request, open the source and seek to the offset.               *)
ReadRequestOffByOne ==
    /\ sender = "accepted"
    /\ peer \in up
    /\ run[peer] \in {"requested", "copying"}
    /\ sender' = "streaming"
    /\ sent' = offset[peer] - 1
    /\ UNCHANGED <<peer, accepted, run, planVars, file, netVars, dialVars>>
ReadRequestIgnoringOffset ==
    /\ sender = "accepted"
    /\ peer \in up
    /\ run[peer] \in {"requested", "copying"}
    /\ sender' = "streaming"
    /\ sent' = 0
    /\ UNCHANGED <<peer, accepted, run, planVars, file, netVars, dialVars>>
ReadRequest ==
    /\ sender = "accepted"
    /\ peer \in up
    /\ run[peer] \in {"requested", "copying"}
    /\ sender' = "streaming"
    /\ sent' = offset[peer]
    /\ UNCHANGED <<peer, accepted, run, planVars, file, netVars, dialVars>>

Stream ==
    /\ sender = "streaming"
    /\ peer \in up
    /\ sent < Size
    /\ Len(wire[peer]) < Window
    /\ wire' = [wire EXCEPT ![peer] = Append(@, Payload[sent + 1])]
    /\ sent' = sent + 1
    /\ UNCHANGED <<sender, peer, accepted, run, planVars, file, up, fin, dialVars>>

(* The source is at its end: finish the stream, wait for conn.closed().    *)
FinishPayload ==
    /\ sender = "streaming"
    /\ peer \in up
    /\ sent >= Size
    /\ sender' = "closing"
    /\ fin' = [fin EXCEPT ![peer] = TRUE]
    /\ UNCHANGED <<peer, sent, accepted, run, planVars, file, up, wire, dialVars>>

(* An error, or Ignored: back to endpoint.accept().                        *)
ServeFailsWhileStreaming ==
    /\ sender = "streaming"
    /\ peer \notin up
    /\ sender' = "listening"
    /\ sent' = 0
    /\ peer' = Nobody
    /\ UNCHANGED <<accepted, run, planVars, file, netVars, dialVars>>
ServeFails ==
    /\ sender \in {"accepted", "streaming"}
    /\ peer \notin up
    /\ sender' = "listening"
    /\ sent' = 0
    /\ peer' = Nobody
    /\ UNCHANGED <<accepted, run, planVars, file, netVars, dialVars>>

(* conn.closed() returned, for whatever reason: Sent, leave the loop.      *)
ServeEndsWithoutLeaving ==
    /\ sender = "closing"
    /\ peer \notin up
    /\ accepted' = accepted + 1
    /\ sender' = "listening"
    /\ UNCHANGED <<peer, sent, run, planVars, file, netVars, dialVars>>
ServeEnds ==
    /\ sender = "closing"
    /\ peer \notin up
    /\ accepted' = accepted + 1
    /\ sender' = "exited"
    /\ UNCHANGED <<peer, sent, run, planVars, file, netVars, dialVars>>

(* Ctrl-C is heard by the select! only: not while a connection is served.  *)
Interrupt ==
    /\ sender = "listening"
    /\ sender' = "exited"
    /\ UNCHANGED <<peer, sent, accepted, run, planVars, file, netVars, dialVars>>

-----------------------------------------------------------------------------
RecvStep(r) == Request(r) \/ Open(r) \/ Copy(r) \/ Complete(r) \/ RecvFails(r)
SendStep == ReadRequest \/ Stream \/ FinishPayload \/ ServeFails \/ ServeEnds

Next ==
    \/ \E r \in Receivers : \/ \E m \in Modes : Recv(r, m) \/ BindFails(r, m)
                            \/ FallsBack(r) \/ DialFails(r)
                            \/ RecvStep(r)
                            \/ Killed(r)
                            \/ ConnectionLost(r)
                            \/ CompleteUnflushed(r)
                            \/ Accept(r) \/ AcceptStray(r)
    \/ SendStep
    \/ Interrupt

Spec == Init /\ [][Next]_vars

(* Both programs run when they can.  Dialling ends by itself only once the *)
(* sender's endpoint is gone.                                              *)
Fairness ==
    /\ WF_vars(SendStep \/ \E r \in Receivers : Accept(r))
    /\ \A r \in Receivers :
          WF_vars(RecvStep(r) \/ (sender = "exited" /\ DialFails(r)))

FairSpec == Spec /\ Fairness

-----------------------------------------------------------------------------
(* Properties.                                                             *)

Files == Seq(STRING)

TypeOK ==
    /\ sender \in {"listening", "accepted", "streaming", "closing", "exited"}
    /\ peer \in Receivers \cup {Nobody}
    /\ sent \in Nat
    /\ accepted \in Nat
    /\ run \in [Receivers -> Ended \cup Receiving \cup Dialling]
    /\ mode \in [Receivers -> Modes \cup {"auto"}]
    /\ offset \in [Receivers -> Nat]
    /\ runs \in 0..MaxRuns
    /\ file \in [Receivers -> Files]
    /\ up \in SUBSET Receivers
    /\ wire \in [Receivers -> Files]
    /\ fin \in [Receivers -> BOOLEAN]
    /\ stray \subseteq Receivers
    /\ slow \in 0..MaxSlow
    /\ \A r \in unflushed : run[r] = "done"

(* Whatever was lost, killed and retried before, a run that completes      *)
(* (p2p.rs:24 appends blindly, without a check of size or hash) leaves the *)
(* payload from the requested offset on behind the bytes it chose to keep: *)
(* no block is missing, doubled or out of order.  Stdout may have lost the *)
(* last one (p2p.rs:164 ignores its flush).                                *)
CompletesFromOffset ==
    \A r \in Receivers :
        run[r] = "done" /\ r \notin unflushed =>
            /\ Len(file[r]) >= offset[r]
            /\ file[r] = SubSeq(file[r], 1, offset[r])
                            \o SubSeq(Payload, offset[r] + 1, Size)

(* That, of states that have their types.                                  *)
OnlyKeptBytesDiffer == TypeOK /\ CompletesFromOffset

(* README.en.md:276, "run the same `ii recv` command again and it continues*)
(* receiving": no later run without --overwrite or --stdout, no dial that  *)
(* is given up and no failure takes back a block of the payload that       *)
(* reached the file.                                                       *)
ProgressIsKept ==
    [][\A r \in Receivers :
         {mode[r], mode'[r]} \cap {"overwrite", "stdout"} = {} /\ IsPrefix(file[r], Payload) =>
             IsPrefix(file[r], file'[r])]_vars

(* README.en.md:235, plain `ii send` serves one receiver to the end: a     *)
(* receiver that completed is the one being served, whose close the sender *)
(* is about to see or has seen, so nobody is sent the payload after it.    *)
ExitsAfterSuccess ==
    \A r \in Receivers :
        run[r] = "done" => peer = r /\ sender \in {"closing", "exited"}

(* Nothing in the protocol has a timeout: a run ends because each side sees*)
(* the other's end of it, in whatever state a failure leaves them.         *)
RecvEnds ==
    \A r \in Receivers : run[r] \notin Ended ~> run[r] \in Ended

(* A completed receive lets the sender's command return.                   *)
SendEnds ==
    \A r \in Receivers : run[r] = "done" ~> sender = "exited"

(* Neither command waits for ever for the other one.                       *)
BothEnd == RecvEnds /\ SendEnds
=============================================================================
