------------------------------ MODULE UdpSessions ------------------------------
(***************************************************************************)
(* The UDP forwarder (service/network.rs): one loop receives the packets   *)
(* of all clients, keeps a table with a session per client address, and    *)
(* hands each packet to the session's task through a bounded channel; the  *)
(* task resolves the target, forwards, and returns what the target sends.  *)
(* Two clocks end a session: the table forgets a client that has sent      *)
(* nothing for UDP_IDLE_TIMEOUT, whatever the target sends it, which       *)
(* closes the channel; the task gives up when nothing has come from either *)
(* side for as long.  The table hears of a task that has ended only when   *)
(* the next packet cannot be handed over.                                  *)
(*                                                                         *)
(* Time goes in periods of the table's clean-up.                           *)
(***************************************************************************)
EXTENDS Naturals

CONSTANTS Addresses,    (* of clients                                      *)
          Capacity,     (* of a session's channel: 64                      *)
          Timeout,      (* UDP_IDLE_TIMEOUT, in periods: 5                 *)
          MaxSessions,  (* bound: sessions that are opened                 *)
          MaxPackets,   (* bound: packets of each client                   *)
          MaxFailures   (* bound: sessions that fail                       *)

ASSUME SizesAssumption == Capacity \in Nat \ {0} /\ Timeout \in Nat \ {0}
ASSUME BoundsAssumption ==
    MaxSessions \in Nat /\ MaxPackets \in [Addresses -> Nat] /\ MaxFailures \in Nat

Sids == 1..MaxSessions
NoSession == 0
Idle == [peer |-> "none", session |-> NoSession]

VARIABLES
    table,      (* client to the session it has, or NoSession              *)
    activity,   (* client to the periods since its last packet             *)
    loop,       (* the packet the loop is handing over, or Idle            *)
    cleanup,    (* the clean-up is due                                     *)
    state,      (* of each session's task                                  *)
    peer,       (* the client a session is for                             *)
    queue,      (* how many packets the channel to its task holds          *)
    quiet,      (* periods since its task had something to do              *)
    sent,       (* packets received from each client                       *)
    failures,   (* how many sessions failed                                *)
    wasted      (* history: packets a session was sent after its end       *)

sessionVars == <<state, peer, queue, quiet>>
udpVars == <<table, activity, loop, cleanup, sessionVars, sent, failures, wasted>>

UdpInit == /\ table = [p \in Addresses |-> NoSession]
           /\ activity = [p \in Addresses |-> 0]
           /\ loop = Idle
           /\ cleanup = TRUE
           /\ state = [s \in Sids |-> "none"]
           /\ peer = [s \in Sids |-> "none"]
           /\ queue = [s \in Sids |-> 0]
           /\ quiet = [s \in Sids |-> 0]
           /\ sent = [p \in Addresses |-> 0]
           /\ failures = 0
           /\ wasted = [s \in Sids |-> 0]

Live(s) == state[s] \in {"resolving", "up"}

(* All senders of the channel are gone: the table's, and the loop's clone. *)
Closed(s) == table[peer[s]] # s /\ loop.session # s

-----------------------------------------------------------------------------
(* The loop of udp().                                                      *)

UsesSession(p) ==
    /\ table[p] # NoSession
    /\ loop' = [peer |-> p, session |-> table[p]]
    /\ UNCHANGED <<table, state, peer, quiet>>

OpensSession(p) ==
    /\ table[p] = NoSession
    /\ \E s \in Sids :
          /\ state[s] = "none" /\ \A r \in Sids : r < s => state[r] # "none"
          /\ table' = [table EXCEPT ![p] = s]
          /\ state' = [state EXCEPT ![s] = "resolving"]
          /\ peer' = [peer EXCEPT ![s] = p]
          /\ quiet' = [quiet EXCEPT ![s] = 0]
          /\ loop' = [peer |-> p, session |-> s]

Receives(p) ==
    /\ loop = Idle
    /\ sent[p] < MaxPackets[p]
    /\ sent' = [sent EXCEPT ![p] = @ + 1]
    /\ activity' = [activity EXCEPT ![p] = 0]
    /\ UsesSession(p) \/ OpensSession(p)
    /\ UNCHANGED <<cleanup, queue, failures, wasted>>

(* sender.send(packet).await: waits for room in the channel.               *)
HandsOver ==
    LET s == loop.session
    IN  /\ loop # Idle
        /\ Live(s) /\ queue[s] < Capacity
        /\ queue' = [queue EXCEPT ![s] = @ + 1]
        /\ loop' = Idle
        /\ UNCHANGED <<table, activity, cleanup, state, peer, quiet, sent, failures, wasted>>

LosesKeeping ==
    LET s == loop.session
    IN  /\ loop # Idle
        /\ ~Live(s)
        /\ loop' = Idle
        /\ wasted' = [wasted EXCEPT ![s] = @ + 1]
        /\ UNCHANGED <<table, activity, cleanup, sessionVars, sent, failures>>
Loses ==
    LET s == loop.session
    IN  /\ loop # Idle
        /\ ~Live(s)
        /\ table' = [table EXCEPT ![loop.peer] = NoSession]
        /\ loop' = Idle
        /\ wasted' = [wasted EXCEPT ![s] = @ + 1]
        /\ UNCHANGED <<activity, cleanup, sessionVars, sent, failures>>

CleansUpEnded ==
    /\ loop = Idle /\ cleanup
    /\ cleanup' = FALSE
    /\ table' = [p \in Addresses |-> IF table[p] # NoSession /\ quiet[table[p]] >= Timeout
                                     THEN NoSession ELSE table[p]]
    /\ UNCHANGED <<activity, loop, sessionVars, sent, failures, wasted>>
CleansUpEarly ==
    /\ loop = Idle /\ cleanup
    /\ cleanup' = FALSE
    /\ table' = [p \in Addresses |-> IF activity[p] + 1 >= Timeout THEN NoSession ELSE table[p]]
    /\ UNCHANGED <<activity, loop, sessionVars, sent, failures, wasted>>
CleansUp ==
    /\ loop = Idle /\ cleanup
    /\ cleanup' = FALSE
    /\ table' = [p \in Addresses |-> IF activity[p] >= Timeout THEN NoSession ELSE table[p]]
    /\ UNCHANGED <<activity, loop, sessionVars, sent, failures, wasted>>

-----------------------------------------------------------------------------
(* run_udp_session.  Ends: the receiver is dropped, and with it what is    *)
(* still in the channel.                                                   *)

Ends(s) ==
    /\ state' = [state EXCEPT ![s] = "ended"]
    /\ queue' = [queue EXCEPT ![s] = 0]
    /\ quiet' = [quiet EXCEPT ![s] = 0]
    /\ UNCHANGED <<table, activity, loop, cleanup, peer, sent, wasted>>

Resolves(s) ==
    /\ state[s] = "resolving"
    /\ state' = [state EXCEPT ![s] = "up"]
    /\ quiet' = [quiet EXCEPT ![s] = 0]
    /\ UNCHANGED <<table, activity, loop, cleanup, peer, queue, sent, failures, wasted>>

Forwards(s) ==
    /\ state[s] = "up"
    /\ queue[s] > 0
    /\ queue' = [queue EXCEPT ![s] = @ - 1]
    /\ quiet' = [quiet EXCEPT ![s] = 0]
    /\ UNCHANGED <<table, activity, loop, cleanup, state, peer, sent, failures, wasted>>

Returns(s) ==
    /\ state[s] = "up"
    /\ quiet' = [quiet EXCEPT ![s] = 0]
    /\ UNCHANGED <<table, activity, loop, cleanup, state, peer, queue, sent, failures, wasted>>

(* The target cannot be resolved or reached, or the client cannot.         *)
SessionFails(s) ==
    /\ Live(s)
    /\ failures < MaxFailures
    /\ failures' = failures + 1
    /\ Ends(s)

TimesOut(s) == /\ state[s] = "up" /\ quiet[s] >= Timeout
               /\ Ends(s)
               /\ UNCHANGED failures

ChannelCloses(s) == /\ state[s] = "up" /\ queue[s] = 0 /\ Closed(s)
                    /\ Ends(s)
                    /\ UNCHANGED failures

-----------------------------------------------------------------------------
(* A period passes.  No timer is late by a whole one: what is due has been *)
(* done.  Only resolving may take long, and whoever waits for it.          *)
Older(n) == IF n < Timeout THEN n + 1 ELSE n

Tick ==
    /\ cleanup => loop # Idle
    /\ \A s \in Sids : state[s] = "up" => queue[s] = 0 /\ quiet[s] < Timeout
    /\ loop # Idle => state[loop.session] = "resolving"
    /\ cleanup' = TRUE
    /\ activity' = [p \in Addresses |-> Older(activity[p])]
    /\ quiet' = [s \in Sids |-> IF state[s] = "up" THEN Older(quiet[s]) ELSE quiet[s]]
    /\ UNCHANGED <<table, loop, state, peer, queue, sent, failures, wasted>>

-----------------------------------------------------------------------------
SessionNext(s) == \/ Resolves(s) \/ Forwards(s) \/ Returns(s)
                  \/ SessionFails(s) \/ TimesOut(s) \/ ChannelCloses(s)

Loop == HandsOver \/ Loses \/ CleansUp

UdpNext == \/ \E p \in Addresses : Receives(p)
           \/ Loop \/ Tick
           \/ \E s \in Sids : SessionNext(s)

(* The loop, time and the tasks go on; nobody has to send anything.        *)
UdpFairness ==
    /\ WF_udpVars(Loop \/ Tick)
    /\ \A s \in Sids : WF_udpVars(Resolves(s) \/ Forwards(s) \/ ChannelCloses(s) \/ TimesOut(s))

UdpSpec == UdpInit /\ [][UdpNext]_udpVars /\ UdpFairness

-----------------------------------------------------------------------------
(* Types.                                                                  *)
UdpTypeOK ==
    /\ table \in [Addresses -> Sids \cup {NoSession}]
    /\ state \in [Sids -> {"none", "resolving", "up", "ended"}]
    /\ peer \in [Sids -> Addresses \cup {"none"}]
    /\ activity \in [Addresses -> 0..Timeout] /\ quiet \in [Sids -> 0..Timeout]
    /\ queue \in [Sids -> 0..Capacity]

(* A client has one session: what it sends goes to that of the table, and  *)
(* an older task of the same client gets nothing any more, it only drains. *)
(* A session that has ended costs at most one more packet.                 *)
OneSession ==
    /\ UdpTypeOK
    /\ \A s \in Sids : wasted[s] <= 1
    /\ \A s \in Sids : (Live(s) /\ table[peer[s]] # s) => Closed(s)
    /\ \A p \in Addresses : table[p] # NoSession => peer[table[p]] = p

(* As long as a client sends, its session stays: one that ends, or leaves  *)
(* the table, and has not failed, has a client that was silent for the     *)
(* whole timeout or sent in the very instant.                              *)
ActiveIsKept ==
    [][\A p \in Addresses, s \in Sids :
          (table[p] = s /\ Live(s) /\ (table'[p] # s \/ ~Live(s)') /\ failures' = failures)
             => \/ activity[p] >= Timeout
                \/ queue[s] > 0
                \/ loop.session = s]_udpVars

(* The sessions of clients that have gone are given up, even when their    *)
(* targets never stop sending.                                             *)
SessionsEnd == \A s \in Sids : Live(s) ~> (~Live(s) \/ activity[peer[s]] = 0)
=============================================================================
