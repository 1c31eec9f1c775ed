------------------------------ MODULE TcpRelay ------------------------------
(***************************************************************************)
(* What `ii tunnel`, `ii socks5`, `ii proxy` and `ii tcp` do with a TCP    *)
(* connection (service/tunnel.rs, socks5.rs, network.rs): reach the target *)
(* and copy both directions, "up" from client to target and "down", until  *)
(* both have ended.                                                        *)
(*                                                                         *)
(* Bytes pass stations: "near", the process the client connected to, and,  *)
(* for a tunnel, "far", the process that shares the target; the two        *)
(* stations of a connection talk over a QUIC connection of its own.        *)
(* count[c][d][n] is the number of blocks that n has sent in direction d,  *)
(* end[c][d][n] how n has ended it; n is "app" for the application that is *)
(* the source, or a station.                                               *)
(***************************************************************************)
EXTENDS Integers, FiniteSets

CONSTANTS Conns,       (* connections a client makes                       *)
          Kinds,       (* the commands to look at                          *)
          Blocks,      (* bound: blocks an application sends, by connection*)
          MaxPermits,  (* TUNNEL_MAX_CONNECTIONS                           *)
          MaxFaults    (* bound: aborts, broken links, interrupts and      *)
                       (* applications that stop reading                   *)

ASSUME BlocksAssumption == Blocks \in [Conns -> Nat]
ASSUME PermitsAssumption == MaxPermits \in Nat \ {0} /\ MaxFaults \in Nat
ASSUME KindsAssumption == 
    Kinds \subseteq {"tcp", "socks", "bind", "udp", "proxy", "http", "tunnel"}

VARIABLES
    kind,     (* what is asked for: `ii tcp`; CONNECT, BIND and UDP        *)
              (* ASSOCIATE of socks5; CONNECT and a plain request (http) of*)
              (* proxy; a tunnel                                           *)
    near,     (* where the near station's task is                          *)
    far,      (* where the far station's task is                           *)
    answer,   (* what became of the attempt to reach the target            *)
    link,     (* the QUIC connection of a tunnelled connection             *)
    lost,     (* the directions of which it lost something                 *)
    count, end,
    faults,   (* how many there were                                       *)
    calm,     (* history: the connection had none, and its client neither  *)
              (* cut a request short, framed it wrongly nor left an        *)
              (* association idle                                          *)
    stalled   (* the directions whose receiving application has stopped    *)
              (* reading: its socket takes no more                         *)

linkVars == <<link, lost, count>>
outside == <<faults, calm, stalled>>
vars == <<kind, near, far, answer, linkVars, end, outside>>

Dirs == {"up", "down"}
Other(d) == IF d = "up" THEN "down" ELSE "up"
Nodes == {"app", "near", "far"}
Stations == IF kind = "tunnel" THEN {"near", "far"} ELSE {"near"}

(* Where station s gets direction d from, and which is the last station.   *)
Prev(d, s) == IF kind = "tunnel" /\ <<d, s>> \in {<<"up", "far">>, <<"down", "near">>}
              THEN CHOOSE t \in Stations : t # s ELSE "app"
Last(d) == IF kind = "tunnel" /\ d = "up" THEN "far" ELSE "near"

At(c, s) == IF s = "near" THEN near[c] ELSE far[c]

(* Sent to s in direction d and not yet read.                              *)
Unread(c, d, s) == count[c][d][s] < count[c][d][Prev(d, s)]

Init ==
    /\ kind \in Kinds
    /\ near = [c \in Conns |-> "idle"]
    /\ far = [c \in Conns |-> "idle"]
    /\ answer = [c \in Conns |-> "none"]
    /\ link = [c \in Conns |-> "none"]
    /\ lost = [c \in Conns |-> {}]
    /\ count = [c \in Conns |-> [d \in Dirs |-> [n \in Nodes |-> 0]]]
    /\ end = [c \in Conns |-> [d \in Dirs |-> [n \in Nodes |-> "open"]]]
    /\ faults = 0
    /\ calm = [c \in Conns |-> TRUE]
    /\ stalled = [c \in Conns |-> {}]

Goes(c, s, state) ==
    IF s = "near" THEN near' = [near EXCEPT ![c] = state] /\ UNCHANGED far
                  ELSE far' = [far EXCEPT ![c] = state] /\ UNCHANGED near

-----------------------------------------------------------------------------
(* Leaving a task drops what it holds.  A socket is closed: the peer reads *)
(* the end, or a reset if something it sent was not read.  A QUIC send     *)
(* stream is finished; the QUIC connection, of which the near task has the *)
(* last handle, is closed, and data under way may be lost.                 *)

Dropped(c, d, s) ==
    IF end[c][d][s] # "open" THEN end[c][d][s]
    ELSE IF Last(d) = s /\ Unread(c, Other(d), s) THEN "cut" ELSE "fin"

EndsOf(c, s) == [end[c] EXCEPT !["up"][s] = Dropped(c, "up", s),
                               !["down"][s] = Dropped(c, "down", s)]

(* What of direction d, sent by s, still arrives when the link breaks now: *)
(* some of the blocks under way, and the end only behind all of them.      *)
Arrivals(c, d, s) ==
    LET t == CHOOSE t \in Stations : t # s
    IN  {a \in (count[c][d][t]..count[c][d][s]) \X SUBSET {d} :
            a[2] = {} => a[1] = count[c][d][s] /\ end[c][d][s] = "fin"}

(* The task of s is over.                                                  *)
LeavesClosingLink(c, s) ==
    /\ Goes(c, s, "ended")
    /\ end' = [end EXCEPT ![c] = EndsOf(c, s)]
    /\ IF link[c] = "up"
       THEN \E a \in Arrivals(c, IF s = "near" THEN "up" ELSE "down", s) :
              /\ link' = [link EXCEPT ![c] = "closed"]
              /\ count' = [count EXCEPT ![c][IF s = "near" THEN "up" ELSE "down"][s] = a[1]]
              /\ lost' = [lost EXCEPT ![c] = a[2]]
       ELSE UNCHANGED linkVars
Leaves(c, s) ==
    /\ Goes(c, s, "ended")
    /\ end' = [end EXCEPT ![c] = EndsOf(c, s)]
    /\ IF s = "near" /\ link[c] = "up"
       THEN \E a \in Arrivals(c, "up", "near") :
              /\ link' = [link EXCEPT ![c] = "closed"]
              /\ count' = [count EXCEPT ![c]["up"]["near"] = a[1]]
              /\ lost' = [lost EXCEPT ![c] = a[2]]
       ELSE UNCHANGED linkVars

-----------------------------------------------------------------------------
(* Reaching the target.                                                    *)

(* A listener accepts a connection and spawns its task.                    *)
Accepts(c, kinds, state) ==
    /\ kind \in kinds
    /\ near[c] = "idle"
    /\ Goes(c, "near", state)
    /\ UNCHANGED <<kind, answer, linkVars, end, outside>>

SocksAccepts(c) == Accepts(c, {"socks", "bind", "udp"}, "greeting")
ProxyAccepts(c) == Accepts(c, {"proxy", "http"}, "asking")
TcpAccepts(c) == Accepts(c, {"tcp"}, "dialling")
TunnelAccepts(c) == Accepts(c, {"tunnel"}, "dialling")

Proceeds(c, state) ==
    /\ Goes(c, "near", state)
    /\ UNCHANGED <<kind, answer, linkVars, end, outside>>

Reaches(c) ==
    /\ near[c] = "dialling"
    /\ answer' = [answer EXCEPT ![c] = "reached"]
    /\ Goes(c, "near", "relaying")
    /\ UNCHANGED <<kind, linkVars, end, outside>>

Refuses(c) ==
    /\ answer' = [answer EXCEPT ![c] = "refused"]
    /\ Leaves(c, "near")
    /\ UNCHANGED <<kind, outside>>

(* socks5: the method and password, the request, the connection.  BIND     *)
(* waits for one from the peer it was told, and drops others.              *)
SocksGreeting(c) == near[c] = "greeting" /\ Proceeds(c, "asking")
SocksRequest(c) ==
    kind \in {"socks", "bind", "udp"} /\ near[c] = "asking" /\ Proceeds(c, "dialling")
SocksConnects(c) == kind = "socks" /\ Reaches(c)
BindAccepts(c) == kind = "bind" /\ Reaches(c)

(* A wrong password, version or address, a target that is not there, a     *)
(* timeout, a client that is gone.                                         *)
SocksRefuses(c) ==
    /\ kind \in {"socks", "bind", "udp"}
    /\ near[c] \in {"greeting", "asking", "dialling"}
    /\ Refuses(c)

(* proxy: the same with one request.                                       *)
ProxyRequest(c) == kind \in {"proxy", "http"} /\ near[c] = "asking" /\ Proceeds(c, "dialling")
ProxyConnects(c) == kind \in {"proxy", "http"} /\ Reaches(c)
ProxyRefuses(c) ==
    /\ kind \in {"proxy", "http"}
    /\ near[c] \in {"asking", "dialling"}
    /\ Refuses(c)

(* tcp: the target is known.                                               *)
TcpConnects(c) == kind = "tcp" /\ Reaches(c)
DialFails(c) == kind \in {"tcp", "tunnel"} /\ near[c] = "dialling" /\ Refuses(c)

-----------------------------------------------------------------------------
(* UDP ASSOCIATE: packets pass by a socket of their own, which lives as    *)
(* long as nothing comes on the connection that asked for it.              *)

Associates(c) ==
    /\ kind = "udp"
    /\ near[c] = "dialling"
    /\ answer' = [answer EXCEPT ![c] = "reached"]
    /\ Goes(c, "near", "associated")
    /\ UNCHANGED <<kind, linkVars, end, outside>>

(* A packet from the client names a host: the loop waits for the resolver. *)
(* Other packets, and those from targets, are passed on at once.           *)
UdpResolves(c) == near[c] = "associated" /\ Proceeds(c, "resolving")
UdpResolved(c) == near[c] = "resolving" /\ Proceeds(c, "associated")

(* A byte, the end or a reset, all the same.                               *)
ControlEndsAtEnd(c) ==
    /\ near[c] = "associated"
    /\ end[c]["up"]["app"] = "fin"
    /\ Leaves(c, "near")
    /\ UNCHANGED <<kind, answer, outside>>
ControlEnds(c) ==
    /\ near[c] = "associated"
    /\ Unread(c, "up", "near") \/ end[c]["up"]["app"] # "open"
    /\ Leaves(c, "near")
    /\ UNCHANGED <<kind, answer, outside>>

(* Nothing was passed on for UDP_IDLE_TIMEOUT.                             *)
UdpIdles(c) ==
    /\ near[c] = "associated"
    /\ calm' = [calm EXCEPT ![c] = FALSE]
    /\ Leaves(c, "near")
    /\ UNCHANGED <<kind, answer, faults, stalled>>

-----------------------------------------------------------------------------
(* The same as `ii tcp` through a tunnel.                                  *)

(* connect_to_peer, open_bi and the access key.                            *)
OpenStream(c) ==
    /\ kind = "tunnel"
    /\ near[c] = "dialling"
    /\ link' = [link EXCEPT ![c] = "up"]
    /\ Goes(c, "near", "asking")
    /\ UNCHANGED <<kind, answer, lost, count, end, outside>>

(* serve_tunnel_connection spawns a task for each stream, until the        *)
(* connection is gone.                                                     *)
FarAccepts(c) ==
    /\ link[c] = "up"
    /\ far[c] = "idle"
    /\ Goes(c, "far", "asking")
    /\ UNCHANGED <<kind, answer, linkVars, end, outside>>

(* The streams that hold a permit.                                         *)
HoldersWhileDialling == {c \in Conns : kind = "tunnel" /\ far[c] = "dialling"}
Holders == {c \in Conns : kind = "tunnel" /\ far[c] \in {"dialling", "relaying"}}

(* A key that is right, and a permit for it.                               *)
Acquire(c) ==
    /\ far[c] = "asking"
    /\ Cardinality(Holders) < MaxPermits
    /\ Goes(c, "far", "dialling")
    /\ UNCHANGED <<kind, answer, linkVars, end, outside>>

(* reject_tunnel_stream: a wrong key or none, no permit, no target.        *)
FarRefuses(c) ==
    /\ far[c] \in {"asking", "dialling"}
    /\ answer' = [answer EXCEPT ![c] = "refused"]
    /\ Leaves(c, "far")
    /\ UNCHANGED <<kind, outside>>

(* The target is connected to; it is dropped again if nobody can be told.  *)
FarReached(c) ==
    /\ far[c] = "dialling"
    /\ answer' = [answer EXCEPT ![c] = "reached"]
    /\ IF link[c] = "up" THEN Goes(c, "far", "relaying") /\ UNCHANGED <<linkVars, end>>
                         ELSE Leaves(c, "far")
    /\ UNCHANGED <<kind, outside>>

(* The status byte, or the loss of the link instead of it.                 *)
NearTold(c) ==
    /\ kind = "tunnel"
    /\ near[c] = "asking"
    /\ IF answer[c] = "reached" /\ link[c] = "up"
       THEN Goes(c, "near", "relaying") /\ UNCHANGED <<linkVars, end>>
       ELSE (answer[c] # "none" \/ link[c] = "closed") /\ Leaves(c, "near")
    /\ UNCHANGED <<kind, answer, outside>>

-----------------------------------------------------------------------------
(* Copying: copy_bidirectional; in a tunnel two copies under try_join; for *)
(* a plain proxy request, first the request, then the response.            *)

(* Nobody takes what s sends in direction d: the application has aborted,  *)
(* the link is gone, the other station has left.                           *)
Broken(c, d, s) ==
    IF Last(d) = s THEN end[c][Other(d)]["app"] = "cut"
    ELSE link[c] = "closed" \/ At(c, CHOOSE t \in Stations : t # s) = "ended"

(* ... or nobody does, and s waits for as long as that lasts.              *)
Blocked(c, d, s) == Last(d) = s /\ d \in stalled[c]

(* Whether s copies direction d now.                                       *)
OpenBothWays(c, d, s) ==
    /\ At(c, s) = "relaying"
    /\ end[c][d][s] = "open"
Open(c, d, s) ==
    /\ At(c, s) = "relaying"
    /\ end[c][d][s] = "open"
    /\ kind = "http" /\ d = "down" => end[c]["up"][s] = "fin"

(* A read that fails: a reset, which discards what came before it, or the  *)
(* end of what a broken link has left.                                     *)
InputLost(c, d, s) ==
    IF Prev(d, s) = "app" THEN end[c][d]["app"] = "cut"
                          ELSE d \in lost[c] /\ ~Unread(c, d, s)

CopyAgain(c, d, s) ==
    /\ Open(c, d, s)
    /\ ~InputLost(c, d, s)
    /\ ~Broken(c, d, s) /\ ~Blocked(c, d, s)
    /\ count[c][d][s] < Blocks[c]
    /\ count' = [count EXCEPT ![c][d][s] = @ + 1]
    /\ UNCHANGED <<kind, near, far, answer, link, lost, end, outside>>
Copy(c, d, s) ==
    /\ Open(c, d, s)
    /\ Unread(c, d, s)
    /\ ~InputLost(c, d, s)
    /\ ~Broken(c, d, s) /\ ~Blocked(c, d, s)
    /\ count' = [count EXCEPT ![c][d][s] = @ + 1]
    /\ UNCHANGED <<kind, near, far, answer, link, lost, end, outside>>

(* The end of the input; of a request, its last byte.                      *)
AtEnd(c, d, s) ==
    /\ ~Unread(c, d, s)
    /\ IF kind = "http" /\ d = "up" THEN count[c][d][s] = Blocks[c]
                                   ELSE end[c][d][Prev(d, s)] = "fin" /\ ~InputLost(c, d, s)

(* ... is passed on; behind both of them the task ends.                    *)
PassEndEndingBoth(c, d, s) ==
    /\ Open(c, d, s)
    /\ AtEnd(c, d, s)
    /\ Leaves(c, s)
    /\ UNCHANGED <<kind, answer, outside>>
PassEndOfLast(c, d, s) ==
    /\ Open(c, d, s)
    /\ AtEnd(c, d, s)
    /\ end[c][Other(d)][s] = "fin"
    /\ Leaves(c, s)
    /\ UNCHANGED <<kind, answer, outside>>
PassEnd(c, d, s) ==
    /\ Open(c, d, s)
    /\ AtEnd(c, d, s)
    /\ IF end[c][Other(d)][s] = "open"
       THEN end' = [end EXCEPT ![c][d][s] = "fin"] /\ UNCHANGED <<near, far, linkVars>>
       ELSE Leaves(c, s)
    /\ UNCHANGED <<kind, answer, outside>>

(* A plain request is shorter than it says.                                *)
EndsEarly(c, d) == /\ kind = "http" /\ d = "up"
                   /\ end[c][d]["app"] = "fin" /\ count[c][d]["app"] < Blocks[c]

(* An error in one direction ends both.                                    *)
Fails(c, d, s) ==
    /\ Open(c, d, s)
    /\ \/ InputLost(c, d, s)
       \/ Unread(c, d, s) /\ Broken(c, d, s)
       \/ EndsEarly(c, d) /\ ~Unread(c, d, s)
    /\ Leaves(c, s)
    /\ UNCHANGED <<kind, answer, outside>>

(* forward_proxy_request or a relay of the body does not understand the    *)
(* framing of a plain request: whatever has been forwarded of it, the      *)
(* target then reads an end like any other.                                *)
BadFraming(c) ==
    /\ kind = "http"
    /\ Open(c, "up", "near")
    /\ calm' = [calm EXCEPT ![c] = FALSE]
    /\ Leaves(c, "near")
    /\ UNCHANGED <<kind, answer, faults, stalled>>

-----------------------------------------------------------------------------
(* The environment.                                                        *)

(* The client from when it is connected, the target from when it is.       *)
Sources == IF kind = "udp" THEN {"up"} ELSE Dirs
Alive(c, d) == /\ d \in Sources
               /\ IF d = "up" THEN near[c] # "idle" ELSE answer[c] = "reached"

Write(c, d) ==
    /\ Alive(c, d)
    /\ end[c][d]["app"] = "open"
    /\ count[c][d]["app"] < Blocks[c]
    /\ count' = [count EXCEPT ![c][d]["app"] = @ + 1]
    /\ UNCHANGED <<kind, near, far, answer, link, lost, end, outside>>

CloseWrite(c, d) ==
    /\ Alive(c, d)
    /\ end[c][d]["app"] = "open"
    /\ end' = [end EXCEPT ![c][d]["app"] = "fin"]
    /\ UNCHANGED <<kind, near, far, answer, linkVars, faults, stalled>>
    /\ calm' = [calm EXCEPT ![c] = @ /\ ~EndsEarly(c, d)']

Fault(c) == /\ faults < MaxFaults
            /\ faults' = faults + 1
            /\ calm' = [calm EXCEPT ![c] = FALSE]
            /\ UNCHANGED stalled

(* The application that receives d has stopped reading, for good: what the *)
(* relay writes to it fills the socket, and then waits.                    *)
StopsReading(c, d) ==
    /\ kind # "udp"
    /\ Alive(c, Other(d))
    /\ d \notin stalled[c]
    /\ faults < MaxFaults
    /\ faults' = faults + 1
    /\ stalled' = [stalled EXCEPT ![c] = @ \cup {d}]
    /\ UNCHANGED <<kind, near, far, answer, linkVars, end, calm>>

(* The application that is the source of d is gone, or reset.              *)
Abort(c, d) ==
    /\ Alive(c, d)
    /\ end[c][d]["app"] # "cut"
    /\ end' = [end EXCEPT ![c][d]["app"] = "cut"]
    /\ Fault(c)
    /\ UNCHANGED <<kind, near, far, answer, linkVars>>

(* The QUIC connection breaks or times out.                                *)
LinkLost(c) ==
    /\ link[c] = "up"
    /\ link' = [link EXCEPT ![c] = "closed"]
    /\ \E a \in Arrivals(c, "up", "near"), b \in Arrivals(c, "down", "far") :
         /\ count' = [count EXCEPT ![c]["up"]["near"] = a[1], ![c]["down"]["far"] = b[1]]
         /\ lost' = [lost EXCEPT ![c] = a[2] \cup b[2]]
    /\ Fault(c)
    /\ UNCHANGED <<kind, near, far, answer, end>>

(* Ctrl-C, or an error of the listener's accept, ends a process and drops  *)
(* its tasks.                                                              *)
Interrupt(c, s) ==
    /\ At(c, s) \notin {"idle", "ended"}
    /\ Leaves(c, s)
    /\ Fault(c)
    /\ UNCHANGED <<kind, answer>>

-----------------------------------------------------------------------------
Step(c, s) == \E d \in Dirs : Copy(c, d, s) \/ PassEnd(c, d, s) \/ Fails(c, d, s)

Setup(c) ==
    \/ SocksGreeting(c) \/ SocksRequest(c) \/ SocksConnects(c) \/ BindAccepts(c)
    \/ SocksRefuses(c)
    \/ ProxyRequest(c) \/ ProxyConnects(c) \/ ProxyRefuses(c)
    \/ TcpConnects(c) \/ DialFails(c) \/ Associates(c)
    \/ OpenStream(c) \/ FarAccepts(c) \/ Acquire(c) \/ FarRefuses(c) \/ FarReached(c) \/ NearTold(c)

Next == \E c \in Conns :
    \/ SocksAccepts(c) \/ ProxyAccepts(c) \/ TcpAccepts(c) \/ TunnelAccepts(c)
    \/ Setup(c)
    \/ UdpResolves(c) \/ UdpResolved(c) \/ ControlEnds(c) \/ UdpIdles(c)
    \/ \E s \in Stations : Step(c, s) \/ Interrupt(c, s)
    \/ BadFraming(c)
    \/ \E d \in Dirs : Write(c, d) \/ CloseWrite(c, d) \/ Abort(c, d) \/ StopsReading(c, d)
    \/ LinkLost(c)

(* Tasks are polled when they are ready.  An attempt to reach the target   *)
(* ends, one way or the other, by the timeouts of the code, of TCP and of  *)
(* QUIC, that to resolve a name by the resolver's; an application does as  *)
(* it likes.  The select of an association picks at random among what is   *)
(* ready, so that packets cannot keep it from hearing its control stream.  *)
Fairness == \A c \in Conns :
    /\ WF_vars(Setup(c))
    /\ WF_vars(UdpResolved(c))
    /\ SF_vars(ControlEnds(c))
    /\ \A s \in {"near", "far"} : WF_vars(s \in Stations /\ Step(c, s))

Spec == Init /\ [][Next]_vars
FairSpec == Spec /\ Fairness

-----------------------------------------------------------------------------
(* Properties.                                                             *)

Task == {"idle", "greeting", "asking", "dialling", "relaying", "associated", "resolving",
         "ended"}

TypeOK ==
    /\ kind \in Kinds
    /\ near \in [Conns -> Task]
    /\ far \in [Conns -> Task]
    /\ answer \in [Conns -> {"none", "reached", "refused"}]
    /\ link \in [Conns -> {"none", "up", "closed"}]
    /\ lost \in [Conns -> SUBSET Dirs]
    /\ end \in [Conns -> [Dirs -> [Nodes -> {"open", "fin", "cut"}]]]
    /\ faults \in 0..MaxFaults
    /\ calm \in [Conns -> BOOLEAN]
    /\ stalled \in [Conns -> SUBSET Dirs]
    /\ \A c \in Conns, d \in Dirs :
         /\ \A s \in Stations : count[c][d][s] \in 0..count[c][d][Prev(d, s)]
         /\ count[c][d]["app"] \in 0..Blocks[c]

(* "at most 64 at a time" (ii.md:405): the target of a tunnel never has    *)
(* more connections than there are permits, for a permit is held from      *)
(* before the connection is made until after it is dropped.                *)
WithinPermits ==
    /\ TypeOK
    /\ kind = "tunnel" =>
         Cardinality({c \in Conns : answer[c] = "reached" /\ far[c] # "ended"}) <= MaxPermits

(* An application that reads the end of the stream has read all of it,     *)
(* unless there was a fault: ends never overtake data, at no station.  One *)
(* way of a tunnel is exempt once the near station is done, for it closes  *)
(* the QUIC connection without waiting for what it sent last.  So is the   *)
(* request of a client that cut it short or framed it wrongly: its target  *)
(* reads an end like any other, perhaps in the middle of the body          *)
(* (network.rs:286, 314 close both connections), and only the framing of   *)
(* HTTP itself can tell.                                                   *)
Exempt(c, d) == kind = "tunnel" /\ d = "up" /\ near[c] = "ended"
EndIsComplete ==
    \A c \in Conns, d \in Dirs :
        (/\ kind # "udp" /\ calm[c] /\ answer[c] = "reached" /\ ~Exempt(c, d)
         /\ end[c][d][Last(d)] # "open")
        => /\ end[c][d][Last(d)] = "fin"
           /\ count[c][d][Last(d)] = count[c][d]["app"]
           /\ IF kind = "http" /\ d = "up" THEN count[c][d]["app"] = Blocks[c]
                                          ELSE end[c][d]["app"] = "fin"

(* A direction that has ended leaves the other one open: no task is over   *)
(* before both applications have ended (for a plain request: the target;   *)
(* for an association: the client, by whatever it sends).                  *)
HalfCloseKept ==
    \A c \in Conns : calm[c] /\ answer[c] = "reached" =>
        \A s \in Stations : At(c, s) = "ended" =>
            \A d \in Sources : (kind = "http" => d = "down") =>
                \/ end[c][d]["app"] = "fin"
                \/ kind = "udp" /\ count[c][d]["app"] > 0

(* A plain request that was broken off, for whatever reason, gets no       *)
(* answer: what the target makes of the part it got never reaches a client *)
(* (network.rs:128 copies the response once the request is through).*)
OnlyWholeAnswered ==
    \A c \in Conns : kind = "http" /\ count[c]["down"]["near"] > 0 =>
        count[c]["up"]["near"] = Blocks[c]

(* Neither an end in the same direction nor one in the other costs data.   *)
EndsAreOrderly == EndIsComplete /\ HalfCloseKept /\ OnlyWholeAnswered

(* Something is there for an application that has stopped reading.         *)
WaitsForReader(c) ==
    \E d \in stalled[c] : /\ Unread(c, d, Last(d))
                          /\ Open(c, d, Last(d)) /\ ~Broken(c, d, Last(d))

(* Once both applications have ended, however they did and whatever was    *)
(* lost on the way, the tasks end, and a tunnel's permit comes back: no    *)
(* station waits for ever for one that has left, and no association for    *)
(* packets.  Only an application that has ended its side, stays and reads  *)
(* no more of the other keeps a task, and a permit, for ever: no write has *)
(* a timeout (tunnel.rs:296).                                              *)
RelayEnds ==
    \A c \in Conns :
        (\A d \in Sources : end[c][d]["app"] # "open")
            ~> \/ \A s \in Stations : At(c, s) \in {"idle", "ended"}
               \/ WaitsForReader(c)
=============================================================================
