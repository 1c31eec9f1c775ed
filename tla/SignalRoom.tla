----------------------------- MODULE SignalRoom -----------------------------
(***************************************************************************)
(* `ii webrtc` (web/webrtc.rs, service/webrtc.rs) and the script of its    *)
(* page (webrtc_page.html): a room whose pages find each other and set up  *)
(* a direct WebRTC connection for each pair, by offers, answers and        *)
(* candidates that the server keeps until they are polled.                 *)
(*                                                                         *)
(* A page has an id from its join until it is reloaded; the server forgets *)
(* an id it has not heard of for 30 s.  Of two pages the one with the      *)
(* lower id, which was there first, offers.  Requests are concurrent: they *)
(* reach the server in any order, and may fail before or after it.         *)
(***************************************************************************)
EXTENDS Integers, Sequences, FiniteSets, Functions

CONSTANTS Pages,      (* browser tabs                                      *)
          MaxPending, (* WEBRTC_MAX_PENDING_SIGNALS                        *)
          MaxIds,     (* bound: joins                                      *)
          MaxLists,   (* bound: requests for peers on their way at once    *)
          MaxTries,   (* bound: offers of one id to another                *)
          MaxFaults   (* bound: requests lost or overtaken, connections    *)
                      (* that break, pages suspended                       *)

ASSUME RoomBoundsAssumption == /\ MaxPending \in Nat \ {0} /\ MaxIds \in Nat
                               /\ MaxLists \in Nat \ {0} /\ MaxTries \in Nat
                               /\ MaxFaults \in Nat

VARIABLES
    created,  (* next_peer_id - 1                                          *)
    queue,    (* state.peers: id to its signals                            *)
    net,      (* POSTs of signals on their way to the server               *)
    id,       (* the page's peerId; 0 if it has none                       *)
    conn,     (* connections: remote id to RTCPeerConnection               *)
    offers,   (* the runs of startOffer: remote id, try, where it is       *)
    lists,    (* the answers to refreshPeers that the page has yet to take *)
    poll,     (* where pollSignals is                                      *)
    tries,    (* how often one id has offered to another                   *)
    faults,   (* how many there were                                       *)
    troubled  (* history: the pairs of ids that met a fault, a full queue  *)
              (* or an overtaken list of peers                             *)

serverVars == <<created, queue>>
page == <<id, conn, offers, lists, poll, tries>>
roomVars == <<serverVars, net, page, faults, troubled>>

Ids == 1..MaxIds
Room == DOMAIN queue

Signal(from, to, kind, n) == [from |-> from, to |-> to, kind |-> kind, n |-> n]

(* An RTCPeerConnection: the number of its own offer (0 if it has none),   *)
(* of the offer its remote description belongs to, and of those to which   *)
(* the candidates belong that wait for a remote description.               *)
NewPc(n) == [n |-> n, state |-> "new", remote |-> 0, waiting |-> {}]

RoomInit == /\ created = 0
            /\ queue = <<>>
            /\ net = {}
            /\ id = [p \in Pages |-> 0]
            /\ conn = [p \in Pages |-> <<>>]
            /\ offers = [p \in Pages |-> {}]
            /\ lists = [p \in Pages |-> <<>>]
            /\ poll = [p \in Pages |-> "off"]
            /\ tries = [i \in Ids |-> [j \in Ids |-> 0]]
            /\ faults = 0
            /\ troubled = {}

Close(p, remote) == conn' = [conn EXCEPT ![p] = Restrict(@, DOMAIN @ \ {remote})]
Set(p, remote, pc) ==
    conn' = [conn EXCEPT ![p] = [r \in DOMAIN @ \cup {remote} |->
                                    IF r = remote THEN pc ELSE @[r]]]

Trouble(pairs) == troubled' = troubled \cup pairs
Fault(pairs) == faults < MaxFaults /\ faults' = faults + 1 /\ Trouble(pairs)

-----------------------------------------------------------------------------
(* Joining and leaving.                                                    *)

(* The page joins.                                                         *)
Join(p) ==
    /\ id[p] = 0
    /\ created < MaxIds
    /\ created' = created + 1
    /\ queue' = [i \in Room \cup {created'} |-> IF i = created' THEN <<>> ELSE queue[i]]
    /\ id' = [id EXCEPT ![p] = created']
    /\ UNCHANGED <<net, conn, offers, lists, poll, tries, faults, troubled>>

(* The page is reloaded or closed.                                         *)
Reload(p) ==
    /\ id[p] # 0
    /\ id' = [id EXCEPT ![p] = 0]
    /\ conn' = [conn EXCEPT ![p] = <<>>]
    /\ offers' = [offers EXCEPT ![p] = {}]
    /\ lists' = [lists EXCEPT ![p] = <<>>]
    /\ poll' = [poll EXCEPT ![p] = "off"]
    /\ UNCHANGED <<serverVars, net, tries, faults, troubled>>

(* 30 s without a request: the page is gone, or, a fault, it was suspended;*)
(* pages that run send a heartbeat every 10 s.                             *)
Expire(i) ==
    /\ i \in Room
    /\ queue' = Restrict(queue, Room \ {i})
    /\ IF i \in Range(id) THEN Fault({}) ELSE UNCHANGED <<faults, troubled>>
    /\ UNCHANGED <<created, net, page>>

-----------------------------------------------------------------------------
(* Finding the others.                                                     *)

(* refreshPeers asks: once before the first poll, then every second,       *)
(* whether the last answer has arrived or not.                             *)
ListedAbove(i) == {j \in Room : j > i}
Listed(i) == Room \ {i}
AskPeers(p) ==
    /\ id[p] \in Room
    /\ Len(lists[p]) < (IF poll[p] = "off" THEN 1 ELSE MaxLists)
    /\ lists' = [lists EXCEPT ![p] = Append(@, Listed(id[p]))]
    /\ UNCHANGED <<serverVars, net, id, conn, offers, poll, tries, faults, troubled>>

(* The first request fails, or finds the id forgotten; polls start all the *)
(* same.  (A later one that fails changes nothing.)                        *)
FirstListFails(p) ==
    /\ id[p] # 0 /\ poll[p] = "off" /\ lists[p] = <<>>
    /\ poll' = [poll EXCEPT ![p] = "ready"]
    /\ IF id[p] \in Room THEN Fault({}) ELSE UNCHANGED <<faults, troubled>>
    /\ UNCHANGED <<serverVars, net, id, conn, offers, lists, tries>>

(* The page closes its connections to those who left and offers to those   *)
(* above it to whom it has none.  After the first list it starts to poll.  *)
TakePeers(p, k) ==
    LET peers == lists[p][k]
        kept == Restrict(conn[p], DOMAIN conn[p] \cap peers)
        new == {r \in peers \ DOMAIN kept : id[p] < r /\ tries[id[p]][r] < MaxTries}
        try == [r \in new |-> tries[id[p]][r] + 1]
    IN  /\ lists' = [lists EXCEPT ![p] = SubSeq(@, 1, k - 1) \o SubSeq(@, k + 1, Len(@))]
        /\ conn' = [conn EXCEPT ![p] = [r \in DOMAIN kept \cup new |->
                       IF r \in new THEN NewPc(try[r]) ELSE kept[r]]]
        /\ offers' = [offers EXCEPT ![p] =
                        @ \cup {[to |-> r, n |-> try[r], state |-> "creating"] : r \in new}]
        /\ tries' = [tries EXCEPT ![id[p]] =
                       [r \in Ids |-> IF r \in new THEN try[r] ELSE @[r]]]
        /\ poll' = [poll EXCEPT ![p] = IF @ = "off" THEN "ready" ELSE @]
        /\ IF k = 1 THEN UNCHANGED <<faults, troubled>>
                    ELSE Fault({{id[p], r} : r \in Ids})
        /\ UNCHANGED <<serverVars, net, id>>

-----------------------------------------------------------------------------
(* Offers.                                                                 *)

(* startOffer: when the local description is there, the offer is posted    *)
(* and candidates come up, which are posted beside it; on a connection     *)
(* that was closed meanwhile it fails.                                     *)
PostOffer(p, o) ==
    LET self == id[p] IN
    /\ o.state = "creating"
    /\ o.to \in DOMAIN conn[p] /\ conn[p][o.to].n = o.n
    /\ offers' = [offers EXCEPT ![p] = (@ \ {o}) \cup {[o EXCEPT !.state = "posting"]}]
    /\ Set(p, o.to, [conn[p][o.to] EXCEPT !.state = "offered"])
    /\ net' = net \cup {Signal(self, o.to, kind, o.n) : kind \in {"offer", "candidate"}}
    /\ UNCHANGED <<serverVars, id, lists, poll, tries, faults, troubled>>

(* Failure closes the connection to that peer, whichever it is by now.     *)
OfferFails(p, o) ==
    /\ \/ o.state = "failed"
       \/ o.state = "creating" /\ ~(o.to \in DOMAIN conn[p] /\ conn[p][o.to].n = o.n)
    /\ offers' = [offers EXCEPT ![p] = @ \ {o}]
    /\ Close(p, o.to)
    /\ UNCHANGED <<serverVars, net, id, lists, poll, tries, faults, troubled>>

-----------------------------------------------------------------------------
(* The server's part: relay() and poll().                                  *)

(* The page that posted m hears of it, if it is still there.               *)
Told(m, ok) ==
    LET sender == {p \in Pages : id[p] = m.from}
        run == [to |-> m.to, n |-> m.n, state |-> "posting"]
        failed == [run EXCEPT !.state = "failed"]
    IN  /\ offers' = [p \in Pages |->
                        IF p \in sender /\ m.kind = "offer"
                        THEN (offers[p] \ {run}) \cup (IF ok THEN {} ELSE {failed})
                        ELSE offers[p]]
        /\ poll' = [p \in Pages |-> IF p \in sender /\ m.kind = "answer"
                                    THEN "ready" ELSE poll[p]]

Missing(m) == m.from \notin Room \/ m.to \notin Room
FullAbove(m) == ~Missing(m) /\ Len(queue[m.to]) > MaxPending
Full(m) == ~Missing(m) /\ Len(queue[m.to]) >= MaxPending

Relay(m) ==
    /\ net' = net \ {m}
    /\ queue' = IF Missing(m) \/ Full(m) THEN queue
                ELSE [queue EXCEPT ![m.to] = Append(@, m)]
    /\ Told(m, ~Missing(m) /\ ~Full(m))
    /\ Trouble(IF Full(m) THEN {{m.from, m.to}} ELSE {})
    /\ UNCHANGED <<created, id, conn, lists, tries, faults>>

(* A poll returns a signal, which the page then handles; it does nothing   *)
(* else in between that could not as well come before.  A poll that returns*)
(* none is followed by another.                                            *)
Pops(p, m) ==
    /\ poll[p] = "ready"
    /\ id[p] \in Room /\ queue[id[p]] # <<>>
    /\ m = Head(queue[id[p]])
    /\ queue' = [queue EXCEPT ![id[p]] = Tail(@)]
    /\ UNCHANGED created

(* One that is answered 404 reloads the page.                              *)
PollGone(p) ==
    /\ poll[p] = "ready"
    /\ id[p] \notin Room
    /\ Reload(p)

-----------------------------------------------------------------------------
(* handleSignal                                                            *)

(* createConnection: the one there is, or a new one that does not offer.   *)
Pc(p, remote) == IF remote \in DOMAIN conn[p] THEN conn[p][remote] ELSE NewPc(0)

(* Without a remote description, a candidate waits for it.                 *)
HandleCandidate(p, m) ==
    LET pc == Pc(p, m.from) IN
    /\ m.kind = "candidate"
    /\ Set(p, m.from, IF pc.remote # 0 THEN pc
                      ELSE [pc EXCEPT !.waiting = @ \cup {m.n}])
    /\ UNCHANGED <<net, poll>>

(* The offer is described and answered, and the next poll waits until the  *)
(* answer is posted.  A candidate that waited and does not belong to it is *)
(* an error, and then no answer is sent.  A connection that was in use     *)
(* before may take the offer or refuse it.                                 *)
AnswersOffer(p, m, pc) ==
    /\ Set(p, m.from, [pc EXCEPT !.state = "stable", !.remote = m.n, !.waiting = {}])
    /\ poll' = [poll EXCEPT ![p] = "answering"]
    /\ net' = net \cup {Signal(m.to, m.from, kind, m.n) : kind \in {"answer", "candidate"}}
HandleOfferIfKnown(p, m) ==
    /\ m.kind = "offer"
    /\ IF m.from \in DOMAIN conn[p] THEN AnswersOffer(p, m, conn[p][m.from])
                                     ELSE UNCHANGED <<conn, net, poll>>
HandleOffer(p, m) ==
    LET pc == Pc(p, m.from) IN
    /\ m.kind = "offer"
    /\ \/ pc.waiting \subseteq {m.n} /\ AnswersOffer(p, m, pc)
       \/ /\ ~(pc.waiting \subseteq {m.n})
          /\ Set(p, m.from, [pc EXCEPT !.state = "new", !.remote = m.n, !.waiting = {}])
          /\ UNCHANGED <<net, poll>>
       \/ pc.remote # 0 /\ UNCHANGED <<conn, net, poll>>

(* An answer is taken by a connection that waits for one, whether it is to *)
(* its offer or to that of a connection before it; by others it is not.    *)
HandleAnswer(p, m) ==
    LET pc == Pc(p, m.from) IN
    /\ m.kind = "answer"
    /\ Set(p, m.from, IF pc.state = "offered"
                      THEN [pc EXCEPT !.state = "stable", !.remote = m.n, !.waiting = {}]
                      ELSE pc)
    /\ UNCHANGED <<net, poll>>

PollSignal(p) ==
    \E m \in (IF id[p] \in Room THEN Range(queue[id[p]]) ELSE {}) :
        /\ Pops(p, m)
        /\ HandleCandidate(p, m) \/ HandleOffer(p, m) \/ HandleAnswer(p, m)
        /\ UNCHANGED <<id, offers, lists, tries, faults, troubled>>

-----------------------------------------------------------------------------
(* The connections themselves, and faults.                                 *)

(* Both ends have described the same offer.                                *)
Paired(a, b) == /\ a.n # 0 /\ a.state = "stable" /\ a.remote = a.n
                /\ b.n = 0 /\ b.state = "stable" /\ b.remote = a.n
Awaits(a, b) == /\ a.n # 0 /\ a.state = "offered" /\ b.n = 0 /\ b.remote = a.n

Related(p, q, Rel(_, _)) ==
    /\ id[q] \in DOMAIN conn[p] /\ id[p] \in DOMAIN conn[q]
    /\ \/ Rel(conn[p][id[q]], conn[q][id[p]])
       \/ Rel(conn[q][id[p]], conn[p][id[q]])
Connected(p, q) == Related(p, q, Paired)

(* The checks of a connection without an other end fail, and close it.     *)
IceFails(p, remote) ==
    /\ remote \in DOMAIN conn[p]
    /\ conn[p][remote].state = "stable"
    /\ \A q \in Pages : id[q] = remote => ~Connected(p, q) /\ ~Related(p, q, Awaits)
    /\ Close(p, remote)
    /\ UNCHANGED <<serverVars, net, id, offers, lists, poll, tries, faults, troubled>>

(* A direct connection breaks; one of its ends notices.                    *)
LinkBreaks(p, q) ==
    /\ Connected(p, q)
    /\ Close(p, id[q])
    /\ Fault({{id[p], id[q]}})
    /\ UNCHANGED <<serverVars, net, id, offers, lists, poll, tries>>

(* A request is lost, or only the answer to it.                            *)
LoseRequest(m) ==
    /\ net' = net \ {m}
    /\ Told(m, FALSE)
    /\ Fault({{m.from, m.to}})
    /\ UNCHANGED <<serverVars, id, conn, lists, tries>>
LoseAnswer(m) ==
    /\ ~Missing(m) /\ ~Full(m)
    /\ net' = net \ {m}
    /\ queue' = [queue EXCEPT ![m.to] = Append(@, m)]
    /\ Told(m, FALSE)
    /\ Fault({{m.from, m.to}})
    /\ UNCHANGED <<created, id, conn, lists, tries>>
LosePoll(p) ==
    \E m \in (IF id[p] \in Room THEN Range(queue[id[p]]) ELSE {}) :
        /\ Pops(p, m)
        /\ Fault({{m.from, m.to}})
        /\ UNCHANGED <<net, id, conn, offers, lists, poll, tries>>

-----------------------------------------------------------------------------
Page(p) ==
    \/ AskPeers(p) \/ FirstListFails(p)
    \/ \E k \in DOMAIN lists[p] : TakePeers(p, k)
    \/ \E o \in offers[p] : PostOffer(p, o) \/ OfferFails(p, o)
    \/ PollSignal(p) \/ PollGone(p)
    \/ \E i \in DOMAIN conn[p] : IceFails(p, i)

RoomNext ==
    \/ \E p \in Pages : Join(p) \/ Reload(p) \/ Page(p) \/ LosePoll(p)
    \/ \E i \in Ids : Expire(i)
    \/ \E m \in net : Relay(m) \/ LoseRequest(m) \/ LoseAnswer(m)
    \/ \E p, q \in Pages : LinkBreaks(p, q)

RoomSpec == RoomInit /\ [][RoomNext]_roomVars

(* Browsers carry out what the script has begun, and its timers go on; the *)
(* server handles what arrives.  Nobody has to join or to leave.           *)
FairRoomSpec ==
    /\ RoomSpec
    /\ \A p \in Pages :
        /\ WF_roomVars(\/ AskPeers(p) \/ FirstListFails(p)
                       \/ \E k \in DOMAIN lists[p] : TakePeers(p, k))
        /\ WF_roomVars(\E o \in offers[p] : PostOffer(p, o) \/ OfferFails(p, o))
        /\ WF_roomVars(PollSignal(p) \/ PollGone(p))
    /\ WF_roomVars(\E m \in net : Relay(m))

-----------------------------------------------------------------------------
Signals == [from : Ids, to : Ids, kind : {"offer", "answer", "candidate"}, n : 1..MaxTries]
Pcs == [n : 0..MaxTries, state : {"new", "offered", "stable"}, remote : 0..MaxTries,
        waiting : SUBSET (1..MaxTries)]
Offers == [to : Ids, n : 1..MaxTries, state : {"creating", "posting", "failed"}]

(* No recipient has more than MaxPending signals waiting, none is in the   *)
(* room who has not joined, and a page has no connection to itself.        *)
RoomTypeOK ==
    /\ created \in 0..MaxIds
    /\ Room \subseteq 1..created
    /\ \A i \in Room : Len(queue[i]) <= MaxPending /\ Range(queue[i]) \subseteq Signals
    /\ net \subseteq Signals
    /\ id \in [Pages -> 0..created]
    /\ \A p \in Pages : /\ DOMAIN conn[p] \subseteq Ids \ {id[p]}
                        /\ Range(conn[p]) \subseteq Pcs
                        /\ offers[p] \subseteq Offers
                        /\ Len(lists[p]) <= MaxLists
                        /\ Range(lists[p]) \subseteq SUBSET Ids
    /\ poll \in [Pages -> {"off", "ready", "answering"}]
    /\ tries \in [Ids -> [Ids -> 0..MaxTries]]
    /\ faults \in 0..MaxFaults

(* Two pages that are both in the room and met no fault.                   *)
Present(p) == id[p] \in Room
Undisturbed(p, q) == Present(p) /\ Present(q) /\ {id[p], id[q]} \notin troubled

(* Once two pages are connected, nothing the script or the server does     *)
(* takes the connection away: no list of peers, no late offer, answer or   *)
(* candidate and no failing startOffer.  Only a page that leaves the room, *)
(* or a fault, does.  And no step leaves the bounds of the room            *)
(* (RoomTypeOK).                                                           *)
WorkingKept ==
    [][/\ RoomTypeOK'
       /\ \A p, q \in Pages : Connected(p, q) /\ Undisturbed(p, q)'
                             => id'[p] # id[p] \/ id'[q] # id[q] \/ Connected(p, q)']_roomVars

(* Pages that stay in the room and meet no fault get their connections, in *)
(* whichever order they joined, asked for peers and polled.                *)
AllConnect == \A p, q \in Pages : p # q /\ Undisturbed(p, q) => Connected(p, q)
PairConnects == []<>AllConnect
=============================================================================
