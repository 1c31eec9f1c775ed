---------------------------- MODULE NetworkProofs ----------------------------
(***************************************************************************)
(* Proofs about the forwarders of service/network.rs, TcpRelay and then    *)
(* UdpSessions, for any number of connections, clients, permits, blocks,   *)
(* capacities and faults.                                                  *)
(*                                                                         *)
(* The inductive invariant of TcpRelay, IInv, follows an end through the   *)
(* stations: none passes one on before it has read everything, nor before  *)
(* the one it reads from has.  That of UdpSessions, UdpInv, is what the    *)
(* table, the loop and the tasks know of each other, and the two clocks    *)
(* compared.                                                               *)
(***************************************************************************)
EXTENDS TcpRelay, UdpSessions, FiniteSetTheorems, TLAPS

(* The types, one connection at a time.                                    *)
TaskTypes ==
    /\ kind \in Kinds
    /\ near \in [Conns -> Task]
    /\ far \in [Conns -> {"idle", "asking", "dialling", "relaying", "ended"}]
    /\ answer \in [Conns -> {"none", "reached", "refused"}]
    /\ link \in [Conns -> {"none", "up", "closed"}]
    /\ lost \in [Conns -> SUBSET Dirs]
    /\ faults \in 0..MaxFaults
    /\ calm \in [Conns -> BOOLEAN]
    /\ stalled \in [Conns -> SUBSET Dirs]

StreamTypes ==
    /\ end \in [Conns -> [Dirs -> [Nodes -> {"open", "fin", "cut"}]]]
    /\ count \in [Conns -> [Dirs -> [Nodes -> Nat]]]

Bounded(c) ==
    \A d \in Dirs : /\ count[c][d]["app"] <= Blocks[c]
                    /\ \A s \in Stations : count[c][d][s] <= count[c][d][Prev(d, s)]

(* Who has a permit, and who has a target (a tunnel has no greeting).      *)
PermitsKept == IsFiniteSet(Holders) /\ Cardinality(Holders) <= MaxPermits

HoldsItsTarget(c) ==
    /\ kind = "tunnel" /\ answer[c] = "reached" => far[c] \in {"relaying", "ended"}
    /\ kind # "tunnel" => far[c] = "idle" /\ link[c] = "none" /\ lost[c] = {}
    /\ kind = "tunnel" => near[c] # "greeting"

(* A station that is done has left nothing open.                           *)
LeavesNothingOpen(c) ==
    \A s \in Stations, d \in Dirs : At(c, s) = "ended" => end[c][d][s] # "open"

(* How far the tasks of a connection are that had no fault ...             *)
Untunnelled(c) ==
    \/ near[c] \in {"idle", "greeting", "asking", "dialling"} /\ answer[c] = "none"
    \/ near[c] = "ended" /\ answer[c] = "refused"
    \/ near[c] \in {"relaying", "associated", "resolving", "ended"} /\ answer[c] = "reached"

Tunnelled(c) ==
    \/ /\ near[c] \in {"idle", "dialling"} /\ far[c] = "idle"
       /\ answer[c] = "none" /\ link[c] = "none"
    \/ /\ near[c] = "asking" /\ far[c] \in {"idle", "asking", "dialling"}
       /\ answer[c] = "none" /\ link[c] = "up"
    \/ answer[c] = "refused" /\ far[c] = "ended" /\ near[c] \notin {"idle", "dialling"}
    \/ answer[c] = "refused" /\ far[c] = "idle" /\ link[c] = "none" /\ near[c] = "ended"
    \/ answer[c] = "reached" /\ near[c] \in {"asking", "relaying"} /\ link[c] = "up"
    \/ answer[c] = "reached" /\ near[c] = "ended"

Advances(c) ==
    /\ IF kind = "tunnel" THEN Tunnelled(c) ELSE Untunnelled(c)
    /\ near[c] = "relaying" => kind # "udp"
    /\ near[c] \in {"associated", "resolving"} => kind = "udp"
    /\ lost[c] \subseteq (IF near[c] = "ended" THEN {"up"} ELSE {})

(* ... what its applications have done ...                                 *)
SourcesAreCalm(c) ==
    \A d \in Dirs : /\ end[c][d]["app"] # "cut"
                    /\ kind = "http" /\ d = "up" /\ end[c][d]["app"] = "fin"
                         => count[c][d]["app"] = Blocks[c]

(* ... and who has passed an end on.                                       *)
NotYetPassed(c) ==
    \A d \in Dirs :
        /\ answer[c] = "none" => \A s \in Stations : end[c][d][s] = "open"
        /\ near[c] = "asking" => end[c][d]["near"] = "open"

Passed(c, d, s) ==
    /\ end[c][d][s] = "fin"
    /\ Exempt(c, d) \/ ~Unread(c, d, s)
    /\ IF kind = "http" /\ d = "up" THEN count[c][d][s] = Blocks[c]
                                   ELSE end[c][d][Prev(d, s)] = "fin"

PassesInOrder(c) ==
    answer[c] = "reached" /\ kind # "udp" =>
        \A d \in Dirs, s \in Stations :
            end[c][d][s] # "open" /\ ~(s = "far" /\ Exempt(c, d)) => Passed(c, d, s)

Controlled(c) ==
    kind = "udp" /\ answer[c] = "reached" /\ near[c] = "ended" =>
        end[c]["up"]["app"] = "fin" \/ count[c]["up"]["app"] > 0

Orderly(c) == /\ Advances(c)
              /\ SourcesAreCalm(c)
              /\ NotYetPassed(c)
              /\ PassesInOrder(c)
              /\ Controlled(c)

Fits(c) == /\ Bounded(c)
           /\ HoldsItsTarget(c)
           /\ LeavesNothingOpen(c)
           /\ calm[c] => Orderly(c)

IInv == /\ TaskTypes
        /\ StreamTypes
        /\ PermitsKept
        /\ \A c \in Conns : Fits(c)

(* A step is about connection c when it leaves the others as they are.     *)
Untouched(x) ==
    /\ near'[x] = near[x] /\ far'[x] = far[x]
    /\ answer'[x] = answer[x] /\ link'[x] = link[x] /\ lost'[x] = lost[x]
    /\ count'[x] = count[x] /\ end'[x] = end[x] /\ calm'[x] = calm[x]

IsAbout(c) == kind' = kind /\ \A x \in Conns \ {c} : Untouched(x)

(* What it comes to that the task of s is over.                            *)
Left(c, s) ==
    /\ \A d \in Dirs : /\ end'[c][d][s] = Dropped(c, d, s)
                       /\ \A n \in Nodes \ {s} : end'[c][d][n] = end[c][d][n]
    /\ \A x \in Conns \ {c} : /\ end'[x] = end[x] /\ count'[x] = count[x]
                              /\ link'[x] = link[x] /\ lost'[x] = lost[x]
    /\ \/ UNCHANGED linkVars
       \/ /\ kind = "tunnel" /\ s = "near"
          /\ link[c] = "up" /\ link'[c] = "closed"
          /\ lost'[c] \in SUBSET {"up"}
          /\ \A d \in Dirs, n \in Nodes :
               <<d, n>> # <<"up", "near">> => count'[c][d][n] = count[c][d][n]
          /\ count[c]["up"]["far"] <= count'[c]["up"]["near"]
          /\ count'[c]["up"]["near"] <= count[c]["up"]["near"]
    /\ StreamTypes'
    /\ link' \in [Conns -> {"none", "up", "closed"}]
    /\ lost' \in [Conns -> SUBSET Dirs]
    /\ Goes(c, s, "ended")
-----------------------------------------------------------------------------
(* The other station of a tunnel, and where a direction comes from.        *)
LEMMA Peers ==
    ASSUME kind = "tunnel"
    PROVE  /\ (CHOOSE t \in Stations : t # "near") = "far"
           /\ (CHOOSE t \in Stations : t # "far") = "near"
<1>1. Stations = {"near", "far"}
  BY DEF Stations
<1>2. PICK t \in Stations : t # "near" /\ t = CHOOSE u \in Stations : u # "near"
  <2>1. \E s \in Stations : s # "near"
    BY <1>1
  <2> QED
    BY <2>1
<1>3. PICK v \in Stations : v # "far" /\ v = CHOOSE u \in Stations : u # "far"
  <2>1. \E v \in Stations : v # "far"
    BY <1>1
  <2> QED
    BY <2>1
<1> QED
  BY <1>1, <1>2, <1>3

LEMMA Before ==
    ASSUME NEW d \in Dirs
    PROVE  /\ Prev(d, "near") = IF kind = "tunnel" /\ d = "down" THEN "far" ELSE "app"
           /\ Prev(d, "far") = IF kind = "tunnel" /\ d = "up" THEN "near" ELSE "app"
BY Peers DEF Prev, Dirs

LEMMA SameBefore ==
    ASSUME kind' = kind
    PROVE  /\ Stations' = Stations
           /\ \A d \in Dirs, s \in Stations : Prev(d, s)' = Prev(d, s)
BY DEF Stations, Prev

(* A connection that a step leaves as it is still fits.                    *)
LEMMA UntouchedFits ==
    ASSUME NEW x \in Conns, Fits(x), kind' = kind, Untouched(x)
    PROVE  Fits(x)'
<1>0. /\ Stations' = Stations
      /\ \A d \in Dirs, s \in Stations : Prev(d, s)' = Prev(d, s)
  BY SameBefore
<1>1. Bounded(x)'
  BY <1>0 DEF Fits, Untouched, Bounded
<1>2. HoldsItsTarget(x)'
  BY DEF Fits, Untouched, HoldsItsTarget
<1>3. LeavesNothingOpen(x)'
  BY <1>0 DEF Fits, Untouched, LeavesNothingOpen, At
<1>4. ASSUME calm'[x] PROVE Orderly(x)'
  <2>0. Orderly(x)
    BY <1>4 DEF Fits, Untouched
  <2>1. Advances(x)'
    BY <2>0 DEF Untouched, Orderly, Advances, Tunnelled, Untunnelled
  <2>2. SourcesAreCalm(x)'
    BY <2>0 DEF Untouched, Orderly, SourcesAreCalm
  <2>3. NotYetPassed(x)'
    BY <1>0, <2>0 DEF Untouched, Orderly, NotYetPassed
  <2>4. PassesInOrder(x)'
    <3> SUFFICES ASSUME answer'[x] = "reached", kind # "udp",
                        NEW d \in Dirs, NEW s \in Stations,
                        end'[x][d][s] # "open", ~(s = "far" /\ Exempt(x, d)')
                 PROVE  Passed(x, d, s)'
      BY <1>0 DEF PassesInOrder
    <3>1. Exempt(x, d)' <=> Exempt(x, d)
      BY DEF Untouched, Exempt
    <3>2. Unread(x, d, s)' <=> Unread(x, d, s)
      BY <1>0 DEF Untouched, Unread
    <3>3. Passed(x, d, s)
      BY <2>0, <3>1 DEF Untouched, Orderly, PassesInOrder
    <3> QED
      BY <1>0, <3>1, <3>2, <3>3 DEF Untouched, Passed
  <2>5. Controlled(x)'
    BY <2>0 DEF Untouched, Orderly, Controlled
  <2> QED
    BY <2>1, <2>2, <2>3, <2>4, <2>5 DEF Orderly
<1> QED
  BY <1>1, <1>2, <1>3, <1>4 DEF Fits

(* What the end of a task does to its connection.                          *)
LEMMA LeavesDoes ==
    ASSUME TaskTypes, StreamTypes, NEW c \in Conns, Fits(c), NEW s \in Stations, Leaves(c, s)
    PROVE  Left(c, s)
<1>1. s \in {"near", "far"} /\ s \in Nodes
  BY DEF Stations, Nodes
<1>2. /\ \A d \in Dirs : /\ end'[c][d][s] = Dropped(c, d, s)
                         /\ \A n \in Nodes \ {s} : end'[c][d][n] = end[c][d][n]
      /\ \A x \in Conns \ {c} : end'[x] = end[x]
  BY <1>1 DEF Leaves, EndsOf, StreamTypes, Dirs, Nodes
<1>3. end' \in [Conns -> [Dirs -> [Nodes -> {"open", "fin", "cut"}]]]
  <2>1. \A d \in Dirs : Dropped(c, d, s) \in {"open", "fin", "cut"}
    BY <1>1 DEF StreamTypes, Dropped
  <2> QED
    BY <2>1, <1>1 DEF Leaves, EndsOf, StreamTypes, Dirs
<1>4. CASE s = "near" /\ link[c] = "up"
  <2>1. kind = "tunnel"
    BY <1>4 DEF Fits, HoldsItsTarget
  <2>2. PICK a \in Arrivals(c, "up", "near") :
              /\ link' = [link EXCEPT ![c] = "closed"]
              /\ count' = [count EXCEPT ![c]["up"]["near"] = a[1]]
              /\ lost' = [lost EXCEPT ![c] = a[2]]
    BY <1>4 DEF Leaves
  <2>3. a[1] \in count[c]["up"]["far"]..count[c]["up"]["near"] /\ a[2] \in SUBSET {"up"}
    BY <2>1, Peers DEF Arrivals
  <2>4. count[c]["up"]["far"] \in Nat /\ count[c]["up"]["near"] \in Nat
    BY DEF StreamTypes, Dirs, Nodes
  <2>5. /\ a[1] \in Nat
        /\ count[c]["up"]["far"] <= a[1]
        /\ a[1] <= count[c]["up"]["near"]
    BY <2>3, <2>4
  <2>6. count' \in [Conns -> [Dirs -> [Nodes -> Nat]]]
    BY <2>2, <2>5 DEF StreamTypes
  <2>7. /\ count'[c]["up"]["near"] = a[1]
        /\ \A d \in Dirs, n \in Nodes :
              <<d, n>> # <<"up", "near">> => count'[c][d][n] = count[c][d][n]
        /\ \A x \in Conns \ {c} : count'[x] = count[x]
    BY <2>2 DEF StreamTypes, Dirs, Nodes
  <2>8. /\ link' \in [Conns -> {"none", "up", "closed"}]
        /\ lost' \in [Conns -> SUBSET Dirs]
        /\ link'[c] = "closed" /\ lost'[c] = a[2]
        /\ \A x \in Conns \ {c} : link'[x] = link[x] /\ lost'[x] = lost[x]
    BY <2>2, <2>3 DEF TaskTypes, Dirs
  <2> QED
    BY <1>2, <1>3, <1>4, <2>1, <2>3, <2>5, <2>6, <2>7, <2>8 DEF Leaves, StreamTypes, Left
<1>5. CASE ~(s = "near" /\ link[c] = "up")
  <2>1. UNCHANGED linkVars /\ Goes(c, s, "ended")
    BY <1>5 DEF Leaves
  <2> QED
    BY <1>2, <1>3, <2>1 DEF TaskTypes, StreamTypes, linkVars, Left
<1> QED
  BY <1>4, <1>5

(* Permits: a step that takes none keeps the bound.                        *)
LEMMA HoldersShrink ==
    ASSUME PermitsKept, Holders' \subseteq Holders
    PROVE  PermitsKept'
<1>1. IsFiniteSet(Holders) /\ Cardinality(Holders) <= MaxPermits
  BY DEF PermitsKept
<1>2. IsFiniteSet(Holders') /\ Cardinality(Holders') <= Cardinality(Holders)
  BY <1>1, FS_Subset
<1>3. Cardinality(Holders') \in Nat /\ Cardinality(Holders) \in Nat
  BY <1>1, <1>2, FS_CardinalityType
<1> QED
  BY <1>1, <1>2, <1>3, PermitsAssumption DEF PermitsKept

(* So a step that is about one connection has to be looked at there only.  *)
LEMMA OthersFit ==
    ASSUME IInv, NEW c \in Conns, IsAbout(c), TaskTypes', StreamTypes', PermitsKept', Fits(c)'
    PROVE  IInv'
<1>1. ASSUME NEW x \in Conns PROVE Fits(x)'
  <2>1. CASE x = c
    BY <2>1
  <2>2. CASE x # c
    BY <2>2, UntouchedFits DEF IInv, IsAbout
  <2> QED
    BY <2>1, <2>2
<1> QED
  BY <1>1 DEF IInv

(* A station reads from another node.                                      *)
LEMMA PrevIsOther ==
    ASSUME NEW d \in Dirs, NEW s \in Stations
    PROVE  /\ s \in {"near", "far"} /\ s \in Nodes /\ s # "app"
           /\ Prev(d, s) \in Nodes /\ Prev(d, s) # s
           /\ Prev(d, s) # "app" => Prev(d, s) \in Stations
BY Before DEF Stations, Nodes

(* What ends when a task does: nothing of what the applications sent,      *)
LEMMA LeftKeepsSources ==
    ASSUME NEW c \in Conns, NEW s \in {"near", "far"}, Left(c, s)
    PROVE  \A d \in Dirs : /\ end'[c][d]["app"] = end[c][d]["app"]
                           /\ count'[c][d]["app"] = count[c][d]["app"]
BY DEF Left, Nodes, linkVars

(* and the order of the ends stays: when the streams do,                   *)
LEMMA PassesSame ==
    ASSUME NEW c \in Conns, PassesInOrder(c), kind' = kind,
           end'[c] = end[c], count'[c] = count[c], answer'[c] = answer[c],
           near'[c] = "ended" <=> near[c] = "ended"
    PROVE  PassesInOrder(c)'
<1>0. /\ Stations' = Stations
      /\ \A d \in Dirs, s \in Stations : Prev(d, s)' = Prev(d, s)
  BY SameBefore
<1>1. \A d \in Dirs : Exempt(c, d)' <=> Exempt(c, d)
  BY DEF Exempt
<1>2. \A d \in Dirs, s \in Stations : Unread(c, d, s)' <=> Unread(c, d, s)
  BY <1>0 DEF Unread
<1>3. \A d \in Dirs, s \in Stations : Passed(c, d, s) => Passed(c, d, s)'
  BY <1>0, <1>1, <1>2 DEF Passed
<1> QED
  BY <1>0, <1>1, <1>3 DEF PassesInOrder

(* when nothing has ended,                                                 *)
LEMMA PassesNone ==
    ASSUME NEW c \in Conns, kind' = kind,
           \A d \in Dirs, s \in Stations : end'[c][d][s] = "open"
    PROVE  PassesInOrder(c)'
BY SameBefore DEF PassesInOrder

(* and when a task is over that leaves behind what it has passed on.       *)
LEMMA PassesLeaving ==
    ASSUME NEW c \in Conns, StreamTypes, PassesInOrder(c), kind' = kind, answer[c] = "reached",
           NEW s \in Stations, Left(c, s), kind # "udp",
           s = "near" => near[c] # "ended" /\ near'[c] = "ended",
           s # "near" => near'[c] = near[c],
           \A d \in Dirs : end[c][d][s] = "open" =>
               \/ s = "far" /\ Exempt(c, d)
               \/ /\ end'[c][d][s] = "fin"
                  /\ ~Unread(c, d, s)
                  /\ IF kind = "http" /\ d = "up" THEN count[c][d][s] = Blocks[c]
                                                 ELSE end[c][d][Prev(d, s)] = "fin"
    PROVE  PassesInOrder(c)'
<1>0. /\ Stations' = Stations
      /\ \A d \in Dirs, u \in Stations : Prev(d, u)' = Prev(d, u)
  BY SameBefore
<1>1. SUFFICES ASSUME NEW d \in Dirs, NEW u \in Stations,
                      end'[c][d][u] # "open", ~(u = "far" /\ Exempt(c, d)')
               PROVE  Passed(c, d, u)'
  BY <1>0 DEF PassesInOrder
<1>2. Exempt(c, d) => Exempt(c, d)'
  BY PrevIsOther DEF Exempt
<1>3. \A e \in Dirs, n \in Nodes : end[c][e][n] # "open" => end'[c][e][n] = end[c][e][n]
  BY DEF Left, Dropped
<1>4. /\ end'[c][d][u] = "fin"
      /\ Exempt(c, d)' \/ ~Unread(c, d, u)
      /\ IF kind = "http" /\ d = "up" THEN count[c][d][u] = Blocks[c]
                                     ELSE end[c][d][Prev(d, u)] = "fin"
  <2>1. CASE end[c][d][u] = "open"
    <3>1. u \in Nodes /\ end'[c][d][u] # end[c][d][u]
      BY <1>1, <2>1, PrevIsOther
    <3>2. u = s
      BY <3>1 DEF Left
    <3> QED
      BY <1>1, <1>2, <2>1, <3>2
  <2>2. CASE end[c][d][u] # "open"
    BY <1>1, <1>2, <1>3, <2>2, PrevIsOther DEF PassesInOrder, Passed
  <2> QED
    BY <2>1, <2>2
<1>5. Prev(d, u) \in Nodes
  BY PrevIsOther
<1>6. Exempt(c, d)' \/ \A n \in Nodes : count'[c][d][n] = count[c][d][n]
  BY <1>0 DEF Left, linkVars, Exempt, Dirs
<1>7. Exempt(c, d)' \/ ~Unread(c, d, u)'
  <2>1. CASE ~Exempt(c, d)'
    BY <1>0, <1>4, <1>5, <1>6, <2>1, PrevIsOther DEF Unread
  <2> QED
    BY <2>1
<1>8. IF kind = "http" /\ d = "up" THEN count'[c][d][u] = Blocks[c]
                                  ELSE end'[c][d][Prev(d, u)] = "fin"
  <2>1. kind = "http" => \A n \in Nodes : count'[c][d][n] = count[c][d][n]
    BY <1>0 DEF Left, linkVars
  <2> QED
    BY <1>3, <1>4, <1>5, <2>1, PrevIsOther
<1> QED
  BY <1>0, <1>4, <1>7, <1>8 DEF Passed

(* Without a fault a copy fails only at the far station, once the near one *)
(* has closed the link.                                                    *)
LEMMA NeverFails ==
    ASSUME NEW c \in Conns, TaskTypes, StreamTypes, Fits(c), Orderly(c), answer[c] = "reached",
           kind # "udp", NEW d \in Dirs, NEW s \in Stations, Open(c, d, s),
           \/ InputLost(c, d, s)
           \/ Unread(c, d, s) /\ Broken(c, d, s)
           \/ EndsEarly(c, d) /\ ~Unread(c, d, s)
    PROVE  s = "far" /\ near[c] = "ended" /\ kind = "tunnel"
<1>1. s \in {"near", "far"} /\ (s = "far" => kind = "tunnel")
  BY DEF Stations
<1>2. /\ \A e \in Dirs : end[c][e]["app"] # "cut"
      /\ ~EndsEarly(c, d)
  BY BlocksAssumption DEF Orderly, SourcesAreCalm, EndsEarly
<1>3. Other(d) \in Dirs
  BY DEF Dirs, Other
<1>4. CASE InputLost(c, d, s)
  <2>1. Prev(d, s) # "app" /\ d \in lost[c]
    BY <1>2, <1>4 DEF InputLost
  <2>2. near[c] = "ended" /\ d = "up"
    BY <2>1 DEF Orderly, Advances
  <2> QED
    BY <1>1, <2>1, <2>2, Before
<1>5. CASE Unread(c, d, s) /\ Broken(c, d, s)
  <2>1. Last(d) # s
    BY <1>2, <1>3, <1>5 DEF Broken
  <2>2. kind = "tunnel"
    BY <1>1, <2>1 DEF Last
  <2>3. ASSUME s = "near" PROVE FALSE
    <3>1. near[c] = "relaying" /\ end[c][d]["near"] = "open"
      BY <2>3 DEF Open, At
    <3>2. link[c] = "up"
      BY <2>2, <3>1 DEF Orderly, Advances, Tunnelled
    <3>3. far[c] = "ended"
      BY <1>5, <2>1, <2>2, <2>3, <3>2, Peers DEF Broken, At
    <3>4. "far" \in Stations /\ d = "up" /\ ~Exempt(c, d)
      BY <2>1, <2>2, <2>3, <3>1 DEF Stations, Last, Dirs, Exempt
    <3>5. Passed(c, d, "far")
      BY <3>3, <3>4 DEF Fits, LeavesNothingOpen, At, Orderly, PassesInOrder
    <3> QED
      BY <2>2, <3>1, <3>4, <3>5, Before DEF Passed
  <2>4. s = "far"
    BY <1>1, <2>3
  <2>5. link[c] = "closed" \/ near[c] = "ended"
    BY <1>5, <2>1, <2>2, <2>4, Peers DEF Broken, At
  <2> QED
    BY <2>2, <2>4, <2>5 DEF Orderly, Advances, Tunnelled
<1> QED
  BY <1>2, <1>4, <1>5

(* One lemma for each step: the listener and the handshakes,               *)
LEMMA BeginsKeeps ==
    ASSUME IInv, NEW c \in Conns, NEW stage \in {"greeting", "asking", "dialling"},
           kind' = kind, near' = [near EXCEPT ![c] = stage], near[c] = "idle",
           kind = "tunnel" => stage = "dialling",
           UNCHANGED <<far, answer, linkVars, end, outside>>
    PROVE  IInv'
<1>1. TaskTypes /\ StreamTypes /\ Fits(c)
  BY DEF IInv
<1>2. IsAbout(c)
  BY <1>1 DEF TaskTypes, StreamTypes, IsAbout, Untouched, outside, linkVars
<1>3. TaskTypes'
  BY <1>1, PermitsAssumption DEF Task, TaskTypes, Dirs, outside, linkVars
<1>4. StreamTypes'
  BY <1>1 DEF StreamTypes, Dirs, Nodes, outside, linkVars
<1>5. PermitsKept'
  BY HoldersShrink, <1>1 DEF IInv, Holders, TaskTypes, outside
<1>6. Bounded(c)'
  BY <1>1, Before, SameBefore, <1>2 DEF Fits, Bounded, Dirs, Stations, outside, linkVars
<1>7. HoldsItsTarget(c)'
  BY <1>1 DEF Fits, HoldsItsTarget, outside, linkVars
<1>8. LeavesNothingOpen(c)'
  BY <1>1 DEF Fits, LeavesNothingOpen, Dirs, Stations, At, outside
<1>9. ASSUME calm'[c] PROVE Orderly(c)'
  <2>1. calm[c] /\ Orderly(c)
    BY <1>1, <1>9 DEF Fits, TaskTypes, outside
  <2>2. Advances(c)'
    BY <1>1, <2>1 DEF Orderly, Fits, Advances, Untunnelled, Tunnelled, outside, linkVars
  <2>3. SourcesAreCalm(c)'
    BY <1>1, <2>1 DEF Orderly, Fits, SourcesAreCalm, Dirs, outside, linkVars
  <2>4. NotYetPassed(c)'
    BY <1>1, <2>1
       DEF Orderly, Fits, NotYetPassed, TaskTypes, StreamTypes, Advances, Dirs, Stations, Nodes,
           Untunnelled, Tunnelled, outside, linkVars
  <2>5. PassesInOrder(c)'
    BY <1>1, <2>1, PassesSame DEF Orderly, TaskTypes, outside, linkVars
  <2>6. Controlled(c)'
    BY <1>1, <2>1 DEF Orderly, Fits, Controlled, outside, linkVars
  <2> QED
    BY <2>2, <2>3, <2>4, <2>5, <2>6 DEF Orderly
<1>10. Fits(c)'
  BY <1>6, <1>7, <1>8, <1>9 DEF Fits
<1> QED
  BY <1>2, <1>3, <1>4, <1>5, OthersFit, <1>10

LEMMA ProceedsKeeps ==
    ASSUME IInv, NEW c \in Conns, NEW stage \in Task \ {"ended"}, Proceeds(c, stage),
           \/ /\ near[c] \in {"greeting", "asking"} /\ kind # "tunnel"
              /\ stage \in {"asking", "dialling"}
           \/ near[c] \in {"associated", "resolving"} /\ stage \in {"associated", "resolving"}
    PROVE  IInv'
<1>1. TaskTypes /\ StreamTypes /\ Fits(c)
  BY DEF IInv
<1>2. IsAbout(c)
  BY <1>1 DEF TaskTypes, StreamTypes, IsAbout, Untouched, Proceeds, outside, Goes, linkVars
<1>3. TaskTypes'
  BY <1>1, PermitsAssumption DEF Task, TaskTypes, Dirs, Proceeds, outside, Goes, linkVars
<1>4. StreamTypes'
  BY <1>1 DEF StreamTypes, Dirs, Nodes, Proceeds, outside, Goes, linkVars
<1>5. PermitsKept'
  BY HoldersShrink, <1>1 DEF IInv, Holders, TaskTypes, Proceeds, outside, Goes
<1>6. Bounded(c)'
  BY <1>1, Before, SameBefore, <1>2
     DEF Fits, Bounded, Dirs, Stations, Proceeds, outside, Goes, linkVars
<1>7. HoldsItsTarget(c)'
  BY <1>1 DEF Fits, HoldsItsTarget, TaskTypes, Dirs, Proceeds, outside, Goes, linkVars
<1>8. LeavesNothingOpen(c)'
  BY <1>1
     DEF Fits, LeavesNothingOpen, StreamTypes, TaskTypes, Dirs, Stations, At, Nodes, Proceeds,
         outside, Goes, linkVars
<1>9. ASSUME calm'[c] PROVE Orderly(c)'
  <2>1. calm[c] /\ Orderly(c)
    BY <1>1, <1>9 DEF Fits, TaskTypes, Proceeds, outside, Goes
  <2>2. Advances(c)'
    BY <1>1, <2>1
       DEF Orderly, Fits, Advances, TaskTypes, HoldsItsTarget, Untunnelled, Tunnelled, Dirs,
           Proceeds, outside, Goes, linkVars
  <2>3. SourcesAreCalm(c)'
    BY <1>1, <2>1 DEF Orderly, Fits, SourcesAreCalm, Dirs, Proceeds, outside, Goes, linkVars
  <2>4. NotYetPassed(c)'
    BY <1>1, <2>1
       DEF Orderly, Fits, NotYetPassed, TaskTypes, StreamTypes, Advances, Dirs, Stations, Nodes,
           Untunnelled, Tunnelled, Proceeds, outside, Goes, linkVars
  <2>5. PassesInOrder(c)'
    BY <1>1, <2>1, PassesSame DEF Orderly, TaskTypes, Proceeds, outside, Goes, linkVars
  <2>6. Controlled(c)'
    BY <1>1, <2>1
       DEF Orderly, Fits, Controlled, TaskTypes, StreamTypes, Advances, Dirs, Nodes,
           Untunnelled, Tunnelled, Proceeds, outside, Goes, linkVars
  <2> QED
    BY <2>2, <2>3, <2>4, <2>5, <2>6 DEF Orderly
<1>10. Fits(c)'
  BY <1>6, <1>7, <1>8, <1>9 DEF Fits
<1> QED
  BY <1>2, <1>3, <1>4, <1>5, OthersFit, <1>10

LEMMA ReachesKeeps ==
    ASSUME IInv, NEW c \in Conns, NEW stage \in {"relaying", "associated"}, near[c] = "dialling",
           kind # "tunnel", kind = "udp" <=> stage = "associated",
           answer' = [answer EXCEPT ![c] = "reached"], near' = [near EXCEPT ![c] = stage],
           UNCHANGED <<kind, far, linkVars, end, outside>>
    PROVE  IInv'
<1>1. TaskTypes /\ StreamTypes /\ Fits(c)
  BY DEF IInv
<1>2. IsAbout(c)
  BY <1>1 DEF TaskTypes, StreamTypes, IsAbout, Untouched, outside, linkVars
<1>3. TaskTypes'
  BY <1>1, PermitsAssumption DEF Task, TaskTypes, Dirs, outside, linkVars
<1>4. StreamTypes'
  BY <1>1 DEF StreamTypes, Dirs, Nodes, outside, linkVars
<1>5. PermitsKept'
  BY HoldersShrink, <1>1 DEF IInv, Holders, TaskTypes, outside
<1>6. Bounded(c)'
  BY <1>1, Before, SameBefore, <1>2 DEF Fits, Bounded, Dirs, Stations, outside, linkVars
<1>7. HoldsItsTarget(c)'
  BY <1>1 DEF Fits, HoldsItsTarget, outside, linkVars
<1>8. LeavesNothingOpen(c)'
  BY <1>1 DEF Fits, LeavesNothingOpen, Dirs, Stations, At, outside
<1>9. ASSUME calm'[c] PROVE Orderly(c)'
  <2>1. calm[c] /\ Orderly(c)
    BY <1>1, <1>9 DEF Fits, TaskTypes, outside
  <2>2. Advances(c)'
    BY <1>1, <2>1
       DEF Orderly, Fits, Advances, TaskTypes, HoldsItsTarget, Untunnelled, Tunnelled, Dirs,
           outside, linkVars
  <2>3. SourcesAreCalm(c)'
    BY <1>1, <2>1 DEF Orderly, Fits, SourcesAreCalm, Dirs, outside, linkVars
  <2>4. NotYetPassed(c)'
    BY <1>1, <2>1 DEF Orderly, Fits, NotYetPassed, Dirs, Stations, outside
  <2>5. PassesInOrder(c)'
    <3>1. answer[c] = "none"
      BY <1>1, <2>1
         DEF Fits, Orderly, Advances, HoldsItsTarget, Tunnelled, Untunnelled, outside, linkVars
    <3>2. kind' = kind /\ \A d \in Dirs, s \in Stations : end'[c][d][s] = "open"
      BY <2>1, <3>1 DEF Orderly, NotYetPassed, outside, linkVars
    <3> QED
      BY <3>2, PassesNone
  <2>6. Controlled(c)'
    BY <1>1, <2>1 DEF Orderly, Fits, Controlled, outside, linkVars
  <2> QED
    BY <2>2, <2>3, <2>4, <2>5, <2>6 DEF Orderly
<1>10. Fits(c)'
  BY <1>6, <1>7, <1>8, <1>9 DEF Fits
<1> QED
  BY <1>2, <1>3, <1>4, <1>5, OthersFit, <1>10

LEMMA RefusesKeeps ==
    ASSUME IInv, NEW c \in Conns, near[c] \in {"greeting", "asking", "dialling"},
           kind = "tunnel" => near[c] = "dialling",
           Refuses(c)
    PROVE  IInv'
<1>1. TaskTypes /\ StreamTypes /\ Fits(c)
  BY DEF IInv
<1>2. "near" \in Stations /\ Leaves(c, "near")
  BY <1>1 DEF Stations, Fits, HoldsItsTarget, Refuses
<1>3. Left(c, "near")
  BY <1>1, <1>2, LeavesDoes
<1>4. IsAbout(c)
  BY <1>1, <1>3
     DEF TaskTypes, StreamTypes, IsAbout, Untouched, Refuses, outside, Left, Goes, linkVars
<1>5. TaskTypes'
  BY <1>1, PermitsAssumption, <1>3
     DEF Task, TaskTypes, Dirs, Refuses, outside, Left, Goes, linkVars
<1>6. StreamTypes'
  BY <1>3 DEF Left
<1>7. PermitsKept'
  BY HoldersShrink, <1>1, <1>3
     DEF IInv, Holders, TaskTypes, Refuses, outside, Left, Goes, linkVars
<1>8. Bounded(c)'
  BY <1>1, <1>3, Before, SameBefore, <1>4
     DEF Fits, Bounded, StreamTypes, Dirs, Stations, Nodes, Refuses, outside, Left, Goes,
         linkVars
<1>9. HoldsItsTarget(c)'
  BY <1>1, <1>3
     DEF Fits, HoldsItsTarget, TaskTypes, Dirs, Refuses, outside, Left, Goes, linkVars
<1>10. LeavesNothingOpen(c)'
  BY <1>1, <1>3
     DEF Fits, LeavesNothingOpen, StreamTypes, TaskTypes, Dirs, Stations, At, Nodes, Refuses,
         outside, Left, Goes, linkVars, Dropped
<1>11. ASSUME calm'[c] PROVE Orderly(c)'
  <2>1. calm[c] /\ Orderly(c)
    BY <1>1, <1>11 DEF Fits, TaskTypes, Refuses, outside
  <2>2. Advances(c)'
    BY <1>1, <2>1, <1>3
       DEF Orderly, Fits, Advances, TaskTypes, HoldsItsTarget, Untunnelled, Tunnelled, Dirs,
           Refuses, outside, Left, Goes, linkVars
  <2>3. SourcesAreCalm(c)'
    <3>1. \A e \in Dirs : /\ end'[c][e]["app"] = end[c][e]["app"]
                         /\ count'[c][e]["app"] = count[c][e]["app"]
      BY <1>3, LeftKeepsSources DEF Stations
    <3> QED
      BY <1>4, <2>1, <3>1 DEF IsAbout, Orderly, SourcesAreCalm
  <2>4. NotYetPassed(c)'
    BY <1>1, <2>1, <1>3
       DEF Orderly, Fits, NotYetPassed, TaskTypes, StreamTypes, Advances, Dirs, Stations, Nodes,
           Untunnelled, Tunnelled, Refuses, outside, Left, Goes, linkVars
  <2>5. PassesInOrder(c)'
    BY <1>1, <2>1, <1>3, Before, SameBefore, <1>4
       DEF Orderly, Fits, PassesInOrder, TaskTypes, StreamTypes, Advances, Passed, Dirs,
           Stations, Exempt, Nodes, Untunnelled, Tunnelled, Refuses, outside, Left, Goes,
           linkVars
  <2>6. Controlled(c)'
    BY <1>1, <2>1, <1>3, LeftKeepsSources
       DEF Orderly, Fits, Controlled, TaskTypes, StreamTypes, Advances, Dirs, Nodes,
           Untunnelled, Tunnelled, Refuses, outside, Left, Goes, linkVars
  <2> QED
    BY <2>2, <2>3, <2>4, <2>5, <2>6 DEF Orderly
<1>12. Fits(c)'
  BY <1>8, <1>9, <1>10, <1>11 DEF Fits
<1> QED
  BY <1>4, <1>5, <1>6, <1>7, OthersFit, <1>12

(* the tunnel's stream, its permit, its answer,                            *)
LEMMA OpenStreamKeeps ==
    ASSUME IInv, NEW c \in Conns, OpenStream(c)
    PROVE  IInv'
<1>1. TaskTypes /\ StreamTypes /\ Fits(c)
  BY DEF IInv
<1>2. IsAbout(c)
  BY <1>1 DEF TaskTypes, StreamTypes, IsAbout, Untouched, OpenStream, outside, Goes
<1>3. TaskTypes'
  BY <1>1, PermitsAssumption DEF Task, TaskTypes, Dirs, OpenStream, outside, Goes
<1>4. StreamTypes'
  BY <1>1 DEF StreamTypes, Dirs, Nodes, OpenStream, outside, Goes
<1>5. PermitsKept'
  BY HoldersShrink, <1>1 DEF IInv, Holders, TaskTypes, OpenStream, outside, Goes
<1>6. Bounded(c)'
  BY <1>1, Before, SameBefore, <1>2 DEF Fits, Bounded, Dirs, Stations, OpenStream, outside, Goes
<1>7. HoldsItsTarget(c)'
  BY <1>1 DEF Fits, HoldsItsTarget, TaskTypes, Dirs, OpenStream, outside, Goes
<1>8. LeavesNothingOpen(c)'
  BY <1>1
     DEF Fits, LeavesNothingOpen, StreamTypes, TaskTypes, Dirs, Stations, At, Nodes, OpenStream,
         outside, Goes
<1>9. ASSUME calm'[c] PROVE Orderly(c)'
  <2>1. calm[c] /\ Orderly(c)
    BY <1>1, <1>9 DEF Fits, TaskTypes, OpenStream, outside, Goes
  <2>2. Advances(c)'
    BY <1>1, <2>1
       DEF Orderly, Fits, Advances, TaskTypes, HoldsItsTarget, Untunnelled, Tunnelled, Dirs,
           OpenStream, outside, Goes
  <2>3. SourcesAreCalm(c)'
    BY <1>1, <2>1 DEF Orderly, Fits, SourcesAreCalm, Dirs, OpenStream, outside, Goes
  <2>4. NotYetPassed(c)'
    <3>1. answer[c] = "none" /\ kind = "tunnel"
      BY <2>1 DEF Orderly, Advances, Tunnelled, OpenStream
    <3> QED
      BY <2>1, <3>1 DEF Orderly, NotYetPassed, Stations, OpenStream
  <2>5. PassesInOrder(c)'
    BY <1>1, <2>1, PassesSame DEF Orderly, TaskTypes, OpenStream, outside, Goes
  <2>6. Controlled(c)'
    BY <1>1, <2>1 DEF Orderly, Fits, Controlled, OpenStream, outside, Goes
  <2> QED
    BY <2>2, <2>3, <2>4, <2>5, <2>6 DEF Orderly
<1>10. Fits(c)'
  BY <1>6, <1>7, <1>8, <1>9 DEF Fits
<1> QED
  BY <1>2, <1>3, <1>4, <1>5, OthersFit, <1>10

LEMMA FarAcceptsKeeps ==
    ASSUME IInv, NEW c \in Conns, FarAccepts(c)
    PROVE  IInv'
<1>1. TaskTypes /\ StreamTypes /\ Fits(c)
  BY DEF IInv
<1>2. IsAbout(c)
  BY <1>1 DEF TaskTypes, StreamTypes, IsAbout, Untouched, FarAccepts, outside, Goes, linkVars
<1>3. TaskTypes'
  BY <1>1, PermitsAssumption DEF Task, TaskTypes, Dirs, FarAccepts, outside, Goes, linkVars
<1>4. StreamTypes'
  BY <1>1 DEF StreamTypes, Dirs, Nodes, FarAccepts, outside, Goes, linkVars
<1>5. PermitsKept'
  BY HoldersShrink, <1>1 DEF IInv, Holders, TaskTypes, FarAccepts, outside, Goes
<1>6. Bounded(c)'
  BY <1>1, Before, SameBefore, <1>2
     DEF Fits, Bounded, Dirs, Stations, FarAccepts, outside, Goes, linkVars
<1>7. HoldsItsTarget(c)'
  BY <1>1 DEF Fits, HoldsItsTarget, FarAccepts, outside, Goes, linkVars
<1>8. LeavesNothingOpen(c)'
  BY <1>1
     DEF Fits, LeavesNothingOpen, StreamTypes, TaskTypes, Dirs, Stations, At, Nodes, FarAccepts,
         outside, Goes, linkVars
<1>9. ASSUME calm'[c] PROVE Orderly(c)'
  <2>1. calm[c] /\ Orderly(c)
    BY <1>1, <1>9 DEF Fits, TaskTypes, FarAccepts, outside, Goes
  <2>2. Advances(c)'
    BY <1>1, <2>1
       DEF Orderly, Fits, Advances, TaskTypes, HoldsItsTarget, Untunnelled, Tunnelled, Dirs,
           FarAccepts, outside, Goes, linkVars
  <2>3. SourcesAreCalm(c)'
    BY <1>1, <2>1 DEF Orderly, Fits, SourcesAreCalm, Dirs, FarAccepts, outside, Goes, linkVars
  <2>4. NotYetPassed(c)'
    BY <1>1, <2>1 DEF Orderly, Fits, NotYetPassed, Dirs, Stations, FarAccepts, outside, Goes
  <2>5. PassesInOrder(c)'
    BY <1>1, <2>1, PassesSame DEF Orderly, TaskTypes, FarAccepts, outside, Goes, linkVars
  <2>6. Controlled(c)'
    BY <1>1, <2>1 DEF Orderly, Fits, Controlled, FarAccepts, outside, Goes, linkVars
  <2> QED
    BY <2>2, <2>3, <2>4, <2>5, <2>6 DEF Orderly
<1>10. Fits(c)'
  BY <1>6, <1>7, <1>8, <1>9 DEF Fits
<1> QED
  BY <1>2, <1>3, <1>4, <1>5, OthersFit, <1>10

LEMMA AcquireKeeps ==
    ASSUME IInv, NEW c \in Conns, Acquire(c)
    PROVE  IInv'
<1>1. TaskTypes /\ StreamTypes /\ Fits(c)
  BY DEF IInv
<1>2. IsAbout(c)
  BY <1>1 DEF TaskTypes, StreamTypes, IsAbout, Untouched, Acquire, outside, Goes, linkVars
<1>3. TaskTypes'
  BY <1>1, PermitsAssumption DEF Task, TaskTypes, Dirs, Acquire, outside, Goes, linkVars
<1>4. StreamTypes'
  BY <1>1 DEF StreamTypes, Dirs, Nodes, Acquire, outside, Goes, linkVars
<1>5. PermitsKept'
  <2>1. /\ IsFiniteSet(Holders)
        /\ Cardinality(Holders) + 1 <= MaxPermits
        /\ Cardinality(Holders) \in Nat
    BY <1>1, FS_CardinalityType, PermitsAssumption DEF IInv, PermitsKept, Acquire
  <2>2. Holders' \subseteq Holders \cup {c}
    BY <1>1 DEF Holders, Acquire, Goes, TaskTypes
  <2>3. /\ IsFiniteSet(Holders \cup {c})
        /\ Cardinality(Holders \cup {c}) <= Cardinality(Holders) + 1
    <3>1. /\ IsFiniteSet(Holders \cup {c})
          /\ c \in Holders => Cardinality(Holders \cup {c}) = Cardinality(Holders)
          /\ c \notin Holders => Cardinality(Holders \cup {c}) = Cardinality(Holders) + 1
      BY <2>1, FS_AddElement
    <3> QED
      BY <2>1, <3>1
  <2>4. /\ IsFiniteSet(Holders')
        /\ Cardinality(Holders') <= Cardinality(Holders \cup {c})
        /\ Cardinality(Holders') \in Nat /\ Cardinality(Holders \cup {c}) \in Nat
    BY <2>2, <2>3, FS_Subset, FS_CardinalityType
  <2> QED
    BY <2>1, <2>3, <2>4, PermitsAssumption DEF PermitsKept
<1>6. Bounded(c)'
  BY <1>1, Before, SameBefore, <1>2
     DEF Fits, Bounded, Dirs, Stations, Acquire, outside, Goes, linkVars
<1>7. HoldsItsTarget(c)'
  BY <1>1 DEF Fits, HoldsItsTarget, Acquire, outside, Goes, linkVars
<1>8. LeavesNothingOpen(c)'
  BY <1>1
     DEF Fits, LeavesNothingOpen, StreamTypes, TaskTypes, Dirs, Stations, At, Nodes, Acquire,
         outside, Goes, linkVars
<1>9. ASSUME calm'[c] PROVE Orderly(c)'
  <2>1. calm[c] /\ Orderly(c)
    BY <1>1, <1>9 DEF Fits, TaskTypes, Acquire, outside, Goes
  <2>2. Advances(c)'
    BY <1>1, <2>1
       DEF Orderly, Fits, Advances, TaskTypes, HoldsItsTarget, Untunnelled, Tunnelled, Dirs,
           Acquire, outside, Goes, linkVars
  <2>3. SourcesAreCalm(c)'
    BY <1>1, <2>1 DEF Orderly, Fits, SourcesAreCalm, Dirs, Acquire, outside, Goes, linkVars
  <2>4. NotYetPassed(c)'
    BY <1>1, <2>1 DEF Orderly, Fits, NotYetPassed, Dirs, Stations, Acquire, outside, Goes
  <2>5. PassesInOrder(c)'
    BY <1>1, <2>1, PassesSame DEF Orderly, TaskTypes, Acquire, outside, Goes, linkVars
  <2>6. Controlled(c)'
    BY <1>1, <2>1 DEF Orderly, Fits, Controlled, Acquire, outside, Goes, linkVars
  <2> QED
    BY <2>2, <2>3, <2>4, <2>5, <2>6 DEF Orderly
<1>10. Fits(c)'
  BY <1>6, <1>7, <1>8, <1>9 DEF Fits
<1> QED
  BY <1>2, <1>3, <1>4, <1>5, OthersFit, <1>10

LEMMA FarRefusesKeeps ==
    ASSUME IInv, NEW c \in Conns, FarRefuses(c)
    PROVE  IInv'
<1>1. TaskTypes /\ StreamTypes /\ Fits(c)
  BY DEF IInv
<1>2. "far" \in Stations /\ Leaves(c, "far")
  BY <1>1 DEF Stations, Fits, HoldsItsTarget, FarRefuses
<1>3. Left(c, "far")
  BY <1>1, <1>2, LeavesDoes
<1>4. IsAbout(c)
  BY <1>1, <1>3
     DEF TaskTypes, StreamTypes, IsAbout, Untouched, FarRefuses, outside, Left, Goes, linkVars
<1>5. TaskTypes'
  BY <1>1, PermitsAssumption, <1>3
     DEF Task, TaskTypes, Dirs, FarRefuses, outside, Left, Goes, linkVars
<1>6. StreamTypes'
  BY <1>3 DEF Left
<1>7. PermitsKept'
  BY HoldersShrink, <1>1, <1>3
     DEF IInv, Holders, TaskTypes, FarRefuses, outside, Left, Goes, linkVars
<1>8. Bounded(c)'
  BY <1>1, <1>3, Before, SameBefore, <1>4
     DEF Fits, Bounded, Dirs, Stations, FarRefuses, outside, Left, Goes, linkVars
<1>9. HoldsItsTarget(c)'
  BY <1>1, <1>3 DEF Fits, HoldsItsTarget, FarRefuses, outside, Left, Goes, linkVars
<1>10. LeavesNothingOpen(c)'
  BY <1>1, <1>3
     DEF Fits, LeavesNothingOpen, StreamTypes, TaskTypes, Dirs, Stations, At, Nodes, FarRefuses,
         outside, Left, Goes, linkVars, Dropped
<1>11. ASSUME calm'[c] PROVE Orderly(c)'
  <2>1. calm[c] /\ Orderly(c)
    BY <1>1, <1>11 DEF Fits, TaskTypes, FarRefuses, outside
  <2>2. Advances(c)'
    BY <1>1, <2>1, <1>3
       DEF Orderly, Fits, Advances, TaskTypes, HoldsItsTarget, Untunnelled, Tunnelled, Dirs,
           FarRefuses, outside, Left, Goes, linkVars
  <2>3. SourcesAreCalm(c)'
    <3>1. \A e \in Dirs : /\ end'[c][e]["app"] = end[c][e]["app"]
                         /\ count'[c][e]["app"] = count[c][e]["app"]
      BY <1>3, LeftKeepsSources DEF Stations
    <3> QED
      BY <1>4, <2>1, <3>1 DEF IsAbout, Orderly, SourcesAreCalm
  <2>4. NotYetPassed(c)'
    BY <1>1, <2>1, <1>3
       DEF Orderly, Fits, NotYetPassed, TaskTypes, StreamTypes, Advances, Dirs, Stations, Nodes,
           Untunnelled, Tunnelled, FarRefuses, outside, Left, Goes, linkVars
  <2>5. PassesInOrder(c)'
    BY <1>1, <2>1, <1>3, Before, SameBefore, <1>4
       DEF Orderly, Fits, PassesInOrder, TaskTypes, StreamTypes, Advances, Passed, Dirs,
           Stations, Exempt, Nodes, Untunnelled, Tunnelled, FarRefuses, outside, Left, Goes,
           linkVars
  <2>6. Controlled(c)'
    BY <1>1, <2>1, <1>3, LeftKeepsSources
       DEF Orderly, Fits, Controlled, TaskTypes, StreamTypes, Advances, Dirs, Nodes,
           Untunnelled, Tunnelled, FarRefuses, outside, Left, Goes, linkVars
  <2> QED
    BY <2>2, <2>3, <2>4, <2>5, <2>6 DEF Orderly
<1>12. Fits(c)'
  BY <1>8, <1>9, <1>10, <1>11 DEF Fits
<1> QED
  BY <1>4, <1>5, <1>6, <1>7, OthersFit, <1>12

LEMMA FarRelaysKeeps ==
    ASSUME IInv, NEW c \in Conns, FarReached(c), link[c] = "up"
    PROVE  IInv'
<1>1. TaskTypes /\ StreamTypes /\ Fits(c)
  BY DEF IInv
<1>2. IsAbout(c)
  BY <1>1 DEF TaskTypes, StreamTypes, IsAbout, Untouched, FarReached, outside, Goes, linkVars
<1>3. TaskTypes'
  BY <1>1, PermitsAssumption DEF Task, TaskTypes, Dirs, FarReached, outside, Goes, linkVars
<1>4. StreamTypes'
  BY <1>1 DEF StreamTypes, Dirs, Nodes, FarReached, outside, Goes, linkVars
<1>5. PermitsKept'
  BY HoldersShrink, <1>1 DEF IInv, Holders, TaskTypes, FarReached, outside, Goes
<1>6. Bounded(c)'
  BY <1>1, Before, SameBefore, <1>2
     DEF Fits, Bounded, Dirs, Stations, FarReached, outside, Goes, linkVars
<1>7. HoldsItsTarget(c)'
  BY <1>1 DEF Fits, HoldsItsTarget, TaskTypes, Dirs, FarReached, outside, Goes, linkVars
<1>8. LeavesNothingOpen(c)'
  BY <1>1
     DEF Fits, LeavesNothingOpen, StreamTypes, TaskTypes, Dirs, Stations, At, Nodes, FarReached,
         outside, Goes, linkVars
<1>9. ASSUME calm'[c] PROVE Orderly(c)'
  <2>1. calm[c] /\ Orderly(c)
    BY <1>1, <1>9 DEF Fits, TaskTypes, FarReached, outside, Goes
  <2>2. Advances(c)'
    BY <1>1, <2>1
       DEF Orderly, Fits, Advances, TaskTypes, HoldsItsTarget, Untunnelled, Tunnelled, Dirs,
           FarReached, outside, Goes, linkVars
  <2>3. SourcesAreCalm(c)'
    BY <1>1, <2>1 DEF Orderly, Fits, SourcesAreCalm, Dirs, FarReached, outside, Goes, linkVars
  <2>4. NotYetPassed(c)'
    BY <1>1, <2>1 DEF Orderly, Fits, NotYetPassed, Dirs, Stations, FarReached, outside, Goes
  <2>5. PassesInOrder(c)'
    <3>1. answer[c] = "none"
      BY <1>1, <2>1
         DEF Fits, Orderly, Advances, HoldsItsTarget, Tunnelled, Untunnelled, FarReached,
             outside, Goes, linkVars
    <3>2. kind' = kind /\ \A d \in Dirs, s \in Stations : end'[c][d][s] = "open"
      BY <2>1, <3>1 DEF Orderly, NotYetPassed, FarReached, outside, Goes, linkVars
    <3> QED
      BY <3>2, PassesNone
  <2>6. Controlled(c)'
    BY <1>1 DEF Fits, HoldsItsTarget, Controlled, FarReached
  <2> QED
    BY <2>2, <2>3, <2>4, <2>5, <2>6 DEF Orderly
<1>10. Fits(c)'
  BY <1>6, <1>7, <1>8, <1>9 DEF Fits
<1> QED
  BY <1>2, <1>3, <1>4, <1>5, OthersFit, <1>10

LEMMA FarDropsKeeps ==
    ASSUME IInv, NEW c \in Conns, FarReached(c), link[c] # "up"
    PROVE  IInv'
<1>1. TaskTypes /\ StreamTypes /\ Fits(c)
  BY DEF IInv
<1>2. "far" \in Stations /\ Leaves(c, "far")
  BY <1>1 DEF Stations, Fits, HoldsItsTarget, FarReached
<1>3. Left(c, "far")
  BY <1>1, <1>2, LeavesDoes
<1>4. IsAbout(c)
  BY <1>1, <1>3
     DEF TaskTypes, StreamTypes, IsAbout, Untouched, FarReached, outside, Goes, linkVars, Left
<1>5. TaskTypes'
  BY <1>1, PermitsAssumption, <1>3
     DEF Task, TaskTypes, Dirs, FarReached, outside, Goes, linkVars, Left
<1>6. StreamTypes'
  BY <1>3 DEF Left
<1>7. PermitsKept'
  BY HoldersShrink, <1>1, <1>3
     DEF IInv, Holders, TaskTypes, FarReached, outside, Goes, Left, linkVars
<1>8. Bounded(c)'
  BY <1>1, <1>3, Before, SameBefore, <1>4
     DEF Fits, Bounded, Dirs, Stations, FarReached, outside, Goes, linkVars, Left
<1>9. HoldsItsTarget(c)'
  BY <1>1, <1>3
     DEF Fits, HoldsItsTarget, TaskTypes, Dirs, FarReached, outside, Goes, linkVars, Left
<1>10. LeavesNothingOpen(c)'
  BY <1>1, <1>3
     DEF Fits, LeavesNothingOpen, StreamTypes, TaskTypes, Dirs, Stations, At, Nodes, FarReached,
         outside, Goes, linkVars, Left, Dropped
<1>11. ~calm'[c]
  BY <1>1 DEF Fits, Orderly, Advances, Tunnelled, HoldsItsTarget, FarReached, outside, Goes
<1>12. Fits(c)'
  BY <1>8, <1>9, <1>10, <1>11 DEF Fits
<1> QED
  BY <1>4, <1>5, <1>6, <1>7, OthersFit, <1>12

LEMMA NearRelaysKeeps ==
    ASSUME IInv, NEW c \in Conns, NearTold(c), answer[c] = "reached" /\ link[c] = "up"
    PROVE  IInv'
<1>1. TaskTypes /\ StreamTypes /\ Fits(c)
  BY DEF IInv
<1>2. IsAbout(c)
  BY <1>1 DEF TaskTypes, StreamTypes, IsAbout, Untouched, NearTold, outside, Goes, linkVars
<1>3. TaskTypes'
  BY <1>1, PermitsAssumption DEF Task, TaskTypes, Dirs, NearTold, outside, Goes, linkVars
<1>4. StreamTypes'
  BY <1>1 DEF StreamTypes, Dirs, Nodes, NearTold, outside, Goes, linkVars
<1>5. PermitsKept'
  BY HoldersShrink, <1>1 DEF IInv, Holders, TaskTypes, NearTold, outside, Goes
<1>6. Bounded(c)'
  BY <1>1, Before, SameBefore, <1>2
     DEF Fits, Bounded, Dirs, Stations, NearTold, outside, Goes, linkVars
<1>7. HoldsItsTarget(c)'
  BY <1>1 DEF Fits, HoldsItsTarget, TaskTypes, Dirs, NearTold, outside, Goes, linkVars
<1>8. LeavesNothingOpen(c)'
  BY <1>1
     DEF Fits, LeavesNothingOpen, StreamTypes, TaskTypes, Dirs, Stations, At, Nodes, NearTold,
         outside, Goes, linkVars
<1>9. ASSUME calm'[c] PROVE Orderly(c)'
  <2>1. calm[c] /\ Orderly(c)
    BY <1>1, <1>9 DEF Fits, TaskTypes, NearTold, outside, Goes
  <2>2. Advances(c)'
    BY <1>1, <2>1
       DEF Orderly, Fits, Advances, TaskTypes, HoldsItsTarget, Untunnelled, Tunnelled, Dirs,
           NearTold, outside, Goes, linkVars
  <2>3. SourcesAreCalm(c)'
    BY <1>1, <2>1 DEF Orderly, Fits, SourcesAreCalm, Dirs, NearTold, outside, Goes, linkVars
  <2>4. NotYetPassed(c)'
    BY <1>1, <2>1 DEF Orderly, Fits, NotYetPassed, Dirs, Stations, NearTold, outside, Goes
  <2>5. PassesInOrder(c)'
    BY <1>1, <2>1, PassesSame DEF Orderly, TaskTypes, NearTold, outside, Goes, linkVars
  <2>6. Controlled(c)'
    BY <1>1, <2>1 DEF Orderly, Fits, Controlled, NearTold, outside, Goes, linkVars
  <2> QED
    BY <2>2, <2>3, <2>4, <2>5, <2>6 DEF Orderly
<1>10. Fits(c)'
  BY <1>6, <1>7, <1>8, <1>9 DEF Fits
<1> QED
  BY <1>2, <1>3, <1>4, <1>5, OthersFit, <1>10

LEMMA NearEndsKeeps ==
    ASSUME IInv, NEW c \in Conns, NearTold(c), ~(answer[c] = "reached" /\ link[c] = "up")
    PROVE  IInv'
<1>1. TaskTypes /\ StreamTypes /\ Fits(c)
  BY DEF IInv
<1>2. "near" \in Stations /\ Leaves(c, "near")
  BY <1>1 DEF Stations, Fits, HoldsItsTarget, NearTold
<1>3. Left(c, "near")
  BY <1>1, <1>2, LeavesDoes
<1>4. IsAbout(c)
  BY <1>1, <1>3
     DEF TaskTypes, StreamTypes, IsAbout, Untouched, NearTold, outside, Goes, linkVars, Left
<1>5. TaskTypes'
  BY <1>1, PermitsAssumption, <1>3
     DEF Task, TaskTypes, Dirs, NearTold, outside, Goes, linkVars, Left
<1>6. StreamTypes'
  BY <1>3 DEF Left
<1>7. PermitsKept'
  BY HoldersShrink, <1>1, <1>3
     DEF IInv, Holders, TaskTypes, NearTold, outside, Goes, Left, linkVars
<1>8. Bounded(c)'
  BY <1>1, <1>3, Before, SameBefore, <1>4
     DEF Fits, Bounded, StreamTypes, Dirs, Stations, Nodes, NearTold, outside, Goes, linkVars,
         Left
<1>9. HoldsItsTarget(c)'
  BY <1>1, <1>3
     DEF Fits, HoldsItsTarget, TaskTypes, Dirs, NearTold, outside, Goes, linkVars, Left
<1>10. LeavesNothingOpen(c)'
  BY <1>1, <1>3
     DEF Fits, LeavesNothingOpen, StreamTypes, TaskTypes, Dirs, Stations, At, Nodes, NearTold,
         outside, Goes, linkVars, Left, Dropped
<1>11. ASSUME calm'[c] PROVE Orderly(c)'
  <2>1. calm[c] /\ Orderly(c)
    BY <1>1, <1>11 DEF Fits, TaskTypes, NearTold, outside, Goes
  <2>2. Advances(c)'
    BY <1>1, <2>1, <1>3
       DEF Orderly, Fits, Advances, TaskTypes, HoldsItsTarget, Untunnelled, Tunnelled, Dirs,
           NearTold, outside, Goes, linkVars, Left
  <2>3. SourcesAreCalm(c)'
    <3>1. \A e \in Dirs : /\ end'[c][e]["app"] = end[c][e]["app"]
                         /\ count'[c][e]["app"] = count[c][e]["app"]
      BY <1>3, LeftKeepsSources DEF Stations
    <3> QED
      BY <1>4, <2>1, <3>1 DEF IsAbout, Orderly, SourcesAreCalm
  <2>4. NotYetPassed(c)'
    BY <1>1, <2>1, <1>3
       DEF Orderly, Fits, NotYetPassed, TaskTypes, StreamTypes, Advances, Dirs, Stations, Nodes,
           Untunnelled, Tunnelled, NearTold, outside, Goes, linkVars, Left
  <2>5. PassesInOrder(c)'
    BY <1>1, <2>1, <1>3, Before, SameBefore, <1>4
       DEF Orderly, Fits, PassesInOrder, TaskTypes, StreamTypes, Advances, Passed, Dirs,
           Stations, Exempt, Nodes, Untunnelled, Tunnelled, NearTold, outside, Goes, linkVars,
           Left
  <2>6. Controlled(c)'
    BY <1>1, <2>1, <1>3, LeftKeepsSources
       DEF Orderly, Fits, Controlled, NearTold, outside, Goes, linkVars, Left
  <2> QED
    BY <2>2, <2>3, <2>4, <2>5, <2>6 DEF Orderly
<1>12. Fits(c)'
  BY <1>8, <1>9, <1>10, <1>11 DEF Fits
<1> QED
  BY <1>4, <1>5, <1>6, <1>7, OthersFit, <1>12

(* the ends that are not those of a copy,                                  *)
LEMMA ControlEndsKeeps ==
    ASSUME IInv, NEW c \in Conns, ControlEnds(c)
    PROVE  IInv'
<1>1. TaskTypes /\ StreamTypes /\ Fits(c)
  BY DEF IInv
<1>2. "near" \in Stations /\ Leaves(c, "near")
  BY <1>1 DEF Stations, Fits, HoldsItsTarget, ControlEnds
<1>3. Left(c, "near")
  BY <1>1, <1>2, LeavesDoes
<1>4. IsAbout(c)
  BY <1>1, <1>3
     DEF TaskTypes, StreamTypes, IsAbout, Untouched, ControlEnds, outside, Left, Goes, linkVars
<1>5. TaskTypes'
  BY <1>1, PermitsAssumption, <1>3
     DEF Task, TaskTypes, Dirs, ControlEnds, outside, Left, Goes, linkVars
<1>6. StreamTypes'
  BY <1>3 DEF Left
<1>7. PermitsKept'
  BY HoldersShrink, <1>1, <1>3
     DEF IInv, Holders, TaskTypes, ControlEnds, outside, Left, Goes, linkVars
<1>8. Bounded(c)'
  BY <1>1, <1>3, Before, SameBefore, <1>4
     DEF Fits, Bounded, StreamTypes, Dirs, Stations, Nodes, ControlEnds, outside, Left, Goes,
         linkVars
<1>9. HoldsItsTarget(c)'
  BY <1>1, <1>3
     DEF Fits, HoldsItsTarget, TaskTypes, Dirs, ControlEnds, outside, Left, Goes, linkVars
<1>10. LeavesNothingOpen(c)'
  BY <1>1, <1>3
     DEF Fits, LeavesNothingOpen, StreamTypes, TaskTypes, Dirs, Stations, At, Nodes,
         ControlEnds, outside, Left, Goes, linkVars, Dropped
<1>11. ASSUME calm'[c] PROVE Orderly(c)'
  <2>1. calm[c] /\ Orderly(c)
    BY <1>1, <1>11 DEF Fits, TaskTypes, ControlEnds, outside
  <2>2. Advances(c)'
    BY <1>1, <2>1, <1>3
       DEF Orderly, Fits, Advances, TaskTypes, HoldsItsTarget, Untunnelled, Tunnelled, Dirs,
           ControlEnds, outside, Left, Goes, linkVars
  <2>3. SourcesAreCalm(c)'
    <3>1. \A e \in Dirs : /\ end'[c][e]["app"] = end[c][e]["app"]
                         /\ count'[c][e]["app"] = count[c][e]["app"]
      BY <1>3, LeftKeepsSources DEF Stations
    <3> QED
      BY <1>4, <2>1, <3>1 DEF IsAbout, Orderly, SourcesAreCalm
  <2>4. NotYetPassed(c)'
    BY <1>1, <2>1, <1>3
       DEF Orderly, Fits, NotYetPassed, TaskTypes, StreamTypes, Advances, Dirs, Stations, Nodes,
           Untunnelled, Tunnelled, ControlEnds, outside, Left, Goes, linkVars
  <2>5. PassesInOrder(c)'
    BY <1>1, <2>1, <1>3, Before, SameBefore, <1>4
       DEF Orderly, Fits, PassesInOrder, TaskTypes, StreamTypes, Advances, Passed, Dirs,
           Stations, Exempt, Nodes, Untunnelled, Tunnelled, ControlEnds, outside, Left, Goes,
           linkVars
  <2>6. Controlled(c)'
    <3>1. /\ count[c]["up"]["near"] \in Nat /\ count[c]["up"]["app"] \in Nat
          /\ end[c]["up"]["app"] \in {"open", "fin"}
      BY <1>1, <2>1 DEF StreamTypes, Orderly, SourcesAreCalm, Dirs, Nodes
    <3>2. end[c]["up"]["app"] = "fin" \/ count[c]["up"]["app"] > 0
      <4>1. CASE Unread(c, "up", "near")
        <5>1. count[c]["up"]["near"] < count[c]["up"]["app"]
          BY <4>1, Before DEF Unread, Dirs
        <5> QED
          BY <3>1, <5>1
      <4>2. CASE end[c]["up"]["app"] # "open"
        BY <3>1, <4>2
      <4> QED
        BY <4>1, <4>2 DEF ControlEnds
    <3> QED
      BY <1>3, <3>2, LeftKeepsSources DEF Controlled, Dirs
  <2> QED
    BY <2>2, <2>3, <2>4, <2>5, <2>6 DEF Orderly
<1>12. Fits(c)'
  BY <1>8, <1>9, <1>10, <1>11 DEF Fits
<1> QED
  BY <1>4, <1>5, <1>6, <1>7, OthersFit, <1>12

LEMMA FaultyEndKeeps ==
    ASSUME IInv, NEW c \in Conns, NEW s \in Stations, ~calm'[c], Leaves(c, s), At(c, s) # "idle",
           kind' = kind, answer' = answer, faults' \in 0..MaxFaults, stalled' = stalled,
           calm' = [calm EXCEPT ![c] = FALSE]
    PROVE  IInv'
<1>1. TaskTypes /\ StreamTypes /\ Fits(c)
  BY DEF IInv
<1>2. s \in Stations /\ Leaves(c, s)
  OBVIOUS
<1>3. Left(c, s)
  BY <1>1, <1>2, LeavesDoes
<1>4. IsAbout(c)
  BY <1>1, <1>3 DEF TaskTypes, StreamTypes, IsAbout, Untouched, Left, Goes, linkVars
<1>5. TaskTypes'
  BY <1>1, PermitsAssumption, <1>3 DEF Task, TaskTypes, Dirs, Left, Goes, linkVars
<1>6. StreamTypes'
  BY <1>3 DEF Left
<1>7. PermitsKept'
  BY HoldersShrink, <1>1, <1>3 DEF IInv, Holders, TaskTypes, Left, Goes, linkVars
<1>8. Bounded(c)'
  BY <1>1, <1>3, Before, SameBefore, <1>4
     DEF Fits, Bounded, StreamTypes, Dirs, Stations, Nodes, Left, Goes, linkVars
<1>9. HoldsItsTarget(c)'
  BY <1>1, <1>3 DEF Fits, TaskTypes, Stations, At, HoldsItsTarget, Dirs, Left, Goes, linkVars
<1>10. LeavesNothingOpen(c)'
  BY <1>1, <1>3
     DEF Fits, LeavesNothingOpen, StreamTypes, TaskTypes, Dirs, Stations, At, Nodes, Left, Goes,
         linkVars, Dropped
<1>11. ~calm'[c]
  BY <1>1 DEF TaskTypes, Fault
<1>12. Fits(c)'
  BY <1>8, <1>9, <1>10, <1>11 DEF Fits
<1> QED
  BY <1>4, <1>5, <1>6, <1>7, OthersFit, <1>12

(* the copies,                                                             *)
LEMMA CopyKeeps ==
    ASSUME IInv, NEW c \in Conns, NEW d \in Dirs, NEW s \in Stations, Copy(c, d, s)
    PROVE  IInv'
<1>1. TaskTypes /\ StreamTypes /\ Fits(c)
  BY DEF IInv
<1>2. s \in Nodes /\ s \in {"near", "far"} /\ s # "app"
  BY DEF Stations, Nodes
<1>3. IsAbout(c)
  BY <1>1, <1>2 DEF TaskTypes, StreamTypes, IsAbout, Untouched, Copy, outside, Open, At
<1>4. TaskTypes'
  BY <1>1, PermitsAssumption, <1>2 DEF Task, TaskTypes, Dirs, Copy, outside, Open, At
<1>5. StreamTypes'
  <2>1. count[c][d][s] \in Nat
    BY <1>1, <1>2 DEF StreamTypes
  <2>2. count[c][d][s] + 1 \in Nat
    BY <2>1
  <2> QED
    BY <1>1, <2>2 DEF StreamTypes, Copy
<1>6. PermitsKept'
  BY HoldersShrink, <1>1, <1>2 DEF IInv, Holders, TaskTypes, Copy, outside, Open, At
<1>7. Bounded(c)'
  <2>1. /\ \A e \in Dirs, n \in Nodes : <<e, n>> # <<d, s>> => count'[c][e][n] = count[c][e][n]
        /\ count'[c][d][s] = count[c][d][s] + 1
    BY <1>1, <1>2 DEF StreamTypes, Copy
  <2>2. SUFFICES ASSUME NEW e \in Dirs, NEW u \in Stations
                 PROVE  /\ count'[c][e]["app"] <= Blocks[c]
                        /\ count'[c][e][u] <= count'[c][e][Prev(e, u)]
    BY <1>3, SameBefore DEF Bounded, IsAbout
  <2>3. count'[c][e]["app"] <= Blocks[c]
    BY <1>1, <2>1, PrevIsOther DEF Fits, Bounded, Nodes
  <2>4. /\ count[c][e][u] \in Nat /\ count[c][e][Prev(e, u)] \in Nat
        /\ count[c][e][u] <= count[c][e][Prev(e, u)]
        /\ u \in Nodes /\ Prev(e, u) \in Nodes
    BY <1>1, PrevIsOther DEF StreamTypes, Fits, Bounded
  <2>5. CASE e = d /\ u = s
    <3>1. count[c][d][s] < count[c][d][Prev(d, s)]
      BY DEF Copy, Unread
    <3>2. count'[c][d][Prev(d, s)] = count[c][d][Prev(d, s)]
      BY <2>1, PrevIsOther
    <3> QED
      BY <2>1, <2>3, <2>4, <2>5, <3>1, <3>2
  <2>6. CASE ~(e = d /\ u = s)
    <3>1. count'[c][e][u] = count[c][e][u]
      BY <2>1, <2>4, <2>6
    <3>2. count'[c][e][Prev(e, u)] = count[c][e][Prev(e, u)]
            \/ count'[c][e][Prev(e, u)] = count[c][e][Prev(e, u)] + 1
      BY <2>1, <2>4
    <3> QED
      BY <2>3, <2>4, <3>1, <3>2
  <2> QED
    BY <2>5, <2>6
<1>8. HoldsItsTarget(c)'
  BY <1>1, <1>2 DEF Fits, HoldsItsTarget, Copy, outside, Open, At
<1>9. LeavesNothingOpen(c)'
  BY <1>1, <1>2 DEF Fits, LeavesNothingOpen, Dirs, Stations, At, Copy, outside, Open
<1>10. ASSUME calm'[c] PROVE Orderly(c)'
  <2>1. calm[c] /\ Orderly(c)
    BY <1>1, <1>10 DEF Fits, TaskTypes, Copy, outside, Open, At
  <2>2. Advances(c)'
    BY <1>1, <2>1, <1>2
       DEF Orderly, Fits, Advances, Untunnelled, Tunnelled, Copy, outside, Open, At
  <2>3. SourcesAreCalm(c)'
    BY <1>1, <2>1, <1>2 DEF Orderly, Fits, SourcesAreCalm, Dirs, Copy, outside, Open, At
  <2>4. NotYetPassed(c)'
    BY <1>1, <2>1, <1>2 DEF Orderly, Fits, NotYetPassed, Dirs, Stations, Copy, outside, Open, At
  <2>5. PassesInOrder(c)'
    <3>1. \A e \in Dirs, n \in Nodes : <<e, n>> # <<d, s>> => count'[c][e][n] = count[c][e][n]
      BY <1>1, <1>2 DEF StreamTypes, Copy
    <3>2. SUFFICES ASSUME answer[c] = "reached", kind # "udp",
                          NEW e \in Dirs, NEW u \in Stations,
                          end[c][e][u] # "open", ~(u = "far" /\ Exempt(c, e))
                   PROVE  Passed(c, e, u)'
      BY <1>3, SameBefore DEF PassesInOrder, IsAbout, Copy, Exempt
    <3>3. Passed(c, e, u)
      BY <2>1, <3>2 DEF Orderly, PassesInOrder
    <3>4. end[c][d][s] = "open"
      BY DEF Copy, Open
    <3>5. count'[c][e][u] = count[c][e][u]
      BY <3>1, <3>2, <3>4, PrevIsOther
    <3>6. count'[c][e][Prev(e, u)] = count[c][e][Prev(e, u)]
      <4>1. <<e, Prev(e, u)>> # <<d, s>>
        BY <3>3, <3>4, PrevIsOther, Before DEF Passed
      <4> QED
        BY <3>1, <4>1, PrevIsOther
    <3> QED
      BY <1>3, <3>3, <3>5, <3>6, SameBefore DEF Passed, Unread, Exempt, IsAbout, Copy
  <2>6. Controlled(c)'
    BY <1>1, <2>1, <1>2
       DEF Orderly, Fits, Controlled, TaskTypes, StreamTypes, Advances, Dirs, Nodes,
           Untunnelled, Tunnelled, Copy, outside, Open, At
  <2> QED
    BY <2>2, <2>3, <2>4, <2>5, <2>6 DEF Orderly
<1>11. Fits(c)'
  BY <1>7, <1>8, <1>9, <1>10 DEF Fits
<1> QED
  BY <1>3, <1>4, <1>5, <1>6, OthersFit, <1>11

LEMMA PassesOneKeeps ==
    ASSUME IInv, NEW c \in Conns, NEW d \in Dirs, NEW s \in Stations, PassEnd(c, d, s),
           end[c][Other(d)][s] = "open"
    PROVE  IInv'
<1>1. TaskTypes /\ StreamTypes /\ Fits(c)
  BY DEF IInv
<1>2. s \in Nodes /\ s \in {"near", "far"} /\ s # "app"
  BY DEF Stations, Nodes
<1>3. /\ \A e \in Dirs, n \in Nodes : <<e, n>> # <<d, s>> => end'[c][e][n] = end[c][e][n]
      /\ end' = [end EXCEPT ![c][d][s] = "fin"] /\ end'[c][d][s] = "fin"
      /\ UNCHANGED <<kind, near, far, answer, link, lost, count, faults, calm, stalled>>
  <2>1. /\ end' = [end EXCEPT ![c][d][s] = "fin"]
        /\ UNCHANGED <<kind, near, far, answer, link, lost, count, faults, calm, stalled>>
    BY DEF PassEnd, linkVars, outside
  <2>2. \A e \in Dirs, n \in Nodes :
            end'[c][e][n] = IF <<e, n>> = <<d, s>> THEN "fin" ELSE end[c][e][n]
    BY <1>1, <1>2, <2>1 DEF StreamTypes
  <2> QED
    BY <1>2, <2>1, <2>2
<1>4. IsAbout(c)
  BY <1>1, <1>2, <1>3 DEF TaskTypes, StreamTypes, IsAbout, Untouched
<1>5. TaskTypes'
  BY <1>1, PermitsAssumption, <1>2, <1>3 DEF Task, TaskTypes, Dirs
<1>6. StreamTypes'
  BY <1>1, <1>2, <1>3 DEF StreamTypes
<1>7. PermitsKept'
  BY HoldersShrink, <1>1, <1>2, <1>3 DEF IInv, Holders, TaskTypes
<1>8. Bounded(c)'
  BY <1>1, <1>2, <1>3, Before, SameBefore, <1>4 DEF Fits, Bounded, Dirs, Stations
<1>9. HoldsItsTarget(c)'
  BY <1>1, <1>2, <1>3 DEF Fits, HoldsItsTarget
<1>10. LeavesNothingOpen(c)'
  BY <1>1, <1>2, <1>3 DEF Fits, LeavesNothingOpen, Stations, Nodes, At
<1>11. ASSUME calm'[c] PROVE Orderly(c)'
  <2>1. calm[c] /\ Orderly(c)
    BY <1>1, <1>11, <1>2, <1>3 DEF Fits, TaskTypes
  <2>2. Advances(c)'
    BY <1>1, <2>1, <1>2, <1>3 DEF Orderly, Fits, Advances, Untunnelled, Tunnelled
  <2>3. SourcesAreCalm(c)'
    BY <1>2, <1>3, <2>1 DEF Orderly, SourcesAreCalm, Nodes
  <2>4. NotYetPassed(c)'
    <3>1. /\ answer[c] # "none"
          /\ near[c] = "asking" => s = "far"
      BY <1>1, <1>2, <2>1
         DEF Orderly, Advances, Tunnelled, Untunnelled, Fits, HoldsItsTarget, PassEnd, Open, At
    <3> QED
      BY <1>3, <2>1, <3>1 DEF Orderly, NotYetPassed, Nodes
  <2>5. PassesInOrder(c)'
    <3>2. SUFFICES ASSUME answer[c] = "reached", kind # "udp",
                          NEW e \in Dirs, NEW u \in Stations,
                          end'[c][e][u] # "open", ~(u = "far" /\ Exempt(c, e))
                   PROVE  Passed(c, e, u)'
      BY <1>3, SameBefore DEF PassesInOrder, Exempt
    <3>3. /\ end'[c][e][u] = "fin"
          /\ Exempt(c, e) \/ ~Unread(c, e, u)
          /\ IF kind = "http" /\ e = "up" THEN count[c][e][u] = Blocks[c]
                                         ELSE end[c][e][Prev(e, u)] = "fin"
      <4>1. CASE e = d /\ u = s
        BY <1>3, <4>1 DEF PassEnd, AtEnd
      <4>2. CASE ~(e = d /\ u = s)
        BY <2>1, <1>3, <3>2, <4>2, PrevIsOther DEF Orderly, PassesInOrder, Passed
      <4> QED
        BY <4>1, <4>2
    <3>4. end[c][e][Prev(e, u)] = "fin" => end'[c][e][Prev(e, u)] = "fin"
      BY <1>3, PrevIsOther
    <3> QED
      BY <1>3, <3>3, <3>4, SameBefore DEF Passed, Unread, Exempt
  <2>6. Controlled(c)'
    <3>1. kind # "udp"
      BY <1>2, <2>1 DEF Orderly, Advances, PassEnd, Open, At, Stations
    <3> QED
      BY <1>3, <3>1 DEF Controlled
  <2> QED
    BY <2>2, <2>3, <2>4, <2>5, <2>6 DEF Orderly
<1>12. Fits(c)'
  BY <1>8, <1>9, <1>10, <1>11 DEF Fits
<1> QED
  BY <1>4, <1>5, <1>6, <1>7, OthersFit, <1>12

LEMMA PassesBothKeeps ==
    ASSUME IInv, NEW c \in Conns, NEW d \in Dirs, NEW s \in Stations, PassEnd(c, d, s),
           end[c][Other(d)][s] # "open"
    PROVE  IInv'
<1>1. TaskTypes /\ StreamTypes /\ Fits(c)
  BY DEF IInv
<1>2. s \in Stations /\ Leaves(c, s)
  BY DEF PassEnd
<1>3. Left(c, s)
  BY <1>1, <1>2, LeavesDoes
<1>4. IsAbout(c)
  BY <1>1, <1>3
     DEF TaskTypes, StreamTypes, IsAbout, Untouched, PassEnd, outside, Open, At, linkVars, Left,
         Goes
<1>5. TaskTypes'
  BY <1>1, PermitsAssumption, <1>3
     DEF Task, TaskTypes, Dirs, PassEnd, outside, Open, At, linkVars, Left, Goes
<1>6. StreamTypes'
  BY <1>3 DEF Left
<1>7. PermitsKept'
  BY HoldersShrink, <1>1, <1>3
     DEF IInv, Holders, TaskTypes, PassEnd, outside, Open, At, Left, Goes, linkVars
<1>8. Bounded(c)'
  BY <1>1, <1>3, Before, SameBefore, <1>4
     DEF Fits, Bounded, StreamTypes, Dirs, Stations, Nodes, PassEnd, outside, Open, At,
         linkVars, Left, Goes
<1>9. HoldsItsTarget(c)'
  BY <1>1, <1>3
     DEF Fits, HoldsItsTarget, TaskTypes, Dirs, PassEnd, outside, Open, At, linkVars, Left, Goes
<1>10. LeavesNothingOpen(c)'
  BY <1>1, <1>3
     DEF Fits, LeavesNothingOpen, StreamTypes, TaskTypes, Dirs, Stations, At, Nodes, PassEnd,
         outside, Open, linkVars, Left, Goes, Dropped
<1>11. ASSUME calm'[c] PROVE Orderly(c)'
  <2>1. calm[c] /\ Orderly(c)
    BY <1>1, <1>11 DEF Fits, TaskTypes, PassEnd, outside, Open, At
  <2>2. Advances(c)'
    BY <1>1, <2>1, <1>3
       DEF Orderly, Fits, Advances, TaskTypes, HoldsItsTarget, Untunnelled, Tunnelled, Dirs,
           PassEnd, outside, Open, At, linkVars, Left, Goes
  <2>3. SourcesAreCalm(c)'
    <3>1. \A e \in Dirs : /\ end'[c][e]["app"] = end[c][e]["app"]
                         /\ count'[c][e]["app"] = count[c][e]["app"]
      BY <1>3, LeftKeepsSources DEF Stations
    <3> QED
      BY <1>4, <2>1, <3>1 DEF IsAbout, Orderly, SourcesAreCalm
  <2>4. NotYetPassed(c)'
    BY <1>1, <2>1, <1>3
       DEF Orderly, Fits, NotYetPassed, TaskTypes, StreamTypes, Advances, Dirs, Stations, Nodes,
           Untunnelled, Tunnelled, PassEnd, outside, Open, At, linkVars, Left, Goes
  <2>5. PassesInOrder(c)'
    <3>1. SUFFICES ASSUME answer[c] = "reached", kind # "udp"
                   PROVE  PassesInOrder(c)'
      BY DEF PassesInOrder, PassEnd
    <3>2. /\ end[c][d][s] = "open" /\ At(c, s) = "relaying"
          /\ AtEnd(c, d, s)
      BY DEF PassEnd, Open
    <3>3. Other(d) \in Dirs /\ Other(d) # d /\ \A e \in Dirs : e = d \/ e = Other(d)
      BY DEF Dirs, Other
    <3>4. (s = "far" /\ Exempt(c, Other(d))) \/ Passed(c, Other(d), s)
      BY <2>1, <3>1, <3>3 DEF PassesInOrder, Orderly
    <3>5. Last(d) = s => ~Unread(c, Other(d), s)
      <4>1. s = "near" => near[c] = "relaying"
        BY <3>2 DEF At
      <4>2. Last(d) = s => ~Exempt(c, Other(d))
        BY <4>1 DEF Last, Exempt, Other
      <4> QED
        BY <3>4, <4>2 DEF Passed
    <3>6. end'[c][d][s] = "fin"
      BY <3>2, <3>5, <1>3 DEF Left, Dropped
    <3>7. \A e \in Dirs : end[c][e][s] = "open" =>
            /\ end'[c][e][s] = "fin"
            /\ ~Unread(c, e, s)
            /\ IF kind = "http" /\ e = "up" THEN count[c][e][s] = Blocks[c]
                                           ELSE end[c][e][Prev(e, s)] = "fin"
      BY <3>2, <3>3, <3>6 DEF AtEnd
    <3>8. /\ s = "near" => near[c] # "ended" /\ near'[c] = "ended"
          /\ s # "near" => near'[c] = near[c]
          /\ kind' = kind /\ PassesInOrder(c)
      BY <1>1, <1>3, <2>1, <3>2 DEF At, Left, Goes, TaskTypes, PassEnd, Orderly
    <3> QED
      BY <1>1, <1>3, <3>1, <3>7, <3>8, PassesLeaving
  <2>6. Controlled(c)'
    <3>1. kind # "udp"
      BY <1>1, <2>1 DEF Orderly, Advances, PassEnd, Open, At, Stations
    <3> QED
      BY <3>1 DEF Controlled, PassEnd
  <2> QED
    BY <2>2, <2>3, <2>4, <2>5, <2>6 DEF Orderly
<1>12. Fits(c)'
  BY <1>8, <1>9, <1>10, <1>11 DEF Fits
<1> QED
  BY <1>4, <1>5, <1>6, <1>7, OthersFit, <1>12

LEMMA FailsKeeps ==
    ASSUME IInv, NEW c \in Conns, NEW d \in Dirs, NEW s \in Stations, Fails(c, d, s)
    PROVE  IInv'
<1>1. TaskTypes /\ StreamTypes /\ Fits(c)
  BY DEF IInv
<1>2. s \in Stations /\ Leaves(c, s)
  BY DEF Fails
<1>3. Left(c, s)
  BY <1>1, <1>2, LeavesDoes
<1>4. IsAbout(c)
  BY <1>1, <1>3
     DEF TaskTypes, StreamTypes, IsAbout, Untouched, Fails, outside, Open, At, Left, Goes,
         linkVars
<1>5. TaskTypes'
  BY <1>1, PermitsAssumption, <1>3
     DEF Task, TaskTypes, Dirs, Fails, outside, Open, At, Left, Goes, linkVars
<1>6. StreamTypes'
  BY <1>3 DEF Left
<1>7. PermitsKept'
  BY HoldersShrink, <1>1, <1>3
     DEF IInv, Holders, TaskTypes, Fails, outside, Open, At, Left, Goes, linkVars
<1>8. Bounded(c)'
  BY <1>1, <1>3, Before, SameBefore, <1>4
     DEF Fits, Bounded, StreamTypes, Dirs, Stations, Nodes, Fails, outside, Open, At, Left,
         Goes, linkVars
<1>9. HoldsItsTarget(c)'
  BY <1>1, <1>3
     DEF Fits, HoldsItsTarget, TaskTypes, Dirs, Fails, outside, Open, At, Left, Goes, linkVars
<1>10. LeavesNothingOpen(c)'
  BY <1>1, <1>3
     DEF Fits, LeavesNothingOpen, StreamTypes, TaskTypes, Dirs, Stations, At, Nodes, Fails,
         outside, Open, Left, Goes, linkVars, Dropped
<1>11. ASSUME calm'[c] PROVE Orderly(c)'
  <2>1. calm[c] /\ Orderly(c)
    BY <1>1, <1>11 DEF Fits, TaskTypes, Fails, outside, Open, At
  <2>2. Advances(c)'
    BY <1>1, <2>1, <1>3
       DEF Orderly, Fits, Advances, TaskTypes, HoldsItsTarget, Untunnelled, Tunnelled, Dirs,
           Fails, outside, Open, At, Left, Goes, linkVars
  <2>3. SourcesAreCalm(c)'
    <3>1. \A e \in Dirs : /\ end'[c][e]["app"] = end[c][e]["app"]
                         /\ count'[c][e]["app"] = count[c][e]["app"]
      BY <1>3, LeftKeepsSources DEF Stations
    <3> QED
      BY <1>4, <2>1, <3>1 DEF IsAbout, Orderly, SourcesAreCalm
  <2>4. NotYetPassed(c)'
    BY <1>1, <2>1, <1>3
       DEF Orderly, Fits, NotYetPassed, TaskTypes, StreamTypes, Advances, Dirs, Stations, Nodes,
           Untunnelled, Tunnelled, Fails, outside, Open, At, Left, Goes, linkVars
  <2>5. PassesInOrder(c)'
    <3>1. SUFFICES ASSUME answer[c] = "reached", kind # "udp"
                   PROVE  PassesInOrder(c)'
      BY DEF PassesInOrder, Fails
    <3>2. s = "far" /\ near[c] = "ended" /\ kind = "tunnel"
      BY <1>1, <2>1, <3>1, NeverFails DEF Fails
    <3>3. "near" \in Stations /\ "down" \in Dirs /\ ~Exempt(c, "down")
      BY DEF Stations, Dirs, Exempt
    <3>4. Passed(c, "down", "near")
      BY <1>1, <2>1, <3>1, <3>2, <3>3 DEF Fits, LeavesNothingOpen, At, Orderly, PassesInOrder
    <3>5. end[c]["down"]["far"] = "fin"
      BY <3>2, <3>3, <3>4, Before DEF Passed
    <3>6. \A e \in Dirs : end[c][e][s] = "open" => Exempt(c, e)
      BY <3>2, <3>5 DEF Dirs, Exempt
    <3>7. near'[c] = near[c] /\ kind' = kind /\ PassesInOrder(c)
      BY <1>1, <1>3, <2>1, <3>2 DEF Left, Goes, TaskTypes, Fails, Orderly
    <3> QED
      BY <1>1, <1>3, <3>1, <3>2, <3>6, <3>7, PassesLeaving
  <2>6. Controlled(c)'
    <3>1. kind # "udp"
      BY <1>1, <2>1 DEF Orderly, Advances, Fails, Open, At, Stations
    <3> QED
      BY <3>1 DEF Controlled, Fails
  <2> QED
    BY <2>2, <2>3, <2>4, <2>5, <2>6 DEF Orderly
<1>12. Fits(c)'
  BY <1>8, <1>9, <1>10, <1>11 DEF Fits
<1> QED
  BY <1>4, <1>5, <1>6, <1>7, OthersFit, <1>12

(* and the environment.                                                    *)
LEMMA WriteKeeps ==
    ASSUME IInv, NEW c \in Conns, NEW d \in Dirs, Write(c, d)
    PROVE  IInv'
<1>1. TaskTypes /\ StreamTypes /\ Fits(c)
  BY DEF IInv
<1>2. IsAbout(c)
  BY <1>1 DEF TaskTypes, StreamTypes, IsAbout, Untouched, Write, outside
<1>3. TaskTypes'
  BY <1>1, PermitsAssumption DEF Task, TaskTypes, Dirs, Write, outside
<1>4. StreamTypes'
  BY <1>1 DEF StreamTypes, Dirs, Nodes, Write, outside
<1>5. PermitsKept'
  BY HoldersShrink, <1>1 DEF IInv, Holders, TaskTypes, Write, outside
<1>6. Bounded(c)'
  <2>1. /\ \A e \in Dirs, n \in Nodes :
               <<e, n>> # <<d, "app">> => count'[c][e][n] = count[c][e][n]
        /\ count'[c][d]["app"] = count[c][d]["app"] + 1
    BY <1>1 DEF StreamTypes, Write, Nodes
  <2>2. SUFFICES ASSUME NEW e \in Dirs, NEW u \in Stations
                 PROVE  /\ count'[c][e]["app"] <= Blocks[c]
                        /\ count'[c][e][u] <= count'[c][e][Prev(e, u)]
    BY <1>2, SameBefore DEF Bounded, IsAbout, Stations
  <2>3. count'[c][e]["app"] <= Blocks[c]
    <3>1. /\ count[c][e]["app"] <= Blocks[c]
          /\ count[c][d]["app"] < Blocks[c]
          /\ count[c][e]["app"] \in Nat /\ count[c][d]["app"] \in Nat /\ Blocks[c] \in Nat
      BY <1>1, BlocksAssumption DEF Fits, Bounded, StreamTypes, Nodes, Write
    <3>2. count'[c][e]["app"] = count[c][e]["app"] \/ e = d
      BY <2>1 DEF Nodes
    <3> QED
      BY <2>1, <3>1, <3>2
  <2>4. /\ count[c][e][u] \in Nat /\ count[c][e][Prev(e, u)] \in Nat
        /\ count[c][e][u] <= count[c][e][Prev(e, u)]
        /\ u \in Nodes /\ u # "app" /\ Prev(e, u) \in Nodes
    BY <1>1, PrevIsOther DEF StreamTypes, Fits, Bounded
  <2>5. count'[c][e][u] = count[c][e][u]
    BY <2>1, <2>4
  <2>6. count'[c][e][Prev(e, u)] = count[c][e][Prev(e, u)]
          \/ count'[c][e][Prev(e, u)] = count[c][e][Prev(e, u)] + 1
    BY <2>1, <2>4
  <2> QED
    BY <2>3, <2>4, <2>5, <2>6
<1>7. HoldsItsTarget(c)'
  BY <1>1 DEF Fits, HoldsItsTarget, Write, outside
<1>8. LeavesNothingOpen(c)'
  BY <1>1 DEF Fits, LeavesNothingOpen, Dirs, Stations, At, Write, outside
<1>9. ASSUME calm'[c] PROVE Orderly(c)'
  <2>1. calm[c] /\ Orderly(c)
    BY <1>1, <1>9 DEF Fits, TaskTypes, Write, outside
  <2>2. Advances(c)'
    BY <1>1, <2>1 DEF Orderly, Fits, Advances, Untunnelled, Tunnelled, Write, outside
  <2>3. SourcesAreCalm(c)'
    BY <1>1, <2>1 DEF Orderly, Fits, SourcesAreCalm, Dirs, Write, outside
  <2>4. NotYetPassed(c)'
    BY <1>1, <2>1 DEF Orderly, Fits, NotYetPassed, Dirs, Stations, Write, outside
  <2>5. PassesInOrder(c)'
    <3>1. \A e \in Dirs, n \in Nodes : <<e, n>> # <<d, "app">> => count'[c][e][n] = count[c][e][n]
      BY <1>1 DEF StreamTypes, Write, Nodes
    <3>2. SUFFICES ASSUME answer[c] = "reached", kind # "udp",
                          NEW e \in Dirs, NEW u \in Stations,
                          end[c][e][u] # "open", ~(u = "far" /\ Exempt(c, e))
                   PROVE  Passed(c, e, u)'
      BY <1>2, SameBefore DEF PassesInOrder, IsAbout, Write, Exempt
    <3>3. Passed(c, e, u)
      BY <2>1, <3>2 DEF Orderly, PassesInOrder
    <3>4. end[c][d]["app"] = "open" /\ count[c][d]["app"] < Blocks[c]
      BY DEF Write
    <3>5. count'[c][e][u] = count[c][e][u]
      BY <3>1, PrevIsOther
    <3>6. count'[c][e][Prev(e, u)] = count[c][e][Prev(e, u)]
      <4>1. CASE kind = "http" /\ e = "up"
        <5>1. /\ Prev(e, u) = "app"
              /\ count[c][e][u] = Blocks[c]
              /\ count[c][e][u] <= count[c][e]["app"]
          BY <1>1, <3>3, <4>1, PrevIsOther, Before DEF Passed, Fits, Bounded
        <5>2. /\ count[c][e]["app"] \in Nat /\ Blocks[c] \in Nat
          BY <1>1, BlocksAssumption DEF StreamTypes, Nodes
        <5>3. e # d
          BY <3>4, <5>1, <5>2
        <5> QED
          BY <3>1, <5>1, <5>3 DEF Nodes
      <4>2. CASE ~(kind = "http" /\ e = "up")
        <5>1. <<e, Prev(e, u)>> # <<d, "app">>
          BY <3>3, <3>4, <4>2 DEF Passed
        <5> QED
          BY <3>1, <5>1, PrevIsOther
      <4> QED
        BY <4>1, <4>2
    <3> QED
      BY <1>2, <3>3, <3>5, <3>6, SameBefore DEF Passed, Unread, Exempt, IsAbout, Write
  <2>6. Controlled(c)'
    BY <1>1, <2>1
       DEF Orderly, Fits, Controlled, TaskTypes, StreamTypes, Advances, Dirs, Nodes,
           Untunnelled, Tunnelled, Write, outside
  <2> QED
    BY <2>2, <2>3, <2>4, <2>5, <2>6 DEF Orderly
<1>10. Fits(c)'
  BY <1>6, <1>7, <1>8, <1>9 DEF Fits
<1> QED
  BY <1>2, <1>3, <1>4, <1>5, OthersFit, <1>10

LEMMA CloseWriteKeeps ==
    ASSUME IInv, NEW c \in Conns, NEW d \in Dirs, CloseWrite(c, d)
    PROVE  IInv'
<1>1. TaskTypes /\ StreamTypes /\ Fits(c)
  BY DEF IInv
<1>2. /\ \A e \in Dirs, n \in Nodes :
            end'[c][e][n] = IF e = d /\ n = "app" THEN "fin" ELSE end[c][e][n]
      /\ UNCHANGED <<kind, near, far, answer, link, lost, count>>
  BY <1>1 DEF StreamTypes, CloseWrite, linkVars, Nodes
<1>3. IsAbout(c)
  BY <1>1, <1>2 DEF TaskTypes, StreamTypes, IsAbout, Untouched, CloseWrite, linkVars
<1>4. TaskTypes'
  BY <1>1, PermitsAssumption, <1>2 DEF Task, TaskTypes, Dirs, CloseWrite, linkVars
<1>5. StreamTypes'
  BY <1>1 DEF StreamTypes, Dirs, Nodes, CloseWrite, linkVars
<1>6. PermitsKept'
  BY HoldersShrink, <1>1, <1>2 DEF IInv, Holders, TaskTypes, CloseWrite
<1>7. Bounded(c)'
  BY <1>1, <1>2, Before, SameBefore, <1>3
     DEF Fits, Bounded, Dirs, Stations, CloseWrite, linkVars
<1>8. HoldsItsTarget(c)'
  BY <1>1, <1>2 DEF Fits, HoldsItsTarget, CloseWrite, linkVars
<1>9. LeavesNothingOpen(c)'
  BY <1>1, <1>2 DEF Fits, LeavesNothingOpen, Dirs, Stations, At, CloseWrite
<1>10. ASSUME calm'[c] PROVE Orderly(c)'
  <2>1. calm[c] /\ Orderly(c)
    BY <1>1, <1>10 DEF Fits, TaskTypes, CloseWrite
  <2>2. Advances(c)'
    BY <1>1, <2>1, <1>2
       DEF Orderly, Fits, Advances, Untunnelled, Tunnelled, CloseWrite, linkVars
  <2>3. SourcesAreCalm(c)'
    <3>1. ~EndsEarly(c, d)'
      BY <1>10, <1>1 DEF CloseWrite, TaskTypes
    <3>2. kind = "http" /\ d = "up" => count[c][d]["app"] = Blocks[c]
      <4>1. /\ count[c][d]["app"] \in Nat /\ Blocks[c] \in Nat
            /\ count[c][d]["app"] <= Blocks[c]
        BY <1>1, BlocksAssumption DEF StreamTypes, Nodes, Fits, Bounded
      <4>2. kind = "http" /\ d = "up" => ~(count[c][d]["app"] < Blocks[c])
        BY <1>2, <3>1 DEF EndsEarly, Nodes
      <4> QED
        BY <4>1, <4>2
    <3> QED
      BY <1>2, <2>1, <3>2 DEF Orderly, SourcesAreCalm, Nodes
  <2>4. NotYetPassed(c)'
    BY <1>1, <2>1, <1>2 DEF Orderly, Fits, NotYetPassed, Dirs, Stations, CloseWrite
  <2>5. PassesInOrder(c)'
    <3>2. SUFFICES ASSUME answer[c] = "reached", kind # "udp",
                          NEW e \in Dirs, NEW u \in Stations,
                          end[c][e][u] # "open", ~(u = "far" /\ Exempt(c, e))
                   PROVE  Passed(c, e, u)'
      BY <1>3, <1>2, PrevIsOther, SameBefore DEF PassesInOrder, IsAbout, Exempt
    <3>3. Passed(c, e, u)
      BY <2>1, <3>2 DEF Orderly, PassesInOrder
    <3>4. end'[c][e][u] = "fin"
      BY <1>2, <3>3, PrevIsOther DEF Passed
    <3>5. end[c][e][Prev(e, u)] = "fin" => end'[c][e][Prev(e, u)] = "fin"
      BY <1>2, PrevIsOther
    <3> QED
      BY <1>3, <1>2, <3>3, <3>4, <3>5, SameBefore DEF Passed, Unread, Exempt, IsAbout
  <2>6. Controlled(c)'
    BY <1>1, <2>1, <1>2 DEF Orderly, Fits, Controlled, CloseWrite, linkVars
  <2> QED
    BY <2>2, <2>3, <2>4, <2>5, <2>6 DEF Orderly
<1>11. Fits(c)'
  BY <1>7, <1>8, <1>9, <1>10 DEF Fits
<1> QED
  BY <1>3, <1>4, <1>5, <1>6, OthersFit, <1>11

LEMMA AbortKeeps ==
    ASSUME IInv, NEW c \in Conns, NEW d \in Dirs, Abort(c, d)
    PROVE  IInv'
<1>1. TaskTypes /\ StreamTypes /\ Fits(c)
  BY DEF IInv
<1>2. IsAbout(c)
  BY <1>1 DEF TaskTypes, StreamTypes, IsAbout, Untouched, Abort, Fault, linkVars
<1>3. TaskTypes'
  BY <1>1, PermitsAssumption DEF Task, TaskTypes, Dirs, Abort, Fault, linkVars
<1>4. StreamTypes'
  BY <1>1 DEF StreamTypes, Dirs, Nodes, Abort, Fault, linkVars
<1>5. PermitsKept'
  BY HoldersShrink, <1>1 DEF IInv, Holders, TaskTypes, Abort, Fault
<1>6. Bounded(c)'
  BY <1>1, Before, SameBefore, <1>2 DEF Fits, Bounded, Dirs, Stations, Abort, Fault, linkVars
<1>7. HoldsItsTarget(c)'
  BY <1>1 DEF Fits, HoldsItsTarget, Abort, Fault, linkVars
<1>8. LeavesNothingOpen(c)'
  BY <1>1 DEF Fits, LeavesNothingOpen, Dirs, Stations, At, Abort, Fault
<1>9. ~calm'[c]
  BY <1>1 DEF TaskTypes, Fault, Abort
<1>10. Fits(c)'
  BY <1>6, <1>7, <1>8, <1>9 DEF Fits
<1> QED
  BY <1>2, <1>3, <1>4, <1>5, OthersFit, <1>10

LEMMA StopsReadingKeeps ==
    ASSUME IInv, NEW c \in Conns, NEW d \in Dirs, StopsReading(c, d)
    PROVE  IInv'
<1>1. TaskTypes'
  BY PermitsAssumption DEF IInv, TaskTypes, StopsReading, linkVars
<1>2. StreamTypes'
  BY DEF IInv, StreamTypes, StopsReading, linkVars
<1>3. PermitsKept'
  BY HoldersShrink DEF IInv, Holders, StopsReading
<1>4. ASSUME NEW x \in Conns PROVE Fits(x)'
  BY UntouchedFits DEF IInv, Untouched, StopsReading, linkVars
<1> QED
  BY <1>1, <1>2, <1>3, <1>4 DEF IInv

LEMMA LinkLostKeeps ==
    ASSUME IInv, NEW c \in Conns, LinkLost(c)
    PROVE  IInv'
<1>1. TaskTypes /\ StreamTypes /\ Fits(c)
  BY DEF IInv
<1>2. kind = "tunnel" /\ count[c]["up"]["far"] \in Nat /\ count[c]["up"]["near"] \in Nat
      /\ count[c]["down"]["far"] \in Nat /\ count[c]["down"]["near"] \in Nat
  BY <1>1 DEF Fits, HoldsItsTarget, LinkLost, StreamTypes, Dirs, Nodes
<1>3. \E a, b \in Nat, gone \in SUBSET Dirs :
        /\ count' = [count EXCEPT ![c]["up"]["near"] = a, ![c]["down"]["far"] = b]
        /\ lost' = [lost EXCEPT ![c] = gone]
        /\ count[c]["up"]["far"] <= a /\ a <= count[c]["up"]["near"]
        /\ count[c]["down"]["near"] <= b /\ b <= count[c]["down"]["far"]
  <2>1. PICK a \in Arrivals(c, "up", "near"), b \in Arrivals(c, "down", "far") :
             /\ count' = [count EXCEPT ![c]["up"]["near"] = a[1], ![c]["down"]["far"] = b[1]]
             /\ lost' = [lost EXCEPT ![c] = a[2] \cup b[2]]
    BY DEF LinkLost
  <2>2. /\ a[1] \in count[c]["up"]["far"]..count[c]["up"]["near"] /\ a[2] \subseteq {"up"}
        /\ b[1] \in count[c]["down"]["near"]..count[c]["down"]["far"] /\ b[2] \subseteq {"down"}
    BY <1>2, Peers DEF Arrivals
  <2>3. /\ a[1] \in Nat /\ count[c]["up"]["far"] <= a[1] /\ a[1] <= count[c]["up"]["near"]
        /\ b[1] \in Nat /\ count[c]["down"]["near"] <= b[1] /\ b[1] <= count[c]["down"]["far"]
        /\ a[2] \cup b[2] \in SUBSET Dirs
    BY <1>2, <2>2 DEF Dirs
  <2> QED
    BY <2>1, <2>3
<1>4. IsAbout(c)
  BY <1>1, <1>2, <1>3 DEF TaskTypes, StreamTypes, IsAbout, Untouched, LinkLost, Fault
<1>5. TaskTypes'
  <2>1. lost' \in [Conns -> SUBSET Dirs]
    BY <1>1, <1>3 DEF TaskTypes
  <2>2. /\ link' \in [Conns -> {"none", "up", "closed"}]
        /\ faults' \in 0..MaxFaults /\ calm' \in [Conns -> BOOLEAN]
    BY <1>1, PermitsAssumption DEF TaskTypes, LinkLost, Fault
  <2> QED
    BY <1>1, <2>1, <2>2 DEF TaskTypes, LinkLost, Fault
<1>6. StreamTypes'
  <2>1. PICK a, b \in Nat :
             count' = [count EXCEPT ![c]["up"]["near"] = a, ![c]["down"]["far"] = b]
    BY <1>3
  <2>2. count' \in [Conns -> [Dirs -> [Nodes -> Nat]]]
    BY <1>1, <2>1 DEF StreamTypes
  <2> QED
    BY <1>1, <2>2 DEF StreamTypes, LinkLost
<1>7. PermitsKept'
  BY HoldersShrink, <1>1, <1>2, <1>3 DEF IInv, Holders, TaskTypes, LinkLost, Fault
<1>8. Bounded(c)'
  <2>1. PICK a, b \in Nat :
             /\ count' = [count EXCEPT ![c]["up"]["near"] = a, ![c]["down"]["far"] = b]
             /\ count[c]["up"]["far"] <= a /\ a <= count[c]["up"]["near"]
             /\ count[c]["down"]["near"] <= b /\ b <= count[c]["down"]["far"]
    BY <1>3
  <2>2. /\ count'[c]["up"]["app"] = count[c]["up"]["app"]
        /\ count'[c]["up"]["near"] = a
        /\ count'[c]["up"]["far"] = count[c]["up"]["far"]
        /\ count'[c]["down"]["app"] = count[c]["down"]["app"]
        /\ count'[c]["down"]["near"] = count[c]["down"]["near"]
        /\ count'[c]["down"]["far"] = b
    BY <1>1, <2>1 DEF StreamTypes, Dirs, Nodes
  <2>3. /\ count[c]["up"]["app"] <= Blocks[c] /\ count[c]["down"]["app"] <= Blocks[c]
        /\ count[c]["up"]["near"] <= count[c]["up"]["app"]
        /\ count[c]["down"]["far"] <= count[c]["down"]["app"]
        /\ count[c]["up"]["app"] \in Nat /\ count[c]["down"]["app"] \in Nat
    BY <1>1, <1>2, Before DEF Fits, Bounded, Dirs, Stations, StreamTypes, Nodes
  <2>4. a <= count[c]["up"]["app"] /\ b <= count[c]["down"]["app"]
    BY <1>2, <2>1, <2>3
  <2>5. /\ Stations = {"near", "far"}
        /\ Prev("up", "near") = "app" /\ Prev("up", "far") = "near"
        /\ Prev("down", "far") = "app" /\ Prev("down", "near") = "far"
    BY <1>2, Before DEF Dirs, Stations
  <2>6. /\ Stations' = Stations
        /\ \A d \in Dirs, s \in Stations : Prev(d, s)' = Prev(d, s)
    BY <1>4, SameBefore DEF IsAbout
  <2>7. ASSUME NEW d \in Dirs, NEW s \in Stations
        PROVE  /\ count'[c][d]["app"] <= Blocks[c]
               /\ count'[c][d][s] <= count'[c][d][Prev(d, s)]
    <3>1. CASE d = "up"
      BY <2>1, <2>2, <2>3, <2>4, <2>5, <3>1
    <3>2. CASE d = "down"
      BY <2>1, <2>2, <2>3, <2>4, <2>5, <3>2
    <3> QED
      BY <3>1, <3>2 DEF Dirs
  <2> QED
    BY <2>5, <2>6, <2>7 DEF Bounded
<1>9. HoldsItsTarget(c)'
  BY <1>1, <1>2, <1>3 DEF Fits, HoldsItsTarget, LinkLost, Fault
<1>10. LeavesNothingOpen(c)'
  BY <1>1, <1>2, <1>3 DEF Fits, LeavesNothingOpen, Dirs, Stations, At, LinkLost, Fault
<1>11. ~calm'[c]
  BY <1>1 DEF TaskTypes, Fault, LinkLost
<1>12. Fits(c)'
  BY <1>8, <1>9, <1>10, <1>11 DEF Fits
<1> QED
  BY <1>4, <1>5, <1>6, <1>7, OthersFit, <1>12

-----------------------------------------------------------------------------

(* The three facts about IInv.                                             *)
LEMMA Initially == Init => IInv
<1> SUFFICES ASSUME Init PROVE IInv
  OBVIOUS
<1>1. TaskTypes
  BY PermitsAssumption DEF Init, TaskTypes, Task
<1>2. StreamTypes
  BY DEF Init, StreamTypes
<1>3. PermitsKept
  <2>1. Holders = {}
    BY DEF Init, Holders
  <2> QED
    BY <2>1, FS_EmptySet, PermitsAssumption DEF PermitsKept
<1>4. ASSUME NEW c \in Conns PROVE Fits(c)
  <2>1. Bounded(c)
    <3>1. \A d \in Dirs, n \in Nodes : count[c][d][n] = 0
      BY DEF Init
    <3>2. Blocks[c] \in Nat
      BY BlocksAssumption
    <3> QED
      BY <3>1, <3>2, PrevIsOther DEF Bounded, Nodes
  <2>2. HoldsItsTarget(c) /\ LeavesNothingOpen(c)
    BY DEF Init, HoldsItsTarget, LeavesNothingOpen, At
  <2>3. Advances(c) /\ SourcesAreCalm(c)
    BY DEF Init, Advances, Tunnelled, Untunnelled, SourcesAreCalm, Nodes
  <2>4. NotYetPassed(c) /\ Controlled(c)
    BY DEF Init, NotYetPassed, Controlled, Stations, Nodes
  <2>5. PassesInOrder(c)
    BY DEF Init, PassesInOrder
  <2> QED
    BY <2>1, <2>2, <2>3, <2>4, <2>5 DEF Fits, Orderly
<1> QED
  BY <1>1, <1>2, <1>3, <1>4 DEF IInv

LEMMA StutterKeeps ==
    ASSUME IInv, UNCHANGED vars
    PROVE  IInv'
<1>1. TaskTypes' /\ StreamTypes'
  BY DEF IInv, TaskTypes, StreamTypes, vars, linkVars, outside
<1>2. PermitsKept'
  BY HoldersShrink DEF IInv, Holders, vars
<1>3. ASSUME NEW c \in Conns PROVE Fits(c)'
  BY UntouchedFits DEF IInv, Untouched, vars, linkVars, outside
<1> QED
  BY <1>1, <1>2, <1>3 DEF IInv

LEMMA AcceptKeeps ==
    ASSUME IInv, NEW c \in Conns,
           SocksAccepts(c) \/ ProxyAccepts(c) \/ TcpAccepts(c) \/ TunnelAccepts(c)
    PROVE  IInv'
<1>1. CASE SocksAccepts(c)
  BY <1>1, BeginsKeeps DEF SocksAccepts, Accepts, Goes
<1>2. CASE ProxyAccepts(c)
  BY <1>2, BeginsKeeps DEF ProxyAccepts, Accepts, Goes
<1>3. CASE TcpAccepts(c)
  BY <1>3, BeginsKeeps DEF TcpAccepts, Accepts, Goes
<1>4. CASE TunnelAccepts(c)
  BY <1>4, BeginsKeeps DEF TunnelAccepts, Accepts, Goes
<1> QED
  BY <1>1, <1>2, <1>3, <1>4

LEMMA SetupKeeps ==
    ASSUME IInv, NEW c \in Conns, Setup(c)
    PROVE  IInv'
<1>1. CASE SocksGreeting(c)
  BY <1>1, ProceedsKeeps DEF SocksGreeting, IInv, Fits, HoldsItsTarget, Task
<1>2. CASE SocksRequest(c)
  BY <1>2, ProceedsKeeps DEF SocksRequest, Task
<1>3. CASE ProxyRequest(c)
  BY <1>3, ProceedsKeeps DEF ProxyRequest, Task
<1>4. CASE SocksConnects(c) \/ BindAccepts(c) \/ ProxyConnects(c) \/ TcpConnects(c)
  BY <1>4, ReachesKeeps
     DEF SocksConnects, BindAccepts, ProxyConnects, TcpConnects, Reaches, Goes
<1>5. CASE Associates(c)
  BY <1>5, ReachesKeeps DEF Associates, Goes
<1>6. CASE SocksRefuses(c) \/ ProxyRefuses(c) \/ DialFails(c)
  BY <1>6, RefusesKeeps DEF SocksRefuses, ProxyRefuses, DialFails
<1>7. CASE OpenStream(c) \/ FarAccepts(c) \/ Acquire(c) \/ FarRefuses(c)
  BY <1>7, OpenStreamKeeps, FarAcceptsKeeps, AcquireKeeps, FarRefusesKeeps
<1>8. CASE FarReached(c)
  BY <1>8, FarRelaysKeeps, FarDropsKeeps
<1>9. CASE NearTold(c)
  BY <1>9, NearRelaysKeeps, NearEndsKeeps
<1> QED
  BY <1>1, <1>2, <1>3, <1>4, <1>5, <1>6, <1>7, <1>8, <1>9 DEF Setup

LEMMA StepKeeps ==
    ASSUME IInv, NEW c \in Conns, NEW s \in Stations, Step(c, s) \/ Interrupt(c, s)
    PROVE  IInv'
<1>1. CASE Step(c, s)
  BY <1>1, CopyKeeps, PassesOneKeeps, PassesBothKeeps, FailsKeeps DEF Step
<1>2. CASE Interrupt(c, s)
  <2>1. /\ calm' = [calm EXCEPT ![c] = FALSE]
        /\ faults' \in 0..MaxFaults
        /\ ~calm'[c] /\ stalled' = stalled
    BY <1>2, PermitsAssumption DEF Interrupt, Fault, IInv, TaskTypes
  <2> QED
    BY <1>2, <2>1, FaultyEndKeeps DEF Interrupt
<1> QED
  BY <1>1, <1>2

LEMMA NextKeeps ==
    ASSUME IInv, Next
    PROVE  IInv'
<1>1. PICK c \in Conns :
          \/ SocksAccepts(c) \/ ProxyAccepts(c) \/ TcpAccepts(c) \/ TunnelAccepts(c)
          \/ Setup(c)
          \/ UdpResolves(c) \/ UdpResolved(c) \/ ControlEnds(c) \/ UdpIdles(c)
          \/ \E s \in Stations : Step(c, s) \/ Interrupt(c, s)
          \/ BadFraming(c)
          \/ \E d \in Dirs : Write(c, d) \/ CloseWrite(c, d) \/ Abort(c, d) \/ StopsReading(c, d)
          \/ LinkLost(c)
  BY DEF Next
<1>2. CASE SocksAccepts(c) \/ ProxyAccepts(c) \/ TcpAccepts(c) \/ TunnelAccepts(c)
  BY <1>2, AcceptKeeps
<1>3. CASE Setup(c)
  BY <1>3, SetupKeeps
<1>4. CASE UdpResolves(c) \/ UdpResolved(c)
  BY <1>4, ProceedsKeeps DEF UdpResolves, UdpResolved, Task
<1>5. CASE ControlEnds(c)
  BY <1>5, ControlEndsKeeps
<1>6. CASE UdpIdles(c)
  <2>1. /\ calm' = [calm EXCEPT ![c] = FALSE]
        /\ faults' \in 0..MaxFaults
        /\ ~calm'[c] /\ stalled' = stalled
    BY <1>6 DEF UdpIdles, IInv, TaskTypes
  <2>2. "near" \in Stations /\ At(c, "near") # "idle" /\ Leaves(c, "near")
        /\ kind' = kind /\ answer' = answer
    BY <1>6 DEF UdpIdles, Stations, At
  <2> QED
    BY <2>1, <2>2, FaultyEndKeeps
<1>7. CASE \E s \in Stations : Step(c, s) \/ Interrupt(c, s)
  BY <1>7, StepKeeps
<1>8. CASE \E d \in Dirs : Write(c, d) \/ CloseWrite(c, d) \/ Abort(c, d) \/ StopsReading(c, d)
  BY <1>8, WriteKeeps, CloseWriteKeeps, AbortKeeps, StopsReadingKeeps
<1>9. CASE LinkLost(c)
  BY <1>9, LinkLostKeeps
<1>10. CASE BadFraming(c)
  <2>1. /\ calm' = [calm EXCEPT ![c] = FALSE]
        /\ faults' \in 0..MaxFaults
        /\ ~calm'[c] /\ stalled' = stalled
    BY <1>10 DEF BadFraming, IInv, TaskTypes
  <2>2. "near" \in Stations /\ At(c, "near") # "idle" /\ Leaves(c, "near")
        /\ kind' = kind /\ answer' = answer
    BY <1>10 DEF BadFraming, Open, Stations, At
  <2> QED
    BY <2>1, <2>2, FaultyEndKeeps
<1> QED
  BY <1>1, <1>2, <1>3, <1>4, <1>5, <1>6, <1>7, <1>8, <1>9, <1>10

(* A connection's tasks, its link and its streams agree, and permits are   *)
(* counted.                                                                *)
THEOREM Invariance == Spec => []IInv
<1>1. Init => IInv
  BY Initially
<1>2. IInv /\ [Next]_vars => IInv'
  BY NextKeeps, StutterKeeps
<1> QED
  BY <1>1, <1>2, PTL DEF Spec

(* The types of TypeOK follow.                                             *)
LEMMA TypesFollow == IInv => TypeOK
<1> SUFFICES ASSUME IInv PROVE TypeOK
  OBVIOUS
<1>1. far \in [Conns -> Task]
  BY DEF IInv, TaskTypes, Task
<1>2. ASSUME NEW c \in Conns, NEW d \in Dirs
      PROVE  /\ \A s \in Stations : count[c][d][s] \in 0..count[c][d][Prev(d, s)]
             /\ count[c][d]["app"] \in 0..Blocks[c]
  <2>1. Fits(c)
    BY DEF IInv
  <2>2. \A n \in Nodes : count[c][d][n] \in Nat
    BY DEF IInv, StreamTypes
  <2>3. ASSUME NEW s \in Stations PROVE count[c][d][s] \in 0..count[c][d][Prev(d, s)]
    <3>1. /\ count[c][d][s] \in Nat /\ count[c][d][Prev(d, s)] \in Nat
          /\ count[c][d][s] <= count[c][d][Prev(d, s)]
      BY <2>1, <2>2, PrevIsOther DEF Fits, Bounded
    <3> QED
      BY <3>1
  <2>4. /\ count[c][d]["app"] \in Nat /\ Blocks[c] \in Nat
        /\ count[c][d]["app"] <= Blocks[c]
    BY <2>1, <2>2, BlocksAssumption DEF Fits, Bounded, Nodes
  <2> QED
    BY <2>3, <2>4
<1> QED
  BY <1>1, <1>2 DEF IInv, TaskTypes, StreamTypes, TypeOK

(* The target of a tunnel never has more connections than there are        *)
(* permits (TUNNEL_MAX_CONNECTIONS), for any number of clients.            *)
THEOREM PermitsSuffice == Spec => []WithinPermits
<1>1. ASSUME IInv PROVE WithinPermits
  <2> DEFINE Served == {c \in Conns : answer[c] = "reached" /\ far[c] # "ended"}
  <2>1. ASSUME kind = "tunnel" PROVE Cardinality(Served) <= MaxPermits
    <3>1. Served \subseteq Holders
      BY <1>1, <2>1 DEF IInv, Fits, HoldsItsTarget, Holders
    <3>2. IsFiniteSet(Holders) /\ Cardinality(Holders) <= MaxPermits
      BY <1>1 DEF IInv, PermitsKept
    <3>3. IsFiniteSet(Served) /\ Cardinality(Served) <= Cardinality(Holders)
      BY <3>1, <3>2, FS_Subset
    <3>4. Cardinality(Served) \in Nat /\ Cardinality(Holders) \in Nat
      BY <3>2, <3>3, FS_CardinalityType
    <3> QED
      BY <3>2, <3>3, <3>4, PermitsAssumption
  <2> QED
    BY <1>1, <2>1, TypesFollow DEF WithinPermits
<1> QED
  BY <1>1, Invariance, PTL

(* A station that has ended a direction has sent all of it, and so had the *)
(* application.                                                            *)
LEMMA FinMeansDone ==
    ASSUME IInv, NEW c \in Conns, calm[c], answer[c] = "reached", kind # "udp",
           NEW d \in Dirs, NEW s \in Stations,
           end[c][d][s] # "open", ~Exempt(c, d)
    PROVE  /\ end[c][d][s] = "fin"
           /\ count[c][d][s] = count[c][d]["app"]
           /\ IF kind = "http" /\ d = "up" THEN count[c][d]["app"] = Blocks[c]
                                          ELSE end[c][d]["app"] = "fin"
<1>1. \A u \in Stations : end[c][d][u] # "open" => Passed(c, d, u)
  BY DEF IInv, Fits, Orderly, PassesInOrder
<1>2. ASSUME NEW u \in Stations, Passed(c, d, u)
      PROVE  count[c][d][u] = count[c][d][Prev(d, u)]
  <2>1. /\ count[c][d][u] <= count[c][d][Prev(d, u)]
        /\ ~(count[c][d][u] < count[c][d][Prev(d, u)])
    BY <1>2 DEF IInv, Fits, Bounded, Passed, Unread
  <2>2. count[c][d][u] \in Nat /\ count[c][d][Prev(d, u)] \in Nat
    BY PrevIsOther DEF IInv, StreamTypes
  <2> QED
    BY <2>1, <2>2
<1>3. CASE Prev(d, s) = "app"
  BY <1>1, <1>2, <1>3 DEF Passed
<1>4. CASE Prev(d, s) # "app"
  <2>1. /\ kind = "tunnel" /\ Prev(d, s) \in Stations /\ Prev(d, Prev(d, s)) = "app"
    BY <1>4, Before DEF Stations, Dirs
  <2>2. Passed(c, d, s) /\ Passed(c, d, Prev(d, s))
    BY <1>1, <2>1 DEF Passed
  <2> QED
    BY <1>2, <2>1, <2>2 DEF Passed
<1> QED
  BY <1>3, <1>4

(* Whatever goes wrong, the response to a plain request is copied only     *)
(* behind all of the request.                                              *)
GoneThrough(c) ==
    kind = "http" =>
      /\ near[c] \notin {"relaying", "ended"} => end[c]["up"]["near"] = "open"
      /\ near[c] = "relaying" /\ end[c]["up"]["near"] # "open" =>
            count[c]["up"]["near"] = Blocks[c]
      /\ count[c]["down"]["near"] > 0 =>
            end[c]["up"]["near"] # "open" /\ count[c]["up"]["near"] = Blocks[c]
RequestsFirst == \A c \in Conns : GoneThrough(c)

(* It depends on the near station only, which leaves nothing open.         *)
LEMMA LeavesGoneThrough ==
    ASSUME IInv, RequestsFirst, kind = "http", NEW c \in Conns, Leaves(c, "near"), kind' = kind
    PROVE  RequestsFirst'
<1>1. TaskTypes /\ StreamTypes /\ Fits(c) /\ "near" \in Stations
  BY DEF IInv, Stations
<1>2. Left(c, "near")
  BY <1>1, LeavesDoes
<1>3. UNCHANGED linkVars
  BY <1>1, <1>2 DEF Left
<1>4. \A x \in Conns \ {c} : GoneThrough(x)'
  BY <1>1, <1>2, <1>3 DEF RequestsFirst, GoneThrough, Left, Goes, TaskTypes, linkVars
<1>5. near'[c] = "ended" /\ end'[c]["up"]["near"] = Dropped(c, "up", "near")
  BY <1>1, <1>2 DEF Left, Goes, TaskTypes, Dirs
<1>6. GoneThrough(c)'
  BY <1>3, <1>5 DEF RequestsFirst, GoneThrough, Dropped, linkVars
<1> QED
  BY <1>4, <1>6 DEF RequestsFirst

LEMMA CopyGoneThrough ==
    ASSUME IInv, RequestsFirst, kind = "http", NEW c \in Conns, NEW d \in Dirs,
           NEW s \in Stations, Copy(c, d, s)
    PROVE  RequestsFirst'
<1>1. s = "near" /\ near[c] = "relaying" /\ end[c][d]["near"] = "open"
      /\ (d = "down" => end[c]["up"]["near"] = "fin")
  BY DEF Stations, Copy, Open, At
<1>2. /\ count'[c][d]["near"] = count[c][d]["near"] + 1
      /\ \A x \in Conns, e \in Dirs :
            <<x, e>> # <<c, d>> => count'[x][e]["near"] = count[x][e]["near"]
      /\ UNCHANGED <<kind, near, end>>
  BY <1>1 DEF Copy, IInv, StreamTypes, Dirs, Nodes
<1>3. \A x \in Conns \ {c} : GoneThrough(x)'
  BY <1>2 DEF RequestsFirst, GoneThrough, Dirs
<1>4. GoneThrough(c)'
  <2>1. CASE d = "up"
    BY <1>1, <1>2, <2>1 DEF RequestsFirst, GoneThrough, Dirs
  <2>2. CASE d = "down"
    BY <1>1, <1>2, <2>2 DEF RequestsFirst, GoneThrough, Dirs
  <2> QED
    BY <2>1, <2>2 DEF Dirs
<1> QED
  BY <1>3, <1>4 DEF RequestsFirst

LEMMA PassEndGoneThrough ==
    ASSUME IInv, RequestsFirst, kind = "http", NEW c \in Conns, NEW d \in Dirs,
           NEW s \in Stations, PassEnd(c, d, s)
    PROVE  RequestsFirst'
<1>1. s = "near"
  BY DEF Stations
<1>2. CASE Leaves(c, s)
  BY <1>1, <1>2, LeavesGoneThrough DEF PassEnd
<1>3. CASE end' = [end EXCEPT ![c][d][s] = "fin"] /\ UNCHANGED <<near, far, linkVars>>
  <2>1. /\ \A x \in Conns, e \in Dirs :
              <<x, e>> # <<c, d>> => end'[x][e]["near"] = end[x][e]["near"]
        /\ end'[c][d]["near"] = "fin"
        /\ UNCHANGED <<kind, near, count>>
    BY <1>1, <1>3 DEF PassEnd, IInv, StreamTypes, Dirs, Nodes, linkVars
  <2>2. near[c] = "relaying" /\ (d = "up" => count[c]["up"]["near"] = Blocks[c])
    BY <1>1 DEF PassEnd, Open, At, AtEnd
  <2>3. \A x \in Conns \ {c} : GoneThrough(x)'
    BY <2>1 DEF RequestsFirst, GoneThrough, Dirs
  <2>4. GoneThrough(c)'
    <3>1. CASE d = "up"
      BY <2>1, <2>2, <3>1 DEF RequestsFirst, GoneThrough, Dirs
    <3>2. CASE d = "down"
      BY <2>1, <2>2, <3>2 DEF RequestsFirst, GoneThrough, Dirs
    <3> QED
      BY <3>1, <3>2 DEF Dirs
  <2> QED
    BY <2>3, <2>4 DEF RequestsFirst
<1> QED
  BY <1>2, <1>3 DEF PassEnd

(* A step that leaves the near station's streams alone.                    *)
LEMMA QuietGoneThrough ==
    ASSUME IInv, RequestsFirst, kind = "http", NEW c \in Conns, kind' = kind,
           \A x \in Conns, d \in Dirs : /\ end'[x][d]["near"] = end[x][d]["near"]
                                        /\ count'[x][d]["near"] = count[x][d]["near"],
           \A x \in Conns \ {c} : near'[x] = near[x],
           near'[c] # near[c] => near[c] \notin {"relaying", "ended"} /\ near'[c] # "ended"
    PROVE  RequestsFirst'
BY DEF RequestsFirst, GoneThrough, Dirs

LEMMA SetupGoneThrough ==
    ASSUME IInv, RequestsFirst, kind = "http", NEW c \in Conns, Setup(c)
    PROVE  RequestsFirst'
<1>0. far[c] = "idle" /\ link[c] = "none" /\ TaskTypes
  BY DEF IInv, Fits, HoldsItsTarget
<1>1. CASE ProxyRequest(c)
  BY <1>0, <1>1, QuietGoneThrough DEF ProxyRequest, Proceeds, Goes, TaskTypes, linkVars
<1>2. CASE ProxyConnects(c)
  BY <1>0, <1>2, QuietGoneThrough DEF ProxyConnects, Reaches, Goes, TaskTypes, linkVars
<1>3. CASE ProxyRefuses(c)
  BY <1>3, LeavesGoneThrough DEF ProxyRefuses, Refuses
<1>4. CASE SocksGreeting(c)
  BY <1>0, <1>4, QuietGoneThrough DEF SocksGreeting, Proceeds, Goes, TaskTypes, linkVars
<1> QED
  BY <1>0, <1>1, <1>2, <1>3, <1>4
     DEF Setup, SocksRequest, SocksConnects, BindAccepts, SocksRefuses, TcpConnects, DialFails,
         Associates, OpenStream, FarAccepts, Acquire, FarRefuses, FarReached, NearTold

LEMMA NextGoneThrough ==
    ASSUME IInv, RequestsFirst, [Next]_vars
    PROVE  RequestsFirst'
<1>0. kind' = kind
  BY DEF Next, vars, Accepts, SocksAccepts, ProxyAccepts, TcpAccepts, TunnelAccepts, Setup,
         Proceeds, Reaches, Refuses, SocksGreeting, SocksRequest, SocksConnects, BindAccepts,
         SocksRefuses, ProxyRequest, ProxyConnects, ProxyRefuses, TcpConnects, DialFails,
         Associates, OpenStream, FarAccepts, Acquire, FarRefuses, FarReached, NearTold,
         UdpResolves, UdpResolved, ControlEnds, UdpIdles, Step, Copy, PassEnd, Fails, Interrupt,
         BadFraming, Write, CloseWrite, Abort, StopsReading, LinkLost
<1>1. SUFFICES ASSUME kind = "http" PROVE RequestsFirst'
  BY <1>0 DEF RequestsFirst, GoneThrough
<1>2. Stations = {"near"} /\ TaskTypes /\ StreamTypes
      /\ \A c \in Conns : link[c] = "none"
  BY <1>1 DEF Stations, IInv, Fits, HoldsItsTarget
<1>3. CASE UNCHANGED vars
  BY <1>3 DEF vars, linkVars, RequestsFirst, GoneThrough
<1>4. ASSUME NEW c \in Conns,
             SocksAccepts(c) \/ ProxyAccepts(c) \/ TcpAccepts(c) \/ TunnelAccepts(c)
      PROVE  RequestsFirst'
  <2>1. near[c] = "idle" /\ near' = [near EXCEPT ![c] = "asking"]
        /\ UNCHANGED <<end, count>>
    BY <1>1, <1>4 DEF SocksAccepts, ProxyAccepts, TcpAccepts, TunnelAccepts, Accepts, Goes, linkVars
  <2> QED
    BY <1>0, <1>1, <1>2, <2>1, QuietGoneThrough DEF TaskTypes
<1>5. ASSUME NEW c \in Conns, Setup(c) PROVE RequestsFirst'
  BY <1>1, <1>5, SetupGoneThrough
<1>6. ASSUME NEW c \in Conns, UdpResolves(c) \/ UdpResolved(c) PROVE RequestsFirst'
  BY <1>0, <1>1, <1>2, <1>6, QuietGoneThrough
     DEF UdpResolves, UdpResolved, Proceeds, Goes, TaskTypes, linkVars
<1>7. ASSUME NEW c \in Conns, ControlEnds(c) \/ UdpIdles(c) \/ BadFraming(c)
      PROVE  RequestsFirst'
  BY <1>0, <1>1, <1>7, LeavesGoneThrough DEF ControlEnds, UdpIdles, BadFraming
<1>8. ASSUME NEW c \in Conns, NEW s \in Stations, Step(c, s) \/ Interrupt(c, s)
      PROVE  RequestsFirst'
  <2>1. CASE \E d \in Dirs : Copy(c, d, s)
    BY <1>1, <2>1, CopyGoneThrough
  <2>2. CASE \E d \in Dirs : PassEnd(c, d, s)
    BY <1>1, <2>2, PassEndGoneThrough
  <2>3. CASE Interrupt(c, s) \/ \E d \in Dirs : Fails(c, d, s)
    BY <1>0, <1>1, <1>2, <2>3, LeavesGoneThrough DEF Interrupt, Fails
  <2> QED
    BY <1>8, <2>1, <2>2, <2>3 DEF Step
<1>9. ASSUME NEW c \in Conns, NEW d \in Dirs,
             Write(c, d) \/ CloseWrite(c, d) \/ Abort(c, d) \/ StopsReading(c, d)
      PROVE  RequestsFirst'
  <2>1. /\ \A x \in Conns, e \in Dirs : /\ end'[x][e]["near"] = end[x][e]["near"]
                                         /\ count'[x][e]["near"] = count[x][e]["near"]
        /\ near' = near
    <3>1. CASE Write(c, d)
      BY <1>2, <3>1 DEF StreamTypes, Write, Dirs, Nodes
    <3>2. CASE CloseWrite(c, d)
      BY <1>2, <3>2 DEF StreamTypes, CloseWrite, linkVars, Dirs, Nodes
    <3>3. CASE Abort(c, d)
      BY <1>2, <3>3 DEF StreamTypes, Abort, linkVars, Dirs, Nodes
    <3>4. CASE StopsReading(c, d)
      BY <3>4 DEF StopsReading, linkVars
    <3> QED
      BY <1>9, <3>1, <3>2, <3>3, <3>4
  <2> QED
    BY <1>0, <1>1, <2>1, QuietGoneThrough
<1>10. ASSUME NEW c \in Conns, LinkLost(c) PROVE RequestsFirst'
  BY <1>2, <1>10 DEF LinkLost
<1> QED
  BY <1>3, <1>4, <1>5, <1>6, <1>7, <1>8, <1>9, <1>10 DEF Next

(* An end never overtakes data, and an end in one direction does not end   *)
(* the other: copy_bidirectional, the two copies of a tunnel under         *)
(* try_join, and a plain proxy request, for any number of blocks; and no   *)
(* answer comes back to a request that did not go through.                 *)
THEOREM EndsStayOrderly == Spec => []EndsAreOrderly
<1>1. ASSUME IInv PROVE EndIsComplete
  <2>1. SUFFICES ASSUME NEW c \in Conns, NEW d \in Dirs, kind # "udp", calm[c],
                        answer[c] = "reached", ~Exempt(c, d), end[c][d][Last(d)] # "open"
                 PROVE  /\ end[c][d][Last(d)] = "fin"
                        /\ count[c][d][Last(d)] = count[c][d]["app"]
                        /\ IF kind = "http" /\ d = "up"
                           THEN count[c][d]["app"] = Blocks[c]
                           ELSE end[c][d]["app"] = "fin"
    BY DEF EndIsComplete
  <2>2. Last(d) \in Stations
    BY DEF Last, Stations
  <2> QED
    BY <1>1, <2>1, <2>2, FinMeansDone
<1>2. ASSUME IInv PROVE HalfCloseKept
  <2>1. SUFFICES ASSUME NEW c \in Conns, calm[c], answer[c] = "reached",
                        NEW s \in Stations, At(c, s) = "ended",
                        NEW d \in Sources, kind = "http" => d = "down"
                 PROVE  \/ end[c][d]["app"] = "fin"
                        \/ kind = "udp" /\ count[c][d]["app"] > 0
    BY DEF HalfCloseKept
  <2>2. d \in Dirs /\ Fits(c) /\ Orderly(c)
    BY <1>2, <2>1 DEF Sources, Dirs, IInv, Fits
  <2>3. CASE kind = "udp"
    BY <2>1, <2>2, <2>3 DEF Orderly, Controlled, Stations, At, Sources
  <2>4. CASE kind # "udp" /\ ~Exempt(c, d)
    BY <1>2, <2>1, <2>2, <2>4, FinMeansDone DEF Fits, LeavesNothingOpen
  <2>5. CASE Exempt(c, d)
    <3>1. /\ kind = "tunnel" /\ d = "up" /\ near[c] = "ended"
          /\ "near" \in Stations
      BY <2>5 DEF Exempt, Stations
    <3>2. Passed(c, d, "near")
      BY <2>1, <2>2, <3>1 DEF Fits, LeavesNothingOpen, At, Orderly, PassesInOrder
    <3> QED
      BY <2>2, <3>1, <3>2, Before DEF Passed
  <2> QED
    BY <2>3, <2>4, <2>5
<1>3. Init => RequestsFirst
  BY DEF Init, RequestsFirst, GoneThrough, Dirs, Nodes
<1>4. IInv /\ RequestsFirst /\ [Next]_vars => RequestsFirst'
  BY NextGoneThrough
<1>5. IInv /\ RequestsFirst => EndsAreOrderly
  BY <1>1, <1>2 DEF EndsAreOrderly, OnlyWholeAnswered, RequestsFirst, GoneThrough
<1> QED
  BY <1>3, <1>4, <1>5, Invariance, PTL DEF Spec

-----------------------------------------------------------------------------
(* UdpSessions: what its variables may be.                                 *)
Types == /\ UdpTypeOK
         /\ loop \in {Idle} \cup [peer : Addresses, session : Sids]
         /\ failures \in Nat
         /\ wasted \in [Sids -> Nat]

(* A session is opened for one client, and the table gives it to nobody    *)
(* else; the loop hands over only to the session in the table.             *)
Belongs ==
    /\ \A s \in Sids : state[s] # "none" => peer[s] \in Addresses
    /\ \A p \in Addresses : table[p] # NoSession =>
          peer[table[p]] = p /\ state[table[p]] # "none"
    /\ loop # Idle => table[loop.peer] = loop.session

(* A session that has cost a packet has ended and has left the table.      *)
WastedOnce ==
    \A s \in Sids : wasted[s] # 0 =>
        /\ wasted[s] = 1
        /\ state[s] = "ended"
        /\ \A p \in Addresses : table[p] # s

(* The task's clock runs behind that of the table, unless a packet of the  *)
(* client is on its way to the task.                                       *)
ClocksAgree ==
    \A p \in Addresses, s \in Sids :
        (table[p] = s /\ state[s] = "up")
            => quiet[s] <= activity[p] \/ queue[s] > 0 \/ loop.session = s

UdpInv == Types /\ Belongs /\ WastedOnce /\ ClocksAgree

USE SizesAssumption, BoundsAssumption

-----------------------------------------------------------------------------
LEMMA NoSessionIsNone == NoSession \notin Sids
  BY DEF Sids, NoSession

LEMMA UdpInitially == UdpInit => UdpInv
<1> SUFFICES ASSUME UdpInit PROVE UdpInv
  OBVIOUS
<1> USE DEF UdpInit, Sids, NoSession
<1>1. Types
  BY DEF Types, UdpTypeOK
<1>2. Belongs
  BY DEF Belongs
<1>3. WastedOnce
  BY DEF WastedOnce
<1>4. ClocksAgree
  BY DEF ClocksAgree
<1> QED
  BY <1>1, <1>2, <1>3, <1>4 DEF UdpInv

-----------------------------------------------------------------------------
LEMMA ReceivesKeeps ==
    ASSUME UdpInv, NEW p \in Addresses, Receives(p)
    PROVE  UdpInv'
<1> USE NoSessionIsNone DEF UdpInv, Receives, sessionVars
<1>1. CASE UsesSession(p)
  <2> USE <1>1 DEF UsesSession
  <2>1. Types'
    BY DEF Types, UdpTypeOK
  <2>2. Belongs'
    BY DEF Types, UdpTypeOK, Belongs, Idle
  <2>3. WastedOnce'
    BY DEF WastedOnce
  <2>4. ClocksAgree'
    BY DEF Types, UdpTypeOK, Belongs, ClocksAgree, Idle
  <2> QED
    BY <2>1, <2>2, <2>3, <2>4
<1>2. CASE OpensSession(p)
  <2>1. PICK s \in Sids :
          /\ state[s] = "none"
          /\ table' = [table EXCEPT ![p] = s]
          /\ state' = [state EXCEPT ![s] = "resolving"]
          /\ peer' = [peer EXCEPT ![s] = p]
          /\ quiet' = [quiet EXCEPT ![s] = 0]
          /\ loop' = [peer |-> p, session |-> s]
    BY <1>2 DEF OpensSession
  <2>2. table[p] = NoSession
    BY <1>2 DEF OpensSession
  <2>3. \A q \in Addresses : table[q] # s
    BY <2>1 DEF Belongs, Types, UdpTypeOK
  <2>4. Types'
    BY <2>1 DEF Types, UdpTypeOK
  <2>5. Belongs'
    BY <2>1, <2>3 DEF Types, UdpTypeOK, Belongs
  <2>6. WastedOnce'
    BY <2>1 DEF Types, UdpTypeOK, WastedOnce
  <2>7. ClocksAgree'
    BY <2>1, <2>3 DEF Types, UdpTypeOK, ClocksAgree, Idle
  <2> QED
    BY <2>4, <2>5, <2>6, <2>7
<1> QED
  BY <1>1, <1>2

LEMMA HandsOverKeeps ==
    ASSUME UdpInv, HandsOver
    PROVE  UdpInv'
<1> USE NoSessionIsNone DEF UdpInv, HandsOver
<1>1. Types'
  BY DEF Types, UdpTypeOK
<1>2. Belongs'
  BY DEF Belongs, Types
<1>3. WastedOnce'
  BY DEF WastedOnce
<1>4. ClocksAgree'
  BY DEF Types, UdpTypeOK, ClocksAgree
<1> QED
  BY <1>1, <1>2, <1>3, <1>4

LEMMA LosesKeeps ==
    ASSUME UdpInv, Loses
    PROVE  UdpInv'
<1> USE NoSessionIsNone DEF UdpInv, Loses, sessionVars
<1>1. /\ loop \in [peer : Addresses, session : Sids]
      /\ table[loop.peer] = loop.session
      /\ peer[loop.session] = loop.peer
      /\ state[loop.session] = "ended"
      /\ wasted[loop.session] = 0
  BY DEF Types, UdpTypeOK, Belongs, WastedOnce, Live
<1>2. Types'
  BY <1>1 DEF Types, UdpTypeOK
<1>3. Belongs'
  BY <1>1 DEF Belongs, Types, UdpTypeOK
<1>4. WastedOnce'
  <2>1. \A p \in Addresses : table'[p] # loop.session
    BY <1>1 DEF Belongs, Types, UdpTypeOK
  <2> QED
    BY <1>1, <2>1 DEF WastedOnce, Types, UdpTypeOK
<1>5. ClocksAgree'
  BY <1>1 DEF Types, UdpTypeOK, ClocksAgree
<1> QED
  BY <1>2, <1>3, <1>4, <1>5

LEMMA CleansUpKeeps ==
    ASSUME UdpInv, CleansUp
    PROVE  UdpInv'
<1> USE NoSessionIsNone DEF UdpInv, CleansUp, sessionVars
<1>1. Types'
  BY DEF Types, UdpTypeOK
<1>2. Belongs'
  BY DEF Belongs, Types, UdpTypeOK
<1>3. WastedOnce'
  BY DEF WastedOnce, Types, UdpTypeOK
<1>4. ClocksAgree'
  BY DEF Types, UdpTypeOK, ClocksAgree
<1> QED
  BY <1>1, <1>2, <1>3, <1>4

LEMMA TickKeeps ==
    ASSUME UdpInv, Tick
    PROVE  UdpInv'
<1> USE NoSessionIsNone DEF UdpInv, Tick, Older
<1>1. Types'
  BY DEF Types, UdpTypeOK
<1>2. Belongs'
  BY DEF Belongs
<1>3. WastedOnce'
  BY DEF WastedOnce
<1>4. ClocksAgree'
  <2> SUFFICES ASSUME NEW p \in Addresses, NEW s \in Sids, table[p] = s, state[s] = "up"
               PROVE  quiet'[s] <= activity'[p]
    BY DEF ClocksAgree
  <2>1. loop.session # s
    BY DEF Types, Idle
  <2>2. queue[s] = 0 /\ quiet[s] <= activity[p]
    BY <2>1 DEF Types, UdpTypeOK, ClocksAgree
  <2> QED
    BY <2>2 DEF Types, UdpTypeOK
<1> QED
  BY <1>1, <1>2, <1>3, <1>4

(* A task's step: it ends, or its clock starts again.                      *)
LEMMA SessionKeeps ==
    ASSUME UdpInv, NEW s \in Sids, SessionNext(s)
    PROVE  UdpInv'
<1> USE NoSessionIsNone DEF UdpInv
<1>1. CASE Ends(s) /\ Live(s) /\ failures' \in Nat
  <2> USE <1>1 DEF Ends, Live
  <2>1. Types'
    BY DEF Types, UdpTypeOK
  <2>2. Belongs'
    BY DEF Belongs, Types, UdpTypeOK
  <2>3. WastedOnce'
    BY DEF WastedOnce, Types, UdpTypeOK
  <2>4. ClocksAgree'
    BY DEF Types, UdpTypeOK, ClocksAgree
  <2> QED
    BY <2>1, <2>2, <2>3, <2>4
<1>2. CASE Resolves(s) \/ Forwards(s) \/ Returns(s)
  <2> USE <1>2 DEF Resolves, Forwards, Returns
  <2>1. Types'
    BY DEF Types, UdpTypeOK
  <2>2. Belongs'
    BY DEF Belongs, Types, UdpTypeOK
  <2>3. WastedOnce'
    BY DEF WastedOnce, Types, UdpTypeOK
  <2>4. ClocksAgree'
    BY DEF Types, UdpTypeOK, ClocksAgree
  <2> QED
    BY <2>1, <2>2, <2>3, <2>4
<1>3. SessionFails(s) \/ TimesOut(s) \/ ChannelCloses(s)
         => Ends(s) /\ Live(s) /\ failures' \in Nat
  BY DEF SessionFails, TimesOut, ChannelCloses, Live, Types
<1> QED
  BY <1>1, <1>2, <1>3 DEF SessionNext

LEMMA Inductive == UdpInv /\ [UdpNext]_udpVars => UdpInv'
<1> SUFFICES ASSUME UdpInv, [UdpNext]_udpVars PROVE UdpInv'
  OBVIOUS
<1>1. CASE \E p \in Addresses : Receives(p)
  BY <1>1, ReceivesKeeps
<1>2. CASE HandsOver
  BY <1>2, HandsOverKeeps
<1>3. CASE Loses
  BY <1>3, LosesKeeps
<1>4. CASE CleansUp
  BY <1>4, CleansUpKeeps
<1>5. CASE Tick
  BY <1>5, TickKeeps
<1>6. CASE \E s \in Sids : SessionNext(s)
  BY <1>6, SessionKeeps
<1>7. CASE UNCHANGED udpVars
  BY <1>7 DEF udpVars, sessionVars, UdpInv, Types, UdpTypeOK, Belongs, WastedOnce, ClocksAgree
<1> QED
  BY <1>1, <1>2, <1>3, <1>4, <1>5, <1>6, <1>7 DEF UdpNext, Loop

LEMMA Always == UdpSpec => []UdpInv
  BY UdpInitially, Inductive, PTL DEF UdpSpec

-----------------------------------------------------------------------------
(* A client has one session, an older one only drains, and one that has    *)
(* ended costs at most one packet: the table and the loop of ii udp.       *)
THEOREM ServesOneSession == UdpSpec => []OneSession
<1>1. UdpInv => OneSession
  <2> SUFFICES ASSUME UdpInv PROVE OneSession
    OBVIOUS
  <2> USE NoSessionIsNone DEF UdpInv
  <2>1. UdpTypeOK
    BY DEF Types
  <2>2. \A s \in Sids : wasted[s] <= 1
    BY DEF Types, WastedOnce
  <2>3. ASSUME NEW s \in Sids, Live(s), table[peer[s]] # s
        PROVE  Closed(s)
    <3>1. loop.session # s
      BY <2>3 DEF Types, UdpTypeOK, Belongs, Idle
    <3> QED
      BY <2>3, <3>1 DEF Closed
  <2>4. \A p \in Addresses : table[p] # NoSession => peer[table[p]] = p
    BY DEF Belongs
  <2> QED
    BY <2>1, <2>2, <2>3, <2>4 DEF OneSession
<1> QED
  BY <1>1, Always, PTL

(* While a client sends, its session stays: neither clock runs out before  *)
(* the client has been silent for the whole timeout.                       *)
THEOREM ActiveStays == UdpSpec => ActiveIsKept
<1> DEFINE Kept == \A p \in Addresses, s \in Sids :
          (table[p] = s /\ Live(s) /\ (table'[p] # s \/ ~Live(s)') /\ failures' = failures)
             => \/ activity[p] >= Timeout
                \/ queue[s] > 0
                \/ loop.session = s
<1>1. UdpInv /\ [UdpNext]_udpVars => [Kept]_udpVars
  <2> SUFFICES ASSUME UdpInv, UdpNext, NEW p \in Addresses, NEW s \in Sids,
                      table[p] = s, Live(s), table'[p] # s \/ ~Live(s)', failures' = failures,
                      ~(activity[p] >= Timeout), ~(queue[s] > 0), loop.session # s
               PROVE  FALSE
    BY Zenon
  <2> USE NoSessionIsNone DEF UdpInv, sessionVars
  <2>1. CASE \E q \in Addresses : Receives(q)
    BY <2>1 DEF Receives, UsesSession, OpensSession, Types, UdpTypeOK, Live
  <2>2. CASE HandsOver
    BY <2>2 DEF HandsOver, Live
  <2>3. CASE Loses
    BY <2>3 DEF Loses, Live, Types, UdpTypeOK, Belongs
  <2>4. CASE CleansUp
    BY <2>4 DEF CleansUp, Live
  <2>5. CASE Tick
    BY <2>5 DEF Tick, Live
  <2>6. CASE \E t \in Sids : SessionNext(t)
    <3>1. PICK t \in Sids : SessionNext(t)
      BY <2>6
    <3>2. CASE Resolves(t) \/ Forwards(t) \/ Returns(t)
      BY <3>2 DEF Resolves, Forwards, Returns, Live, Types, UdpTypeOK
    <3>3. CASE SessionFails(t)
      BY <3>3 DEF SessionFails, Types
    <3>4. CASE TimesOut(t)
      <4>1. t = s
        BY <3>4 DEF TimesOut, Ends, Live, Types, UdpTypeOK
      <4> QED
        BY <3>4, <4>1 DEF TimesOut, ClocksAgree, Types, UdpTypeOK
    <3>5. CASE ChannelCloses(t)
      <4>1. t = s
        BY <3>5 DEF ChannelCloses, Ends, Live, Types, UdpTypeOK
      <4> QED
        BY <3>5, <4>1 DEF ChannelCloses, Closed, Belongs
    <3> QED
      BY <3>1, <3>2, <3>3, <3>4, <3>5 DEF SessionNext
  <2> QED
    BY <2>1, <2>2, <2>3, <2>4, <2>5, <2>6 DEF UdpNext, Loop
<1>2. UdpSpec => [][Kept]_udpVars
  BY <1>1, Always, PTL DEF UdpSpec
<1> QED
  BY <1>2 DEF ActiveIsKept
=============================================================================
