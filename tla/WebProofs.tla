------------------------------ MODULE WebProofs ------------------------------
(***************************************************************************)
(* Proofs about WebServe and SignalRoom, the two models of what browsers   *)
(* do with the program, for all clients, pages and bounds.  IInv is the    *)
(* inductive invariant of WebServe: what each handler has decided,         *)
(* announced and sent so far, compared with the file as it was when nobody *)
(* edits it; and how the listener's messages follow from the handlers that *)
(* are done.  RoomInv is that of SignalRoom: what stands in lists, queues, *)
(* offers and connections between two pages that met no fault.             *)
(***************************************************************************)
EXTENDS WebServe, SignalRoom, FiniteSetTheorems, SequenceTheorems, TLAPS

-----------------------------------------------------------------------------
(* SignalRoom.                                                             *)

(* The types, one page at a time.                                          *)
Travelling(m) == m \in net \/ \E i \in Room : \E k \in 1..Len(queue[i]) : queue[i][k] = m

PagesFit ==
    /\ created \in 0..MaxIds
    /\ id \in [Pages -> 0..created]
    /\ poll \in [Pages -> {"off", "ready", "answering"}]
    /\ offers \in [Pages -> SUBSET Offers]
    /\ lists \in [Pages -> Seq(SUBSET Ids)]
    /\ conn = [p \in Pages |-> conn[p]]
    /\ tries \in [Ids -> [Ids -> 0..MaxTries]]
    /\ faults \in 0..MaxFaults

(* A page that is not in a room has nothing; ids are given once.           *)
IdsFit ==
    /\ \A p \in Pages : id[p] = 0 => conn[p] = <<>> /\ offers[p] = {} /\ lists[p] = <<>>
    /\ \A p, q \in Pages : id[p] = id[q] /\ id[p] # 0 => p = q
    /\ \A i, j \in Ids : tries[i][j] # 0 => i < j /\ j <= created

ConnsFit ==
    \A p \in Pages : \A r \in DOMAIN conn[p] :
        r \in 1..created /\ r # id[p] /\ conn[p][r] \in Pcs

OffersFit ==
    \A p \in Pages : \A o \in offers[p] : id[p] < o.to /\ o.to <= created

(* Signals go between two that have joined, offers to the higher id.       *)
Proper(m) ==
    /\ m.from \in 1..created /\ m.to \in 1..created /\ m.from # m.to
    /\ m.kind = "offer" => m.from < m.to
    /\ m.kind = "answer" => m.to < m.from

SignalsFit ==
    /\ Room \subseteq 1..created
    /\ \A i \in Room : queue[i] \in Seq(Signals) /\ Len(queue[i]) <= MaxPending
    /\ \A i \in Room : \A k \in 1..Len(queue[i]) : queue[i][k].to = i
    /\ net \subseteq Signals
    /\ \A m : Travelling(m) => Proper(m)

(* A list of peers has all that were there before the page, and all that a *)
(* list before it had, but for those that left the room.                   *)
ListsFit ==
    \A p \in Pages :
        /\ Len(lists[p]) <= MaxLists
        /\ \A k \in 1..Len(lists[p]) :
              /\ lists[p][k] \subseteq (1..created) \ {id[p]}
              /\ \A r \in Room : r < id[p] => r \in lists[p][k]
              /\ \A j \in 1..k, r \in Room : r \in lists[p][j] => r \in lists[p][k]

(* What a pair has come to that met no fault: one offer, which the higher  *)
(* id takes and answers.                                                   *)
Between(m, a, b) == (m.from = a /\ m.to = b) \/ (m.from = b /\ m.to = a)
Quiet(a, b, p, q) ==
    /\ b \notin DOMAIN conn[p] /\ a \notin DOMAIN conn[q]
    /\ \A o \in offers[p] : o.to # b
    /\ \A m : Travelling(m) => ~Between(m, a, b)
Offered(a, b, p) ==
    /\ b \in DOMAIN conn[p] /\ conn[p][b].n = 1 /\ conn[p][b].waiting \subseteq {1}
    /\ \A k \in 1..Len(lists[p]) : b \in lists[p][k]
    /\ \A o \in offers[p] : o.to = b => /\ o.n = 1 /\ o.state # "failed"
                                        /\ o.state = "creating" => conn[p][b].state = "new"
Replied(a, b, p, q) ==
    /\ conn[p][b].state = "stable" => /\ conn[p][b].remote = 1
                                      /\ a \in DOMAIN conn[q] /\ conn[q][a].state = "stable"
    /\ a \in DOMAIN conn[q] => /\ conn[p][b].state # "new"
                               /\ conn[q][a].n = 0 /\ conn[q][a].waiting \subseteq {1}
                               /\ conn[q][a].state = "stable" => conn[q][a].remote = 1
    /\ \A m : Travelling(m) /\ Between(m, a, b) =>
          /\ m.n = 1 /\ conn[p][b].state # "new"
          /\ m.kind = "answer" => a \in DOMAIN conn[q] /\ conn[q][a].state = "stable"
PairFits(p, q) ==
    \/ tries[id[p]][id[q]] = 0 /\ Quiet(id[p], id[q], p, q)
    \/ tries[id[p]][id[q]] = 1 /\ Offered(id[p], id[q], p) /\ Replied(id[p], id[q], p, q)

Basics == PagesFit /\ IdsFit /\ ConnsFit /\ OffersFit /\ SignalsFit /\ ListsFit

RoomInv ==
    /\ Basics
    /\ \A p, q \in Pages : id[p] < id[q] /\ Undisturbed(p, q) => PairFits(p, q)

(* Two that are there before and after a step, and what becomes of them.   *)
StillThere(p, q) == /\ id[p] < id[q] /\ Undisturbed(p, q) /\ Undisturbed(p, q)'
                    /\ id'[p] = id[p] /\ id'[q] = id[q]
StaysStable(p, q) ==
    id[q] \in DOMAIN conn[p] /\ conn[p][id[q]].state = "stable" =>
        id[q] \in DOMAIN conn'[p] /\ conn'[p][id[q]].state = "stable"
PairsKept ==
    \A p, q \in Pages : StillThere(p, q) => PairFits(p, q)' /\ StaysStable(p, q)
SamePc(p, r) == /\ r \in DOMAIN conn'[p] <=> r \in DOMAIN conn[p]
                /\ r \in DOMAIN conn[p] => conn'[p][r] = conn[p][r]

-----------------------------------------------------------------------------
LEMMA SetIs ==
    ASSUME conn = [q \in Pages |-> conn[q]], NEW p \in Pages, NEW r, NEW rtc, Set(p, r, rtc)
    PROVE  /\ conn' = [q \in Pages |-> conn'[q]]
           /\ \A q \in Pages \ {p} : conn'[q] = conn[q]
           /\ DOMAIN conn'[p] = DOMAIN conn[p] \cup {r} /\ conn'[p][r] = rtc
           /\ \A s \in DOMAIN conn[p] \ {r} : conn'[p][s] = conn[p][s]
<1>1. conn' = [q \in Pages |-> IF q = p THEN [s \in DOMAIN conn[p] \cup {r} |->
                                              IF s = r THEN rtc ELSE conn[p][s]]
                                      ELSE conn[q]]
  BY DEF Set
<1>2. conn'[p] = [s \in DOMAIN conn[p] \cup {r} |-> IF s = r THEN rtc ELSE conn[p][s]]
  BY <1>1
<1> QED
  BY <1>1, <1>2

LEMMA CloseIs ==
    ASSUME conn = [q \in Pages |-> conn[q]], NEW p \in Pages, NEW r, Close(p, r)
    PROVE  /\ conn' = [q \in Pages |-> conn'[q]]
           /\ \A q \in Pages \ {p} : conn'[q] = conn[q]
           /\ DOMAIN conn'[p] = DOMAIN conn[p] \ {r}
           /\ \A s \in DOMAIN conn[p] \ {r} : conn'[p][s] = conn[p][s]
<1>1. conn' = [q \in Pages |-> IF q = p THEN [s \in DOMAIN conn[p] \ {r} |-> conn[p][s]]
                                      ELSE conn[q]]
  BY DEF Close, Restrict
<1>2. conn'[p] = [s \in DOMAIN conn[p] \ {r} |-> conn[p][s]]
  BY <1>1
<1> QED
  BY <1>1, <1>2

(* A signal is taken from the head of a queue.                             *)
LEMMA PopsIs ==
    ASSUME SignalsFit, NEW p \in Pages, NEW m, Pops(p, m)
    PROVE  /\ Room' = Room /\ created' = created /\ id[p] \in Room
           /\ m \in Signals /\ m.to = id[p] /\ Travelling(m)
           /\ \A i \in Room : /\ queue'[i] \in Seq(Signals)
                               /\ Len(queue'[i]) <= MaxPending
                               /\ \A k \in 1..Len(queue'[i]) :
                                     \E j \in 1..Len(queue[i]) : queue'[i][k] = queue[i][j]
<1> DEFINE i == id[p]
           s == queue[i]
<1>1. /\ i \in Room /\ s # <<>> /\ m = Head(s)
      /\ queue' = [queue EXCEPT ![i] = Tail(s)] /\ created' = created
  BY DEF Pops
<1>2. s \in Seq(Signals) /\ Len(s) <= MaxPending /\ \A k \in 1..Len(s) : s[k].to = i
  BY <1>1 DEF SignalsFit
<1> HIDE DEF s
<1>3. /\ 1 \in 1..Len(s) /\ m = s[1] /\ m \in Signals
      /\ Tail(s) \in Seq(Signals) /\ Len(Tail(s)) <= MaxPending
      /\ \A k \in 1..Len(Tail(s)) : k + 1 \in 1..Len(s) /\ Tail(s)[k] = s[k + 1]
  BY <1>1, <1>2, RoomBoundsAssumption, EmptySeq
<1>4. DOMAIN queue' = DOMAIN queue /\ queue'[i] = Tail(s) /\ \A j \in Room \ {i} : queue'[j] = queue[j]
  BY <1>1 DEF Room
<1>5. Travelling(m)
  BY <1>1, <1>3 DEF Travelling, s
<1>6. ASSUME NEW j \in Room
      PROVE  /\ queue'[j] \in Seq(Signals)
             /\ Len(queue'[j]) <= MaxPending
             /\ \A k \in 1..Len(queue'[j]) :
                   \E l \in 1..Len(queue[j]) : queue'[j][k] = queue[j][l]
  <2>1. CASE j = i
    BY <2>1, <1>3, <1>4 DEF s
  <2>2. CASE j # i
    <3>1. queue'[j] = queue[j]
      BY <2>2, <1>4
    <3> QED
      BY <3>1 DEF SignalsFit
  <2> QED
    BY <2>1, <2>2
<1>7. m.to = i
  BY <1>2, <1>3
<1>8. Room' = Room
  BY <1>4 DEF Room
<1> QED
  BY <1>1, <1>3, <1>5, <1>6, <1>7, <1>8

(* A signal on its way is put at the end of a queue.                       *)
LEMMA AppendIs ==
    ASSUME SignalsFit, NEW m \in net, m.to \in Room, Len(queue[m.to]) < MaxPending,
           queue' = [queue EXCEPT ![m.to] = Append(@, m)]
    PROVE  /\ Room' = Room
           /\ \A i \in Room : /\ queue'[i] \in Seq(Signals)
                               /\ Len(queue'[i]) <= MaxPending
                               /\ \A k \in 1..Len(queue'[i]) :
                                     \/ \E j \in 1..Len(queue[i]) : queue'[i][k] = queue[i][j]
                                     \/ queue'[i][k] = m /\ m.to = i
<1> DEFINE i == m.to
           s == queue[i]
<1>1. i \in Room /\ Len(s) < MaxPending /\ queue' = [queue EXCEPT ![i] = Append(s, m)]
  OBVIOUS
<1>2. s \in Seq(Signals) /\ m \in Signals
  BY <1>1 DEF SignalsFit
<1> HIDE DEF s, i
<1>3. /\ Append(s, m) \in Seq(Signals) /\ Len(Append(s, m)) <= MaxPending
      /\ \A k \in 1..Len(Append(s, m)) :
            (k \in 1..Len(s) /\ Append(s, m)[k] = s[k]) \/ Append(s, m)[k] = m
  BY <1>1, <1>2, RoomBoundsAssumption
<1>4. DOMAIN queue' = DOMAIN queue /\ queue'[i] = Append(s, m) /\ \A j \in Room \ {i} : queue'[j] = queue[j]
  BY <1>1 DEF Room
<1>5. ASSUME NEW j \in Room
      PROVE  /\ queue'[j] \in Seq(Signals)
             /\ Len(queue'[j]) <= MaxPending
             /\ \A k \in 1..Len(queue'[j]) :
                   \/ \E l \in 1..Len(queue[j]) : queue'[j][k] = queue[j][l]
                   \/ queue'[j][k] = m /\ m.to = j
  <2>1. CASE j = i
    BY <2>1, <1>3, <1>4 DEF s, i
  <2>2. CASE j # i
    <3>1. queue'[j] = queue[j]
      BY <2>2, <1>4
    <3> QED
      BY <3>1 DEF SignalsFit
  <2> QED
    BY <2>1, <2>2
<1> QED
  BY <1>4, <1>5 DEF Room

(* Signals stay as they should be when the queues get nothing but what was *)
(* on its way, and nothing else but what is proper sets out.               *)
LEMMA SignalsStay ==
    ASSUME SignalsFit, created' \in Nat, created \in Nat, created <= created',
           Room' \subseteq 1..created', net' \subseteq Signals,
           \A m \in net' : m \in net \/ Proper(m),
           \A i \in Room' : /\ queue'[i] \in Seq(Signals)
                            /\ Len(queue'[i]) <= MaxPending
                            /\ \A k \in 1..Len(queue'[i]) :
                                  \/ i \in Room /\ \E j \in 1..Len(queue[i]) : queue'[i][k] = queue[i][j]
                                  \/ queue'[i][k] \in net /\ queue'[i][k].to = i
    PROVE  /\ SignalsFit'
           /\ \A m : Travelling(m)' => Travelling(m) \/ m \in net' \ net
<1>1. ASSUME NEW m, Travelling(m)'
      PROVE  Travelling(m) \/ m \in net' \ net
  <2>1. CASE m \in net'
    BY <2>1 DEF Travelling
  <2>2. CASE m \notin net'
    <3>1. PICK i \in Room' : \E k \in 1..Len(queue'[i]) : queue'[i][k] = m
      BY <1>1, <2>2 DEF Travelling
    <3>2. PICK k \in 1..Len(queue'[i]) : queue'[i][k] = m
      BY <3>1
    <3>3. CASE i \in Room /\ \E j \in 1..Len(queue[i]) : queue'[i][k] = queue[i][j]
      BY <3>2, <3>3 DEF Travelling
    <3>4. CASE queue'[i][k] \in net
      BY <3>2, <3>4 DEF Travelling
    <3> QED
      BY <3>3, <3>4
  <2> QED
    BY <2>1, <2>2
<1>2. ASSUME NEW m, Travelling(m)'
      PROVE  Proper(m)'
  <2>1. Proper(m)
    BY <1>1, <1>2 DEF SignalsFit
  <2> QED
    BY <2>1 DEF Proper
<1>3. ASSUME NEW i \in Room', NEW k \in 1..Len(queue'[i])
      PROVE  queue'[i][k].to = i
  <2>1. CASE i \in Room /\ \E j \in 1..Len(queue[i]) : queue'[i][k] = queue[i][j]
    <3>1. PICK j \in 1..Len(queue[i]) : queue'[i][k] = queue[i][j]
      BY <2>1
    <3>2. queue[i][j].to = i
      BY <2>1 DEF SignalsFit
    <3> QED
      BY <3>1, <3>2
  <2>2. CASE queue'[i][k] \in net /\ queue'[i][k].to = i
    BY <2>2
  <2> QED
    BY <2>1, <2>2
<1> QED
  BY <1>1, <1>2, <1>3 DEF SignalsFit

(* Steps that leave the queues alone and post nothing.                     *)
LEMMA SignalsRest ==
    ASSUME SignalsFit, queue' = queue, net' \subseteq net, created' = created
    PROVE  SignalsFit' /\ \A m : Travelling(m)' => Travelling(m)
<1>1. \A m : Travelling(m)' => Travelling(m)
  BY DEF Travelling, Room
<1>2. \A m : Proper(m) => Proper(m)'
  BY DEF Proper
<1> QED
  BY <1>1, <1>2 DEF SignalsFit, Room

LEMMA IdsStay ==
    ASSUME IdsFit, id' = id, created \in Nat, created' = created, tries' = tries,
           \A q \in Pages : \/ id[q] # 0
                            \/ /\ conn'[q] = conn[q] /\ offers'[q] = offers[q]
                               /\ lists'[q] = lists[q]
    PROVE  IdsFit'
  BY DEF IdsFit

LEMMA ConnsStay ==
    ASSUME ConnsFit, created' = created, id' = id,
           \A q \in Pages : \A r \in DOMAIN conn'[q] :
               \/ r \in DOMAIN conn[q] /\ conn'[q][r] = conn[q][r]
               \/ r \in 1..created /\ r # id[q] /\ conn'[q][r] \in Pcs
    PROVE  ConnsFit'
  BY DEF ConnsFit

LEMMA OffersStay ==
    ASSUME OffersFit, created' = created, id' = id,
           \A q \in Pages : \A o \in offers'[q] :
               o \in offers[q] \/ (id[q] < o.to /\ o.to <= created)
    PROVE  OffersFit'
  BY DEF OffersFit

LEMMA ListsStay ==
    ASSUME ListsFit, created' = created, id' = id, lists' = lists, Room' \subseteq Room
    PROVE  ListsFit'
  BY DEF ListsFit

(* A pair nobody touches stays as it is.                                   *)
LEMMA PairStays ==
    ASSUME NEW p \in Pages, NEW q \in Pages, PairFits(p, q),
           id'[p] = id[p], id'[q] = id[q],
           tries'[id[p]][id[q]] = tries[id[p]][id[q]],
           SamePc(p, id[q]), SamePc(q, id[p]),
           \A o \in offers'[p] : o.to = id[q] => o \in offers[p],
           \A k \in 1..Len(lists'[p]) :
               \/ id[q] \in lists'[p][k]
               \/ \E j \in 1..Len(lists[p]) : lists'[p][k] = lists[p][j],
           \A m : Travelling(m)' /\ Between(m, id[p], id[q]) => Travelling(m)
    PROVE  PairFits(p, q)' /\ StaysStable(p, q)
<1> DEFINE a == id[p]
           b == id[q]
<1>1. \A m : Between(m, a, b)' <=> Between(m, a, b)
  BY DEF Between
<1>2. CASE tries[a][b] = 0 /\ Quiet(a, b, p, q)
  <2>1. Quiet(a, b, p, q)'
    BY <1>1, <1>2 DEF Quiet, SamePc
  <2> QED
    BY <1>2, <2>1 DEF PairFits, Quiet, StaysStable
<1>3. CASE tries[a][b] = 1 /\ Offered(a, b, p) /\ Replied(a, b, p, q)
  <2>1. b \in DOMAIN conn'[p] /\ conn'[p][b] = conn[p][b]
    BY <1>3 DEF Offered, SamePc
  <2>2. Offered(a, b, p)'
    BY <1>3, <2>1 DEF Offered
  <2>3. Replied(a, b, p, q)'
    BY <1>1, <1>3, <2>1 DEF Replied, SamePc
  <2> QED
    BY <1>3, <2>1, <2>2, <2>3 DEF PairFits, StaysStable
<1> QED
  BY <1>2, <1>3 DEF PairFits

LEMMA JoinKeeps ==
    ASSUME RoomInv, NEW p0 \in Pages, Join(p0)
    PROVE  RoomInv' /\ PairsKept
<1> DEFINE c == created + 1
<1>1. /\ id[p0] = 0 /\ c \in Ids /\ created' = c /\ id' = [id EXCEPT ![p0] = c]
      /\ queue' = [i \in Room \cup {c} |-> IF i = c THEN <<>> ELSE queue[i]]
      /\ UNCHANGED <<net, conn, offers, lists, poll, tries, faults, troubled>>
  BY RoomBoundsAssumption DEF Join, RoomInv, Basics, PagesFit, Ids
<1>2. Basics /\ created \in Nat /\ c \in Nat /\ created < c
  BY RoomBoundsAssumption DEF RoomInv, Basics, PagesFit
<1>3. \A p \in Pages : id[p] \in 0..created /\ id'[p] = IF p = p0 THEN c ELSE id[p]
  BY <1>1, <1>2 DEF Basics, PagesFit
<1>4. /\ Room' = Room \cup {c} /\ queue'[c] = <<>>
      /\ c \notin Room /\ \A i \in Room : queue'[i] = queue[i]
  BY <1>1, <1>2 DEF Room, Basics, SignalsFit
<1>5. /\ SignalsFit'
      /\ \A m : Travelling(m)' => Travelling(m)
  <2>1. ASSUME NEW i \in Room'
        PROVE  /\ queue'[i] \in Seq(Signals) /\ Len(queue'[i]) <= MaxPending
               /\ \A k \in 1..Len(queue'[i]) :
                     i \in Room /\ \E j \in 1..Len(queue[i]) : queue'[i][k] = queue[i][j]
    <3>1. CASE i = c
      BY <3>1, <1>4, RoomBoundsAssumption
    <3>2. CASE i # c
      BY <3>2, <1>2, <1>4 DEF Basics, SignalsFit
    <3> QED
      BY <3>1, <3>2
  <2>2. Room' \subseteq 1..c
    BY <1>2, <1>4 DEF Basics, SignalsFit
  <2>3. SignalsFit /\ net' \subseteq Signals /\ net' = net
    BY <1>1, <1>2 DEF Basics, SignalsFit
  <2>4. created' \in Nat /\ created <= created' /\ Room' \subseteq 1..created'
    BY <1>1, <1>2, <2>2
  <2>5. SignalsFit' /\ \A m : Travelling(m)' => Travelling(m) \/ m \in net' \ net
    BY <1>2, <2>1, <2>3, <2>4, SignalsStay
  <2> QED
    BY <2>3, <2>5
<1>6. PagesFit'
  BY <1>1, <1>2, <1>3 DEF Basics, PagesFit, Ids
<1>7. IdsFit'
  <2>1. \A p \in Pages : id'[p] = 0 => conn'[p] = <<>> /\ offers'[p] = {} /\ lists'[p] = <<>>
    BY <1>1, <1>2, <1>3 DEF Basics, IdsFit
  <2>2. \A p, q \in Pages : id'[p] = id'[q] /\ id'[p] # 0 => p = q
    BY <1>2, <1>3 DEF Basics, IdsFit
  <2>3. \A i, j \in Ids : tries'[i][j] # 0 => i < j /\ j <= created'
    BY <1>1, <1>2 DEF Basics, IdsFit, Ids
  <2> QED
    BY <2>1, <2>2, <2>3 DEF IdsFit
<1>8. ConnsFit'
  <2>1. conn[p0] = <<>>
    BY <1>1, <1>2 DEF Basics, IdsFit
  <2> QED
    BY <1>1, <1>2, <1>3, <2>1 DEF Basics, ConnsFit
<1>9. OffersFit'
  <2>1. offers[p0] = {}
    BY <1>1, <1>2 DEF Basics, IdsFit
  <2> QED
    BY <1>1, <1>2, <1>3, <2>1 DEF Basics, OffersFit, PagesFit, Offers, Ids
<1>10. ListsFit'
  <2>1. lists[p0] = <<>> /\ Len(lists[p0]) = 0
    BY <1>1, <1>2 DEF Basics, IdsFit
  <2>2. ASSUME NEW p \in Pages
        PROVE  /\ Len(lists[p]) <= MaxLists
               /\ \A k \in 1..Len(lists[p]) :
                    /\ lists[p][k] \subseteq (1..c) \ {id'[p]}
                    /\ \A r \in Room' : r < id'[p] => r \in lists[p][k]
                    /\ \A j \in 1..k, r \in Room' : r \in lists[p][j] => r \in lists[p][k]
    <3>1. CASE p = p0
      BY <3>1, <2>1, RoomBoundsAssumption
    <3>2. CASE p # p0
      <4>1. ASSUME NEW k \in 1..Len(lists[p])
            PROVE  /\ lists[p][k] \subseteq (1..created) \ {id[p]}
                   /\ \A r \in Room : r < id[p] => r \in lists[p][k]
                   /\ \A j \in 1..k, r \in Room : r \in lists[p][j] => r \in lists[p][k]
        BY <1>2 DEF Basics, ListsFit
      <4>2. ASSUME NEW k \in 1..Len(lists[p])
            PROVE  c \notin lists[p][k]
        BY <4>1, <1>2
      <4>3. lists[p] \in Seq(SUBSET Ids)
        BY <1>2 DEF Basics, PagesFit
      <4>4. \A k \in 1..Len(lists[p]) : \A j \in 1..k : j \in 1..Len(lists[p])
        BY <4>3
      <4> QED
        BY <3>2, <1>2, <1>3, <1>4, <4>1, <4>2, <4>4 DEF Basics, ListsFit
    <3> QED
      BY <3>1, <3>2
  <2> QED
    BY <1>1, <2>2 DEF ListsFit
<1>11. ASSUME NEW p \in Pages, NEW q \in Pages, id'[p] = id[p], id'[q] = id[q], PairFits(p, q)
       PROVE  PairFits(p, q)' /\ StaysStable(p, q)
  BY <1>1, <1>5, <1>11, PairStays DEF SamePc
<1>12. PairsKept
  BY <1>11 DEF PairsKept, StillThere, RoomInv
<1>13. ASSUME NEW p \in Pages, NEW q \in Pages, id'[p] < id'[q], Undisturbed(p, q)'
       PROVE  PairFits(p, q)'
  <2>1. p # p0
    BY <1>13, <1>2, <1>3
  <2>2. id'[p] = id[p] /\ id[p] \in Room
    BY <1>13, <1>2, <1>3, <1>4, <2>1 DEF Undisturbed, Present
  <2>3. CASE q # p0
    <3>1. id'[q] = id[q] /\ id[q] \in Room
      BY <2>3, <1>13, <1>2, <1>3, <1>4 DEF Undisturbed, Present
    <3>2. PairFits(p, q)
      BY <2>2, <3>1, <1>1, <1>13 DEF Undisturbed, Present, RoomInv
    <3> QED
      BY <2>2, <3>1, <3>2, <1>11
  <2>4. CASE q = p0
    <3>1. id'[q] = c /\ id[p] \in Ids /\ id[p] \in Nat /\ id[p] < c
      <4>1. id[p] \in 1..created /\ created <= MaxIds
        BY <2>2, <1>2 DEF Basics, SignalsFit, PagesFit
      <4> QED
        BY <4>1, <2>4, <1>2, <1>3, RoomBoundsAssumption DEF Ids
    <3>2. tries[id[p]][c] = 0
      BY <3>1, <1>1, <1>2 DEF Basics, IdsFit, PagesFit
    <3>3. conn[q] = <<>>
      BY <2>4, <1>1, <1>2 DEF Basics, IdsFit
    <3>4. c \notin DOMAIN conn[p] /\ \A o \in offers[p] : o.to # c
      BY <1>2 DEF Basics, ConnsFit, OffersFit
    <3>5. \A m : Travelling(m) => m.from # c /\ m.to # c
      BY <1>2 DEF Basics, SignalsFit, Proper
    <3>6. /\ id'[q] \notin DOMAIN conn'[p] /\ id'[p] \notin DOMAIN conn'[q]
          /\ \A o \in offers'[p] : o.to # id'[q]
      BY <1>1, <2>2, <3>1, <3>3, <3>4
    <3>7. \A m : Travelling(m)' => ~Between(m, id[p], id[q])'
      BY <1>5, <2>2, <3>1, <3>5 DEF Between
    <3>8. Quiet(id[p], id[q], p, q)'
      BY <3>6, <3>7 DEF Quiet
    <3>9. tries'[id'[p]][id'[q]] = 0
      BY <1>1, <2>2, <3>1, <3>2
    <3> QED
      BY <3>8, <3>9 DEF PairFits
  <2> QED
    BY <2>3, <2>4
<1> QED
  BY <1>5, <1>6, <1>7, <1>8, <1>9, <1>10, <1>12, <1>13 DEF RoomInv, Basics

LEMMA ReloadKeeps ==
    ASSUME RoomInv, NEW p0 \in Pages, Reload(p0)
    PROVE  Basics' /\ PairsKept
<1>1. /\ id[p0] # 0 /\ id' = [id EXCEPT ![p0] = 0] /\ conn' = [conn EXCEPT ![p0] = <<>>]
      /\ offers' = [offers EXCEPT ![p0] = {}] /\ lists' = [lists EXCEPT ![p0] = <<>>]
      /\ poll' = [poll EXCEPT ![p0] = "off"]
      /\ UNCHANGED <<created, queue, net, tries, faults, troubled>>
  BY DEF Reload, serverVars
<1>2. Basics /\ created \in Nat
  BY RoomBoundsAssumption DEF RoomInv, Basics, PagesFit
<1>3. \A p \in Pages : IF p = p0
                       THEN /\ id'[p] = 0 /\ conn'[p] = <<>> /\ offers'[p] = {}
                            /\ lists'[p] = <<>>
                       ELSE /\ id'[p] = id[p] /\ conn'[p] = conn[p]
                            /\ offers'[p] = offers[p] /\ lists'[p] = lists[p]
  BY <1>1, <1>2 DEF Basics, PagesFit
<1>4. SignalsFit' /\ \A m : Travelling(m)' => Travelling(m)
  BY <1>1, <1>2, SignalsRest DEF Basics
<1>5. PagesFit'
  <2>1. lists' \in [Pages -> Seq(SUBSET Ids)]
    BY <1>1, <1>2, EmptySeq DEF Basics, PagesFit
  <2>2. id' \in [Pages -> 0..created'] /\ poll' \in [Pages -> {"off", "ready", "answering"}]
    BY <1>1, <1>2 DEF Basics, PagesFit
  <2>3. offers' \in [Pages -> SUBSET Offers]
    BY <1>1, <1>2 DEF Basics, PagesFit
  <2>4. conn' = [p \in Pages |-> conn'[p]]
    <3>1. conn = [p \in Pages |-> conn[p]]
      BY <1>2 DEF Basics, PagesFit
    <3>2. conn' = [p \in Pages |-> IF p = p0 THEN <<>> ELSE conn[p]]
      BY <1>1, <3>1
    <3> QED
      BY <3>2
  <2> QED
    BY <1>1, <1>2, <2>1, <2>2, <2>3, <2>4 DEF Basics, PagesFit
<1>6. IdsFit'
  BY <1>1, <1>2, <1>3 DEF Basics, IdsFit
<1>7. ConnsFit' /\ OffersFit'
  BY <1>1, <1>2, <1>3 DEF Basics, ConnsFit, OffersFit
<1>8. ListsFit'
  <2>1. Len(lists'[p0]) = 0
    BY <1>3
  <2>2. Room' = Room
    BY <1>1 DEF Room
  <2> QED
    BY <1>1, <1>2, <1>3, <2>1, <2>2, RoomBoundsAssumption DEF Basics, ListsFit
<1>9. ASSUME NEW p \in Pages, NEW q \in Pages, StillThere(p, q)
      PROVE  PairFits(p, q)' /\ StaysStable(p, q)
  <2>1. PairFits(p, q) /\ p # p0 /\ q # p0
    BY <1>1, <1>3, <1>9 DEF StillThere, RoomInv
  <2> QED
    BY <1>1, <1>3, <1>4, <1>9, <2>1, PairStays DEF SamePc, StillThere
<1> QED
  BY <1>4, <1>5, <1>6, <1>7, <1>8, <1>9 DEF Basics, PairsKept

LEMMA ExpireKeeps ==
    ASSUME RoomInv, NEW i0 \in Ids, Expire(i0)
    PROVE  Basics' /\ PairsKept
<1>1. /\ queue' = [i \in Room \ {i0} |-> queue[i]] /\ UNCHANGED <<created, net, page>>
      /\ faults' = faults \/ (faults < MaxFaults /\ faults' = faults + 1)
  <2>1. Room \cap (Room \ {i0}) = Room \ {i0}
    OBVIOUS
  <2> QED
    BY <2>1 DEF Expire, Restrict, Room, Fault
<1>2. Basics /\ created \in Nat
  BY RoomBoundsAssumption DEF RoomInv, Basics, PagesFit
<1>3. Room' = Room \ {i0} /\ \A i \in Room' : queue'[i] = queue[i]
  BY <1>1 DEF Room
<1>4. SignalsFit' /\ \A m : Travelling(m)' => Travelling(m)
  <2>1. \A m : Travelling(m)' => Travelling(m)
    BY <1>1, <1>3 DEF Travelling
  <2>2. \A m : Proper(m)' <=> Proper(m)
    BY <1>1 DEF Proper
  <2> QED
    BY <1>1, <1>2, <1>3, <2>1, <2>2 DEF Basics, SignalsFit
<1>5. PagesFit'
  BY <1>1, <1>2, RoomBoundsAssumption DEF Basics, PagesFit, page
<1>6. IdsFit' /\ ConnsFit' /\ OffersFit' /\ ListsFit'
  BY <1>1, <1>2, <1>3, ListsStay DEF Basics, page, IdsFit, ConnsFit, OffersFit
<1>7. ASSUME NEW p \in Pages, NEW q \in Pages, StillThere(p, q)
      PROVE  PairFits(p, q)' /\ StaysStable(p, q)
  BY <1>1, <1>4, <1>7, PairStays DEF SamePc, StillThere, RoomInv, page
<1> QED
  BY <1>4, <1>5, <1>6, <1>7 DEF Basics, PairsKept

LEMMA AskPeersKeeps ==
    ASSUME RoomInv, NEW p0 \in Pages, AskPeers(p0)
    PROVE  Basics' /\ PairsKept
<1> DEFINE ask == Listed(id[p0])
           s == lists[p0]
<1>1. /\ id[p0] \in Room /\ Len(s) < MaxLists
      /\ lists' = [lists EXCEPT ![p0] = Append(s, ask)]
      /\ UNCHANGED <<created, queue, net, id, conn, offers, poll, tries, faults, troubled>>
  BY RoomBoundsAssumption DEF AskPeers, serverVars
<1>2. Basics /\ created \in Nat /\ s \in Seq(SUBSET Ids) /\ Room' = Room
  BY <1>1, RoomBoundsAssumption DEF RoomInv, Basics, PagesFit, Room
<1>3. ask \subseteq (1..created) \ {id[p0]} /\ ask \subseteq Ids /\ 0 \notin Room
      /\ \A r \in Room : r # id[p0] => r \in ask
  BY <1>2, RoomBoundsAssumption DEF Listed, Basics, SignalsFit, PagesFit, Ids
<1> HIDE DEF s, ask
<1>4. /\ Append(s, ask) \in Seq(SUBSET Ids) /\ Len(Append(s, ask)) = Len(s) + 1
      /\ Append(s, ask)[Len(s) + 1] = ask
      /\ \A k \in 1..Len(s) : Append(s, ask)[k] = s[k]
      /\ Len(s) \in Nat
  BY <1>2, <1>3
<1>5. lists'[p0] = Append(s, ask) /\ \A p \in Pages : p # p0 => lists'[p] = lists[p]
  BY <1>1, <1>2 DEF Basics, PagesFit
<1>6. SignalsFit' /\ \A m : Travelling(m)' => Travelling(m)
  BY <1>1, <1>2, SignalsRest DEF Basics
<1>7. PagesFit'
  BY <1>1, <1>2, <1>4 DEF Basics, PagesFit
<1>8. IdsFit' /\ ConnsFit' /\ OffersFit'
  BY <1>1, <1>2, <1>3, <1>5, IdsStay DEF Basics, ConnsFit, OffersFit
<1>9. ListsFit'
  <2>1. ASSUME NEW k \in 1..Len(s)
        PROVE  /\ s[k] \subseteq (1..created) \ {id[p0]}
               /\ \A r \in Room : r < id[p0] => r \in s[k]
               /\ \A j \in 1..k, r \in Room : r \in s[j] => r \in s[k]
               /\ \A j \in 1..k : j \in 1..Len(s)
    BY <1>2, <1>4 DEF Basics, ListsFit, s
  <2>2. ASSUME NEW k \in 1..(Len(s) + 1)
        PROVE  /\ lists'[p0][k] \subseteq (1..created) \ {id[p0]}
               /\ \A r \in Room : r < id[p0] => r \in lists'[p0][k]
               /\ \A j \in 1..k, r \in Room : r \in lists'[p0][j] => r \in lists'[p0][k]
    <3>1. CASE k \in 1..Len(s)
      BY <3>1, <2>1, <1>4, <1>5
    <3>2. CASE k = Len(s) + 1
      <4>1. lists'[p0][k] = ask /\ id[p0] \in Nat /\ \A r \in Room : r \in Nat
        BY <3>2, <1>2, <1>4, <1>5 DEF Basics, PagesFit, SignalsFit
      <4>2. ASSUME NEW j \in 1..k, NEW r \in Room, r \in lists'[p0][j]
            PROVE  r \in ask
        <5>1. CASE j = k
          BY <5>1, <4>1, <4>2
        <5>2. CASE j # k
          <6>1. j \in 1..Len(s)
            BY <5>2, <3>2, <1>4
          <6>2. lists'[p0][j] = s[j] /\ s[j] \subseteq (1..created) \ {id[p0]}
            BY <6>1, <2>1, <1>4, <1>5
          <6> QED
            BY <6>2, <4>2, <1>3
        <5> QED
          BY <5>1, <5>2
      <4> QED
        BY <4>1, <4>2, <1>3
    <3> QED
      BY <3>1, <3>2, <1>4
  <2>3. Len(lists'[p0]) <= MaxLists /\ Len(lists'[p0]) = Len(s) + 1
    BY <1>1, <1>4, <1>5, RoomBoundsAssumption DEF s
  <2> QED
    BY <1>1, <1>2, <1>5, <2>2, <2>3 DEF Basics, ListsFit
<1>10. ASSUME NEW p \in Pages, NEW q \in Pages, StillThere(p, q)
       PROVE  PairFits(p, q)' /\ StaysStable(p, q)
  <2>1. PairFits(p, q) /\ id[q] \in Room /\ id[q] # id[p]
    BY <1>2, <1>10 DEF StillThere, RoomInv, Undisturbed, Present, Basics, PagesFit
  <2>2. \A k \in 1..Len(lists'[p]) : \/ id[q] \in lists'[p][k]
                                     \/ \E j \in 1..Len(lists[p]) : lists'[p][k] = lists[p][j]
    <3>1. CASE p = p0
      <4>1. id[q] \in ask
        BY <3>1, <2>1, <1>3
      <4>2. \A k \in 1..(Len(s) + 1) : k = Len(s) + 1 \/ k \in 1..Len(s)
        BY <1>4
      <4> QED
        BY <3>1, <4>1, <4>2, <1>4, <1>5 DEF s
    <3>2. CASE p # p0
      BY <3>2, <1>5
    <3> QED
      BY <3>1, <3>2
  <2> QED
    BY <1>1, <1>6, <1>10, <2>1, <2>2, PairStays DEF SamePc, StillThere
<1> QED
  BY <1>6, <1>7, <1>8, <1>9, <1>10 DEF Basics, PairsKept

LEMMA FirstListFailsKeeps ==
    ASSUME RoomInv, NEW p0 \in Pages, FirstListFails(p0)
    PROVE  Basics' /\ PairsKept
<1>1. /\ poll' = [poll EXCEPT ![p0] = "ready"]
      /\ UNCHANGED <<created, queue, net, id, conn, offers, lists, tries>>
      /\ faults' = faults \/ (faults < MaxFaults /\ faults' = faults + 1)
  BY DEF FirstListFails, serverVars, Fault
<1>2. Basics /\ created \in Nat /\ Room' = Room
  BY <1>1, RoomBoundsAssumption DEF RoomInv, Basics, PagesFit, Room
<1>3. SignalsFit' /\ \A m : Travelling(m)' => Travelling(m)
  BY <1>1, <1>2, SignalsRest DEF Basics
<1>4. PagesFit'
  BY <1>1, <1>2, RoomBoundsAssumption DEF Basics, PagesFit
<1>5. IdsFit' /\ ConnsFit' /\ OffersFit' /\ ListsFit'
  BY <1>1, <1>2, ListsStay DEF Basics, IdsFit, ConnsFit, OffersFit
<1>6. ASSUME NEW p \in Pages, NEW q \in Pages, StillThere(p, q)
      PROVE  PairFits(p, q)' /\ StaysStable(p, q)
  BY <1>1, <1>3, <1>6, PairStays DEF SamePc, StillThere, RoomInv
<1> QED
  BY <1>3, <1>4, <1>5, <1>6 DEF Basics, PairsKept

LEMMA OfferFailsKeeps ==
    ASSUME RoomInv, NEW p0 \in Pages, NEW o \in offers[p0], OfferFails(p0, o)
    PROVE  Basics' /\ PairsKept
<1>1. /\ offers' = [offers EXCEPT ![p0] = @ \ {o}] /\ Close(p0, o.to)
      /\ UNCHANGED <<created, queue, net, id, lists, poll, tries, faults, troubled>>
  BY DEF OfferFails, serverVars
<1>2. Basics /\ created \in Nat /\ Room' = Room /\ id[p0] # 0 /\ id[p0] < o.to
  BY <1>1, RoomBoundsAssumption DEF RoomInv, Basics, PagesFit, Room, IdsFit, OffersFit
<1>3. /\ conn' = [q \in Pages |-> conn'[q]] /\ \A q \in Pages \ {p0} : conn'[q] = conn[q]
      /\ DOMAIN conn'[p0] = DOMAIN conn[p0] \ {o.to}
      /\ \A r \in DOMAIN conn[p0] \ {o.to} : conn'[p0][r] = conn[p0][r]
  BY <1>1, <1>2, CloseIs DEF Basics, PagesFit
<1>4. \A p \in Pages : offers'[p] = IF p = p0 THEN offers[p0] \ {o} ELSE offers[p]
  BY <1>1, <1>2 DEF Basics, PagesFit
<1>5. SignalsFit' /\ \A m : Travelling(m)' => Travelling(m)
  BY <1>1, <1>2, SignalsRest DEF Basics
<1>6. PagesFit'
  BY <1>1, <1>2, <1>3 DEF Basics, PagesFit
<1>7. IdsFit'
  BY <1>1, <1>2, <1>3, <1>4, IdsStay DEF Basics
<1>8. ConnsFit'
  BY <1>1, <1>2, <1>3, ConnsStay DEF Basics
<1>9. OffersFit' /\ ListsFit'
  BY <1>1, <1>2, <1>4, OffersStay, ListsStay DEF Basics
<1>10. ASSUME NEW p \in Pages, NEW q \in Pages, StillThere(p, q)
       PROVE  PairFits(p, q)' /\ StaysStable(p, q)
  <2>1. PairFits(p, q) /\ id[p] < id[q] /\ id[p] \in Nat /\ id[q] \in Nat
    BY <1>2, <1>10 DEF StillThere, RoomInv, Basics, PagesFit
  <2>2. p = p0 => o.to # id[q]
    BY <2>1 DEF OfferFails, PairFits, Quiet, Offered
  <2>3. q = p0 => o.to # id[p]
    BY <2>1, <1>2 DEF Basics, OffersFit, PagesFit, Offers, Ids
  <2>4. SamePc(p, id[q]) /\ SamePc(q, id[p])
    BY <1>3, <2>2, <2>3 DEF SamePc
  <2> QED
    BY <1>1, <1>4, <1>5, <1>10, <2>1, <2>4, PairStays DEF StillThere
<1> QED
  BY <1>5, <1>6, <1>7, <1>8, <1>9, <1>10 DEF Basics, PairsKept

LEMMA SubSeqFrom ==
    ASSUME NEW S, NEW s \in Seq(S), NEW n \in 1..Len(s), NEW k \in 1..(Len(s) - n)
    PROVE  SubSeq(s, n + 1, Len(s))[k] = s[n + k]
  OBVIOUS

(* What a page does with a list of peers.                                  *)
NewPeers(p, k) ==
    {r \in lists[p][k] \ DOMAIN conn[p] : id[p] < r /\ tries[id[p]][r] < MaxTries}

KeptPeers(p, k) == DOMAIN conn[p] \cap lists[p][k]

LEMMA TakePeersIs ==
    ASSUME Basics, NEW p0 \in Pages, NEW k0 \in DOMAIN lists[p0], TakePeers(p0, k0)
    PROVE  /\ id[p0] # 0 /\ id[p0] \in Ids
           /\ k0 \in 1..Len(lists[p0])
           /\ lists[p0][k0] \subseteq (1..created) \ {id[p0]}
           /\ \A r \in Room : r < id[p0] => r \in lists[p0][k0]
           /\ k0 = 1 => \A k \in 1..Len(lists[p0]), r \in Room :
                            r \in lists[p0][k0] => r \in lists[p0][k]
           /\ lists' \in [Pages -> Seq(SUBSET Ids)]
           /\ \A p \in Pages : p # p0 => /\ lists'[p] = lists[p] /\ conn'[p] = conn[p]
                                         /\ offers'[p] = offers[p]
           /\ Len(lists'[p0]) = Len(lists[p0]) - 1
           /\ \A k \in 1..Len(lists'[p0]) :
                lists'[p0][k] = lists[p0][IF k < k0 THEN k ELSE k + 1]
           /\ conn' = [p \in Pages |-> conn'[p]]
           /\ NewPeers(p0, k0) \cap KeptPeers(p0, k0) = {}
           /\ DOMAIN conn'[p0] = KeptPeers(p0, k0) \cup NewPeers(p0, k0)
           /\ \A r \in KeptPeers(p0, k0) : conn'[p0][r] = conn[p0][r]
           /\ \A r \in NewPeers(p0, k0) : conn'[p0][r] = NewPc(tries[id[p0]][r] + 1)
           /\ offers' = [offers EXCEPT ![p0] = @ \cup
                {[to |-> r, n |-> tries[id[p0]][r] + 1, state |-> "creating"]
                    : r \in NewPeers(p0, k0)}]
           /\ tries' \in [Ids -> [Ids -> 0..MaxTries]]
           /\ \A i, j \in Ids : tries'[i][j] = IF i = id[p0] /\ j \in NewPeers(p0, k0)
                                               THEN tries[i][j] + 1 ELSE tries[i][j]
           /\ NewPeers(p0, k0) \subseteq Ids
           /\ \A r \in NewPeers(p0, k0) : tries[id[p0]][r] \in 0..(MaxTries - 1)
           /\ poll' \in [Pages -> {"off", "ready", "answering"}]
           /\ UNCHANGED <<created, queue, net, id>>
           /\ \/ k0 = 1 /\ UNCHANGED <<faults, troubled>>
              \/ /\ faults < MaxFaults /\ faults' = faults + 1
                 /\ troubled' = troubled \cup {{id[p0], r} : r \in Ids}
<1> DEFINE peers == lists[p0][k0]
           s == lists[p0]
           a == id[p0]
           c == conn[p0]
           kept == Restrict(c, DOMAIN c \cap peers)
           new == {r \in peers \ DOMAIN kept : a < r /\ tries[a][r] < MaxTries}
           try == [r \in new |-> tries[a][r] + 1]
<1>1. /\ lists' = [lists EXCEPT ![p0] = SubSeq(@, 1, k0 - 1) \o SubSeq(@, k0 + 1, Len(@))]
      /\ conn' = [conn EXCEPT ![p0] = [r \in DOMAIN kept \cup new |->
                     IF r \in new THEN NewPc(try[r]) ELSE kept[r]]]
      /\ offers' = [offers EXCEPT ![p0] =
                      @ \cup {[to |-> r, n |-> try[r], state |-> "creating"] : r \in new}]
      /\ tries' = [tries EXCEPT ![a] = [r \in Ids |-> IF r \in new THEN try[r] ELSE @[r]]]
      /\ poll' = [poll EXCEPT ![p0] = IF @ = "off" THEN "ready" ELSE @]
      /\ UNCHANGED <<created, queue, net, id>>
      /\ \/ k0 = 1 /\ UNCHANGED <<faults, troubled>>
         \/ /\ faults < MaxFaults /\ faults' = faults + 1
            /\ troubled' = troubled \cup {{a, r} : r \in Ids}
  BY DEF TakePeers, Fault, Trouble, serverVars
<1>2. /\ s \in Seq(SUBSET Ids) /\ k0 \in 1..Len(s) /\ Len(s) \in Nat
      /\ created \in 0..MaxIds /\ MaxIds \in Nat /\ MaxTries \in Nat
      /\ a \in 0..created /\ conn = [p \in Pages |-> conn[p]]
      /\ offers \in [Pages -> SUBSET Offers] /\ tries \in [Ids -> [Ids -> 0..MaxTries]]
      /\ poll \in [Pages -> {"off", "ready", "answering"}]
      /\ lists \in [Pages -> Seq(SUBSET Ids)]
  BY RoomBoundsAssumption DEF Basics, PagesFit
<1>3. a # 0
  BY <1>2 DEF Basics, IdsFit
<1>4. peers \subseteq (1..created) \ {a} /\ \A r \in Room : r < a => r \in peers
  BY <1>2 DEF Basics, ListsFit
<1>5. ASSUME k0 = 1, NEW k \in 1..Len(s), NEW r \in Room, r \in peers
      PROVE  r \in s[k]
  <2>1. \A j \in 1..k : r \in lists[p0][j] => r \in lists[p0][k]
    BY <1>2, <1>5 DEF Basics, ListsFit
  <2>2. 1 \in 1..k
    BY <1>2
  <2> QED
    BY <1>5, <2>1, <2>2
<1>6. /\ DOMAIN kept = DOMAIN c \cap peers /\ DOMAIN kept = KeptPeers(p0, k0)
      /\ \A r \in DOMAIN kept : kept[r] = c[r]
  BY DEF Restrict, KeptPeers
<1>7. new = NewPeers(p0, k0) /\ new \subseteq Ids /\ a \in Ids
      /\ \A r \in new : try[r] = tries[a][r] + 1 /\ tries[a][r] \in 0..(MaxTries - 1)
  <2>1. new = NewPeers(p0, k0)
    BY <1>6 DEF NewPeers
  <2>2. new \subseteq Ids /\ a \in Ids
    BY <1>2, <1>3, <1>4 DEF Ids
  <2>3. ASSUME NEW r \in new
        PROVE  try[r] = tries[a][r] + 1 /\ tries[a][r] \in 0..(MaxTries - 1)
    <3>1. tries[a][r] \in 0..MaxTries /\ tries[a][r] < MaxTries
      BY <2>2, <1>2
    <3> QED
      BY <3>1, <1>2
  <2> QED
    BY <2>1, <2>2, <2>3
<1> HIDE DEF kept, new, try
<1>8. /\ lists' \in [Pages -> Seq(SUBSET Ids)]
      /\ \A p \in Pages : p # p0 => lists'[p] = lists[p]
      /\ Len(lists'[p0]) = Len(s) - 1
      /\ \A k \in 1..Len(lists'[p0]) : lists'[p0][k] = s[IF k < k0 THEN k ELSE k + 1]
  <2> DEFINE h == SubSeq(s, 1, k0 - 1)
             t == SubSeq(s, k0 + 1, Len(s))
  <2> HIDE DEF s, peers
  <2>1. /\ h \in Seq(SUBSET Ids) /\ Len(h) = k0 - 1
        /\ \A k \in 1..(k0 - 1) : h[k] = s[k]
    BY <1>2, SubSeqProperties
  <2>2. /\ t \in Seq(SUBSET Ids) /\ Len(t) = Len(s) - k0
        /\ \A k \in 1..(Len(s) - k0) : t[k] = s[k0 + k]
    <3>1. t \in Seq(SUBSET Ids)
      BY <1>2
    <3>2. Len(t) = Len(s) - k0
      BY <1>2
    <3>3. ASSUME NEW k \in 1..(Len(s) - k0)
          PROVE  t[k] = s[k0 + k]
      BY <1>2, SubSeqFrom
    <3> QED
      BY <3>1, <3>2, <3>3
  <2> HIDE DEF h, t
  <2>3. /\ h \o t \in Seq(SUBSET Ids) /\ Len(h \o t) = Len(s) - 1
        /\ \A k \in 1..(Len(s) - 1) : (h \o t)[k] = s[IF k < k0 THEN k ELSE k + 1]
    <3>1. /\ h \o t \in Seq(SUBSET Ids) /\ Len(h \o t) = Len(h) + Len(t)
          /\ \A i \in 1..Len(h) + Len(t) :
                (h \o t)[i] = IF i <= Len(h) THEN h[i] ELSE t[i - Len(h)]
      BY <2>1, <2>2, ConcatProperties
    <3>2. Len(h) + Len(t) = Len(s) - 1
      BY <1>2, <2>1, <2>2
    <3>3. ASSUME NEW k \in 1..(Len(s) - 1)
          PROVE  (h \o t)[k] = s[IF k < k0 THEN k ELSE k + 1]
      <4>1. CASE k < k0
        <5>1. k \in 1..(k0 - 1) /\ k <= Len(h)
          BY <4>1, <1>2, <2>1
        <5>2. (h \o t)[k] = h[k]
          BY <5>1, <3>1, <3>2
        <5> QED
          BY <5>1, <5>2, <2>1, <4>1
      <4>2. CASE ~(k < k0)
        <5>1. k - (k0 - 1) \in 1..(Len(s) - k0) /\ k0 + (k - (k0 - 1)) = k + 1
          BY <4>2, <1>2
        <5>4. ~(k <= Len(h))
          BY <4>2, <1>2, <2>1
        <5>2. (h \o t)[k] = t[k - (k0 - 1)]
          BY <5>4, <3>1, <3>2, <2>1
        <5>3. t[k - (k0 - 1)] = s[k0 + (k - (k0 - 1))]
          BY <5>1, <2>2
        <5> QED
          BY <5>1, <5>2, <5>3, <4>2
      <4> QED
        BY <4>1, <4>2
    <3> QED
      BY <3>1, <3>2, <3>3
  <2>4. lists' = [lists EXCEPT ![p0] = h \o t]
    BY <1>1 DEF h, t, s
  <2>5. lists'[p0] = h \o t
    BY <1>2, <2>4
  <2> QED
    BY <1>2, <2>3, <2>4, <2>5
<1>9. /\ conn' = [p \in Pages |-> conn'[p]] /\ \A p \in Pages : p # p0 => conn'[p] = conn[p]
      /\ DOMAIN conn'[p0] = DOMAIN kept \cup new
      /\ \A r \in DOMAIN kept \cup new :
            conn'[p0][r] = IF r \in new THEN NewPc(try[r]) ELSE kept[r]
  <2>1. conn' = [p \in Pages |-> IF p = p0 THEN [r \in DOMAIN kept \cup new |->
                     IF r \in new THEN NewPc(try[r]) ELSE kept[r]] ELSE conn[p]]
    BY <1>1, <1>2
  <2>2. conn'[p0] = [r \in DOMAIN kept \cup new |->
                     IF r \in new THEN NewPc(try[r]) ELSE kept[r]]
    BY <2>1
  <2> QED
    BY <2>1, <2>2
<1>10. new \cap DOMAIN kept = {}
  BY DEF new
<1>11. /\ tries' \in [Ids -> [Ids -> 0..MaxTries]]
       /\ \A i, j \in Ids : tries'[i][j] = IF i = a /\ j \in new
                                           THEN tries[i][j] + 1 ELSE tries[i][j]
  <2>1. tries' = [i \in Ids |-> IF i = a THEN [r \in Ids |-> IF r \in new THEN try[r]
                                                             ELSE tries[a][r]]
                                         ELSE tries[i]]
    BY <1>1, <1>2, <1>7
  <2>2. [r \in Ids |-> IF r \in new THEN try[r] ELSE tries[a][r]] \in [Ids -> 0..MaxTries]
    BY <1>2, <1>7
  <2> QED
    BY <2>1, <2>2, <1>2, <1>7
<1>12. poll' \in [Pages -> {"off", "ready", "answering"}]
  BY <1>1, <1>2
<1>13. {[to |-> r, n |-> try[r], state |-> "creating"] : r \in new}
        = {[to |-> r, n |-> tries[a][r] + 1, state |-> "creating"] : r \in new}
  BY <1>7
<1>14. offers' = [offers EXCEPT ![p0] =
         @ \cup {[to |-> r, n |-> tries[a][r] + 1, state |-> "creating"] : r \in new}]
  BY <1>1, <1>13
<1>15. \A r \in new : conn'[p0][r] = NewPc(tries[a][r] + 1)
  BY <1>7, <1>9
<1>16. \A r \in DOMAIN kept : conn'[p0][r] = c[r]
  BY <1>6, <1>9, <1>10
<1>17. \A p \in Pages : p # p0 => offers'[p] = offers[p]
  BY <1>2, <1>14
<1>18. /\ NewPeers(p0, k0) \cap KeptPeers(p0, k0) = {}
       /\ DOMAIN conn'[p0] = KeptPeers(p0, k0) \cup NewPeers(p0, k0)
       /\ \A r \in KeptPeers(p0, k0) : conn'[p0][r] = conn[p0][r]
       /\ \A r \in NewPeers(p0, k0) : conn'[p0][r] = NewPc(tries[id[p0]][r] + 1)
  BY <1>6, <1>7, <1>9, <1>10, <1>15, <1>16
<1>19. \A i, j \in Ids : tries'[i][j] = IF i = id[p0] /\ j \in NewPeers(p0, k0)
                                        THEN tries[i][j] + 1 ELSE tries[i][j]
  BY <1>7, <1>11
<1>20. offers' = [offers EXCEPT ![p0] = @ \cup
         {[to |-> r, n |-> tries[id[p0]][r] + 1, state |-> "creating"] : r \in NewPeers(p0, k0)}]
  BY <1>7, <1>14
<1>21. NewPeers(p0, k0) \subseteq Ids /\ \A r \in NewPeers(p0, k0) : tries[id[p0]][r] \in 0..(MaxTries - 1)
  BY <1>7
<1> HIDE DEF a, c, s, peers
<1> QED
  BY <1>1, <1>2, <1>3, <1>4, <1>5, <1>7, <1>8, <1>9, <1>11, <1>12, <1>17, <1>18, <1>19, <1>20, <1>21
     DEF a, c, s, peers

LEMMA TakePeersKeeps ==
    ASSUME RoomInv, NEW p0 \in Pages, NEW k0 \in DOMAIN lists[p0], TakePeers(p0, k0)
    PROVE  Basics' /\ PairsKept
<1> DEFINE new == NewPeers(p0, k0)
           kept == KeptPeers(p0, k0)
           try(r) == tries[id[p0]][r] + 1
<1>1. Basics /\ created \in Nat
  BY RoomBoundsAssumption DEF RoomInv, Basics, PagesFit
<1>2. /\ id[p0] # 0 /\ id[p0] \in Ids
      /\ k0 \in 1..Len(lists[p0])
      /\ lists[p0][k0] \subseteq (1..created) \ {id[p0]}
      /\ \A r \in Room : r < id[p0] => r \in lists[p0][k0]
      /\ k0 = 1 => \A k \in 1..Len(lists[p0]), r \in Room :
                       r \in lists[p0][k0] => r \in lists[p0][k]
      /\ new \subseteq lists[p0][k0] \ DOMAIN conn[p0] /\ \A r \in new : id[p0] < r
      /\ kept = DOMAIN conn[p0] \cap lists[p0][k0]
  BY <1>1, TakePeersIs DEF NewPeers, KeptPeers
<1>3. /\ lists' \in [Pages -> Seq(SUBSET Ids)]
      /\ \A p \in Pages : p # p0 => /\ lists'[p] = lists[p] /\ conn'[p] = conn[p]
                                    /\ offers'[p] = offers[p]
      /\ Len(lists'[p0]) = Len(lists[p0]) - 1
      /\ \A k \in 1..Len(lists'[p0]) :
           lists'[p0][k] = lists[p0][IF k < k0 THEN k ELSE k + 1]
  BY <1>1, TakePeersIs
<1>4. /\ conn' = [p \in Pages |-> conn'[p]] /\ new \cap kept = {}
      /\ DOMAIN conn'[p0] = kept \cup new
      /\ \A r \in kept : conn'[p0][r] = conn[p0][r]
      /\ \A r \in new : conn'[p0][r] = NewPc(try(r))
      /\ new \subseteq Ids /\ \A r \in new : tries[id[p0]][r] \in 0..(MaxTries - 1)
  BY <1>1, TakePeersIs
<1>5. offers' = [offers EXCEPT ![p0] = @ \cup
                    {[to |-> r, n |-> try(r), state |-> "creating"] : r \in new}]
  BY <1>1, TakePeersIs
<1>6. /\ tries' \in [Ids -> [Ids -> 0..MaxTries]]
      /\ \A i, j \in Ids : tries'[i][j] = IF i = id[p0] /\ j \in new THEN tries[i][j] + 1
                                                                     ELSE tries[i][j]
  BY <1>1, TakePeersIs
<1>7. /\ poll' \in [Pages -> {"off", "ready", "answering"}]
      /\ UNCHANGED <<created, queue, net, id>>
  BY <1>1, TakePeersIs
<1>8. \/ k0 = 1 /\ UNCHANGED <<faults, troubled>>
      \/ /\ faults < MaxFaults /\ faults' = faults + 1
         /\ troubled' = troubled \cup {{id[p0], r} : r \in Ids}
  BY <1>1, TakePeersIs
<1>9. /\ tries' \in [Ids -> [Ids -> 0..MaxTries]]
      /\ \A i, j \in Ids : tries'[i][j] = IF i = id[p0] /\ j \in new THEN tries[i][j] + 1
                                                                     ELSE tries[i][j]
      /\ poll' \in [Pages -> {"off", "ready", "answering"}]
      /\ UNCHANGED <<created, queue, net, id>>
      /\ \/ k0 = 1 /\ UNCHANGED <<faults, troubled>>
         \/ /\ faults < MaxFaults /\ faults' = faults + 1
            /\ troubled' = troubled \cup {{id[p0], r} : r \in Ids}
  BY <1>6, <1>7, <1>8
<1>10. Room' = Room
  BY <1>9 DEF Room
<1> HIDE DEF new, kept
<1>11. SignalsFit' /\ \A m : Travelling(m)' => Travelling(m)
  BY <1>1, <1>9, SignalsRest DEF Basics
<1>12. /\ \A r \in new : NewPc(try(r)) \in Pcs /\ try(r) \in 1..MaxTries
       /\ \A o \in offers'[p0] : \/ o \in offers[p0]
                                 \/ \E r \in new : o = [to |-> r, n |-> try(r), state |-> "creating"]
  <2>1. \A r \in new : try(r) \in 1..MaxTries
    BY <1>4, RoomBoundsAssumption
  <2>2. \A r \in new : NewPc(try(r)) \in Pcs
    BY <2>1, RoomBoundsAssumption DEF NewPc, Pcs
  <2>3. offers'[p0] = offers[p0] \cup
                        {[to |-> r, n |-> try(r), state |-> "creating"] : r \in new}
    BY <1>1, <1>5 DEF Basics, PagesFit
  <2> QED
    BY <2>1, <2>2, <2>3
<1>13. PagesFit'
  <2>1. offers' \in [Pages -> SUBSET Offers]
    <3>1. {[to |-> r, n |-> try(r), state |-> "creating"] : r \in new} \subseteq Offers
      BY <1>4, <1>12 DEF Offers
    <3> QED
      BY <3>1, <1>1, <1>5 DEF Basics, PagesFit
  <2>2. faults' \in 0..MaxFaults
    BY <1>1, <1>9, RoomBoundsAssumption DEF Basics, PagesFit
  <2> QED
    BY <1>1, <1>3, <1>4, <1>9, <2>1, <2>2 DEF Basics, PagesFit
<1>14. IdsFit'
  <2>1. \A p \in Pages : id'[p] = 0 => conn'[p] = <<>> /\ offers'[p] = {} /\ lists'[p] = <<>>
    BY <1>1, <1>2, <1>3, <1>9, <1>5 DEF Basics, IdsFit
  <2>2. \A i, j \in Ids : tries'[i][j] # 0 => i < j /\ j <= created'
    <3>1. \A r \in new : r <= created /\ id[p0] < r
      BY <1>1, <1>2
    <3>2. ASSUME NEW i \in Ids, NEW j \in Ids, tries'[i][j] # 0
          PROVE  i < j /\ j <= created
      <4>1. CASE i = id[p0] /\ j \in new
        BY <4>1, <3>1
      <4>2. CASE ~(i = id[p0] /\ j \in new)
        BY <4>2, <3>2, <1>1, <1>9 DEF Basics, IdsFit
      <4> QED
        BY <4>1, <4>2
    <3> QED
      BY <3>2, <1>9
  <2> QED
    BY <1>1, <1>9, <2>1, <2>2 DEF Basics, IdsFit
<1>15. ConnsFit'
  <2>1. ASSUME NEW p \in Pages, NEW r \in DOMAIN conn'[p]
        PROVE  \/ r \in DOMAIN conn[p] /\ conn'[p][r] = conn[p][r]
               \/ r \in 1..created /\ r # id[p] /\ conn'[p][r] \in Pcs
    <3>1. CASE p # p0
      BY <3>1, <2>1, <1>3
    <3>2. CASE p = p0
      BY <3>2, <2>1, <1>2, <1>4, <1>12
    <3> QED
      BY <3>1, <3>2
  <2> QED
    BY <1>1, <1>9, <2>1, ConnsStay DEF Basics
<1>16. OffersFit'
  <2>1. ASSUME NEW p \in Pages, NEW o \in offers'[p]
        PROVE  o \in offers[p] \/ (id[p] < o.to /\ o.to <= created)
    <3>1. CASE p # p0
      BY <3>1, <1>3
    <3>2. CASE p = p0
      <4>1. ASSUME NEW r \in new, o = [to |-> r, n |-> try(r), state |-> "creating"]
            PROVE  id[p] < o.to /\ o.to <= created
        BY <4>1, <3>2, <1>1, <1>2
      <4> QED
        BY <4>1, <3>2, <1>12
    <3> QED
      BY <3>1, <3>2
  <2> QED
    BY <1>1, <1>9, <2>1, OffersStay DEF Basics
<1>17. ListsFit'
  <2> DEFINE g(k) == IF k < k0 THEN k ELSE k + 1
  <2>1. /\ Len(lists[p0]) \in Nat /\ Len(lists[p0]) <= MaxLists
        /\ \A k \in 1..(Len(lists[p0]) - 1) :
              /\ g(k) \in 1..Len(lists[p0])
              /\ \A j \in 1..k : g(j) \in 1..g(k) /\ j \in 1..(Len(lists[p0]) - 1)
    <3>1. lists[p0] \in Seq(SUBSET Ids)
      BY <1>1 DEF Basics, PagesFit
    <3> QED
      BY <3>1, <1>1, <1>2 DEF Basics, ListsFit
  <2> HIDE DEF g
  <2>2. \A k \in 1..(Len(lists[p0]) - 1) : lists'[p0][k] = lists[p0][g(k)]
    BY <1>3 DEF g
  <2>3. ASSUME NEW k \in 1..(Len(lists[p0]) - 1)
        PROVE  /\ lists'[p0][k] \subseteq (1..created) \ {id[p0]}
               /\ \A r \in Room : r < id[p0] => r \in lists'[p0][k]
               /\ \A j \in 1..k, r \in Room : r \in lists'[p0][j] => r \in lists'[p0][k]
    BY <1>1, <2>1, <2>2 DEF Basics, ListsFit
  <2>4. Len(lists'[p0]) <= MaxLists
    BY <2>1, <1>3, RoomBoundsAssumption
  <2> QED
    BY <1>1, <1>3, <1>9, <1>10, <2>3, <2>4 DEF Basics, ListsFit
<1>18. ASSUME NEW p \in Pages, NEW q \in Pages, StillThere(p, q)
       PROVE  PairFits(p, q)' /\ StaysStable(p, q)
  <2> DEFINE a == id[p]
             b == id[q]
  <2>1. /\ PairFits(p, q) /\ a < b /\ a \in Ids /\ b \in Ids /\ a \in Room /\ b \in Room
        /\ a \in Nat /\ b \in Nat
        /\ p # q /\ {a, b} \notin troubled'
    <3>1. \A i \in Room : i \in Ids /\ i \in Nat
      BY <1>1, RoomBoundsAssumption DEF Basics, SignalsFit, PagesFit, Ids
    <3> QED
      BY <3>1, <1>1, <1>9, <1>18, <1>10 DEF StillThere, RoomInv, Undisturbed, Present
  <2>2. (p = p0 \/ q = p0) => k0 = 1
    BY <2>1, <1>9
  <2>3. \A k \in 1..Len(lists'[p]) : \E j \in 1..Len(lists[p]) : lists'[p][k] = lists[p][j]
    <3>1. CASE p = p0
      <4>1. \A k \in 1..Len(lists'[p]) : (IF k < k0 THEN k ELSE k + 1) \in 1..Len(lists[p])
        BY <3>1, <1>1, <1>2, <1>3 DEF Basics, PagesFit
      <4> QED
        BY <4>1, <3>1, <1>3
    <3>2. CASE p # p0
      BY <3>2, <1>3
    <3> QED
      BY <3>1, <3>2
  <2>4. SamePc(q, a)
    <3>1. CASE q = p0
      <4>1. a \notin new /\ (a \in DOMAIN conn[q] => a \in kept)
        <5>1. a \in lists[q][k0]
          BY <3>1, <2>1, <1>2
        <5>2. \A r \in new : b < r /\ r \in Nat
          BY <3>1, <1>1, <1>2, <1>4, RoomBoundsAssumption DEF Ids
        <5> QED
          BY <5>1, <5>2, <3>1, <2>1, <1>2
      <4> QED
        BY <4>1, <3>1, <1>2, <1>4 DEF SamePc
    <3>2. CASE q # p0
      BY <3>2, <1>3 DEF SamePc
    <3> QED
      BY <3>1, <3>2
  <2>5. CASE ~(p = p0 /\ b \in new)
    <3>1. tries'[a][b] = tries[a][b]
      <4>1. p # p0 => a # id[p0]
        BY <2>1, <1>1, <1>2 DEF Basics, IdsFit
      <4> QED
        BY <4>1, <2>1, <2>5, <1>9
    <3>2. SamePc(p, b)
      <4>1. CASE p = p0
        <5>1. b \in DOMAIN conn[p] => b \in kept
          <6>1. ASSUME b \in DOMAIN conn[p]
                PROVE  b \in lists[p][k0]
            BY <2>1, <6>1, <4>1, <1>2 DEF PairFits, Quiet, Offered
          <6> QED
            BY <6>1, <4>1, <1>2
        <5> QED
          BY <5>1, <4>1, <2>5, <1>2, <1>4 DEF SamePc
      <4>2. CASE p # p0
        BY <4>2, <1>3 DEF SamePc
      <4> QED
        BY <4>1, <4>2
    <3>3. \A o \in offers'[p] : o.to = b => o \in offers[p]
      BY <2>5, <1>3, <1>12
    <3> QED
      BY <1>9, <1>11, <2>1, <2>3, <2>4, <3>1, <3>2, <3>3, PairStays
  <2>6. CASE p = p0 /\ b \in new
    <3>1. b \notin DOMAIN conn[p] /\ b \in lists[p][k0] /\ k0 = 1
      BY <2>2, <2>6, <1>2
    <3>2. tries[a][b] = 0 /\ Quiet(a, b, p, q)
      BY <2>1, <3>1 DEF PairFits, Offered
    <3>3. tries'[a][b] = 1
      BY <2>1, <2>6, <3>2, <1>9
    <3>4. b \in DOMAIN conn'[p] /\ conn'[p][b] = NewPc(1)
      BY <2>6, <3>2, <1>4
    <3>5. \A k \in 1..Len(lists'[p]) : b \in lists'[p][k]
      <4>1. \A j \in 1..Len(lists[p]) : b \in lists[p][j]
        BY <2>1, <2>6, <3>1, <1>2
      <4> QED
        BY <4>1, <2>3
    <3>6. \A o \in offers'[p] : o.to = b => o.n = 1 /\ o.state = "creating"
      <4>1. ASSUME NEW r \in new, r = b
            PROVE  try(r) = 1
        BY <4>1, <3>2, <2>6
      <4> QED
        BY <4>1, <3>2, <2>6, <1>12 DEF Quiet
    <3>7. Offered(a, b, p)'
      BY <3>4, <3>5, <3>6, <1>9 DEF Offered, NewPc
    <3>8. a \notin DOMAIN conn'[q] /\ \A m : Travelling(m)' => ~Between(m, a, b)
      BY <2>4, <3>2, <1>11 DEF Quiet, SamePc
    <3>9. Replied(a, b, p, q)'
      BY <3>4, <3>8, <1>9 DEF Replied, NewPc, Between
    <3> QED
      BY <3>1, <3>3, <3>7, <3>9, <1>9 DEF PairFits, StaysStable
  <2> QED
    BY <2>5, <2>6
<1> QED
  BY <1>11, <1>13, <1>14, <1>15, <1>16, <1>17, <1>18 DEF Basics, PairsKept

LEMMA PostOfferKeeps ==
    ASSUME RoomInv, NEW p0 \in Pages, NEW o \in offers[p0], PostOffer(p0, o)
    PROVE  Basics' /\ PairsKept
<1> DEFINE post == [o EXCEPT !.state = "posting"]
           rtc == [conn[p0][o.to] EXCEPT !.state = "offered"]
           posted == {Signal(id[p0], o.to, kind, o.n) : kind \in {"offer", "candidate"}}
<1>1. /\ o.state = "creating" /\ o.to \in DOMAIN conn[p0] /\ conn[p0][o.to].n = o.n
      /\ offers' = [offers EXCEPT ![p0] = (@ \ {o}) \cup {post}]
      /\ Set(p0, o.to, rtc) /\ net' = net \cup posted
      /\ UNCHANGED <<created, queue, id, lists, poll, tries, faults, troubled>>
  BY DEF PostOffer, serverVars
<1>2. Basics /\ created \in Nat /\ Room' = Room
  BY <1>1, RoomBoundsAssumption DEF RoomInv, Basics, PagesFit, Room
<1>3. /\ id[p0] # 0 /\ id[p0] < o.to /\ o.to <= created /\ o \in Offers
      /\ id[p0] \in 1..created /\ o.to \in 1..created /\ o.to \in Ids /\ id[p0] \in Ids
      /\ conn[p0][o.to] \in Pcs
  BY <1>1, <1>2, RoomBoundsAssumption
     DEF Basics, PagesFit, IdsFit, OffersFit, ConnsFit, Offers, Ids
<1>4. /\ post \in Offers /\ post.to = o.to /\ post.n = o.n /\ post.state = "posting"
      /\ rtc \in Pcs /\ rtc.state = "offered" /\ rtc.n = o.n
      /\ rtc.waiting = conn[p0][o.to].waiting
  BY <1>1, <1>3 DEF Offers, Pcs
<1>5. \A m \in posted : /\ m \in Signals /\ m.from = id[p0] /\ m.to = o.to /\ m.n = o.n
                      /\ m.kind \in {"offer", "candidate"} /\ Proper(m)
  BY <1>3 DEF Signal, Signals, Offers, Proper
<1> HIDE DEF post, rtc, posted
<1>6. /\ conn' = [q \in Pages |-> conn'[q]] /\ \A q \in Pages \ {p0} : conn'[q] = conn[q]
      /\ DOMAIN conn'[p0] = DOMAIN conn[p0] /\ conn'[p0][o.to] = rtc
      /\ \A r \in DOMAIN conn[p0] \ {o.to} : conn'[p0][r] = conn[p0][r]
  <2>1. /\ conn' = [q \in Pages |-> conn'[q]] /\ \A q \in Pages \ {p0} : conn'[q] = conn[q]
        /\ DOMAIN conn'[p0] = DOMAIN conn[p0] \cup {o.to} /\ conn'[p0][o.to] = rtc
        /\ \A r \in DOMAIN conn[p0] \ {o.to} : conn'[p0][r] = conn[p0][r]
    BY <1>1, <1>2, SetIs DEF Basics, PagesFit
  <2>2. DOMAIN conn[p0] \cup {o.to} = DOMAIN conn[p0]
    BY <1>1
  <2> QED
    BY <2>1, <2>2
<1>7. \A p \in Pages : offers'[p] = IF p = p0 THEN (offers[p0] \ {o}) \cup {post}
                                              ELSE offers[p]
  BY <1>1, <1>2 DEF Basics, PagesFit
<1>8. SignalsFit' /\ \A m : Travelling(m)' => Travelling(m) \/ m \in posted
  <2>1. SignalsFit /\ net' \subseteq Signals /\ Room' \subseteq 1..created'
    BY <1>1, <1>2, <1>5 DEF Basics, SignalsFit
  <2>2. \A m \in net' : m \in net \/ Proper(m)
    BY <1>1, <1>5
  <2>3. \A i \in Room' : /\ queue'[i] \in Seq(Signals) /\ Len(queue'[i]) <= MaxPending
                         /\ \A k \in 1..Len(queue'[i]) :
                               i \in Room /\ \E j \in 1..Len(queue[i]) : queue'[i][k] = queue[i][j]
    BY <1>1, <1>2, <2>1 DEF SignalsFit
  <2>4. SignalsFit' /\ \A m : Travelling(m)' => Travelling(m) \/ m \in net' \ net
    BY <1>1, <1>2, <2>1, <2>2, <2>3, SignalsStay
  <2> QED
    BY <1>1, <2>4
<1>9. PagesFit'
  BY <1>1, <1>2, <1>4, <1>6 DEF Basics, PagesFit
<1>10. IdsFit'
  BY <1>1, <1>2, <1>3, <1>6, <1>7, IdsStay DEF Basics
<1>11. ConnsFit'
  BY <1>1, <1>2, <1>3, <1>4, <1>6, ConnsStay DEF Basics, ConnsFit
<1>12. OffersFit' /\ ListsFit'
  BY <1>1, <1>2, <1>3, <1>4, <1>7, OffersStay, ListsStay DEF Basics
<1>13. ASSUME NEW p \in Pages, NEW q \in Pages, StillThere(p, q)
       PROVE  PairFits(p, q)' /\ StaysStable(p, q)
  <2> DEFINE a == id[p]
             b == id[q]
  <2>1. /\ PairFits(p, q) /\ a < b /\ a \in Nat /\ b \in Nat /\ a # 0 /\ b # 0 /\ p # q
        /\ a \in Room /\ b \in Room
    BY <1>2, <1>13 DEF StillThere, RoomInv, Basics, PagesFit, SignalsFit, Undisturbed, Present
  <2>2. CASE ~(p = p0 /\ o.to = b)
    <3>1. \A m \in posted : ~Between(m, a, b)
      <4>1. p # p0 => id[p0] # a
        BY <2>1, <1>2 DEF Basics, IdsFit
      <4>2. id[p0] = b => o.to # a
        BY <2>1, <1>3
      <4> QED
        BY <4>1, <4>2, <2>2, <1>5 DEF Between
    <3>2. SamePc(p, b)
      BY <2>2, <1>6 DEF SamePc
    <3>3. SamePc(q, a)
      <4>1. q = p0 => o.to # a
        BY <2>1, <1>3
      <4> QED
        BY <4>1, <1>6 DEF SamePc
    <3>4. \A x \in offers'[p] : x.to = b => x \in offers[p]
      BY <2>2, <1>4, <1>7
    <3> QED
      BY <1>1, <1>8, <2>1, <3>1, <3>2, <3>3, <3>4, PairStays
  <2>3. CASE p = p0 /\ o.to = b
    <3>1. tries[a][b] = 1 /\ Offered(a, b, p) /\ Replied(a, b, p, q)
      BY <2>1, <2>3 DEF PairFits, Quiet
    <3>2. conn[p][b].state = "new" /\ o.n = 1 /\ a \notin DOMAIN conn[q]
      BY <2>3, <3>1, <1>1 DEF Offered, Replied
    <3>3. conn'[p][b] = rtc /\ b \in DOMAIN conn'[p] /\ a \notin DOMAIN conn'[q]
      BY <2>1, <2>3, <3>2, <1>1, <1>6
    <3>4. \A x \in offers'[p] : x.to = b => x.n = 1 /\ x.state # "failed"
      BY <2>3, <3>1, <3>2, <1>4, <1>7 DEF Offered
    <3>5. \A x \in offers'[p] : x.to = b => x.state # "creating"
      <4>1. \A x \in offers[p] : x \in Offers
        BY <1>2 DEF Basics, PagesFit
      <4>2. ASSUME NEW x \in offers'[p], x.to = b, x.state = "creating"
            PROVE  FALSE
        <5>1. x \in offers[p] /\ x # o
          BY <4>2, <2>3, <1>4, <1>7
        <5>2. x.n = 1
          BY <5>1, <4>2, <3>1 DEF Offered
        <5>3. x \in Offers /\ o \in Offers
          BY <5>1, <4>1, <1>3
        <5> QED
          BY <5>1, <5>2, <5>3, <4>2, <3>2, <2>3, <1>1 DEF Offers
      <4> QED
        BY <4>2
    <3>6. Offered(a, b, p)'
      BY <3>1, <3>2, <3>3, <3>4, <3>5, <2>3, <1>1, <1>4 DEF Offered
    <3>7. \A m : Travelling(m)' /\ Between(m, a, b) =>
              m.n = 1 /\ m.kind # "answer"
      BY <3>1, <3>2, <1>5, <1>8 DEF Replied
    <3>8. Replied(a, b, p, q)'
      BY <3>3, <3>7, <1>1, <1>4 DEF Replied, Between
    <3> QED
      BY <3>1, <3>2, <3>6, <3>8, <1>1 DEF PairFits, StaysStable
  <2> QED
    BY <2>2, <2>3
<1> QED
  BY <1>8, <1>9, <1>10, <1>11, <1>12, <1>13 DEF Basics, PairsKept

LEMMA IceFailsKeeps ==
    ASSUME RoomInv, NEW p0 \in Pages, NEW i0 \in DOMAIN conn[p0], IceFails(p0, i0)
    PROVE  Basics' /\ PairsKept
<1>1. /\ conn[p0][i0].state = "stable" /\ Close(p0, i0)
      /\ UNCHANGED <<created, queue, net, id, offers, lists, poll, tries, faults, troubled>>
  BY DEF IceFails, serverVars
<1>2. ASSUME NEW q \in Pages, id[q] = i0, id[p0] \in DOMAIN conn[q]
      PROVE  LET x == conn[p0][i0]
                 y == conn[q][id[p0]]
             IN  ~Paired(x, y) /\ ~Paired(y, x) /\ ~Awaits(x, y) /\ ~Awaits(y, x)
  BY <1>2 DEF IceFails, Connected, Related
<1>3. Basics /\ created \in Nat /\ Room' = Room /\ id[p0] # 0
  BY <1>1, RoomBoundsAssumption DEF RoomInv, Basics, PagesFit, Room, IdsFit
<1>4. /\ conn' = [q \in Pages |-> conn'[q]] /\ \A q \in Pages \ {p0} : conn'[q] = conn[q]
      /\ DOMAIN conn'[p0] = DOMAIN conn[p0] \ {i0}
      /\ \A r \in DOMAIN conn[p0] \ {i0} : conn'[p0][r] = conn[p0][r]
  BY <1>1, <1>3, CloseIs DEF Basics, PagesFit
<1>5. SignalsFit' /\ \A m : Travelling(m)' => Travelling(m)
  BY <1>1, <1>3, SignalsRest DEF Basics
<1>6. PagesFit'
  BY <1>1, <1>3, <1>4 DEF Basics, PagesFit
<1>7. IdsFit' /\ ConnsFit'
  BY <1>1, <1>3, <1>4, IdsStay, ConnsStay DEF Basics
<1>8. OffersFit' /\ ListsFit'
  BY <1>1, <1>3, OffersStay, ListsStay DEF Basics
<1>9. ASSUME NEW p \in Pages, NEW q \in Pages, StillThere(p, q)
      PROVE  PairFits(p, q)' /\ StaysStable(p, q)
  <2> DEFINE a == id[p]
             b == id[q]
  <2>1. PairFits(p, q)
    BY <1>9 DEF StillThere, RoomInv
  <2>2. ~(p = p0 /\ b = i0)
    <3> SUFFICES ASSUME p = p0, b = i0
                 PROVE  FALSE
      OBVIOUS
    <3>1. /\ Offered(a, b, p) /\ Replied(a, b, p, q)
          /\ conn[p][b].state = "stable" /\ b \in DOMAIN conn[p]
      BY <2>1, <1>1 DEF PairFits, Quiet
    <3>2. Paired(conn[p][b], conn[q][a]) /\ a \in DOMAIN conn[q]
      BY <3>1 DEF Paired, Offered, Replied
    <3> QED
      BY <3>2, <1>2
  <2>3. ~(q = p0 /\ a = i0)
    <3> SUFFICES ASSUME q = p0, a = i0
                 PROVE  FALSE
      OBVIOUS
    <3>1. /\ Offered(a, b, p) /\ Replied(a, b, p, q)
          /\ conn[q][a].state = "stable" /\ a \in DOMAIN conn[q]
      BY <2>1, <1>1 DEF PairFits, Quiet
    <3>2. conn[p][b] \in Pcs /\ b \in DOMAIN conn[p]
      BY <3>1, <1>3 DEF Offered, Basics, ConnsFit
    <3>3. conn[p][b].state \in {"offered", "stable"}
      BY <3>1, <3>2 DEF Replied, Pcs
    <3>4. Paired(conn[p][b], conn[q][a]) \/ Awaits(conn[p][b], conn[q][a])
      BY <3>1, <3>3 DEF Paired, Awaits, Offered, Replied
    <3> QED
      BY <3>2, <3>4, <1>2
  <2>4. SamePc(p, b) /\ SamePc(q, a)
    BY <2>2, <2>3, <1>4 DEF SamePc
  <2> QED
    BY <1>1, <1>5, <2>1, <2>4, PairStays
<1> QED
  BY <1>5, <1>6, <1>7, <1>8, <1>9 DEF Basics, PairsKept

LEMMA LinkBreaksKeeps ==
    ASSUME RoomInv, NEW p0 \in Pages, NEW q0 \in Pages, LinkBreaks(p0, q0)
    PROVE  Basics' /\ PairsKept
<1> DEFINE i0 == id[q0]
<1>1. /\ i0 \in DOMAIN conn[p0] /\ Close(p0, i0) /\ faults < MaxFaults /\ faults' = faults + 1
      /\ troubled' = troubled \cup {{id[p0], i0}}
      /\ UNCHANGED <<created, queue, net, id, offers, lists, poll, tries>>
  BY DEF LinkBreaks, Connected, Related, Fault, Trouble, serverVars
<1>2. Basics /\ created \in Nat /\ Room' = Room /\ id[p0] # 0
  BY <1>1, RoomBoundsAssumption DEF RoomInv, Basics, PagesFit, Room, IdsFit
<1>3. /\ conn' = [q \in Pages |-> conn'[q]] /\ \A q \in Pages \ {p0} : conn'[q] = conn[q]
      /\ DOMAIN conn'[p0] = DOMAIN conn[p0] \ {i0}
      /\ \A r \in DOMAIN conn[p0] \ {i0} : conn'[p0][r] = conn[p0][r]
  BY <1>1, <1>2, CloseIs DEF Basics, PagesFit
<1>4. SignalsFit' /\ \A m : Travelling(m)' => Travelling(m)
  BY <1>1, <1>2, SignalsRest DEF Basics
<1>5. PagesFit'
  <2>1. faults' \in 0..MaxFaults
    BY <1>1, <1>2, RoomBoundsAssumption DEF Basics, PagesFit
  <2> QED
    BY <1>1, <1>2, <1>3, <2>1 DEF Basics, PagesFit
<1>6. IdsFit' /\ ConnsFit'
  BY <1>1, <1>2, <1>3, IdsStay, ConnsStay DEF Basics
<1>7. OffersFit' /\ ListsFit'
  BY <1>1, <1>2, OffersStay, ListsStay DEF Basics
<1>8. ASSUME NEW p \in Pages, NEW q \in Pages, StillThere(p, q)
      PROVE  PairFits(p, q)' /\ StaysStable(p, q)
  <2>1. PairFits(p, q) /\ {id[p], id[q]} \notin troubled'
    BY <1>1, <1>8 DEF StillThere, RoomInv, Undisturbed
  <2>2. ~(p = p0 /\ id[q] = i0) /\ ~(q = p0 /\ id[p] = i0)
    BY <2>1, <1>1
  <2>3. SamePc(p, id[q]) /\ SamePc(q, id[p])
    BY <2>2, <1>3 DEF SamePc
  <2> QED
    BY <1>1, <1>4, <2>1, <2>3, PairStays
<1> QED
  BY <1>4, <1>5, <1>6, <1>7, <1>8 DEF Basics, PairsKept

(* What the page that posted m hears of it.                                *)
LEMMA ToldIs ==
    ASSUME Basics, NEW m \in net, NEW ok \in BOOLEAN, Told(m, ok)
    PROVE  /\ offers' \in [Pages -> SUBSET Offers]
           /\ poll' \in [Pages -> {"off", "ready", "answering"}]
           /\ \A p \in Pages : \A o \in offers'[p] :
                 \/ o \in offers[p]
                 \/ ~ok /\ id[p] = m.from /\ m.kind = "offer" /\ o.to = m.to
           /\ \A p \in Pages : id[p] = 0 => offers'[p] = offers[p]
<1> DEFINE sender == {p \in Pages : id[p] = m.from}
           run == [to |-> m.to, n |-> m.n, state |-> "posting"]
           failed == [run EXCEPT !.state = "failed"]
<1>1. /\ offers' = [p \in Pages |-> IF p \in sender /\ m.kind = "offer"
                                    THEN (offers[p] \ {run}) \cup (IF ok THEN {} ELSE {failed})
                                    ELSE offers[p]]
      /\ poll' = [p \in Pages |-> IF p \in sender /\ m.kind = "answer"
                                  THEN "ready" ELSE poll[p]]
  BY DEF Told
<1>2. m \in Signals /\ m.from # 0
  BY DEF Basics, SignalsFit, Signals, Ids
<1>3. failed \in Offers /\ failed.to = m.to
  BY <1>2 DEF Signals, Offers
<1>4. offers \in [Pages -> SUBSET Offers] /\ poll \in [Pages -> {"off", "ready", "answering"}]
  BY DEF Basics, PagesFit
<1> HIDE DEF failed, run
<1>5. offers' \in [Pages -> SUBSET Offers]
  BY <1>1, <1>3, <1>4
<1>6. poll' \in [Pages -> {"off", "ready", "answering"}]
  BY <1>1, <1>4
<1>7. ASSUME NEW p \in Pages, NEW o \in offers'[p]
      PROVE  \/ o \in offers[p]
             \/ ~ok /\ id[p] = m.from /\ m.kind = "offer" /\ o.to = m.to
  BY <1>1, <1>3
<1>8. \A p \in Pages : id[p] = 0 => offers'[p] = offers[p]
  BY <1>1, <1>2
<1> QED
  BY <1>5, <1>6, <1>7, <1>8

(* The ways of a posted signal: it is taken or not, and its page hears of  *)
(* it or of a failure.  A failure troubles the pair unless it has left.    *)
LEMMA DeliveryKeeps ==
    ASSUME RoomInv, NEW m \in net, NEW ok \in BOOLEAN, Told(m, ok),
           net' = net \ {m},
           \/ queue' = queue
           \/ /\ m.to \in Room /\ Len(queue[m.to]) < MaxPending
              /\ queue' = [queue EXCEPT ![m.to] = Append(@, m)],
           UNCHANGED <<created, id, conn, lists, tries>>,
           faults' = faults \/ (faults < MaxFaults /\ faults' = faults + 1),
           ok \/ Missing(m) \/ {m.from, m.to} \in troubled'
    PROVE  Basics' /\ PairsKept
<1>1. Basics /\ created \in Nat
  BY RoomBoundsAssumption DEF RoomInv, Basics, PagesFit
<1>2. /\ offers' \in [Pages -> SUBSET Offers]
      /\ poll' \in [Pages -> {"off", "ready", "answering"}]
      /\ \A p \in Pages : \A o \in offers'[p] :
            \/ o \in offers[p]
            \/ ~ok /\ id[p] = m.from /\ m.kind = "offer" /\ o.to = m.to
      /\ \A p \in Pages : id[p] = 0 => offers'[p] = offers[p]
  BY <1>1, ToldIs
<1>3. /\ Room' = Room /\ SignalsFit'
      /\ \A x : Travelling(x)' => Travelling(x)
  <2>1. CASE queue' = queue
    BY <2>1, <1>1, SignalsRest DEF Basics, Room
  <2>2. CASE /\ m.to \in Room /\ Len(queue[m.to]) < MaxPending
             /\ queue' = [queue EXCEPT ![m.to] = Append(@, m)]
    <3>1. SignalsFit /\ net' \subseteq Signals /\ created' = created
      BY <1>1 DEF Basics, SignalsFit
    <3>2. /\ Room' = Room
          /\ \A i \in Room : /\ queue'[i] \in Seq(Signals)
                              /\ Len(queue'[i]) <= MaxPending
                              /\ \A k \in 1..Len(queue'[i]) :
                                    \/ \E j \in 1..Len(queue[i]) : queue'[i][k] = queue[i][j]
                                    \/ queue'[i][k] = m /\ m.to = i
      BY <2>2, <3>1, AppendIs
    <3>3. ASSUME NEW i \in Room'
          PROVE  /\ queue'[i] \in Seq(Signals)
                 /\ Len(queue'[i]) <= MaxPending
                 /\ \A k \in 1..Len(queue'[i]) :
                       \/ i \in Room /\ \E j \in 1..Len(queue[i]) : queue'[i][k] = queue[i][j]
                       \/ queue'[i][k] \in net /\ queue'[i][k].to = i
      <4>1. i \in Room
        BY <3>2
      <4>2. ASSUME NEW k \in 1..Len(queue'[i]), queue'[i][k] = m, m.to = i
            PROVE  queue'[i][k] \in net /\ queue'[i][k].to = i
        BY <4>2
      <4> QED
        BY <3>2, <4>1, <4>2
    <3>4. Room' \subseteq 1..created' /\ \A x \in net' : x \in net \/ Proper(x)
      BY <3>1, <3>2 DEF SignalsFit
    <3>5. SignalsFit' /\ \A x : Travelling(x)' => Travelling(x) \/ x \in net' \ net
      BY <1>1, <3>1, <3>3, <3>4, SignalsStay
    <3> QED
      BY <3>2, <3>5
  <2> QED
    BY <2>1, <2>2
<1>4. Proper(m) /\ m \in Signals
  BY <1>1 DEF Basics, SignalsFit, Travelling
<1>5. PagesFit'
  BY <1>1, <1>2, RoomBoundsAssumption DEF Basics, PagesFit
<1>6. IdsFit'
  BY <1>1, <1>2, IdsStay DEF Basics
<1>7. ConnsFit' /\ ListsFit'
  BY <1>1, <1>3, ConnsStay, ListsStay DEF Basics
<1>8. OffersFit'
  BY <1>1, <1>2, <1>4, OffersStay DEF Basics, Proper
<1>9. ASSUME NEW p \in Pages, NEW q \in Pages, StillThere(p, q)
      PROVE  PairFits(p, q)' /\ StaysStable(p, q)
  <2>1. /\ PairFits(p, q) /\ {id[p], id[q]} \notin troubled'
        /\ id[p] \in Room /\ id[q] \in Room
    BY <1>9 DEF StillThere, RoomInv, Undisturbed, Present
  <2>2. \A o \in offers'[p] : o.to = id[q] => o \in offers[p]
    <3> SUFFICES ASSUME NEW o \in offers'[p], o.to = id[q], o \notin offers[p]
                 PROVE  FALSE
      OBVIOUS
    <3>1. ~ok /\ m.from = id[p] /\ m.to = id[q]
      BY <1>2
    <3> QED
      BY <3>1, <2>1 DEF Missing
  <2> QED
    BY <1>3, <1>9, <2>1, <2>2, PairStays DEF SamePc, StillThere
<1> QED
  BY <1>3, <1>5, <1>6, <1>7, <1>8, <1>9 DEF Basics, PairsKept

LEMMA RelayKeeps ==
    ASSUME RoomInv, NEW m \in net, Relay(m)
    PROVE  Basics' /\ PairsKept
<1>1. /\ Told(m, ~Missing(m) /\ ~Full(m)) /\ net' = net \ {m}
      /\ queue' = IF Missing(m) \/ Full(m) THEN queue
                  ELSE [queue EXCEPT ![m.to] = Append(@, m)]
      /\ troubled' = troubled \cup (IF Full(m) THEN {{m.from, m.to}} ELSE {})
      /\ UNCHANGED <<created, id, conn, lists, tries, faults>>
  BY DEF Relay, Trouble
<1>2. CASE Missing(m) \/ Full(m)
  BY <1>1, <1>2, DeliveryKeeps
<1>3. CASE ~(Missing(m) \/ Full(m))
  <2>1. m.to \in Room /\ Len(queue[m.to]) < MaxPending
    BY <1>3, RoomBoundsAssumption DEF Missing, Full, RoomInv, Basics, SignalsFit
  <2> QED
    BY <1>1, <1>3, <2>1, DeliveryKeeps
<1> QED
  BY <1>2, <1>3

LEMMA LoseRequestKeeps ==
    ASSUME RoomInv, NEW m \in net, LoseRequest(m)
    PROVE  Basics' /\ PairsKept
  BY DeliveryKeeps DEF LoseRequest, Fault, Trouble, serverVars

LEMMA LoseAnswerKeeps ==
    ASSUME RoomInv, NEW m \in net, LoseAnswer(m)
    PROVE  Basics' /\ PairsKept
<1>1. m.to \in Room /\ Len(queue[m.to]) < MaxPending
  BY RoomBoundsAssumption DEF LoseAnswer, Missing, Full, RoomInv, Basics, SignalsFit
<1> QED
  BY <1>1, DeliveryKeeps DEF LoseAnswer, Fault, Trouble

(* A signal leaves its queue, and the handler posts what the pair may post.*)
LEMMA PopKeepsSignals ==
    ASSUME Basics, NEW p0 \in Pages, NEW m, Pops(p0, m), NEW posted, net' = net \cup posted,
           \A x \in posted : x \in Signals /\ Proper(x)
    PROVE  /\ SignalsFit' /\ Room' = Room /\ created' = created
           /\ \A x : Travelling(x)' => Travelling(x) \/ x \in posted
<1>1. /\ Room' = Room /\ created' = created
      /\ \A i \in Room : /\ queue'[i] \in Seq(Signals) /\ Len(queue'[i]) <= MaxPending
                         /\ \A k \in 1..Len(queue'[i]) :
                               \E j \in 1..Len(queue[i]) : queue'[i][k] = queue[i][j]
  BY PopsIs DEF Basics
<1>2. SignalsFit /\ net' \subseteq Signals /\ \A x \in net' : x \in net \/ Proper(x)
  BY DEF Basics, SignalsFit
<1>3. created \in Nat /\ Room' \subseteq 1..created'
  BY <1>1, <1>2, RoomBoundsAssumption DEF Basics, PagesFit, SignalsFit
<1>4. SignalsFit' /\ \A x : Travelling(x)' => Travelling(x) \/ x \in net' \ net
  BY <1>1, <1>2, <1>3, SignalsStay
<1> QED
  BY <1>1, <1>4

LEMMA LosePollKeeps ==
    ASSUME RoomInv, NEW p0 \in Pages, LosePoll(p0)
    PROVE  Basics' /\ PairsKept
<1>1. PICK m : /\ Pops(p0, m) /\ faults < MaxFaults /\ faults' = faults + 1
               /\ troubled' = troubled \cup {{m.from, m.to}}
               /\ UNCHANGED <<net, id, conn, offers, lists, poll, tries>>
  BY DEF LosePoll, Fault, Trouble
<1>2. Basics /\ created \in Nat
  BY RoomBoundsAssumption DEF RoomInv, Basics, PagesFit
<1>3. /\ SignalsFit' /\ Room' = Room /\ created' = created
      /\ \A x : Travelling(x)' => Travelling(x)
  <2> DEFINE posted == {}
  <2>1. net' = net \cup posted /\ \A x \in posted : x \in Signals /\ Proper(x)
    BY <1>1
  <2>2. \A x : x \notin posted
    OBVIOUS
  <2> HIDE DEF posted
  <2>3. /\ SignalsFit' /\ Room' = Room /\ created' = created
        /\ \A x : Travelling(x)' => Travelling(x) \/ x \in posted
    BY <1>1, <1>2, <2>1, PopKeepsSignals
  <2> QED
    BY <2>2, <2>3
<1>4. PagesFit'
  <2>1. faults' \in 0..MaxFaults
    BY <1>1, <1>2, RoomBoundsAssumption DEF Basics, PagesFit
  <2> QED
    BY <1>1, <1>2, <1>3, <2>1 DEF Basics, PagesFit
<1>5. IdsFit' /\ ConnsFit' /\ OffersFit' /\ ListsFit'
  BY <1>1, <1>2, <1>3, ListsStay DEF Basics, IdsFit, ConnsFit, OffersFit
<1>6. ASSUME NEW p \in Pages, NEW q \in Pages, StillThere(p, q)
      PROVE  PairFits(p, q)' /\ StaysStable(p, q)
  BY <1>1, <1>3, <1>6, PairStays DEF SamePc, StillThere, RoomInv
<1> QED
  BY <1>3, <1>4, <1>5, <1>6 DEF Basics, PairsKept

(* What a page has for the sender of a signal it took from its queue.      *)
LEMMA PolledFits ==
    ASSUME Basics, NEW p0 \in Pages, NEW m, Pops(p0, m)
    PROVE  /\ m \in Signals /\ Travelling(m) /\ Proper(m) /\ m.to = id[p0]
           /\ id[p0] \in Room /\ id[p0] # 0 /\ m.from \in 1..created /\ m.from # id[p0]
           /\ Pc(p0, m.from) \in Pcs
<1>1. m \in Signals /\ Travelling(m) /\ m.to = id[p0] /\ id[p0] \in Room
  BY PopsIs DEF Basics
<1>2. Proper(m)
  BY <1>1 DEF Basics, SignalsFit
<1>3. id[p0] # 0
  BY <1>1, RoomBoundsAssumption DEF Basics, SignalsFit, PagesFit
<1>4. Pc(p0, m.from) \in Pcs
  BY RoomBoundsAssumption DEF Pc, NewPc, Pcs, Basics, ConnsFit
<1> QED
  BY <1>1, <1>2, <1>3, <1>4 DEF Proper

(* Handling a signal sets one connection, posts to the sender at most, and *)
(* leaves the other pairs alone.                                           *)
LEMMA HandlingKeeps ==
    ASSUME RoomInv, NEW p0 \in Pages, NEW m, Pops(p0, m), NEW posted, net' = net \cup posted,
           \A x \in posted : /\ x \in Signals /\ Proper(x)
                           /\ x.from = m.to /\ x.to = m.from,
           UNCHANGED <<id, offers, lists, tries, faults, troubled>>,
           poll' \in [Pages -> {"off", "ready", "answering"}],
           conn' = conn \/ \E rtc \in Pcs : Set(p0, m.from, rtc)
    PROVE  /\ Basics'
           /\ \A x : Travelling(x)' => Travelling(x) \/ x \in posted
           /\ \A q \in Pages : q # p0 => conn'[q] = conn[q]
           /\ \A p, q \in Pages : StillThere(p, q) /\ ~Between(m, id[p], id[q])
                                     => PairFits(p, q)' /\ StaysStable(p, q)
<1>1. Basics /\ created \in Nat
  BY RoomBoundsAssumption DEF RoomInv, Basics, PagesFit
<1>2. /\ SignalsFit' /\ Room' = Room /\ created' = created
      /\ \A x : Travelling(x)' => Travelling(x) \/ x \in posted
  BY <1>1, PopKeepsSignals
<1>3. /\ Proper(m) /\ m.to = id[p0] /\ id[p0] # 0
      /\ m.from \in 1..created /\ m.from # id[p0]
  BY <1>1, PolledFits
<1>4. /\ conn' = [q \in Pages |-> conn'[q]] /\ \A q \in Pages \ {p0} : conn'[q] = conn[q]
      /\ \A r : r # m.from => SamePc(p0, r)
      /\ m.from \in DOMAIN conn'[p0] =>
            \/ conn'[p0][m.from] \in Pcs
            \/ m.from \in DOMAIN conn[p0] /\ conn'[p0][m.from] = conn[p0][m.from]
  <2>1. CASE conn' = conn
    BY <2>1, <1>1 DEF SamePc, Basics, PagesFit
  <2>2. ASSUME NEW rtc \in Pcs, Set(p0, m.from, rtc)
        PROVE  /\ conn' = [q \in Pages |-> conn'[q]]
               /\ \A q \in Pages \ {p0} : conn'[q] = conn[q]
               /\ \A r : r # m.from => SamePc(p0, r)
               /\ conn'[p0][m.from] \in Pcs
    BY <2>2, <1>1, SetIs DEF SamePc, Basics, PagesFit
  <2> QED
    BY <2>1, <2>2
<1>5. PagesFit'
  BY <1>1, <1>2, <1>4 DEF Basics, PagesFit
<1>6. IdsFit'
  BY <1>1, <1>2, <1>3, <1>4, IdsStay DEF Basics
<1>7. ConnsFit'
  <2>1. ASSUME NEW q \in Pages, NEW r \in DOMAIN conn'[q]
        PROVE  \/ r \in DOMAIN conn[q] /\ conn'[q][r] = conn[q][r]
               \/ r \in 1..created /\ r # id[q] /\ conn'[q][r] \in Pcs
    BY <1>3, <1>4 DEF SamePc
  <2> QED
    BY <1>1, <1>2, <2>1, ConnsStay DEF Basics
<1>8. OffersFit' /\ ListsFit'
  BY <1>1, <1>2, OffersStay, ListsStay DEF Basics
<1>9. ASSUME NEW p \in Pages, NEW q \in Pages, StillThere(p, q), ~Between(m, id[p], id[q])
      PROVE  PairFits(p, q)' /\ StaysStable(p, q)
  <2>1. PairFits(p, q)
    BY <1>9 DEF StillThere, RoomInv
  <2>2. SamePc(p, id[q]) /\ SamePc(q, id[p])
    BY <1>3, <1>4, <1>9 DEF SamePc, Between
  <2>3. \A x \in posted : ~Between(x, id[p], id[q])
    BY <1>9 DEF Between
  <2> QED
    BY <1>2, <2>1, <2>2, <2>3, PairStays
<1> QED
  BY <1>2, <1>4, <1>5, <1>6, <1>7, <1>8, <1>9 DEF Basics

(* A pair whose offer is out moves on.                                     *)
LEMMA PairMoves ==
    ASSUME NEW p \in Pages, NEW q \in Pages, id'[p] = id[p], id'[q] = id[q],
           tries[id[p]][id[q]] = 1, Offered(id[p], id[q], p), conn[p][id[q]].state # "new",
           UNCHANGED <<offers, lists, tries>>,
           id[q] \in DOMAIN conn'[p],
           /\ conn'[p][id[q]].n = 1 /\ conn'[p][id[q]].waiting \subseteq {1}
           /\ conn'[p][id[q]].state # "new",
           conn[p][id[q]].state = "stable" => conn'[p][id[q]].state = "stable",
           conn'[p][id[q]].state = "stable" =>
               /\ conn'[p][id[q]].remote = 1
               /\ id[p] \in DOMAIN conn'[q] /\ conn'[q][id[p]].state = "stable",
           id[p] \in DOMAIN conn'[q] =>
               /\ conn'[q][id[p]].n = 0 /\ conn'[q][id[p]].waiting \subseteq {1}
               /\ conn'[q][id[p]].state = "stable" => conn'[q][id[p]].remote = 1,
           \A x : Travelling(x)' /\ Between(x, id[p], id[q]) =>
               /\ x.n = 1
               /\ x.kind = "answer" => /\ id[p] \in DOMAIN conn'[q]
                                       /\ conn'[q][id[p]].state = "stable"
    PROVE  PairFits(p, q)' /\ StaysStable(p, q)
<1>1. Offered(id[p], id[q], p)'
  BY DEF Offered
<1>2. Replied(id[p], id[q], p, q)'
  BY DEF Replied, Between
<1> QED
  BY <1>1, <1>2 DEF PairFits, StaysStable

(* The pair a polled signal belongs to has made its offer.                 *)
LEMMA PolledPair ==
    ASSUME RoomInv, NEW p0 \in Pages, NEW m, Pops(p0, m), NEW p \in Pages, NEW q \in Pages,
           StillThere(p, q), Between(m, id[p], id[q])
    PROVE  /\ id'[p] = id[p] /\ id'[q] = id[q] /\ p # q
           /\ tries[id[p]][id[q]] = 1 /\ Offered(id[p], id[q], p)
           /\ Replied(id[p], id[q], p, q) /\ id[q] \in DOMAIN conn[p]
           /\ m.n = 1 /\ conn[p][id[q]].state # "new"
           /\ \/ p0 = p /\ m.from = id[q] /\ m.kind # "offer"
              \/ p0 = q /\ m.from = id[p] /\ m.kind # "answer"
<1>1. /\ PairFits(p, q) /\ id'[p] = id[p] /\ id'[q] = id[q] /\ id[p] < id[q]
      /\ id[p] \in Nat /\ id[q] \in Nat
  BY RoomBoundsAssumption DEF StillThere, RoomInv, Basics, PagesFit
<1>2. Travelling(m) /\ Proper(m) /\ m.to = id[p0] /\ id[p0] # 0
  BY PolledFits DEF RoomInv
<1>3. tries[id[p]][id[q]] = 1 /\ Offered(id[p], id[q], p) /\ Replied(id[p], id[q], p, q)
  BY <1>1, <1>2 DEF PairFits, Quiet
<1>4. m.n = 1 /\ conn[p][id[q]].state # "new" /\ id[q] \in DOMAIN conn[p]
  BY <1>2, <1>3 DEF Replied, Offered
<1>5. CASE m.to = id[p] /\ m.from = id[q]
  <2>1. p0 = p
    BY <1>2, <1>5 DEF RoomInv, Basics, IdsFit
  <2>2. m.kind # "offer"
    BY <1>1, <1>2, <1>5 DEF Proper
  <2> QED
    BY <1>1, <1>3, <1>4, <1>5, <2>1, <2>2
<1>6. CASE m.to = id[q] /\ m.from = id[p]
  <2>1. p0 = q
    BY <1>2, <1>6 DEF RoomInv, Basics, IdsFit
  <2>2. m.kind # "answer"
    BY <1>1, <1>2, <1>6 DEF Proper
  <2> QED
    BY <1>1, <1>3, <1>4, <1>6, <2>1, <2>2
<1> QED
  BY <1>5, <1>6 DEF Between

(* A connection that takes a description.                                  *)
Described(rtc, state, n) == [rtc EXCEPT !.state = state, !.remote = n, !.waiting = {}]
LEMMA Describes ==
    ASSUME NEW rtc \in Pcs, NEW state \in {"new", "offered", "stable"}, NEW n \in 1..MaxTries
    PROVE  /\ Described(rtc, state, n) \in Pcs
           /\ Described(rtc, state, n).n = rtc.n
           /\ Described(rtc, state, n).state = state
           /\ Described(rtc, state, n).remote = n
           /\ Described(rtc, state, n).waiting = {}
<1> DEFINE rtc1 == [rtc EXCEPT !.state = state]
           rtc2 == [rtc1 EXCEPT !.remote = n]
           rtc3 == [rtc2 EXCEPT !.waiting = {}]
<1>1. rtc1 \in Pcs
  BY DEF Pcs
<1> HIDE DEF rtc1
<1>2. rtc2 \in Pcs
  <2>1. n \in 0..MaxTries
    BY RoomBoundsAssumption
  <2> QED
    BY <1>1, <2>1 DEF Pcs
<1> HIDE DEF rtc2
<1>3. rtc3 \in Pcs
  BY <1>2 DEF Pcs
<1>4. Described(rtc, state, n) = rtc3
  BY DEF Described, rtc1, rtc2
<1>5. /\ Described(rtc, state, n).n = rtc.n
      /\ Described(rtc, state, n).state = state
      /\ Described(rtc, state, n).remote = n
      /\ Described(rtc, state, n).waiting = {}
  BY DEF Described, Pcs
<1> QED
  BY <1>3, <1>4, <1>5

(* Handling a candidate or an answer: nothing is posted.                   *)
LEMMA TakingKeeps ==
    ASSUME RoomInv, NEW p0 \in Pages, NEW m, Pops(p0, m),
           HandleCandidate(p0, m) \/ HandleAnswer(p0, m),
           UNCHANGED <<id, offers, lists, tries, faults, troubled>>
    PROVE  Basics' /\ PairsKept
<1> DEFINE rtc == Pc(p0, m.from)
           posted == {}
<1>1. /\ m \in Signals /\ Travelling(m) /\ m.to = id[p0] /\ rtc \in Pcs
      /\ net' = net /\ poll' = poll
  BY PolledFits DEF RoomInv, HandleCandidate, HandleAnswer
<1> HIDE DEF rtc
<1>2. PICK rtc1 \in Pcs :
         /\ Set(p0, m.from, rtc1) /\ rtc1.n = rtc.n /\ rtc1.waiting \subseteq rtc.waiting \cup {m.n}
         /\ \/ rtc1.state = rtc.state /\ rtc1.remote = rtc.remote
            \/ /\ m.kind = "answer" /\ rtc.state = "offered"
               /\ rtc1.state = "stable" /\ rtc1.remote = m.n
  <2>1. CASE HandleCandidate(p0, m)
    <3> DEFINE rtc1 == IF rtc.remote # 0 THEN rtc ELSE [rtc EXCEPT !.waiting = @ \cup {m.n}]
    <3>1. Set(p0, m.from, rtc1)
      BY <2>1 DEF HandleCandidate, rtc
    <3>2. /\ rtc1 \in Pcs /\ rtc1.n = rtc.n /\ rtc1.waiting \subseteq rtc.waiting \cup {m.n}
          /\ rtc1.state = rtc.state /\ rtc1.remote = rtc.remote
      BY <1>1 DEF Pcs, Signals
    <3> QED
      BY <3>1, <3>2
  <2>2. CASE HandleAnswer(p0, m)
    <3> DEFINE rtc1 == IF rtc.state = "offered"
                      THEN [rtc EXCEPT !.state = "stable", !.remote = m.n, !.waiting = {}]
                      ELSE rtc
    <3>1. Set(p0, m.from, rtc1) /\ m.kind = "answer"
      BY <2>2 DEF HandleAnswer, rtc
    <3>2. /\ rtc1 \in Pcs /\ rtc1.n = rtc.n /\ rtc1.waiting \subseteq rtc.waiting \cup {m.n}
          /\ \/ rtc1.state = rtc.state /\ rtc1.remote = rtc.remote
             \/ rtc.state = "offered" /\ rtc1.state = "stable" /\ rtc1.remote = m.n
      <4>1. CASE rtc.state = "offered"
        <5>1. m.n \in 1..MaxTries /\ rtc1 = Described(rtc, "stable", m.n)
          BY <4>1, <1>1 DEF Signals, Described
        <5> QED
          BY <5>1, <4>1, <1>1, Describes
      <4>2. CASE rtc.state # "offered"
        BY <4>2, <1>1
      <4> QED
        BY <4>1, <4>2
    <3> QED
      BY <3>1, <3>2
  <2> QED
    BY <2>1, <2>2
<1>3. /\ net' = net \cup posted /\ poll' \in [Pages -> {"off", "ready", "answering"}]
      /\ \A x \in posted : x \in Signals /\ Proper(x) /\ x.from = m.to /\ x.to = m.from
      /\ \A x : x \notin posted
  BY <1>1 DEF RoomInv, Basics, PagesFit
<1> HIDE DEF posted
<1>4. /\ Basics' /\ \A x : Travelling(x)' => Travelling(x) \/ x \in posted
      /\ \A q \in Pages : q # p0 => conn'[q] = conn[q]
      /\ \A p, q \in Pages : StillThere(p, q) /\ ~Between(m, id[p], id[q])
                                => PairFits(p, q)' /\ StaysStable(p, q)
  BY <1>2, <1>3, HandlingKeeps
<1>5. m.from \in DOMAIN conn'[p0] /\ conn'[p0][m.from] = rtc1
  BY <1>2, SetIs DEF RoomInv, Basics, PagesFit
<1>6. ASSUME NEW p \in Pages, NEW q \in Pages, StillThere(p, q), Between(m, id[p], id[q])
      PROVE  PairFits(p, q)' /\ StaysStable(p, q)
  <2> DEFINE a == id[p]
             b == id[q]
  <2>1. /\ id'[p] = a /\ id'[q] = b /\ p # q /\ tries[a][b] = 1 /\ Offered(a, b, p)
        /\ Replied(a, b, p, q) /\ b \in DOMAIN conn[p] /\ m.n = 1 /\ conn[p][b].state # "new"
        /\ \/ p0 = p /\ m.from = b /\ m.kind # "offer"
           \/ p0 = q /\ m.from = a /\ m.kind # "answer"
    BY <1>6, PolledPair
  <2>2. CASE p0 = p /\ m.from = b
    <3>1. rtc = conn[p][b] /\ conn'[p][b] = rtc1 /\ b \in DOMAIN conn'[p] /\ conn'[q] = conn[q]
      BY <2>1, <2>2, <1>4, <1>5 DEF rtc, Pc
    <3>2. rtc.n = 1 /\ rtc.waiting \subseteq {1} /\ rtc.state # "new"
      BY <2>1, <3>1 DEF Offered
    <3>3. rtc1.n = 1 /\ rtc1.waiting \subseteq {1} /\ rtc1.state # "new"
          /\ (rtc.state = "stable" => rtc1.state = "stable")
      BY <3>2, <2>1, <1>2
    <3>4. rtc1.state = "stable" => rtc1.remote = 1 /\ a \in DOMAIN conn'[q] /\ conn'[q][a].state = "stable"
      BY <3>1, <2>1, <2>2, <1>1, <1>2, <1>6 DEF Replied
    <3>5. a \in DOMAIN conn'[q] =>
             /\ conn'[q][a].n = 0 /\ conn'[q][a].waiting \subseteq {1}
             /\ conn'[q][a].state = "stable" => conn'[q][a].remote = 1
      BY <3>1, <2>1 DEF Replied
    <3>6. \A x : Travelling(x)' /\ Between(x, a, b) =>
             /\ x.n = 1
             /\ x.kind = "answer" => a \in DOMAIN conn'[q] /\ conn'[q][a].state = "stable"
      BY <3>1, <2>1, <1>3, <1>4 DEF Replied
    <3> QED
      BY <2>1, <3>1, <3>3, <3>4, <3>5, <3>6, PairMoves
  <2>3. CASE p0 = q /\ m.from = a /\ m.kind # "answer"
    <3>1. conn'[q][a] = rtc1 /\ a \in DOMAIN conn'[q] /\ conn'[p] = conn[p]
      BY <2>1, <2>3, <1>4, <1>5
    <3>2. rtc1.n = 0 /\ rtc1.waiting \subseteq {1} /\ rtc1.state = rtc.state /\ rtc1.remote = rtc.remote
          /\ (rtc.state = "stable" => rtc.remote = 1)
          /\ (a \in DOMAIN conn[q] => rtc.state = conn[q][a].state)
      BY <2>1, <2>3, <1>2 DEF rtc, Pc, NewPc, Replied
    <3>3. conn'[p][b].n = 1 /\ conn'[p][b].waiting \subseteq {1} /\ b \in DOMAIN conn'[p]
      BY <3>1, <2>1 DEF Offered
    <3>4. conn'[p][b].state = "stable" => conn'[p][b].remote = 1 /\ conn'[q][a].state = "stable"
      BY <3>1, <3>2, <2>1 DEF Replied
    <3>5. \A x : Travelling(x)' /\ Between(x, a, b) =>
             /\ x.n = 1
             /\ x.kind = "answer" => conn'[q][a].state = "stable"
      BY <3>1, <3>2, <2>1, <1>3, <1>4 DEF Replied
    <3> QED
      BY <2>1, <3>1, <3>2, <3>3, <3>4, <3>5, PairMoves
  <2> QED
    BY <2>1, <2>2, <2>3
<1> QED
  BY <1>4, <1>6 DEF PairsKept

(* Handling an offer: it is answered, or leaves no trace of the pair's.    *)
LEMMA HandleOfferKeeps ==
    ASSUME RoomInv, NEW p0 \in Pages, NEW m, Pops(p0, m), HandleOffer(p0, m),
           UNCHANGED <<id, offers, lists, tries, faults, troubled>>
    PROVE  Basics' /\ PairsKept
<1> DEFINE rtc == Pc(p0, m.from)
           answered == {Signal(m.to, m.from, kind, m.n) : kind \in {"answer", "candidate"}}
           rtc1 == [rtc EXCEPT !.state = "stable", !.remote = m.n, !.waiting = {}]
           rtc2 == [rtc EXCEPT !.state = "new", !.remote = m.n, !.waiting = {}]
<1>1. /\ m \in Signals /\ Travelling(m) /\ Proper(m) /\ m.to = id[p0] /\ rtc \in Pcs
      /\ m.kind = "offer" /\ poll \in [Pages -> {"off", "ready", "answering"}]
  BY PolledFits DEF RoomInv, HandleOffer, Basics, PagesFit
<1>2. \/ /\ rtc.waiting \subseteq {m.n} /\ Set(p0, m.from, rtc1)
         /\ poll' = [poll EXCEPT ![p0] = "answering"] /\ net' = net \cup answered
      \/ /\ ~(rtc.waiting \subseteq {m.n}) /\ Set(p0, m.from, rtc2)
         /\ UNCHANGED <<net, poll>>
      \/ rtc.remote # 0 /\ UNCHANGED <<conn, net, poll>>
  BY DEF HandleOffer, AnswersOffer
<1>3. \A x \in answered : /\ x \in Signals /\ Proper(x) /\ x.from = m.to /\ x.to = m.from
                          /\ x.n = m.n
  <2>1. /\ m.from \in Ids /\ m.to \in Ids /\ m.n \in 1..MaxTries
        /\ m.from \in 1..created /\ m.to \in 1..created /\ m.from # m.to /\ m.from < m.to
    BY <1>1 DEF Signals, Proper
  <2> QED
    BY <2>1 DEF Signal, Signals, Proper
<1>4. /\ rtc1 \in Pcs /\ rtc1.n = rtc.n /\ rtc1.state = "stable" /\ rtc1.remote = m.n
      /\ rtc1.waiting = {} /\ rtc2 \in Pcs
  <2>1. m.n \in 1..MaxTries
    BY <1>1 DEF Signals
  <2>2. rtc1 = Described(rtc, "stable", m.n) /\ rtc2 = Described(rtc, "new", m.n)
    BY DEF Described
  <2> HIDE DEF rtc1, rtc2
  <2>3. rtc \in Pcs
    BY <1>1
  <2> HIDE DEF rtc
  <2>4. /\ rtc1 \in Pcs /\ rtc1.n = rtc.n /\ rtc1.state = "stable" /\ rtc1.remote = m.n
        /\ rtc1.waiting = {}
    BY <2>1, <2>2, <2>3, Describes
  <2>5. rtc2 \in Pcs
    BY <2>1, <2>2, <2>3, Describes
  <2> QED
    BY <2>4, <2>5
<1>5. PICK posted \in {{}, answered} :
         /\ net' = net \cup posted
         /\ \/ /\ posted = answered /\ Set(p0, m.from, rtc1)
            \/ /\ posted = {} /\ ~(rtc.waiting \subseteq {m.n}) /\ Set(p0, m.from, rtc2)
            \/ posted = {} /\ rtc.remote # 0 /\ conn' = conn
         /\ poll' \in [Pages -> {"off", "ready", "answering"}]
  <2>1. net' = net => net' = net \cup {}
    OBVIOUS
  <2>2. [poll EXCEPT ![p0] = "answering"] \in [Pages -> {"off", "ready", "answering"}]
    BY <1>1
  <2> QED
    BY <1>1, <1>2, <2>1, <2>2
<1>6. \A x \in posted : /\ x \in Signals /\ Proper(x) /\ x.from = m.to /\ x.to = m.from
                      /\ x.n = m.n
  BY <1>3
<1> HIDE DEF rtc, rtc1, rtc2, answered
<1>7. /\ Basics' /\ \A x : Travelling(x)' => Travelling(x) \/ x \in posted
      /\ \A q \in Pages : q # p0 => conn'[q] = conn[q]
      /\ \A p, q \in Pages : StillThere(p, q) /\ ~Between(m, id[p], id[q])
                                => PairFits(p, q)' /\ StaysStable(p, q)
  <2>1. conn' = conn \/ \E x \in Pcs : Set(p0, m.from, x)
    BY <1>4, <1>5
  <2> QED
    BY <2>1, <1>5, <1>6, HandlingKeeps
<1>8. ASSUME NEW p \in Pages, NEW q \in Pages, StillThere(p, q), Between(m, id[p], id[q])
      PROVE  PairFits(p, q)' /\ StaysStable(p, q)
  <2> DEFINE a == id[p]
             b == id[q]
  <2>1. /\ id'[p] = a /\ id'[q] = b /\ p # q /\ tries[a][b] = 1 /\ Offered(a, b, p)
        /\ Replied(a, b, p, q) /\ b \in DOMAIN conn[p] /\ m.n = 1 /\ conn[p][b].state # "new"
        /\ p0 = q /\ m.from = a
    BY <1>1, <1>8, PolledPair
  <2>2. conn'[p] = conn[p]
    BY <2>1, <1>7
  <2>3. /\ conn'[p][b].n = 1 /\ conn'[p][b].waiting \subseteq {1} /\ b \in DOMAIN conn'[p]
        /\ conn'[p][b].state # "new"
        /\ conn[p][b].state = "stable" => conn'[p][b].state = "stable"
    BY <2>1, <2>2 DEF Offered
  <2>4. rtc.n = 0 /\ rtc.waiting \subseteq {1}
    BY <2>1 DEF rtc, Pc, NewPc, Replied
  <2>5. CASE posted = answered /\ Set(p0, m.from, rtc1)
    <3>1. a \in DOMAIN conn'[q] /\ conn'[q][a] = rtc1
      BY <2>1, <2>5, SetIs DEF RoomInv, Basics, PagesFit
    <3>2. rtc1.n = 0 /\ rtc1.waiting \subseteq {1} /\ rtc1.state = "stable" /\ rtc1.remote = 1
      BY <2>1, <2>4, <1>4
    <3>3. conn'[p][b].state = "stable" => conn'[p][b].remote = 1
      BY <2>1, <2>2 DEF Replied
    <3>4. \A x : Travelling(x)' /\ Between(x, a, b) => x.n = 1
      BY <2>1, <1>6, <1>7 DEF Replied
    <3> QED
      BY <2>1, <2>3, <3>1, <3>2, <3>3, <3>4, PairMoves
  <2>6. CASE posted = {} /\ rtc.remote # 0 /\ conn' = conn
    <3>1. /\ conn'[p][b].state = "stable" =>
               conn'[p][b].remote = 1 /\ a \in DOMAIN conn'[q] /\ conn'[q][a].state = "stable"
          /\ a \in DOMAIN conn'[q] =>
               /\ conn'[q][a].n = 0 /\ conn'[q][a].waiting \subseteq {1}
               /\ conn'[q][a].state = "stable" => conn'[q][a].remote = 1
      BY <2>1, <2>6 DEF Replied
    <3>2. \A x : Travelling(x)' /\ Between(x, a, b) =>
             /\ x.n = 1
             /\ x.kind = "answer" => a \in DOMAIN conn'[q] /\ conn'[q][a].state = "stable"
      BY <2>1, <2>6, <1>7 DEF Replied
    <3> QED
      BY <2>1, <2>3, <3>1, <3>2, PairMoves
  <2> QED
    BY <2>1, <2>4, <2>5, <2>6, <1>5
<1> QED
  BY <1>7, <1>8 DEF PairsKept

LEMMA PollSignalKeeps ==
    ASSUME RoomInv, NEW p0 \in Pages, PollSignal(p0)
    PROVE  Basics' /\ PairsKept
  BY TakingKeeps, HandleOfferKeeps DEF PollSignal

LEMMA RoomInitially == RoomInit => RoomInv
<1> SUFFICES ASSUME RoomInit
             PROVE  RoomInv
  OBVIOUS
<1>1. /\ created = 0 /\ queue = <<>> /\ net = {} /\ id = [p \in Pages |-> 0]
      /\ conn = [p \in Pages |-> <<>>] /\ offers = [p \in Pages |-> {}]
      /\ lists = [p \in Pages |-> <<>>] /\ poll = [p \in Pages |-> "off"]
      /\ tries = [i \in Ids |-> [j \in Ids |-> 0]] /\ faults = 0
  BY DEF RoomInit
<1>2. Room = {} /\ \A m : ~Travelling(m)
  BY <1>1 DEF Room, Travelling
<1>3. PagesFit
  BY <1>1, EmptySeq, RoomBoundsAssumption DEF PagesFit
<1>4. IdsFit /\ ConnsFit /\ OffersFit
  BY <1>1 DEF IdsFit, ConnsFit, OffersFit
<1>5. SignalsFit
  BY <1>1, <1>2 DEF SignalsFit
<1>6. ListsFit
  BY <1>1, RoomBoundsAssumption DEF ListsFit
<1>7. \A p, q \in Pages : ~Undisturbed(p, q)
  BY <1>2 DEF Undisturbed, Present
<1> QED
  BY <1>3, <1>4, <1>5, <1>6, <1>7 DEF RoomInv, Basics

(* But for a page that joins, nobody comes to the room, and nobody returns.*)
Stays == /\ Room' \subseteq Room /\ troubled \subseteq troubled'
         /\ \A p \in Pages : id'[p] \in {id[p], 0}

LEMMA StaysKeeps ==
    ASSUME RoomInv, Basics', PairsKept, Stays
    PROVE  RoomInv'
<1>1. ASSUME NEW p \in Pages, NEW q \in Pages, id'[p] < id'[q], Undisturbed(p, q)'
      PROVE  PairFits(p, q)'
  <2>1. 0 \notin Room
    BY RoomBoundsAssumption DEF RoomInv, Basics, SignalsFit, PagesFit
  <2>2. id'[p] = id[p] /\ id'[q] = id[q]
    BY <1>1, <2>1 DEF Stays, Undisturbed, Present
  <2>3. Undisturbed(p, q)
    BY <1>1, <2>2 DEF Stays, Undisturbed, Present
  <2> QED
    BY <1>1, <2>2, <2>3 DEF PairsKept, StillThere
<1> QED
  BY <1>1 DEF RoomInv

LEMMA ActionsStay ==
    ASSUME RoomInv, RoomNext, \A p \in Pages : ~Join(p)
    PROVE  Basics' /\ PairsKept /\ Stays
<1>1. Basics
  BY DEF RoomInv
<1>2. ASSUME NEW p \in Pages, Reload(p)
      PROVE  Basics' /\ PairsKept /\ Stays
  <2>1. /\ queue' = queue /\ troubled' = troubled
        /\ \A q \in Pages : id'[q] \in {id[q], 0}
    BY <1>1, <1>2 DEF Reload, serverVars, Basics, PagesFit
  <2> QED
    BY <1>2, <2>1, ReloadKeeps DEF Stays, Room
<1>3. ASSUME NEW p \in Pages, AskPeers(p)
      PROVE  Basics' /\ PairsKept /\ Stays
  BY <1>3, AskPeersKeeps DEF AskPeers, serverVars, Stays, Room
<1>4. ASSUME NEW p \in Pages, FirstListFails(p)
      PROVE  Basics' /\ PairsKept /\ Stays
  BY <1>4, FirstListFailsKeeps DEF FirstListFails, serverVars, Stays, Room, Fault, Trouble
<1>5. ASSUME NEW p \in Pages, NEW k \in DOMAIN lists[p], TakePeers(p, k)
      PROVE  Basics' /\ PairsKept /\ Stays
  <2>1. queue' = queue /\ id' = id
    BY <1>1, <1>5, TakePeersIs
  <2>2. troubled \subseteq troubled'
    BY <1>5 DEF TakePeers, Fault, Trouble
  <2> QED
    BY <1>5, <2>1, <2>2, TakePeersKeeps DEF Stays, Room
<1>6. ASSUME NEW p \in Pages, NEW o \in offers[p], PostOffer(p, o)
      PROVE  Basics' /\ PairsKept /\ Stays
  <2>1. UNCHANGED <<queue, id, troubled>>
    BY <1>6 DEF PostOffer, serverVars
  <2> QED
    BY <1>6, <2>1, PostOfferKeeps DEF Stays, Room
<1>7. ASSUME NEW p \in Pages, NEW o \in offers[p], OfferFails(p, o)
      PROVE  Basics' /\ PairsKept /\ Stays
  <2>1. UNCHANGED <<queue, id, troubled>>
    BY <1>7 DEF OfferFails, serverVars
  <2> QED
    BY <1>7, <2>1, OfferFailsKeeps DEF Stays, Room
<1>8. ASSUME NEW p \in Pages, PollSignal(p)
      PROVE  Basics' /\ PairsKept /\ Stays
  <2>1. PICK m : Pops(p, m) /\ UNCHANGED <<id, troubled>>
    BY <1>8 DEF PollSignal
  <2>2. Room' = Room
    BY <1>1, <2>1, PopsIs DEF Basics
  <2> QED
    BY <1>8, <2>1, <2>2, PollSignalKeeps DEF Stays
<1>9. ASSUME NEW p \in Pages, LosePoll(p)
      PROVE  Basics' /\ PairsKept /\ Stays
  <2>1. PICK m : Pops(p, m) /\ id' = id /\ troubled \subseteq troubled'
    BY <1>9 DEF LosePoll, Fault, Trouble
  <2>2. Room' = Room
    BY <1>1, <2>1, PopsIs DEF Basics
  <2> QED
    BY <1>9, <2>1, <2>2, LosePollKeeps DEF Stays
<1>10. ASSUME NEW p \in Pages, NEW i \in DOMAIN conn[p], IceFails(p, i)
       PROVE  Basics' /\ PairsKept /\ Stays
  BY <1>10, IceFailsKeeps DEF IceFails, serverVars, Stays, Room
<1>11. ASSUME NEW i \in Ids, Expire(i)
       PROVE  Basics' /\ PairsKept /\ Stays
  <2>1. Room' \subseteq Room
    BY <1>11 DEF Expire, Room, Restrict
  <2>2. id' = id /\ troubled \subseteq troubled'
    BY <1>11 DEF Expire, page, Fault, Trouble
  <2> QED
    BY <1>11, <2>1, <2>2, ExpireKeeps DEF Stays
<1>12. ASSUME NEW m \in net, Relay(m) \/ LoseRequest(m) \/ LoseAnswer(m)
       PROVE  Basics' /\ PairsKept /\ Stays
  <2>1. Room' = Room
    BY <1>12 DEF Relay, LoseRequest, LoseAnswer, serverVars, Room
  <2>2. id' = id /\ troubled \subseteq troubled'
    BY <1>12 DEF Relay, LoseRequest, LoseAnswer, Fault, Trouble
  <2> QED
    BY <1>12, <2>1, <2>2, RelayKeeps, LoseRequestKeeps, LoseAnswerKeeps DEF Stays
<1>13. ASSUME NEW p \in Pages, NEW q \in Pages, LinkBreaks(p, q)
       PROVE  Basics' /\ PairsKept /\ Stays
  BY <1>13, LinkBreaksKeeps DEF LinkBreaks, serverVars, Fault, Trouble, Stays, Room
<1> QED
  BY <1>2, <1>3, <1>4, <1>5, <1>6, <1>7, <1>8, <1>9, <1>10, <1>11, <1>12, <1>13
     DEF RoomNext, Page, PollGone

LEMMA RoomStutters ==
    ASSUME RoomInv, UNCHANGED roomVars
    PROVE  Basics' /\ PairsKept /\ Stays
<1>1. UNCHANGED <<created, queue, net, id, conn, offers, lists, poll, tries, faults, troubled>>
  BY DEF roomVars, serverVars, page
<1>2. SignalsFit' /\ \A m : Travelling(m)' => Travelling(m)
  BY <1>1, SignalsRest DEF RoomInv, Basics
<1>3. Basics'
  BY <1>1, <1>2 DEF RoomInv, Basics, PagesFit, IdsFit, ConnsFit, OffersFit, ListsFit, Room
<1>4. ASSUME NEW p \in Pages, NEW q \in Pages, StillThere(p, q)
      PROVE  PairFits(p, q)' /\ StaysStable(p, q)
  BY <1>1, <1>2, <1>4, PairStays DEF SamePc, StillThere, RoomInv
<1> QED
  BY <1>1, <1>3, <1>4 DEF PairsKept, Stays, Room

(* Every step keeps the invariant, and what a pair has reached that stays. *)
LEMMA RoomStep ==
    ASSUME RoomInv, [RoomNext]_roomVars
    PROVE  /\ RoomInv' /\ PairsKept /\ troubled \subseteq troubled'
           /\ \A p \in Pages : id'[p] = id[p] /\ id'[p] \in Room' => id[p] \in Room
<1>1. ASSUME NEW p0 \in Pages, Join(p0)
      PROVE  /\ troubled' = troubled
             /\ \A p \in Pages : id'[p] = id[p] /\ id'[p] \in Room' => id[p] \in Room
  <2>1. troubled' = troubled /\ Room' = Room \cup {created + 1}
    BY <1>1 DEF Join, Room
  <2>2. \A p \in Pages : id[p] # created + 1
    BY RoomBoundsAssumption DEF RoomInv, Basics, PagesFit
  <2> QED
    BY <2>1, <2>2
<1>2. CASE \E p0 \in Pages : Join(p0)
  BY <1>1, <1>2, JoinKeeps
<1>3. CASE RoomNext /\ \A p \in Pages : ~Join(p)
  BY <1>3, ActionsStay, StaysKeeps DEF Stays
<1>4. CASE UNCHANGED roomVars
  BY <1>4, RoomStutters, StaysKeeps DEF Stays
<1> QED
  BY <1>2, <1>3, <1>4

LEMMA RoomTypes == Basics => RoomTypeOK
<1> SUFFICES ASSUME Basics
             PROVE  RoomTypeOK
  OBVIOUS
<1>1. created \in 0..MaxIds /\ MaxIds \in Nat
  BY RoomBoundsAssumption DEF Basics, PagesFit
<1>2. /\ Room \subseteq 1..created /\ net \subseteq Signals
      /\ \A i \in Room : Len(queue[i]) <= MaxPending /\ Range(queue[i]) \subseteq Signals
  <2>1. ASSUME NEW i \in Room
        PROVE  Len(queue[i]) <= MaxPending /\ Range(queue[i]) \subseteq Signals
    <3>1. queue[i] \in Seq(Signals) /\ Len(queue[i]) <= MaxPending
      BY DEF Basics, SignalsFit
    <3> QED
      BY <3>1 DEF Range
  <2> QED
    BY <2>1 DEF Basics, SignalsFit
<1>3. ASSUME NEW p \in Pages
      PROVE  /\ DOMAIN conn[p] \subseteq Ids \ {id[p]} /\ Range(conn[p]) \subseteq Pcs
             /\ offers[p] \subseteq Offers /\ Len(lists[p]) <= MaxLists
             /\ Range(lists[p]) \subseteq SUBSET Ids
  <2>1. DOMAIN conn[p] \subseteq Ids \ {id[p]}
    BY <1>1 DEF Basics, ConnsFit, Ids
  <2>2. Range(conn[p]) \subseteq Pcs
    BY DEF Basics, ConnsFit, Range
  <2>3. lists[p] \in Seq(SUBSET Ids) /\ offers[p] \subseteq Offers /\ Len(lists[p]) <= MaxLists
    BY DEF Basics, PagesFit, ListsFit
  <2>4. Range(lists[p]) \subseteq SUBSET Ids
    BY <2>3 DEF Range
  <2> QED
    BY <2>1, <2>2, <2>3, <2>4
<1> QED
  BY <1>1, <1>2, <1>3 DEF Basics, PagesFit, RoomTypeOK

LEMMA ConnectedStays ==
    ASSUME PairsKept, RoomInv, NEW p \in Pages, NEW q \in Pages, StillThere(p, q),
           Connected(p, q)
    PROVE  Connected(p, q)'
<1> DEFINE a == id[p]
           b == id[q]
<1>1. /\ b \in DOMAIN conn[p] /\ a \in DOMAIN conn[q]
      /\ Paired(conn[p][b], conn[q][a]) \/ Paired(conn[q][a], conn[p][b])
  BY DEF Connected, Related
<1>2. conn[p][b].state = "stable"
  BY <1>1 DEF Paired
<1>3. /\ b \in DOMAIN conn'[p] /\ conn'[p][b].state = "stable" /\ PairFits(p, q)'
      /\ id'[p] = a /\ id'[q] = b
  BY <1>1, <1>2 DEF PairsKept, StaysStable, StillThere
<1>4. Offered(a, b, p)' /\ Replied(a, b, p, q)'
  BY <1>3 DEF PairFits, Quiet
<1>5. Paired(conn'[p][b], conn'[q][a]) /\ a \in DOMAIN conn'[q]
  BY <1>3, <1>4 DEF Paired, Offered, Replied
<1> QED
  BY <1>3, <1>5 DEF Connected, Related, Paired

(* The room never leaves its bounds, and every pair of pages that met no   *)
(* fault is where PairFits says.                                           *)
THEOREM RoomInvariance == RoomSpec => []RoomInv
<1>1. RoomInv /\ [RoomNext]_roomVars => RoomInv'
  BY RoomStep
<1> QED
  BY <1>1, RoomInitially, PTL DEF RoomSpec

(* What works is kept: two pages of the room that are connected and met no *)
(* fault stay connected, whatever list of peers, late offer, answer or     *)
(* candidate and whatever failing startOffer is handled, until one of them *)
(* leaves (webrtc_page.html, handleSignal and refreshPeers).               *)
THEOREM ConnectionsAreKept == RoomSpec => WorkingKept
<1> DEFINE Kept ==
      /\ RoomTypeOK'
      /\ \A p, q \in Pages : Connected(p, q) /\ Undisturbed(p, q)'
                             => id'[p] # id[p] \/ id'[q] # id[q] \/ Connected(p, q)'
<1>1. RoomInv /\ [RoomNext]_roomVars => Kept
  <2> SUFFICES ASSUME RoomInv, [RoomNext]_roomVars
               PROVE  Kept
    OBVIOUS
  <2>1. /\ RoomInv' /\ PairsKept /\ troubled \subseteq troubled'
        /\ \A p \in Pages : id'[p] = id[p] /\ id'[p] \in Room' => id[p] \in Room
    BY RoomStep
  <2>2. RoomTypeOK'
    <3>1. Basics'
      BY <2>1 DEF RoomInv
    <3> QED
      BY <3>1, RoomTypes, PTL
  <2>3. ASSUME NEW p \in Pages, NEW q \in Pages, Connected(p, q), Undisturbed(p, q)',
               id'[p] = id[p], id'[q] = id[q]
        PROVE  Connected(p, q)'
    <3>1. Undisturbed(p, q)
      BY <2>1, <2>3 DEF Undisturbed, Present
    <3>2. id[p] # id[q] /\ id[p] \in Nat /\ id[q] \in Nat
      BY <2>3, RoomBoundsAssumption
         DEF RoomInv, Basics, ConnsFit, PagesFit, Connected, Related
    <3>3. CASE id[p] < id[q]
      BY <2>1, <2>3, <3>1, <3>3, ConnectedStays DEF StillThere
    <3>4. CASE id[q] < id[p]
      <4>1. StillThere(q, p)
        <5>1. {id[p], id[q]} = {id[q], id[p]} /\ {id'[p], id'[q]} = {id'[q], id'[p]}
          OBVIOUS
        <5> QED
          BY <2>3, <3>1, <3>4, <5>1 DEF StillThere, Undisturbed
      <4>2. Connected(q, p)
        BY <2>3 DEF Connected, Related
      <4>3. Connected(q, p)'
        BY <2>1, <4>1, <4>2, ConnectedStays
      <4> QED
        BY <4>3 DEF Connected, Related
    <3> QED
      BY <3>2, <3>3, <3>4
  <2> QED
    BY <2>2, <2>3
<1>2. RoomSpec => [][Kept]_roomVars
  BY <1>1, RoomInvariance, PTL DEF RoomSpec
<1> QED
  BY <1>2 DEF WorkingKept

-----------------------------------------------------------------------------
(* WebServe.                                                               *)

Completed == {c \in Clients : pc[c] = "completed"}
Answering == {"opening", "sending"}
Inodes == {Absent, Directory} \cup 1..Len(sizes)
Replies == [status : Nat, start : Nat, length : Nat]

Types ==
    /\ content \in [kind : {"Directory", "Download"}, size : 0..MaxSize]
    /\ sizes \in Seq(0..MaxSize)
    /\ Len(sizes) >= 1
    /\ entry \in Inodes
    /\ server \in {"serving", "stopping", "exited"}
    /\ done \in Nat
    /\ edits \in 0..MaxEdits
    /\ cause \in {"none", "interrupt", "refusal", "download"}
    /\ server = "serving" <=> cause = "none"
    /\ DOMAIN pc = Clients
    /\ DOMAIN req = Clients
    /\ full \in [Clients -> BOOLEAN]
    /\ file \in [Clients -> Inodes]
    /\ reply \in [Clients -> Replies]
    /\ sent \in [Clients -> 0..MaxSize]
    /\ disturbed \in [Clients -> BOOLEAN]

(* As long as nobody has edited the file.                                  *)
Untouched ==
    edits = 0 => /\ entry = 1
                 /\ sizes[1] = content.size
                 /\ \A c \in Clients : ~disturbed[c]

(* The listener leaves its loop for a reason; every message comes from one *)
(* completed handler.                                                      *)
Reason == server # "serving" => cause \in {"interrupt", "refusal"} \/ Completed # {}
Counted == done <= Cardinality(Completed)

(* What holds of a handler whatever is served.                             *)
Begun(c) ==
    /\ Active(c) => server # "exited"
    /\ pc[c] \in {"idle", "reading"} => req[c] = NoRequest /\ ~full[c]
    /\ pc[c] \notin {"sending"} \cup Ended => sent[c] = 0
    /\ req[c] # NoRequest => req[c] \in Requests[c]
    /\ pc[c] = "sending" => file[c] # Absent /\ (edits = 0 => file[c] = 1)
    /\ pc[c] = "completed" => full[c]

(* A handler of the listing.  It has the whole of a file to send only if   *)
(* it decided so for a plain GET; its answer is that of web_file_range for *)
(* some size, and for the size of the file unless somebody edited it.      *)
Whence(c) ==
    /\ full[c] => /\ req[c].method = "GET"
                  /\ req[c].path = "name"
                  /\ req[c].range.kind = "none"
    /\ pc[c] = "deciding" => req[c].method = "GET" /\ ~full[c]
    /\ pc[c] \in {"deciding", "looking", "listing"} \cup Answering => req[c] # NoRequest
    /\ pc[c] = "looking" /\ full[c] /\ ~disturbed[c] => entry > 0
    /\ pc[c] = "listing" => req[c].path # "name"
    /\ pc[c] \in Answering => req[c].path = "name"
Announced(c) ==
    /\ pc[c] \in Answering =>
         \E n \in 0..MaxSize : reply[c] = FileRange(req[c].range, n)
    /\ pc[c] = "opening" /\ ~disturbed[c] =>
         entry > 0 /\ reply[c] = FileRange(req[c].range, sizes[entry])
    /\ pc[c] = "sending" /\ ~disturbed[c] =>
         file[c] > 0 /\ reply[c] = FileRange(req[c].range, sizes[file[c]])
    /\ sent[c] <= reply[c].length
Delivered(c) ==
    /\ pc[c] = "completed" /\ ~disturbed[c] => CompleteDownload(c)
    /\ (pc[c] = "handled" /\ edits = 0 /\ req[c] # NoRequest
        /\ req[c].method = "GET" /\ req[c].path = "name" /\ req[c].range.kind # "none")
       => reply[c] = FileRange(req[c].range, sizes[1]) /\ sent[c] = reply[c].length
Lists(c) == Whence(c) /\ Announced(c) /\ Delivered(c)

(* A handler of the single download.                                       *)
SendsWhole(c) ==
    /\ pc[c] \notin {"deciding", "looking", "listing"}
    /\ pc[c] \in Answering \cup {"completed"} =>
         /\ full[c]
         /\ req[c].method = "GET"
         /\ req[c].path = "download"
         /\ reply[c] = Whole(content.size)
    /\ pc[c] = "sending" /\ edits = 0 => sent[c] <= content.size
    /\ pc[c] = "completed" /\ edits = 0 => sent[c] = content.size

Fits(c) ==
    /\ Begun(c)
    /\ content.kind = "Directory" => Lists(c)
    /\ content.kind = "Download" => SendsWhole(c)

IInv == Types /\ Untouched /\ Reason /\ Counted /\ \A c \in Clients : Fits(c)

USE BoundsAssumption, ClientsAssumption, RequestsAssumption

-----------------------------------------------------------------------------
(* What web_file_range answers: the whole file, or a part that lies in it, *)
(* or nothing.                                                             *)
LEMMA FileRangeCases ==
  ASSUME NEW range \in WebRange, NEW size \in Nat
  PROVE  \/ range.kind = "none" /\ FileRange(range, size) = Whole(size)
         \/ /\ range.kind # "none"
            /\ FileRange(range, size) = Unsatisfiable
            /\ Requested(range, size) = {}
         \/ /\ range.kind # "none"
            /\ \E a, b \in Nat : /\ a <= b /\ b < size
                                 /\ FileRange(range, size) = Part(a, b)
                                 /\ Requested(range, size) = a..b
<1>1. CASE range.kind = "none"
  BY <1>1 DEF FileRange
<1>2. CASE range.kind = "invalid"
  BY <1>2 DEF FileRange, Requested
<1>3. CASE range.kind \notin {"none", "invalid"} /\ size = 0
  BY <1>3 DEF FileRange, Requested
<1>4. CASE range.kind = "last" /\ size > 0
  <2>1. range.n \in Nat
    BY <1>4 DEF WebRange
  <2>2. CASE range.n = 0
    BY <1>4, <2>2 DEF FileRange, Requested
  <2>3. CASE range.n > 0
    <3> DEFINE a == Monus(size, range.n)
    <3>1. a \in Nat /\ a <= size - 1
      BY <1>4, <2>1, <2>3 DEF Monus
    <3>2. FileRange(range, size) = Part(a, size - 1)
      BY <1>4, <2>3 DEF FileRange
    <3>3. Requested(range, size) = a..size - 1
      BY <1>4, <2>1, <2>3 DEF Requested, Monus
    <3> QED
      BY <1>4, <3>1, <3>2, <3>3
  <2> QED
    BY <2>1, <2>2, <2>3
<1>5. CASE range.kind = "from" /\ size > 0
  <2>1. range.a \in Nat
    BY <1>5 DEF WebRange
  <2>2. CASE range.a >= size
    BY <1>5, <2>1, <2>2 DEF FileRange, Requested
  <2>3. CASE range.a < size
    <3>1. FileRange(range, size) = Part(range.a, size - 1)
      BY <1>5, <2>1, <2>3 DEF FileRange
    <3>2. Requested(range, size) = range.a..size - 1
      BY <1>5, <2>1 DEF Requested
    <3> QED
      BY <1>5, <2>1, <2>3, <3>1, <3>2
  <2> QED
    BY <2>1, <2>2, <2>3
<1>6. CASE range.kind = "between" /\ size > 0
  <2>1. range.a \in Nat /\ range.b \in Nat
    BY <1>6 DEF WebRange
  <2>2. CASE range.a >= size \/ range.a > range.b
    BY <1>6, <2>1, <2>2 DEF FileRange, Requested
  <2>3. CASE range.a < size /\ range.a <= range.b
    <3> DEFINE b == Least(range.b, size - 1)
    <3>1. b \in Nat /\ range.a <= b /\ b < size
      BY <1>6, <2>1, <2>3 DEF Least
    <3>2. FileRange(range, size) = Part(range.a, b)
      BY <1>6, <2>1, <2>3 DEF FileRange
    <3>3. Requested(range, size) = range.a..b
      BY <1>6, <2>1 DEF Requested, Least
    <3> QED
      BY <1>6, <2>1, <3>1, <3>2, <3>3
  <2> QED
    BY <2>1, <2>2, <2>3
<1>7. range.kind \in {"none", "invalid", "last", "from", "between"}
  BY DEF WebRange
<1> QED
  BY <1>1, <1>2, <1>3, <1>4, <1>5, <1>6, <1>7

(* Its numbers: they are numbers, and they lie in the file.                *)
LEMMA FileRangeFits ==
  ASSUME NEW range \in WebRange, NEW size \in Nat,
         NEW f, f = FileRange(range, size)
  PROVE  /\ f \in Replies
         /\ f.start + f.length <= size
         /\ range.kind = "none" => f = Whole(size)
         /\ f.status = 416 => f.length = 0 /\ range.kind # "none"
<1>1. CASE range.kind = "none" /\ FileRange(range, size) = Whole(size)
  BY <1>1 DEF Whole, Replies
<1>2. CASE range.kind # "none" /\ FileRange(range, size) = Unsatisfiable
  BY <1>2 DEF Unsatisfiable, Replies
<1>3. CASE /\ range.kind # "none"
           /\ \E a, b \in Nat : /\ a <= b /\ b < size
                                /\ FileRange(range, size) = Part(a, b)
  <2> PICK a \in Nat, b \in Nat : /\ a <= b /\ b < size
                                  /\ FileRange(range, size) = Part(a, b)
    BY <1>3
  <2> QED
    BY <1>3 DEF Part, Replies
<1> QED
  BY <1>1, <1>2, <1>3, FileRangeCases

(* What is requested is what is announced.                                 *)
LEMMA FileRangeIsRequested ==
  ASSUME NEW range \in WebRange, NEW size \in Nat, range.kind # "none",
         NEW f, f = FileRange(range, size)
  PROVE  LET wanted == Requested(range, size)
         IN  /\ f.status = (IF wanted = {} THEN 416 ELSE 206)
             /\ wanted = f.start..f.start + f.length - 1
<1>1. CASE f = Unsatisfiable /\ Requested(range, size) = {}
  BY <1>1 DEF Unsatisfiable
<1>2. CASE \E a, b \in Nat : /\ a <= b /\ b < size /\ f = Part(a, b)
                             /\ Requested(range, size) = a..b
  <2> PICK a \in Nat, b \in Nat : /\ a <= b /\ b < size /\ f = Part(a, b)
                                  /\ Requested(range, size) = a..b
    BY <1>2
  <2>1. a \in Requested(range, size)
    OBVIOUS
  <2>2. f.start = a /\ f.length = b - a + 1 /\ f.status = 206
    BY DEF Part
  <2>3. f.start + f.length - 1 = b
    BY <2>2
  <2> QED
    BY <2>1, <2>2, <2>3
<1> QED
  BY <1>1, <1>2, FileRangeCases

-----------------------------------------------------------------------------
LEMMA Initially == Init => IInv
<1> SUFFICES ASSUME Init PROVE IInv
  OBVIOUS
<1>0. PICK n \in 0..MaxSize : sizes = <<n>>
  BY DEF Init
<1>1. sizes \in Seq(0..MaxSize) /\ Len(sizes) = 1 /\ sizes[1] = n
  BY <1>0
<1>2. Types
  <2>1. content \in [kind : {"Directory", "Download"}, size : 0..MaxSize]
    BY <1>1 DEF Init
  <2>2. NoReply \in Replies /\ Absent \in Inodes /\ entry \in Inodes
    BY <1>1 DEF Init, Inodes, Absent, Directory, Replies, NoReply
  <2>3. /\ DOMAIN pc = Clients /\ DOMAIN req = Clients
        /\ full \in [Clients -> BOOLEAN] /\ file \in [Clients -> Inodes]
        /\ reply \in [Clients -> Replies] /\ sent \in [Clients -> 0..MaxSize]
        /\ disturbed \in [Clients -> BOOLEAN]
    BY <2>2 DEF Init
  <2>4. /\ server \in {"serving", "stopping", "exited"}
        /\ done \in Nat /\ edits \in 0..MaxEdits
        /\ cause \in {"none", "interrupt", "refusal", "download"}
        /\ server = "serving" <=> cause = "none"
    <3>1. cause = "none"
      BY DEF Init
    <3>2. server = "serving" /\ done = 0 /\ edits = 0
      BY DEF Init
    <3> QED
      BY <3>1, <3>2
  <2> QED
    BY <1>1, <2>1, <2>2, <2>3, <2>4 DEF Types
<1>3. Untouched
  BY DEF Init, Untouched
<1>4. Reason
  BY DEF Init, Reason
<1>5. Counted
  <2>1. Completed = {}
    BY DEF Init, Completed
  <2> QED
    BY <2>1, FS_EmptySet DEF Init, Counted
<1>6. ASSUME NEW c \in Clients PROVE Fits(c)
  <2>1. /\ pc[c] = "idle" /\ req[c] = NoRequest /\ ~full[c] /\ sent[c] = 0
        /\ reply[c] = NoReply /\ server = "serving"
    BY DEF Init
  <2>2. Begun(c)
    BY <2>1 DEF Begun, Active, Ended
  <2>3. Lists(c)
    BY <2>1 DEF Lists, Whence, Announced, Delivered, Answering, NoReply
  <2>4. SendsWhole(c)
    BY <2>1 DEF SendsWhole, Answering
  <2> QED
    BY <2>2, <2>3, <2>4 DEF Fits
<1> QED
  BY <1>2, <1>3, <1>4, <1>5, <1>6 DEF IInv

(* A step that leaves a handler and the file alone leaves its facts alone. *)
LEMMA HandlerStays ==
  ASSUME NEW c \in Clients, Fits(c), UNCHANGED <<content, disk>>,
         server' # "exited" \/ UNCHANGED server \/ ~Active(c),
         pc'[c] = pc[c], req'[c] = req[c], full'[c] = full[c], file'[c] = file[c],
         reply'[c] = reply[c], sent'[c] = sent[c], disturbed'[c] = disturbed[c]
  PROVE  Fits(c)'
<1>1. Begun(c)'
  BY DEF Fits, Begun, Active, disk
<1>2. content.kind = "Directory" => Lists(c)'
  <2>1. SUFFICES ASSUME Lists(c) PROVE Lists(c)'
    BY DEF Fits
  <2>2. Whence(c)'
    BY <2>1 DEF Lists, Whence, disk
  <2>3. Announced(c)'
    BY <2>1 DEF Lists, Announced, disk
  <2>4. Delivered(c)'
    BY <2>1 DEF Lists, Delivered, CompleteDownload, disk
  <2> QED
    BY <2>2, <2>3, <2>4 DEF Lists
<1>3. content.kind = "Download" => SendsWhole(c)'
  BY DEF Fits, SendsWhole, disk
<1> QED
  BY <1>1, <1>2, <1>3 DEF Fits

(* The steps of the listener.                                              *)
LEMMA InterruptKeeps ==
  ASSUME IInv, Interrupt PROVE IInv'
<1> USE DEF Interrupt, handler
<1>1. Types'
  BY DEF IInv, Types, Inodes, disk
<1>2. Untouched' /\ Reason' /\ Counted'
  BY DEF IInv, Untouched, Reason, Counted, Completed, disk
<1>3. ASSUME NEW c \in Clients PROVE Fits(c)'
  BY <1>3, HandlerStays DEF IInv
<1> QED
  BY <1>1, <1>2, <1>3 DEF IInv

LEMMA AcceptFailsKeeps ==
  ASSUME IInv, AcceptFails PROVE IInv'
<1> USE DEF AcceptFails, handler
<1>1. Types'
  BY DEF IInv, Types, Inodes, disk
<1>2. Untouched' /\ Reason' /\ Counted'
  BY DEF IInv, Untouched, Reason, Counted, Completed, disk
<1>3. ASSUME NEW c \in Clients PROVE Fits(c)'
  BY <1>3, HandlerStays DEF IInv
<1> QED
  BY <1>1, <1>2, <1>3 DEF IInv

LEMMA DownloadDoneKeeps ==
  ASSUME IInv, DownloadDone PROVE IInv'
<1> USE DEF DownloadDone, handler
<1>1. Types'
  BY DEF IInv, Types, Inodes, disk
<1>2. Untouched'
  BY DEF IInv, Untouched, disk
<1>3. Completed' = Completed /\ IsFiniteSet(Completed) /\ Cardinality(Completed) \in Nat
  BY FS_Subset, FS_CardinalityType DEF Completed
<1>4. done \in Nat /\ done' = done - 1 /\ done > 0
  BY DEF IInv, Types
<1>5. Reason'
  <2>1. Completed # {}
    BY <1>3, <1>4, FS_EmptySet DEF IInv, Counted
  <2> QED
    BY <1>3, <2>1 DEF Reason
<1>6. Counted'
  BY <1>3, <1>4 DEF IInv, Counted
<1>7. ASSUME NEW c \in Clients PROVE Fits(c)'
  BY <1>7, HandlerStays DEF IInv
<1> QED
  BY <1>1, <1>2, <1>5, <1>6, <1>7 DEF IInv

LEMMA ExitKeeps ==
  ASSUME IInv, Exit PROVE IInv'
<1> USE DEF Exit
<1>1. Types'
  BY DEF IInv, Types, Inodes, disk
<1>2. Untouched'
  BY DEF IInv, Untouched, disk
<1>3. Completed' = Completed
  BY DEF Completed, Active, Ended
<1>4. Reason' /\ Counted'
  BY <1>3 DEF IInv, Reason, Counted
<1>5. ASSUME NEW c \in Clients PROVE Fits(c)'
  <2>1. CASE ~Active(c)
    <3>1. pc'[c] = pc[c]
      BY <2>1
    <3> QED
      BY <2>1, <3>1, HandlerStays DEF IInv
  <2>2. CASE Active(c)
    <3>1. pc'[c] = "cut" /\ req'[c] = req[c] /\ full'[c] = full[c]
          /\ reply'[c] = reply[c] /\ sent'[c] = sent[c]
      BY <2>2
    <3>2. Fits(c)
      BY DEF IInv
    <3>3. Begun(c)'
      BY <3>1, <3>2 DEF Fits, Begun, Active, Ended
    <3>4. content.kind = "Directory" => Lists(c)'
      BY <3>1, <3>2 DEF Fits, Lists, Whence, Announced, Delivered, Answering
    <3>5. SendsWhole(c)'
      BY <3>1 DEF SendsWhole, Answering
    <3> QED
      BY <3>3, <3>4, <3>5 DEF Fits
  <2> QED
    BY <2>1, <2>2
<1> QED
  BY <1>1, <1>2, <1>4, <1>5 DEF IInv

-----------------------------------------------------------------------------
(* A step of one handler: the others stay as they are, and it sends its    *)
(* message when it completes.                                              *)
LEMMA HandlerKeeps ==
  ASSUME IInv, NEW c \in Clients,
         UNCHANGED <<content, disk, server, disturbed, cause>>,
         Types', Fits(c)', pc[c] # "completed",
         \/ pc'[c] # "completed" /\ done' = done
         \/ pc'[c] = "completed" /\ done' = done + 1,
         \A k \in Clients \ {c} :
            /\ pc'[k] = pc[k] /\ req'[k] = req[k] /\ full'[k] = full[k]
            /\ file'[k] = file[k] /\ reply'[k] = reply[k] /\ sent'[k] = sent[k]
  PROVE  IInv'
<1>1. Untouched'
  BY DEF IInv, Untouched, disk
<1>2. IsFiniteSet(Completed) /\ Cardinality(Completed) \in Nat
  BY FS_Subset, FS_CardinalityType DEF Completed
<1>3. done \in Nat /\ done <= Cardinality(Completed)
  BY DEF IInv, Types, Counted
<1>4. Counted' /\ Completed \subseteq Completed'
  <2>1. CASE pc'[c] # "completed" /\ done' = done
    <3>1. Completed' = Completed
      BY <2>1 DEF Completed
    <3> QED
      BY <1>3, <2>1, <3>1 DEF Counted
  <2>2. CASE pc'[c] = "completed" /\ done' = done + 1
    <3>1. Completed' = Completed \cup {c} /\ c \notin Completed
      BY <2>2 DEF Completed
    <3>2. Cardinality(Completed') = Cardinality(Completed) + 1
      BY <1>2, <3>1, FS_AddElement
    <3> QED
      BY <1>2, <1>3, <2>2, <3>1, <3>2 DEF Counted
  <2> QED
    BY <2>1, <2>2
<1>5. Reason'
  BY <1>4 DEF IInv, Reason
<1>6. ASSUME NEW k \in Clients PROVE Fits(k)'
  <2>1. CASE k = c
    BY <2>1
  <2>2. CASE k # c
    BY <2>2, HandlerStays DEF IInv
  <2> QED
    BY <2>1, <2>2
<1> QED
  BY <1>1, <1>4, <1>5, <1>6 DEF IInv

-----------------------------------------------------------------------------
(* What an active handler knows of its request.                            *)
LEMMA Asked ==
  ASSUME IInv, NEW c \in Clients, req[c] # NoRequest
  PROVE  req[c].range \in WebRange
BY DEF IInv, Fits, Begun

LEMMA TypesKept ==
  ASSUME Types, NEW c \in Clients, UNCHANGED <<content, disk, server, disturbed, cause>>,
         DOMAIN pc' = Clients, DOMAIN req' = Clients, done' \in Nat,
         full' \in [Clients -> BOOLEAN], file' \in [Clients -> Inodes],
         reply' \in [Clients -> Replies], sent' \in [Clients -> 0..MaxSize]
  PROVE  Types'
BY DEF Types, Inodes, disk

(* A handler that has failed, or that answered without having a file to    *)
(* send, has nothing more to fulfil.                                       *)
LEMMA FailedFits ==
  ASSUME NEW c \in Clients, Fits(c), pc'[c] = "failed", UNCHANGED <<content, disk>>,
         req'[c] = req[c], full'[c] = full[c], sent'[c] = sent[c],
         reply'[c] = reply[c], disturbed'[c] = disturbed[c]
  PROVE  Fits(c)'
<1>1. Begun(c)'
  BY DEF Fits, Begun, Active, Ended
<1>2. content.kind = "Directory" => Lists(c)'
  BY DEF Fits, Lists, Whence, Announced, Delivered, Answering
<1>3. SendsWhole(c)'
  BY DEF SendsWhole, Answering
<1> QED
  BY <1>1, <1>2, <1>3 DEF Fits

LEMMA AcceptKeeps ==
  ASSUME IInv, NEW c \in Clients, Accept(c) PROVE IInv'
<1> USE DEF Accept, listener
<1>0. Types /\ Fits(c)
  BY DEF IInv
<1>1. pc'[c] \in {"reading", "handled"} /\ DOMAIN pc' = Clients
      /\ \A k \in Clients \ {c} : pc'[k] = pc[k]
  BY <1>0 DEF Types
<1>2. Types'
  BY <1>0, <1>1 DEF Types, Inodes, disk
<1>3. Fits(c)'
  <2>1. /\ req'[c] = NoRequest /\ ~full'[c] /\ sent'[c] = 0
        /\ reply'[c] = reply[c] /\ req[c] = NoRequest /\ server' = "serving"
    BY <1>0 DEF Fits, Begun, Ended
  <2>2. Begun(c)'
    BY <1>1, <2>1 DEF Begun, Active, Ended
  <2>3. content.kind = "Directory" => Lists(c)'
    BY <1>0, <1>1, <2>1 DEF Fits, Lists, Whence, Announced, Delivered, Answering
  <2>4. SendsWhole(c)'
    BY <1>1 DEF SendsWhole, Answering
  <2> QED
    BY <2>2, <2>3, <2>4 DEF Fits
<1> QED
  BY <1>1, <1>2, <1>3, HandlerKeeps

LEMMA BrokenKeeps ==
  ASSUME IInv, NEW c \in Clients, Broken(c) PROVE IInv'
<1> USE DEF Broken, listener, Goes
<1>0. Types /\ Fits(c)
  BY DEF IInv
<1>1. pc'[c] = "failed" /\ DOMAIN pc' = Clients /\ pc[c] # "completed"
      /\ \A k \in Clients \ {c} : pc'[k] = pc[k]
  BY <1>0 DEF Types, Active, Ended
<1>2. Types'
  BY <1>0, <1>1 DEF Types, Inodes, disk
<1>3. Fits(c)'
  BY <1>0, <1>1, FailedFits
<1> QED
  BY <1>1, <1>2, <1>3, HandlerKeeps

(* The request is read: a listing decides what it is a request for, and a  *)
(* download announces the size it was given.                               *)
LEMMA RouteKeeps ==
  ASSUME IInv, NEW c \in Clients, Route(c) PROVE IInv'
<1>0. Types /\ Fits(c) /\ server # "exited"
  BY DEF IInv, Route, Fits, Begun, Active, Ended
<1>1. PICK r \in Requests[c] :
        /\ req' = [req EXCEPT ![c] = r]
        /\ \/ /\ content.kind = "Directory"
              /\ \/ r.method = "GET" /\ Goes(c, "deciding")
                 \/ r.method = "HEAD" /\ Goes(c, "looking")
              /\ UNCHANGED <<full, reply>>
           \/ /\ content.kind = "Download" /\ r.method = "GET" /\ r.path = "download"
              /\ Goes(c, "opening")
              /\ full' = [full EXCEPT ![c] = TRUE]
              /\ reply' = [reply EXCEPT ![c] = Whole(content.size)]
           \/ /\ \/ r.method = "POST"
                 \/ content.kind = "Download" /\ (r.method = "HEAD" \/ r.path # "download")
              /\ Goes(c, "handled")
              /\ Answers(c, CASE r.method = "HEAD" -> 405
                              [] r.method = "GET" /\ r.path = "/" -> 200
                              [] OTHER -> 404)
              /\ UNCHANGED full
  BY DEF Route
<1>2. UNCHANGED <<content, disk, listener, file, sent, disturbed>> /\ pc[c] = "reading"
  BY DEF Route
<1>3. req'[c] = r /\ DOMAIN req' = Clients /\ \A k \in Clients \ {c} : req'[k] = req[k]
  BY <1>0, <1>1 DEF Types
<1>4. ~full[c] /\ sent[c] = 0 /\ r # NoRequest
  <2>1. ~full[c] /\ sent[c] = 0
    BY <1>0, <1>2 DEF Fits, Begun, Ended
  <2>2. r.method # "none"
    OBVIOUS
  <2> QED
    BY <2>1, <2>2 DEF NoRequest
<1>5. CASE /\ content.kind = "Directory"
           /\ \/ r.method = "GET" /\ Goes(c, "deciding")
              \/ r.method = "HEAD" /\ Goes(c, "looking")
           /\ UNCHANGED <<full, reply>>
  <2>1. /\ \/ r.method = "GET" /\ pc'[c] = "deciding"
           \/ r.method = "HEAD" /\ pc'[c] = "looking"
        /\ DOMAIN pc' = Clients /\ \A k \in Clients \ {c} : pc'[k] = pc[k]
    BY <1>0, <1>5 DEF Goes, Types
  <2>2. Types'
    BY <1>0, <1>2, <1>3, <1>5, <2>1 DEF Types, Inodes, disk, listener
  <2>3. Begun(c)'
    BY <1>0, <1>1, <1>2, <1>3, <1>4, <1>5, <2>1 DEF Begun, Active, Ended, listener
  <2>4. Lists(c)'
    BY <1>0, <1>2, <1>3, <1>4, <1>5, <2>1
       DEF Fits, Lists, Whence, Announced, Delivered, Answering
  <2>5. Fits(c)'
    BY <1>2, <1>5, <2>3, <2>4 DEF Fits
  <2> QED
    BY <1>2, <1>3, <1>5, <2>1, <2>2, <2>5, HandlerKeeps DEF listener
<1>6. CASE /\ content.kind = "Download" /\ r.method = "GET" /\ r.path = "download"
           /\ Goes(c, "opening")
           /\ full' = [full EXCEPT ![c] = TRUE]
           /\ reply' = [reply EXCEPT ![c] = Whole(content.size)]
  <2>1. /\ pc'[c] = "opening" /\ full'[c] /\ reply'[c] = Whole(content.size)
        /\ DOMAIN pc' = Clients
        /\ \A k \in Clients \ {c} :
             pc'[k] = pc[k] /\ full'[k] = full[k] /\ reply'[k] = reply[k]
    BY <1>0, <1>6 DEF Goes, Types
  <2>2. Whole(content.size) \in Replies
    BY <1>0 DEF Types, Whole, Replies
  <2>3. Types'
    BY <1>0, <1>2, <1>3, <1>6, <2>1, <2>2 DEF Types, Inodes, disk, listener
  <2>4. Begun(c)'
    BY <1>0, <1>1, <1>2, <1>3, <1>4, <2>1 DEF Begun, Active, Ended, listener
  <2>5. SendsWhole(c)'
    BY <1>2, <1>3, <1>6, <2>1 DEF SendsWhole, Answering
  <2>6. Fits(c)'
    BY <1>2, <1>6, <2>4, <2>5 DEF Fits
  <2> QED
    BY <1>2, <1>3, <2>1, <2>3, <2>6, HandlerKeeps DEF listener
<1>7. CASE /\ \/ r.method = "POST"
              \/ content.kind = "Download" /\ (r.method = "HEAD" \/ r.path # "download")
           /\ Goes(c, "handled")
           /\ Answers(c, CASE r.method = "HEAD" -> 405
                           [] r.method = "GET" /\ r.path = "/" -> 200
                           [] OTHER -> 404)
           /\ UNCHANGED full
  <2> DEFINE status == CASE r.method = "HEAD" -> 405
                         [] r.method = "GET" /\ r.path = "/" -> 200
                         [] OTHER -> 404
  <2>0. status \in Nat
    OBVIOUS
  <2>1. reply' = [reply EXCEPT ![c] = [NoReply EXCEPT !.status = status]]
    BY <1>7 DEF Answers
  <2> HIDE DEF status
  <2>2. [NoReply EXCEPT !.status = status] \in Replies
        /\ [NoReply EXCEPT !.status = status].length = 0
    BY <2>0 DEF NoReply, Replies
  <2>3. /\ pc'[c] = "handled" /\ reply'[c] \in Replies /\ reply'[c].length = 0
        /\ DOMAIN pc' = Clients
        /\ \A k \in Clients \ {c} : pc'[k] = pc[k] /\ reply'[k] = reply[k]
    BY <1>0, <1>7, <2>1, <2>2 DEF Goes, Types
  <2>4. Types'
    BY <1>0, <1>2, <1>3, <1>7, <2>1, <2>2, <2>3 DEF Types, Inodes, disk, listener
  <2>5. Begun(c)'
    BY <1>1, <1>2, <1>3, <1>4, <1>7, <2>3 DEF Begun, Active, Ended
  <2>6. content.kind = "Directory" => Lists(c)'
    BY <1>2, <1>3, <1>4, <1>7, <2>3 DEF Lists, Whence, Announced, Delivered, Answering
  <2>7. SendsWhole(c)'
    BY <2>3 DEF SendsWhole, Answering
  <2>8. Fits(c)'
    BY <1>2, <2>5, <2>6, <2>7 DEF Fits
  <2> QED
    BY <1>2, <1>3, <1>7, <2>3, <2>4, <2>8, HandlerKeeps DEF listener
<1> QED
  BY <1>1, <1>5, <1>6, <1>7

LEMMA DecideKeeps ==
  ASSUME IInv, NEW c \in Clients, Decide(c) PROVE IInv'
<1> USE DEF Decide, listener, Goes
<1>0. Types /\ Fits(c)
  BY DEF IInv
<1>1. /\ pc'[c] = "looking" /\ DOMAIN pc' = Clients
      /\ full'[c] = (req[c].range.kind = "none" /\ ~Slash(c) /\ Target(c) > 0)
      /\ \A k \in Clients \ {c} : pc'[k] = pc[k] /\ full'[k] = full[k]
      /\ full' \in [Clients -> BOOLEAN]
  BY <1>0 DEF Types
<1>2. Types'
  BY <1>0, <1>1 DEF Types, Inodes, disk
<1>3. content.kind = "Directory" /\ Lists(c) /\ Begun(c)
  BY <1>0 DEF Fits, SendsWhole, Types
<1>4. req[c].method = "GET" /\ sent[c] = 0 /\ req[c] # NoRequest /\ ~full[c]
  BY <1>3 DEF Lists, Whence, Begun, Ended
<1>5. full'[c] => req[c].path = "name" /\ entry > 0
  BY <1>1 DEF Slash, Target, Absent, Directory
<1>6. Begun(c)'
  BY <1>1, <1>3, <1>4 DEF Begun, Active, Ended
<1>7. Lists(c)'
  BY <1>1, <1>3, <1>4, <1>5 DEF Lists, Whence, Announced, Delivered, Answering, disk
<1>8. Fits(c)'
  BY <1>3, <1>6, <1>7 DEF Fits
<1> QED
  BY <1>1, <1>2, <1>8, HandlerKeeps

(* The answer of a listing that has no file in it.  It deceives the        *)
(* listener only if the file was edited.                                   *)
LEMMA AnswersKeeps ==
  ASSUME IInv, NEW c \in Clients, NEW status \in Nat,
         content.kind = "Directory", pc[c] \in {"looking", "listing", "opening"},
         full[c] => disturbed[c], edits # 0 \/ req[c].path # "name",
         Answers(c, status), Ends(c), file' \in [Clients -> Inodes],
         \A k \in Clients \ {c} : file'[k] = file[k],
         UNCHANGED <<content, disk, server, cause, req, full, sent, disturbed>>
  PROVE  IInv'
<1>0. Types /\ Fits(c) /\ Begun(c) /\ Lists(c)
  BY DEF IInv, Fits
<1>1. sent[c] = 0 /\ sent'[c] = 0
  BY <1>0 DEF Begun, Ended
<1>2. /\ reply' \in [Clients -> Replies] /\ reply'[c].length = 0
      /\ \A k \in Clients \ {c} : reply'[k] = reply[k]
  <2>1. [NoReply EXCEPT !.status = status] \in Replies
        /\ [NoReply EXCEPT !.status = status].length = 0
    BY DEF NoReply, Replies
  <2> QED
    BY <1>0, <2>1 DEF Answers, Types
<1>3. /\ DOMAIN pc' = Clients /\ \A k \in Clients \ {c} : pc'[k] = pc[k]
      /\ \/ full[c] /\ pc'[c] = "completed" /\ done' = done + 1
         \/ ~full[c] /\ pc'[c] = "handled" /\ done' = done
  BY <1>0 DEF Ends, Goes, Types
<1>4. Types'
  <2>1. done' \in Nat
    BY <1>0, <1>3 DEF Types
  <2> QED
    BY <1>0, <1>2, <1>3, <2>1, TypesKept DEF Types
<1>5. Begun(c)'
  BY <1>0, <1>1, <1>3 DEF Begun, Active, Ended
<1>6. Lists(c)'
  BY <1>0, <1>1, <1>2, <1>3 DEF Lists, Whence, Announced, Delivered, Answering, disk
<1>7. Fits(c)'
  <2>1. content'.kind = "Directory"
    OBVIOUS
  <2> QED
    BY <1>5, <1>6, <2>1 DEF Fits
<1>8. pc[c] # "completed"
  OBVIOUS
<1> QED
  BY <1>2, <1>3, <1>4, <1>7, <1>8, HandlerKeeps

LEMMA LookKeeps ==
  ASSUME IInv, NEW c \in Clients, Look(c) PROVE IInv'
<1>0. Types /\ Fits(c) /\ Begun(c) /\ pc[c] = "looking"
  BY DEF IInv, Fits, Look
<1>1. content.kind = "Directory" /\ Lists(c)
  BY <1>0 DEF Fits, SendsWhole, Types
<1>2. UNCHANGED <<content, disk, server, cause, req, full, file, sent, disturbed>>
  BY DEF Look
<1>3. sent[c] = 0 /\ req[c] # NoRequest /\ req[c].range \in WebRange
  BY <1>0, <1>1, Asked DEF Begun, Ended, Lists, Whence
<1>4. /\ full[c] => req[c].path = "name" /\ (~disturbed[c] => entry > 0)
      /\ edits = 0 => entry > 0
  BY <1>0, <1>1 DEF Lists, Whence, IInv, Untouched
<1>5. CASE /\ Target(c) > 0 /\ ~Slash(c)
           /\ reply' = [reply EXCEPT ![c] = FileRange(req[c].range, sizes[Target(c)])]
           /\ Goes(c, "opening")
           /\ UNCHANGED done
  <2>1. Target(c) = entry /\ entry > 0 /\ req[c].path = "name"
    BY <1>5 DEF Target, Slash, Absent, Directory
  <2>2. sizes[entry] \in 0..MaxSize /\ sizes[entry] \in Nat
    BY <1>0, <2>1 DEF Types, Inodes, Absent, Directory
  <2> DEFINE f == FileRange(req[c].range, sizes[entry])
  <2>3. f \in Replies
    BY <1>3, <2>2, FileRangeFits
  <2>4. reply' = [reply EXCEPT ![c] = f]
    BY <1>5, <2>1
  <2>5. f = FileRange(req[c].range, sizes[entry])
    OBVIOUS
  <2> HIDE DEF f
  <2>6. /\ pc'[c] = "opening" /\ reply'[c] = f /\ DOMAIN pc' = Clients
        /\ reply' \in [Clients -> Replies]
        /\ \A k \in Clients \ {c} : pc'[k] = pc[k] /\ reply'[k] = reply[k]
    BY <1>0, <1>5, <2>3, <2>4 DEF Goes, Types
  <2>7. Types'
    BY <1>0, <1>2, <1>5, <2>6, TypesKept DEF Types
  <2>8. Begun(c)'
    BY <1>0, <1>2, <1>3, <2>6 DEF Begun, Active, Ended
  <2>9. Whence(c)'
    BY <1>1, <1>2, <1>3, <2>1, <2>6 DEF Lists, Whence, Answering
  <2>10. Announced(c)'
    <3>1. sent'[c] = 0 /\ f.length \in Nat
      BY <1>2, <1>3, <2>3 DEF Replies
    <3> QED
      BY <1>2, <2>1, <2>2, <2>5, <2>6, <3>1 DEF Announced, Answering, disk
  <2>11. Delivered(c)'
    BY <2>6 DEF Delivered
  <2>12. Fits(c)'
    BY <1>1, <1>2, <2>8, <2>9, <2>10, <2>11 DEF Fits, Lists
  <2> QED
    BY <1>0, <1>2, <1>5, <2>6, <2>7, <2>12, HandlerKeeps
<1>6. CASE /\ Target(c) = Directory /\ req[c].path # "name"
           /\ Goes(c, "listing")
           /\ UNCHANGED <<reply, done>>
  <2>1. pc'[c] = "listing" /\ DOMAIN pc' = Clients /\ \A k \in Clients \ {c} : pc'[k] = pc[k]
    BY <1>0, <1>6 DEF Goes, Types
  <2>2. Types'
    BY <1>0, <1>2, <1>6, <2>1, TypesKept DEF Types
  <2>3. Begun(c)'
    BY <1>0, <1>2, <1>3, <2>1 DEF Begun, Active, Ended
  <2>4. Lists(c)'
    BY <1>1, <1>2, <1>3, <1>6, <2>1
       DEF Lists, Whence, Announced, Delivered, Answering, disk
  <2>5. Fits(c)'
    BY <1>1, <1>2, <2>3, <2>4 DEF Fits
  <2> QED
    BY <1>0, <1>2, <1>6, <2>1, <2>2, <2>5, HandlerKeeps
<1>7. CASE /\ Target(c) = Directory /\ req[c].path = "name"
           /\ Answers(c, 302)
           /\ Ends(c)
  <2>1. entry = Directory
    BY <1>7 DEF Target
  <2>2. (full[c] => disturbed[c]) /\ (edits # 0 \/ req[c].path # "name")
    BY <1>0, <1>4, <2>1 DEF Directory, Types
  <2> QED
    BY <1>0, <1>1, <1>2, <1>7, <2>2, AnswersKeeps DEF Types
<1>8. CASE /\ Target(c) = Absent \/ (Target(c) > 0 /\ Slash(c))
           /\ Answers(c, 404)
           /\ Ends(c)
  <2>1. req[c].path = "name" => entry = Absent
    BY <1>8 DEF Target, Slash
  <2>2. (full[c] => disturbed[c]) /\ (edits # 0 \/ req[c].path # "name")
    BY <1>0, <1>4, <2>1 DEF Absent, Types
  <2> QED
    BY <1>0, <1>1, <1>2, <1>8, <2>2, AnswersKeeps DEF Types
<1> QED
  BY <1>5, <1>6, <1>7, <1>8 DEF Look

LEMMA ListKeeps ==
  ASSUME IInv, NEW c \in Clients, List(c) PROVE IInv'
<1>0. Types /\ Fits(c) /\ pc[c] = "listing"
  BY DEF IInv, List
<1>1. content.kind = "Directory" /\ Lists(c)
  BY <1>0 DEF Fits, SendsWhole, Types
<1>2. req[c].path # "name" /\ ~full[c]
  BY <1>0, <1>1 DEF Lists, Whence
<1>3. PICK status \in {200, 404} : Answers(c, status)
  BY DEF List
<1> QED
  BY <1>0, <1>1, <1>2, <1>3, AnswersKeeps DEF List, Types

LEMMA OpenKeeps ==
  ASSUME IInv, NEW c \in Clients, Open(c) PROVE IInv'
<1>0. Types /\ Fits(c) /\ Begun(c) /\ pc[c] = "opening" /\ sent[c] = 0
  BY DEF IInv, Fits, Open, Begun, Ended
<1>1. UNCHANGED <<content, disk, server, cause, req, full, sent, disturbed>>
  BY DEF Open
<1>2. /\ file' \in [Clients -> Inodes] /\ file'[c] = entry
      /\ \A k \in Clients \ {c} : file'[k] = file[k]
  BY <1>0 DEF Open, Types
<1>3. edits = 0 => entry = 1
  BY DEF IInv, Untouched
<1>4. content.kind = "Directory" =>
        /\ Lists(c) /\ req[c].path = "name"
        /\ req[c] # NoRequest /\ req[c].range \in WebRange
        /\ full[c] => req[c].method = "GET" /\ req[c].range.kind = "none"
  BY <1>0, Asked DEF Fits, Lists, Whence, Answering
<1>5. content.kind = "Download" =>
        full[c] /\ req[c].method = "GET" /\ req[c].path = "download"
        /\ reply[c] = Whole(content.size)
  BY <1>0 DEF Fits, SendsWhole, Answering
<1>6. CASE /\ entry = Absent /\ content.kind = "Directory"
           /\ Answers(c, 404)
           /\ Ends(c)
  <2>1. (full[c] => disturbed[c]) /\ (edits # 0 \/ req[c].path # "name")
    BY <1>0, <1>3, <1>4, <1>6 DEF Lists, Announced, Absent, Types
  <2> QED
    BY <1>0, <1>1, <1>2, <1>6, <2>1, AnswersKeeps
<1>7. CASE /\ entry = Absent /\ content.kind = "Download"
           /\ Goes(c, "failed")
           /\ UNCHANGED <<reply, done>>
  <2>1. pc'[c] = "failed" /\ DOMAIN pc' = Clients /\ \A k \in Clients \ {c} : pc'[k] = pc[k]
    BY <1>0, <1>7 DEF Goes, Types
  <2>2. Types'
    BY <1>0, <1>1, <1>2, <1>7, <2>1, TypesKept DEF Types
  <2>3. Fits(c)'
    BY <1>0, <1>1, <1>7, <2>1, FailedFits
  <2> QED
    BY <1>0, <1>1, <1>2, <1>7, <2>1, <2>2, <2>3, HandlerKeeps
<1>8. CASE /\ entry # Absent
           /\ req[c].method = "HEAD" \/ reply[c].status = 416
           /\ Ends(c)
           /\ UNCHANGED reply
  <2>1. content.kind = "Directory" /\ ~full[c]
    <3>1. content.kind = "Directory"
      BY <1>0, <1>5, <1>8 DEF Whole, Types
    <3>2. PICK n \in 0..MaxSize : reply[c] = FileRange(req[c].range, n)
      BY <1>0, <1>4, <3>1 DEF Lists, Announced, Answering
    <3>3. reply[c].status = 416 => req[c].range.kind # "none"
      BY <1>4, <3>1, <3>2, FileRangeFits
    <3> QED
      BY <1>4, <1>8, <3>1, <3>3
  <2>2. pc'[c] = "handled" /\ DOMAIN pc' = Clients /\ done' = done
        /\ \A k \in Clients \ {c} : pc'[k] = pc[k]
    BY <1>0, <1>8, <2>1 DEF Ends, Goes, Types
  <2>3. Types'
    <3>1. /\ done' \in Nat /\ DOMAIN req' = Clients /\ full' \in [Clients -> BOOLEAN]
          /\ reply' \in [Clients -> Replies] /\ sent' \in [Clients -> 0..MaxSize]
      BY <1>0, <1>1, <1>8, <2>2 DEF Types
    <3> QED
      BY <1>0, <1>1, <1>2, <2>2, <3>1, TypesKept
  <2>4. Begun(c)'
    BY <1>0, <1>1, <2>2 DEF Begun, Active, Ended
  <2>5. req[c].method = "GET" /\ edits = 0 =>
          reply[c] = FileRange(req[c].range, sizes[1]) /\ reply[c].length = 0
    <3>1. SUFFICES ASSUME req[c].method = "GET", edits = 0
                   PROVE  reply[c] = FileRange(req[c].range, sizes[1]) /\ reply[c].length = 0
      OBVIOUS
    <3>2. ~disturbed[c] /\ entry = 1 /\ sizes[1] \in Nat
      BY <3>1 DEF IInv, Untouched, Types
    <3>3. reply[c] = FileRange(req[c].range, sizes[1])
      BY <1>0, <1>4, <2>1, <3>2 DEF Lists, Announced
    <3> QED
      BY <1>4, <1>8, <2>1, <3>1, <3>2, <3>3, FileRangeFits
  <2>6. Lists(c)'
    BY <1>0, <1>1, <1>4, <1>8, <2>1, <2>2, <2>5
       DEF Lists, Whence, Announced, Delivered, Answering, disk
  <2>7. Fits(c)'
    BY <1>1, <2>1, <2>4, <2>6 DEF Fits
  <2> QED
    BY <1>0, <1>1, <1>2, <1>8, <2>2, <2>3, <2>7, HandlerKeeps
<1>9. CASE /\ entry # Absent
           /\ Goes(c, "sending") /\ UNCHANGED done
           /\ UNCHANGED reply
  <2>1. pc'[c] = "sending" /\ DOMAIN pc' = Clients /\ \A k \in Clients \ {c} : pc'[k] = pc[k]
    BY <1>0, <1>9 DEF Goes, Types
  <2>2. Types'
    BY <1>0, <1>1, <1>2, <1>9, <2>1, TypesKept DEF Types
  <2>3. Begun(c)'
    BY <1>0, <1>1, <1>2, <1>3, <1>9, <2>1 DEF Begun, Active, Ended, disk
  <2>4. content.kind = "Directory" => Lists(c)'
    <3>1. SUFFICES ASSUME content.kind = "Directory" PROVE Lists(c)'
      OBVIOUS
    <3>2. Whence(c)'
      BY <1>0, <1>1, <1>4, <2>1, <3>1 DEF Lists, Whence, Answering, disk
    <3>3. Announced(c)'
      BY <1>0, <1>1, <1>2, <1>4, <1>9, <2>1, <3>1 DEF Lists, Announced, Answering, disk
    <3>4. Delivered(c)'
      BY <2>1 DEF Delivered
    <3> QED
      BY <3>2, <3>3, <3>4 DEF Lists
  <2>5. content.kind = "Download" => SendsWhole(c)'
    <3>1. content.size \in Nat
      BY <1>0 DEF Types
    <3> QED
      BY <1>0, <1>1, <1>5, <1>9, <2>1, <3>1 DEF SendsWhole, Answering
  <2>6. Fits(c)'
    BY <1>1, <2>3, <2>4, <2>5 DEF Fits
  <2> QED
    BY <1>0, <1>1, <1>2, <1>9, <2>1, <2>2, <2>6, HandlerKeeps
<1> QED
  BY <1>6, <1>7, <1>8, <1>9 DEF Open

LEMMA SendKeeps ==
  ASSUME IInv, NEW c \in Clients, Send(c) PROVE IInv'
<1>0. Types /\ Fits(c) /\ Begun(c) /\ pc[c] = "sending" /\ MoreToSend(c)
  BY DEF IInv, Fits, Send
<1>1. /\ UNCHANGED <<content, disk, server, cause, req, full, disturbed>>
      /\ UNCHANGED <<done, file, reply>>
  BY DEF Send, listener
<1>2. CASE file[c] = Directory /\ Goes(c, "failed") /\ UNCHANGED sent
  <2>1. pc'[c] = "failed" /\ DOMAIN pc' = Clients /\ \A k \in Clients \ {c} : pc'[k] = pc[k]
    BY <1>0, <1>2 DEF Goes, Types
  <2>2. Types'
    BY <1>0, <1>1, <1>2, <2>1, TypesKept DEF Types
  <2>3. Fits(c)'
    BY <1>0, <1>1, <1>2, <2>1, FailedFits
  <2> QED
    BY <1>0, <1>1, <1>2, <2>1, <2>2, <2>3, HandlerKeeps
<1>3. CASE file[c] # Directory /\ sent' = [sent EXCEPT ![c] = @ + 1] /\ UNCHANGED pc
  <2>1. /\ file[c] \in 1..Len(sizes) /\ sizes[file[c]] \in 0..MaxSize
        /\ reply[c] \in Replies /\ sent[c] \in 0..MaxSize
        /\ content.size \in 0..MaxSize
    <3>1. file[c] \in 1..Len(sizes) /\ sizes \in Seq(0..MaxSize)
      BY <1>0, <1>3 DEF Types, Begun, Inodes
    <3>2. reply[c] \in Replies /\ sent[c] \in 0..MaxSize /\ content.size \in 0..MaxSize
      BY <1>0 DEF Types
    <3> QED
      BY <3>1, <3>2
  <2>2. reply[c].start + sent[c] < sizes[file[c]]
        /\ (content.kind = "Directory" => sent[c] < reply[c].length)
    BY <1>0, <1>3 DEF MoreToSend
  <2>3. sent'[c] = sent[c] + 1 /\ \A k \in Clients \ {c} : sent'[k] = sent[k]
    BY <1>0, <1>3 DEF Types
  <2>4. sent[c] + 1 \in 0..MaxSize
        /\ (content.kind = "Directory" => sent[c] + 1 <= reply[c].length)
    <3> DEFINE start == reply[c].start
               length == reply[c].length
               bytes == sent[c]
               size == sizes[file[c]]
    <3>1. start \in Nat /\ length \in Nat /\ bytes \in Nat /\ size \in 0..MaxSize
      BY <2>1 DEF Replies
    <3>2. start + bytes < size /\ (content.kind = "Directory" => bytes < length)
      BY <2>2
    <3> HIDE DEF start, length, bytes, size
    <3>3. bytes + 1 \in 0..MaxSize /\ (content.kind = "Directory" => bytes + 1 <= length)
      BY <3>1, <3>2
    <3> QED
      BY <3>3 DEF length, bytes
  <2>5. sent' \in [Clients -> 0..MaxSize]
    BY <1>0, <1>3, <2>4 DEF Types
  <2>6. Types'
    BY <1>0, <1>1, <1>3, <2>5, TypesKept DEF Types
  <2>7. Begun(c)'
    BY <1>0, <1>1, <1>3 DEF Begun, Active, disk
  <2>8. content.kind = "Directory" => Lists(c)'
    <3>1. SUFFICES ASSUME content.kind = "Directory", Lists(c) PROVE Lists(c)'
      BY <1>0 DEF Fits
    <3>2. Whence(c)'
      BY <1>1, <1>3, <3>1 DEF Lists, Whence, disk
    <3>3. Announced(c)'
      BY <1>0, <1>1, <1>3, <2>3, <2>4, <3>1 DEF Lists, Announced, disk
    <3>4. Delivered(c)'
      BY <1>0, <1>3 DEF Delivered
    <3> QED
      BY <3>2, <3>3, <3>4 DEF Lists
  <2>9. content.kind = "Download" => SendsWhole(c)'
    <3>1. SUFFICES ASSUME SendsWhole(c) PROVE SendsWhole(c)'
      BY <1>0 DEF Fits
    <3>2. edits = 0 => sent[c] + 1 <= content.size
      <4>1. SUFFICES ASSUME edits = 0 PROVE sent[c] + 1 <= content.size
        OBVIOUS
      <4>2. file[c] = 1 /\ sizes[1] = content.size
        BY <1>0, <4>1 DEF Begun, IInv, Untouched
      <4>3. reply[c].start = 0
        BY <1>0, <3>1 DEF SendsWhole, Answering, Whole
      <4> QED
        BY <2>1, <2>2, <4>2, <4>3
    <3> QED
      BY <1>0, <1>1, <1>3, <2>3, <3>1, <3>2 DEF SendsWhole, disk
  <2>10. Fits(c)'
    BY <1>1, <2>7, <2>8, <2>9 DEF Fits
  <2> QED
    BY <1>0, <1>1, <1>3, <2>3, <2>6, <2>10, HandlerKeeps
<1> QED
  BY <1>2, <1>3 DEF Send

(* The copy ends when it has sent what was announced, or what there is.    *)
LEMMA FinishKeeps ==
  ASSUME IInv, NEW c \in Clients, Finish(c) PROVE IInv'
<1>0. Types /\ Fits(c) /\ Begun(c) /\ pc[c] = "sending" /\ ~MoreToSend(c)
  BY DEF IInv, Fits, Finish
<1>1. UNCHANGED <<content, disk, server, cause, req, full, file, reply, sent, disturbed>>
  BY DEF Finish
<1>2. /\ DOMAIN pc' = Clients /\ \A k \in Clients \ {c} : pc'[k] = pc[k]
      /\ \/ full[c] /\ pc'[c] = "completed" /\ done' = done + 1
         \/ ~full[c] /\ pc'[c] = "handled" /\ done' = done
  BY <1>0 DEF Finish, Ends, Goes, Types
<1>3. Types'
  <2>1. done' \in Nat
    BY <1>0, <1>2 DEF Types
  <2> QED
    BY <1>0, <1>1, <1>2, <2>1, TypesKept DEF Types
<1>4. Begun(c)'
  BY <1>0, <1>1, <1>2 DEF Begun, Active, Ended
<1>5. content.kind = "Directory" => Lists(c)'
  <2>1. SUFFICES ASSUME content.kind = "Directory" PROVE Lists(c)'
    OBVIOUS
  <2>2. Lists(c) /\ req[c].range \in WebRange /\ req[c].path = "name"
    BY <1>0, <2>1, Asked DEF Fits, Lists, Whence, Answering
  <2>3. ~disturbed[c] => /\ reply[c] = FileRange(req[c].range, sizes[file[c]])
                         /\ req[c].range.kind = "none" => reply[c].status = 200
                         /\ sent[c] = reply[c].length
    <3>1. SUFFICES ASSUME ~disturbed[c]
                   PROVE  /\ reply[c] = FileRange(req[c].range, sizes[file[c]])
                          /\ req[c].range.kind = "none" => reply[c].status = 200
                          /\ sent[c] = reply[c].length
      OBVIOUS
    <3>2. /\ file[c] > 0
          /\ reply[c] = FileRange(req[c].range, sizes[file[c]])
          /\ sent[c] <= reply[c].length
      BY <1>0, <2>2, <3>1 DEF Lists, Announced
    <3>3. sizes[file[c]] \in Nat /\ sent[c] \in Nat
      <4>1. file[c] \in 1..Len(sizes) /\ sizes \in Seq(0..MaxSize)
        BY <1>0, <3>2 DEF Types, Inodes, Absent, Directory
      <4>2. sent[c] \in Nat
        BY <1>0 DEF Types
      <4> QED
        BY <4>1, <4>2
    <3>4. /\ reply[c] \in Replies
          /\ reply[c].start + reply[c].length <= sizes[file[c]]
          /\ req[c].range.kind = "none" => reply[c] = Whole(sizes[file[c]])
      BY <2>2, <3>2, <3>3, FileRangeFits
    <3>5. sent[c] >= reply[c].length \/ reply[c].start + sent[c] >= sizes[file[c]]
      BY <1>0, <2>1, <3>3, <3>4 DEF MoreToSend, Replies
    <3>6. sent[c] = reply[c].length
      <4> DEFINE start == reply[c].start
                 length == reply[c].length
                 bytes == sent[c]
                 size == sizes[file[c]]
      <4>1. start \in Nat /\ length \in Nat /\ bytes \in Nat /\ size \in Nat
        BY <3>3, <3>4 DEF Replies
      <4>2. start + length <= size /\ bytes <= length
            /\ (bytes >= length \/ start + bytes >= size)
        BY <3>2, <3>4, <3>5
      <4> HIDE DEF start, length, bytes, size
      <4>3. bytes = length
        BY <4>1, <4>2
      <4> QED
        BY <4>3 DEF bytes, length
    <3> QED
      BY <3>2, <3>4, <3>6 DEF Whole
  <2>4. Whence(c)'
    BY <1>1, <1>2, <2>2 DEF Lists, Whence, Answering
  <2>5. Announced(c)'
    BY <1>1, <1>2, <2>2 DEF Lists, Announced, Answering
  <2>6. pc'[c] = "completed" /\ ~disturbed[c] => CompleteDownload(c)
    BY <1>2, <2>1, <2>2, <2>3 DEF Lists, Whence, CompleteDownload
  <2>7. edits = 0 => reply[c] = FileRange(req[c].range, sizes[1]) /\ sent[c] = reply[c].length
    BY <1>0, <2>3 DEF Begun, IInv, Untouched
  <2>8. Delivered(c)'
    <3>1. CompleteDownload(c)' <=> CompleteDownload(c)
      BY <1>1 DEF CompleteDownload
    <3> QED
      BY <1>1, <2>6, <2>7, <3>1 DEF Delivered, disk
  <2> QED
    BY <2>4, <2>5, <2>8 DEF Lists
<1>6. content.kind = "Download" => SendsWhole(c)'
  <2>1. SUFFICES ASSUME content.kind = "Download", SendsWhole(c) PROVE SendsWhole(c)'
    BY <1>0 DEF Fits
  <2>2. edits = 0 => sent[c] = content.size
    <3>1. SUFFICES ASSUME edits = 0 PROVE sent[c] = content.size
      OBVIOUS
    <3>2. file[c] = 1 /\ sizes[1] = content.size /\ sent[c] <= content.size
      BY <1>0, <2>1, <3>1 DEF Begun, IInv, Untouched, SendsWhole
    <3>3. reply[c].start = 0
      BY <1>0, <2>1 DEF SendsWhole, Answering, Whole
    <3>4. content.size \in Nat /\ sent[c] \in Nat
      BY <1>0 DEF Types
    <3> QED
      BY <1>0, <2>1, <3>2, <3>3, <3>4 DEF MoreToSend
  <2> QED
    BY <1>0, <1>1, <1>2, <2>1, <2>2 DEF SendsWhole, Answering, disk
<1>7. Fits(c)'
  BY <1>1, <1>4, <1>5, <1>6 DEF Fits
<1> QED
  BY <1>0, <1>1, <1>2, <1>3, <1>7, HandlerKeeps

-----------------------------------------------------------------------------
(* An edit disturbs the active handlers, and the others have no file.      *)
LEMMA EditKeeps ==
  ASSUME IInv, Edit PROVE IInv'
<1>0. Types
  BY DEF IInv
<1>1. /\ UNCHANGED <<content, server, done, cause, pc, req, full, file, reply, sent>>
      /\ edits' = edits + 1 /\ edits < MaxEdits
      /\ disturbed' = [c \in Clients |-> disturbed[c] \/ Active(c)]
  BY DEF Edit, listener
<1>2. edits' \in 0..MaxEdits /\ edits' # 0
  BY <1>0, <1>1 DEF Types
<1>3. /\ sizes' \in Seq(0..MaxSize) /\ Len(sizes') >= Len(sizes)
      /\ entry' \in {Absent, Directory} \cup 1..Len(sizes')
  <2>1. CASE entry' \in {Absent, Directory} \ {entry} /\ UNCHANGED sizes
    BY <1>0, <2>1 DEF Types
  <2>2. CASE entry' = Len(sizes) + 1 /\ \E n \in 0..MaxSize : sizes' = Append(sizes, n)
    BY <1>0, <2>2 DEF Types
  <2>3. CASE /\ entry > 0
             /\ \E n \in 0..MaxSize \ {sizes[entry]} : sizes' = [sizes EXCEPT ![entry] = n]
             /\ UNCHANGED entry
    <3>1. entry \in 1..Len(sizes) /\ sizes \in Seq(0..MaxSize)
      BY <1>0, <2>3 DEF Types, Inodes, Absent, Directory
    <3>2. PICK n \in 0..MaxSize : sizes' = [sizes EXCEPT ![entry] = n]
      BY <2>3
    <3>3. sizes' \in Seq(0..MaxSize) /\ Len(sizes') = Len(sizes)
      BY <3>1, <3>2
    <3> QED
      BY <2>3, <3>1, <3>3
  <2> QED
    BY <2>1, <2>2, <2>3 DEF Edit
<1>4. Inodes \subseteq Inodes'
  BY <1>0, <1>3 DEF Types, Inodes
<1>5. Types'
  <2>1. disturbed' \in [Clients -> BOOLEAN]
    BY <1>0, <1>1 DEF Types, Active
  <2>2. file' \in [Clients -> Inodes']
    BY <1>0, <1>1, <1>4 DEF Types
  <2>3. entry' \in Inodes' /\ Len(sizes') >= 1
    BY <1>0, <1>3 DEF Types, Inodes
  <2> QED
    BY <1>0, <1>1, <1>2, <1>3, <2>1, <2>2, <2>3 DEF Types
<1>6. Untouched'
  BY <1>2 DEF Untouched
<1>7. Reason' /\ Counted'
  BY <1>1 DEF IInv, Reason, Counted, Completed
<1>8. ASSUME NEW c \in Clients PROVE Fits(c)'
  <2>0. Fits(c)
    BY DEF IInv
  <2>1. disturbed'[c] = (disturbed[c] \/ Active(c))
    BY <1>1
  <2>2. Begun(c)'
    BY <1>1, <1>2, <2>0 DEF Fits, Begun, Active
  <2>3. ASSUME Lists(c) PROVE Lists(c)'
    <3>1. Whence(c)'
      BY <1>1, <2>1, <2>3 DEF Lists, Whence, Active, Ended
    <3>2. Announced(c)'
      BY <1>1, <2>1, <2>3 DEF Lists, Announced, Answering, Active, Ended
    <3>3. Delivered(c)'
      <4>1. CompleteDownload(c)' <=> CompleteDownload(c)
        BY <1>1 DEF CompleteDownload
      <4> QED
        BY <1>1, <1>2, <2>1, <2>3, <4>1 DEF Lists, Delivered
    <3> QED
      BY <3>1, <3>2, <3>3 DEF Lists
  <2>4. ASSUME SendsWhole(c) PROVE SendsWhole(c)'
    BY <1>1, <1>2, <2>4 DEF SendsWhole
  <2> QED
    BY <1>1, <2>0, <2>2, <2>3, <2>4 DEF Fits
<1> QED
  BY <1>5, <1>6, <1>7, <1>8 DEF IInv

LEMMA StutterKeeps ==
  ASSUME IInv, UNCHANGED vars PROVE IInv'
<1> USE DEF vars, handler
<1>1. Types'
  BY DEF IInv, Types, Inodes, disk
<1>2. Untouched' /\ Reason' /\ Counted'
  BY DEF IInv, Untouched, Reason, Counted, Completed, disk
<1>3. ASSUME NEW c \in Clients PROVE Fits(c)'
  BY <1>3, HandlerStays DEF IInv
<1> QED
  BY <1>1, <1>2, <1>3 DEF IInv

-----------------------------------------------------------------------------
(* The inductive invariant holds in every reachable state.                 *)
THEOREM Invariance == Spec => []IInv
<1>1. IInv /\ [Next]_vars => IInv'
  <2> SUFFICES ASSUME IInv, [Next]_vars PROVE IInv'
    OBVIOUS
  <2>1. ASSUME NEW c \in Clients, Handle(c) PROVE IInv'
    BY <2>1, RouteKeeps, DecideKeeps, LookKeeps, ListKeeps, OpenKeeps, SendKeeps,
       FinishKeeps DEF Handle
  <2>2. ASSUME NEW c \in Clients, Accept(c) PROVE IInv'
    BY <2>2, AcceptKeeps
  <2>3. ASSUME NEW c \in Clients, Broken(c) PROVE IInv'
    BY <2>3, BrokenKeeps
  <2> QED
    BY <2>1, <2>2, <2>3, InterruptKeeps, AcceptFailsKeeps, DownloadDoneKeeps,
       ExitKeeps, EditKeeps, StutterKeeps DEF Next
<1> QED
  BY <1>1, Initially, PTL DEF Spec

(* Unless Ctrl-C or a failed accept (http.rs:150) ends the service, it ends*)
(* with a complete download (http.rs:147, http.rs:604): no other request,  *)
(* and no two requests in whatever order, consume it, for any number of    *)
(* connections and any requests.                                           *)
THEOREM DownloadsConsume == Spec => []OnlyDownloadsConsume
<1>1. IInv => OnlyDownloadsConsume
  <2> SUFFICES ASSUME IInv PROVE OnlyDownloadsConsume
    OBVIOUS
  <2>0. Types
    BY DEF IInv
  <2>1. done \in 0..Cardinality(Clients)
    <3>1. Cardinality(Completed) \in Nat /\ Cardinality(Clients) \in Nat
          /\ Cardinality(Completed) <= Cardinality(Clients)
      BY FS_Subset, FS_CardinalityType DEF Completed
    <3> QED
      BY <2>0, <3>1 DEF IInv, Counted, Types
  <2>2. ASSUME NEW c \in Clients
        PROVE  /\ Active(c) => server # "exited"
               /\ pc[c] = "sending" => file[c] # Absent
               /\ sent[c] \in 0..MaxSize
               /\ reply[c].length \in Nat
    BY <2>0 DEF IInv, Fits, Begun, Types, Replies
  <2>3. TypeOK
    <3>1. /\ sizes # <<>>
          /\ entry \in {Absent, Directory} \cup DOMAIN sizes
      BY <2>0 DEF Types, Inodes
    <3> QED
      BY <2>0, <2>1, <2>2, <3>1 DEF TypeOK, Types
  <2>4. server # "serving" =>
          cause \in {"interrupt", "refusal"} \/ \E c \in Clients : pc[c] = "completed"
    BY DEF IInv, Reason, Completed
  <2>5. ASSUME NEW c \in Clients, pc[c] = "completed"
        PROVE  CompleteDownload(c) \/ Disturbed(c)
    <3>1. CASE content.kind = "Directory"
      BY <2>5, <3>1 DEF IInv, Fits, Lists, Delivered, Disturbed
    <3>2. CASE content.kind = "Download"
      <4>1. SUFFICES ASSUME edits = 0 PROVE CompleteDownload(c)
        BY <2>0, <3>2 DEF Disturbed, Types
      <4>2. SendsWhole(c)
        BY <3>2 DEF IInv, Fits
      <4> QED
        BY <2>5, <3>2, <4>1, <4>2 DEF SendsWhole, CompleteDownload, Whole
    <3> QED
      BY <2>0, <3>1, <3>2 DEF Types
  <2> QED
    BY <2>3, <2>4, <2>5 DEF OnlyDownloadsConsume
<1> QED
  BY <1>1, Invariance, PTL

(* A range request is answered with exactly the bytes it names and the file*)
(* has, and the listing never sends more than the Content-Length it has    *)
(* announced, however the file is edited meanwhile (directory.rs:313, 322).*)
THEOREM RangesAreExact == Spec => []RangeIsExact
<1>1. IInv => RangeIsExact
  <2> SUFFICES ASSUME IInv, NEW c \in Clients, content.kind = "Directory"
               PROVE  /\ sent[c] <= reply[c].length
                      /\ (pc[c] = "handled" /\ edits = 0
                          /\ req[c].method = "GET" /\ req[c].path = "name"
                          /\ req[c].range.kind # "none")
                         => LET wanted == Requested(req[c].range, sizes[1])
                            IN  /\ reply[c].length = sent[c]
                                /\ reply[c].status = (IF wanted = {} THEN 416 ELSE 206)
                                /\ wanted = reply[c].start..reply[c].start + sent[c] - 1
    BY DEF RangeIsExact
  <2>1. Lists(c)
    BY DEF IInv, Fits
  <2>2. sent[c] <= reply[c].length
    BY <2>1 DEF Lists, Announced
  <2>3. ASSUME pc[c] = "handled", edits = 0,
               req[c].method = "GET", req[c].path = "name", req[c].range.kind # "none"
        PROVE  /\ reply[c].length = sent[c]
               /\ reply[c].status = (IF Requested(req[c].range, sizes[1]) = {}
                                     THEN 416 ELSE 206)
               /\ Requested(req[c].range, sizes[1])
                    = reply[c].start..reply[c].start + sent[c] - 1
    <3>1. req[c] # NoRequest
      BY <2>3 DEF NoRequest
    <3>2. reply[c] = FileRange(req[c].range, sizes[1]) /\ sent[c] = reply[c].length
      BY <2>1, <2>3, <3>1 DEF Lists, Delivered
    <3>3. req[c].range \in WebRange /\ sizes[1] \in Nat
      BY <3>1, Asked DEF IInv, Types
    <3> QED
      BY <2>3, <3>2, <3>3, FileRangeIsRequested
  <2> QED
    BY <2>2, <2>3
<1> QED
  BY <1>1, Invariance, PTL
=============================================================================
