---------------------------- MODULE ServingProofs ----------------------------
(***************************************************************************)
(* Proofs about two services that many clients use at once: SendPool, for  *)
(* every set of peers and all limits, and then DavServer, for all clients, *)
(* paths and trees.                                                        *)
(*                                                                         *)
(* IInv is the inductive invariant of SendPool: the run's invariants, the  *)
(* bookkeeping that keeps the collections apart, and what is known of the  *)
(* results of peers that still wait.  DavInv is that of DavServer: the     *)
(* shape of the tree, what a checked request holds, and what an undisturbed*)
(* lock table says of the tree.                                            *)
(***************************************************************************)
EXTENDS SendPool, DavServer, FiniteSetTheorems, SequenceTheorems, TLAPS

(* Where an attempt is: nowhere twice, and numbered once.                  *)
KeptApart ==
    /\ fresh \cap dialled = {}
    /\ fresh \cap handshakes = {}
    /\ dialled \cap handshakes = {}
    /\ \A i \in 1..Len(numbered) : numbered[i] \notin fresh \cup dialled
                                                      \cup handshakes
    /\ \A i, j \in 1..Len(numbered) : numbered[i] = numbered[j] => i = j

(* NoOvertaking, element by element.                                       *)
InOrder ==
    phase # "stopped" =>
        /\ Len(waiting) <= Len(numbered)
        /\ \A i \in 1..Len(waiting) :
             waiting[i] = numbered[Len(numbered) - Len(waiting) + i]
        /\ \A p \in transfers :
             \E i \in 1..(Len(numbered) - Len(waiting)) : numbered[i] = p

(* Who waits or is not admitted has no outcome, and payloads sent are      *)
(* finitely many.                                                          *)
SentPeers == {p \in Peers : result[p] = "Sent"}
Outcomes ==
    /\ IsFiniteSet(SentPeers)
    /\ \A i \in 1..Len(waiting) : result[waiting[i]] = "pending"
    /\ \A p \in fresh \cup dialled : result[p] = "pending"
    /\ \A p \in handshakes : result[p] \in {"pending"} \cup HandshakeResults

IInv == /\ TypeOK
        /\ WithinLimits
        /\ NoIdleSlot
        /\ KeptApart
        /\ InOrder

-----------------------------------------------------------------------------
(* The refill takes nothing when nobody waits or no slot is free.          *)
LEMMA RefillNothing ==
    ASSUME NEW t, IsFiniteSet(t), NEW w \in Seq(Peers),
           Cardinality(t) <= MaxActive,
           w = <<>> \/ Cardinality(t) = MaxActive
    PROVE  /\ t \cup {w[i] : i \in 1..Popped(t, w)} = t
           /\ SubSeq(w, Popped(t, w) + 1, Len(w)) = w
<1>1. Cardinality(t) \in Nat
  BY FS_CardinalityType
<1>2. Len(w) \in Nat /\ (w = <<>> => Len(w) = 0)
  BY LenProperties, EmptySeq
<1>3. Popped(t, w) = 0
  BY <1>1, <1>2, LimitsAssumption DEF Popped
<1>4. SubSeq(w, 1, Len(w)) = w
  BY SubSeqFull
<1> QED
  BY <1>3, <1>4

(* One free slot and somebody waiting: the refill takes the first.         *)
LEMMA RefillOne ==
    ASSUME NEW t, IsFiniteSet(t), NEW w \in Seq(Peers),
           Cardinality(t) = MaxActive - 1, w # <<>>
    PROVE  LET rest == SubSeq(w, Popped(t, w) + 1, Len(w))
           IN  /\ t \cup {w[i] : i \in 1..Popped(t, w)} = t \cup {w[1]}
               /\ rest \in Seq(Peers)
               /\ Len(rest) = Len(w) - 1
               /\ \A i \in 1..Len(rest) : rest[i] = w[i + 1]
<1> DEFINE n == Len(w)
<1>1. n \in Nat /\ n >= 1
  BY EmptySeq, LenProperties
<1>2. Popped(t, w) = 1
  <2>1. Cardinality(t) \in Nat
    BY FS_CardinalityType
  <2>2. MaxActive - Cardinality(t) = 1
    BY <2>1, LimitsAssumption
  <2>3. Popped(t, w) = IF 1 < n THEN 1 ELSE n
    BY <2>2, Zenon DEF Popped
  <2> HIDE DEF n
  <2> QED
    BY <1>1, <2>3
<1>3. {w[i] : i \in 1..1} = {w[1]}
  OBVIOUS
<1>4. \A i \in 2..n : w[i] \in Peers
  BY <1>1, ElementOfSeq
<1> DEFINE r == SubSeq(w, 2, n)
<1>5. /\ r \in Seq(Peers)
      /\ Len(r) = n - 1
      /\ \A i \in 1..Len(r) : r[i] = w[i + 1]
  <2>1. /\ r \in Seq(Peers)
        /\ Len(r) = IF 2 <= n THEN n - 2 + 1 ELSE 0
        /\ \A i \in 1..n - 2 + 1 : r[i] = w[2 + i - 1]
    BY <1>1, <1>4, SubSeqProperties
  <2> HIDE DEF n, r
  <2>2. Len(r) = n - 1 /\ n - 2 + 1 = n - 1
    BY <1>1, <2>1
  <2>3. ASSUME NEW i \in 1..Len(r)
        PROVE  r[i] = w[i + 1]
    <3>1. 2 + i - 1 = i + 1 /\ i \in 1..n - 2 + 1
      BY <2>2
    <3> QED
      BY <2>1, <3>1
  <2> QED
    BY <2>1, <2>2, <2>3
<1> QED
  BY <1>2, <1>3, <1>5

-----------------------------------------------------------------------------
(* What the three loop branches do to the slots and the queue.             *)
LEMMA JoinTransferEffect ==
    ASSUME IInv, NEW p \in Peers, JoinTransfer(p)
    PROVE  /\ IsFiniteSet(transfers \ {p})
           /\ Cardinality(transfers \ {p}) = Cardinality(transfers) - 1
           /\ \/ /\ waiting = <<>>
                 /\ transfers' = transfers \ {p}
                 /\ waiting' = waiting
              \/ /\ waiting # <<>>
                 /\ transfers' = (transfers \ {p}) \cup {waiting[1]}
                 /\ waiting' \in Seq(Peers)
                 /\ Len(waiting') = Len(waiting) - 1
                 /\ \A i \in 1..Len(waiting') : waiting'[i] = waiting[i + 1]
<1>1. /\ p \in transfers
      /\ IsFiniteSet(transfers)
      /\ waiting \in Seq(Peers)
  BY DEF IInv, TypeOK, JoinTransfer, Ended
<1>2. /\ IsFiniteSet(transfers \ {p})
      /\ Cardinality(transfers \ {p}) = Cardinality(transfers) - 1
  BY <1>1, FS_RemoveElement
<1>3. Cardinality(transfers) \in Nat
  BY <1>1, FS_CardinalityType
<1>4. transfers' = (transfers \ {p}) \cup
        {waiting[i] : i \in 1..Popped(transfers \ {p}, waiting)}
  BY DEF JoinTransfer, StartQueued
<1>5. waiting' = SubSeq(waiting, Popped(transfers \ {p}, waiting) + 1,
                        Len(waiting))
  BY DEF JoinTransfer, StartQueued
<1>6. CASE waiting = <<>>
  <2>1. Cardinality(transfers \ {p}) <= MaxActive
    BY <1>2, <1>3, LimitsAssumption DEF IInv, WithinLimits
  <2> QED
    BY <1>1, <1>2, <1>4, <1>5, <1>6, <2>1, RefillNothing
<1>7. CASE waiting # <<>>
  <2>1. Cardinality(transfers \ {p}) = MaxActive - 1
    BY <1>2, <1>7 DEF IInv, NoIdleSlot
  <2> QED
    BY <1>1, <1>2, <1>4, <1>5, <1>7, <2>1, RefillOne
<1> QED
  BY <1>6, <1>7

LEMMA JoinHandshakeEffect ==
    ASSUME IInv, NEW p \in Peers, JoinHandshake(p)
    PROVE  \/ /\ result[p] = "connected"
              /\ numbered' = Append(numbered, p)
              /\ result' = [result EXCEPT ![p] = "pending"]
              /\ \/ /\ Cardinality(transfers) < MaxActive
                    /\ waiting = <<>>
                    /\ transfers' = transfers \cup {p}
                    /\ waiting' = waiting
                 \/ /\ Cardinality(transfers) = MaxActive
                    /\ transfers' = transfers
                    /\ waiting' = Append(waiting, p)
           \/ /\ result[p] = "failed"
              /\ UNCHANGED <<numbered, result, transfers, waiting>>
<1>1. /\ IsFiniteSet(transfers)
      /\ waiting \in Seq(Peers)
      /\ Cardinality(transfers) <= MaxActive
      /\ waiting # <<>> => Cardinality(transfers) = MaxActive
  BY DEF IInv, TypeOK, WithinLimits, NoIdleSlot
<1>2. Cardinality(transfers) \in Nat
  BY <1>1, FS_CardinalityType
<1>3. CASE JoinFailed(p)
  <2>1. waiting = <<>> \/ Cardinality(transfers) = MaxActive
    BY <1>1
  <2> QED
    BY <1>1, <1>3, <2>1, RefillNothing DEF JoinFailed, StartQueued
<1>4. CASE JoinConnected(p) /\ Cardinality(transfers) < MaxActive
  <2>1. waiting = <<>>
    BY <1>1, <1>2, <1>4, LimitsAssumption
  <2>2. /\ IsFiniteSet(transfers \cup {p})
        /\ Cardinality(transfers \cup {p}) =
             IF p \in transfers THEN Cardinality(transfers)
                               ELSE Cardinality(transfers) + 1
    BY <1>1, FS_AddElement
  <2>3. /\ Cardinality(transfers \cup {p}) \in Nat
        /\ Cardinality(transfers \cup {p}) <= MaxActive
    BY <1>2, <1>4, <2>2, FS_CardinalityType, LimitsAssumption
  <2>4. StartQueued(transfers \cup {p}, waiting)
    BY <1>4 DEF JoinConnected
  <2>5. transfers' = transfers \cup {p} /\ waiting' = waiting
    BY <1>1, <2>1, <2>2, <2>3, <2>4, RefillNothing DEF StartQueued
  <2> QED
    BY <1>4, <2>1, <2>5 DEF JoinConnected
<1>5. CASE JoinConnected(p) /\ ~(Cardinality(transfers) < MaxActive)
  <2>1. Cardinality(transfers) = MaxActive
    BY <1>1, <1>2, <1>5, LimitsAssumption
  <2>2. Append(waiting, p) \in Seq(Peers)
    BY <1>1, AppendProperties
  <2>3. StartQueued(transfers, Append(waiting, p))
    BY <1>5 DEF JoinConnected
  <2>4. transfers' = transfers /\ waiting' = Append(waiting, p)
    BY <1>1, <2>1, <2>2, <2>3, RefillNothing DEF StartQueued
  <2> QED
    BY <1>5, <2>1, <2>4 DEF JoinConnected
<1> QED
  BY <1>3, <1>4, <1>5 DEF JoinHandshake

LEMMA AcceptEffect ==
    ASSUME IInv, NEW p \in Peers, Accept(p)
    PROVE  UNCHANGED <<transfers, waiting>>
<1>1. /\ IsFiniteSet(transfers)
      /\ waiting \in Seq(Peers)
      /\ Cardinality(transfers) <= MaxActive
      /\ waiting = <<>> \/ Cardinality(transfers) = MaxActive
  BY DEF IInv, TypeOK, WithinLimits, NoIdleSlot
<1> QED
  BY <1>1, RefillNothing DEF Accept, StartQueued

-----------------------------------------------------------------------------
LEMMA InitInv == Init => IInv
<1> SUFFICES ASSUME Init PROVE IInv
  OBVIOUS
<1>1. TypeOK
  BY FS_EmptySet DEF Init, TypeOK
<1>2. Cardinality({}) = 0 /\ Len(<<>>) = 0
  BY FS_EmptySet
<1>3. WithinLimits /\ NoIdleSlot
  BY <1>2, LimitsAssumption DEF Init, WithinLimits, NoIdleSlot
<1>4. KeptApart /\ InOrder
  BY <1>2 DEF Init, KeptApart, InOrder
<1> QED
  BY <1>1, <1>3, <1>4 DEF IInv

(* The steps of the tasks and of the receivers leave the loop's            *)
(* collections alone.                                                      *)
LEMMA DialInv == ASSUME IInv, NEW p \in Peers, Dial(p) PROVE IInv'
<1>1. TypeOK'
  BY DEF IInv, TypeOK, Dial
<1>2. WithinLimits' /\ NoIdleSlot' /\ InOrder'
  BY DEF IInv, WithinLimits, NoIdleSlot, InOrder, Dial
<1>3. KeptApart'
  BY DEF IInv, KeptApart, Dial
<1> QED
  BY <1>1, <1>2, <1>3 DEF IInv

LEMMA TaskInv ==
    ASSUME IInv, NEW p \in Peers,
           \/ \E r \in HandshakeResults : HandshakeEnds(p, r)
           \/ \E r \in TransferResults : TransferEnds(p, r)
    PROVE  IInv'
<1>1. PICK r \in HandshakeResults \cup TransferResults :
        /\ result' = [result EXCEPT ![p] = r]
        /\ UNCHANGED <<fresh, dialled, handshakes, transfers, waiting,
                       numbered, accepted, phase>>
  BY DEF HandshakeEnds, TransferEnds
<1>2. TypeOK'
  BY <1>1 DEF IInv, TypeOK
<1>3. WithinLimits' /\ NoIdleSlot' /\ InOrder' /\ KeptApart'
  BY <1>1 DEF IInv, WithinLimits, NoIdleSlot, InOrder, KeptApart
<1> QED
  BY <1>2, <1>3 DEF IInv

LEMMA ExitInv == ASSUME IInv, Interrupt \/ Stop PROVE IInv'
<1>1. CASE Interrupt
  BY <1>1 DEF IInv, TypeOK, WithinLimits, NoIdleSlot, KeptApart, InOrder,
              Interrupt
<1>2. CASE Stop
  <2>1. IsFiniteSet({}) /\ Cardinality({}) = 0 /\ Len(<<>>) = 0
    BY FS_EmptySet
  <2>2. TypeOK'
    BY <1>2, <2>1 DEF IInv, TypeOK, Stop
  <2>3. WithinLimits' /\ NoIdleSlot'
    BY <1>2, <2>1, LimitsAssumption DEF WithinLimits, NoIdleSlot, Stop
  <2>4. KeptApart' /\ InOrder'
    BY <1>2 DEF IInv, KeptApart, InOrder, Stop
  <2> QED
    BY <2>2, <2>3, <2>4 DEF IInv
<1> QED
  BY <1>1, <1>2

LEMMA AcceptInv == ASSUME IInv, NEW p \in Peers, Accept(p) PROVE IInv'
<1>1. UNCHANGED <<transfers, waiting, result, numbered, accepted, phase, fresh>>
  BY AcceptEffect DEF Accept
<1>2. /\ IsFiniteSet(handshakes) /\ IsFiniteSet(transfers)
      /\ Cardinality(handshakes) \in Nat
      /\ Cardinality(transfers) \in Nat
      /\ Len(waiting) \in Nat
  BY FS_CardinalityType, LenProperties DEF IInv, TypeOK
<1>3. CASE handshakes' = handshakes
  BY <1>1, <1>3 DEF IInv, TypeOK, WithinLimits, NoIdleSlot, KeptApart, InOrder,
                    Accept
<1>4. CASE /\ handshakes' = handshakes \cup {p}
           /\ HasCapacity(Cardinality(transfers), Len(waiting),
                          Cardinality(handshakes))
  <2>1. p \in dialled /\ p \notin handshakes /\ dialled' = dialled \ {p}
    BY DEF Accept, IInv, KeptApart
  <2>2. /\ IsFiniteSet(handshakes')
        /\ Cardinality(handshakes') = Cardinality(handshakes) + 1
    BY <1>2, <1>4, <2>1, FS_AddElement
  <2>3. TypeOK'
    BY <1>1, <1>4, <2>1, <2>2 DEF IInv, TypeOK
  <2>4. WithinLimits'
    BY <1>1, <1>2, <1>4, <2>2, LimitsAssumption
       DEF IInv, WithinLimits, HasCapacity
  <2>5. NoIdleSlot'
    BY <1>1, <1>2, <2>2, <2>4, LimitsAssumption
       DEF IInv, NoIdleSlot, WithinLimits
  <2>6. KeptApart' /\ InOrder'
    BY <1>1, <1>4, <2>1 DEF IInv, KeptApart, InOrder
  <2> QED
    BY <2>3, <2>4, <2>5, <2>6 DEF IInv
<1> QED
  BY <1>3, <1>4 DEF Accept

LEMMA JoinTransferInv ==
    ASSUME IInv, NEW p \in Peers, JoinTransfer(p) PROVE IInv'
<1>1. /\ p \in transfers
      /\ phase = "serving"
      /\ UNCHANGED <<fresh, dialled, handshakes, result, numbered, phase>>
      /\ accepted' \in {accepted, accepted + 1}
  BY DEF JoinTransfer, Ended
<1>2. /\ IsFiniteSet(transfers) /\ IsFiniteSet(handshakes)
      /\ Cardinality(transfers) \in Nat
      /\ Cardinality(handshakes) \in Nat
      /\ waiting \in Seq(Peers) /\ Len(waiting) \in Nat
      /\ numbered \in Seq(Peers) /\ Len(numbered) \in Nat
  BY FS_CardinalityType, LenProperties DEF IInv, TypeOK
<1>3. /\ IsFiniteSet(transfers \ {p})
      /\ Cardinality(transfers \ {p}) = Cardinality(transfers) - 1
  BY JoinTransferEffect
<1>4. CASE /\ waiting = <<>>
           /\ transfers' = transfers \ {p}
           /\ waiting' = waiting
  <2>1. TypeOK'
    BY <1>1, <1>3, <1>4 DEF IInv, TypeOK
  <2>2. WithinLimits' /\ NoIdleSlot'
    BY <1>1, <1>2, <1>3, <1>4, LimitsAssumption
       DEF IInv, WithinLimits, NoIdleSlot
  <2>3. KeptApart' /\ InOrder'
    BY <1>1, <1>4 DEF IInv, KeptApart, InOrder
  <2> QED
    BY <2>1, <2>2, <2>3 DEF IInv
<1>5. CASE /\ waiting # <<>>
           /\ transfers' = (transfers \ {p}) \cup {waiting[1]}
           /\ waiting' \in Seq(Peers)
           /\ Len(waiting') = Len(waiting) - 1
           /\ \A i \in 1..Len(waiting') : waiting'[i] = waiting[i + 1]
  <2> DEFINE k == Len(numbered) - Len(waiting)
  <2>1. /\ Len(waiting) >= 1 /\ Len(waiting) <= Len(numbered)
        /\ k \in Nat /\ k + 1 \in 1..Len(numbered)
        /\ Len(numbered) - Len(waiting') = k + 1
    BY <1>1, <1>2, <1>5, EmptySeq DEF IInv, InOrder
  <2>2. waiting[1] = numbered[k + 1] /\ waiting[1] \in Peers
    BY <1>1, <1>2, <2>1, ElementOfSeq DEF IInv, InOrder
  <2>3. waiting[1] \notin transfers
    <3>1. SUFFICES ASSUME waiting[1] \in transfers PROVE FALSE
      OBVIOUS
    <3>2. PICK i \in 1..k : numbered[i] = waiting[1]
      BY <1>1, <3>1 DEF IInv, InOrder
    <3>3. i \in 1..Len(numbered) /\ i # k + 1
      BY <1>2, <2>1
    <3> QED
      BY <2>1, <2>2, <3>2, <3>3 DEF IInv, KeptApart
  <2>4. /\ IsFiniteSet(transfers')
        /\ Cardinality(transfers') = Cardinality(transfers)
    <3>1. /\ IsFiniteSet((transfers \ {p}) \cup {waiting[1]})
          /\ Cardinality((transfers \ {p}) \cup {waiting[1]})
               = Cardinality(transfers \ {p}) + 1
      BY <1>3, <2>3, FS_AddElement
    <3> QED
      BY <1>2, <1>3, <1>5, <3>1
  <2>5. TypeOK'
    BY <1>1, <1>5, <2>2, <2>4 DEF IInv, TypeOK
  <2>6. WithinLimits' /\ NoIdleSlot'
    BY <1>1, <1>2, <1>5, <2>1, <2>4, LimitsAssumption
       DEF IInv, WithinLimits, NoIdleSlot
  <2>7. KeptApart'
    BY <1>1 DEF IInv, KeptApart
  <2>8. InOrder'
    <3>1. ASSUME NEW i \in 1..Len(waiting')
          PROVE  waiting'[i] = numbered[Len(numbered) - Len(waiting') + i]
      <4>1. i + 1 \in 1..Len(waiting) /\ k + (i + 1) = (k + 1) + i
        BY <1>2, <1>5, <2>1
      <4>2. waiting[i + 1] = numbered[k + (i + 1)]
        BY <1>1, <4>1 DEF IInv, InOrder
      <4> QED
        BY <1>5, <2>1, <4>1, <4>2
    <3>2. ASSUME NEW q \in transfers'
          PROVE  \E i \in 1..(k + 1) : numbered[i] = q
      <4>1. CASE q = waiting[1]
        BY <2>1, <2>2, <4>1
      <4>2. CASE q \in transfers
        <5>1. PICK i \in 1..k : numbered[i] = q
          BY <1>1, <4>2 DEF IInv, InOrder
        <5> QED
          BY <2>1, <5>1
      <4> QED
        BY <1>5, <4>1, <4>2
    <3>3. Len(waiting') <= Len(numbered)
      BY <1>2, <1>5, <2>1
    <3>4. \A q \in transfers' :
            \E i \in 1..(Len(numbered) - Len(waiting')) : numbered[i] = q
      BY <2>1, <3>2
    <3> QED
      BY <1>1, <3>1, <3>3, <3>4 DEF InOrder
  <2> QED
    BY <2>5, <2>6, <2>7, <2>8 DEF IInv
<1> QED
  BY <1>4, <1>5, JoinTransferEffect

(* Appending a number keeps the positions given before.                    *)
LEMMA NumberOneMore ==
    ASSUME IInv, NEW p \in Peers, numbered' = Append(numbered, p)
    PROVE  /\ numbered' \in Seq(Peers)
           /\ Len(numbered) \in Nat
           /\ Len(numbered') = Len(numbered) + 1
           /\ \A i \in 1..Len(numbered) : numbered'[i] = numbered[i]
           /\ numbered'[Len(numbered) + 1] = p
  BY AppendProperties, LenProperties DEF IInv, TypeOK

LEMMA JoinHandshakeInv ==
    ASSUME IInv, NEW p \in Peers, JoinHandshake(p) PROVE IInv'
<1>1. /\ p \in handshakes
      /\ phase = "serving"
      /\ handshakes' = handshakes \ {p}
      /\ UNCHANGED <<fresh, dialled, accepted, phase>>
  BY DEF JoinHandshake, Ended
<1>2. /\ IsFiniteSet(transfers) /\ IsFiniteSet(handshakes)
      /\ Cardinality(transfers) \in Nat
      /\ Cardinality(handshakes) \in Nat
      /\ waiting \in Seq(Peers) /\ Len(waiting) \in Nat
      /\ numbered \in Seq(Peers) /\ Len(numbered) \in Nat
  BY FS_CardinalityType, LenProperties DEF IInv, TypeOK
<1>3. /\ IsFiniteSet(handshakes')
      /\ Cardinality(handshakes') = Cardinality(handshakes) - 1
  BY <1>1, <1>2, FS_RemoveElement
<1>4. CASE UNCHANGED <<numbered, result, transfers, waiting>>
  <2>1. TypeOK'
    BY <1>1, <1>3, <1>4 DEF IInv, TypeOK
  <2>2. WithinLimits' /\ NoIdleSlot'
    BY <1>1, <1>2, <1>3, <1>4, LimitsAssumption DEF IInv, WithinLimits, NoIdleSlot
  <2>3. KeptApart' /\ InOrder'
    BY <1>1, <1>4 DEF IInv, KeptApart, InOrder
  <2> QED
    BY <2>1, <2>2, <2>3 DEF IInv
<1>5. ASSUME numbered' = Append(numbered, p)
      PROVE  KeptApart'
  <2>1. p \notin fresh /\ p \notin dialled
    BY <1>1 DEF IInv, KeptApart
  <2>2. \A i \in 1..Len(numbered) : numbered[i] # p
    BY <1>1 DEF IInv, KeptApart
  <2>3. \A i \in 1..Len(numbered') :
          \/ i \in 1..Len(numbered) /\ numbered'[i] = numbered[i]
          \/ i = Len(numbered) + 1 /\ numbered'[i] = p
    BY <1>5, NumberOneMore
  <2>4. \A i \in 1..Len(numbered') :
          numbered'[i] \notin fresh' \cup dialled' \cup handshakes'
    BY <1>1, <2>1, <2>3 DEF IInv, KeptApart
  <2>5. \A i, j \in 1..Len(numbered') : numbered'[i] = numbered'[j] => i = j
    BY <2>2, <2>3 DEF IInv, KeptApart
  <2> QED
    BY <1>1, <2>4, <2>5 DEF IInv, KeptApart
<1>6. CASE /\ numbered' = Append(numbered, p)
           /\ result' = [result EXCEPT ![p] = "pending"]
           /\ Cardinality(transfers) < MaxActive
           /\ waiting = <<>>
           /\ transfers' = transfers \cup {p}
           /\ waiting' = waiting
  <2>1. /\ IsFiniteSet(transfers')
        /\ Cardinality(transfers') \in
             {Cardinality(transfers), Cardinality(transfers) + 1}
    BY <1>2, <1>6, FS_AddElement
  <2>2. TypeOK'
    BY <1>1, <1>3, <1>6, <2>1, NumberOneMore DEF IInv, TypeOK
  <2>3. WithinLimits' /\ NoIdleSlot'
    BY <1>1, <1>2, <1>3, <1>6, <2>1, LimitsAssumption
       DEF IInv, WithinLimits, NoIdleSlot
  <2>4. InOrder'
    <3>1. Len(waiting') = 0
      BY <1>6, EmptySeq
    <3>2. ASSUME NEW q \in transfers'
          PROVE  \E i \in 1..Len(numbered') : numbered'[i] = q
      <4>1. CASE q = p
        BY <1>6, <4>1, NumberOneMore
      <4>2. CASE q \in transfers
        <5>1. PICK i \in 1..(Len(numbered) - Len(waiting)) : numbered[i] = q
          BY <1>1, <4>2 DEF IInv, InOrder
        <5>2. i \in 1..Len(numbered) /\ i \in 1..Len(numbered')
          BY <1>2, <1>6, <5>1, NumberOneMore
        <5> QED
          BY <1>6, <5>1, <5>2, NumberOneMore
      <4> QED
        BY <1>6, <4>1, <4>2
    <3> QED
      BY <1>1, <1>6, <3>1, <3>2, NumberOneMore DEF InOrder
  <2> QED
    BY <1>5, <1>6, <2>2, <2>3, <2>4 DEF IInv
<1>7. CASE /\ numbered' = Append(numbered, p)
           /\ result' = [result EXCEPT ![p] = "pending"]
           /\ Cardinality(transfers) = MaxActive
           /\ transfers' = transfers
           /\ waiting' = Append(waiting, p)
  <2>1. /\ waiting' \in Seq(Peers)
        /\ Len(waiting') = Len(waiting) + 1
        /\ \A i \in 1..Len(waiting) : waiting'[i] = waiting[i]
        /\ waiting'[Len(waiting) + 1] = p
    BY <1>2, <1>7, AppendProperties
  <2>2. TypeOK'
    BY <1>1, <1>3, <1>7, <2>1, NumberOneMore DEF IInv, TypeOK
  <2>3. WithinLimits'
    BY <1>1, <1>2, <1>3, <1>7, <2>1, LimitsAssumption
       DEF IInv, WithinLimits
  <2>4. NoIdleSlot'
    BY <1>2, <1>3, <1>7, <2>1, <2>3, LimitsAssumption
       DEF WithinLimits, NoIdleSlot
  <2>5. InOrder'
    <3> DEFINE k == Len(numbered) - Len(waiting)
    <3>1. Len(numbered') - Len(waiting') = k /\ Len(waiting) <= Len(numbered)
          /\ k \in Nat /\ k <= Len(numbered)
      BY <1>1, <1>2, <1>7, <2>1, NumberOneMore DEF IInv, InOrder
    <3>2. ASSUME NEW i \in 1..Len(waiting')
          PROVE  waiting'[i] = numbered'[k + i]
      <4>1. CASE i \in 1..Len(waiting)
        <5>1. k + i \in 1..Len(numbered)
          BY <1>2, <3>1, <4>1
        <5>2. waiting[i] = numbered[k + i]
          BY <1>1, <4>1 DEF IInv, InOrder
        <5> QED
          BY <1>7, <2>1, <4>1, <5>1, <5>2, NumberOneMore
      <4>2. CASE i = Len(waiting) + 1
        <5>1. k + i = Len(numbered) + 1
          BY <1>2, <4>2
        <5> QED
          BY <1>7, <2>1, <4>2, <5>1, NumberOneMore
      <4> QED
        BY <1>2, <2>1, <4>1, <4>2
    <3>3. ASSUME NEW q \in transfers'
          PROVE  \E i \in 1..k : numbered'[i] = q
      <4>1. PICK i \in 1..k : numbered[i] = q
        BY <1>1, <1>7 DEF IInv, InOrder
      <4>2. i \in 1..Len(numbered)
        BY <1>2, <3>1
      <4> QED
        BY <1>7, <4>1, <4>2, NumberOneMore
    <3> HIDE DEF k
    <3>4. Len(waiting') <= Len(numbered')
      BY <1>2, <1>7, <2>1, <3>1, NumberOneMore
    <3> QED
      BY <3>1, <3>2, <3>3, <3>4 DEF InOrder
  <2> QED
    BY <1>5, <1>7, <2>2, <2>3, <2>4, <2>5 DEF IInv
<1> QED
  BY <1>4, <1>6, <1>7, JoinHandshakeEffect

LEMMA StepInv == IInv /\ [Next]_vars => IInv'
<1> SUFFICES ASSUME IInv, [Next]_vars PROVE IInv'
  OBVIOUS
<1>1. CASE UNCHANGED vars
  BY <1>1 DEF IInv, TypeOK, WithinLimits, NoIdleSlot, KeptApart, InOrder, vars
<1>2. CASE Next
  BY <1>2, DialInv, TaskInv, ExitInv, AcceptInv, JoinTransferInv,
     JoinHandshakeInv DEF Next, Loop
<1> QED
  BY <1>1, <1>2

LEMMA Inductive == Spec => []IInv
  BY InitInv, StepInv, PTL DEF Spec

-----------------------------------------------------------------------------
(* The types of the loop's variables, the JoinSets' finiteness included.   *)
THEOREM TypeCorrect == Spec => []TypeOK
<1>1. IInv => TypeOK
  BY DEF IInv
<1> QED
  BY <1>1, Inductive, PTL

(* For all limits and whatever order connections complete in, has_capacity *)
(* and the refill keep both JoinSets and the queue within the limits.      *)
THEOREM LimitsHold == Spec => []StaysWithinLimits
<1>1. IInv => StaysWithinLimits
  BY DEF IInv, StaysWithinLimits
<1> QED
  BY <1>1, Inductive, PTL

(* No receiver waits beside a free transfer slot, and the queue proper     *)
(* never outgrows its own limit.                                           *)
THEOREM SlotsAreUsed == Spec => []NoIdleSlot
<1>1. IInv => NoIdleSlot
  BY DEF IInv
<1> QED
  BY <1>1, Inductive, PTL

(* Receivers get their transfer in the order of their numbers.             *)
THEOREM FirstComeFirstServed == Spec => []NoOvertaking
<1>1. ASSUME IInv, phase # "stopped"
      PROVE  NoOvertaking
  <2> DEFINE k == Len(numbered) - Len(waiting)
             rest == SubSeq(numbered, k + 1, Len(numbered))
  <2>1. /\ waiting \in Seq(Peers) /\ Len(waiting) \in Nat
        /\ numbered \in Seq(Peers) /\ Len(numbered) \in Nat
        /\ Len(waiting) <= Len(numbered)
    BY <1>1, LenProperties DEF IInv, TypeOK, InOrder
  <2>2. k \in Nat /\ k <= Len(numbered)
    BY <2>1
  <2>3. \A i \in (k + 1)..Len(numbered) : numbered[i] \in Peers
    BY <2>1, <2>2, ElementOfSeq
  <2>4. /\ rest \in Seq(Peers)
        /\ Len(rest) = IF k + 1 <= Len(numbered)
                       THEN Len(numbered) - (k + 1) + 1 ELSE 0
        /\ \A i \in 1..Len(numbered) - (k + 1) + 1 :
             rest[i] = numbered[(k + 1) + i - 1]
    BY <2>1, <2>2, <2>3, SubSeqProperties
  <2>5. Len(rest) = Len(waiting)
    BY <2>1, <2>4
  <2>6. ASSUME NEW i \in 1..Len(waiting)
        PROVE  waiting[i] = rest[i]
    <3>1. (k + 1) + i - 1 = k + i /\ i \in 1..Len(numbered) - (k + 1) + 1
      BY <2>1, <2>2
    <3>2. waiting[i] = numbered[k + i]
      BY <1>1 DEF IInv, InOrder
    <3> QED
      BY <2>4, <3>1, <3>2
  <2>7. waiting = rest
    BY <2>1, <2>4, <2>5, <2>6, SeqEqual
  <2>8. transfers \subseteq {numbered[i] : i \in 1..k}
    BY <1>1 DEF IInv, InOrder
  <2> QED
    BY <2>2, <2>7, <2>8 DEF NoOvertaking
<1>2. IInv => NoOvertaking
  BY <1>1 DEF NoOvertaking
<1> QED
  BY <1>2, Inductive, PTL

-----------------------------------------------------------------------------
(* The count of transfers joined as Sent.                                  *)
CInv == IInv /\ Outcomes /\ CountsSent
Counted == {p \in Peers \ transfers : result[p] = "Sent"}

LEMMA JoinTransferCounts ==
    ASSUME CInv, NEW p \in Peers, JoinTransfer(p)
    PROVE  Outcomes' /\ CountsSent'
<1>1. /\ p \in transfers /\ phase = "serving" /\ IInv
      /\ UNCHANGED <<fresh, dialled, handshakes, result, numbered, phase>>
      /\ accepted' = IF result[p] = "Sent" THEN accepted + 1 ELSE accepted
  BY DEF JoinTransfer, Ended, CInv
<1>2. IsFiniteSet(SentPeers) /\ accepted = Cardinality(Counted)
  BY <1>1 DEF CInv, Outcomes, CountsSent, Counted
<1>3. Counted \in SUBSET SentPeers /\ IsFiniteSet(Counted)
  BY <1>2, FS_Subset DEF Counted, SentPeers
<1>4. /\ waiting \in Seq(Peers) /\ Len(waiting) \in Nat
      /\ waiting # <<>> => Len(waiting) >= 1
  BY <1>1, LenProperties, EmptySeq DEF IInv, TypeOK
<1>5. Outcomes'
  <2>1. ASSUME NEW i \in 1..Len(waiting')
        PROVE  result[waiting'[i]] = "pending"
    <3>1. CASE waiting' = waiting
      BY <3>1 DEF CInv, Outcomes
    <3>2. CASE /\ Len(waiting') = Len(waiting) - 1
               /\ \A j \in 1..Len(waiting') : waiting'[j] = waiting[j + 1]
      <4>1. i + 1 \in 1..Len(waiting)
        BY <1>4, <3>2
      <4> QED
        BY <3>2, <4>1 DEF CInv, Outcomes
    <3> QED
      BY <1>1, <3>1, <3>2, JoinTransferEffect
  <2> QED
    BY <1>1, <2>1 DEF CInv, Outcomes, SentPeers
<1>6. Counted' = IF result[p] = "Sent" THEN Counted \cup {p} ELSE Counted
  <2>1. CASE transfers' = transfers \ {p}
    BY <1>1, <2>1 DEF Counted
  <2>2. CASE /\ waiting # <<>>
             /\ transfers' = (transfers \ {p}) \cup {waiting[1]}
    <3>1. result[waiting[1]] = "pending"
      BY <1>4, <2>2 DEF CInv, Outcomes
    <3> QED
      BY <1>1, <2>2, <3>1 DEF Counted
  <2> QED
    BY <1>1, <2>1, <2>2, JoinTransferEffect
<1>7. p \notin Counted
  BY <1>1 DEF Counted
<1>8. accepted' = Cardinality(Counted')
  BY <1>1, <1>2, <1>3, <1>6, <1>7, FS_AddElement
<1> QED
  BY <1>5, <1>8 DEF CountsSent, Counted

LEMMA JoinHandshakeCounts ==
    ASSUME CInv, NEW p \in Peers, JoinHandshake(p)
    PROVE  Outcomes' /\ CountsSent'
<1>1. /\ p \in handshakes /\ phase = "serving" /\ IInv
      /\ handshakes' = handshakes \ {p}
      /\ UNCHANGED <<fresh, dialled, accepted, phase>>
  BY DEF JoinHandshake, Ended, CInv
<1>2. /\ waiting \in Seq(Peers) /\ Len(waiting) \in Nat
      /\ result \in [Peers -> {"pending"} \cup HandshakeResults
                                          \cup TransferResults]
  BY <1>1, LenProperties DEF IInv, TypeOK
<1>3. CASE UNCHANGED <<result, transfers, waiting>>
  BY <1>1, <1>3 DEF CInv, Outcomes, CountsSent, SentPeers
<1>4. CASE /\ result[p] = "connected"
           /\ result' = [result EXCEPT ![p] = "pending"]
           /\ \/ transfers' = transfers \cup {p} /\ waiting' = waiting
              \/ transfers' = transfers /\ waiting' = Append(waiting, p)
  <2>1. SentPeers' = SentPeers /\ Counted' = Counted
    BY <1>2, <1>4 DEF SentPeers, Counted
  <2>2. ASSUME NEW i \in 1..Len(waiting')
        PROVE  result'[waiting'[i]] = "pending"
    <3>1. CASE waiting' = waiting
      BY <1>2, <1>4, <3>1, ElementOfSeq DEF CInv, Outcomes
    <3>2. CASE waiting' = Append(waiting, p)
      <4>1. \/ i \in 1..Len(waiting) /\ waiting'[i] = waiting[i]
            \/ waiting'[i] = p
        BY <1>2, <3>2, AppendProperties
      <4> QED
        BY <1>2, <1>4, <4>1, ElementOfSeq DEF CInv, Outcomes
    <3> QED
      BY <1>4, <3>1, <3>2
  <2>3. /\ \A q \in handshakes' : result'[q] = result[q]
        /\ \A q \in fresh \cup dialled : result'[q] = result[q]
    BY <1>1, <1>2, <1>4 DEF IInv, KeptApart
  <2> QED
    BY <1>1, <2>1, <2>2, <2>3 DEF CInv, Outcomes, CountsSent, Counted
<1> QED
  BY <1>1, <1>3, <1>4, JoinHandshakeEffect

(* A connection is in one place only.                                      *)
LEMMA OnePlace ==
    ASSUME IInv, phase # "stopped"
    PROVE  /\ (fresh \cup dialled \cup handshakes) \cap transfers = {}
           /\ \A i \in 1..Len(waiting) :
                /\ waiting[i] \notin fresh \cup dialled \cup handshakes
                /\ waiting[i] \notin transfers
<1> DEFINE k == Len(numbered) - Len(waiting)
<1>1. /\ waiting \in Seq(Peers) /\ Len(waiting) \in Nat
      /\ numbered \in Seq(Peers) /\ Len(numbered) \in Nat
      /\ Len(waiting) <= Len(numbered)
  BY LenProperties DEF IInv, TypeOK, InOrder
<1>2. \A q \in transfers : \E j \in 1..k : numbered[j] = q
  BY DEF IInv, InOrder
<1>3. (fresh \cup dialled \cup handshakes) \cap transfers = {}
  <2>1. \A j \in 1..k : j \in 1..Len(numbered)
    BY <1>1
  <2> QED
    BY <1>2, <2>1 DEF IInv, KeptApart
<1>4. ASSUME NEW i \in 1..Len(waiting)
      PROVE  /\ waiting[i] \notin fresh \cup dialled \cup handshakes
             /\ waiting[i] \notin transfers
  <2>1. k + i \in 1..Len(numbered) /\ waiting[i] = numbered[k + i]
    BY <1>1 DEF IInv, InOrder
  <2>2. ASSUME NEW j \in 1..k PROVE numbered[j] # waiting[i]
    <3>1. j \in 1..Len(numbered) /\ j # k + i
      BY <1>1
    <3> QED
      BY <2>1, <3>1 DEF IInv, KeptApart
  <2> QED
    BY <1>2, <2>1, <2>2 DEF IInv, KeptApart
<1> QED
  BY <1>3, <1>4

LEMMA TaskCounts ==
    ASSUME CInv, NEW p \in Peers,
           \/ \E r \in HandshakeResults : HandshakeEnds(p, r)
           \/ \E r \in TransferResults : TransferEnds(p, r)
    PROVE  Outcomes' /\ CountsSent'
<1>1. /\ result \in [Peers -> {"pending"} \cup HandshakeResults
                                          \cup TransferResults]
      /\ \A i \in 1..Len(waiting) : waiting[i] \in Peers
      /\ IsFiniteSet(SentPeers \cup {p})
  BY ElementOfSeq, FS_AddElement DEF CInv, IInv, TypeOK, Outcomes
<1>2. CASE \E r \in HandshakeResults : HandshakeEnds(p, r)
  <2>1. PICK r \in HandshakeResults : HandshakeEnds(p, r)
    BY <1>2
  <2>2. /\ SentPeers' = SentPeers /\ Counted' = Counted
        /\ UNCHANGED <<fresh, dialled, handshakes, transfers, waiting, accepted,
                       phase>>
    BY <1>1, <2>1 DEF SentPeers, Counted, HandshakeEnds, HandshakeResults
  <2>3. /\ p \notin fresh \cup dialled
        /\ \A i \in 1..Len(waiting) : waiting[i] # p
    BY <2>1, OnePlace DEF CInv, IInv, KeptApart, HandshakeEnds
  <2>4. Outcomes'
    BY <1>1, <2>1, <2>2, <2>3 DEF CInv, Outcomes, HandshakeEnds
  <2>5. CountsSent'
    BY <2>2 DEF CInv, CountsSent, Counted
  <2> QED
    BY <2>4, <2>5
<1>3. CASE \E r \in TransferResults : TransferEnds(p, r)
  <2>1. PICK r \in TransferResults : TransferEnds(p, r)
    BY <1>3
  <2>2. /\ SentPeers' \subseteq SentPeers \cup {p} /\ Counted' = Counted
        /\ UNCHANGED <<fresh, dialled, handshakes, transfers, waiting, accepted,
                       phase>>
    BY <1>1, <2>1 DEF SentPeers, Counted, TransferEnds
  <2>3. /\ p \notin fresh \cup dialled \cup handshakes
        /\ \A i \in 1..Len(waiting) : waiting[i] # p
    BY <2>1, OnePlace DEF CInv, TransferEnds
  <2>4. IsFiniteSet(SentPeers')
    BY <1>1, <2>2, FS_Subset
  <2>5. Outcomes'
    BY <1>1, <2>1, <2>2, <2>3, <2>4 DEF CInv, Outcomes, TransferEnds
  <2>6. CountsSent'
    BY <2>2 DEF CInv, CountsSent, Counted
  <2> QED
    BY <2>5, <2>6
<1> QED
  BY <1>2, <1>3

(* The sender's count is that of the payloads sent and joined.             *)
THEOREM SentAreCounted == Spec => []CountsSent
<1>1. ASSUME Init PROVE CInv
  <2>1. SentPeers = {} /\ {p \in Peers \ transfers : result[p] = "Sent"} = {}
    BY <1>1 DEF Init, SentPeers
  <2>2. IsFiniteSet({}) /\ Cardinality({}) = 0
    BY FS_EmptySet
  <2>3. Len(<<>>) = 0
    BY EmptySeq
  <2>4. Outcomes
    BY <1>1, <2>1, <2>2, <2>3 DEF Init, Outcomes
  <2>5. CountsSent
    BY <1>1, <2>1, <2>2 DEF Init, CountsSent
  <2> QED
    BY <1>1, <2>4, <2>5, InitInv DEF CInv
<1>2. ASSUME CInv, [Next]_vars PROVE CInv'
  <2>1. IInv'
    BY <1>2, StepInv DEF CInv
  <2>2. CASE \/ UNCHANGED vars
             \/ \E p \in Peers : Dial(p)
             \/ Interrupt
    BY <1>2, <2>1, <2>2
       DEF CInv, Outcomes, CountsSent, SentPeers, vars, Dial, Interrupt
  <2>3. CASE Stop
    BY <1>2, <2>1, <2>3 DEF CInv, Outcomes, CountsSent, SentPeers, Stop
  <2>4. ASSUME NEW p \in Peers, Accept(p) PROVE CInv'
    <3>1. UNCHANGED <<transfers, waiting, result, accepted, phase>>
      BY <1>2, <2>4, AcceptEffect DEF CInv, Accept
    <3>2. \A q \in handshakes' : q \in handshakes \/ q = p
      BY <2>4 DEF Accept
    <3>3. result[p] = "pending" /\ fresh' = fresh /\ dialled' \subseteq dialled
      BY <1>2, <2>4 DEF CInv, Outcomes, Accept
    <3> QED
      BY <1>2, <2>1, <3>1, <3>2, <3>3
         DEF CInv, Outcomes, CountsSent, SentPeers
  <2>5. ASSUME NEW p \in Peers,
               \/ \E r \in HandshakeResults : HandshakeEnds(p, r)
               \/ \E r \in TransferResults : TransferEnds(p, r)
        PROVE  CInv'
    BY <1>2, <2>1, <2>5, TaskCounts DEF CInv
  <2>6. ASSUME NEW p \in Peers, JoinTransfer(p) \/ JoinHandshake(p)
        PROVE  CInv'
    BY <1>2, <2>1, <2>6, JoinTransferCounts, JoinHandshakeCounts DEF CInv
  <2> QED
    BY <1>2, <2>2, <2>3, <2>4, <2>5, <2>6 DEF Next, Loop
<1>3. CInv => CountsSent
  BY DEF CInv
<1> QED
  BY <1>1, <1>2, <1>3, PTL DEF Spec

-----------------------------------------------------------------------------
(* The refinement.  While the loop runs, the abstract queue's begun is the *)
(* number of connections that no longer wait, and those in service are     *)
(* the transfers of the JoinSet.                                           *)
LEMMA MapsServing ==
    ASSUME IInv, phase # "stopped"
    PROVE  /\ Begun \in Nat /\ Begun <= Len(numbered)
           /\ Len(numbered) \in Nat /\ Len(waiting) \in Nat
           /\ Len(numbered) = Begun + Len(waiting)
           /\ transfers \subseteq {numbered[i] : i \in 1..Begun}
           /\ Queue!InService = transfers
           /\ Queue!Arrived = {numbered[i] : i \in 1..Len(numbered)}
<1>1. Begun = Len(numbered) - Len(waiting)
  BY DEF Begun
<1>2. /\ Len(numbered) \in Nat /\ Len(waiting) \in Nat
      /\ Len(waiting) <= Len(numbered)
  BY LenProperties DEF IInv, TypeOK, InOrder
<1>3. transfers \subseteq {numbered[i] : i \in 1..Begun}
  BY <1>1 DEF IInv, InOrder
<1>4. Queue!InService = transfers
  BY <1>3 DEF Queue!InService
<1>5. Queue!Arrived = {numbered[i] : i \in 1..Len(numbered)}
  BY DEF Queue!Arrived
<1> QED
  BY <1>1, <1>2, <1>3, <1>4, <1>5

(* Joining an ended transfer is the abstract Finish.                       *)
LEMMA JoinTransferRefines ==
    ASSUME IInv, NEW p \in Peers, JoinTransfer(p)
    PROVE  Queue!Finish(p)
<1>1. /\ p \in transfers /\ phase = "serving" /\ phase' = "serving"
      /\ numbered' = numbered
  BY DEF JoinTransfer, Ended
<1>2. IInv'
  BY JoinTransferInv
<1> DEFINE begun == Len(numbered) - Len(waiting)
           served(k) == {numbered[i] : i \in 1..k}
<1>3. /\ Begun = begun /\ Begun' = Len(numbered) - Len(waiting')
      /\ begun \in Nat /\ begun <= Len(numbered)
      /\ Len(numbered) \in Nat /\ Len(waiting) \in Nat
      /\ Len(waiting) = 0 <=> waiting = <<>>
  BY <1>1, MapsServing, EmptySeq DEF Begun, IInv, TypeOK
<1>4. /\ transfers \subseteq served(begun)
      /\ Queue!InService = transfers
  BY <1>1, <1>3, MapsServing
<1>5. CASE /\ waiting = <<>>
           /\ transfers' = transfers \ {p}
           /\ waiting' = waiting
  <2>1. Begun' = begun /\ ~(begun < Len(numbered))
    BY <1>3, <1>5
  <2>2. served(begun) \ transfers' = (served(begun) \ transfers) \cup {p}
    BY <1>1, <1>4, <1>5
  <2> QED
    BY <1>1, <1>3, <1>4, <2>1, <2>2 DEF Queue!Finish
<1>6. CASE /\ waiting # <<>>
           /\ transfers' = (transfers \ {p}) \cup {waiting[1]}
           /\ Len(waiting') = Len(waiting) - 1
  <2>1. Begun' = begun + 1 /\ begun < Len(numbered) /\ 1 \in 1..Len(waiting)
    BY <1>3, <1>6
  <2>2. waiting[1] = numbered[begun + 1]
    BY <1>1, <2>1 DEF IInv, InOrder
  <2>3. waiting[1] \notin served(begun)
    <3>1. ASSUME NEW i \in 1..begun PROVE numbered[i] # numbered[begun + 1]
      <4>1. i \in 1..Len(numbered) /\ begun + 1 \in 1..Len(numbered)
            /\ i # begun + 1
        BY <1>3, <2>1
      <4> QED
        BY <4>1 DEF IInv, KeptApart
    <3> QED
      BY <2>2, <3>1
  <2>4. served(begun + 1) = served(begun) \cup {waiting[1]}
    <3>1. 1..(begun + 1) = (1..begun) \cup {begun + 1}
      BY <1>3
    <3> QED
      BY <2>2, <3>1
  <2>5. served(begun + 1) \ transfers' = (served(begun) \ transfers) \cup {p}
    <3>1. p \in served(begun) /\ p # waiting[1]
      BY <1>1, <1>4, <2>3
    <3> HIDE DEF served
    <3> QED
      BY <1>1, <1>4, <1>6, <2>3, <2>4, <3>1
  <2> QED
    BY <1>1, <1>3, <1>4, <2>1, <2>5 DEF Queue!Finish
<1> QED
  BY <1>5, <1>6, JoinTransferEffect

(* Joining a completed handshake is the abstract Arrive; joining a failed  *)
(* one is invisible.                                                       *)
LEMMA JoinHandshakeRefines ==
    ASSUME IInv, NEW p \in Peers, JoinHandshake(p)
    PROVE  Queue!Arrive(p) \/ UNCHANGED Queue!vars
<1>1. /\ p \in handshakes /\ phase = "serving" /\ phase' = "serving"
  BY DEF JoinHandshake, Ended
<1> DEFINE begun == Len(numbered) - Len(waiting)
           served(k) == {numbered[i] : i \in 1..k}
<1>2. /\ Begun = begun /\ Begun' = Len(numbered') - Len(waiting')
      /\ begun \in Nat /\ begun <= Len(numbered)
      /\ Len(numbered) \in Nat /\ Len(waiting) \in Nat
      /\ waiting = <<>> => Len(waiting) = 0
      /\ waiting \in Seq(Peers)
  BY <1>1, MapsServing, EmptySeq DEF Begun, IInv, TypeOK
<1>3. /\ transfers \subseteq served(begun)
      /\ Queue!InService = transfers
      /\ Queue!Arrived = served(Len(numbered))
  BY <1>1, <1>2, MapsServing
<1>8. Queue!Cardinality(transfers) = Cardinality(transfers)
  BY DEF Queue!Cardinality, Cardinality
<1>4. CASE UNCHANGED <<numbered, result, transfers, waiting>>
  BY <1>1, <1>4 DEF Queue!vars, Begun
<1>5. ASSUME numbered' = Append(numbered, p)
      PROVE  /\ p \notin Queue!Arrived
             /\ Len(numbered') = Len(numbered) + 1
             /\ {numbered'[i] : i \in 1..begun} = served(begun)
             /\ numbered'[Len(numbered) + 1] = p
  <2>1. \A i \in 1..begun : i \in 1..Len(numbered)
    BY <1>2
  <2>2. \A i \in 1..begun : numbered'[i] = numbered[i]
    BY <1>5, <2>1, NumberOneMore
  <2>3. p \notin Queue!Arrived
    BY <1>1, <1>3 DEF IInv, KeptApart
  <2> QED
    BY <1>5, <2>2, <2>3, NumberOneMore
<1>6. CASE /\ numbered' = Append(numbered, p)
           /\ Cardinality(transfers) < MaxActive
           /\ waiting = <<>>
           /\ transfers' = transfers \cup {p}
           /\ waiting' = waiting
  <2>1. begun = Len(numbered) /\ Begun' = begun + 1
    BY <1>2, <1>5, <1>6
  <2>2. {numbered'[i] : i \in 1..(begun + 1)} = served(begun) \cup {p}
    <3>1. 1..(begun + 1) = (1..begun) \cup {begun + 1}
      BY <1>2
    <3> QED
      BY <1>5, <1>6, <2>1, <3>1
  <2>3. (served(begun) \cup {p}) \ transfers' = served(begun) \ transfers
    <3>1. p \notin served(begun)
      BY <1>3, <1>5, <1>6, <2>1
    <3> HIDE DEF served
    <3> QED
      BY <1>6, <3>1
  <2> QED
    BY <1>1, <1>2, <1>3, <1>8, <1>5, <1>6, <2>1, <2>2, <2>3 DEF Queue!Arrive
<1>7. CASE /\ numbered' = Append(numbered, p)
           /\ Cardinality(transfers) = MaxActive
           /\ transfers' = transfers
           /\ waiting' = Append(waiting, p)
  <2>1. Len(waiting') = Len(waiting) + 1
    BY <1>2, <1>7, AppendProperties
  <2>2. Begun' = begun
    BY <1>2, <1>5, <1>7, <2>1
  <2>3. ~(Cardinality(transfers) < MaxActive)
    BY <1>7, LimitsAssumption
  <2> QED
    BY <1>1, <1>2, <1>3, <1>8, <1>5, <1>7, <2>2, <2>3 DEF Queue!Arrive
<1> QED
  BY <1>4, <1>6, <1>7, JoinHandshakeEffect

(* Tasks, dialling, accepting and the interruption are invisible; the      *)
(* return of the loop is the abstract Shut.                                *)
LEMMA OthersRefine ==
    ASSUME IInv,
           \/ Interrupt
           \/ \E p \in Peers :
                \/ Dial(p)
                \/ Accept(p)
                \/ \E r \in HandshakeResults : HandshakeEnds(p, r)
                \/ \E r \in TransferResults : TransferEnds(p, r)
    PROVE  UNCHANGED Queue!vars
<1>1. /\ UNCHANGED <<transfers, waiting, numbered>>
      /\ phase # "stopped" /\ phase' # "stopped"
  BY AcceptEffect DEF Interrupt, Dial, Accept, HandshakeEnds, TransferEnds
<1> QED
  BY <1>1 DEF Queue!vars, Begun

LEMMA StopRefines == Stop => Queue!Shut
  BY DEF Stop, Queue!Shut, Begun

(* The event loop with its tasks, handshakes and JoinSets implements the   *)
(* abstract first-come first-served queue, for all limits.                 *)
THEOREM ImplementsQueue == Spec => ServesFirstCome
<1>1. Init => Queue!Init
  BY EmptySeq DEF Init, Queue!Init, Begun
<1>2. IInv /\ [Next]_vars => [Queue!Next]_(Queue!vars)
  <2> SUFFICES ASSUME IInv, [Next]_vars PROVE [Queue!Next]_(Queue!vars)
    OBVIOUS
  <2>1. CASE UNCHANGED vars
    BY <2>1 DEF vars, Queue!vars, Begun
  <2>2. CASE Next
    BY <2>2, JoinTransferRefines, JoinHandshakeRefines, OthersRefine,
       StopRefines DEF Next, Loop, Queue!Next
  <2> QED
    BY <2>1, <2>2
<1> QED
  BY <1>1, <1>2, Inductive, PTL DEF Spec, ServesFirstCome, Queue!Spec

-----------------------------------------------------------------------------
(* DavServer.  A path is a sequence of names; that of the root has none.   *)
AllPaths == Seq(STRING)
Named == AllPaths \ {<<>>}

(* Prefixes, position by position.                                         *)
LEMMA PrefixIs ==
    \A a, b \in AllPaths :
        IsPrefix(a, b) <=> Len(a) <= Len(b) /\ \A i \in 1..Len(a) : a[i] = b[i]
<1> SUFFICES ASSUME NEW a \in AllPaths, NEW b \in AllPaths, Len(a) <= Len(b)
             PROVE  SubSeq(a, 1, Len(a)) = SubSeq(b, 1, Len(a))
                       <=> \A i \in 1..Len(a) : a[i] = b[i]
  BY DEF IsPrefix, AllPaths
<1> DEFINE n == Len(a)
           x == SubSeq(a, 1, n)
           y == SubSeq(b, 1, n)
<1>1. /\ n \in Nat /\ Len(b) \in Nat
      /\ x \in AllPaths /\ Len(x) = n /\ \A i \in 1..n : x[i] = a[i]
      /\ y \in AllPaths /\ Len(y) = n /\ \A i \in 1..n : y[i] = b[i]
  BY DEF AllPaths
<1> HIDE DEF x, y, n
<1>2. ASSUME x = y PROVE \A i \in 1..n : a[i] = b[i]
  BY <1>1, <1>2
<1>3. ASSUME \A i \in 1..n : a[i] = b[i] PROVE x = y
  BY <1>1, <1>3, SeqEqual DEF AllPaths
<1> QED
  BY <1>2, <1>3 DEF x, y, n

LEMMA SamePath ==
    ASSUME NEW a \in AllPaths, NEW b \in AllPaths, Len(a) = Len(b),
           \A i \in 1..Len(a) : a[i] = b[i]
    PROVE  a = b
  BY SeqEqual DEF AllPaths

LEMMA PrefixFacts ==
    /\ \A a \in AllPaths : IsPrefix(a, a) /\ IsPrefix(<<>>, a)
    /\ \A a, b, c \in AllPaths : IsPrefix(a, b) /\ IsPrefix(b, c) => IsPrefix(a, c)
    /\ \A a, b, c \in AllPaths : IsPrefix(a, c) /\ IsPrefix(b, c) => Overlap(a, b)
    /\ \A a, b \in AllPaths : IsPrefix(a, b) /\ IsPrefix(b, a) => a = b
    /\ \A a, b \in AllPaths : IsPrefix(a, b) => (Len(a) = Len(b) <=> a = b)
<1>0. <<>> \in AllPaths /\ Len(<<>>) = 0 /\ \A a \in AllPaths : Len(a) \in Nat
  BY DEF AllPaths
<1>1. \A a \in AllPaths : IsPrefix(a, a) /\ IsPrefix(<<>>, a)
  BY <1>0, PrefixIs
<1>2. \A a, b, c \in AllPaths : IsPrefix(a, b) /\ IsPrefix(b, c) => IsPrefix(a, c)
  BY <1>0, PrefixIs
<1>3. \A a, b, c \in AllPaths : IsPrefix(a, c) /\ IsPrefix(b, c) => Overlap(a, b)
  BY <1>0, PrefixIs DEF Overlap
<1>4. \A a, b \in AllPaths : IsPrefix(a, b) /\ IsPrefix(b, a) => a = b
  <2> SUFFICES ASSUME NEW a \in AllPaths, NEW b \in AllPaths, IsPrefix(a, b), IsPrefix(b, a)
               PROVE  a = b
    OBVIOUS
  <2>1. Len(a) = Len(b) /\ \A i \in 1..Len(a) : a[i] = b[i]
    BY <1>0, PrefixIs
  <2> QED
    BY <2>1, SamePath
<1>5. \A a, b \in AllPaths : IsPrefix(a, b) => (Len(a) = Len(b) <=> a = b)
  <2> SUFFICES ASSUME NEW a \in AllPaths, NEW b \in AllPaths, IsPrefix(a, b), Len(a) = Len(b)
               PROVE  a = b
    OBVIOUS
  <2>1. \A i \in 1..Len(a) : a[i] = b[i]
    BY PrefixIs
  <2> QED
    BY <2>1, SamePath
<1> QED
  BY <1>1, <1>2, <1>3, <1>4, <1>5

LEMMA FrontFacts ==
    ASSUME NEW p \in Named
    PROVE  /\ Front(p) \in AllPaths /\ IsStrictPrefix(Front(p), p)
           /\ \A q \in AllPaths : IsStrictPrefix(q, p) => IsPrefix(q, Front(p))
<1>1. /\ p \in AllPaths /\ Len(p) \in Nat /\ Len(p) > 0
      /\ Front(p) \in AllPaths /\ Len(Front(p)) = Len(p) - 1
      /\ \A i \in 1..Len(p) - 1 : Front(p)[i] = p[i]
  <2>1. p \in AllPaths /\ Len(p) \in Nat /\ Len(p) > 0
    BY EmptySeq DEF Named, AllPaths
  <2> DEFINE n == Len(p) - 1
  <2>2. n \in Int /\ \A i \in 1..n : p[i] \in STRING /\ 1 + i - 1 = i
    BY <2>1 DEF AllPaths
  <2>3. /\ SubSeq(p, 1, n) \in Seq(STRING)
        /\ Len(SubSeq(p, 1, n)) = IF 1 <= n THEN n - 1 + 1 ELSE 0
        /\ \A i \in 1..n - 1 + 1 : SubSeq(p, 1, n)[i] = p[1 + i - 1]
    BY <2>2, SubSeqProperties
  <2>4. n - 1 + 1 = n /\ (IF 1 <= n THEN n - 1 + 1 ELSE 0) = n
    <3>1. n \in Nat
      BY <2>1
    <3> HIDE DEF n
    <3> QED
      BY <3>1
  <2>5. \A i \in 1..n : SubSeq(p, 1, n)[i] = p[i]
    BY <2>2, <2>3, <2>4
  <2> HIDE DEF n
  <2>6. Front(p) = SubSeq(p, 1, n)
    BY DEF Front, n
  <2> QED
    BY <2>1, <2>3, <2>4, <2>5, <2>6 DEF AllPaths, n
<1>2. IsStrictPrefix(Front(p), p)
  BY <1>1, PrefixIs DEF IsStrictPrefix
<1>3. ASSUME NEW q \in AllPaths, IsStrictPrefix(q, p) PROVE IsPrefix(q, Front(p))
  <2>1. IsPrefix(q, p) /\ Len(q) # Len(p) /\ Len(q) \in Nat
    BY <1>1, <1>3, PrefixFacts DEF IsStrictPrefix, AllPaths
  <2>2. Len(q) <= Len(p) - 1 /\ \A i \in 1..Len(q) : q[i] = p[i]
    BY <2>1, <1>1, PrefixIs
  <2> QED
    BY <2>1, <2>2, <1>1, PrefixIs
<1> QED
  BY <1>1, <1>2, <1>3

(* Between a path and one below it there is a child of the first.          *)
LEMMA ChildBetween ==
    ASSUME NEW p \in AllPaths, NEW q \in Named, IsStrictPrefix(p, q)
    PROVE  \E r \in Named : Front(r) = p /\ IsPrefix(r, q) /\ r # p
<1> DEFINE n == Len(p)
           r == SubSeq(q, 1, n + 1)
<1>1. /\ q \in AllPaths /\ Len(q) \in Nat /\ n \in Nat
      /\ IsPrefix(p, q) /\ n # Len(q)
  BY PrefixFacts DEF Named, AllPaths, IsStrictPrefix
<1>2. n < Len(q) /\ \A i \in 1..n : p[i] = q[i]
  BY <1>1, PrefixIs
<1>3. r \in AllPaths /\ Len(r) = n + 1 /\ \A i \in 1..n + 1 : r[i] = q[i]
  BY <1>1, <1>2 DEF AllPaths
<1> HIDE DEF r, n
<1>4. IsPrefix(r, q)
  BY <1>1, <1>2, <1>3, PrefixIs
<1>5. r \in Named
  BY <1>1, <1>3 DEF Named
<1>6. /\ Front(r) \in AllPaths /\ Len(Front(r)) = n
      /\ \A i \in 1..n : Front(r)[i] = r[i]
  BY <1>1, <1>3, <1>5 DEF Front, AllPaths
<1>7. Front(r) = p
  BY <1>1, <1>2, <1>3, <1>6, SamePath DEF n
<1> QED
  BY <1>1, <1>3, <1>4, <1>5, <1>7 DEF n

(* What is rebased: below the new place what it was below the old one.     *)
LEMMA RebaseIs ==
    ASSUME NEW s \in AllPaths, NEW d \in AllPaths, NEW p \in AllPaths, IsPrefix(s, p)
    PROVE  LET r == Rebase(p, s, d)
           IN  /\ r \in AllPaths /\ Len(r) = Len(d) + Len(p) - Len(s)
               /\ \A i \in 1..Len(d) : r[i] = d[i]
               /\ \A i \in Len(d) + 1..Len(r) : r[i] = p[i - Len(d) + Len(s)]
<1> DEFINE t == SubSeq(p, Len(s) + 1, Len(p))
<1>1. Len(s) \in Nat /\ Len(p) \in Nat /\ Len(d) \in Nat /\ Len(s) <= Len(p)
  BY PrefixIs DEF AllPaths
<1>2. /\ t \in AllPaths /\ Len(t) = Len(p) - Len(s)
      /\ \A i \in 1..Len(t) : t[i] = p[i + Len(s)]
  BY <1>1 DEF AllPaths
<1> HIDE DEF t
<1>3. /\ d \o t \in AllPaths /\ Len(d \o t) = Len(d) + Len(t)
      /\ \A i \in 1..Len(d) + Len(t) : (d \o t)[i] = IF i <= Len(d) THEN d[i] ELSE t[i - Len(d)]
  <2>1. d \o t \in AllPaths /\ Len(d \o t) = Len(d) + Len(t)
    BY <1>2, ConcatProperties DEF AllPaths
  <2>2. ASSUME NEW i \in 1..Len(d) + Len(t)
        PROVE  (d \o t)[i] = IF i <= Len(d) THEN d[i] ELSE t[i - Len(d)]
    BY <1>2 DEF AllPaths
  <2> QED
    BY <2>1, <2>2
<1> DEFINE r == d \o t
<1> HIDE DEF r
<1>4. r = Rebase(p, s, d)
  BY DEF Rebase, r, t
<1>5. /\ r \in AllPaths /\ Len(r) = Len(d) + Len(t)
      /\ \A i \in 1..Len(d) + Len(t) : r[i] = IF i <= Len(d) THEN d[i] ELSE t[i - Len(d)]
  BY <1>3 DEF r
<1>6. /\ Len(r) = Len(d) + Len(p) - Len(s)
      /\ \A i \in 1..Len(d) : r[i] = d[i]
  BY <1>1, <1>2, <1>5
<1>7. ASSUME NEW i \in Len(d) + 1..Len(r) PROVE r[i] = p[i - Len(d) + Len(s)]
  <2>1. i - Len(d) \in 1..Len(t) /\ i \in 1..Len(d) + Len(t) /\ ~(i <= Len(d))
    BY <1>1, <1>2, <1>5
  <2> QED
    BY <1>2, <1>5, <2>1
<1> QED
  BY <1>4, <1>5, <1>6, <1>7

LEMMA RebaseFacts ==
    ASSUME NEW s \in Named, NEW d \in Named, NEW p \in Named, IsPrefix(s, p)
    PROVE  /\ Rebase(p, s, d) \in Named /\ IsPrefix(d, Rebase(p, s, d))
           /\ Rebase(Rebase(p, s, d), d, s) = p
<1> DEFINE r == Rebase(p, s, d)
           o == Rebase(r, d, s)
<1>0. /\ s \in AllPaths /\ d \in AllPaths /\ p \in AllPaths
      /\ Len(s) \in Nat \ {0} /\ Len(d) \in Nat \ {0} /\ Len(p) \in Nat
      /\ Len(s) <= Len(p) /\ \A i \in 1..Len(s) : s[i] = p[i]
  BY PrefixIs DEF Named, AllPaths
<1>1. /\ r \in AllPaths /\ Len(r) = Len(d) + Len(p) - Len(s)
      /\ \A i \in 1..Len(d) : r[i] = d[i]
      /\ \A i \in Len(d) + 1..Len(r) : r[i] = p[i - Len(d) + Len(s)]
  BY <1>0, RebaseIs
<1> HIDE DEF r
<1>2. IsPrefix(d, r) /\ r \in Named
  BY <1>0, <1>1, PrefixIs DEF Named
<1>3. /\ o \in AllPaths /\ Len(o) = Len(s) + Len(r) - Len(d)
      /\ \A i \in 1..Len(s) : o[i] = s[i]
      /\ \A i \in Len(s) + 1..Len(o) : o[i] = r[i - Len(s) + Len(d)]
  BY <1>0, <1>1, <1>2, RebaseIs
<1> HIDE DEF o
<1>4. Len(o) = Len(p) /\ \A i \in 1..Len(o) : o[i] = p[i]
  <2>1. Len(o) = Len(p) /\ Len(r) \in Nat /\ Len(r) = Len(d) + Len(p) - Len(s)
    BY <1>0, <1>1, <1>3
  <2>2. ASSUME NEW i \in 1..Len(o), i > Len(s) PROVE o[i] = p[i]
    <3> DEFINE j == i - Len(s) + Len(d)
    <3>1. j \in Len(d) + 1..Len(r) /\ i \in Len(s) + 1..Len(o)
      BY <1>0, <2>1, <2>2
    <3>2. o[i] = r[j] /\ r[j] = p[j - Len(d) + Len(s)]
      BY <3>1, <1>1, <1>3
    <3>3. j - Len(d) + Len(s) = i
      BY <1>0, <2>1
    <3> QED
      BY <3>2, <3>3
  <2> QED
    BY <2>1, <2>2, <1>0, <1>3
<1>5. o = p
  BY <1>0, <1>3, <1>4, SamePath
<1> QED
  BY <1>2, <1>5 DEF r, o

LEMMA RebaseMonotone ==
    ASSUME NEW s \in Named, NEW d \in Named, NEW p \in Named, NEW q \in Named,
           IsPrefix(s, q), IsStrictPrefix(q, p)
    PROVE  IsStrictPrefix(Rebase(q, s, d), Rebase(p, s, d))
<1> DEFINE x == Rebase(q, s, d)
           y == Rebase(p, s, d)
<1>0. /\ s \in AllPaths /\ d \in AllPaths /\ p \in AllPaths /\ q \in AllPaths
      /\ Len(s) \in Nat /\ Len(d) \in Nat /\ Len(p) \in Nat /\ Len(q) \in Nat
      /\ IsPrefix(q, p) /\ Len(q) # Len(p) /\ IsPrefix(s, p)
  BY PrefixFacts DEF Named, AllPaths, IsStrictPrefix
<1>1. /\ Len(s) <= Len(q) /\ Len(q) < Len(p)
      /\ \A i \in 1..Len(q) : q[i] = p[i]
  BY <1>0, PrefixIs
<1>2. /\ x \in AllPaths /\ Len(x) = Len(d) + Len(q) - Len(s)
      /\ \A i \in 1..Len(d) : x[i] = d[i]
      /\ \A i \in Len(d) + 1..Len(x) : x[i] = q[i - Len(d) + Len(s)]
  BY <1>0, RebaseIs
<1>3. /\ y \in AllPaths /\ Len(y) = Len(d) + Len(p) - Len(s)
      /\ \A i \in 1..Len(d) : y[i] = d[i]
      /\ \A i \in Len(d) + 1..Len(y) : y[i] = p[i - Len(d) + Len(s)]
  BY <1>0, RebaseIs
<1> HIDE DEF x, y
<1>4. Len(x) < Len(y) /\ \A i \in 1..Len(x) : x[i] = y[i]
  <2>1. Len(x) < Len(y) /\ Len(x) \in Nat /\ Len(y) \in Nat
    BY <1>0, <1>1, <1>2, <1>3
  <2>2. ASSUME NEW i \in 1..Len(x), i > Len(d) PROVE x[i] = y[i]
    <3> DEFINE j == i - Len(d) + Len(s)
    <3>1. /\ i \in Len(d) + 1..Len(x) /\ i \in Len(d) + 1..Len(y)
          /\ j \in 1..Len(q)
      BY <1>0, <1>2, <2>1, <2>2
    <3> QED
      BY <3>1, <1>1, <1>2, <1>3
  <2> QED
    BY <2>1, <2>2, <1>0, <1>2, <1>3
<1>5. IsPrefix(x, y)
  BY <1>2, <1>3, <1>4, PrefixIs
<1> QED
  BY <1>4, <1>5 DEF IsStrictPrefix, x, y
-----------------------------------------------------------------------------
(* The tree: a node at every path, and a directory above every node.       *)
TreeFits ==
    /\ created \in Nat
    /\ \A p \in DOMAIN tree : p \in Named /\ tree[p] \in Node
    /\ \A p, q \in DOMAIN tree : tree[p].id = tree[q].id => p = q

Rooted ==
    \A p \in DOMAIN tree, q \in Named :
        IsStrictPrefix(q, p) => q \in DOMAIN tree /\ tree[q].dir

(* A temporary file is in a directory that is there.                       *)
TempsFit == \A c \in Clients : \A p \in temp[c] : IsDir(p)

LocksFit ==
    /\ \A p \in DOMAIN locks : /\ p \in Named
                               /\ locks[p].token \in DOMAIN owner
                               /\ locks[p].on \in 0..created
    /\ owner \in Seq(Clients) /\ Len(owner) <= MaxLocks

(* A request, once it was checked.                                         *)
Steps == {"idle", "body", "create", "decide", "remove", "rename", "renamed", "copy"}

HistoryFits ==
    /\ pc \in [Clients -> Steps]
    /\ req = [c \in Clients |-> req[c]]
    /\ temp = [c \in Clients |-> temp[c]]
    /\ copies = [c \in Clients |-> copies[c]]
    /\ requests \in 0..MaxRequests
    /\ quiet \in BOOLEAN

(* It was not checked against locks that do not concern it, and copies     *)
(* nothing to a place that was not checked.                                *)
Checked(c) ==
    /\ req[c].target \in Named /\ req[c].destination \in Named
    /\ pc[c] \in {"body", "create"} => req[c].target = req[c].destination
    /\ req[c].presents \subseteq Tokens(c)
    /\ \A e \in req[c].seen : /\ e[1] \in Named
                              /\ ~Overlap(e[1], req[c].target)
                              /\ ~Overlap(e[1], req[c].destination)
    /\ \A pair \in copies[c] : /\ pair[1] \in Named /\ pair[2] \in Named
                               /\ IsPrefix(req[c].destination, pair[2])

RequestFits(c) ==
    /\ pc[c] = "idle" <=> req[c] = NoRequest
    /\ temp[c] # {} => pc[c] = "body"
    /\ copies[c] # {} <=> pc[c] = "copy"
    /\ pc[c] # "idle" => Checked(c)

(* As long as requests do not overlap, what was checked stays so: the locks*)
(* around a request's paths are its client's own.                          *)
Covers(c) ==
    \A p \in DOMAIN locks :
        (Overlap(p, req[c].target) \/ Overlap(p, req[c].destination))
            => locks[p].token \in req[c].presents

Carried(c, p) ==
    IF pc[c] = "renamed" /\ IsPrefix(req[c].target, p)
    THEN Rebase(p, req[c].target, req[c].destination) ELSE p

OneAtATime == \A c, d \in Clients : c # d => pc[c] = "idle" \/ pc[d] = "idle"

Exclusive ==
    \A p, q \in DOMAIN locks : Overlap(p, q) => owner[locks[p].token] = owner[locks[q].token]

(* A lock is where its node is, or will be carried there.                  *)
Following ==
    \A p \in DOMAIN locks, q \in DOMAIN tree :
        tree[q].id = locks[p].on =>
            IF \E c \in Clients : pc[c] = "renamed"
            THEN \E c \in Clients : pc[c] = "renamed" /\ q = Carried(c, p)
            ELSE q = p

QuietFits ==
    quiet => /\ OneAtATime
             /\ \A c \in Clients : pc[c] # "idle" => Covers(c)
             /\ Exclusive
             /\ Following

DavInv ==
    /\ TreeFits /\ Rooted /\ TempsFit /\ LocksFit /\ HistoryFits
    /\ \A c \in Clients : RequestFits(c)
    /\ QuietFits

-----------------------------------------------------------------------------
(* A tree to start from has a directory above every node.                  *)
LEMMA StartFits == DavInit => DavInv
<1> SUFFICES ASSUME DavInit PROVE DavInv
  OBVIOUS
<1>1. /\ IsFiniteSet(DOMAIN tree) /\ DOMAIN tree \subseteq Named
      /\ \A p \in DOMAIN tree :
            /\ tree[p] \in [dir : BOOLEAN, id : 1..Cardinality(DOMAIN tree)]
            /\ \A q \in DOMAIN tree : tree[p].id = tree[q].id => p = q
            /\ \A n \in 1..Len(p) - 1 : /\ SubSeq(p, 1, n) \in DOMAIN tree
                                        /\ tree[SubSeq(p, 1, n)].dir
  BY TreesAssumption DEF DavInit, Named, AllPaths
<1>2. created \in Nat /\ created = Cardinality(DOMAIN tree)
  BY <1>1, FS_CardinalityType DEF DavInit
<1>3. TreeFits
  BY <1>1, <1>2 DEF TreeFits, Node
<1>4. Rooted
  <2> SUFFICES ASSUME NEW p \in DOMAIN tree, NEW q \in Named, IsStrictPrefix(q, p)
               PROVE  q \in DOMAIN tree /\ tree[q].dir
    BY DEF Rooted
  <2>1. /\ p \in AllPaths /\ q \in AllPaths /\ Len(p) \in Nat /\ Len(q) \in Nat
        /\ Len(q) # 0 /\ IsPrefix(q, p)
    BY <1>1, EmptySeq DEF Named, AllPaths, IsStrictPrefix
  <2>2. Len(q) # Len(p)
    BY <2>1, PrefixFacts DEF IsStrictPrefix
  <2>3. Len(q) \in 1..Len(p) - 1
    BY <2>1, <2>2, PrefixIs
  <2>4. SubSeq(p, 1, Len(q)) = q
    <3>1. SubSeq(p, 1, Len(q)) = SubSeq(q, 1, Len(q))
      BY <2>1 DEF IsPrefix
    <3>2. SubSeq(q, 1, Len(q)) = q
      BY <2>1 DEF AllPaths
    <3> QED
      BY <3>1, <3>2
  <2>5. SubSeq(p, 1, Len(q)) \in DOMAIN tree /\ tree[SubSeq(p, 1, Len(q))].dir
    <3> DEFINE n == Len(q)
    <3>1. n \in 1..Len(p) - 1
      BY <2>3
    <3> HIDE DEF n
    <3>2. SubSeq(p, 1, n) \in DOMAIN tree /\ tree[SubSeq(p, 1, n)].dir
      BY <1>1, <3>1
    <3> QED
      BY <3>2 DEF n
  <2> QED
    BY <2>4, <2>5
<1>5. LocksFit
  BY DavBoundsAssumption DEF DavInit, LocksFit
<1>6. HistoryFits
  BY DavBoundsAssumption DEF DavInit, HistoryFits, Steps
<1>7. \A c \in Clients : RequestFits(c)
  BY DEF DavInit, RequestFits
<1>8. QuietFits
  BY DEF DavInit, QuietFits, OneAtATime, Covers, Exclusive, Following
<1>9. TempsFit
  BY DEF DavInit, TempsFit
<1> QED
  BY <1>3, <1>4, <1>5, <1>6, <1>7, <1>8, <1>9 DEF DavInv

(* A new node, or a file in place of a file.                               *)
LEMMA PutKeeps ==
    ASSUME TreeFits, Rooted, NEW p \in Named, NEW b \in BOOLEAN,
           ParentIsDir(p), ~IsDir(p),
           tree' = Put(tree, p, NewNode(b)), created' = created + 1
    PROVE  TreeFits' /\ Rooted' /\ \A q : IsDir(q) => IsDir(q)'
<1>1. /\ DOMAIN tree' = DOMAIN tree \cup {p}
      /\ tree'[p] = [dir |-> b, id |-> created + 1]
      /\ \A q \in DOMAIN tree \ {p} : tree'[q] = tree[q]
  BY DEF Put, NewNode
<1>2. created \in Nat
  BY DEF TreeFits
<1>3. TreeFits'
  <2>1. \A q \in DOMAIN tree' : q \in Named /\ tree'[q] \in Node'
    <3>1. \A q \in DOMAIN tree : q \in Named /\ tree[q] \in [dir : BOOLEAN, id : 1..created]
      BY DEF TreeFits, Node
    <3> QED
      BY <1>1, <1>2, <3>1 DEF Node
  <2>2. \A q \in DOMAIN tree : tree[q].id \in 1..created
    BY DEF TreeFits, Node
  <2>3. \A q, r \in DOMAIN tree' : tree'[q].id = tree'[r].id => q = r
    <3>1. \A q, r \in DOMAIN tree : tree[q].id = tree[r].id => q = r
      BY DEF TreeFits
    <3>2. tree'[p].id = created + 1
      BY <1>1
    <3> QED
      BY <1>1, <1>2, <2>2, <3>1, <3>2
  <2> QED
    BY <1>2, <2>1, <2>3 DEF TreeFits
<1>4. Rooted'
  <2> SUFFICES ASSUME NEW r \in DOMAIN tree', NEW q \in Named, IsStrictPrefix(q, r)
               PROVE  q \in DOMAIN tree' /\ tree'[q].dir
    BY DEF Rooted
  <2>1. q \in DOMAIN tree /\ tree[q].dir
    <3>1. CASE r \in DOMAIN tree
      BY <3>1 DEF Rooted
    <3>2. CASE r = p
      <4>1. Front(p) \in AllPaths /\ IsPrefix(q, Front(p))
        BY <3>2, FrontFacts DEF Named
      <4>2. q # <<>> /\ q \in AllPaths
        BY DEF Named
      <4>3. Front(p) # <<>>
        BY <4>1, <4>2, PrefixFacts
      <4>4. Front(p) \in DOMAIN tree /\ tree[Front(p)].dir
        BY <4>3 DEF ParentIsDir, IsDir
      <4> QED
        BY <4>1, <4>4 DEF Rooted, IsStrictPrefix
    <3> QED
      BY <3>1, <3>2, <1>1
  <2>2. q # p
    BY <2>1 DEF IsDir
  <2> QED
    BY <1>1, <2>1, <2>2
<1>5. \A q : IsDir(q) => IsDir(q)'
  BY <1>1 DEF IsDir
<1> QED
  BY <1>3, <1>4, <1>5

(* A leaf goes.                                                            *)
LEMMA LeafGoes ==
    ASSUME TreeFits, Rooted, NEW p \in DOMAIN tree, Children(p) = {},
           tree' = Without(tree, p), created' = created
    PROVE  TreeFits' /\ Rooted' /\ \A q : IsDir(q) /\ q # p => IsDir(q)'
<1>1. DOMAIN tree' = DOMAIN tree \ {p} /\ \A q \in DOMAIN tree' : tree'[q] = tree[q]
  BY DEF Without
<1>2. TreeFits'
  BY <1>1 DEF TreeFits, Node
<1>3. Rooted'
  <2> SUFFICES ASSUME NEW r \in DOMAIN tree', NEW q \in Named, IsStrictPrefix(q, r)
               PROVE  q \in DOMAIN tree' /\ tree'[q].dir
    BY DEF Rooted
  <2>1. r \in DOMAIN tree /\ q \in DOMAIN tree /\ tree[q].dir /\ r \in Named
    BY <1>1 DEF Rooted, TreeFits
  <2>2. ASSUME q = p PROVE FALSE
    <3>1. PICK t \in Named : Front(t) = p /\ IsPrefix(t, r)
      BY <2>1, <2>2, ChildBetween DEF Named
    <3>2. t \in DOMAIN tree
      BY <2>1, <3>1 DEF Rooted, IsStrictPrefix
    <3> QED
      BY <3>1, <3>2 DEF Children
  <2> QED
    BY <1>1, <2>1, <2>2
<1>4. \A q : IsDir(q) /\ q # p => IsDir(q)'
  BY <1>1 DEF IsDir
<1> QED
  BY <1>2, <1>3, <1>4

(* What a MOVE, of nodes or of locks, leaves at a path.                    *)
LEMMA MovedIs ==
    ASSUME NEW f, NEW s \in Named, NEW d \in Named, DOMAIN f \subseteq Named
    PROVE  LET g == Moved(f, s, d)
           IN  \A q \in DOMAIN g :
                 \/ /\ q \in DOMAIN f /\ ~IsPrefix(s, q) /\ g[q] = f[q]
                    /\ \A r \in DOMAIN f : IsPrefix(s, r) => q # Rebase(r, s, d)
                 \/ \E r \in DOMAIN f : /\ IsPrefix(s, r) /\ q = Rebase(r, s, d)
                                        /\ g[q] = f[r]
<1> DEFINE moved == {p \in DOMAIN f : IsPrefix(s, p)}
           new == {Rebase(p, s, d) : p \in moved}
           g == Moved(f, s, d)
<1>1. g = [p \in (DOMAIN f \ moved) \cup new |->
             IF p \in new THEN f[Rebase(p, d, s)] ELSE f[p]]
  BY DEF Moved
<1>2. DOMAIN g = (DOMAIN f \ moved) \cup new
  BY <1>1
<1>3. \A q \in DOMAIN g : g[q] = IF q \in new THEN f[Rebase(q, d, s)] ELSE f[q]
  BY <1>1
<1> HIDE DEF g
<1>4. ASSUME NEW q \in DOMAIN g, q \in new
      PROVE  \E r \in DOMAIN f : IsPrefix(s, r) /\ q = Rebase(r, s, d) /\ g[q] = f[r]
  <2>1. PICK r \in DOMAIN f : IsPrefix(s, r) /\ q = Rebase(r, s, d)
    BY <1>4
  <2>2. Rebase(q, d, s) = r
    BY <2>1, RebaseFacts
  <2> QED
    BY <1>3, <1>4, <2>1, <2>2
<1>5. ASSUME NEW q \in DOMAIN g, q \notin new
      PROVE  /\ q \in DOMAIN f /\ ~IsPrefix(s, q) /\ g[q] = f[q]
             /\ \A r \in DOMAIN f : IsPrefix(s, r) => q # Rebase(r, s, d)
  BY <1>2, <1>3, <1>5
<1> QED
  BY <1>4, <1>5 DEF g

LEMMA MovedHas ==
    ASSUME NEW f, NEW s \in Named, NEW d \in Named, DOMAIN f \subseteq Named,
           NEW r \in DOMAIN f
    PROVE  LET g == Moved(f, s, d)
           IN  /\ IsPrefix(s, r) => /\ Rebase(r, s, d) \in DOMAIN g
                                    /\ g[Rebase(r, s, d)] = f[r]
               /\ ~IsPrefix(s, r) => /\ r \in DOMAIN g
                                     /\ ~IsPrefix(d, r) => g[r] = f[r]
<1> DEFINE moved == {p \in DOMAIN f : IsPrefix(s, p)}
           new == {Rebase(p, s, d) : p \in moved}
           g == Moved(f, s, d)
<1>1. g = [p \in (DOMAIN f \ moved) \cup new |->
             IF p \in new THEN f[Rebase(p, d, s)] ELSE f[p]]
  BY DEF Moved
<1>2. DOMAIN g = (DOMAIN f \ moved) \cup new
  BY <1>1
<1>3. \A q \in DOMAIN g : g[q] = IF q \in new THEN f[Rebase(q, d, s)] ELSE f[q]
  BY <1>1
<1> HIDE DEF g
<1>4. ASSUME IsPrefix(s, r)
      PROVE  Rebase(r, s, d) \in DOMAIN g /\ g[Rebase(r, s, d)] = f[r]
  <2>1. Rebase(r, s, d) \in new
    BY <1>4
  <2>2. Rebase(Rebase(r, s, d), d, s) = r
    BY <1>4, RebaseFacts
  <2> QED
    BY <1>2, <1>3, <2>1, <2>2
<1>5. ASSUME ~IsPrefix(s, r) PROVE r \in DOMAIN g /\ (~IsPrefix(d, r) => g[r] = f[r])
  <2>1. r \in DOMAIN g
    BY <1>2, <1>5
  <2>2. ASSUME ~IsPrefix(d, r) PROVE r \notin new
    BY <2>2, RebaseFacts
  <2> QED
    BY <1>3, <2>1, <2>2
<1> QED
  BY <1>4, <1>5 DEF g

(* The directories of the tree a step makes.                               *)
IsDirNow(p) == p = <<>> \/ (p \in DOMAIN tree' /\ tree'[p].dir)

(* A MOVE takes a tree to a place whose directory exists, and is not below *)
(* it: nothing, a file, or an empty directory was there.                   *)
LEMMA MoveKeeps ==
    ASSUME TreeFits, Rooted, NEW s \in Named, NEW d \in Named,
           ParentIsDir(d), ~IsStrictPrefix(s, d),
           Exists(d) /\ IsDir(d) => Children(d) = {},
           tree' = Moved(tree, s, d), created' = created
    PROVE  /\ TreeFits' /\ Rooted'
           /\ \A p : IsDir(p) /\ p # d =>
                IsDirNow(IF IsPrefix(s, p) THEN Rebase(p, s, d) ELSE p)
<1>0. /\ DOMAIN tree \subseteq Named /\ Named \subseteq AllPaths
      /\ \A p \in DOMAIN tree : tree[p] \in Node
      /\ \A p, q \in DOMAIN tree : tree[p].id = tree[q].id => p = q
  BY DEF TreeFits, Named
<1>1. \A q \in DOMAIN tree' :
         \/ /\ q \in DOMAIN tree /\ ~IsPrefix(s, q) /\ tree'[q] = tree[q]
            /\ \A r \in DOMAIN tree : IsPrefix(s, r) => q # Rebase(r, s, d)
         \/ \E r \in DOMAIN tree : /\ IsPrefix(s, r) /\ q = Rebase(r, s, d)
                                   /\ tree'[q] = tree[r]
  BY <1>0, MovedIs
<1>2. \A r \in DOMAIN tree :
         /\ IsPrefix(s, r) => /\ Rebase(r, s, d) \in DOMAIN tree'
                              /\ tree'[Rebase(r, s, d)] = tree[r]
         /\ ~IsPrefix(s, r) => /\ r \in DOMAIN tree'
                               /\ ~IsPrefix(d, r) => tree'[r] = tree[r]
  BY <1>0, MovedHas
<1>3. \A r \in DOMAIN tree : IsPrefix(s, r) =>
         /\ Rebase(r, s, d) \in Named /\ IsPrefix(d, Rebase(r, s, d))
         /\ Rebase(Rebase(r, s, d), d, s) = r
  BY <1>0, RebaseFacts
<1>4. TreeFits'
  <2>1. \A q \in DOMAIN tree' : q \in Named /\ tree'[q] \in Node
    BY <1>0, <1>1, <1>3
  <2>2. Node' = Node
    BY DEF Node
  <2>3. \A p, q \in DOMAIN tree' : tree'[p].id = tree'[q].id => p = q
    <3> SUFFICES ASSUME NEW p \in DOMAIN tree', NEW q \in DOMAIN tree',
                        tree'[p].id = tree'[q].id
                 PROVE  p = q
      OBVIOUS
    <3>1. PICK x \in DOMAIN tree : /\ tree'[p] = tree[x]
                                   /\ IF IsPrefix(s, x) THEN p = Rebase(x, s, d) ELSE p = x
      BY <1>1
    <3>2. PICK y \in DOMAIN tree : /\ tree'[q] = tree[y]
                                   /\ IF IsPrefix(s, y) THEN q = Rebase(y, s, d) ELSE q = y
      BY <1>1
    <3>3. x = y
      BY <1>0, <3>1, <3>2
    <3> QED
      BY <3>1, <3>2, <3>3
  <2>4. created' \in Nat
    BY DEF TreeFits
  <2> QED
    BY <2>1, <2>2, <2>3, <2>4 DEF TreeFits
<1>5. Rooted'
  <2> SUFFICES ASSUME NEW p \in DOMAIN tree', NEW q \in Named, IsStrictPrefix(q, p)
               PROVE  q \in DOMAIN tree' /\ tree'[q].dir
    BY DEF Rooted
  <2>0. p \in AllPaths /\ q \in AllPaths /\ IsPrefix(q, p) /\ q # <<>>
    BY <1>0, <1>1, <1>3 DEF IsStrictPrefix, Named
  <2>1. CASE /\ p \in DOMAIN tree /\ ~IsPrefix(s, p)
             /\ tree'[p] = tree[p]
    <3>1. q \in DOMAIN tree /\ tree[q].dir
      BY <2>1 DEF Rooted
    <3>2. ~IsPrefix(s, q)
      BY <2>0, <2>1, <1>0, PrefixFacts
    <3>3. ASSUME IsPrefix(d, q) PROVE FALSE
      <4>1. IsPrefix(d, p) /\ d \in AllPaths
        BY <3>3, <2>0, <1>0, PrefixFacts
      <4>2. d # p
        BY <3>3, <2>0, <1>0, PrefixFacts DEF IsStrictPrefix
      <4>3. IsStrictPrefix(d, p) /\ p \in Named
        BY <4>1, <4>2, <2>1, <1>0 DEF IsStrictPrefix
      <4>4. d \in DOMAIN tree /\ tree[d].dir
        BY <4>3, <2>1 DEF Rooted
      <4>5. PICK r \in Named : Front(r) = d /\ IsPrefix(r, p)
        BY <4>1, <4>3, ChildBetween
      <4>6. r \in DOMAIN tree
        BY <4>5, <2>1 DEF Rooted, IsStrictPrefix
      <4> QED
        BY <4>4, <4>5, <4>6 DEF Exists, IsDir, Children
    <3> QED
      BY <3>1, <3>2, <3>3, <1>2
  <2>2. CASE \E r \in DOMAIN tree : IsPrefix(s, r) /\ p = Rebase(r, s, d)
    <3>1. PICK r \in DOMAIN tree : IsPrefix(s, r) /\ p = Rebase(r, s, d)
      BY <2>2
    <3>2. p \in Named /\ IsPrefix(d, p) /\ Rebase(p, d, s) = r
      BY <3>1, <1>3
    <3>3. IsPrefix(d, q) \/ IsPrefix(q, d)
      BY <3>2, <2>0, <1>0, PrefixFacts DEF Overlap
    <3>4. CASE IsPrefix(d, q)
      <4> DEFINE o == Rebase(q, d, s)
      <4>1. o \in Named /\ IsPrefix(s, o) /\ Rebase(o, s, d) = q
        BY <3>4, RebaseFacts
      <4>2. IsStrictPrefix(o, r)
        BY <3>2, <3>4, RebaseMonotone
      <4> HIDE DEF o
      <4>3. o \in DOMAIN tree /\ tree[o].dir
        BY <4>1, <4>2 DEF Rooted
      <4> QED
        BY <4>1, <4>3, <1>2
    <3>5. CASE IsPrefix(q, d) /\ ~IsPrefix(d, q)
      <4>1. IsStrictPrefix(q, d)
        BY <3>5, <1>0, PrefixFacts DEF IsStrictPrefix
      <4>2. IsPrefix(q, Front(d)) /\ Front(d) \in AllPaths
        BY <4>1, <2>0, FrontFacts
      <4>3. Front(d) # <<>>
        BY <4>2, <2>0, PrefixFacts
      <4>4. Front(d) \in DOMAIN tree /\ tree[Front(d)].dir
        BY <4>3 DEF ParentIsDir, IsDir
      <4>5. q \in DOMAIN tree /\ tree[q].dir
        BY <4>2, <4>4 DEF Rooted, IsStrictPrefix
      <4>6. ~IsPrefix(s, q)
        <5> SUFFICES ASSUME IsPrefix(s, q) PROVE FALSE
          OBVIOUS
        <5>1. IsPrefix(s, d) /\ s # d
          BY <3>5, <2>0, <1>0, PrefixFacts
        <5> QED
          BY <5>1 DEF IsStrictPrefix
      <4> QED
        BY <3>5, <4>5, <4>6, <1>2
    <3> QED
      BY <3>3, <3>4, <3>5
  <2> QED
    BY <1>1, <2>1, <2>2
<1>6. ASSUME NEW p, IsDir(p), p # d
      PROVE  IsDirNow(IF IsPrefix(s, p) THEN Rebase(p, s, d) ELSE p)
  <2>1. CASE p = <<>>
    <3>1. Len(s) \in Nat \ {0} /\ Len(<<>>) = 0
      BY EmptySeq DEF Named, AllPaths
    <3>2. ~IsPrefix(s, <<>>)
      BY <3>1 DEF IsPrefix
    <3> QED
      BY <2>1, <3>2 DEF IsDirNow
  <2>2. CASE p # <<>> /\ IsPrefix(s, p)
    <3>1. p \in DOMAIN tree /\ tree[p].dir
      BY <1>6, <2>2 DEF IsDir
    <3>2. Rebase(p, s, d) \in DOMAIN tree' /\ tree'[Rebase(p, s, d)].dir
      BY <3>1, <2>2, <1>2
    <3> QED
      BY <3>2, <2>2 DEF IsDirNow
  <2>3. CASE p # <<>> /\ ~IsPrefix(s, p)
    <3>1. p \in DOMAIN tree /\ tree[p].dir
      BY <1>6, <2>3 DEF IsDir
    <3>2. ~IsPrefix(d, p)
      <4> SUFFICES ASSUME IsPrefix(d, p) PROVE FALSE
        OBVIOUS
      <4>1. IsStrictPrefix(d, p) /\ p \in Named
        BY <1>6, <3>1, <1>0 DEF IsStrictPrefix
      <4>2. d \in DOMAIN tree /\ tree[d].dir
        BY <4>1, <3>1 DEF Rooted
      <4>3. PICK r \in Named : Front(r) = d /\ IsPrefix(r, p)
        BY <1>0, <4>1, ChildBetween
      <4>4. r \in DOMAIN tree
        BY <4>3, <3>1 DEF Rooted, IsStrictPrefix
      <4> QED
        BY <4>2, <4>3, <4>4 DEF Exists, IsDir, Children
    <3>3. p \in DOMAIN tree' /\ tree'[p].dir
      BY <3>1, <3>2, <2>3, <1>2
    <3> QED
      BY <3>3, <2>3 DEF IsDirNow
  <2> QED
    BY <2>1, <2>2, <2>3
<1> QED
  BY <1>4, <1>5, <1>6
-----------------------------------------------------------------------------
(* A step of one client's request, as the others see it.                   *)
StepOf(c) ==
    /\ HistoryFits'
    /\ pc[c] # "idle" /\ quiet' = quiet
    /\ pc'[c] # "idle" => req'[c] = req[c]
    /\ \A d \in Clients \ {c} : /\ pc'[d] = pc[d] /\ req'[d] = req[d]
                                /\ copies'[d] = copies[d]
                                /\ temp'[d] # {} => temp[d] # {}

LEMMA OthersFit ==
    ASSUME DavInv, NEW c \in Clients, StepOf(c), owner' = owner
    PROVE  \A d \in Clients \ {c} : RequestFits(d)'
<1> SUFFICES ASSUME NEW d \in Clients \ {c} PROVE RequestFits(d)'
  OBVIOUS
<1>1. RequestFits(d)
  BY DEF DavInv
<1>2. /\ pc'[d] = pc[d] /\ req'[d] = req[d] /\ copies'[d] = copies[d]
      /\ temp'[d] # {} => temp[d] # {}
  BY DEF StepOf
<1>3. Tokens(d)' = Tokens(d)
  BY DEF Tokens
<1>4. Checked(d) => Checked(d)'
  BY <1>2, <1>3 DEF Checked
<1> QED
  BY <1>1, <1>2, <1>4 DEF RequestFits

(* The locks stay as they were: so does what a quiet table satisfies.      *)
LEMMA QuietStep ==
    ASSUME DavInv, NEW c \in Clients, StepOf(c), UNCHANGED lockVars, Following => Following'
    PROVE  QuietFits'
<1> SUFFICES ASSUME quiet' PROVE (OneAtATime /\ (\A d \in Clients : pc[d] # "idle" => Covers(d))
                                   /\ Exclusive /\ Following)'
  BY DEF QuietFits
<1>0. quiet /\ pc[c] # "idle" /\ (pc'[c] # "idle" => req'[c] = req[c])
  BY DEF StepOf
<1>1. /\ OneAtATime /\ Exclusive /\ Following
      /\ \A d \in Clients : pc[d] # "idle" => Covers(d)
  BY <1>0 DEF DavInv, QuietFits
<1>2. \A d \in Clients \ {c} : pc[d] = "idle"
  BY <1>0, <1>1 DEF OneAtATime
<1>3. \A d \in Clients \ {c} : pc'[d] = "idle"
  BY <1>2 DEF StepOf
<1>4. OneAtATime'
  BY <1>3 DEF OneAtATime
<1>5. ASSUME NEW d \in Clients, pc'[d] # "idle" PROVE Covers(d)'
  <2>1. d = c
    BY <1>3, <1>5
  <2>2. Covers(c) /\ req'[c] = req[c]
    BY <1>0, <1>1, <1>5, <2>1
  <2> QED
    BY <2>1, <2>2 DEF Covers, lockVars
<1>6. Exclusive'
  BY <1>1 DEF Exclusive, lockVars
<1> QED
  BY <1>1, <1>4, <1>5, <1>6

(* Nobody begins or ends to carry locks, and every node that stays is as it*)
(* was: the locks follow as they did.                                      *)
LEMMA StillFollowing ==
    ASSUME DavInv, locks' = locks,
           \A p \in DOMAIN tree' : \/ p \in DOMAIN tree /\ tree'[p].id = tree[p].id
                                   \/ tree'[p].id > created,
           \A c \in Clients : /\ pc'[c] = "renamed" <=> pc[c] = "renamed"
                              /\ pc'[c] = "renamed" => req'[c] = req[c]
    PROVE  Following => Following'
<1> SUFFICES ASSUME Following, NEW p \in DOMAIN locks, NEW q \in DOMAIN tree',
                    tree'[q].id = locks[p].on
             PROVE  IF \E c \in Clients : pc'[c] = "renamed"
                    THEN \E c \in Clients : pc'[c] = "renamed" /\ q = Carried(c, p)'
                    ELSE q = p
  BY DEF Following
<1>1. locks[p].on \in 0..created /\ created \in Nat
  BY DEF DavInv, LocksFit, TreeFits
<1>2. q \in DOMAIN tree /\ tree[q].id = locks[p].on
  BY <1>1
<1>3. \A c \in Clients : pc'[c] = "renamed" => Carried(c, p)' = Carried(c, p)
  BY DEF Carried
<1>4. IF \E c \in Clients : pc[c] = "renamed"
      THEN \E c \in Clients : pc[c] = "renamed" /\ q = Carried(c, p)
      ELSE q = p
  BY <1>2 DEF Following
<1> QED
  BY <1>3, <1>4

LEMMA LocksStay ==
    ASSUME LocksFit, UNCHANGED lockVars, created \in Nat,
           created' = created \/ created' = created + 1
    PROVE  LocksFit'
  BY DEF LocksFit, lockVars
-----------------------------------------------------------------------------
(* What the check of the locks gives.                                      *)
LEMMA PermitsGives ==
    ASSUME DavInv, NEW c \in Clients, NEW target \in Named, NEW destination \in Named,
           NEW presents \in {{}, Tokens(c)},
           Permits(target, presents), Permits(destination, presents)
    PROVE  /\ presents \subseteq Tokens(c)
           /\ \A e \in Unpresented(presents) : /\ e[1] \in Named
                                               /\ ~Overlap(e[1], target)
                                               /\ ~Overlap(e[1], destination)
           /\ \A p \in DOMAIN locks : Overlap(p, target) \/ Overlap(p, destination)
                                        => locks[p].token \in presents
<1>1. \A p \in DOMAIN locks : p \in Named
  BY DEF DavInv, LocksFit
<1> QED
  BY <1>1 DEF Permits, Unpresented

(* A request that passed its checks.                                       *)
ChecksAs(c, op, p, d, overwrite, presents, state) ==
    /\ Arrives(c)
    /\ Permits(p, presents) /\ Permits(d, presents)
    /\ Remember(c, op, p, d, overwrite, presents)
    /\ Goes(c, state)
    /\ \/ UNCHANGED temp
       \/ /\ state = "body" /\ ParentIsDir(p)
          /\ temp' = [temp EXCEPT ![c] = {Front(p)}]
    /\ UNCHANGED <<treeVars, lockVars, copies>>

LEMMA CheckKeeps ==
    ASSUME DavInv, NEW c \in Clients, NEW presents \in {{}, Tokens(c)},
           NEW p \in Paths, NEW d \in Paths, NEW op, NEW overwrite,
           NEW state \in {"body", "create", "remove", "decide"},
           state \in {"body", "create"} => p = d,
           ChecksAs(c, op, p, d, overwrite, presents, state)
    PROVE  DavInv'
<1>0. p \in Named /\ d \in Named /\ pc[c] = "idle"
  BY PathsAssumption DEF Named, AllPaths, ChecksAs, Arrives
<1>1. HistoryFits /\ RequestFits(c) /\ LocksFit /\ TreeFits /\ Rooted
  BY DEF DavInv
<1>2. /\ pc' = [pc EXCEPT ![c] = state]
      /\ req' = [req EXCEPT ![c] =
                  [op |-> op, target |-> p, destination |-> d,
                   overwrite |-> overwrite, presents |-> presents,
                   seen |-> Unpresented(presents)]]
      /\ temp' = temp \/ (state = "body" /\ temp' = [temp EXCEPT ![c] = {Front(p)}])
      /\ copies' = copies /\ tree' = tree /\ created' = created
      /\ locks' = locks /\ owner' = owner
      /\ requests' = requests + 1 /\ requests < MaxRequests
      /\ quiet' = (quiet /\ \A e \in Clients : pc[e] = "idle")
  BY DEF ChecksAs, Arrives, Remember, Goes, treeVars, lockVars
<1>3. HistoryFits'
  BY <1>1, <1>2, DavBoundsAssumption DEF HistoryFits, Steps
<1>4. TreeFits' /\ Rooted' /\ LocksFit' /\ TempsFit'
  <2>1. TreeFits' /\ Rooted' /\ LocksFit'
    BY <1>1, <1>2 DEF TreeFits, Rooted, LocksFit, Node
  <2>2. \A q : IsDir(q)' = IsDir(q)
    BY <1>2 DEF IsDir
  <2>3. \A q \in temp'[c] : q \in temp[c] \/ IsDir(q)
    BY <1>1 DEF ChecksAs, ParentIsDir, HistoryFits
  <2>4. \A e \in Clients \ {c} : temp'[e] = temp[e]
    BY <1>1, <1>2 DEF HistoryFits
  <2>5. TempsFit
    BY DEF DavInv
  <2> QED
    BY <2>1, <2>2, <2>3, <2>4, <2>5 DEF TempsFit
<1>5. /\ presents \subseteq Tokens(c)
      /\ \A e \in Unpresented(presents) : /\ e[1] \in Named
                                          /\ ~Overlap(e[1], p)
                                          /\ ~Overlap(e[1], d)
      /\ \A r \in DOMAIN locks : Overlap(r, p) \/ Overlap(r, d) => locks[r].token \in presents
  BY <1>0, PermitsGives DEF ChecksAs
<1>6. /\ pc'[c] = state /\ copies'[c] = {}
      /\ temp'[c] # {} => state = "body"
      /\ req'[c].target = p /\ req'[c].destination = d
      /\ req'[c].presents = presents /\ req'[c].seen = Unpresented(presents)
      /\ req'[c] # NoRequest
  <2>1. /\ pc'[c] = state
        /\ req'[c] = [op |-> op, target |-> p, destination |-> d,
                      overwrite |-> overwrite, presents |-> presents,
                      seen |-> Unpresented(presents)]
    BY <1>1, <1>2 DEF HistoryFits
  <2>2. temp[c] = {} /\ copies[c] = {}
    BY <1>0, <1>1 DEF RequestFits
  <2>3. [op |-> op, target |-> p, destination |-> d,
         overwrite |-> overwrite, presents |-> presents,
         seen |-> Unpresented(presents)] # NoRequest
    BY DEF NoRequest
  <2> QED
    BY <2>1, <2>2, <2>3, <1>2
<1>7. \A e \in Clients \ {c} : /\ pc'[e] = pc[e] /\ req'[e] = req[e]
                               /\ copies'[e] = copies[e] /\ temp'[e] = temp[e]
  BY <1>1, <1>2 DEF HistoryFits
<1>8. \A e \in Clients : Tokens(e)' = Tokens(e)
  BY <1>2 DEF Tokens
<1>9. RequestFits(c)'
  <2>1. Checked(c)'
    BY <1>0, <1>5, <1>6, <1>8 DEF Checked
  <2> QED
    BY <2>1, <1>6 DEF RequestFits
<1>10. ASSUME NEW e \in Clients \ {c} PROVE RequestFits(e)'
  <2>1. Checked(e) => Checked(e)'
    BY <1>7, <1>8 DEF Checked
  <2>2. RequestFits(e)
    BY DEF DavInv
  <2> QED
    BY <2>1, <2>2, <1>7 DEF RequestFits
<1>11. QuietFits'
  <2> SUFFICES ASSUME quiet' PROVE (OneAtATime /\ (\A e \in Clients : pc[e] # "idle" => Covers(e))
                                     /\ Exclusive /\ Following)'
    BY DEF QuietFits
  <2>1. quiet /\ \A e \in Clients : pc[e] = "idle"
    BY <1>2
  <2>2. Exclusive /\ Following
    BY <2>1 DEF DavInv, QuietFits
  <2>3. \A e \in Clients \ {c} : pc'[e] = "idle"
    BY <2>1, <1>7
  <2>4. OneAtATime'
    BY <2>3 DEF OneAtATime
  <2>5. Covers(c)'
    BY <1>2, <1>5, <1>6 DEF Covers
  <2>6. Exclusive'
    BY <2>2, <1>2 DEF Exclusive
  <2>7. Following'
    <3>1. \A e \in Clients : pc[e] # "renamed" /\ pc'[e] # "renamed"
      BY <2>1, <2>3, <1>6
    <3> QED
      BY <2>2, <3>1, <1>2 DEF Following
  <2> QED
    BY <2>3, <2>4, <2>5, <2>6, <2>7
<1> QED
  BY <1>3, <1>4, <1>9, <1>10, <1>11 DEF DavInv
-----------------------------------------------------------------------------
(* The steps of a request after its checks.                                *)
LEMMA ActiveFits ==
    ASSUME DavInv, NEW c \in Clients, pc[c] # "idle"
    PROVE  /\ Checked(c) /\ HistoryFits /\ TreeFits /\ Rooted /\ LocksFit /\ TempsFit
           /\ created \in Nat
           /\ temp[c] # {} => pc[c] = "body"
           /\ copies[c] # {} <=> pc[c] = "copy"
  BY DEF DavInv, RequestFits, TreeFits

LEMMA EndsFits ==
    ASSUME DavInv, NEW c \in Clients, Ends(c), temp'[c] = {}, copies'[c] = {}
    PROVE  RequestFits(c)'
<1>1. pc'[c] = "idle" /\ req'[c] = NoRequest
  BY DEF DavInv, HistoryFits, Ends, Goes
<1> QED
  BY <1>1 DEF RequestFits

LEMMA EndsIs ==
    ASSUME HistoryFits, NEW c \in Clients, Ends(c)
    PROVE  /\ pc' \in [Clients -> Steps] /\ req' = [d \in Clients |-> req'[d]]
           /\ pc'[c] = "idle" /\ req'[c] = NoRequest
           /\ \A d \in Clients \ {c} : pc'[d] = pc[d] /\ req'[d] = req[d]
  BY DEF HistoryFits, Ends, Goes, Steps

LEMMA GoesIs ==
    ASSUME HistoryFits, NEW c \in Clients, NEW state \in Steps, Goes(c, state), req' = req
    PROVE  /\ pc' \in [Clients -> Steps] /\ req' = [d \in Clients |-> req'[d]]
           /\ pc'[c] = state
           /\ \A d \in Clients \ {c} : pc'[d] = pc[d] /\ req'[d] = req[d]
  BY DEF HistoryFits, Goes, Steps


(* The pairs a step leaves to copy.                                        *)
CopiesFit(c) ==
    /\ copies' = [d \in Clients |-> copies'[d]]
    /\ \A d \in Clients \ {c} : copies'[d] = copies[d]
    /\ copies'[c] # {} <=> pc'[c] = "copy"
    /\ \A pair \in copies'[c] : /\ pair[1] \in Named /\ pair[2] \in Named
                                /\ IsPrefix(req[c].destination, pair[2])

LEMMA FirstPairFits ==
    ASSUME HistoryFits, NEW c \in Clients, Checked(c), pc'[c] = "copy",
           copies' = [copies EXCEPT ![c] = {<<req[c].target, req[c].destination>>}]
    PROVE  CopiesFit(c)
<1>1. /\ req[c].target \in Named /\ req[c].destination \in Named
      /\ IsPrefix(req[c].destination, req[c].destination)
  BY PrefixFacts DEF Checked, Named
<1>2. /\ copies' = [d \in Clients |-> copies'[d]]
      /\ \A d \in Clients \ {c} : copies'[d] = copies[d]
      /\ copies'[c] = {<<req[c].target, req[c].destination>>}
  BY DEF HistoryFits
<1>3. /\ copies'[c] # {}
      /\ \A pair \in copies'[c] : /\ pair[1] \in Named /\ pair[2] \in Named
                                  /\ IsPrefix(req[c].destination, pair[2])
  <2>1. \A pair \in copies'[c] : /\ pair[1] = req[c].target
                                 /\ pair[2] = req[c].destination
    BY <1>2
  <2> QED
    BY <1>1, <1>2, <2>1
<1> QED
  BY <1>2, <1>3 DEF CopiesFit

LEMMA ContinuesFits ==
    ASSUME DavInv, NEW c \in Clients, pc[c] # "idle",
           pc'[c] \notin {"idle", "body", "create"},
           req'[c] = req[c], owner' = owner, temp'[c] = {}, CopiesFit(c)
    PROVE  RequestFits(c)'
<1>1. Checked(c) /\ req[c] # NoRequest
  BY DEF DavInv, RequestFits
<1>2. Tokens(c)' = Tokens(c)
  BY DEF Tokens
<1>3. Checked(c)'
  BY <1>1, <1>2 DEF Checked, CopiesFit
<1> QED
  BY <1>1, <1>3 DEF RequestFits, CopiesFit

LEMMA PutEndsKeeps ==
    ASSUME DavInv, NEW c \in Clients, PutEnds(c) \/ MkcolEnds(c)
    PROVE  DavInv'
<1>0. pc[c] \in {"body", "create"}
  BY DEF PutEnds, MkcolEnds
<1>1. /\ Checked(c) /\ HistoryFits /\ TreeFits /\ Rooted /\ LocksFit /\ TempsFit
      /\ created \in Nat
      /\ temp[c] # {} => pc[c] = "body"
      /\ copies[c] # {} <=> pc[c] = "copy"
  BY <1>0, ActiveFits
<1> DEFINE p == req[c].target
<1>2. p \in Named
  BY <1>1 DEF Checked
<1>3. /\ Ends(c) /\ locks' = locks /\ owner' = owner /\ created' = created + 1
      /\ copies' = copies /\ requests' = requests /\ quiet' = quiet
      /\ temp' = temp \/ temp' = [temp EXCEPT ![c] = {}]
  BY DEF PutEnds, MkcolEnds, lockVars
<1>4. \E b \in BOOLEAN : ParentIsDir(p) /\ ~IsDir(p) /\ tree' = Put(tree, p, NewNode(b))
  <2>1. CASE PutEnds(c)
    <3>1. Front(p) \in temp[c] /\ ~IsDir(p) /\ tree' = Put(tree, p, NewNode(FALSE))
      BY <2>1 DEF PutEnds
    <3>2. IsDir(Front(p))
      BY <3>1, <1>1 DEF TempsFit
    <3> QED
      BY <3>1, <3>2 DEF ParentIsDir
  <2>2. CASE MkcolEnds(c)
    BY <2>2 DEF MkcolEnds, Exists, IsDir
  <2> QED
    BY <2>1, <2>2
<1> HIDE DEF p
<1>5. TreeFits' /\ Rooted' /\ \A q : IsDir(q) => IsDir(q)'
  BY <1>1, <1>2, <1>3, <1>4, PutKeeps
<1>6. /\ pc' \in [Clients -> Steps] /\ req' = [d \in Clients |-> req'[d]]
      /\ pc'[c] = "idle" /\ req'[c] = NoRequest
      /\ \A d \in Clients \ {c} : pc'[d] = pc[d] /\ req'[d] = req[d]
  BY <1>1, <1>3, EndsIs
<1>7. /\ temp' = [d \in Clients |-> temp'[d]]
      /\ \A d \in Clients \ {c} : temp'[d] = temp[d]
      /\ temp'[c] = {}
  <2>1. temp' = temp => temp[c] = {}
    BY <1>1, <1>3 DEF PutEnds, MkcolEnds, HistoryFits
  <2> QED
    BY <1>1, <1>3, <2>1 DEF HistoryFits
<1>8. HistoryFits'
  BY <1>1, <1>3, <1>6, <1>7 DEF HistoryFits
<1>9. StepOf(c)
  BY <1>0, <1>3, <1>6, <1>7, <1>8 DEF StepOf
<1>10. LocksFit'
  BY <1>1, <1>3, LocksStay DEF lockVars
<1>11. TempsFit'
  BY <1>1, <1>5, <1>7 DEF TempsFit
<1>12. \A d \in Clients : RequestFits(d)'
  <2>1. copies'[c] = {}
    BY <1>0, <1>1, <1>3
  <2>2. RequestFits(c)'
    BY <1>3, <1>7, <2>1, EndsFits
  <2> QED
    BY <1>3, <1>9, <2>2, OthersFit
<1>13. QuietFits'
  <2>1. \A q \in DOMAIN tree' : \/ q \in DOMAIN tree /\ tree'[q].id = tree[q].id
                                \/ tree'[q].id > created
    BY <1>1, <1>4 DEF Put, NewNode
  <2>2. \A d \in Clients : /\ pc'[d] = "renamed" <=> pc[d] = "renamed"
                           /\ pc'[d] = "renamed" => req'[d] = req[d]
    BY <1>0, <1>6
  <2>3. Following => Following'
    BY <1>3, <2>1, <2>2, StillFollowing
  <2> QED
    BY <1>3, <1>9, <2>3, QuietStep DEF lockVars
<1> QED
  BY <1>5, <1>8, <1>10, <1>11, <1>12, <1>13 DEF DavInv

LEMMA DecideKeeps ==
    ASSUME DavInv, NEW c \in Clients, Decide(c)
    PROVE  DavInv'
<1>0. pc[c] = "decide"
  BY DEF Decide
<1>1. /\ Checked(c) /\ HistoryFits /\ TreeFits /\ Rooted /\ LocksFit /\ TempsFit
      /\ created \in Nat
      /\ temp[c] # {} => pc[c] = "body"
      /\ copies[c] # {} <=> pc[c] = "copy"
  BY <1>0, ActiveFits
<1>2. /\ tree' = tree /\ created' = created /\ locks' = locks /\ owner' = owner
      /\ req' = req /\ temp' = temp /\ requests' = requests /\ quiet' = quiet
  BY DEF Decide, treeVars, lockVars
<1>3. \/ copies' = copies /\ (Goes(c, "remove") \/ Goes(c, "rename"))
      \/ /\ copies' = [copies EXCEPT ![c] = {<<req[c].target, req[c].destination>>}]
         /\ Goes(c, "copy")
  BY DEF Decide, CopyOrRename
<1>4. /\ pc' \in [Clients -> Steps] /\ req' = [d \in Clients |-> req'[d]]
      /\ pc'[c] \in {"remove", "rename", "copy"}
      /\ pc'[c] = "copy" <=> Goes(c, "copy")
      /\ \A d \in Clients \ {c} : pc'[d] = pc[d] /\ req'[d] = req[d]
  <2>1. ASSUME NEW state \in {"remove", "rename", "copy"}, Goes(c, state)
        PROVE  /\ pc' \in [Clients -> Steps] /\ req' = [d \in Clients |-> req'[d]]
               /\ pc'[c] = state
               /\ \A d \in Clients \ {c} : pc'[d] = pc[d] /\ req'[d] = req[d]
    BY <2>1, <1>1, <1>2, GoesIs DEF Steps
  <2> QED
    BY <1>3, <2>1
<1>5. CopiesFit(c)
  <2>1. CASE copies' = copies /\ pc'[c] # "copy"
    BY <2>1, <1>0, <1>1 DEF CopiesFit, HistoryFits
  <2>2. CASE /\ copies' = [copies EXCEPT ![c] = {<<req[c].target, req[c].destination>>}]
             /\ pc'[c] = "copy"
    BY <2>2, <1>1, FirstPairFits
  <2>3. ASSUME NEW state \in {"remove", "rename"}, Goes(c, state) PROVE pc'[c] = state
    BY <2>3, <1>1 DEF HistoryFits, Goes
  <2> QED
    BY <1>3, <1>4, <2>1, <2>2, <2>3
<1>6. HistoryFits'
  BY <1>1, <1>2, <1>4, <1>5 DEF HistoryFits, CopiesFit
<1>7. StepOf(c)
  BY <1>0, <1>2, <1>4, <1>5, <1>6 DEF StepOf, CopiesFit
<1>8. LocksFit' /\ TreeFits' /\ Rooted' /\ TempsFit'
  <2>1. \A q : IsDir(q)' = IsDir(q)
    BY <1>2 DEF IsDir
  <2> QED
    BY <1>1, <1>2, <2>1 DEF LocksFit, TreeFits, Rooted, TempsFit, Node
<1>9. \A d \in Clients : RequestFits(d)'
  <2>1. RequestFits(c)'
    BY <1>0, <1>1, <1>2, <1>4, <1>5, ContinuesFits
  <2> QED
    BY <1>2, <1>7, <2>1, OthersFit
<1>10. QuietFits'
  <2>1. \A q \in DOMAIN tree' : \/ q \in DOMAIN tree /\ tree'[q].id = tree[q].id
                                \/ tree'[q].id > created
    BY <1>2
  <2>2. \A d \in Clients : /\ pc'[d] = "renamed" <=> pc[d] = "renamed"
                           /\ pc'[d] = "renamed" => req'[d] = req[d]
    BY <1>0, <1>2, <1>4
  <2>3. Following => Following'
    BY <1>2, <2>1, <2>2, StillFollowing
  <2> QED
    BY <1>2, <1>7, <2>3, QuietStep DEF lockVars
<1> QED
  BY <1>6, <1>8, <1>9, <1>10 DEF DavInv

LEMMA RemovesKeeps ==
    ASSUME DavInv, NEW c \in Clients, Removes(c)
    PROVE  DavInv'
<1>0. pc[c] = "remove"
  BY DEF Removes
<1>1. /\ Checked(c) /\ HistoryFits /\ TreeFits /\ Rooted /\ LocksFit /\ TempsFit
      /\ created \in Nat
      /\ temp[c] # {} => pc[c] = "body"
      /\ copies[c] # {} <=> pc[c] = "copy"
  BY <1>0, ActiveFits
<1>2. PICK p \in DOMAIN tree :
         /\ Children(p) = {}
         /\ tree' = Without(tree, p)
         /\ temp' = [d \in Clients |-> temp[d] \ {p}]
         /\ IF p # req[c].destination THEN UNCHANGED <<pc, req, copies>>
            ELSE IF req[c].op = "DELETE" THEN Ends(c) /\ UNCHANGED copies
            ELSE CopyOrRename(c) /\ UNCHANGED req
  BY DEF Removes
<1>3. /\ created' = created /\ locks' = locks /\ owner' = owner
      /\ requests' = requests /\ quiet' = quiet
  BY DEF Removes, lockVars
<1>4. TreeFits' /\ Rooted' /\ \A q : IsDir(q) /\ q # p => IsDir(q)'
  BY <1>1, <1>2, <1>3, LeafGoes
<1>5. \/ Ends(c) /\ copies' = copies
      \/ /\ req' = req
         /\ \/ copies' = copies /\ (pc' = pc \/ Goes(c, "rename"))
            \/ /\ copies' = [copies EXCEPT ![c] = {<<req[c].target, req[c].destination>>}]
               /\ Goes(c, "copy")
  BY <1>2 DEF CopyOrRename
<1>6. /\ pc' \in [Clients -> Steps] /\ req' = [d \in Clients |-> req'[d]]
      /\ pc'[c] \in {"idle", "remove", "rename", "copy"}
      /\ pc'[c] = "idle" <=> Ends(c)
      /\ pc'[c] = "copy" <=> Goes(c, "copy")
      /\ pc'[c] # "idle" => req' = req
      /\ \A d \in Clients \ {c} : pc'[d] = pc[d] /\ req'[d] = req[d]
  <2>1. ASSUME NEW state \in {"rename", "copy"}, Goes(c, state), req' = req
        PROVE  /\ pc' \in [Clients -> Steps] /\ req' = [d \in Clients |-> req'[d]]
               /\ pc'[c] = state
               /\ \A d \in Clients \ {c} : pc'[d] = pc[d] /\ req'[d] = req[d]
    BY <2>1, <1>1, GoesIs DEF Steps
  <2>2. ASSUME Ends(c)
        PROVE  /\ pc' \in [Clients -> Steps] /\ req' = [d \in Clients |-> req'[d]]
               /\ pc'[c] = "idle"
               /\ \A d \in Clients \ {c} : pc'[d] = pc[d] /\ req'[d] = req[d]
    BY <2>2, <1>1, EndsIs
  <2>3. ASSUME req' = req, pc' = pc
        PROVE  /\ pc' \in [Clients -> Steps] /\ req' = [d \in Clients |-> req'[d]]
               /\ pc'[c] = "remove"
               /\ \A d \in Clients \ {c} : pc'[d] = pc[d] /\ req'[d] = req[d]
    BY <2>3, <1>0, <1>1 DEF HistoryFits
  <2>4. Goes(c, "copy") => pc'[c] = "copy"
    BY <1>1 DEF HistoryFits, Goes
  <2> QED
    BY <1>5, <2>1, <2>2, <2>3, <2>4
<1>7. \A d \in Clients : temp'[d] = temp[d] \ {p}
  BY <1>2
<1>8. CopiesFit(c)
  <2>1. CASE copies' = copies /\ pc'[c] # "copy"
    BY <2>1, <1>0, <1>1 DEF CopiesFit, HistoryFits
  <2>2. CASE /\ copies' = [copies EXCEPT ![c] = {<<req[c].target, req[c].destination>>}]
             /\ pc'[c] = "copy"
    BY <2>2, <1>1, FirstPairFits
  <2>3. Goes(c, "rename") => pc'[c] = "rename"
    BY <1>1 DEF HistoryFits, Goes
  <2> QED
    BY <1>0, <1>5, <1>6, <2>1, <2>2, <2>3
<1>9. HistoryFits'
  BY <1>1, <1>2, <1>3, <1>6, <1>8 DEF HistoryFits, CopiesFit
<1>10. StepOf(c)
  BY <1>0, <1>3, <1>6, <1>7, <1>8, <1>9 DEF StepOf, CopiesFit
<1>11. LocksFit'
  BY <1>1, <1>3, LocksStay DEF lockVars
<1>12. TempsFit'
  BY <1>1, <1>4, <1>7 DEF TempsFit
<1>13. \A d \in Clients : RequestFits(d)'
  <2>1. temp'[c] = {}
    BY <1>0, <1>1, <1>7
  <2>2. CASE Ends(c)
    <3>1. copies'[c] = {}
      BY <2>2, <1>6, <1>8 DEF CopiesFit
    <3>2. RequestFits(c)'
      BY <2>1, <2>2, <3>1, EndsFits
    <3> QED
      BY <1>3, <1>10, <3>2, OthersFit
  <2>3. CASE ~Ends(c)
    <3>1. pc'[c] # "idle" /\ pc'[c] \notin {"body", "create"}
      BY <2>3, <1>6
    <3>2. RequestFits(c)'
      BY <2>1, <3>1, <1>0, <1>3, <1>6, <1>8, ContinuesFits
    <3> QED
      BY <1>3, <1>10, <3>2, OthersFit
  <2> QED
    BY <2>2, <2>3
<1>14. QuietFits'
  <2>1. \A q \in DOMAIN tree' : \/ q \in DOMAIN tree /\ tree'[q].id = tree[q].id
                                \/ tree'[q].id > created
    BY <1>2 DEF Without
  <2>2. \A d \in Clients : /\ pc'[d] = "renamed" <=> pc[d] = "renamed"
                           /\ pc'[d] = "renamed" => req'[d] = req[d]
    BY <1>0, <1>6
  <2>3. Following => Following'
    BY <1>3, <2>1, <2>2, StillFollowing
  <2> QED
    BY <1>3, <1>10, <2>3, QuietStep DEF lockVars
<1> QED
  BY <1>4, <1>9, <1>11, <1>12, <1>13, <1>14 DEF DavInv

LEMMA FailsKeeps ==
    ASSUME DavInv, NEW c \in Clients, Fails(c)
    PROVE  DavInv'
<1>0. pc[c] \notin {"idle", "renamed"}
  BY DEF Fails
<1>1. /\ Checked(c) /\ HistoryFits /\ TreeFits /\ Rooted /\ LocksFit /\ TempsFit
      /\ created \in Nat
      /\ temp[c] # {} => pc[c] = "body"
      /\ copies[c] # {} <=> pc[c] = "copy"
  BY <1>0, ActiveFits
<1>2. /\ Ends(c)
      /\ temp' = [temp EXCEPT ![c] = {}] /\ copies' = [copies EXCEPT ![c] = {}]
      /\ tree' = tree /\ created' = created /\ locks' = locks /\ owner' = owner
      /\ requests' = requests /\ quiet' = quiet
  BY DEF Fails, treeVars, lockVars
<1>3. /\ pc' \in [Clients -> Steps] /\ req' = [d \in Clients |-> req'[d]]
      /\ pc'[c] = "idle" /\ req'[c] = NoRequest
      /\ \A d \in Clients \ {c} : pc'[d] = pc[d] /\ req'[d] = req[d]
  BY <1>1, <1>2, EndsIs
<1>4. /\ temp' = [d \in Clients |-> temp'[d]] /\ copies' = [d \in Clients |-> copies'[d]]
      /\ \A d \in Clients \ {c} : temp'[d] = temp[d] /\ copies'[d] = copies[d]
      /\ temp'[c] = {} /\ copies'[c] = {}
  BY <1>1, <1>2 DEF HistoryFits
<1>5. HistoryFits'
  BY <1>1, <1>2, <1>3, <1>4 DEF HistoryFits
<1>6. StepOf(c)
  BY <1>0, <1>2, <1>3, <1>4, <1>5 DEF StepOf
<1>7. LocksFit' /\ TreeFits' /\ Rooted' /\ TempsFit'
  <2>1. \A q : IsDir(q)' = IsDir(q)
    BY <1>2 DEF IsDir
  <2>2. TempsFit'
    BY <1>1, <1>4, <2>1 DEF TempsFit
  <2> QED
    BY <1>1, <1>2, <2>2 DEF LocksFit, TreeFits, Rooted, Node
<1>8. \A d \in Clients : RequestFits(d)'
  <2>1. RequestFits(c)'
    BY <1>2, <1>4, EndsFits
  <2> QED
    BY <1>2, <1>6, <2>1, OthersFit
<1>9. QuietFits'
  <2>1. \A q \in DOMAIN tree' : \/ q \in DOMAIN tree /\ tree'[q].id = tree[q].id
                                \/ tree'[q].id > created
    BY <1>2
  <2>2. \A d \in Clients : /\ pc'[d] = "renamed" <=> pc[d] = "renamed"
                           /\ pc'[d] = "renamed" => req'[d] = req[d]
    BY <1>0, <1>3
  <2>3. Following => Following'
    BY <1>2, <2>1, <2>2, StillFollowing
  <2> QED
    BY <1>2, <1>6, <2>3, QuietStep DEF lockVars
<1> QED
  BY <1>5, <1>7, <1>8, <1>9 DEF DavInv

LEMMA CopiesKeeps ==
    ASSUME DavInv, NEW c \in Clients, Copies(c)
    PROVE  DavInv'
<1>0. pc[c] = "copy"
  BY DEF Copies
<1>1. /\ Checked(c) /\ HistoryFits /\ TreeFits /\ Rooted /\ LocksFit /\ TempsFit
      /\ created \in Nat
      /\ temp[c] # {} => pc[c] = "body"
      /\ copies[c] # {} <=> pc[c] = "copy"
  BY <1>0, ActiveFits
<1>2. PICK pair \in copies[c] :
         LET source == pair[1]
             destination == pair[2]
             inside == IF IsDir(source)
                       THEN {<<p, Rebase(p, source, destination)>> : p \in Children(source)}
                       ELSE {}
         IN  /\ Exists(source)
             /\ ParentIsDir(destination)
             /\ IF IsDir(source) THEN ~Exists(destination) ELSE ~IsDir(destination)
             /\ IF Exists(destination)
                THEN UNCHANGED treeVars
                ELSE /\ tree' = Put(tree, destination, NewNode(IsDir(source)))
                     /\ created' = created + 1
             /\ copies' = [copies EXCEPT ![c] = (@ \ {pair}) \cup inside]
  BY DEF Copies
<1> DEFINE source == pair[1]
           destination == pair[2]
           inside == IF IsDir(source)
                     THEN {<<p, Rebase(p, source, destination)>> : p \in Children(source)}
                     ELSE {}
<1>3. /\ ParentIsDir(destination)
      /\ \/ tree' = tree /\ created' = created
         \/ /\ \E b \in BOOLEAN : tree' = Put(tree, destination, NewNode(b))
            /\ ~IsDir(destination) /\ created' = created + 1
      /\ copies' = [copies EXCEPT ![c] = (copies[c] \ {pair}) \cup inside]
  <2>1. IsDir(source) \in BOOLEAN
    BY <1>1 DEF IsDir, TreeFits, Node
  <2>2. ~Exists(destination) => ~IsDir(destination)
    BY DEF Exists, IsDir
  <2> QED
    BY <1>2, <2>1, <2>2 DEF treeVars
<1>4. /\ IF copies'[c] = {} THEN Ends(c) ELSE pc' = pc /\ req' = req
      /\ locks' = locks /\ owner' = owner /\ temp' = temp
      /\ requests' = requests /\ quiet' = quiet
  BY DEF Copies, lockVars
<1>5. source \in Named /\ destination \in Named /\ IsPrefix(req[c].destination, destination)
  BY <1>1 DEF Checked
<1>6. \A p \in Children(source) : /\ p \in Named
                                  /\ Rebase(p, source, destination) \in Named
                                  /\ IsPrefix(req[c].destination, Rebase(p, source, destination))
  <2> SUFFICES ASSUME NEW p \in Children(source)
               PROVE  /\ p \in Named
                      /\ Rebase(p, source, destination) \in Named
                      /\ IsPrefix(req[c].destination, Rebase(p, source, destination))
    OBVIOUS
  <2> DEFINE r == Rebase(p, source, destination)
  <2>1. p \in Named /\ Front(p) = source
    BY <1>1 DEF Children, TreeFits
  <2>2. IsPrefix(source, p)
    BY <2>1, FrontFacts DEF IsStrictPrefix
  <2>3. r \in Named /\ IsPrefix(destination, r)
    BY <1>5, <2>1, <2>2, RebaseFacts
  <2> HIDE DEF r
  <2>4. req[c].destination \in AllPaths /\ destination \in AllPaths /\ r \in AllPaths
    BY <1>1, <1>5, <2>3 DEF Checked, Named
  <2>5. IsPrefix(req[c].destination, r)
    BY <1>5, <2>3, <2>4, PrefixFacts
  <2> QED
    BY <2>1, <2>3, <2>5 DEF r
<1>7. \A e \in inside : /\ e[1] \in Named /\ e[2] \in Named
                        /\ IsPrefix(req[c].destination, e[2])
  BY <1>6
<1> HIDE DEF source, destination, inside
<1>8. /\ copies' = [d \in Clients |-> copies'[d]]
      /\ \A d \in Clients \ {c} : copies'[d] = copies[d]
      /\ copies'[c] = (copies[c] \ {pair}) \cup inside
  BY <1>1, <1>3 DEF HistoryFits
<1>9. /\ pc' \in [Clients -> Steps] /\ req' = [d \in Clients |-> req'[d]]
      /\ pc'[c] = IF copies'[c] = {} THEN "idle" ELSE "copy"
      /\ pc'[c] # "idle" => req' = req
      /\ \A d \in Clients \ {c} : pc'[d] = pc[d] /\ req'[d] = req[d]
  <2>1. CASE copies'[c] = {}
    BY <2>1, <1>1, <1>4, EndsIs
  <2>2. CASE copies'[c] # {}
    BY <2>2, <1>0, <1>1, <1>4 DEF HistoryFits
  <2> QED
    BY <2>1, <2>2
<1>10. CopiesFit(c)
  <2>1. \A e \in copies[c] : /\ e[1] \in Named /\ e[2] \in Named
                             /\ IsPrefix(req[c].destination, e[2])
    BY <1>1 DEF Checked
  <2> QED
    BY <1>7, <1>8, <1>9, <2>1 DEF CopiesFit
<1>11. HistoryFits'
  BY <1>1, <1>4, <1>8, <1>9 DEF HistoryFits
<1>12. StepOf(c)
  BY <1>0, <1>4, <1>8, <1>9, <1>11 DEF StepOf
<1>13. /\ TreeFits' /\ Rooted' /\ \A q : IsDir(q) => IsDir(q)'
       /\ \A q \in DOMAIN tree' : \/ q \in DOMAIN tree /\ tree'[q].id = tree[q].id
                                  \/ tree'[q].id > created
       /\ created' = created \/ created' = created + 1
  <2>1. CASE tree' = tree /\ created' = created
    BY <2>1, <1>1 DEF TreeFits, Rooted, Node, IsDir
  <2>2. ASSUME NEW b \in BOOLEAN, tree' = Put(tree, destination, NewNode(b)),
               ~IsDir(destination), created' = created + 1
        PROVE  /\ TreeFits' /\ Rooted' /\ \A q : IsDir(q) => IsDir(q)'
               /\ \A q \in DOMAIN tree' : \/ q \in DOMAIN tree /\ tree'[q].id = tree[q].id
                                          \/ tree'[q].id > created
    <3>1. TreeFits' /\ Rooted' /\ \A q : IsDir(q) => IsDir(q)'
      BY <2>2, <1>1, <1>3, <1>5, PutKeeps
    <3>2. \A q \in DOMAIN tree' : \/ q \in DOMAIN tree /\ tree'[q].id = tree[q].id
                                  \/ tree'[q].id > created
      BY <2>2, <1>1 DEF Put, NewNode
    <3> QED
      BY <3>1, <3>2
  <2> QED
    BY <1>3, <2>1, <2>2
<1>14. LocksFit'
  BY <1>1, <1>4, <1>13, LocksStay DEF lockVars
<1>15. TempsFit'
  BY <1>1, <1>4, <1>13 DEF TempsFit
<1>16. \A d \in Clients : RequestFits(d)'
  <2>1. temp'[c] = {}
    BY <1>0, <1>1, <1>4
  <2>2. CASE copies'[c] = {}
    <3>1. RequestFits(c)'
      BY <1>4, <2>1, <2>2, EndsFits
    <3> QED
      BY <1>4, <1>12, <3>1, OthersFit
  <2>3. CASE copies'[c] # {}
    <3>1. RequestFits(c)'
      BY <2>1, <2>3, <1>0, <1>4, <1>9, <1>10, ContinuesFits
    <3> QED
      BY <1>4, <1>12, <3>1, OthersFit
  <2> QED
    BY <2>2, <2>3
<1>17. QuietFits'
  <2>1. \A d \in Clients : /\ pc'[d] = "renamed" <=> pc[d] = "renamed"
                           /\ pc'[d] = "renamed" => req'[d] = req[d]
    BY <1>0, <1>9
  <2>2. Following => Following'
    BY <1>4, <1>13, <2>1, StillFollowing
  <2> QED
    BY <1>4, <1>12, <2>2, QuietStep DEF lockVars
<1> QED
  BY <1>11, <1>13, <1>14, <1>15, <1>16, <1>17 DEF DavInv

LEMMA RenameKeeps ==
    ASSUME DavInv, NEW c \in Clients, Rename(c)
    PROVE  DavInv'
<1> DEFINE s == req[c].target
           d == req[c].destination
<1>0. pc[c] = "rename"
  BY DEF Rename
<1>1. /\ Checked(c) /\ HistoryFits /\ TreeFits /\ Rooted /\ LocksFit /\ TempsFit
      /\ created \in Nat
      /\ temp[c] # {} => pc[c] = "body"
      /\ copies[c] # {} <=> pc[c] = "copy"
  BY <1>0, ActiveFits
<1>2. /\ s \in Named /\ d \in Named
      /\ ParentIsDir(d) /\ ~IsStrictPrefix(s, d)
      /\ Exists(d) /\ IsDir(d) => IsEmpty(d)
      /\ tree' = Moved(tree, s, d)
      /\ temp' = [e \in Clients |->
                    {IF IsPrefix(s, p) THEN Rebase(p, s, d) ELSE p : p \in temp[e]}]
      /\ Goes(c, "renamed")
      /\ created' = created /\ locks' = locks /\ owner' = owner /\ req' = req
      /\ copies' = copies /\ requests' = requests /\ quiet' = quiet
  BY <1>1 DEF Rename, Checked, lockVars
<1> HIDE DEF s, d
<1>3. Exists(d) /\ IsDir(d) => Children(d) = {} /\ \A e \in Clients : d \notin temp[e]
  BY <1>2 DEF IsEmpty
<1>4. /\ TreeFits' /\ Rooted'
      /\ \A p : IsDir(p) /\ p # d => IsDirNow(IF IsPrefix(s, p) THEN Rebase(p, s, d) ELSE p)
  BY <1>1, <1>2, <1>3, MoveKeeps
<1>5. /\ pc' \in [Clients -> Steps] /\ req' = [e \in Clients |-> req'[e]]
      /\ pc'[c] = "renamed"
      /\ \A e \in Clients \ {c} : pc'[e] = pc[e] /\ req'[e] = req[e]
  BY <1>1, <1>2, GoesIs DEF Steps
<1>6. /\ temp' = [e \in Clients |-> temp'[e]]
      /\ \A e \in Clients : temp'[e] # {} => temp[e] # {}
      /\ temp'[c] = {}
  <2>1. \A e \in Clients : temp'[e] = {IF IsPrefix(s, p) THEN Rebase(p, s, d) ELSE p : p \in temp[e]}
    BY <1>2
  <2>2. temp[c] = {}
    BY <1>0, <1>1
  <2> QED
    BY <1>2, <2>1, <2>2
<1>7. HistoryFits'
  BY <1>1, <1>2, <1>5, <1>6 DEF HistoryFits
<1>8. StepOf(c)
  BY <1>0, <1>2, <1>5, <1>6, <1>7 DEF StepOf
<1>9. LocksFit'
  BY <1>1, <1>2, LocksStay DEF lockVars
<1>10. TempsFit'
  <2> SUFFICES ASSUME NEW e \in Clients, NEW q \in temp'[e] PROVE IsDir(q)'
    BY DEF TempsFit
  <2>1. PICK p \in temp[e] : q = IF IsPrefix(s, p) THEN Rebase(p, s, d) ELSE p
    BY <1>2
  <2>2. IsDir(p)
    BY <1>1 DEF TempsFit
  <2>3. p # d
    <3> SUFFICES ASSUME p = d PROVE FALSE
      OBVIOUS
    <3>1. Exists(d) /\ IsDir(d)
      BY <2>2 DEF IsDir, Exists
    <3> QED
      BY <3>1, <1>3
  <2>4. IsDirNow(q)
    BY <2>1, <2>2, <2>3, <1>4
  <2> QED
    BY <2>4 DEF IsDirNow, IsDir
<1>11. \A e \in Clients : RequestFits(e)'
  <2>1. CopiesFit(c)
    BY <1>0, <1>1, <1>2, <1>5 DEF CopiesFit, HistoryFits
  <2>2. RequestFits(c)'
    BY <1>0, <1>2, <1>5, <1>6, <2>1, ContinuesFits
  <2> QED
    BY <1>2, <1>8, <2>2, OthersFit
<1>12. QuietFits'
  <2>1. CASE ~quiet
    BY <2>1, <1>2 DEF QuietFits
  <2>2. CASE quiet
    <3>1. OneAtATime /\ Following
      BY <2>2 DEF DavInv, QuietFits
    <3>2. \A e \in Clients : pc[e] # "renamed"
      BY <3>1, <1>0 DEF OneAtATime
    <3>3. \A p \in DOMAIN locks, q \in DOMAIN tree : tree[q].id = locks[p].on => q = p
      BY <3>1, <3>2 DEF Following
    <3>4. Following'
      <4> SUFFICES ASSUME NEW p \in DOMAIN locks, NEW q \in DOMAIN tree',
                          tree'[q].id = locks[p].on
                   PROVE  q = Carried(c, p)'
        BY <1>2, <1>5 DEF Following
      <4>1. DOMAIN tree \subseteq Named
        BY <1>1 DEF TreeFits
      <4>2. PICK r \in DOMAIN tree : /\ tree'[q] = tree[r]
                                     /\ IF IsPrefix(s, r) THEN q = Rebase(r, s, d) ELSE q = r
        <5>1. LET g == tree'
              IN  \A x \in DOMAIN g :
                    \/ /\ x \in DOMAIN tree /\ ~IsPrefix(s, x) /\ g[x] = tree[x]
                       /\ \A r \in DOMAIN tree : IsPrefix(s, r) => x # Rebase(r, s, d)
                    \/ \E r \in DOMAIN tree : /\ IsPrefix(s, r) /\ x = Rebase(r, s, d)
                                              /\ g[x] = tree[r]
          BY <4>1, <1>2, MovedIs
        <5> QED
          BY <5>1
      <4>3. r = p
        BY <4>2, <3>3
      <4>4. Carried(c, p)' = IF IsPrefix(s, p) THEN Rebase(p, s, d) ELSE p
        BY <1>2, <1>5 DEF Carried, s, d
      <4> QED
        BY <4>2, <4>3, <4>4
    <3> QED
      BY <1>2, <1>8, <3>4, QuietStep DEF lockVars
  <2> QED
    BY <2>1, <2>2 DEF DavInv, HistoryFits
<1> QED
  BY <1>4, <1>7, <1>9, <1>10, <1>11, <1>12 DEF DavInv

(* The locks around source and destination of a quiet MOVE are its         *)
(* client's, so that carrying some of them mixes no two clients'.          *)
LEMMA CarriesKeeps ==
    ASSUME DavInv, NEW c \in Clients, pc[c] = "renamed", quiet,
           locks' = Moved(locks, req[c].target, req[c].destination),
           tree' = tree, owner' = owner, \A e \in Clients : pc'[e] # "renamed"
    PROVE  Exclusive' /\ Following'
<1> DEFINE s == req[c].target
           d == req[c].destination
<1>1. /\ Checked(c) /\ OneAtATime /\ Covers(c) /\ Exclusive /\ Following /\ LocksFit
  BY DEF DavInv, RequestFits, QuietFits
<1>2. s \in Named /\ d \in Named /\ DOMAIN locks \subseteq Named
  BY <1>1 DEF Checked, LocksFit
<1>3. \A p \in DOMAIN locks :
         Overlap(p, s) \/ Overlap(p, d) => owner[locks[p].token] = c
  <2>1. req[c].presents \subseteq Tokens(c)
    BY <1>1 DEF Checked
  <2> QED
    BY <2>1, <1>1 DEF Covers, Tokens
<1> HIDE DEF s, d
<1>4. \A q \in DOMAIN locks' :
         \/ /\ q \in DOMAIN locks /\ ~IsPrefix(s, q) /\ locks'[q] = locks[q]
         \/ \E r \in DOMAIN locks : /\ IsPrefix(s, r) /\ q = Rebase(r, s, d)
                                    /\ locks'[q] = locks[r]
  <2>1. locks' = Moved(locks, s, d)
    BY DEF s, d
  <2>2. LET g == Moved(locks, s, d)
        IN  \A q \in DOMAIN g :
              \/ /\ q \in DOMAIN locks /\ ~IsPrefix(s, q) /\ g[q] = locks[q]
                 /\ \A r \in DOMAIN locks : IsPrefix(s, r) => q # Rebase(r, s, d)
              \/ \E r \in DOMAIN locks : /\ IsPrefix(s, r) /\ q = Rebase(r, s, d)
                                         /\ g[q] = locks[r]
    BY <1>2, MovedIs
  <2> QED
    BY <2>1, <2>2
<1>5. \A r \in DOMAIN locks : IsPrefix(s, r) =>
         /\ Rebase(r, s, d) \in Named /\ IsPrefix(d, Rebase(r, s, d))
         /\ owner[locks[r].token] = c
  BY <1>2, <1>3, RebaseFacts DEF Overlap
<1>6. Exclusive'
  <2> SUFFICES ASSUME NEW p \in DOMAIN locks', NEW q \in DOMAIN locks', Overlap(p, q)
               PROVE  owner[locks'[p].token] = owner[locks'[q].token]
    BY DEF Exclusive
  <2>1. ASSUME NEW x \in Named, NEW y \in DOMAIN locks, Overlap(x, y), IsPrefix(d, x)
        PROVE  owner[locks[y].token] = c
    <3>1. Overlap(y, d)
      <4>1. x \in AllPaths /\ y \in AllPaths /\ d \in AllPaths
        BY <2>1, <1>2 DEF Named
      <4> QED
        BY <4>1, <2>1, PrefixFacts DEF Overlap
    <3> QED
      BY <3>1, <1>3
  <2>2. Overlap(q, p)
    BY DEF Overlap
  <2>3. CASE p \in DOMAIN locks /\ locks'[p] = locks[p]
    <3>1. CASE q \in DOMAIN locks /\ locks'[q] = locks[q]
      BY <2>3, <3>1, <1>1 DEF Exclusive
    <3>2. CASE \E r \in DOMAIN locks : /\ IsPrefix(s, r) /\ q = Rebase(r, s, d)
                                       /\ locks'[q] = locks[r]
      BY <2>1, <2>2, <2>3, <3>2, <1>5
    <3> QED
      BY <3>1, <3>2, <1>4
  <2>4. CASE \E r \in DOMAIN locks : /\ IsPrefix(s, r) /\ p = Rebase(r, s, d)
                                     /\ locks'[p] = locks[r]
    <3>1. CASE q \in DOMAIN locks /\ locks'[q] = locks[q]
      BY <2>1, <2>4, <3>1, <1>5
    <3>2. CASE \E r \in DOMAIN locks : /\ IsPrefix(s, r) /\ q = Rebase(r, s, d)
                                       /\ locks'[q] = locks[r]
      BY <2>4, <3>2, <1>5
    <3> QED
      BY <3>1, <3>2, <1>4
  <2> QED
    BY <2>3, <2>4, <1>4
<1>7. Following'
  <2> SUFFICES ASSUME NEW p \in DOMAIN locks', NEW q \in DOMAIN tree,
                      tree[q].id = locks'[p].on
               PROVE  q = p
    BY DEF Following
  <2>1. PICK r \in DOMAIN locks : /\ locks'[p] = locks[r]
                                  /\ IF IsPrefix(s, r) THEN p = Rebase(r, s, d) ELSE p = r
    BY <1>4
  <2>2. \E e \in Clients : pc[e] = "renamed" /\ q = Carried(e, r)
    BY <2>1, <1>1 DEF Following
  <2>3. q = Carried(c, r)
    BY <2>2, <1>1 DEF OneAtATime
  <2>4. Carried(c, r) = IF IsPrefix(s, r) THEN Rebase(r, s, d) ELSE r
    BY DEF Carried, s, d
  <2> QED
    BY <2>1, <2>3, <2>4
<1> QED
  BY <1>6, <1>7

LEMMA MoveLocksKeeps ==
    ASSUME DavInv, NEW c \in Clients, MoveLocks(c)
    PROVE  DavInv'
<1>0. pc[c] = "renamed"
  BY DEF MoveLocks
<1>1. /\ Checked(c) /\ HistoryFits /\ TreeFits /\ Rooted /\ LocksFit /\ TempsFit
      /\ created \in Nat
      /\ temp[c] # {} => pc[c] = "body"
      /\ copies[c] # {} <=> pc[c] = "copy"
  BY <1>0, ActiveFits
<1> DEFINE s == req[c].target
           d == req[c].destination
<1>2. /\ Ends(c) /\ locks' = Moved(locks, s, d)
      /\ tree' = tree /\ created' = created /\ owner' = owner
      /\ temp' = temp /\ copies' = copies /\ requests' = requests /\ quiet' = quiet
  BY DEF MoveLocks, treeVars
<1>3. s \in Named /\ d \in Named /\ DOMAIN locks \subseteq Named
  BY <1>1 DEF Checked, LocksFit
<1>4. /\ pc' \in [Clients -> Steps] /\ req' = [e \in Clients |-> req'[e]]
      /\ pc'[c] = "idle" /\ req'[c] = NoRequest
      /\ \A e \in Clients \ {c} : pc'[e] = pc[e] /\ req'[e] = req[e]
  BY <1>1, <1>2, EndsIs
<1>5. HistoryFits'
  BY <1>1, <1>2, <1>4 DEF HistoryFits
<1>6. StepOf(c)
  BY <1>0, <1>2, <1>4, <1>5 DEF StepOf
<1>7. TreeFits' /\ Rooted' /\ TempsFit'
  <2>1. \A q : IsDir(q)' = IsDir(q)
    BY <1>2 DEF IsDir
  <2> QED
    BY <1>1, <1>2, <2>1 DEF TreeFits, Rooted, TempsFit, Node
<1>8. LocksFit'
  <2>1. LET g == Moved(locks, s, d)
        IN  \A q \in DOMAIN g :
              \/ /\ q \in DOMAIN locks /\ ~IsPrefix(s, q) /\ g[q] = locks[q]
                 /\ \A r \in DOMAIN locks : IsPrefix(s, r) => q # Rebase(r, s, d)
              \/ \E r \in DOMAIN locks : /\ IsPrefix(s, r) /\ q = Rebase(r, s, d)
                                         /\ g[q] = locks[r]
    BY <1>3, MovedIs
  <2>2. \A r \in DOMAIN locks : IsPrefix(s, r) => Rebase(r, s, d) \in Named
    BY <1>3, RebaseFacts
  <2> HIDE DEF s, d
  <2>3. \A q \in DOMAIN locks' : q \in Named /\ \E r \in DOMAIN locks : locks'[q] = locks[r]
    BY <1>2, <1>3, <2>1, <2>2
  <2> QED
    BY <1>1, <1>2, <2>3 DEF LocksFit
<1>9. \A e \in Clients : RequestFits(e)'
  <2>1. temp'[c] = {} /\ copies'[c] = {}
    BY <1>0, <1>1, <1>2
  <2>2. RequestFits(c)'
    BY <1>2, <2>1, EndsFits
  <2> QED
    BY <1>2, <1>6, <2>2, OthersFit
<1>10. QuietFits'
  <2> SUFFICES ASSUME quiet PROVE (OneAtATime /\ (\A e \in Clients : pc[e] # "idle" => Covers(e))
                                    /\ Exclusive /\ Following)'
    BY <1>2 DEF QuietFits
  <2>1. \A e \in Clients : pc'[e] = "idle"
    <3>1. OneAtATime
      BY DEF DavInv, QuietFits
    <3> QED
      BY <3>1, <1>0, <1>4 DEF OneAtATime
  <2>2. Exclusive' /\ Following'
    BY <2>1, <1>0, <1>2, CarriesKeeps
  <2> QED
    BY <2>1, <2>2 DEF OneAtATime
<1> QED
  BY <1>5, <1>7, <1>8, <1>9, <1>10 DEF DavInv
-----------------------------------------------------------------------------
(* Steps of the lock table alone: a lock is taken, dropped or expires.     *)
LEMMA TableKeeps ==
    ASSUME DavInv, UNCHANGED <<treeVars, pc, req, temp, copies>>,
           owner' = owner \/ \E c \in Clients : owner' = Append(owner, c) /\ Len(owner) < MaxLocks,
           requests' \in 0..MaxRequests, quiet' \in BOOLEAN, quiet' => quiet,
           \A p \in DOMAIN locks' : /\ p \in Named
                                    /\ locks'[p].token \in DOMAIN owner'
                                    /\ locks'[p].on \in 0..created,
           quiet' => /\ \A p \in DOMAIN locks' : \A c \in Clients :
                          pc[c] # "idle" => p \in DOMAIN locks /\ locks'[p] = locks[p]
                     /\ Exclusive' /\ Following'
    PROVE  DavInv'
<1>1. /\ HistoryFits /\ LocksFit /\ TreeFits /\ Rooted /\ TempsFit
      /\ \A c \in Clients : RequestFits(c)
  BY DEF DavInv
<1>2. /\ tree' = tree /\ created' = created /\ pc' = pc /\ req' = req
      /\ temp' = temp /\ copies' = copies
  BY DEF treeVars
<1>3. /\ owner' \in Seq(Clients) /\ Len(owner') <= MaxLocks
      /\ \A k \in DOMAIN owner : k \in DOMAIN owner' /\ owner'[k] = owner[k]
  BY <1>1, DavBoundsAssumption DEF LocksFit
<1>4. HistoryFits'
  BY <1>1, <1>2 DEF HistoryFits
<1>5. LocksFit'
  BY <1>2, <1>3 DEF LocksFit
<1>6. TreeFits' /\ Rooted' /\ TempsFit'
  <2>1. \A q : IsDir(q)' = IsDir(q)
    BY <1>2 DEF IsDir
  <2> QED
    BY <1>1, <1>2, <2>1 DEF TreeFits, Rooted, TempsFit, Node
<1>7. ASSUME NEW c \in Clients PROVE RequestFits(c)'
  <2>1. Tokens(c) \subseteq Tokens(c)'
    BY <1>3 DEF Tokens
  <2>2. Checked(c) => Checked(c)'
    BY <1>2, <2>1 DEF Checked
  <2> QED
    BY <1>1, <1>2, <2>2 DEF RequestFits
<1>8. QuietFits'
  <2> SUFFICES ASSUME quiet' PROVE (OneAtATime /\ \A c \in Clients : pc[c] # "idle" => Covers(c))'
    BY DEF QuietFits
  <2>1. OneAtATime /\ \A c \in Clients : pc[c] # "idle" => Covers(c)
    BY DEF DavInv, QuietFits
  <2>2. ASSUME NEW c \in Clients, pc[c] # "idle" PROVE Covers(c)'
    <3>1. \A p \in DOMAIN locks' : p \in DOMAIN locks /\ locks'[p] = locks[p]
      BY <2>2
    <3>2. Covers(c) /\ req' = req
      BY <1>2, <2>1, <2>2
    <3> QED
      BY <3>1, <3>2 DEF Covers
  <2> QED
    BY <1>2, <2>1, <2>2 DEF OneAtATime
<1> QED
  BY <1>4, <1>5, <1>6, <1>7, <1>8 DEF DavInv

LEMMA LockKeeps ==
    ASSUME DavInv, NEW c \in Clients, NEW p \in Paths, Lock(c, p)
    PROVE  DavInv'
<1> DEFINE entry == [token |-> Len(owner) + 1,
                     on |-> IF Exists(p) THEN tree[p].id ELSE Nothing]
<1>1. /\ HistoryFits /\ LocksFit /\ TreeFits /\ p \in Named
  BY PathsAssumption DEF DavInv, Named, AllPaths
<1>2. /\ requests' = requests + 1 /\ requests < MaxRequests
      /\ quiet' = (quiet /\ \A e \in Clients : pc[e] = "idle")
      /\ \A q \in DOMAIN locks : ~Overlap(p, q)
      /\ Len(owner) < MaxLocks /\ owner' = Append(owner, c)
      /\ locks' = Put(locks, p, entry)
      /\ UNCHANGED <<treeVars, pc, req, temp, copies>>
  BY DEF Lock, Arrives
<1>3. /\ entry.token = Len(owner) + 1
      /\ entry.on \in 0..created
      /\ \A q \in DOMAIN tree : tree[q].id = entry.on => q = p
  <2>1. \A q \in DOMAIN tree : tree[q].id \in 1..created
    BY <1>1 DEF TreeFits, Node
  <2>2. p # <<>>
    BY <1>1 DEF Named
  <2>3. created \in Nat
    BY <1>1 DEF TreeFits
  <2>4. CASE p \in DOMAIN tree
    <3>1. entry.on = tree[p].id
      BY <2>4 DEF Exists
    <3> HIDE DEF entry
    <3> QED
      BY <3>1, <2>1, <2>3, <2>4, <1>1 DEF TreeFits, entry
  <2>5. CASE p \notin DOMAIN tree
    <3>1. entry.on = 0
      BY <2>2, <2>5 DEF Exists, Nothing
    <3> HIDE DEF entry
    <3> QED
      BY <3>1, <2>1, <2>3 DEF entry
  <2> QED
    BY <2>4, <2>5
<1> HIDE DEF entry
<1>4. /\ DOMAIN locks' = DOMAIN locks \cup {p} /\ locks'[p] = entry
      /\ \A q \in DOMAIN locks \ {p} : locks'[q] = locks[q]
  BY <1>2 DEF Put
<1>5. p \notin DOMAIN locks
  <2>1. Overlap(p, p)
    BY <1>1, PrefixFacts DEF Overlap, Named
  <2> QED
    BY <1>2, <2>1
<1>6. /\ owner \in Seq(Clients) /\ Len(owner) \in Nat
      /\ DOMAIN owner' = DOMAIN owner \cup {Len(owner) + 1}
      /\ \A k \in DOMAIN owner : owner'[k] = owner[k]
      /\ \A q \in DOMAIN locks : locks[q].token \in DOMAIN owner
  BY <1>1, <1>2 DEF LocksFit
<1>7. \A q \in DOMAIN locks' : /\ q \in Named
                               /\ locks'[q].token \in DOMAIN owner'
                               /\ locks'[q].on \in 0..created
  BY <1>1, <1>3, <1>4, <1>6 DEF LocksFit
<1>8. ASSUME quiet'
      PROVE  /\ \A e \in Clients : pc[e] = "idle"
             /\ Exclusive' /\ Following'
  <2>1. quiet /\ \A e \in Clients : pc[e] = "idle"
    BY <1>2, <1>8
  <2>2. Exclusive /\ Following
    BY <2>1 DEF DavInv, QuietFits
  <2>3. \A q, r \in DOMAIN locks' :
           Overlap(q, r) => owner'[locks'[q].token] = owner'[locks'[r].token]
    <3>1. \A q \in DOMAIN locks : ~Overlap(p, q) /\ ~Overlap(q, p)
      BY <1>2 DEF Overlap
    <3>2. \A q, r \in DOMAIN locks :
             Overlap(q, r) => owner[locks[q].token] = owner[locks[r].token]
      BY <2>2 DEF Exclusive
    <3> QED
      BY <3>1, <3>2, <1>4, <1>5, <1>6
  <2>4. Following'
    <3>1. \A e \in Clients : pc'[e] # "renamed" /\ pc[e] # "renamed"
      BY <2>1, <1>2
    <3>2. tree' = tree
      BY <1>2 DEF treeVars
    <3> QED
      BY <2>2, <3>1, <3>2, <1>3, <1>4, <1>5 DEF Following
  <2> QED
    BY <2>1, <2>3, <2>4 DEF Exclusive
<1>9. requests' \in 0..MaxRequests /\ quiet' \in BOOLEAN
  BY <1>1, <1>2, DavBoundsAssumption DEF HistoryFits
<1> QED
  BY <1>2, <1>7, <1>8, <1>9, TableKeeps

LEMMA DropKeeps ==
    ASSUME DavInv, NEW p \in DOMAIN locks, locks' = Without(locks, p),
           UNCHANGED <<treeVars, owner, pc, req, temp, copies>>,
           requests' \in 0..MaxRequests, quiet' \in BOOLEAN, quiet' => quiet
    PROVE  DavInv'
<1>1. \A q \in DOMAIN locks' : q \in DOMAIN locks /\ locks'[q] = locks[q]
  BY DEF Without
<1>2. LocksFit
  BY DEF DavInv
<1>3. \A q \in DOMAIN locks' : /\ q \in Named
                               /\ locks'[q].token \in DOMAIN owner'
                               /\ locks'[q].on \in 0..created
  BY <1>1, <1>2 DEF LocksFit
<1>4. ASSUME quiet' PROVE Exclusive' /\ Following'
  <2>1. Exclusive /\ Following
    BY <1>4 DEF DavInv, QuietFits
  <2>2. tree' = tree /\ pc' = pc /\ req' = req /\ owner' = owner
    BY DEF treeVars
  <2>3. \A c \in Clients : \A q : Carried(c, q)' = Carried(c, q)
    BY <2>2 DEF Carried
  <2>4. Exclusive'
    BY <1>1, <2>1, <2>2 DEF Exclusive
  <2>5. Following'
    BY <1>1, <2>1, <2>2, <2>3 DEF Following
  <2> QED
    BY <2>4, <2>5
<1> QED
  BY <1>1, <1>3, <1>4, TableKeeps

LEMMA UnlockKeeps ==
    ASSUME DavInv, NEW c \in Clients, NEW p \in Paths, Unlock(c, p)
    PROVE  DavInv'
<1>1. /\ p \in DOMAIN locks /\ locks' = Without(locks, p)
      /\ UNCHANGED <<treeVars, owner, pc, req, temp, copies>>
      /\ requests' = requests + 1 /\ requests < MaxRequests
      /\ quiet' = (quiet /\ \A e \in Clients : pc[e] = "idle")
  BY DEF Unlock, Arrives
<1>2. requests' \in 0..MaxRequests /\ quiet' \in BOOLEAN /\ (quiet' => quiet)
  BY <1>1, DavBoundsAssumption DEF DavInv, HistoryFits
<1> QED
  BY <1>1, <1>2, DropKeeps

LEMMA ExpireKeeps ==
    ASSUME DavInv, NEW p \in DOMAIN locks, Expire(p)
    PROVE  DavInv'
<1>1. /\ locks' = Without(locks, p)
      /\ UNCHANGED <<treeVars, owner, pc, req, temp, copies>>
      /\ requests' = requests /\ quiet' = quiet
  BY DEF Expire
<1>2. requests' \in 0..MaxRequests /\ quiet' \in BOOLEAN /\ (quiet' => quiet)
  BY <1>1 DEF DavInv, HistoryFits
<1> QED
  BY <1>1, <1>2, DropKeeps
-----------------------------------------------------------------------------
LEMMA ChecksKeeps ==
    ASSUME DavInv, NEW c \in Clients, NEW presents \in {{}, Tokens(c)}, Checks(c, presents)
    PROVE  DavInv'
<1>1. PICK p \in Paths :
         \/ PutChecks(c, p, presents)
         \/ MkcolChecks(c, p, presents)
         \/ DeleteChecks(c, p, presents)
         \/ \E d \in Paths, op \in {"MOVE", "COPY"}, overwrite \in BOOLEAN :
              MoveOrCopyChecks(c, op, p, d, overwrite, presents)
  BY DEF Checks
<1>2. ASSUME NEW d \in Paths, NEW op, NEW overwrite,
             NEW state \in {"body", "create", "remove", "decide"},
             state \in {"body", "create"} => p = d,
             ChecksAs(c, op, p, d, overwrite, presents, state)
      PROVE  DavInv'
  BY <1>2, CheckKeeps
<1>3. CASE PutChecks(c, p, presents)
  <2>1. ChecksAs(c, "PUT", p, p, TRUE, presents, "body")
    BY <1>3 DEF PutChecks, ChecksAs
  <2> QED
    BY <2>1, <1>2
<1>4. CASE MkcolChecks(c, p, presents)
  <2>1. ChecksAs(c, "MKCOL", p, p, TRUE, presents, "create")
    BY <1>4 DEF MkcolChecks, ChecksAs
  <2> QED
    BY <2>1, <1>2
<1>5. CASE DeleteChecks(c, p, presents)
  <2>1. ChecksAs(c, "DELETE", p, p, TRUE, presents, "remove")
    BY <1>5 DEF DeleteChecks, ChecksAs
  <2> QED
    BY <2>1, <1>2
<1>6. ASSUME NEW d \in Paths, NEW op \in {"MOVE", "COPY"}, NEW overwrite \in BOOLEAN,
             MoveOrCopyChecks(c, op, p, d, overwrite, presents)
      PROVE  DavInv'
  <2>1. ChecksAs(c, op, p, d, overwrite, presents, "decide")
    BY <1>6 DEF MoveOrCopyChecks, ChecksAs
  <2> QED
    BY <2>1, <1>2
<1> QED
  BY <1>1, <1>3, <1>4, <1>5, <1>6

LEMMA DavStep == DavInv /\ [DavNext]_davVars => DavInv'
<1> SUFFICES ASSUME DavInv, [DavNext]_davVars PROVE DavInv'
  OBVIOUS
<1>1. CASE UNCHANGED davVars
  <2>1. /\ tree' = tree /\ created' = created /\ locks' = locks /\ owner' = owner
        /\ pc' = pc /\ req' = req /\ temp' = temp /\ copies' = copies
        /\ requests' = requests /\ quiet' = quiet
    BY <1>1 DEF davVars, treeVars, lockVars
  <2> QED
    BY <2>1 DEF DavInv, TreeFits, Node, Rooted, TempsFit, IsDir, LocksFit, HistoryFits,
                RequestFits, Checked, Tokens, QuietFits, OneAtATime, Covers, Exclusive,
                Following, Carried
<1>2. ASSUME NEW c \in Clients, NEW presents \in {{}, Tokens(c)}, Checks(c, presents)
      PROVE  DavInv'
  BY <1>2, ChecksKeeps
<1>3. ASSUME NEW c \in Clients, Writes(c) PROVE DavInv'
  BY <1>3, PutEndsKeeps, RemovesKeeps, RenameKeeps, CopiesKeeps DEF Writes
<1>4. ASSUME NEW c \in Clients, Decide(c) \/ MoveLocks(c) \/ Fails(c) PROVE DavInv'
  BY <1>4, DecideKeeps, MoveLocksKeeps, FailsKeeps
<1>5. ASSUME NEW c \in Clients, NEW p \in Paths, Lock(c, p) \/ Unlock(c, p) PROVE DavInv'
  BY <1>5, LockKeeps, UnlockKeeps
<1>6. ASSUME NEW p \in DOMAIN locks, Expire(p) PROVE DavInv'
  BY <1>6, ExpireKeeps
<1> QED
  BY <1>1, <1>2, <1>3, <1>4, <1>5, <1>6 DEF DavNext

(* In every reachable state the tree is one, the lock table is made of     *)
(* granted locks, every request was checked, and while requests do not     *)
(* overlap the locks around a request's paths are its client's.            *)
THEOREM DavInvariance == DavSpec => []DavInv
<1> QED
  BY StartFits, DavStep, PTL DEF DavSpec

LEMMA DavInvTells == DavInv => LocksAgree
<1> SUFFICES ASSUME DavInv PROVE LocksAgree
  OBVIOUS
<1>1. /\ TreeFits /\ Rooted /\ LocksFit /\ HistoryFits /\ QuietFits
      /\ \A c \in Clients : RequestFits(c)
  BY DEF DavInv
<1>2. ASSUME NEW p \in DOMAIN tree PROVE ParentIsDir(p)
  <2>1. p \in Named
    BY <1>1 DEF TreeFits
  <2>2. Front(p) \in AllPaths /\ IsStrictPrefix(Front(p), p)
    BY <2>1, FrontFacts
  <2>3. Front(p) # <<>> => Front(p) \in DOMAIN tree /\ tree[Front(p)].dir
    BY <1>1, <2>2 DEF Rooted, Named
  <2> QED
    BY <2>3 DEF ParentIsDir, IsDir
<1>3. DavTypeOK
  BY <1>1, <1>2 DEF DavTypeOK, TreeFits, LocksFit, HistoryFits, RequestFits, Named, AllPaths
<1>4. LocksExclude
  BY <1>1 DEF LocksExclude, QuietFits, Exclusive
<1>5. LocksFollow
  BY <1>1 DEF LocksFollow, QuietFits, Following
<1> QED
  BY <1>3, <1>4, <1>5 DEF LocksAgree

(* While requests do not overlap in time, no two clients hold locks that   *)
(* cover one path, and a lock is where the resource is that it was granted *)
(* for (Lock, Unlock, move_locks).                                         *)
THEOREM LocksAgreeAlways == DavSpec => []LocksAgree
<1> QED
  BY DavInvariance, DavInvTells, PTL

(* A write changes only what is at or below a path its request was checked *)
(* for.                                                                    *)
LEMMA WritesInside ==
    ASSUME DavInv, NEW c \in Clients, Writes(c), NEW p \in DOMAIN tree \cup DOMAIN tree'
    PROVE  \/ p \in DOMAIN tree \cap DOMAIN tree' /\ tree[p] = tree'[p]
           \/ p \in Named /\ IsPrefix(req[c].target, p)
           \/ p \in Named /\ IsPrefix(req[c].destination, p)
<1>0. pc[c] # "idle"
  BY DEF Writes, PutEnds, MkcolEnds, Removes, Rename, Copies
<1>1. Checked(c) /\ TreeFits
  BY <1>0, ActiveFits
<1>2. /\ req[c].target \in Named /\ req[c].destination \in Named /\ DOMAIN tree \subseteq Named
      /\ \A q \in Named : IsPrefix(q, q)
      /\ \A pair \in copies[c] : pair[2] \in Named /\ IsPrefix(req[c].destination, pair[2])
  BY <1>1, PrefixFacts DEF Checked, TreeFits, Named
<1>3. CASE PutEnds(c) \/ MkcolEnds(c)
  <2> DEFINE t == req[c].target
  <2>1. \E v : tree' = Put(tree, t, v)
    BY <1>3 DEF PutEnds, MkcolEnds
  <2>2. t \in Named /\ IsPrefix(t, t)
    BY <1>2
  <2> HIDE DEF t
  <2>3. p = t \/ (p \in DOMAIN tree \cap DOMAIN tree' /\ tree'[p] = tree[p])
    BY <2>1 DEF Put
  <2> QED
    BY <2>2, <2>3 DEF t
<1>4. CASE Removes(c)
  BY <1>2, <1>4 DEF Removes, Without
<1>5. CASE Copies(c)
  <2>1. PICK pair \in copies[c] :
           IF Exists(pair[2])
           THEN UNCHANGED treeVars
           ELSE /\ tree' = Put(tree, pair[2], NewNode(IsDir(pair[1])))
                /\ created' = created + 1
    BY <1>5 DEF Copies
  <2> QED
    BY <1>2, <2>1 DEF Put, treeVars
<1>6. CASE Rename(c)
  <2> DEFINE s == req[c].target
             d == req[c].destination
  <2>1. tree' = Moved(tree, s, d)
    BY <1>6 DEF Rename
  <2> HIDE DEF s, d
  <2>2. s \in Named /\ d \in Named
    BY <1>2 DEF s, d
  <2>3. p \in DOMAIN tree' => \/ p \in DOMAIN tree /\ tree'[p] = tree[p]
                              \/ p \in Named /\ IsPrefix(d, p)
    <3>1. LET g == Moved(tree, s, d)
          IN  \A q \in DOMAIN g :
                \/ /\ q \in DOMAIN tree /\ ~IsPrefix(s, q) /\ g[q] = tree[q]
                   /\ \A r \in DOMAIN tree : IsPrefix(s, r) => q # Rebase(r, s, d)
                \/ \E r \in DOMAIN tree : /\ IsPrefix(s, r) /\ q = Rebase(r, s, d)
                                          /\ g[q] = tree[r]
      BY <1>2, <2>2, MovedIs
    <3>2. \A r \in DOMAIN tree : IsPrefix(s, r) =>
             Rebase(r, s, d) \in Named /\ IsPrefix(d, Rebase(r, s, d))
      BY <1>2, <2>2, RebaseFacts
    <3> QED
      BY <2>1, <3>1, <3>2
  <2>4. ASSUME p \in DOMAIN tree, ~IsPrefix(s, p) PROVE p \in DOMAIN tree'
    <3>1. LET g == Moved(tree, s, d)
          IN  /\ IsPrefix(s, p) => /\ Rebase(p, s, d) \in DOMAIN g
                                   /\ g[Rebase(p, s, d)] = tree[p]
              /\ ~IsPrefix(s, p) => /\ p \in DOMAIN g
                                    /\ ~IsPrefix(d, p) => g[p] = tree[p]
      BY <1>2, <2>2, <2>4, MovedHas
    <3> QED
      BY <2>1, <2>4, <3>1
  <2> QED
    BY <1>2, <2>3, <2>4 DEF s, d
<1> QED
  BY <1>3, <1>4, <1>5, <1>6 DEF Writes

(* No step of a request writes under a lock that was there when the request*)
(* was checked and that it did not present (lock_permits).                 *)
THEOREM ChecksSuffice == DavSpec => LocksRespected
<1> DEFINE Respects ==
             \A c \in Clients :
               Writes(c) =>
                 \A p \in DOMAIN tree \cup DOMAIN tree' :
                   \/ p \in DOMAIN tree \cap DOMAIN tree' /\ tree[p] = tree'[p]
                   \/ \A q \in DOMAIN locks :
                        IsPrefix(q, p) =>
                          \/ locks[q].token \in req[c].presents
                          \/ <<q, locks[q].token>> \notin req[c].seen
<1>1. DavInv => Respects
  <2> SUFFICES ASSUME DavInv, NEW c \in Clients, Writes(c),
                      NEW p \in DOMAIN tree \cup DOMAIN tree',
                      ~(p \in DOMAIN tree \cap DOMAIN tree' /\ tree[p] = tree'[p]),
                      NEW q \in DOMAIN locks, IsPrefix(q, p),
                      <<q, locks[q].token>> \in req[c].seen
               PROVE  FALSE
    OBVIOUS
  <2>1. pc[c] # "idle"
    BY DEF Writes, PutEnds, MkcolEnds, Removes, Rename, Copies
  <2>2. Checked(c) /\ LocksFit
    BY <2>1, ActiveFits
  <2>3. /\ q \in AllPaths /\ req[c].target \in AllPaths /\ req[c].destination \in AllPaths
        /\ ~Overlap(q, req[c].target) /\ ~Overlap(q, req[c].destination)
    <3> DEFINE e == <<q, locks[q].token>>
    <3>1. e \in req[c].seen /\ e[1] = q
      OBVIOUS
    <3> QED
      BY <2>2, <3>1 DEF Checked, Named
  <2>4. p \in AllPaths /\ (IsPrefix(req[c].target, p) \/ IsPrefix(req[c].destination, p))
    BY WritesInside DEF Named
  <2> QED
    BY <2>3, <2>4, PrefixFacts
<1> QED
  BY <1>1, DavInvariance, PTL DEF LocksRespected
=============================================================================
