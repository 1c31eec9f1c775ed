-------------------------- MODULE ObjectRelayProofs --------------------------
(***************************************************************************)
(* Proofs about ObjectRelay, for any senders, receivers, contents, stores  *)
(* and bounds.  The inductive invariant says who may write to which inode: *)
(* what an object still lacks of its content lies before the position of a *)
(* sender that writes to it, and nobody writes to what a clean run reads.  *)
(***************************************************************************)
EXTENDS ObjectRelay, SequenceTheorems, TLAPS

Uploads == [key : Contents \cup {Hole}, del : BOOLEAN, inode : Nat, pos : 0..Size]
Requests == [inode : Nat, next : Nat, end : Nat]

StoreTypes ==
    /\ store \in Stores
    /\ inodes \in Seq(Seq(Block))
    /\ \A i \in 1..Len(inodes) : Len(inodes[i]) <= Size
    /\ staged \in [Contents -> [1..Size -> Block]]
    /\ DOMAIN objects \subseteq Contents
    /\ \A k \in DOMAIN objects : objects[k] \in 1..Len(inodes)

SendTypes ==
    /\ source \in [Senders -> Contents]
    /\ send \in [Senders -> {"idle", "hashed", "opening", "uploading"}]
    /\ upload \in [Senders -> Uploads]
    /\ tickets \subseteq Ticket

RecvTypes ==
    /\ recv \in [Receivers -> Ended \cup {"asking", "copying", "deleting"}]
    /\ ticket \in [Receivers -> [key : Contents \cup {Hole}, del : BOOLEAN]]
    /\ offset \in [Receivers -> Nat]
    /\ get \in [Receivers -> Requests]
    /\ file \in [Receivers -> Seq(Block)]
    /\ piped \in [Receivers -> BOOLEAN]
    /\ kept \in [Receivers -> Nat]
    /\ clean \in [Receivers -> BOOLEAN]
    /\ short \in [Receivers -> BOOLEAN]

(* Whether the sender has an inode to write to.                            *)
Live(s) == send[s] = "uploading" /\ store.protocol # "azure"

(* A sender that is not at work has left no trace of an upload.            *)
UploadOf(s) ==
    /\ send[s] = "idle" => upload[s] = NoUpload
    /\ send[s] # "idle" => upload[s].key \in Contents
    /\ send[s] # "uploading" => upload[s].pos = 0
    /\ IF Live(s) THEN upload[s].inode \in 1..Len(inodes) ELSE upload[s].inode = 0

(* Only in place does one write to an object, and only to that of its key. *)
WritesItsOwn(s) ==
    Live(s) => \A k \in DOMAIN objects :
                  objects[k] = upload[s].inode => store.inPlace /\ k = upload[s].key

(* An upload that nobody sees holds what was written so far.               *)
HiddenOf(s) ==
    LET u == upload[s] IN
    Live(s) /\ ~store.inPlace =>
        /\ Len(inodes[u.inode]) = u.pos
        /\ u.key \notin spoilt => \A i \in 1..u.pos : inodes[u.inode][i] = u.key
        /\ \A t \in Senders \ {s} : Live(t) => upload[t].inode # u.inode

(* An object that is written in place goes only as ticketed ones do.       *)
PromiseOf(s) ==
    Live(s) /\ store.inPlace => \/ upload[s].key \in DOMAIN objects
                                \/ [key |-> upload[s].key, del |-> TRUE] \in tickets

SenderFits(s) == UploadOf(s) /\ WritesItsOwn(s) /\ HiddenOf(s) /\ PromiseOf(s)

(* Each block of an object is there or yet to be written.                  *)
Written(k, i) == /\ i <= Len(inodes[objects[k]])
                 /\ inodes[objects[k]][i] = k
ToBeWritten(k, i) == \E s \in Writers(k) : /\ upload[s].inode = objects[k]
                                           /\ upload[s].pos < i
StoredOf(k) ==
    k \in DOMAIN objects /\ k \notin spoilt
        => \A i \in 1..Size : Written(k, i) \/ ToBeWritten(k, i)

StagedOf(k) == k \notin spoilt => \A i \in 1..Size : staged[k][i] \in {k, Hole}

ContentFits(k) ==
    /\ StoredOf(k)
    /\ StagedOf(k)
    /\ \A l \in DOMAIN objects : k \in DOMAIN objects /\ objects[k] = objects[l] => k = l
    /\ k \in DOMAIN objects /\ store.protocol = "azure" => Len(inodes[objects[k]]) = Size

(* How far a receiver is, and what it has.                                 *)
RunOf(r) ==
    /\ recv[r] \notin {"idle", "failed"} => ticket[r] \in tickets
    /\ recv[r] = "deleting" => ticket[r].del
    /\ kept[r] <= Len(file[r])
    /\ recv[r] = "asking" => kept[r] = 0 /\ (offset[r] > 0 => offset[r] = Len(file[r]))
    /\ piped[r] => /\ recv[r] \in {"asking", "copying"}
                   /\ kept[r] = 0
                   /\ recv[r] = "asking" => offset[r] = 0

GetOf(r) ==
    LET g == get[r] IN
    IF recv[r] = "copying"
    THEN /\ g.inode \in 1..Len(inodes)
         /\ g.next = Len(file[r])
         /\ g.end <= Size
         /\ g.next = kept[r] \/ g.next <= g.end
         /\ Http => g.next <= g.end
    ELSE g = NoGet

(* A clean run reads an inode that is whole and that nobody writes to.     *)
ReadsWhole(r) ==
    LET g == get[r]
        k == ticket[r].key
    IN  recv[r] = "copying" /\ clean[r] =>
          /\ Len(inodes[g.inode]) = Size
          /\ \A i \in 1..Size : inodes[g.inode][i] = k
          /\ g.end = Size
          /\ \A i \in kept[r] + 1..g.next : file[r][i] = k
          /\ \A l \in DOMAIN objects : objects[l] = g.inode => l = k
          /\ \A s \in Senders : Live(s) => upload[s].inode # g.inode

HasPayload(r) == recv[r] \in {"deleting", "done"} => Received(r)

ReceiverFits(r) == RunOf(r) /\ GetOf(r) /\ ReadsWhole(r) /\ HasPayload(r)

Types == StoreTypes /\ SendTypes /\ RecvTypes
IInv == /\ Types
        /\ \A k \in Contents : ContentFits(k)
        /\ \A s \in Senders : SenderFits(s)
        /\ \A r \in Receivers : ReceiverFits(r)
        /\ TicketKeepsObject

(* What Put and the steps on an inode do: append one, change one, write a  *)
(* block of it; and the sequences they are given.                          *)
LEMMA PutIs ==
    ASSUME NEW f, NEW k, NEW v
    PROVE  /\ DOMAIN Put(f, k, v) = DOMAIN f \cup {k}
           /\ Put(f, k, v)[k] = v
           /\ \A l \in DOMAIN f : l # k => Put(f, k, v)[l] = f[l]
BY DEF Put

LEMMA InodesAre ==
    ASSUME StoreTypes, NEW i \in 1..Len(inodes)
    PROVE  /\ inodes[i] \in Seq(Block)
           /\ Len(inodes[i]) \in 0..Size
           /\ \A j \in 1..Len(inodes[i]) : inodes[i][j] \in Block
<1>1. inodes[i] \in Seq(Block)
  BY ElementOfSeq DEF StoreTypes
<1>2. Len(inodes[i]) \in Nat /\ Len(inodes[i]) <= Size
  BY <1>1, LenProperties DEF StoreTypes
<1>3. \A j \in 1..Len(inodes[i]) : inodes[i][j] \in Block
  BY <1>1, ElementOfSeq
<1> QED
  BY <1>1, <1>2, <1>3, BoundsAssumption

LEMMA InodeAppended ==
    ASSUME StoreTypes, NEW f \in Seq(Block), Len(f) <= Size, inodes' = Append(inodes, f)
    PROVE  /\ inodes' \in Seq(Seq(Block))
           /\ Len(inodes) \in Nat /\ Len(inodes') = Len(inodes) + 1
           /\ \A i \in 1..Len(inodes') : Len(inodes'[i]) <= Size
           /\ \A i \in 1..Len(inodes) : inodes'[i] = inodes[i]
           /\ inodes'[Len(inodes) + 1] = f
<1>1. inodes \in Seq(Seq(Block)) /\ Len(inodes) \in Nat
  BY LenProperties DEF StoreTypes
<1>2. /\ inodes' \in Seq(Seq(Block)) /\ Len(inodes') = Len(inodes) + 1
      /\ \A i \in 1..Len(inodes) : inodes'[i] = inodes[i]
      /\ inodes'[Len(inodes) + 1] = f
  BY <1>1, AppendProperties
<1>3. ASSUME NEW i \in 1..Len(inodes') PROVE Len(inodes'[i]) <= Size
  <2>1. i \in 1..Len(inodes) \/ i = Len(inodes) + 1
    BY <1>1, <1>2, <1>3
  <2> QED
    BY <1>2, <2>1 DEF StoreTypes
<1> QED
  BY <1>1, <1>2, <1>3

LEMMA InodeChanged ==
    ASSUME StoreTypes, NEW n \in 1..Len(inodes), NEW f \in Seq(Block), Len(f) <= Size,
           inodes' = [inodes EXCEPT ![n] = f]
    PROVE  /\ inodes' \in Seq(Seq(Block))
           /\ Len(inodes) \in Nat /\ Len(inodes') = Len(inodes)
           /\ \A i \in 1..Len(inodes') : Len(inodes'[i]) <= Size
           /\ \A i \in 1..Len(inodes) \ {n} : inodes'[i] = inodes[i]
           /\ inodes'[n] = f
<1>1. inodes \in Seq(Seq(Block)) /\ Len(inodes) \in Nat /\ DOMAIN inodes = 1..Len(inodes)
  BY LenProperties DEF StoreTypes
<1>2. /\ inodes' \in Seq(Seq(Block)) /\ Len(inodes') = Len(inodes)
      /\ \A i \in 1..Len(inodes) \ {n} : inodes'[i] = inodes[i]
      /\ inodes'[n] = f
  BY <1>1, ExceptSeq
<1>3. ASSUME NEW i \in 1..Len(inodes') PROVE Len(inodes'[i]) <= Size
  BY <1>2, <1>3 DEF StoreTypes
<1> QED
  BY <1>1, <1>2, <1>3

LEMMA WriteAtIs ==
    ASSUME NEW f \in Seq(Block), Len(f) <= Size, NEW pos \in Nat, pos < Size, NEW b \in Block
    PROVE  /\ WriteAt(f, pos, b) \in Seq(Block)
           /\ Len(WriteAt(f, pos, b)) = IF Len(f) > pos THEN Len(f) ELSE pos + 1
           /\ Len(WriteAt(f, pos, b)) <= Size
           /\ \A i \in 1..Len(WriteAt(f, pos, b)) :
                WriteAt(f, pos, b)[i] = IF i = pos + 1 THEN b
                                        ELSE IF i <= Len(f) THEN f[i] ELSE Hole
<1> DEFINE n == IF Len(f) > pos THEN Len(f) ELSE pos + 1
<1>1. Len(f) \in Nat /\ n \in Nat /\ n <= Size
  BY LenProperties, BoundsAssumption
<1>2. \A i \in 1..n : i <= Len(f) => f[i] \in Block
  BY ElementOfSeq, <1>1
<1>3. WriteAt(f, pos, b) \in [1..n -> Block]
  BY <1>1, <1>2 DEF WriteAt, Block
<1>4. WriteAt(f, pos, b) \in Seq(Block)
  BY <1>1, <1>3, SeqDef
<1>5. Len(WriteAt(f, pos, b)) = n
  BY <1>1, <1>3, <1>4, LenProperties
<1> QED
  BY <1>1, <1>4, <1>5 DEF WriteAt

LEMMA FrontIs ==
    ASSUME NEW S, NEW f \in Seq(S), f # <<>>
    PROVE  /\ Front(f) \in Seq(S) /\ Len(Front(f)) \in Nat
           /\ Len(Front(f)) <= Len(f)
           /\ \A i \in 1..Len(Front(f)) : Front(f)[i] = f[i]
<1>1. Len(f) \in Nat /\ Len(f) # 0
  BY EmptySeq, LenProperties
<1>2. \A i \in 1..Len(f) - 1 : f[i] \in S
  BY <1>1, ElementOfSeq
<1>3. /\ Front(f) \in Seq(S) /\ Len(Front(f)) = Len(f) - 1
      /\ \A i \in 1..Len(f) - 1 : Front(f)[i] = f[i]
  <2> DEFINE n == Len(f) - 1
             g == SubSeq(f, 1, n)
  <2>1. n \in Nat /\ \A i \in 1..n : f[i] \in S
    BY <1>1, <1>2
  <2> HIDE DEF n
  <2>2. /\ g \in Seq(S) /\ Len(g) = IF 1 <= n THEN n - 1 + 1 ELSE 0
        /\ \A i \in 1..n - 1 + 1 : g[i] = f[1 + i - 1]
    BY <2>1, SubSeqProperties
  <2>3. Len(g) = n /\ \A i \in 1..n : g[i] = f[i]
    BY <2>1, <2>2
  <2> QED
    BY <2>2, <2>3 DEF Front, n
<1> QED
  BY <1>1, <1>3

LEMMA WholeIs ==
    ASSUME NEW k \in Contents
    PROVE  /\ Whole(k) \in Seq(Block)
           /\ Len(Whole(k)) = Size
           /\ \A i \in 1..Size : Whole(k)[i] = k
<1>1. Whole(k) \in [1..Size -> Block]
  BY DEF Whole, Block
<1>2. Whole(k) \in Seq(Block)
  BY <1>1, BoundsAssumption, SeqDef
<1>3. Len(Whole(k)) = Size
  BY <1>1, <1>2, BoundsAssumption, LenProperties
<1> QED
  BY <1>2, <1>3 DEF Whole

-----------------------------------------------------------------------------
(* A step of a receiver leaves the store and the senders as they are, and  *)
(* the others' runs if it changes but its own.                             *)
LEMMA StoreStays ==
    ASSUME IInv, UNCHANGED <<storeVars, source, send, upload, tickets, spoilt>>
    PROVE  /\ StoreTypes' /\ SendTypes'
           /\ \A k \in Contents : ContentFits(k)'
           /\ \A s \in Senders : SenderFits(s)'
           /\ TicketKeepsObject'
<1>1. StoreTypes' /\ SendTypes' /\ TicketKeepsObject'
  BY DEF IInv, Types, StoreTypes, SendTypes, TicketKeepsObject, storeVars
<1>2. ASSUME NEW k \in Contents PROVE ContentFits(k)'
  <2>1. ContentFits(k)
    BY <1>2 DEF IInv
  <2> QED
    BY <2>1 DEF ContentFits, StoredOf, StagedOf, Written, ToBeWritten, Writers, storeVars
<1>3. ASSUME NEW s \in Senders PROVE SenderFits(s)'
  <2>1. SenderFits(s)
    BY <1>3 DEF IInv
  <2> QED
    BY <2>1 DEF SenderFits, UploadOf, WritesItsOwn, HiddenOf, PromiseOf, Live, storeVars
<1> QED
  BY <1>1, <1>2, <1>3

LEMMA OthersRun ==
    ASSUME IInv, UNCHANGED <<store, inodes, send, upload, tickets>>, NEW q \in Receivers,
           DOMAIN objects' \subseteq DOMAIN objects,
           \A l \in DOMAIN objects' : objects'[l] = objects[l],
           recv'[q] = recv[q], ticket'[q] = ticket[q], offset'[q] = offset[q],
           get'[q] = get[q], file'[q] = file[q], piped'[q] = piped[q], kept'[q] = kept[q],
           clean'[q] = clean[q] /\ short'[q] = short[q]
    PROVE  ReceiverFits(q)'
<1>1. ReceiverFits(q)
  BY DEF IInv
<1>2. RunOf(q)'
  BY <1>1 DEF ReceiverFits, RunOf
<1>3. GetOf(q)'
  BY <1>1 DEF ReceiverFits, GetOf, Http
<1>4. ReadsWhole(q)'
  BY <1>1 DEF ReceiverFits, ReadsWhole, Live
<1>5. HasPayload(q)'
  BY <1>1 DEF ReceiverFits, HasPayload, Received, Holds, HoldsPart
<1> QED
  BY <1>2, <1>3, <1>4, <1>5 DEF ReceiverFits

LEMMA ReceiverKeeps ==
    ASSUME IInv, UNCHANGED <<storeVars, source, send, upload, tickets, spoilt>>,
           NEW r \in Receivers, RecvTypes', ReceiverFits(r)',
           \A q \in Receivers \ {r} :
              /\ recv'[q] = recv[q] /\ ticket'[q] = ticket[q] /\ offset'[q] = offset[q]
              /\ get'[q] = get[q] /\ file'[q] = file[q] /\ piped'[q] = piped[q]
              /\ kept'[q] = kept[q] /\ clean'[q] = clean[q] /\ short'[q] = short[q]
    PROVE  IInv'
<1>1. /\ StoreTypes' /\ SendTypes' /\ TicketKeepsObject'
      /\ \A k \in Contents : ContentFits(k)'
      /\ \A s \in Senders : SenderFits(s)'
  BY StoreStays
<1>2. ASSUME NEW q \in Receivers PROVE ReceiverFits(q)'
  BY <1>2, OthersRun DEF storeVars
<1> QED
  BY <1>1, <1>2 DEF IInv, Types

(* What the invariant says of one run.                                     *)
LEMMA RunIs ==
    ASSUME IInv, NEW r \in Receivers
    PROVE  /\ recv[r] \in Ended \cup {"asking", "copying", "deleting"}
           /\ ticket[r].key \in Contents \cup {Hole} /\ ticket[r].del \in BOOLEAN
           /\ offset[r] \in Nat
           /\ get[r].inode \in Nat /\ get[r].next \in Nat /\ get[r].end \in Nat
           /\ file[r] \in Seq(Block) /\ Len(file[r]) \in Nat
           /\ piped[r] \in BOOLEAN /\ kept[r] \in Nat
           /\ clean[r] \in BOOLEAN /\ short[r] \in BOOLEAN
           /\ recv[r] \notin {"idle", "failed"} => ticket[r].key \in Contents
           /\ RunOf(r) /\ GetOf(r) /\ ReadsWhole(r) /\ HasPayload(r)
<1>1. RecvTypes /\ SendTypes /\ ReceiverFits(r)
  BY DEF IInv, Types
<1>2. RunOf(r) /\ GetOf(r) /\ ReadsWhole(r) /\ HasPayload(r)
  BY <1>1 DEF ReceiverFits
<1>3. recv[r] \notin {"idle", "failed"} => ticket[r].key \in Contents
  BY <1>1, <1>2 DEF SendTypes, RunOf, Ticket
<1>4. file[r] \in Seq(Block) /\ Len(file[r]) \in Nat
  BY <1>1, LenProperties DEF RecvTypes
<1> QED
  BY <1>1, <1>2, <1>3, <1>4 DEF RecvTypes, Requests

(* The first two of the receiver's actions.                                *)
LEMMA RecvFailsKeeps ==
    ASSUME IInv, NEW r \in Receivers, RecvFails(r)
    PROVE  IInv'
<1>1. RecvTypes'
  BY BoundsAssumption
     DEF IInv, Types, RecvTypes, RecvFails, Goes, Ended, NoTicket, NoGet, Requests
<1>2. /\ recv'[r] = "failed" /\ get'[r] = NoGet /\ kept'[r] = 0 /\ ~piped'[r]
      /\ file'[r] = file[r]
      /\ UNCHANGED <<storeVars, source, send, upload, tickets, spoilt>>
  BY DEF IInv, Types, RecvTypes, RecvFails, Goes, sendVars
<1>3. \A q \in Receivers \ {r} :
         /\ recv'[q] = recv[q] /\ ticket'[q] = ticket[q] /\ offset'[q] = offset[q]
         /\ get'[q] = get[q] /\ file'[q] = file[q] /\ piped'[q] = piped[q]
         /\ kept'[q] = kept[q] /\ clean'[q] = clean[q] /\ short'[q] = short[q]
  BY DEF IInv, Types, RecvTypes, RecvFails, Goes
<1>4. ReceiverFits(r)'
  BY <1>2, RunIs DEF ReceiverFits, RunOf, GetOf, ReadsWhole, HasPayload
<1> QED
  BY <1>1, <1>2, <1>3, <1>4, ReceiverKeeps

LEMMA RecvKeeps ==
    ASSUME IInv, NEW r \in Receivers, NEW t \in tickets, NEW m, Recv(r, t, m)
    PROVE  IInv'
<1>1. t \in Ticket
  BY DEF IInv, Types, SendTypes
<1> DEFINE size == ResumeFrom(m, file[r], Whole(t.key))
<1>2. /\ size \in Nat
      /\ size > 0 => size = Len(file[r]) /\ m # "stdout"
  BY RunIs DEF ResumeFrom
<1>3. /\ recv'[r] = IF Skips(m, file[r], Whole(t.key))
                    THEN IF t.del THEN "deleting" ELSE "done"
                    ELSE "asking"
      /\ ticket'[r] = t /\ offset'[r] = size /\ kept'[r] = 0 /\ clean'[r] /\ ~short'[r]
      /\ file'[r] = IF m = "stdout" THEN <<>> ELSE file[r]
      /\ piped'[r] = (m = "stdout")
      /\ get'[r] = NoGet
      /\ UNCHANGED <<storeVars, source, send, upload, tickets, spoilt>>
  <2>1. get[r] = NoGet
    BY RunIs DEF Recv, Ended, GetOf
  <2>2. get' = get /\ UNCHANGED <<storeVars, source, send, upload, tickets, spoilt>>
    BY DEF Recv, sendVars
  <2> QED
    BY <2>1, <2>2 DEF IInv, Types, RecvTypes, Recv, Goes, DeletesOrEnds
<1>4. \A q \in Receivers \ {r} :
         /\ recv'[q] = recv[q] /\ ticket'[q] = ticket[q] /\ offset'[q] = offset[q]
         /\ get'[q] = get[q] /\ file'[q] = file[q] /\ piped'[q] = piped[q]
         /\ kept'[q] = kept[q] /\ clean'[q] = clean[q] /\ short'[q] = short[q]
  BY DEF IInv, Types, RecvTypes, Recv, Goes, DeletesOrEnds
<1>5. RecvTypes'
  <2>1. file' \in [Receivers -> Seq(Block)]
    <3>1. <<>> \in Seq(Block)
      BY EmptySeq
    <3> QED
      BY <3>1 DEF IInv, Types, RecvTypes, Recv
  <2>2. recv' \in [Receivers -> Ended \cup {"asking", "copying", "deleting"}]
    BY DEF IInv, Types, RecvTypes, Recv, Goes, DeletesOrEnds, Ended
  <2>3. ticket' \in [Receivers -> [key : Contents \cup {Hole}, del : BOOLEAN]]
    BY <1>1 DEF IInv, Types, RecvTypes, Recv, Ticket
  <2>4. offset' \in [Receivers -> Nat]
    BY <1>2 DEF IInv, Types, RecvTypes, Recv
  <2>5. /\ get' = get /\ piped' \in [Receivers -> BOOLEAN]
        /\ kept' \in [Receivers -> Nat] /\ clean' \in [Receivers -> BOOLEAN]
        /\ short' \in [Receivers -> BOOLEAN]
    BY DEF IInv, Types, RecvTypes, Recv
  <2> QED
    BY <2>1, <2>2, <2>3, <2>4, <2>5 DEF IInv, Types, RecvTypes
<1>6. RunOf(r)'
  <2>1. Len(file'[r]) \in Nat /\ (m # "stdout" => file'[r] = file[r])
    BY <1>3, RunIs, EmptySeq
  <2>2. Skips(m, file[r], Whole(t.key)) => m # "stdout"
    BY DEF Skips
  <2> HIDE DEF size
  <2>3. recv'[r] \notin {"idle", "failed"} => ticket'[r] \in tickets'
    BY <1>3
  <2>4. recv'[r] = "deleting" => ticket'[r].del
    BY <1>3
  <2>5. kept'[r] <= Len(file'[r])
    BY <1>3, <2>1
  <2>6. recv'[r] = "asking" => kept'[r] = 0 /\ (offset'[r] > 0 => offset'[r] = Len(file'[r]))
    BY <1>2, <1>3, <2>1
  <2>7. piped'[r] => /\ recv'[r] \in {"asking", "copying"}
                     /\ kept'[r] = 0
                     /\ recv'[r] = "asking" => offset'[r] = 0
    <3>1. piped'[r] => m = "stdout"
      BY <1>3
    <3>2. m = "stdout" => size = 0 /\ recv'[r] = "asking"
      BY <1>2, <1>3, <2>2
    <3> QED
      BY <1>3, <3>1, <3>2
  <2> QED
    BY <2>3, <2>4, <2>5, <2>6, <2>7 DEF RunOf
<1>7. GetOf(r)' /\ ReadsWhole(r)'
  BY <1>3 DEF GetOf, ReadsWhole
<1>8. HasPayload(r)'
  <2>1. SUFFICES ASSUME Skips(m, file[r], Whole(t.key)) PROVE Holds(r)'
    BY <1>3 DEF HasPayload, Received
  <2>2. file'[r] = Whole(t.key) /\ kept'[r] = 0 /\ ticket'[r].key = t.key
    BY <1>3, <2>1 DEF Skips
  <2>3. t.key \in Contents
    BY <1>1 DEF Ticket
  <2> QED
    BY <2>2, <2>3, WholeIs, BoundsAssumption DEF Holds
<1> QED
  BY <1>3, <1>4, <1>5, <1>6, <1>7, <1>8, ReceiverKeeps DEF ReceiverFits

(* What the invariant says of one sender.                                  *)
LEMMA SendIs ==
    ASSUME IInv, NEW s \in Senders
    PROVE  /\ send[s] \in {"idle", "hashed", "opening", "uploading"}
           /\ upload[s] \in Uploads
           /\ upload[s].key \in Contents \cup {Hole} /\ upload[s].del \in BOOLEAN
           /\ upload[s].inode \in Nat /\ upload[s].pos \in Nat /\ upload[s].pos <= Size
           /\ source[s] \in Contents
           /\ send[s] # "idle" => upload[s].key \in Contents
           /\ UploadOf(s) /\ WritesItsOwn(s) /\ HiddenOf(s) /\ PromiseOf(s)
<1>1. SendTypes /\ SenderFits(s)
  BY DEF IInv, Types
<1>2. /\ upload[s].key \in Contents \cup {Hole} /\ upload[s].del \in BOOLEAN
      /\ upload[s].inode \in Nat /\ upload[s].pos \in 0..Size
  BY <1>1 DEF SendTypes, Uploads
<1> QED
  BY <1>1, <1>2, BoundsAssumption DEF SendTypes, SenderFits, UploadOf

(* A step of a sender leaves the runs as they are if it changes nothing    *)
(* that a clean one reads,                                                 *)
LEMMA ReadersStay ==
    ASSUME IInv, NEW r \in Receivers, Len(inodes') >= Len(inodes),
           UNCHANGED <<store, recv, ticket, offset, get, file, piped, kept, short>>,
           tickets \subseteq tickets', clean'[r] => clean[r],
           recv[r] = "copying" /\ clean'[r] =>
              /\ inodes'[get[r].inode] = inodes[get[r].inode]
              /\ \A l \in DOMAIN objects' : objects'[l] = get[r].inode => l = ticket[r].key
              /\ \A s \in Senders : Live(s)' => upload'[s].inode # get[r].inode
    PROVE  ReceiverFits(r)'
<1>1. RunOf(r)'
  BY RunIs DEF RunOf
<1>2. GetOf(r)'
  <2>1. get[r].inode \in 1..Len(inodes) => get[r].inode \in 1..Len(inodes')
    <3>1. Len(inodes) \in Nat /\ get[r].inode \in Nat
      BY LenProperties, RunIs DEF IInv, Types, StoreTypes
    <3> QED
      BY <3>1
  <2> QED
    BY <2>1, RunIs DEF GetOf, Http
<1>3. ReadsWhole(r)'
  BY RunIs DEF ReadsWhole
<1>4. HasPayload(r)'
  BY RunIs DEF HasPayload, Received, Holds, HoldsPart
<1> QED
  BY <1>1, <1>2, <1>3, <1>4 DEF ReceiverFits

(* and the other senders if it does not touch their inodes.                *)
LEMMA OthersSend ==
    ASSUME IInv, NEW s \in Senders, NEW u \in Senders \ {s}, store' = store,
           \A t \in Senders \ {s} : send'[t] = send[t] /\ upload'[t] = upload[t],
           Len(inodes') \in Nat, Len(inodes') >= Len(inodes),
           tickets \subseteq tickets', spoilt \subseteq spoilt',
           DOMAIN objects \subseteq DOMAIN objects',
           Live(u) =>
              /\ \A l \in DOMAIN objects' : objects'[l] = upload[u].inode
                    => l \in DOMAIN objects /\ objects[l] = objects'[l]
              /\ ~store.inPlace =>
                    /\ inodes'[upload[u].inode] = inodes[upload[u].inode]
                    /\ Live(s)' => upload'[s].inode # upload[u].inode
    PROVE  SenderFits(u)'
<1>1. /\ send'[u] = send[u] /\ upload'[u] = upload[u]
      /\ \A t \in Senders \ {s} : Live(t)' = Live(t)
  BY DEF Live
<1>2. UploadOf(u)'
  <2>1. upload[u].inode \in 1..Len(inodes) => upload[u].inode \in 1..Len(inodes')
    <3>1. Len(inodes) \in Nat /\ upload[u].inode \in Nat
      BY LenProperties, SendIs DEF IInv, Types, StoreTypes
    <3> QED
      BY <3>1
  <2> QED
    BY <1>1, <2>1, SendIs DEF UploadOf
<1>3. WritesItsOwn(u)'
  BY <1>1, SendIs DEF WritesItsOwn
<1>4. HiddenOf(u)'
  BY <1>1, SendIs DEF HiddenOf
<1>5. PromiseOf(u)'
  BY <1>1, SendIs DEF PromiseOf
<1> QED
  BY <1>2, <1>3, <1>4, <1>5 DEF SenderFits

(* A step of a sender that neither changes the store nor is at an upload   *)
(* afterwards.                                                             *)
LEMMA Quietly ==
    ASSUME IInv, UNCHANGED <<storeVars, recvVars>>, NEW s \in Senders, ~Live(s)',
           \A t \in Senders \ {s} : send'[t] = send[t] /\ upload'[t] = upload[t],
           tickets \subseteq tickets', spoilt \subseteq spoilt',
           Live(s) /\ store.inPlace => upload[s].key \in spoilt',
           SendTypes', SenderFits(s)', TicketKeepsObject'
    PROVE  IInv'
<1>1. UNCHANGED <<store, objects, inodes, staged>> /\ StoreTypes /\ RecvTypes
  BY DEF IInv, Types, storeVars
<1>2. Types'
  BY <1>1 DEF Types, StoreTypes, RecvTypes, recvVars
<1>3. ASSUME NEW k \in Contents PROVE ContentFits(k)'
  <2>1. ContentFits(k)
    BY <1>3 DEF IInv
  <2>2. StoredOf(k)'
    <3>1. SUFFICES ASSUME k \in DOMAIN objects, k \notin spoilt', NEW i \in 1..Size
                   PROVE  Written(k, i)' \/ ToBeWritten(k, i)'
      BY <1>1 DEF StoredOf
    <3>2. Written(k, i) \/ ToBeWritten(k, i)
      BY <2>1, <3>1 DEF ContentFits, StoredOf
    <3>3. Written(k, i) => Written(k, i)'
      BY <1>1 DEF Written
    <3>4. ToBeWritten(k, i) => ToBeWritten(k, i)'
      <4>1. SUFFICES ASSUME NEW w \in Writers(k), upload[w].inode = objects[k],
                            upload[w].pos < i
                     PROVE  w \in Writers(k)' /\ upload'[w] = upload[w]
        BY <1>1 DEF ToBeWritten
      <4>2. store.protocol # "azure"
        BY StoresAssumption DEF IInv, Types, StoreTypes, Writers
      <4>3. w # s
        BY <3>1, <4>2 DEF Writers, Live
      <4> QED
        BY <1>1, <4>3 DEF Writers
    <3> QED
      BY <3>2, <3>3, <3>4
  <2>3. StagedOf(k)'
    BY <1>1, <2>1 DEF ContentFits, StagedOf
  <2> QED
    BY <1>1, <2>1, <2>2, <2>3 DEF ContentFits
<1>4. ASSUME NEW u \in Senders PROVE SenderFits(u)'
  <2>1. Len(inodes) \in Nat
    BY <1>1, LenProperties DEF StoreTypes
  <2> QED
    BY <1>1, <1>4, <2>1, OthersSend
<1>5. ASSUME NEW r \in Receivers PROVE ReceiverFits(r)'
  <2>1. Len(inodes) \in Nat
    BY <1>1, LenProperties DEF StoreTypes
  <2>2. \A t \in Senders : Live(t)' => Live(t) /\ upload'[t] = upload[t]
    BY <1>1 DEF Live
  <2>3. UNCHANGED <<store, recv, ticket, offset, get, file, piped, kept, clean, short>>
    BY <1>1 DEF recvVars
  <2>4. ReadsWhole(r)
    BY RunIs
  <2>5. recv[r] = "copying" /\ clean'[r] =>
           /\ \A l \in DOMAIN objects' : objects'[l] = get[r].inode => l = ticket[r].key
           /\ \A t \in Senders : Live(t)' => upload'[t].inode # get[r].inode
    BY <1>1, <2>2, <2>3, <2>4 DEF ReadsWhole
  <2> QED
    BY <1>1, <1>5, <2>1, <2>3, <2>5, ReadersStay
<1> QED
  BY <1>2, <1>3, <1>4, <1>5 DEF IInv

(* Tickets keep their object if nothing is deleted, and new ones if it is  *)
(* there.                                                                  *)
LEMMA TicketsStay ==
    ASSUME IInv, objects' = objects, tickets' = tickets
    PROVE  TicketKeepsObject'
<1>1. TicketKeepsObject
  BY DEF IInv
<1> QED
  BY <1>1, Zenon DEF TicketKeepsObject

LEMMA IssuedIsKept ==
    ASSUME IInv, NEW k, NEW d \in BOOLEAN, DOMAIN objects \subseteq DOMAIN objects',
           tickets' = tickets \cup {[key |-> k, del |-> d]},
           k \in DOMAIN objects' \/ [key |-> k, del |-> TRUE] \in tickets
    PROVE  TicketKeepsObject'
<1>1. ASSUME NEW t \in tickets
      PROVE  t.key \in DOMAIN objects' \/ [key |-> t.key, del |-> TRUE] \in tickets'
  <2>1. t.key \in DOMAIN objects \/ [key |-> t.key, del |-> TRUE] \in tickets
    BY <1>1 DEF IInv, TicketKeepsObject
  <2> QED
    BY <2>1
<1>2. ASSUME NEW t, t = [key |-> k, del |-> d]
      PROVE  t.key \in DOMAIN objects' \/ [key |-> t.key, del |-> TRUE] \in tickets'
  <2>1. t.key = k
    BY <1>2
  <2>2. [key |-> k, del |-> TRUE] \in tickets => [key |-> k, del |-> TRUE] \in tickets'
    OBVIOUS
  <2> QED
    BY <2>1, <2>2
<1>3. \A t \in tickets' : t \in tickets \/ t = [key |-> k, del |-> d]
  OBVIOUS
<1> QED
  BY <1>1, <1>2, <1>3, Zenon DEF TicketKeepsObject

-----------------------------------------------------------------------------
(* What is read is whole if it was so when it was opened                   *)
(* (service/recv.rs).                                                      *)
LEMMA OpenedFits ==
    ASSUME IInv, NEW r \in Receivers, Asks(r), NEW from \in Nat,
           from = 0 \/ from = offset[r],
           Http => from <= Len(inodes[objects[ticket[r].key]]),
           Opened(r, ticket[r].key, from),
           UNCHANGED <<storeVars, sendVars, ticket, piped, short>>
    PROVE  IInv'
<1> DEFINE k == ticket[r].key
           n == objects[k]
           size == Len(inodes[n])
<1>1. /\ k \in DOMAIN objects /\ k \in Contents /\ recv[r] = "asking"
      /\ n \in 1..Len(inodes) /\ n \in Nat
      /\ size \in 0..Size
  <2>1. k \in DOMAIN objects /\ recv[r] = "asking"
    BY DEF Asks
  <2>2. k \in Contents /\ n \in 1..Len(inodes)
    BY <2>1 DEF IInv, Types, StoreTypes
  <2>3. StoreTypes
    BY DEF IInv, Types
  <2> QED
    BY <2>1, <2>2, <2>3, InodesAre
<1>2. /\ recv'[r] = "copying" /\ kept'[r] = from /\ offset'[r] = 0
      /\ get'[r] = [inode |-> n, next |-> from, end |-> IF Http THEN size ELSE Size]
      /\ file'[r] = IF from > 0 THEN file[r] ELSE <<>>
      /\ clean'[r] = (k \notin spoilt /\ Writers(k) = {})
      /\ ticket' = ticket /\ piped' = piped /\ short' = short
      /\ UNCHANGED <<storeVars, source, send, upload, tickets, spoilt>>
  BY DEF IInv, Types, RecvTypes, Opened, Goes, sendVars
<1>3. \A q \in Receivers \ {r} :
         /\ recv'[q] = recv[q] /\ ticket'[q] = ticket[q] /\ offset'[q] = offset[q]
         /\ get'[q] = get[q] /\ file'[q] = file[q] /\ piped'[q] = piped[q]
         /\ kept'[q] = kept[q] /\ clean'[q] = clean[q] /\ short'[q] = short[q]
  BY <1>2 DEF IInv, Types, RecvTypes, Opened, Goes
<1>4. RecvTypes'
  <2>1. /\ recv' \in [Receivers -> Ended \cup {"asking", "copying", "deleting"}]
        /\ offset' \in [Receivers -> Nat] /\ kept' \in [Receivers -> Nat]
        /\ clean' \in [Receivers -> BOOLEAN]
        /\ ticket' = ticket /\ piped' = piped /\ short' = short
    BY DEF IInv, Types, RecvTypes, Opened, Goes
  <2>2. <<>> \in Seq(Block)
    BY EmptySeq
  <2>3. file' \in [Receivers -> Seq(Block)]
    BY <2>2 DEF IInv, Types, RecvTypes, Opened
  <2>4. [inode |-> n, next |-> from, end |-> IF Http THEN size ELSE Size] \in Requests
    BY <1>1, BoundsAssumption DEF Requests
  <2>5. get' = [get EXCEPT ![r] = [inode |-> n, next |-> from,
                                   end |-> IF Http THEN size ELSE Size]]
    BY DEF Opened
  <2>6. get' \in [Receivers -> Requests]
    BY <2>4, <2>5 DEF IInv, Types, RecvTypes
  <2> QED
    BY <2>1, <2>3, <2>6 DEF IInv, Types, RecvTypes
<1>5. Len(file'[r]) = from /\ (piped[r] => from = 0) /\ ticket[r] \in tickets
  <2>1. /\ ticket[r] \in tickets /\ (piped[r] => offset[r] = 0)
        /\ offset[r] > 0 => offset[r] = Len(file[r])
    BY <1>1, RunIs DEF RunOf
  <2>2. from > 0 => from = Len(file[r])
    BY <2>1
  <2>3. Len(file'[r]) = from
    BY <1>2, <2>2, EmptySeq
  <2> QED
    BY <2>1, <2>3
<1>6. RunOf(r)'
  BY <1>2, <1>5 DEF RunOf
<1>7. GetOf(r)'
  <2>1. Http' = Http /\ inodes' = inodes
    BY <1>2 DEF Http, storeVars
  <2>2. /\ get'[r].inode = n /\ get'[r].next = from
        /\ get'[r].end = IF Http THEN size ELSE Size
    BY <1>2
  <2> HIDE DEF k, n, size
  <2>3. get'[r].end <= Size /\ (Http => from <= get'[r].end)
    BY <1>1, <2>2, BoundsAssumption DEF size, n, k
  <2> QED
    BY <1>1, <1>2, <1>5, <2>1, <2>2, <2>3 DEF GetOf
<1>8. ReadsWhole(r)'
  <2>1. SUFFICES ASSUME k \notin spoilt, Writers(k) = {}
                 PROVE  /\ size = Size
                        /\ \A i \in 1..Size : inodes[n][i] = k
                        /\ \A l \in DOMAIN objects : objects[l] = n => l = k
                        /\ \A s \in Senders : Live(s) => upload[s].inode # n
    <3>1. /\ get'[r].inode = n /\ get'[r].next = from /\ kept'[r] = from
          /\ get'[r].end = IF Http THEN size ELSE Size
      BY <1>2
    <3>2. \A i \in from + 1..from : FALSE
      OBVIOUS
    <3>3. inodes' = inodes /\ objects' = objects /\ \A s \in Senders : Live(s)' = Live(s)
      BY <1>2 DEF Live, storeVars
    <3> HIDE DEF n, size, k
    <3>4. ticket'[r].key = k /\ clean'[r] = (k \notin spoilt /\ Writers(k) = {})
          /\ upload' = upload
      BY <1>2 DEF k
    <3> QED
      BY <3>1, <3>2, <3>3, <3>4 DEF ReadsWhole, size
  <2>2. ContentFits(k)
    BY <1>1 DEF IInv
  <2>3. \A i \in 1..Size : i <= size /\ inodes[n][i] = k
    BY <1>1, <2>1, <2>2 DEF ContentFits, StoredOf, Written, ToBeWritten
  <2>4. size = Size
    <3>1. Size \in 1..Size /\ Size \in Nat
      BY BoundsAssumption
    <3>2. Size <= size
      BY <2>3, <3>1
    <3>3. size \in 0..Size
      BY <1>1
    <3> HIDE DEF size
    <3> QED
      BY <3>1, <3>2, <3>3
  <2>5. \A l \in DOMAIN objects : objects[l] = n => l = k
    BY <1>1, <2>2 DEF ContentFits
  <2>6. ASSUME NEW s \in Senders, Live(s), upload[s].inode = n PROVE FALSE
    <3>1. WritesItsOwn(s)
      BY <2>6 DEF IInv, SenderFits
    <3>2. store.inPlace /\ upload[s].key = k
      BY <1>1, <2>6, <3>1 DEF WritesItsOwn
    <3> QED
      BY <2>1, <2>6, <3>2 DEF Writers, Live
  <2> QED
    BY <2>3, <2>4, <2>5, <2>6
<1>9. HasPayload(r)'
  BY <1>2 DEF HasPayload
<1> QED
  BY <1>2, <1>3, <1>4, <1>6, <1>7, <1>8, <1>9, ReceiverKeeps DEF ReceiverFits

LEMMA AskHttpKeeps ==
    ASSUME IInv, NEW r \in Receivers, AskHttp(r)
    PROVE  IInv'
<1> DEFINE k == ticket[r].key
<1>1. CASE (offset[r] > 0 => offset[r] < Len(inodes[objects[k]])) /\ Opened(r, k, offset[r])
  <2>1. objects[k] \in 1..Len(inodes) /\ StoreTypes /\ offset[r] \in Nat
    BY RunIs DEF IInv, Types, StoreTypes, AskHttp, Asks
  <2>2. offset[r] <= Len(inodes[objects[k]])
    <3>1. Len(inodes[objects[k]]) \in 0..Size
      BY <2>1, InodesAre
    <3> HIDE DEF k
    <3> QED
      BY <1>1, <2>1, <3>1, BoundsAssumption
  <2> QED
    BY <1>1, <2>1, <2>2, OpenedFits DEF AskHttp
<1>2. CASE /\ offset' = [offset EXCEPT ![r] = 0]
           /\ UNCHANGED <<recv, get, file, kept, clean>>
  <2>1. /\ UNCHANGED <<recv, get, file, kept, clean, short, ticket, piped>>
        /\ UNCHANGED <<storeVars, source, send, upload, tickets, spoilt>>
    BY <1>2 DEF AskHttp, sendVars
  <2>2. RecvTypes' /\ offset'[r] = 0 /\ \A q \in Receivers \ {r} : offset'[q] = offset[q]
    BY <1>2, <2>1 DEF IInv, Types, RecvTypes
  <2>3. RunOf(r) /\ GetOf(r) /\ ReadsWhole(r) /\ HasPayload(r)
    BY RunIs
  <2>4. RunOf(r)' /\ GetOf(r)' /\ HasPayload(r)'
    BY <2>1, <2>2, <2>3 DEF RunOf, GetOf, HasPayload, Received, Holds, HoldsPart, Http, storeVars
  <2>5. ReadsWhole(r)'
    BY <2>1, <2>3 DEF ReadsWhole, Live, storeVars
  <2> QED
    BY <2>1, <2>2, <2>4, <2>5, ReceiverKeeps DEF ReceiverFits
<1> QED
  BY <1>1, <1>2 DEF AskHttp

LEMMA AskFtpKeeps ==
    ASSUME IInv, NEW r \in Receivers, AskFtp(r) \/ AskSftp(r)
    PROVE  IInv'
<1>1. ~Http /\ Asks(r) /\ UNCHANGED <<storeVars, sendVars, ticket, piped, short>>
  BY DEF AskFtp, AskSftp, Http
<1>2. PICK from \in {0, offset[r]} : Opened(r, ticket[r].key, from)
  BY DEF AskFtp, AskSftp
<1>3. from \in Nat
  BY RunIs
<1> QED
  BY <1>1, <1>2, <1>3, OpenedFits

LEMMA CopyKeeps ==
    ASSUME IInv, NEW r \in Receivers, Copy(r)
    PROVE  IInv'
<1> DEFINE g == get[r]
           b == inodes[g.inode][g.next + 1]
<1>1. /\ recv[r] = "copying" /\ g.next < g.end /\ g.next < Len(inodes[g.inode])
      /\ g.inode \in 1..Len(inodes) /\ g.next = Len(file[r]) /\ g.end <= Size
      /\ g.next \in Nat /\ g.end \in Nat /\ g.inode \in Nat
  BY RunIs DEF Copy, GetOf
<1>2. b \in Block
  <2>1. StoreTypes
    BY DEF IInv, Types
  <2>2. Len(inodes[g.inode]) \in Nat /\ g.next + 1 \in 1..Len(inodes[g.inode])
    <3> DEFINE next == g.next
               size == Len(inodes[g.inode])
    <3>1. size \in 0..Size
      BY <1>1, <2>1, InodesAre
    <3>2. next \in Nat /\ next < size
      BY <1>1
    <3> HIDE DEF next, size
    <3>3. size \in Nat /\ next + 1 \in 1..size
      BY <3>1, <3>2, BoundsAssumption
    <3> QED
      BY <3>3 DEF next, size
  <2> QED
    BY <1>1, <2>1, <2>2, InodesAre
<1>3. /\ get'[r] = [inode |-> g.inode, next |-> g.next + 1, end |-> g.end]
      /\ file'[r] = Append(file[r], b)
      /\ recv' = recv /\ ticket' = ticket /\ offset' = offset /\ piped' = piped
      /\ kept' = kept /\ clean' = clean /\ short' = short
      /\ UNCHANGED <<storeVars, source, send, upload, tickets, spoilt>>
  BY DEF IInv, Types, RecvTypes, Requests, Copy, sendVars
<1>4. \A q \in Receivers \ {r} : get'[q] = get[q] /\ file'[q] = file[q]
  BY DEF IInv, Types, RecvTypes, Copy
<1>5. /\ file'[r] \in Seq(Block) /\ Len(file'[r]) = g.next + 1
      /\ file'[r][g.next + 1] = b
      /\ \A i \in 1..g.next : file'[r][i] = file[r][i]
  BY <1>1, <1>2, <1>3, RunIs, AppendProperties
<1>6. RecvTypes'
  <2>1. file' \in [Receivers -> Seq(Block)]
    <3>1. Append(file[r], b) \in Seq(Block)
      BY <1>3, <1>5
    <3>2. file' = [file EXCEPT ![r] = Append(file[r], b)]
      BY DEF Copy
    <3> QED
      BY <3>1, <3>2 DEF IInv, Types, RecvTypes
  <2>2. get' \in [Receivers -> Requests]
    <3>1. g.next + 1 \in Nat /\ g \in Requests
      BY <1>1 DEF IInv, Types, RecvTypes
    <3> QED
      BY <3>1 DEF IInv, Types, RecvTypes, Copy, Requests
  <2> QED
    BY <1>3, <2>1, <2>2 DEF IInv, Types, RecvTypes
<1>7. RunOf(r)'
  BY <1>1, <1>3, <1>5, RunIs DEF RunOf
<1>8. GetOf(r)'
  <2>1. inodes' = inodes
    BY <1>3 DEF storeVars
  <2>2. get'[r].inode = g.inode /\ get'[r].next = g.next + 1 /\ get'[r].end = g.end
    BY <1>3
  <2> QED
    BY <1>1, <1>3, <1>5, <2>1, <2>2 DEF GetOf
<1>9. ReadsWhole(r)'
  <2>1. /\ inodes' = inodes /\ objects' = objects /\ upload' = upload
        /\ \A s \in Senders : Live(s)' = Live(s)
    BY <1>3 DEF Live, storeVars
  <2>2. get'[r].inode = g.inode /\ get'[r].next = g.next + 1 /\ get'[r].end = g.end
    BY <1>3
  <2>3. SUFFICES ASSUME clean[r]
                 PROVE  \A i \in kept[r] + 1..g.next + 1 : file'[r][i] = ticket[r].key
    <3>1. clean[r] => /\ Len(inodes[g.inode]) = Size /\ g.end = Size
                      /\ \A i \in 1..Size : inodes[g.inode][i] = ticket[r].key
                      /\ \A l \in DOMAIN objects : objects[l] = g.inode => l = ticket[r].key
                      /\ \A s \in Senders : Live(s) => upload[s].inode # g.inode
      BY <1>1, RunIs DEF ReadsWhole
    <3>2. kept' = kept /\ clean' = clean /\ ticket' = ticket
      BY <1>3
    <3> QED
      BY <2>1, <2>2, <3>1, <3>2 DEF ReadsWhole
  <2>4. /\ \A i \in kept[r] + 1..g.next : file[r][i] = ticket[r].key
        /\ \A i \in 1..Size : inodes[g.inode][i] = ticket[r].key
    BY <1>1, <2>3, RunIs DEF ReadsWhole
  <2>5. b = ticket[r].key
    <3> DEFINE next == g.next
               end == g.end
    <3>1. next \in Nat /\ end \in Nat /\ next < end /\ end <= Size
      BY <1>1
    <3> HIDE DEF next, end
    <3>2. next + 1 \in 1..Size
      BY <3>1, BoundsAssumption
    <3> QED
      BY <2>4, <3>2 DEF next
  <2>6. kept[r] \in Nat
    BY RunIs
  <2>7. TAKE i \in kept[r] + 1..g.next + 1
  <2>8. (i \in 1..g.next /\ i \in kept[r] + 1..g.next) \/ i = g.next + 1
    <3> DEFINE next == g.next
    <3>1. next \in Nat /\ i \in kept[r] + 1..next + 1
      BY <1>1, <2>7
    <3> HIDE DEF next
    <3>2. (i \in 1..next /\ i \in kept[r] + 1..next) \/ i = next + 1
      BY <2>6, <3>1
    <3> QED
      BY <3>2 DEF next
  <2> QED
    BY <1>5, <2>4, <2>5, <2>8
<1>10. HasPayload(r)'
  BY <1>1, <1>3 DEF HasPayload
<1> QED
  BY <1>3, <1>4, <1>6, <1>7, <1>8, <1>9, <1>10, ReceiverKeeps DEF ReceiverFits

(* A clean run has the payload's blocks up to where it is,                 *)
LEMMA Underway ==
    ASSUME IInv, NEW r \in Receivers, recv[r] = "copying", clean[r]
    PROVE  HoldsPart(r)
<1> DEFINE next == get[r].next
           k == ticket[r].key
<1>1. /\ next \in Nat /\ kept[r] \in Nat /\ next = Len(file[r])
      /\ next = kept[r] \/ next <= Size
      /\ \A i \in kept[r] + 1..next : file[r][i] = k
  <2>1. get[r].end = Size
    BY RunIs DEF ReadsWhole
  <2> QED
    BY <2>1, RunIs DEF ReadsWhole, GetOf
<1>2. next <= IF kept[r] > Size THEN kept[r] ELSE Size
  <2> HIDE DEF next, k
  <2> QED
    BY <1>1, BoundsAssumption
<1> QED
  BY <1>1, <1>2 DEF HoldsPart

(* and all of them if it reached the end.                                  *)
LEMMA Stopped ==
    ASSUME IInv, NEW r \in Receivers, recv[r] = "copying", clean[r],
           IF Http THEN get[r].next = get[r].end ELSE get[r].next >= Len(inodes[get[r].inode])
    PROVE  Holds(r)
<1> DEFINE next == get[r].next
           k == ticket[r].key
<1>1. /\ next \in Nat /\ kept[r] \in Nat /\ next = Len(file[r])
      /\ kept[r] <= next /\ (next = kept[r] \/ next <= Size)
      /\ Size <= next
      /\ \A i \in kept[r] + 1..next : file[r][i] = k
  <2>1. get[r].end = Size /\ Len(inodes[get[r].inode]) = Size
    BY RunIs DEF ReadsWhole
  <2>2. Size <= next
    <3>1. next = Size \/ next >= Size
      BY <2>1
    <3>2. next \in Nat
      BY RunIs
    <3> HIDE DEF next
    <3> QED
      BY <3>1, <3>2, BoundsAssumption
  <2> QED
    BY <2>1, <2>2, RunIs DEF ReadsWhole, RunOf, GetOf
<1>2. next = IF kept[r] > Size THEN kept[r] ELSE Size
  <2> HIDE DEF next, k
  <2> QED
    BY <1>1, BoundsAssumption
<1>3. \A i \in kept[r] + 1..Size : i \in kept[r] + 1..next
  <2> HIDE DEF next, k
  <2> QED
    BY <1>1, BoundsAssumption
<1> QED
  BY <1>1, <1>2, <1>3 DEF Holds

(* A run that reports success holds what it should: the whole, unless it is*)
(* on record that its body was short.                                      *)
LEMMA SucceedsKeeps ==
    ASSUME IInv, NEW r \in Receivers, recv[r] = "copying", RecvTypes',
           recv'[r] = IF ticket[r].del THEN "deleting" ELSE "done",
           get'[r] = NoGet, ~piped'[r], clean[r] /\ ~short'[r] => Holds(r),
           UNCHANGED <<ticket, offset, file, kept, clean>>,
           UNCHANGED <<storeVars, source, send, upload, tickets, spoilt>>,
           \A q \in Receivers \ {r} : /\ recv'[q] = recv[q] /\ get'[q] = get[q]
                                      /\ piped'[q] = piped[q] /\ short'[q] = short[q]
    PROVE  IInv'
<1>1. RunOf(r)' /\ GetOf(r)' /\ ReadsWhole(r)'
  BY RunIs DEF RunOf, GetOf, ReadsWhole
<1>2. HasPayload(r)'
  <2>1. clean[r] => HoldsPart(r)
    BY Underway
  <2> QED
    BY <2>1 DEF HasPayload, Received, Holds, HoldsPart
<1> QED
  BY <1>1, <1>2, ReceiverKeeps DEF ReceiverFits

LEMMA CompleteKeeps ==
    ASSUME IInv, NEW r \in Receivers, Complete(r)
    PROVE  IInv'
<1>1. RecvTypes'
  <2>1. NoGet \in Requests
    BY DEF NoGet, Requests
  <2> QED
    BY <2>1 DEF IInv, Types, RecvTypes, Complete, Goes, DeletesOrEnds, Ended
<1>2. /\ recv[r] = "copying" /\ recv'[r] = IF ticket[r].del THEN "deleting" ELSE "done"
      /\ get'[r] = NoGet /\ ~piped'[r] /\ short' = short
      /\ UNCHANGED <<ticket, offset, file, kept, clean>>
      /\ UNCHANGED <<storeVars, source, send, upload, tickets, spoilt>>
  BY DEF IInv, Types, RecvTypes, Complete, Goes, DeletesOrEnds, sendVars
<1>3. \A q \in Receivers \ {r} :
         recv'[q] = recv[q] /\ get'[q] = get[q] /\ piped'[q] = piped[q]
  BY DEF IInv, Types, RecvTypes, Complete, Goes, DeletesOrEnds
<1>4. clean[r] => Holds(r)
  BY <1>2, Stopped DEF Complete
<1> QED
  BY <1>1, <1>2, <1>3, <1>4, SucceedsKeeps

LEMMA CompleteShortKeeps ==
    ASSUME IInv, NEW r \in Receivers, CompleteShort(r)
    PROVE  IInv'
<1>1. RecvTypes'
  <2>1. NoGet \in Requests
    BY DEF NoGet, Requests
  <2> QED
    BY <2>1 DEF IInv, Types, RecvTypes, CompleteShort, Goes, DeletesOrEnds, Ended
<1>2. /\ recv[r] = "copying" /\ recv'[r] = IF ticket[r].del THEN "deleting" ELSE "done"
      /\ get'[r] = NoGet /\ ~piped'[r] /\ short'[r]
      /\ UNCHANGED <<ticket, offset, file, kept, clean>>
      /\ UNCHANGED <<storeVars, source, send, upload, tickets, spoilt>>
  BY DEF IInv, Types, RecvTypes, CompleteShort, Goes, DeletesOrEnds
<1>3. \A q \in Receivers \ {r} : /\ recv'[q] = recv[q] /\ get'[q] = get[q]
                                 /\ piped'[q] = piped[q] /\ short'[q] = short[q]
  BY DEF IInv, Types, RecvTypes, CompleteShort, Goes, DeletesOrEnds
<1> QED
  BY <1>1, <1>2, <1>3, SucceedsKeeps

LEMMA CompleteUnflushedKeeps ==
    ASSUME IInv, NEW r \in Receivers, CompleteUnflushed(r)
    PROVE  IInv'
<1>1. /\ Front(file[r]) \in Seq(Block) /\ Len(Front(file[r])) \in Nat
      /\ Len(Front(file[r])) <= Len(file[r])
      /\ \A i \in 1..Len(Front(file[r])) : Front(file[r])[i] = file[r][i]
  <2>1. file[r] \in Seq(Block) /\ file[r] # <<>>
    BY RunIs DEF CompleteUnflushed
  <2> QED
    BY <2>1, FrontIs
<1>2. RecvTypes'
  <2>1. NoGet \in Requests
    BY DEF NoGet, Requests
  <2>2. file' \in [Receivers -> Seq(Block)]
    BY <1>1 DEF IInv, Types, RecvTypes, CompleteUnflushed
  <2> QED
    BY <2>1, <2>2 DEF IInv, Types, RecvTypes, CompleteUnflushed, Goes, DeletesOrEnds, Ended
<1>3. /\ recv[r] = "copying" /\ recv'[r] = IF ticket[r].del THEN "deleting" ELSE "done"
      /\ get'[r] = NoGet /\ piped[r] /\ ~piped'[r] /\ short'[r]
      /\ ticket' = ticket /\ offset' = offset /\ kept' = kept /\ clean' = clean
      /\ file'[r] = Front(file[r])
      /\ UNCHANGED <<storeVars, source, send, upload, tickets, spoilt>>
  BY DEF IInv, Types, RecvTypes, CompleteUnflushed, Goes, DeletesOrEnds
<1>4. \A q \in Receivers \ {r} :
         /\ recv'[q] = recv[q] /\ get'[q] = get[q] /\ piped'[q] = piped[q]
         /\ file'[q] = file[q] /\ clean'[q] = clean[q] /\ short'[q] = short[q]
  BY DEF IInv, Types, RecvTypes, CompleteUnflushed, Goes, DeletesOrEnds
<1>5. RunOf(r)'
  BY <1>1, <1>3, RunIs DEF RunOf
<1>6. GetOf(r)' /\ ReadsWhole(r)'
  BY <1>3 DEF GetOf, ReadsWhole
<1>7. HasPayload(r)'
  <2>1. SUFFICES ASSUME clean[r] PROVE HoldsPart(r)'
    BY <1>3 DEF HasPayload, Received
  <2>2. HoldsPart(r) /\ kept[r] \in Nat
    BY <1>3, <2>1, Underway, RunIs
  <2>3. /\ Len(file'[r]) \in Nat /\ Len(file'[r]) <= Len(file[r])
        /\ \A i \in 1..Len(file'[r]) : file'[r][i] = file[r][i]
    BY <1>1, <1>3
  <2>4. Len(file[r]) \in Nat
    BY RunIs
  <2>5. ASSUME NEW i \in kept[r] + 1..Len(file'[r])
        PROVE  i \in 1..Len(file'[r]) /\ i \in kept[r] + 1..Len(file[r])
    BY <2>2, <2>3, <2>4, <2>5
  <2> QED
    BY <1>3, <2>2, <2>3, <2>4, <2>5, BoundsAssumption DEF HoldsPart
<1> QED
  BY <1>2, <1>3, <1>4, <1>5, <1>6, <1>7, ReceiverKeeps DEF ReceiverFits

LEMMA DeleteKeeps ==
    ASSUME IInv, NEW r \in Receivers, Delete(r)
    PROVE  IInv'
<1> DEFINE k == ticket[r].key
<1>1. /\ DOMAIN objects' \subseteq DOMAIN objects
      /\ \A l \in DOMAIN objects' : objects'[l] = objects[l]
      /\ \A l \in DOMAIN objects : l \notin DOMAIN objects' => l = k
  BY DEF Delete
<1>2. /\ recv[r] = "deleting" /\ recv'[r] = "done"
      /\ \A q \in Receivers \ {r} : recv'[q] = recv[q]
      /\ UNCHANGED <<store, inodes, staged, source, send, upload, tickets, spoilt>>
      /\ UNCHANGED <<ticket, offset, get, file, piped, kept, clean, short>>
  BY DEF IInv, Types, RecvTypes, Delete, Goes, sendVars
<1>3. [key |-> k, del |-> TRUE] \in tickets
  <2>1. ticket[r] \in tickets /\ ticket[r].del /\ tickets \subseteq Ticket
    BY <1>2, RunIs DEF RunOf, IInv, Types, SendTypes
  <2>2. ticket[r] = [key |-> k, del |-> TRUE]
    BY <2>1 DEF Ticket
  <2> QED
    BY <2>1, <2>2
<1>4. Types'
  BY <1>1, <1>2 DEF IInv, Types, StoreTypes, SendTypes, RecvTypes, Delete, Goes, Ended
<1>5. ASSUME NEW l \in Contents PROVE ContentFits(l)'
  <2>1. ContentFits(l)
    BY <1>5 DEF IInv
  <2>2. StoredOf(l)'
    <3>1. l \in DOMAIN objects' => l \in DOMAIN objects /\ objects'[l] = objects[l]
      BY <1>1
    <3>2. inodes' = inodes /\ Writers(l)' = Writers(l) /\ upload' = upload /\ spoilt' = spoilt
      BY <1>2 DEF Writers
    <3> QED
      BY <2>1, <3>1, <3>2 DEF ContentFits, StoredOf, Written, ToBeWritten
  <2>3. StagedOf(l)'
    BY <1>2, <2>1 DEF ContentFits, StagedOf
  <2>4. \A x \in DOMAIN objects' :
           l \in DOMAIN objects' /\ objects'[l] = objects'[x] => l = x
    BY <1>1, <2>1 DEF ContentFits
  <2>5. l \in DOMAIN objects' /\ store'.protocol = "azure" => Len(inodes'[objects'[l]]) = Size
    BY <1>1, <1>2, <2>1 DEF ContentFits
  <2> QED
    BY <2>2, <2>3, <2>4, <2>5 DEF ContentFits
<1>6. ASSUME NEW s \in Senders PROVE SenderFits(s)'
  <2>1. SenderFits(s)
    BY <1>6 DEF IInv
  <2>2. \A t \in Senders : Live(t)' = Live(t)
    BY <1>2 DEF Live
  <2>3. UploadOf(s)' /\ HiddenOf(s)'
    BY <1>2, <1>6, <2>1, <2>2 DEF SenderFits, UploadOf, HiddenOf
  <2>4. WritesItsOwn(s)'
    BY <1>1, <1>2, <1>6, <2>1, <2>2 DEF SenderFits, WritesItsOwn
  <2>5. PromiseOf(s)'
    BY <1>1, <1>2, <1>3, <1>6, <2>1, <2>2 DEF SenderFits, PromiseOf
  <2> QED
    BY <2>3, <2>4, <2>5 DEF SenderFits
<1>7. ASSUME NEW q \in Receivers PROVE ReceiverFits(q)'
  <2>1. CASE q = r
    <3>1. RunOf(r)' /\ GetOf(r)' /\ ReadsWhole(r)'
      BY <1>2, RunIs DEF RunOf, GetOf, ReadsWhole
    <3>2. HasPayload(r)'
      BY <1>2, RunIs DEF HasPayload, Received, Holds, HoldsPart
    <3> QED
      BY <2>1, <3>1, <3>2 DEF ReceiverFits
  <2>2. CASE q # r
    BY <1>1, <1>2, <1>7, <2>2, OthersRun
  <2> QED
    BY <2>1, <2>2
<1>8. TicketKeepsObject'
  <2>1. ASSUME NEW t \in tickets
        PROVE  t.key \in DOMAIN objects' \/ [key |-> t.key, del |-> TRUE] \in tickets
    <3>1. t.key \in DOMAIN objects \/ [key |-> t.key, del |-> TRUE] \in tickets
      BY <2>1 DEF IInv, TicketKeepsObject
    <3>2. t.key \in DOMAIN objects => t.key \in DOMAIN objects' \/ t.key = k
      BY <1>1
    <3> QED
      BY <1>3, <3>1, <3>2
  <2>2. tickets' = tickets
    BY <1>2
  <2> QED
    BY <2>1, <2>2, Zenon DEF TicketKeepsObject
<1> QED
  BY <1>4, <1>5, <1>6, <1>7, <1>8 DEF IInv

-----------------------------------------------------------------------------
(* The sender's actions: those that do not write first.                    *)
LEMMA SendKeeps ==
    ASSUME IInv, NEW s \in Senders, NEW d \in BOOLEAN, Send(s, d)
    PROVE  IInv'
<1> DEFINE new == [key |-> source[s], del |-> d, inode |-> 0, pos |-> 0]
<1>1. /\ send[s] = "idle" /\ send' = [send EXCEPT ![s] = "hashed"]
      /\ upload' = [upload EXCEPT ![s] = new]
      /\ UNCHANGED <<storeVars, recvVars, source, tickets, spoilt>>
  BY DEF Send, Become
<1>2. new \in Uploads /\ source[s] \in Contents
  BY SendIs, BoundsAssumption DEF Uploads
<1>3. SendTypes'
  BY <1>1, <1>2 DEF IInv, Types, SendTypes
<1>4. /\ send'[s] = "hashed" /\ upload'[s] = new /\ ~Live(s) /\ ~Live(s)'
      /\ \A t \in Senders \ {s} : send'[t] = send[t] /\ upload'[t] = upload[t]
  BY <1>1 DEF IInv, Types, SendTypes, Live
<1>5. SenderFits(s)'
  BY <1>2, <1>4 DEF SenderFits, UploadOf, WritesItsOwn, HiddenOf, PromiseOf
<1>6. TicketKeepsObject'
  BY <1>1, TicketsStay DEF storeVars
<1> QED
  BY <1>1, <1>3, <1>4, <1>5, <1>6, Quietly

LEMMA ReuseKeeps ==
    ASSUME IInv, NEW s \in Senders, Reuse(s)
    PROVE  IInv'
<1> DEFINE new == [key |-> upload[s].key, del |-> upload[s].del]
<1>1. /\ send[s] = "hashed" /\ send' = [send EXCEPT ![s] = "idle"]
      /\ upload' = [upload EXCEPT ![s] = NoUpload] /\ tickets' = tickets \cup {new}
      /\ upload[s].key \in DOMAIN objects
      /\ UNCHANGED <<storeVars, recvVars, source, spoilt>>
  BY DEF Reuse, Issue, Become
<1>2. NoUpload \in Uploads /\ new \in Ticket
  BY <1>1, SendIs, BoundsAssumption DEF Uploads, NoUpload, Ticket
<1>3. SendTypes'
  BY <1>1, <1>2 DEF IInv, Types, SendTypes
<1>4. /\ send'[s] = "idle" /\ upload'[s] = NoUpload /\ ~Live(s) /\ ~Live(s)'
      /\ \A t \in Senders \ {s} : send'[t] = send[t] /\ upload'[t] = upload[t]
  BY <1>1 DEF IInv, Types, SendTypes, Live
<1>5. SenderFits(s)'
  BY <1>4 DEF SenderFits, UploadOf, WritesItsOwn, HiddenOf, PromiseOf, NoUpload
<1>6. TicketKeepsObject'
  <2>1. objects' = objects /\ upload[s].key \in DOMAIN objects'
    BY <1>1 DEF storeVars
  <2>2. upload[s].del \in BOOLEAN
    BY SendIs
  <2> QED
    BY <1>1, <2>1, <2>2, IssuedIsKept
<1> QED
  BY <1>1, <1>3, <1>4, <1>5, <1>6, Quietly

LEMMA GoesOnKeeps ==
    ASSUME IInv, NEW s \in Senders, send[s] # "idle", ~Live(s),
           NEW state \in {"opening", "uploading"}, Become(s, state),
           state = "uploading" => store.protocol = "azure",
           upload[s].pos = 0, UNCHANGED <<storeVars, recvVars, source, upload, tickets, spoilt>>
    PROVE  IInv'
<1>1. SendTypes'
  BY DEF IInv, Types, SendTypes, Become
<1>2. store' = store
  BY DEF storeVars
<1>3. /\ send'[s] = state /\ upload'[s] = upload[s] /\ ~Live(s)'
      /\ \A t \in Senders \ {s} : send'[t] = send[t] /\ upload'[t] = upload[t]
  BY <1>2 DEF IInv, Types, SendTypes, Live, Become
<1>4. SenderFits(s)'
  BY <1>3, SendIs DEF SenderFits, UploadOf, WritesItsOwn, HiddenOf, PromiseOf
<1>5. TicketKeepsObject'
  BY TicketsStay DEF storeVars
<1> QED
  BY <1>1, <1>3, <1>4, <1>5, Quietly

LEMMA LooksKeeps ==
    ASSUME IInv, NEW s \in Senders,
           Missing(s) \/ SizeFails(s) \/ HeadFails(s) \/ BeginStaging(s)
    PROVE  IInv'
<1>1. ~Live(s) /\ upload[s].pos = 0 /\ send[s] \in {"hashed", "opening"}
  BY SendIs DEF Missing, SizeFails, HeadFails, BeginStaging, Live, UploadOf
<1>2. CASE Missing(s) \/ SizeFails(s) \/ HeadFails(s)
  <2>1. /\ Become(s, "opening") /\ send[s] # "idle"
        /\ "opening" \in {"opening", "uploading"}
        /\ UNCHANGED <<storeVars, recvVars, source, upload, tickets, spoilt>>
    BY <1>1, <1>2 DEF Missing, SizeFails, HeadFails
  <2> QED
    BY <1>1, <2>1, GoesOnKeeps
<1>3. CASE BeginStaging(s)
  BY <1>1, <1>3, GoesOnKeeps DEF BeginStaging
<1> QED
  BY <1>2, <1>3

LEMMA SendFailsKeeps ==
    ASSUME IInv, NEW s \in Senders, SendFails(s)
    PROVE  IInv'
<1>1. /\ send' = [send EXCEPT ![s] = "idle"] /\ upload' = [upload EXCEPT ![s] = NoUpload]
      /\ UNCHANGED <<storeVars, recvVars, source, tickets>>
      /\ spoilt \subseteq spoilt'
      /\ s \in Writers(upload[s].key) => upload[s].key \in spoilt'
  BY DEF SendFails, Become
<1>2. NoUpload \in Uploads
  BY BoundsAssumption DEF Uploads, NoUpload
<1>3. SendTypes'
  BY <1>1, <1>2 DEF IInv, Types, SendTypes
<1>4. /\ send'[s] = "idle" /\ upload'[s] = NoUpload /\ ~Live(s)'
      /\ \A t \in Senders \ {s} : send'[t] = send[t] /\ upload'[t] = upload[t]
  BY <1>1 DEF IInv, Types, SendTypes, Live
<1>5. SenderFits(s)'
  BY <1>4 DEF SenderFits, UploadOf, WritesItsOwn, HiddenOf, PromiseOf, NoUpload
<1>6. TicketKeepsObject'
  BY <1>1, TicketsStay DEF storeVars
<1>7. Live(s) /\ store.inPlace => upload[s].key \in spoilt'
  BY <1>1 DEF Live, Writers
<1> QED
  BY <1>1, <1>3, <1>4, <1>5, <1>6, <1>7, Quietly

LEMMA EditKeeps ==
    ASSUME IInv, NEW s \in Senders, Edit(s)
    PROVE  IInv'
<1>1. UNCHANGED <<storeVars, recvVars, send, upload, tickets, spoilt>>
  BY DEF Edit
<1>2. UNCHANGED <<store, objects, inodes, staged>>
  BY <1>1 DEF storeVars
<1>3. UNCHANGED <<recv, ticket, offset, get, file, piped, kept, clean, short>>
  BY <1>1 DEF recvVars
<1>4. Types'
  BY <1>1, <1>2, <1>3 DEF IInv, Types, StoreTypes, SendTypes, RecvTypes, Edit
<1>5. ASSUME NEW k \in Contents PROVE ContentFits(k)'
  <2>1. ContentFits(k) /\ Writers(k)' = Writers(k)
    BY <1>1, <1>2, <1>5 DEF IInv, Writers
  <2> QED
    BY <1>1, <1>2, <2>1 DEF ContentFits, StoredOf, StagedOf, Written, ToBeWritten
<1>6. \A t \in Senders : Live(t)' = Live(t)
  BY <1>1, <1>2 DEF Live
<1>7. ASSUME NEW t \in Senders PROVE SenderFits(t)'
  BY <1>1, <1>2, <1>6, <1>7, SendIs DEF SenderFits, UploadOf, WritesItsOwn, HiddenOf, PromiseOf
<1>8. ASSUME NEW r \in Receivers PROVE ReceiverFits(r)'
  BY <1>1, <1>2, <1>3, <1>8, OthersRun
<1>9. TicketKeepsObject'
  BY <1>1, <1>2, TicketsStay
<1> QED
  BY <1>4, <1>5, <1>7, <1>8, <1>9 DEF IInv

(* An upload nobody sees: another inode, which the key gets at the end.    *)
LEMMA BeginHiddenKeeps ==
    ASSUME IInv, NEW s \in Senders, BeginHidden(s)
    PROVE  IInv'
<1> DEFINE n == Len(inodes) + 1
           k == upload[s].key
<1>1. /\ ~store.inPlace /\ store.protocol # "azure" /\ send[s] = "opening"
      /\ inodes' = Append(inodes, <<>>)
      /\ UNCHANGED <<store, objects, staged, source, tickets, spoilt>>
      /\ UNCHANGED <<recv, ticket, offset, get, file, piped, kept, clean, short>>
      /\ send' = [send EXCEPT ![s] = "uploading"]
      /\ upload' = [upload EXCEPT ![s].inode = n]
  BY DEF BeginHidden, Become, recvVars
<1>2. /\ inodes' \in Seq(Seq(Block)) /\ Len(inodes) \in Nat /\ Len(inodes') = n
      /\ \A i \in 1..Len(inodes') : Len(inodes'[i]) <= Size
      /\ \A i \in 1..Len(inodes) : inodes'[i] = inodes[i]
      /\ inodes'[n] = <<>> /\ Len(inodes'[n]) = 0
  <2>1. <<>> \in Seq(Block) /\ Len(<<>>) = 0
    BY EmptySeq
  <2>2. StoreTypes /\ 0 <= Size /\ inodes' = Append(inodes, <<>>)
    BY <1>1, BoundsAssumption DEF IInv, Types
  <2>3. /\ inodes' \in Seq(Seq(Block)) /\ Len(inodes) \in Nat /\ Len(inodes') = n
        /\ \A i \in 1..Len(inodes') : Len(inodes'[i]) <= Size
        /\ \A i \in 1..Len(inodes) : inodes'[i] = inodes[i]
        /\ inodes'[n] = <<>>
    BY <2>1, <2>2, InodeAppended
  <2> QED
    BY <2>1, <2>3
<1>3. /\ send'[s] = "uploading" /\ upload'[s].inode = n
      /\ upload'[s].key = k /\ upload'[s].pos = 0
      /\ \A t \in Senders \ {s} : send'[t] = send[t] /\ upload'[t] = upload[t]
  <2>1. send \in [Senders -> {"idle", "hashed", "opening", "uploading"}]
        /\ upload \in [Senders -> Uploads]
    BY DEF IInv, Types, SendTypes
  <2>2. upload[s].pos = 0
    BY <1>1, SendIs DEF UploadOf
  <2> QED
    BY <1>1, <2>1, <2>2 DEF Uploads
<1>4. /\ n \in Nat /\ n \notin 1..Len(inodes) /\ n \in 1..Len(inodes')
      /\ 1..Len(inodes) \subseteq 1..Len(inodes')
  BY <1>2
<1>5. Types'
  <2>1. StoreTypes'
    BY <1>1, <1>2, <1>4 DEF IInv, Types, StoreTypes
  <2>2. upload' \in [Senders -> Uploads]
    BY <1>1, <1>4 DEF IInv, Types, SendTypes, Uploads
  <2>3. SendTypes' /\ RecvTypes'
    BY <1>1, <2>2 DEF IInv, Types, SendTypes, RecvTypes
  <2> QED
    BY <2>1, <2>3 DEF Types
<1>6. ASSUME NEW l \in Contents PROVE ContentFits(l)'
  <2>1. ContentFits(l) /\ (l \in DOMAIN objects => objects[l] \in 1..Len(inodes))
    BY <1>6 DEF IInv, Types, StoreTypes
  <2>2. Writers(l) = {}
    BY <1>1 DEF Writers
  <2>3. l \in DOMAIN objects => inodes'[objects[l]] = inodes[objects[l]]
    BY <1>2, <2>1
  <2>4. StoredOf(l)' /\ StagedOf(l)'
    BY <1>1, <2>1, <2>2, <2>3 DEF ContentFits, StoredOf, StagedOf, Written, ToBeWritten
  <2> QED
    BY <1>1, <2>1, <2>3, <2>4 DEF ContentFits
<1>7. ASSUME NEW u \in Senders PROVE SenderFits(u)'
  <2>1. CASE u = s
    <3>1. \A l \in DOMAIN objects : objects[l] # n
      BY <1>4 DEF IInv, Types, StoreTypes
    <3>2. \A t \in Senders \ {s} : Live(t)' => upload'[t].inode # n
      BY <1>1, <1>3, <1>4, SendIs DEF UploadOf, Live
    <3>3. k \in Contents
      BY <1>1, SendIs
    <3>4. UploadOf(s)' /\ WritesItsOwn(s)' /\ PromiseOf(s)'
      BY <1>1, <1>3, <1>4, <3>1, <3>3 DEF UploadOf, WritesItsOwn, PromiseOf, Live
    <3>5. HiddenOf(s)'
      BY <1>2, <1>3, <3>2 DEF HiddenOf
    <3> QED
      BY <2>1, <3>4, <3>5 DEF SenderFits
  <2>2. CASE u # s
    <3>1. Live(u) => upload[u].inode \in 1..Len(inodes)
      BY SendIs, <1>7 DEF UploadOf
    <3>2. Live(u) => inodes'[upload[u].inode] = inodes[upload[u].inode] /\ n # upload[u].inode
      BY <1>2, <1>4, <3>1
    <3>3. Len(inodes') \in Nat /\ Len(inodes') >= Len(inodes)
      BY <1>2
    <3> HIDE DEF n
    <3> QED
      BY <1>1, <1>3, <1>7, <2>2, <3>2, <3>3, OthersSend
  <2> QED
    BY <2>1, <2>2
<1>8. ASSUME NEW r \in Receivers PROVE ReceiverFits(r)'
  <2>1. recv[r] = "copying" => get[r].inode \in 1..Len(inodes)
    BY <1>8, RunIs DEF GetOf
  <2>2. recv[r] = "copying" => inodes'[get[r].inode] = inodes[get[r].inode] /\ get[r].inode # n
    BY <1>2, <1>4, <2>1
  <2>3. ReadsWhole(r)
    BY <1>8, RunIs
  <2>4. recv[r] = "copying" /\ clean[r] =>
           /\ \A l \in DOMAIN objects : objects[l] = get[r].inode => l = ticket[r].key
           /\ \A t \in Senders : Live(t)' => upload'[t].inode # get[r].inode
    BY <1>1, <1>3, <2>2, <2>3 DEF ReadsWhole, Live
  <2>5. Len(inodes') >= Len(inodes)
    BY <1>2
  <2> QED
    BY <1>1, <1>8, <2>2, <2>4, <2>5, ReadersStay
<1>9. TicketKeepsObject'
  BY <1>1, TicketsStay
<1> QED
  BY <1>5, <1>6, <1>7, <1>8, <1>9 DEF IInv

LEMMA FinishKeeps ==
    ASSUME IInv, NEW s \in Senders, Finish(s)
    PROVE  IInv'
<1> DEFINE n == upload[s].inode
           k == upload[s].key
<1>1. /\ store.protocol # "azure" /\ send[s] = "uploading" /\ upload[s].pos = Size
      /\ objects' = IF store.inPlace THEN objects ELSE Put(objects, k, n)
      /\ UNCHANGED <<store, inodes, staged, source, spoilt>>
      /\ UNCHANGED <<recv, ticket, offset, get, file, piped, kept, clean, short>>
      /\ send' = [send EXCEPT ![s] = "idle"]
      /\ upload' = [upload EXCEPT ![s] = NoUpload]
      /\ tickets' = tickets \cup {[key |-> k, del |-> upload[s].del]}
  BY DEF Finish, Issue, Become, recvVars
<1>2. /\ Live(s) /\ ~Live(s)' /\ send'[s] = "idle" /\ upload'[s] = NoUpload
      /\ \A t \in Senders \ {s} : send'[t] = send[t] /\ upload'[t] = upload[t]
      /\ \A t \in Senders \ {s} : Live(t)' = Live(t)
  BY <1>1 DEF IInv, Types, SendTypes, Live
<1>3. k \in Contents /\ n \in 1..Len(inodes) /\ upload[s].del \in BOOLEAN
  BY <1>1, <1>2, SendIs DEF UploadOf
<1>4. \A l \in DOMAIN objects : objects[l] = n => store.inPlace /\ l = k
  BY <1>2, SendIs DEF WritesItsOwn
<1>5. /\ ~store.inPlace => objects'[k] = n
      /\ \A l \in DOMAIN objects' : \/ l \in DOMAIN objects /\ objects'[l] = objects[l]
                                    \/ ~store.inPlace /\ l = k
      /\ DOMAIN objects \subseteq DOMAIN objects' /\ DOMAIN objects' \subseteq Contents
      /\ ~store.inPlace => k \in DOMAIN objects'
  <2>1. DOMAIN objects \subseteq Contents
    BY DEF IInv, Types, StoreTypes
  <2>2. CASE store.inPlace
    BY <1>1, <2>1, <2>2
  <2>3. CASE ~store.inPlace
    <3>1. objects' = Put(objects, k, n)
      BY <1>1, <2>3
    <3>2. /\ DOMAIN objects' = DOMAIN objects \cup {k} /\ objects'[k] = n
          /\ \A l \in DOMAIN objects : l # k => objects'[l] = objects[l]
      <4> HIDE DEF k, n
      <4> QED
        BY <3>1 DEF Put
    <3> QED
      BY <1>3, <2>1, <2>3, <3>2
  <2> QED
    BY <2>2, <2>3
<1>6. Types'
  <2>1. StoreTypes'
    BY <1>1, <1>3, <1>5 DEF IInv, Types, StoreTypes
  <2>2. NoUpload \in Uploads /\ [key |-> k, del |-> upload[s].del] \in Ticket
    BY <1>3, BoundsAssumption DEF Uploads, NoUpload, Ticket
  <2>3. SendTypes' /\ RecvTypes'
    BY <1>1, <2>2 DEF IInv, Types, SendTypes, RecvTypes
  <2> QED
    BY <2>1, <2>3 DEF Types
<1>7. ASSUME NEW l \in Contents PROVE ContentFits(l)'
  <2>1. ContentFits(l)
    BY <1>7 DEF IInv
  <2>2. CASE ~store.inPlace /\ l = k
    <3>1. objects'[l] = n /\ Len(inodes'[n]) = Size
          /\ (l \notin spoilt => \A i \in 1..Size : inodes'[n][i] = l)
      BY <1>1, <1>2, <1>5, <2>2, SendIs DEF HiddenOf
    <3>2. StoredOf(l)'
      BY <1>1, <3>1 DEF StoredOf, Written
    <3>3. StagedOf(l)'
      BY <1>1, <2>1 DEF ContentFits, StagedOf
    <3>4. \A x \in DOMAIN objects' : objects'[l] = objects'[x] => l = x
      BY <1>4, <1>5, <2>2, <3>1
    <3> QED
      BY <1>1, <3>2, <3>3, <3>4 DEF ContentFits
  <2>3. CASE ~(~store.inPlace /\ l = k)
    <3>1. /\ l \in DOMAIN objects' => l \in DOMAIN objects /\ objects'[l] = objects[l]
      BY <1>5, <2>3
    <3>2. ASSUME NEW i \in 1..Size, ToBeWritten(l, i)
          PROVE  ToBeWritten(l, i)' \/ l \notin DOMAIN objects'
      <4>1. PICK w \in Writers(l) : upload[w].inode = objects[l] /\ upload[w].pos < i
        BY <3>2 DEF ToBeWritten
      <4>2. w # s
        BY <1>1, <4>1, BoundsAssumption
      <4>3. w \in Writers(l)' /\ upload'[w] = upload[w]
        BY <1>1, <1>2, <4>1, <4>2 DEF Writers
      <4> QED
        BY <3>1, <4>1, <4>3 DEF ToBeWritten
    <3>3. StoredOf(l)'
      BY <1>1, <2>1, <3>1, <3>2 DEF ContentFits, StoredOf, Written
    <3>4. StagedOf(l)'
      BY <1>1, <2>1 DEF ContentFits, StagedOf
    <3>5. \A x \in DOMAIN objects' :
             l \in DOMAIN objects' /\ objects'[l] = objects'[x] => l = x
      BY <1>4, <1>5, <2>1, <3>1 DEF ContentFits
    <3>6. l \in DOMAIN objects' /\ store'.protocol = "azure" => Len(inodes'[objects'[l]]) = Size
      BY <1>1
    <3> QED
      BY <3>3, <3>4, <3>5, <3>6 DEF ContentFits
  <2> QED
    BY <2>2, <2>3
<1>8. ASSUME NEW u \in Senders PROVE SenderFits(u)'
  <2>1. CASE u = s
    BY <1>2, <2>1 DEF SenderFits, UploadOf, WritesItsOwn, HiddenOf, PromiseOf, NoUpload
  <2>2. CASE u # s
    <3>1. Live(u) /\ ~store.inPlace => upload[u].inode # n
      BY <1>2, <1>8, <2>2, SendIs DEF HiddenOf
    <3>2. Len(inodes') \in Nat /\ Len(inodes') >= Len(inodes)
      BY <1>1, LenProperties DEF IInv, Types, StoreTypes
    <3>3. Live(u) => \A l \in DOMAIN objects' : objects'[l] = upload[u].inode
                        => l \in DOMAIN objects /\ objects[l] = objects'[l]
      BY <1>5, <3>1
    <3>4. tickets \subseteq tickets'
      BY <1>1
    <3> HIDE DEF n
    <3> QED
      BY <1>1, <1>2, <1>5, <1>8, <2>2, <3>2, <3>3, <3>4, OthersSend
  <2> QED
    BY <2>1, <2>2
<1>9. ASSUME NEW r \in Receivers PROVE ReceiverFits(r)'
  <2>1. ReadsWhole(r)
    BY <1>9, RunIs
  <2>2. recv[r] = "copying" /\ clean[r] =>
           /\ \A l \in DOMAIN objects' : objects'[l] = get[r].inode => l = ticket[r].key
           /\ \A t \in Senders : Live(t)' => upload'[t].inode # get[r].inode
    BY <1>1, <1>2, <1>5, <2>1 DEF ReadsWhole
  <2>3. Len(inodes') >= Len(inodes) /\ tickets \subseteq tickets'
    BY <1>1, LenProperties DEF IInv, Types, StoreTypes
  <2> QED
    BY <1>1, <1>9, <2>2, <2>3, ReadersStay
<1>10. TicketKeepsObject'
  <2>1. k \in DOMAIN objects' \/ [key |-> k, del |-> TRUE] \in tickets
    BY <1>1, <1>2, <1>5, SendIs DEF PromiseOf
  <2> HIDE DEF k
  <2> QED
    BY <1>1, <1>3, <1>5, <2>1, IssuedIsKept
<1> QED
  BY <1>6, <1>7, <1>8, <1>9, <1>10 DEF IInv

(* A block is written: what precedes the position is there, what follows   *)
(* is yet to be written, by this sender or another.                        *)
LEMMA UploadKeeps ==
    ASSUME IInv, NEW s \in Senders, Upload(s)
    PROVE  IInv'
<1> DEFINE n == upload[s].inode
           k == upload[s].key
           pos == upload[s].pos
           new == WriteAt(inodes[n], pos, source[s])
<1>1. /\ store.protocol # "azure" /\ send[s] = "uploading" /\ pos < Size
      /\ inodes' = [inodes EXCEPT ![n] = new]
      /\ UNCHANGED <<store, objects, staged, source, send, tickets>>
      /\ UNCHANGED <<recv, ticket, offset, get, file, piped, kept, clean, short>>
      /\ upload' = [upload EXCEPT ![s].pos = pos + 1]
      /\ spoilt \subseteq spoilt'
      /\ source[s] # k => k \in spoilt'
      /\ \A l : l \in spoilt' => l \in spoilt \/ l = k
  BY DEF Upload, Reads, recvVars
<1>2. /\ Live(s) /\ k \in Contents /\ n \in 1..Len(inodes) /\ pos \in Nat
      /\ source[s] \in Contents
  BY <1>1, SendIs DEF UploadOf, Live
<1>3. inodes[n] \in Seq(Block) /\ Len(inodes[n]) \in 0..Size
  BY <1>2, InodesAre DEF IInv, Types
<1>4. /\ new \in Seq(Block) /\ Len(new) <= Size
      /\ Len(new) = IF Len(inodes[n]) > pos THEN Len(inodes[n]) ELSE pos + 1
      /\ \A i \in 1..Len(new) : new[i] = IF i = pos + 1 THEN source[s]
                                         ELSE IF i <= Len(inodes[n]) THEN inodes[n][i] ELSE Hole
  <2> DEFINE f == inodes[n]
             b == source[s]
  <2>1. b \in Block /\ f \in Seq(Block) /\ Len(f) <= Size /\ pos \in Nat /\ pos < Size
    BY <1>1, <1>2, <1>3, BoundsAssumption DEF Block
  <2>2. new = WriteAt(f, pos, b)
    OBVIOUS
  <2> HIDE DEF f, b, pos, new
  <2>3. new \in Seq(Block)
    BY <2>1, <2>2, WriteAtIs
  <2>4. Len(new) <= Size
    BY <2>1, <2>2, WriteAtIs
  <2>5. Len(new) = IF Len(f) > pos THEN Len(f) ELSE pos + 1
    BY <2>1, <2>2, WriteAtIs
  <2>6. \A i \in 1..Len(new) : new[i] = IF i = pos + 1 THEN b
                                      ELSE IF i <= Len(f) THEN f[i] ELSE Hole
    BY <2>2, <2>5 DEF WriteAt
  <2> QED
    BY <2>3, <2>4, <2>5, <2>6 DEF f, b
<1>5. /\ inodes' \in Seq(Seq(Block)) /\ Len(inodes) \in Nat /\ Len(inodes') = Len(inodes)
      /\ \A i \in 1..Len(inodes') : Len(inodes'[i]) <= Size
      /\ \A i \in 1..Len(inodes) \ {n} : inodes'[i] = inodes[i]
      /\ inodes'[n] = new
  <2> HIDE DEF n, new
  <2> QED
    BY <1>1, <1>2, <1>4, InodeChanged DEF IInv, Types
<1>6. /\ upload'[s].inode = n /\ upload'[s].key = k /\ upload'[s].pos = pos + 1
      /\ \A t \in Senders \ {s} : upload'[t] = upload[t]
      /\ \A t \in Senders : Live(t)' = Live(t)
  BY <1>1 DEF IInv, Types, SendTypes, Uploads, Live
<1>7. Types'
  <2>1. StoreTypes'
    BY <1>1, <1>5 DEF IInv, Types, StoreTypes
  <2>2. pos + 1 \in 0..Size
    <3>1. pos \in Nat /\ pos < Size /\ Size \in Nat
      BY <1>1, <1>2, BoundsAssumption
    <3> HIDE DEF pos
    <3> QED
      BY <3>1
  <2>3. upload' \in [Senders -> Uploads]
    <3> HIDE DEF pos
    <3> QED
      BY <1>1, <2>2 DEF IInv, Types, SendTypes, Uploads
  <2>4. SendTypes' /\ RecvTypes'
    BY <1>1, <2>3 DEF IInv, Types, SendTypes, RecvTypes
  <2> QED
    BY <2>1, <2>4 DEF Types
<1>8. \A l \in DOMAIN objects : /\ objects[l] \in 1..Len(inodes)
                                /\ objects[l] = n => store.inPlace /\ l = k
  BY <1>2, SendIs DEF WritesItsOwn, IInv, Types, StoreTypes
<1>9. ASSUME NEW l \in Contents PROVE ContentFits(l)'
  <2>1. ContentFits(l)
    BY <1>9 DEF IInv
  <2>2. StagedOf(l)'
    BY <1>1, <2>1 DEF ContentFits, StagedOf
  <2>3. StoredOf(l)'
    <3>1. SUFFICES ASSUME l \in DOMAIN objects, l \notin spoilt', NEW i \in 1..Size
                   PROVE  Written(l, i)' \/ ToBeWritten(l, i)'
      BY <1>1 DEF StoredOf
    <3>2. CASE Written(l, i)
      <4>1. CASE objects[l] = n
        <5>1. l = k /\ source[s] = k
          BY <1>1, <1>8, <3>1, <4>1
        <5>2. i \in Nat /\ i >= 1 /\ i <= Len(inodes[n]) /\ inodes[n][i] = l
          BY <3>2, <4>1, BoundsAssumption DEF Written
        <5>3. i <= Len(new) /\ i \in 1..Len(new)
          <6> DEFINE size == Len(inodes[n])
                     more == Len(new)
          <6>1. size \in Nat /\ pos \in Nat /\ more = IF size > pos THEN size ELSE pos + 1
            BY <1>2, <1>3, <1>4, BoundsAssumption
          <6>2. i <= size
            BY <5>2
          <6> HIDE DEF size, more, pos
          <6> QED
            BY <5>2, <6>1, <6>2 DEF more
        <5>4. new[i] = l
          BY <1>4, <5>1, <5>2, <5>3
        <5> HIDE DEF n, new
        <5> QED
          BY <1>1, <1>5, <4>1, <5>3, <5>4 DEF Written
      <4>2. CASE objects[l] # n
        BY <1>1, <1>5, <1>8, <3>1, <3>2, <4>2 DEF Written
      <4> QED
        BY <4>1, <4>2
    <3>3. CASE ToBeWritten(l, i)
      <4>1. PICK w \in Writers(l) : upload[w].inode = objects[l] /\ upload[w].pos < i
        BY <3>3 DEF ToBeWritten
      <4>2. w \in Writers(l)' /\ upload'[w].inode = objects'[l]
        BY <1>1, <1>6, <4>1 DEF Writers
      <4>3. CASE w # s \/ i # pos + 1
        <5>1. upload'[w].pos < i
          <6>1. i \in Nat /\ upload[w].pos \in Nat
            BY <4>1, SendIs, BoundsAssumption DEF Writers
          <6>2. CASE w # s
            BY <1>6, <4>1, <6>2 DEF Writers
          <6>3. CASE w = s
            <7>1. pos < i /\ pos \in Nat /\ upload'[w].pos = pos + 1 /\ i # pos + 1
              BY <1>2, <1>6, <4>1, <4>3, <6>3
            <7> HIDE DEF pos
            <7> QED
              BY <6>1, <7>1
          <6> QED
            BY <6>2, <6>3
        <5> QED
          BY <4>2, <5>1 DEF ToBeWritten
      <4>4. CASE w = s /\ i = pos + 1
        <5>1. objects[l] = n /\ l = k /\ source[s] = l
          BY <1>1, <1>8, <3>1, <4>1, <4>4
        <5>2. i \in 1..Len(new) /\ i <= Len(new)
          <6> DEFINE size == Len(inodes[n])
                     more == Len(new)
          <6>1. size \in Nat /\ pos \in Nat /\ more = IF size > pos THEN size ELSE pos + 1
            BY <1>2, <1>3, <1>4, BoundsAssumption
          <6>2. i = pos + 1
            BY <4>4
          <6> HIDE DEF size, more, pos
          <6> QED
            BY <6>1, <6>2 DEF more
        <5>3. new[i] = l
          BY <1>4, <4>4, <5>1, <5>2
        <5> HIDE DEF n, new
        <5> QED
          BY <1>1, <1>5, <5>1, <5>2, <5>3 DEF Written
      <4> QED
        BY <4>3, <4>4
    <3>4. Written(l, i) \/ ToBeWritten(l, i)
      <4>1. StoredOf(l) /\ l \notin spoilt
        BY <1>1, <2>1, <3>1 DEF ContentFits
      <4> QED
        BY <3>1, <4>1 DEF StoredOf
    <3> QED
      BY <3>2, <3>3, <3>4
  <2>4. \A x \in DOMAIN objects' :
           l \in DOMAIN objects' /\ objects'[l] = objects'[x] => l = x
    BY <1>1, <2>1 DEF ContentFits
  <2>5. l \in DOMAIN objects' /\ store'.protocol = "azure" => Len(inodes'[objects'[l]]) = Size
    BY <1>1
  <2> QED
    BY <2>2, <2>3, <2>4, <2>5 DEF ContentFits
<1>10. ASSUME NEW u \in Senders PROVE SenderFits(u)'
  <2>1. CASE u = s
    <3>1. UploadOf(s)' /\ WritesItsOwn(s)' /\ PromiseOf(s)'
      BY <1>1, <1>2, <1>5, <1>6, <1>8, SendIs DEF UploadOf, WritesItsOwn, PromiseOf
    <3>2. HiddenOf(s)'
      <4>1. SUFFICES ASSUME ~store.inPlace
                     PROVE  /\ Len(new) = pos + 1
                            /\ k \notin spoilt' => \A i \in 1..pos + 1 : new[i] = k
                            /\ \A t \in Senders \ {s} : Live(t) => upload[t].inode # n
        <5> HIDE DEF new, n, pos, k
        <5> QED
          BY <1>1, <1>5, <1>6 DEF HiddenOf
      <4>2. /\ Len(inodes[n]) = pos
            /\ k \notin spoilt => \A i \in 1..pos : inodes[n][i] = k
            /\ \A t \in Senders \ {s} : Live(t) => upload[t].inode # n
        BY <1>2, <4>1, SendIs DEF HiddenOf
      <4>3. Len(new) = pos + 1
        BY <1>2, <1>4, <4>2
      <4>4. ASSUME k \notin spoilt', NEW i \in 1..pos + 1 PROVE new[i] = k
        <5>1. i \in 1..pos \/ i = pos + 1
          <6>1. pos \in Nat
            BY <1>2
          <6> HIDE DEF pos
          <6> QED
            BY <4>4, <6>1
        <5>2. CASE i = pos + 1
          BY <1>1, <1>4, <4>3, <4>4, <5>2
        <5>3. CASE i \in 1..pos
          <6>1. i # pos + 1 /\ i <= pos /\ i \in 1..Len(new)
            <7>1. pos \in Nat /\ Len(new) = pos + 1
              BY <1>2, <4>3
            <7> HIDE DEF pos, new
            <7> QED
              BY <5>3, <7>1
          <6>2. new[i] = inodes[n][i] /\ k \notin spoilt
            BY <1>1, <1>4, <4>2, <4>4, <6>1
          <6> QED
            BY <4>2, <5>3, <6>2
        <5> QED
          BY <5>1, <5>2, <5>3
      <4> QED
        BY <4>2, <4>3, <4>4
    <3> QED
      BY <2>1, <3>1, <3>2 DEF SenderFits
  <2>2. CASE u # s
    <3>1. Live(u) => upload[u].inode \in 1..Len(inodes)
      BY SendIs, <1>10 DEF UploadOf
    <3>2. Live(u) /\ ~store.inPlace => upload[u].inode # n
      BY <1>2, <1>10, <2>2, SendIs DEF HiddenOf
    <3>3. Len(inodes') \in Nat /\ Len(inodes') >= Len(inodes)
      BY <1>5
    <3>4. Live(u) /\ ~store.inPlace => inodes'[upload[u].inode] = inodes[upload[u].inode]
      BY <1>5, <3>1, <3>2
    <3>5. \A t \in Senders \ {s} : send'[t] = send[t] /\ upload'[t] = upload[t]
      BY <1>1, <1>6
    <3> HIDE DEF n, new
    <3> QED
      BY <1>1, <1>6, <1>10, <2>2, <3>2, <3>3, <3>4, <3>5, OthersSend
  <2> QED
    BY <2>1, <2>2
<1>11. ASSUME NEW r \in Receivers PROVE ReceiverFits(r)'
  <2>1. recv[r] = "copying" => get[r].inode \in 1..Len(inodes)
    BY <1>11, RunIs DEF GetOf
  <2>2. ReadsWhole(r)
    BY <1>11, RunIs
  <2>3. recv[r] = "copying" /\ clean[r] =>
           /\ \A l \in DOMAIN objects : objects[l] = get[r].inode => l = ticket[r].key
           /\ \A t \in Senders : Live(t) => upload[t].inode # get[r].inode
    BY <2>2 DEF ReadsWhole
  <2>4. recv[r] = "copying" /\ clean[r] => inodes'[get[r].inode] = inodes[get[r].inode]
    BY <1>2, <1>5, <2>1, <2>3
  <2>5. recv[r] = "copying" /\ clean[r] =>
           \A t \in Senders : Live(t)' => upload'[t].inode # get[r].inode
    BY <1>6, <2>3
  <2>6. Len(inodes') >= Len(inodes)
    BY <1>5
  <2> HIDE DEF n, new, pos, k
  <2> QED
    BY <1>1, <1>11, <2>3, <2>4, <2>5, <2>6, ReadersStay
<1>12. TicketKeepsObject'
  BY <1>1, TicketsStay
<1> QED
  BY <1>7, <1>9, <1>10, <1>11, <1>12 DEF IInv

(* Azure: a block is staged, or the list of them becomes the object.       *)
LEMMA PutBlockKeeps ==
    ASSUME IInv, NEW s \in Senders, PutBlock(s)
    PROVE  IInv'
<1> DEFINE k == upload[s].key
           pos == upload[s].pos
<1>1. /\ store.protocol = "azure" /\ send[s] = "uploading" /\ pos < Size
      /\ staged' = [staged EXCEPT ![k][pos + 1] = source[s]]
      /\ UNCHANGED <<store, objects, inodes, source, send, tickets>>
      /\ UNCHANGED <<recv, ticket, offset, get, file, piped, kept, clean, short>>
      /\ upload' = [upload EXCEPT ![s].pos = pos + 1]
      /\ spoilt \subseteq spoilt'
      /\ source[s] # k => k \in spoilt'
  BY DEF PutBlock, Reads, recvVars
<1>2. k \in Contents /\ pos \in Nat /\ source[s] \in Contents
  BY <1>1, SendIs
<1>3. pos + 1 \in 1..Size
  <2>1. pos \in Nat /\ pos < Size /\ Size \in Nat
    BY <1>1, <1>2, BoundsAssumption
  <2> HIDE DEF pos
  <2> QED
    BY <2>1
<1>4. /\ upload'[s].inode = upload[s].inode /\ upload'[s].key = k /\ upload'[s].pos = pos + 1
      /\ upload' \in [Senders -> Uploads]
      /\ \A t \in Senders \ {s} : upload'[t] = upload[t]
      /\ \A t \in Senders : ~Live(t) /\ ~Live(t)'
  <2>1. upload \in [Senders -> Uploads] /\ pos + 1 \in 0..Size
    BY <1>3 DEF IInv, Types, SendTypes
  <2>2. \A t \in Senders : ~Live(t) /\ ~Live(t)'
    BY <1>1 DEF Live
  <2> QED
    BY <1>1, <2>1, <2>2 DEF Uploads
<1>5. /\ staged' \in [Contents -> [1..Size -> Block]]
      /\ \A l \in Contents \ {k} : staged'[l] = staged[l]
      /\ \A i \in 1..Size : staged'[k][i] = IF i = pos + 1 THEN source[s] ELSE staged[k][i]
  <2>1. staged \in [Contents -> [1..Size -> Block]] /\ source[s] \in Block
    BY <1>2 DEF IInv, Types, StoreTypes, Block
  <2> DEFINE at == pos + 1
             b == source[s]
  <2>2. at \in 1..Size /\ b \in Block /\ staged' = [staged EXCEPT ![k][at] = b]
    BY <1>1, <1>3, <2>1
  <2> HIDE DEF at, b, k
  <2>3. /\ staged' \in [Contents -> [1..Size -> Block]]
        /\ \A l \in Contents \ {k} : staged'[l] = staged[l]
    BY <2>1, <2>2
  <2>4. \A i \in 1..Size : staged'[k][i] = IF i = at THEN b ELSE staged[k][i]
    BY <1>2, <2>1, <2>2
  <2> QED
    BY <2>3, <2>4 DEF at, b
<1>6. Types'
  BY <1>1, <1>4, <1>5 DEF IInv, Types, StoreTypes, SendTypes, RecvTypes
<1>7. ASSUME NEW l \in Contents PROVE ContentFits(l)'
  <2>1. ContentFits(l)
    BY <1>7 DEF IInv
  <2>2. StagedOf(l)'
    <3>1. CASE l # k
      BY <1>1, <1>5, <1>7, <2>1, <3>1 DEF ContentFits, StagedOf
    <3>2. CASE l = k
      <4>1. SUFFICES ASSUME k \notin spoilt', NEW i \in 1..Size
                     PROVE  staged'[k][i] \in {k, Hole}
        BY <3>2 DEF StagedOf
      <4>2. source[s] = k /\ staged[k][i] \in {k, Hole}
        BY <1>1, <2>1, <3>2, <4>1 DEF ContentFits, StagedOf
      <4> QED
        BY <1>5, <4>2
    <3> QED
      BY <3>1, <3>2
  <2>3. ~store.inPlace
    BY <1>1, StoresAssumption DEF IInv, Types, StoreTypes
  <2>4. StoredOf(l)'
    <3>1. \A i \in 1..Size : ~ToBeWritten(l, i)
      BY <2>3 DEF ToBeWritten, Writers
    <3>2. l \in DOMAIN objects /\ l \notin spoilt' => \A i \in 1..Size : Written(l, i)
      BY <1>1, <2>1, <3>1 DEF ContentFits, StoredOf
    <3> QED
      BY <1>1, <3>2 DEF StoredOf, Written
  <2> QED
    BY <1>1, <2>1, <2>2, <2>4 DEF ContentFits
<1>8. ASSUME NEW u \in Senders PROVE SenderFits(u)'
  <2>1. CASE u = s
    BY <1>1, <1>2, <1>4, <2>1, SendIs
       DEF SenderFits, UploadOf, WritesItsOwn, HiddenOf, PromiseOf
  <2>2. CASE u # s
    <3>1. Len(inodes') \in Nat /\ Len(inodes') >= Len(inodes)
      BY <1>1, LenProperties DEF IInv, Types, StoreTypes
    <3>2. \A t \in Senders \ {s} : send'[t] = send[t] /\ upload'[t] = upload[t]
      BY <1>1, <1>4
    <3> QED
      BY <1>1, <1>4, <1>8, <2>2, <3>1, <3>2, OthersSend
  <2> QED
    BY <2>1, <2>2
<1>9. ASSUME NEW r \in Receivers PROVE ReceiverFits(r)'
  <2>1. ReadsWhole(r)
    BY <1>9, RunIs
  <2>2. Len(inodes') >= Len(inodes)
    BY <1>1, LenProperties DEF IInv, Types, StoreTypes
  <2>3. recv[r] = "copying" /\ clean[r] =>
           \A l \in DOMAIN objects : objects[l] = get[r].inode => l = ticket[r].key
    BY <2>1 DEF ReadsWhole
  <2> QED
    BY <1>1, <1>4, <1>9, <2>2, <2>3, ReadersStay
<1>10. TicketKeepsObject'
  BY <1>1, TicketsStay
<1> QED
  BY <1>6, <1>7, <1>8, <1>9, <1>10 DEF IInv

LEMMA PutBlockListKeeps ==
    ASSUME IInv, NEW s \in Senders, PutBlockList(s)
    PROVE  IInv'
<1> DEFINE k == upload[s].key
           n == Len(inodes) + 1
           latest == [i \in 1..Size |-> Latest(k, i)]
<1>1. /\ store.protocol = "azure" /\ send[s] = "uploading"
      /\ \A i \in 1..Size : latest[i] # Hole
      /\ inodes' = Append(inodes, latest)
      /\ objects' = Put(objects, k, n)
      /\ staged' = [staged EXCEPT ![k] = NothingStaged]
      /\ UNCHANGED <<store, source, spoilt>>
      /\ UNCHANGED <<recv, ticket, offset, get, file, piped, kept, clean, short>>
      /\ send' = [send EXCEPT ![s] = "idle"]
      /\ upload' = [upload EXCEPT ![s] = NoUpload]
      /\ tickets' = tickets \cup {[key |-> k, del |-> upload[s].del]}
  BY DEF PutBlockList, Issue, Become, recvVars
<1>2. k \in Contents /\ upload[s].del \in BOOLEAN
  BY <1>1, SendIs
<1>3. /\ send'[s] = "idle" /\ upload'[s] = NoUpload
      /\ \A t \in Senders \ {s} : send'[t] = send[t] /\ upload'[t] = upload[t]
      /\ \A t \in Senders : ~Live(t) /\ ~Live(t)'
  BY <1>1 DEF IInv, Types, SendTypes, Live
<1>4. ~store.inPlace /\ ContentFits(k) /\ \A l, i : ~ToBeWritten(l, i)
  <2>1. ~store.inPlace
    BY <1>1, StoresAssumption DEF IInv, Types, StoreTypes
  <2> QED
    BY <1>2, <2>1 DEF IInv, ToBeWritten, Writers
<1>5. latest \in Seq(Block) /\ Len(latest) = Size
  <2>1. ASSUME NEW i \in 1..Size PROVE Latest(k, i) \in Block
    <3>1. staged[k][i] \in Block
      BY <1>2, <2>1 DEF IInv, Types, StoreTypes
    <3>2. k \in DOMAIN objects => inodes[objects[k]][i] \in Block
      <4>1. SUFFICES ASSUME k \in DOMAIN objects PROVE inodes[objects[k]][i] \in Block
        OBVIOUS
      <4>2. StoreTypes /\ objects[k] \in 1..Len(inodes) /\ Len(inodes[objects[k]]) = Size
        BY <1>1, <1>4, <4>1 DEF IInv, Types, StoreTypes, ContentFits
      <4> QED
        BY <2>1, <4>2, InodesAre
    <3> QED
      BY <3>1, <3>2 DEF Latest
  <2>2. latest \in [1..Size -> Block]
    BY <2>1
  <2> HIDE DEF latest
  <2>3. latest \in Seq(Block)
    BY <2>2, BoundsAssumption, SeqDef
  <2> QED
    BY <2>2, <2>3, BoundsAssumption, LenProperties
<1>6. /\ inodes' \in Seq(Seq(Block)) /\ Len(inodes) \in Nat /\ Len(inodes') = n
      /\ \A i \in 1..Len(inodes') : Len(inodes'[i]) <= Size
      /\ \A i \in 1..Len(inodes) : inodes'[i] = inodes[i]
      /\ inodes'[n] = latest
  <2>1. StoreTypes /\ Len(latest) <= Size
    BY <1>5, BoundsAssumption DEF IInv, Types
  <2> HIDE DEF latest
  <2> QED
    BY <1>1, <1>5, <2>1, InodeAppended
<1>7. /\ n \in Nat /\ n \in 1..Len(inodes') /\ n \notin 1..Len(inodes)
      /\ 1..Len(inodes) \subseteq 1..Len(inodes')
  BY <1>6
<1>8. /\ DOMAIN objects' = DOMAIN objects \cup {k} /\ objects'[k] = n
      /\ \A l \in DOMAIN objects : l # k => objects'[l] = objects[l]
  <2> HIDE DEF k, n
  <2> QED
    BY <1>1 DEF Put
<1>9. Types'
  <2>1. NothingStaged \in [1..Size -> Block]
    BY DEF NothingStaged, Block
  <2>2. /\ DOMAIN objects' \subseteq Contents
        /\ \A l \in DOMAIN objects' : objects'[l] \in 1..Len(inodes')
    BY <1>2, <1>7, <1>8 DEF IInv, Types, StoreTypes
  <2>3. StoreTypes'
    BY <1>1, <1>6, <2>1, <2>2 DEF IInv, Types, StoreTypes
  <2>4. NoUpload \in Uploads /\ [key |-> k, del |-> upload[s].del] \in Ticket
    BY <1>2, BoundsAssumption DEF Uploads, NoUpload, Ticket
  <2>5. SendTypes' /\ RecvTypes'
    BY <1>1, <2>4 DEF IInv, Types, SendTypes, RecvTypes
  <2> QED
    BY <2>3, <2>5 DEF Types
<1>10. ASSUME NEW l \in Contents PROVE ContentFits(l)'
  <2>1. ContentFits(l)
    BY <1>10 DEF IInv
  <2>2. StagedOf(l)'
    <3>1. CASE l = k
      BY <1>1, <1>2, <3>1 DEF StagedOf, NothingStaged, IInv, Types, StoreTypes
    <3>2. CASE l # k
      BY <1>1, <1>10, <2>1, <3>2 DEF ContentFits, StagedOf, IInv, Types, StoreTypes
    <3> QED
      BY <3>1, <3>2
  <2>3. \A x \in DOMAIN objects : objects[x] \in 1..Len(inodes)
    BY DEF IInv, Types, StoreTypes
  <2>4. CASE l = k
    <3>1. Len(inodes'[objects'[l]]) = Size
      BY <1>5, <1>6, <1>8, <2>4
    <3>2. ASSUME l \notin spoilt, NEW i \in 1..Size PROVE latest[i] = l
      <4>1. latest[i] = Latest(l, i) /\ latest[i] # Hole
        BY <1>1, <2>4, <3>2
      <4>2. staged[l][i] \in {l, Hole}
        BY <2>1, <3>2 DEF ContentFits, StagedOf
      <4>3. l \in DOMAIN objects => inodes[objects[l]][i] = l
        <5>1. l \in DOMAIN objects => Written(l, i)
          BY <1>4, <2>1, <3>2 DEF ContentFits, StoredOf
        <5> QED
          BY <5>1 DEF Written
      <4> HIDE DEF latest
      <4> QED
        BY <4>1, <4>2, <4>3 DEF Latest
    <3>3. StoredOf(l)'
      <4> HIDE DEF latest, n, k
      <4>1. inodes'[objects'[l]] = latest /\ Len(latest) = Size
        BY <1>5, <1>6, <1>8, <2>4
      <4>2. Size \in Nat
        BY BoundsAssumption
      <4>3. l \notin spoilt' => \A i \in 1..Size : Written(l, i)'
        BY <1>1, <3>2, <4>1, <4>2 DEF Written
      <4> QED
        BY <4>3 DEF StoredOf
    <3>4. \A x \in DOMAIN objects' : objects'[l] = objects'[x] => l = x
      BY <1>7, <1>8, <2>3, <2>4
    <3> QED
      BY <2>2, <3>1, <3>3, <3>4 DEF ContentFits
  <2>5. CASE l # k
    <3>1. l \in DOMAIN objects' => /\ l \in DOMAIN objects /\ objects'[l] = objects[l]
                                   /\ inodes'[objects'[l]] = inodes[objects[l]]
      BY <1>6, <1>8, <2>3, <2>5
    <3>2. StoredOf(l)'
      <4>1. l \in DOMAIN objects /\ l \notin spoilt => \A i \in 1..Size : Written(l, i)
        BY <1>4, <2>1 DEF ContentFits, StoredOf
      <4> QED
        BY <1>1, <3>1, <4>1 DEF StoredOf, Written
    <3>3. \A x \in DOMAIN objects' :
             l \in DOMAIN objects' /\ objects'[l] = objects'[x] => l = x
      BY <1>7, <1>8, <2>1, <2>3, <2>5 DEF ContentFits
    <3>4. l \in DOMAIN objects' => Len(inodes'[objects'[l]]) = Size
      BY <1>1, <2>1, <3>1 DEF ContentFits
    <3> QED
      BY <2>2, <3>2, <3>3, <3>4 DEF ContentFits
  <2> QED
    BY <2>4, <2>5
<1>11. ASSUME NEW u \in Senders PROVE SenderFits(u)'
  <2>1. CASE u = s
    BY <1>3, <2>1 DEF SenderFits, UploadOf, WritesItsOwn, HiddenOf, PromiseOf, NoUpload
  <2>2. CASE u # s
    <3>1. Len(inodes') \in Nat /\ Len(inodes') >= Len(inodes) /\ tickets \subseteq tickets'
          /\ DOMAIN objects \subseteq DOMAIN objects'
      BY <1>1, <1>6, <1>8
    <3> QED
      BY <1>1, <1>3, <1>11, <2>2, <3>1, OthersSend
  <2> QED
    BY <2>1, <2>2
<1>12. ASSUME NEW r \in Receivers PROVE ReceiverFits(r)'
  <2>1. ReadsWhole(r)
    BY <1>12, RunIs
  <2>2. recv[r] = "copying" => get[r].inode \in 1..Len(inodes)
    BY <1>12, RunIs DEF GetOf
  <2>3. recv[r] = "copying" /\ clean[r] =>
           \A l \in DOMAIN objects : objects[l] = get[r].inode => l = ticket[r].key
    BY <2>1 DEF ReadsWhole
  <2>4. recv[r] = "copying" /\ clean[r] =>
           /\ inodes'[get[r].inode] = inodes[get[r].inode]
           /\ \A l \in DOMAIN objects' : objects'[l] = get[r].inode => l = ticket[r].key
    BY <1>6, <1>7, <1>8, <2>2, <2>3
  <2>5. Len(inodes') >= Len(inodes) /\ tickets \subseteq tickets'
    BY <1>1, <1>6
  <2> QED
    BY <1>1, <1>3, <1>12, <2>4, <2>5, ReadersStay
<1>13. TicketKeepsObject'
  <2> HIDE DEF k
  <2> QED
    BY <1>1, <1>2, <1>8, IssuedIsKept
<1> QED
  BY <1>9, <1>10, <1>11, <1>12, <1>13 DEF IInv

(* In place, what is truncated is to be written by whoever truncates it,   *)
(* and a run that reads it is not clean any more.                          *)
LEMMA BeginInPlaceKeeps ==
    ASSUME IInv, NEW s \in Senders, BeginInPlace(s)
    PROVE  IInv'
<1> DEFINE k == upload[s].key
           n == objects'[k]
           there == k \in DOMAIN objects
<1>1. /\ store.inPlace /\ send[s] = "opening"
      /\ objects' = IF there THEN objects ELSE Put(objects, k, Len(inodes) + 1)
      /\ inodes' = IF there THEN [inodes EXCEPT ![objects[k]] = <<>>]
                            ELSE Append(inodes, <<>>)
      /\ upload' = [upload EXCEPT ![s].inode = n]
      /\ clean' = [r \in Receivers |-> clean[r] /\ ticket[r].key # k]
      /\ send' = [send EXCEPT ![s] = "uploading"]
      /\ UNCHANGED <<store, staged, source, tickets, spoilt>>
      /\ UNCHANGED <<recv, ticket, offset, get, file, piped, kept, short>>
  BY DEF BeginInPlace, Become
<1>2. k \in Contents /\ upload[s].pos = 0 /\ ~Live(s)
  BY <1>1, SendIs DEF UploadOf, Live
<1>3. store.protocol # "azure"
  BY <1>1, StoresAssumption DEF IInv, Types, StoreTypes
<1>4. /\ StoreTypes
      /\ Len(inodes) \in Nat
      /\ \A l \in DOMAIN objects : objects[l] \in 1..Len(inodes)
      /\ <<>> \in Seq(Block) /\ Len(<<>>) = 0 /\ Len(<<>>) <= Size
  <2>1. StoreTypes /\ Len(inodes) \in Nat
    BY LenProperties DEF IInv, Types, StoreTypes
  <2>2. \A l \in DOMAIN objects : objects[l] \in 1..Len(inodes)
    BY <2>1 DEF StoreTypes
  <2>3. <<>> \in Seq(Block) /\ Len(<<>>) = 0 /\ 0 <= Size
    BY EmptySeq, BoundsAssumption
  <2> QED
    BY <2>1, <2>2, <2>3
<1>5. /\ DOMAIN objects' = DOMAIN objects \cup {k}
      /\ \A l \in DOMAIN objects : objects'[l] = objects[l]
      /\ n = IF there THEN objects[k] ELSE Len(inodes) + 1
  <2>1. CASE there
    BY <1>1, <2>1
  <2>2. CASE ~there
    <3> HIDE DEF k
    <3>1. objects' = Put(objects, k, Len(inodes) + 1)
      BY <1>1, <2>2
    <3> QED
      BY <2>2, <3>1 DEF Put, there
  <2> QED
    BY <2>1, <2>2
<1>6. /\ inodes' \in Seq(Seq(Block)) /\ Len(inodes') \in Nat /\ Len(inodes') >= Len(inodes)
      /\ \A i \in 1..Len(inodes') : Len(inodes'[i]) <= Size
      /\ \A i \in 1..Len(inodes) : i # n => inodes'[i] = inodes[i]
      /\ n \in 1..Len(inodes') /\ n \in Nat
      /\ ~there => n \notin 1..Len(inodes)
  <2>1. CASE there
    <3>1. n \in 1..Len(inodes) /\ inodes' = [inodes EXCEPT ![n] = <<>>]
      BY <1>1, <1>4, <1>5, <2>1
    <3> HIDE DEF n
    <3>2. /\ inodes' \in Seq(Seq(Block)) /\ Len(inodes') = Len(inodes)
          /\ \A i \in 1..Len(inodes') : Len(inodes'[i]) <= Size
          /\ \A i \in 1..Len(inodes) \ {n} : inodes'[i] = inodes[i]
      BY <1>4, <3>1, InodeChanged
    <3> QED
      BY <1>4, <2>1, <3>1, <3>2
  <2>2. CASE ~there
    <3>1. n = Len(inodes) + 1 /\ inodes' = Append(inodes, <<>>)
      BY <1>1, <1>5, <2>2
    <3> HIDE DEF n
    <3>2. /\ inodes' \in Seq(Seq(Block)) /\ Len(inodes') = Len(inodes) + 1
          /\ \A i \in 1..Len(inodes') : Len(inodes'[i]) <= Size
          /\ \A i \in 1..Len(inodes) : inodes'[i] = inodes[i]
      BY <1>4, <3>1, InodeAppended
    <3> QED
      BY <1>4, <3>1, <3>2
  <2> QED
    BY <2>1, <2>2
<1>7. /\ 1..Len(inodes) \subseteq 1..Len(inodes')
      /\ \A l \in DOMAIN objects' : l # k =>
            /\ l \in DOMAIN objects /\ objects'[l] = objects[l] /\ objects[l] # n
            /\ inodes'[objects[l]] = inodes[objects[l]]
  <2>1. \A l \in DOMAIN objects' : l # k =>
           l \in DOMAIN objects /\ objects'[l] = objects[l]
    BY <1>5
  <2>2. ASSUME NEW l \in DOMAIN objects, l # k PROVE objects[l] # n
    <3>1. CASE there
      <4>1. ContentFits(k)
        BY <1>2 DEF IInv
      <4> QED
        BY <1>5, <2>2, <3>1, <4>1 DEF ContentFits
    <3>2. CASE ~there
      BY <1>4, <1>6, <2>2, <3>2
    <3> QED
      BY <3>1, <3>2
  <2>3. ASSUME NEW l \in DOMAIN objects, l # k PROVE inodes'[objects[l]] = inodes[objects[l]]
    BY <1>4, <1>6, <2>2, <2>3
  <2>4. 1..Len(inodes) \subseteq 1..Len(inodes')
    BY <1>4, <1>6
  <2> QED
    BY <2>1, <2>2, <2>3, <2>4
<1>8. /\ send'[s] = "uploading" /\ upload'[s].inode = n
      /\ upload'[s].key = k /\ upload'[s].pos = 0 /\ Live(s)'
      /\ upload' \in [Senders -> Uploads]
      /\ \A t \in Senders \ {s} : send'[t] = send[t] /\ upload'[t] = upload[t]
      /\ \A t \in Senders \ {s} : Live(t)' = Live(t)
  <2>1. send \in [Senders -> {"idle", "hashed", "opening", "uploading"}]
        /\ upload \in [Senders -> Uploads]
    BY DEF IInv, Types, SendTypes
  <2> HIDE DEF n, k
  <2>2. upload' = [upload EXCEPT ![s].inode = n] /\ n \in Nat
    BY <1>1, <1>6
  <2>3. /\ upload'[s].inode = n /\ upload'[s].key = upload[s].key
        /\ upload'[s].pos = upload[s].pos
        /\ upload' \in [Senders -> Uploads]
        /\ \A t \in Senders \ {s} : upload'[t] = upload[t]
    BY <2>1, <2>2 DEF Uploads
  <2>4. /\ send'[s] = "uploading"
        /\ \A t \in Senders \ {s} : send'[t] = send[t]
    BY <1>1, <2>1
  <2> QED
    BY <1>1, <1>2, <1>3, <2>3, <2>4 DEF Live, k
<1>9. Types'
  <2>1. DOMAIN objects' \subseteq Contents
    BY <1>2, <1>5 DEF IInv, Types, StoreTypes
  <2>2. ASSUME NEW l \in DOMAIN objects' PROVE objects'[l] \in 1..Len(inodes')
    BY <1>4, <1>6, <1>7, <2>2
  <2>3. StoreTypes'
    BY <1>1, <1>6, <2>1, <2>2 DEF IInv, Types, StoreTypes
  <2>4. SendTypes'
    BY <1>1, <1>8 DEF IInv, Types, SendTypes
  <2>5. clean' \in [Receivers -> BOOLEAN]
    BY <1>1 DEF IInv, Types, RecvTypes
  <2>6. RecvTypes'
    BY <1>1, <2>5 DEF IInv, Types, RecvTypes
  <2> QED
    BY <2>3, <2>4, <2>6 DEF Types
<1>10. ASSUME NEW l \in Contents PROVE ContentFits(l)'
  <2>1. ContentFits(l)
    BY <1>10 DEF IInv
  <2>2. StagedOf(l)'
    BY <1>1, <2>1 DEF ContentFits, StagedOf
  <2>3. \A x \in DOMAIN objects' :
           l \in DOMAIN objects' /\ objects'[l] = objects'[x] => l = x
    BY <1>7, <2>1 DEF ContentFits
  <2>4. StoredOf(l)'
    <3>1. CASE l = k
      <4>1. s \in Writers(l)'
        BY <1>1, <1>8, <3>1 DEF Writers
      <4>2. \A i \in 1..Size : ToBeWritten(l, i)'
        <5>1. upload'[s].inode = objects'[l] /\ \A i \in 1..Size : upload'[s].pos < i
          BY <1>8, <3>1, BoundsAssumption
        <5> QED
          BY <4>1, <5>1 DEF ToBeWritten
      <4> QED
        BY <4>2 DEF StoredOf
    <3>2. CASE l # k
      <4>1. SUFFICES ASSUME l \in DOMAIN objects', l \notin spoilt', NEW i \in 1..Size
                     PROVE  Written(l, i)' \/ ToBeWritten(l, i)'
        BY DEF StoredOf
      <4>2. /\ l \in DOMAIN objects /\ objects'[l] = objects[l]
            /\ inodes'[objects[l]] = inodes[objects[l]]
        BY <1>7, <3>2, <4>1
      <4>3. Written(l, i) \/ ToBeWritten(l, i)
        BY <1>1, <2>1, <4>1, <4>2 DEF ContentFits, StoredOf
      <4>4. CASE Written(l, i)
        BY <4>2, <4>4 DEF Written
      <4>5. CASE ToBeWritten(l, i)
        <5>1. PICK w \in Writers(l) : upload[w].inode = objects[l] /\ upload[w].pos < i
          BY <4>5 DEF ToBeWritten
        <5>2. w # s /\ w \in Senders
          BY <1>1, <5>1 DEF Writers
        <5>3. w \in Writers(l)' /\ upload'[w] = upload[w]
          BY <1>1, <1>8, <5>1, <5>2 DEF Writers
        <5> QED
          BY <4>2, <5>1, <5>3 DEF ToBeWritten
      <4> QED
        BY <4>3, <4>4, <4>5
    <3> QED
      BY <3>1, <3>2
  <2>5. store'.protocol # "azure"
    BY <1>1, <1>3
  <2> QED
    BY <2>2, <2>3, <2>4, <2>5 DEF ContentFits
<1>11. ASSUME NEW u \in Senders PROVE SenderFits(u)'
  <2>1. CASE u = s
    <3>1. UploadOf(s)'
      BY <1>2, <1>6, <1>8 DEF UploadOf
    <3>2. WritesItsOwn(s)'
      BY <1>1, <1>7, <1>8 DEF WritesItsOwn
    <3>3. HiddenOf(s)'
      BY <1>1 DEF HiddenOf
    <3>4. PromiseOf(s)'
      BY <1>5, <1>8 DEF PromiseOf
    <3> QED
      BY <2>1, <3>1, <3>2, <3>3, <3>4 DEF SenderFits
  <2>2. CASE u # s
    <3>1. Live(u) => upload[u].inode \in 1..Len(inodes)
      BY SendIs, <1>11 DEF UploadOf
    <3>2. Live(u) => \A l \in DOMAIN objects' : objects'[l] = upload[u].inode
                        => l \in DOMAIN objects /\ objects[l] = objects'[l]
      <4>1. ASSUME Live(u), objects'[k] = upload[u].inode
            PROVE  k \in DOMAIN objects /\ objects[k] = objects'[k]
        BY <1>5, <1>6, <3>1, <4>1
      <4> QED
        BY <1>7, <4>1
    <3> HIDE DEF n, k, there
    <3> QED
      BY <1>1, <1>4, <1>5, <1>6, <1>8, <1>11, <2>2, <3>2, OthersSend
  <2> QED
    BY <2>1, <2>2
<1>12. ASSUME NEW r \in Receivers PROVE ReceiverFits(r)'
  <2>1. ReadsWhole(r)
    BY <1>12, RunIs
  <2>2. recv[r] = "copying" => get[r].inode \in 1..Len(inodes)
    BY <1>12, RunIs DEF GetOf
  <2>3. clean'[r] => clean[r] /\ ticket[r].key # k
    BY <1>1, <1>12
  <2>4. recv[r] = "copying" /\ clean'[r] => get[r].inode # n
    <3>1. SUFFICES ASSUME recv[r] = "copying", clean'[r], get[r].inode = n PROVE FALSE
      OBVIOUS
    <3>2. there /\ n = objects[k]
      BY <1>5, <1>6, <2>2, <3>1
    <3> QED
      BY <2>1, <2>3, <3>1, <3>2 DEF ReadsWhole
  <2>5. recv[r] = "copying" /\ clean'[r] =>
           /\ \A l \in DOMAIN objects : objects[l] = get[r].inode => l = ticket[r].key
           /\ \A t \in Senders : Live(t) => upload[t].inode # get[r].inode
    BY <2>1, <2>3 DEF ReadsWhole
  <2>6. recv[r] = "copying" /\ clean'[r] =>
           /\ inodes'[get[r].inode] = inodes[get[r].inode]
           /\ \A l \in DOMAIN objects' : objects'[l] = get[r].inode => l = ticket[r].key
    BY <1>6, <1>7, <2>2, <2>4, <2>5
  <2>7. recv[r] = "copying" /\ clean'[r] =>
           \A t \in Senders : Live(t)' => upload'[t].inode # get[r].inode
    BY <1>8, <2>4, <2>5
  <2> HIDE DEF n, k, there
  <2> QED
    BY <1>1, <1>6, <1>12, <2>3, <2>6, <2>7, ReadersStay
<1>13. TicketKeepsObject'
  <2>1. TicketKeepsObject
    BY DEF IInv
  <2>2. DOMAIN objects \subseteq DOMAIN objects'
    BY <1>5
  <2>3. tickets' = tickets
    BY <1>1
  <2> QED
    BY <2>1, <2>2, <2>3, Zenon DEF TicketKeepsObject
<1> QED
  BY <1>9, <1>10, <1>11, <1>12, <1>13 DEF IInv

-----------------------------------------------------------------------------
(* The three facts about IInv.                                             *)
LEMMA Initially == Init => IInv
<1> SUFFICES ASSUME Init PROVE IInv
  OBVIOUS
<1>1. /\ \A S : <<>> \in Seq(S) /\ Len(<<>>) = 0 /\ 1..Len(<<>>) = {}
      /\ DOMAIN <<>> = {}
  BY EmptySeq
<1>2. Types
  <2>1. /\ store \in Stores /\ inodes = <<>> /\ objects = <<>>
        /\ staged = [k \in Contents |-> NothingStaged]
    BY DEF Init
  <2>2. NothingStaged \in [1..Size -> Block]
    BY DEF NothingStaged, Block
  <2>3. StoreTypes
    BY <1>1, <2>1, <2>2 DEF StoreTypes
  <2>4. /\ NoUpload \in Uploads /\ NoGet \in Requests
        /\ NoTicket \in [key : Contents \cup {Hole}, del : BOOLEAN]
    BY BoundsAssumption DEF Uploads, NoUpload, Requests, NoGet, NoTicket
  <2>5. SendTypes
    BY <2>4 DEF Init, SendTypes
  <2>6. file \in [Receivers -> Seq(Block)]
    BY FilesAssumption DEF Init, Block
  <2>7. RecvTypes
    BY <2>4, <2>6 DEF Init, RecvTypes, Ended
  <2> QED
    BY <2>3, <2>5, <2>7 DEF Types
<1>3. ASSUME NEW k \in Contents PROVE ContentFits(k)
  <2>1. StagedOf(k)
    BY <1>3 DEF Init, StagedOf, NothingStaged
  <2>2. k \notin DOMAIN objects
    BY <1>1 DEF Init
  <2> QED
    BY <2>1, <2>2 DEF ContentFits, StoredOf
<1>4. ASSUME NEW s \in Senders PROVE SenderFits(s)
  BY <1>4 DEF Init, SenderFits, UploadOf, WritesItsOwn, HiddenOf, PromiseOf, NoUpload, Live
<1>5. ASSUME NEW r \in Receivers PROVE ReceiverFits(r)
  <2>1. Len(file[r]) \in Nat
    BY <1>2, <1>5, LenProperties DEF Types, RecvTypes
  <2> QED
    BY <1>5, <2>1 DEF Init, ReceiverFits, RunOf, GetOf, ReadsWhole, HasPayload, NoGet
<1>6. TicketKeepsObject
  BY DEF Init, TicketKeepsObject
<1> QED
  BY <1>2, <1>3, <1>4, <1>5, <1>6 DEF IInv

LEMMA StutterKeeps ==
    ASSUME IInv, UNCHANGED vars
    PROVE  IInv'
<1>1. UNCHANGED <<storeVars, source, send, upload, tickets, spoilt>>
  BY DEF vars, sendVars
<1>2. UNCHANGED <<recv, ticket, offset, get, file, piped, kept, clean, short>>
  BY DEF vars, recvVars
<1>3. UNCHANGED <<store, objects, inodes, staged>>
  BY <1>1 DEF storeVars
<1>4. RecvTypes'
  BY <1>2 DEF IInv, Types, RecvTypes
<1>5. ASSUME NEW r \in Receivers PROVE ReceiverFits(r)'
  BY <1>1, <1>2, <1>3, <1>5, OthersRun
<1> QED
  BY <1>1, <1>4, <1>5, StoreStays DEF IInv, Types

LEMMA NextKeeps ==
    ASSUME IInv, Next
    PROVE  IInv'
<1>1. ASSUME NEW s \in Senders,
             \/ \E d \in BOOLEAN : Send(s, d)
             \/ Reuse(s) \/ Missing(s) \/ SizeFails(s) \/ HeadFails(s) \/ BeginStaging(s)
             \/ SendFails(s) \/ Edit(s)
      PROVE  IInv'
  BY <1>1, SendKeeps, ReuseKeeps, LooksKeeps, SendFailsKeeps, EditKeeps
<1>2. ASSUME NEW s \in Senders,
             \/ BeginHidden(s) \/ BeginInPlace(s) \/ Upload(s) \/ PutBlock(s)
             \/ Finish(s) \/ PutBlockList(s)
      PROVE  IInv'
  BY <1>2, BeginHiddenKeeps, BeginInPlaceKeeps, UploadKeeps, PutBlockKeeps, FinishKeeps,
     PutBlockListKeeps
<1>3. ASSUME NEW r \in Receivers,
             \/ \E t \in tickets, m \in Modes : Recv(r, t, m)
             \/ AskHttp(r) \/ AskFtp(r) \/ AskSftp(r) \/ Copy(r)
             \/ Complete(r) \/ CompleteShort(r) \/ CompleteUnflushed(r) \/ Delete(r)
             \/ RecvFails(r)
      PROVE  IInv'
  BY <1>3, RecvKeeps, AskHttpKeeps, AskFtpKeeps, CopyKeeps, CompleteKeeps,
     CompleteShortKeeps, CompleteUnflushedKeeps, DeleteKeeps, RecvFailsKeeps
<1> QED
  BY <1>1, <1>2, <1>3 DEF Next

(* What an object lacks of its content lies before a sender that writes to *)
(* it, and what a clean run reads is whole and nobody's to write to.       *)
THEOREM Invariance == Spec => []IInv
<1>1. Init => IInv
  BY Initially
<1>2. IInv /\ [Next]_vars => IInv'
  BY NextKeeps, StutterKeeps
<1> QED
  BY <1>1, <1>2, PTL DEF Spec

(* The types, and that an inode belongs to a running upload or run.        *)
LEMMA IsTyped ==
    ASSUME IInv
    PROVE  TypeOK
<1>1. StoreTypes /\ SendTypes /\ RecvTypes /\ DOMAIN inodes = 1..Len(inodes)
  <2>1. StoreTypes /\ SendTypes /\ RecvTypes
    BY DEF IInv, Types
  <2> QED
    BY <2>1, LenProperties DEF StoreTypes
<1>2. ASSUME NEW s \in Senders
      PROVE  /\ send[s] = "idle" <=> upload[s] = NoUpload
             /\ send[s] = "uploading" /\ store.protocol # "azure"
                    <=> upload[s].inode \in DOMAIN inodes
             /\ upload[s].pos \in 0..Size
  <2>1. upload[s] = NoUpload => send[s] = "idle"
    BY SendIs, HoleAssumption DEF NoUpload
  <2>2. send[s] = "idle" => upload[s] = NoUpload
    BY SendIs DEF UploadOf
  <2>3. Live(s) <=> upload[s].inode \in DOMAIN inodes
    BY <1>1, SendIs DEF UploadOf
  <2>4. upload[s].pos \in 0..Size
    BY <1>1 DEF SendTypes, Uploads
  <2> QED
    BY <2>1, <2>2, <2>3, <2>4 DEF Live
<1>3. ASSUME NEW r \in Receivers
      PROVE  /\ recv[r] \in Ended \cup {"asking", "copying", "deleting"}
             /\ recv[r] \notin {"idle", "failed"} => ticket[r] \in Ticket
             /\ recv[r] = "copying" <=> get[r].inode \in DOMAIN inodes
             /\ file[r] \in Seq(Block) /\ kept[r] <= Len(file[r])
  <2>1. recv[r] \notin {"idle", "failed"} => ticket[r] \in Ticket
    BY <1>1, RunIs DEF RunOf, SendTypes
  <2>2. recv[r] = "copying" <=> get[r].inode \in DOMAIN inodes
    BY <1>1, RunIs DEF GetOf, NoGet
  <2>3. kept[r] <= Len(file[r])
    BY RunIs DEF RunOf
  <2> QED
    BY <2>1, <2>2, <2>3, RunIs
<1> QED
  BY <1>1, <1>2, <1>3 DEF TypeOK, StoreTypes, SendTypes

(* An object that is not being written holds the content of its key, and a *)
(* run that reported success has the payload (ftp.rs, sftp.rs, s3.rs) or,  *)
(* if its body ended early (s3.rs:161), nothing but its blocks up to there;*)
(* unless an upload was edited or cut off, or the run was not clean.       *)
THEOREM ContentsAreWhole == Spec => []ObjectsAreWhole
<1>1. ASSUME IInv PROVE StoredIsWhole
  <2>1. SUFFICES ASSUME NEW k \in DOMAIN objects, k \notin spoilt, Writers(k) = {}
                 PROVE  inodes[objects[k]] = Whole(k)
    BY DEF StoredIsWhole
  <2>2. /\ k \in Contents /\ objects[k] \in 1..Len(inodes) /\ StoreTypes /\ ContentFits(k)
    BY <1>1 DEF IInv, Types, StoreTypes
  <2> DEFINE f == inodes[objects[k]]
  <2>3. \A i \in 1..Size : i <= Len(f) /\ f[i] = k
    BY <2>1, <2>2 DEF ContentFits, StoredOf, Written, ToBeWritten
  <2>4. f \in Seq(Block) /\ Len(f) \in Nat /\ Len(f) <= Size
    BY <2>2, InodesAre
  <2> HIDE DEF f
  <2>5. Len(f) = Size
    BY <2>3, <2>4, BoundsAssumption
  <2>6. f = Whole(k)
    BY <2>2, <2>3, <2>4, <2>5, WholeIs, SeqEqual
  <2> QED
    BY <2>6 DEF f
<1>2. ASSUME IInv PROVE ReceivedIsWhole
  BY <1>2, RunIs DEF ReceivedIsWhole, HasPayload
<1>3. IInv => ObjectsAreWhole
  BY <1>1, <1>2, IsTyped DEF ObjectsAreWhole
<1> QED
  BY <1>3, Invariance, PTL

(* The object of a ticket is there unless a -d ticket of the same content  *)
(* was issued (s3.rs:108).                                                 *)
THEOREM TicketsPromise == Spec => []TicketKeepsObject
<1>1. IInv => TicketKeepsObject
  BY DEF IInv
<1> QED
  BY <1>1, Invariance, PTL

(* Objects go by one action,                                               *)
LEMMA OnlyDeleteRemoves ==
    ASSUME Next, NEW k \in DOMAIN objects, k \notin DOMAIN objects'
    PROVE  \E r \in Receivers : Delete(r) /\ k = ticket[r].key
<1>1. ASSUME NEW s \in Senders
      PROVE  /\ ~BeginInPlace(s) /\ ~Finish(s) /\ ~PutBlockList(s)
             /\ ~(\E d \in BOOLEAN : Send(s, d)) /\ ~Reuse(s) /\ ~Missing(s) /\ ~SizeFails(s)
             /\ ~HeadFails(s) /\ ~BeginHidden(s) /\ ~BeginStaging(s) /\ ~Upload(s)
             /\ ~PutBlock(s) /\ ~SendFails(s) /\ ~Edit(s)
  <2>1. ~BeginInPlace(s) /\ ~Finish(s) /\ ~PutBlockList(s)
    BY DEF BeginInPlace, Finish, PutBlockList, Put
  <2>2. /\ ~(\E d \in BOOLEAN : Send(s, d)) /\ ~Reuse(s) /\ ~Missing(s) /\ ~SizeFails(s)
        /\ ~HeadFails(s) /\ ~BeginHidden(s) /\ ~BeginStaging(s) /\ ~Upload(s)
        /\ ~PutBlock(s) /\ ~SendFails(s) /\ ~Edit(s)
    BY DEF Send, Reuse, Missing, SizeFails, HeadFails, BeginHidden, BeginStaging, Upload,
       PutBlock, Reads, SendFails, Edit, storeVars
  <2> QED
    BY <2>1, <2>2
<1>2. ASSUME NEW r \in Receivers
      PROVE  /\ ~(\E t \in tickets, m \in Modes : Recv(r, t, m))
             /\ ~AskHttp(r) /\ ~AskFtp(r) /\ ~AskSftp(r) /\ ~Copy(r)
             /\ ~Complete(r) /\ ~CompleteShort(r) /\ ~CompleteUnflushed(r)
             /\ ~RecvFails(r)
  BY DEF Recv, AskHttp, AskFtp, AskSftp, Copy, Complete, CompleteShort, CompleteUnflushed,
     RecvFails, storeVars
<1>3. PICK r \in Receivers : Delete(r)
  BY <1>1, <1>2 DEF Next
<1>4. k = ticket[r].key
  BY <1>3 DEF Delete
<1> QED
  BY <1>3, <1>4

(* and its receiver holds a -d ticket for that very content and, if the    *)
(* run was clean, the payload, or the part of it that came with a body that*)
(* ended early (try_delete_... in recv.rs).                                *)
THEOREM SuccessesDelete == Spec => DeletedBySuccess
<1> DEFINE Step == \A k \in DOMAIN objects \ DOMAIN objects' :
                      \E r \in Receivers : Deletes(r, k) /\ Received(r)
<1>1. ASSUME IInv, Next PROVE Step
  <2>1. SUFFICES ASSUME NEW k \in DOMAIN objects, k \notin DOMAIN objects'
                 PROVE  \E r \in Receivers : Deletes(r, k) /\ Received(r)
    OBVIOUS
  <2>2. PICK r \in Receivers : Delete(r) /\ k = ticket[r].key
    BY <1>1, <2>1, OnlyDeleteRemoves
  <2>3. recv[r] = "deleting" /\ recv'[r] = "done"
    BY <1>1, <2>2 DEF Delete, Goes, IInv, Types, RecvTypes
  <2>4. ticket[r] \in Ticket /\ ticket[r].del /\ HasPayload(r)
    BY <1>1, <2>3, RunIs DEF RunOf, IInv, Types, SendTypes
  <2>5. ticket[r] = [key |-> k, del |-> TRUE]
    BY <2>2, <2>4 DEF Ticket
  <2>6. Received(r)
    BY <2>3, <2>4 DEF HasPayload
  <2> QED
    BY <2>3, <2>5, <2>6 DEF Deletes
<1>2. IInv /\ [Next]_vars => [Step]_vars
  BY <1>1
<1> QED
  BY <1>2, Invariance, PTL DEF Spec, DeletedBySuccess
=============================================================================
