------------------------- MODULE FileTransferProofs -------------------------
(***************************************************************************)
(* Proofs about FileTransfer, for all receivers, payloads, files and       *)
(* bounds.  IInv is the inductive invariant: what is written, what is in   *)
(* flight and where the sender stands in the source fit together.          *)
(***************************************************************************)
EXTENDS FileTransfer, SequenceTheorems, TLAPS

Reading == {"requested", "copying"}

(* How far into the file the receiver is.                                  *)
Position(r) == IF run[r] = "copying" THEN Len(file[r]) ELSE offset[r]

(* One connection is up at most: that of the receiver being served.        *)
LinkOf(r) == r \in up => /\ peer = r
                         /\ sender \in {"accepted", "streaming", "closing"}
                         /\ run[r] \in Receiving

(* A run that will append has planned with the file as it is; one that has *)
(* planned to start over, with neither --overwrite nor --stdout, had no    *)
(* block of the payload.                                                   *)
PlanOf(r) ==
    run[r] \in Dialling \cup {"connected", "requested"} =>
        /\ offset[r] > 0 => offset[r] = Len(file[r])
        /\ mode[r] \in {"auto", "resume"} /\ offset[r] = 0 /\ IsPrefix(file[r], Payload)
              => file[r] = <<>>

(* Behind what a receiver kept there are blocks of the payload only, each  *)
(* in its place;                                                           *)
Appended(r) ==
    /\ offset[r] <= Len(file[r])
    /\ \A i \in offset[r] + 1..Len(file[r]) : i <= Size /\ file[r][i] = Payload[i]

(* behind these come those in flight.                                      *)
InFlight(r) ==
    \A i \in 1..Len(wire[r]) : /\ Position(r) + i <= Size
                               /\ wire[r][i] = Payload[Position(r) + i]

InPlace(r) ==
    /\ run[r] = "copying" => Appended(r)
    /\ run[r] \in Reading => InFlight(r)
    /\ run[r] = "connected" => wire[r] = <<>> /\ ~fin[r]

(* The sender's position is behind all of them.                            *)
SenderAgrees(r) ==
    r \in up =>
        /\ sender = "accepted" => /\ wire[r] = <<>>
                                  /\ Position(r) = offset[r]
        /\ sender \in {"streaming", "closing"} =>
              /\ run[r] \in Reading
              /\ sent = Position(r) + Len(wire[r])

(* The end of the payload follows the last block, and the sender knows.    *)
EndFollows(r) ==
    run[r] \in Reading /\ fin[r] =>
        /\ peer = r
        /\ sender \in {"closing", "exited"}
        /\ Position(r) + Len(wire[r]) >= Size

(* A run that is done has all of it.                                       *)
DoneHasAll(r) ==
    run[r] = "done" =>
        /\ peer = r
        /\ sender \in {"closing", "exited"}
        /\ r \notin unflushed => Appended(r) /\ Len(file[r]) >= Size

Fits(r) == /\ LinkOf(r)
           /\ PlanOf(r)
           /\ InPlace(r)
           /\ SenderAgrees(r)
           /\ EndFollows(r)
           /\ DoneHasAll(r)

IInv == TypeOK /\ \A r \in Receivers : Fits(r)

-----------------------------------------------------------------------------

(* A step that changes neither the sender nor anything of receiver q       *)
(* leaves q's state as it fits.                                            *)
LEMMA Same ==
    ASSUME NEW q \in Receivers, Fits(q), UNCHANGED senderVars,
           run'[q] = run[q], mode'[q] = mode[q], offset'[q] = offset[q],
           file'[q] = file[q], wire'[q] = wire[q], fin'[q] = fin[q],
           q \in up' <=> q \in up, q \in unflushed' <=> q \in unflushed
    PROVE  Fits(q)'
BY DEF Fits, LinkOf, PlanOf, InPlace, Appended, InFlight, SenderAgrees, EndFollows, DoneHasAll,
       Position, senderVars

(* A step of the sender disturbs only the receiver it serves: with any     *)
(* other one, and with one whose connection is down before the payload is  *)
(* out, nothing depends on the sender's variables.                         *)
LEMMA Apart ==
    ASSUME NEW q \in Receivers, Fits(q),
           peer # q \/ (q \notin up /\ sender \notin {"closing", "exited"}),
           run'[q] = run[q], mode'[q] = mode[q], offset'[q] = offset[q],
           file'[q] = file[q], wire'[q] = wire[q], fin'[q] = fin[q],
           q \notin up \/ peer = q => q \notin up'
    PROVE  Fits(q)'
<1>1. q \notin up /\ ~(run[q] \in Reading /\ fin[q]) /\ run[q] # "done" /\ q \notin up'
  BY DEF Fits, LinkOf, EndFollows, DoneHasAll
<1>2. LinkOf(q)' /\ SenderAgrees(q)' /\ EndFollows(q)' /\ DoneHasAll(q)'
  BY <1>1 DEF LinkOf, SenderAgrees, EndFollows, DoneHasAll, Reading
<1>3. PlanOf(q)' /\ InPlace(q)'
  BY DEF Fits, PlanOf, InPlace, Appended, InFlight, Position
<1> QED
  BY <1>2, <1>3 DEF Fits

(* A prefix as long as the whole is the whole.                             *)
LEMMA LongPrefix ==
    ASSUME NEW S, NEW s \in Seq(S), NEW t \in Seq(S), IsPrefix(s, t), Len(s) >= Len(t)
    PROVE  s = t
<1>1. Len(s) = Len(t)
  BY LenProperties DEF IsPrefix
<1>2. SubSeq(s, 1, Len(s)) = s /\ SubSeq(t, 1, Len(t)) = t
  BY SubSeqFull
<1> QED
  BY <1>1, <1>2 DEF IsPrefix

(* A run that ends before it dials has touched nothing but stdout's file.  *)
LEMMA RecvKeeps ==
    ASSUME IInv, NEW r \in Receivers, NEW m \in Modes, Recv(r, m)
    PROVE  IInv'
<1> USE DEF IInv
<1>1. TypeOK'
  BY ModesAssumption, BoundsAssumption, PayloadAssumption, EmptySeq
     DEF TypeOK, Files, Recv, ResumeFrom, Emptied, senderVars, netVars, Ended, Receiving,
         Dialling
<1>2. ASSUME NEW q \in Receivers, q # r PROVE Fits(q)'
  BY <1>2, Same DEF TypeOK, Recv, Emptied, senderVars, netVars
<1>3. Fits(r)'
  <2>1. LinkOf(r)'
    BY DEF Fits, LinkOf, TypeOK, Recv, Emptied, senderVars, netVars, Ended, Receiving
  <2>2. PlanOf(r)'
    <3>1. IsPrefix(file[r], Payload) /\ Len(file[r]) >= Len(Payload) => file[r] = Payload
      BY LongPrefix, PayloadAssumption DEF TypeOK, Files
    <3>2. Len(file[r]) = 0 => file[r] = <<>>
      BY EmptySeq DEF TypeOK, Files
    <3> QED
      BY <3>1, <3>2, PayloadAssumption
         DEF TypeOK, Files, PlanOf, Recv, planVars, Emptied, ResumeFrom, Skips, Ended, Dialling
  <2>3. InPlace(r)'
    BY DEF Fits, InPlace, Appended, InFlight, Position, TypeOK, Recv, Emptied, netVars, Ended,
           Reading
  <2>4. SenderAgrees(r)'
    BY DEF Fits, SenderAgrees, Position, TypeOK, Recv, Emptied, senderVars, netVars, Ended,
           Reading
  <2>5. EndFollows(r)'
    BY DEF Fits, EndFollows, Position, TypeOK, Recv, Emptied, senderVars, netVars, Ended,
           Reading
  <2>6. DoneHasAll(r)'
    BY DEF Fits, DoneHasAll, Appended, TypeOK, Recv, Emptied, senderVars, Ended
  <2> QED
    BY <2>1, <2>2, <2>3, <2>4, <2>5, <2>6 DEF Fits
<1> QED
  BY <1>1, <1>2, <1>3

LEMMA BindFailsKeeps ==
    ASSUME IInv, NEW r \in Receivers, NEW m \in Modes, BindFails(r, m)
    PROVE  IInv'
<1> USE DEF IInv
<1>1. TypeOK'
  BY ModesAssumption, BoundsAssumption, PayloadAssumption, EmptySeq
     DEF TypeOK, Files, BindFails, Emptied, senderVars, netVars, Ended, Receiving, Dialling
<1>2. ASSUME NEW q \in Receivers, q # r PROVE Fits(q)'
  BY <1>2, Same DEF TypeOK, BindFails, Emptied, senderVars, netVars
<1>3. Fits(r)'
  <2>1. LinkOf(r)'
    BY DEF Fits, LinkOf, TypeOK, BindFails, Emptied, senderVars, netVars, Ended, Receiving
  <2>2. PlanOf(r)'
    BY DEF Fits, PlanOf, TypeOK, BindFails, Emptied, Skips, Ended, Dialling
  <2>3. InPlace(r)'
    BY DEF Fits, InPlace, Appended, InFlight, Position, TypeOK, BindFails, Emptied, netVars,
           Ended, Reading
  <2>4. SenderAgrees(r)'
    BY DEF Fits, SenderAgrees, Position, TypeOK, BindFails, Emptied, senderVars, netVars, Ended,
           Reading
  <2>5. EndFollows(r)'
    BY DEF Fits, EndFollows, Position, TypeOK, BindFails, Emptied, senderVars, netVars, Ended,
           Reading
  <2>6. DoneHasAll(r)'
    BY DEF Fits, DoneHasAll, Appended, TypeOK, BindFails, Emptied, senderVars, Ended
  <2> QED
    BY <2>1, <2>2, <2>3, <2>4, <2>5, <2>6 DEF Fits
<1> QED
  BY <1>1, <1>2, <1>3

(* Dialling.                                                               *)
LEMMA FallsBackKeeps ==
    ASSUME IInv, NEW r \in Receivers, FallsBack(r)
    PROVE  IInv'
<1> USE DEF IInv
<1>1. TypeOK'
  BY ModesAssumption, BoundsAssumption
     DEF TypeOK, Files, FallsBack, senderVars, planVars, netVars, Ended, Receiving, Dialling
<1>2. ASSUME NEW q \in Receivers, q # r PROVE Fits(q)'
  BY <1>2, Same DEF TypeOK, FallsBack, senderVars, planVars, netVars
<1>3. Fits(r)'
  <2>1. LinkOf(r)'
    BY DEF Fits, LinkOf, TypeOK, FallsBack, senderVars, netVars, Receiving
  <2>2. PlanOf(r)'
    BY DEF Fits, PlanOf, TypeOK, FallsBack, planVars, Dialling
  <2>3. InPlace(r)'
    BY DEF Fits, InPlace, Appended, InFlight, Position, TypeOK, FallsBack, planVars, netVars,
           Reading
  <2>4. SenderAgrees(r)'
    BY DEF Fits, SenderAgrees, Position, TypeOK, FallsBack, senderVars, planVars, netVars,
           Reading
  <2>5. EndFollows(r)'
    BY DEF Fits, EndFollows, Position, TypeOK, FallsBack, senderVars, planVars, netVars, Reading
  <2>6. DoneHasAll(r)'
    BY DEF Fits, DoneHasAll, Appended, TypeOK, FallsBack, senderVars, planVars
  <2> QED
    BY <2>1, <2>2, <2>3, <2>4, <2>5, <2>6 DEF Fits
<1> QED
  BY <1>1, <1>2, <1>3

LEMMA DialFailsKeeps ==
    ASSUME IInv, NEW r \in Receivers, DialFails(r)
    PROVE  IInv'
<1> USE DEF IInv
<1>1. TypeOK'
  BY DEF TypeOK, Files, DialFails, Fails, senderVars, netVars, dialVars, Ended, Receiving,
         Dialling
<1>2. ASSUME NEW q \in Receivers, q # r PROVE Fits(q)'
  BY <1>2, Same DEF TypeOK, DialFails, Fails, senderVars, netVars, dialVars
<1>3. Fits(r)'
  <2>1. LinkOf(r)'
    BY DEF Fits, LinkOf, TypeOK, DialFails, Fails, senderVars, netVars, Dialling, Receiving
  <2>2. PlanOf(r)'
    BY DEF Fits, PlanOf, TypeOK, DialFails, Fails, Dialling
  <2>3. InPlace(r)'
    BY DEF Fits, InPlace, Appended, InFlight, Position, TypeOK, DialFails, Fails, netVars,
           Dialling, Reading
  <2>4. SenderAgrees(r)'
    BY DEF Fits, SenderAgrees, Position, TypeOK, DialFails, Fails, senderVars, netVars,
           Dialling, Reading
  <2>5. EndFollows(r)'
    BY DEF Fits, EndFollows, Position, TypeOK, DialFails, Fails, senderVars, netVars, Dialling,
           Reading
  <2>6. DoneHasAll(r)'
    BY DEF Fits, DoneHasAll, Appended, TypeOK, DialFails, Fails, senderVars, dialVars, Dialling
  <2> QED
    BY <2>1, <2>2, <2>3, <2>4, <2>5, <2>6 DEF Fits
<1> QED
  BY <1>1, <1>2, <1>3

(* The request; the file is not touched before the destination is opened.  *)
LEMMA RequestKeeps ==
    ASSUME IInv, NEW r \in Receivers, Request(r)
    PROVE  IInv'
<1> USE DEF IInv
<1>1. TypeOK'
  BY DEF TypeOK, Files, Request, senderVars, planVars, netVars, dialVars, Ended, Receiving,
         Dialling
<1>2. ASSUME NEW q \in Receivers, q # r PROVE Fits(q)'
  BY <1>2, Same DEF TypeOK, Request, senderVars, planVars, netVars, dialVars
<1>3. Fits(r)'
  <2>1. LinkOf(r)'
    BY DEF Fits, LinkOf, TypeOK, Request, senderVars, netVars, Receiving
  <2>2. PlanOf(r)'
    BY DEF Fits, PlanOf, TypeOK, Request, planVars, Dialling
  <2>3. InPlace(r)'
    BY DEF Fits, InPlace, Appended, InFlight, Position, TypeOK, Request, planVars, netVars,
           Reading
  <2>4. SenderAgrees(r)'
    BY DEF Fits, SenderAgrees, Position, TypeOK, Request, senderVars, planVars, netVars, Reading
  <2>5. EndFollows(r)'
    BY DEF Fits, EndFollows, LinkOf, InPlace, SenderAgrees, Position, Appended, InFlight,
           TypeOK, Files, Size, Request, senderVars, planVars, netVars, Receiving, Reading
  <2>6. DoneHasAll(r)'
    BY DEF Fits, DoneHasAll, Appended, TypeOK, Request, senderVars, planVars, dialVars
  <2> QED
    BY <2>1, <2>2, <2>3, <2>4, <2>5, <2>6 DEF Fits
<1> QED
  BY <1>1, <1>2, <1>3

(* Opening the destination fixes where the payload will begin.             *)
LEMMA OpenKeeps ==
    ASSUME IInv, NEW r \in Receivers, Open(r)
    PROVE  IInv'
<1> USE DEF IInv
<1>1. TypeOK'
  <2>1. <<>> \in Files
    BY EmptySeq DEF Files
  <2> QED
    BY <2>1 DEF TypeOK, Open, senderVars, planVars, netVars, dialVars, Ended, Receiving
<1>2. ASSUME NEW q \in Receivers, q # r PROVE Fits(q)'
  BY <1>2, Same DEF TypeOK, Open, senderVars, planVars, netVars, dialVars
<1>3. Fits(r)'
  <2>1. LinkOf(r)'
    BY DEF Fits, LinkOf, TypeOK, Open, senderVars, netVars, Receiving
  <2>2. PlanOf(r)'
    BY DEF Fits, PlanOf, TypeOK, Open, planVars, Dialling
  <2>3. InPlace(r)'
    <3>1. offset[r] \in Nat /\ Len(file'[r]) = offset[r]
      BY EmptySeq DEF TypeOK, Open, planVars, Fits, PlanOf
    <3>2. Appended(r)'
      BY <3>1 DEF Appended, Open, planVars
    <3>3. Position(r)' = Position(r)
      BY <3>1 DEF Position, Open, planVars, TypeOK, Ended, Receiving, Dialling
    <3> QED
      BY <3>2, <3>3 DEF TypeOK, Open, planVars, netVars, Fits, InPlace, InFlight, Reading
  <2>4. SenderAgrees(r)'
    BY PayloadAssumption
       DEF Fits, InPlace, SenderAgrees, EndFollows, DoneHasAll, LinkOf, PlanOf, Appended,
           InFlight, Position, TypeOK, Files, Size, Open, senderVars, planVars, netVars,
           dialVars, Dialling, Receiving, Reading
  <2>5. EndFollows(r)'
    BY PayloadAssumption
       DEF Fits, InPlace, SenderAgrees, EndFollows, DoneHasAll, LinkOf, PlanOf, Appended,
           InFlight, Position, TypeOK, Files, Size, Open, senderVars, planVars, netVars,
           dialVars, Dialling, Receiving, Reading
  <2>6. DoneHasAll(r)'
    BY DEF Fits, DoneHasAll, Appended, TypeOK, Open, senderVars, planVars, dialVars
  <2> QED
    BY <2>1, <2>2, <2>3, <2>4, <2>5, <2>6 DEF Fits
<1> QED
  BY <1>1, <1>2, <1>3

(* One block moves from the wire to the end of the file.                   *)
LEMMA CopyKeeps ==
    ASSUME IInv, NEW r \in Receivers, Copy(r)
    PROVE  IInv'
<1> USE DEF IInv
<1>1. TypeOK'
  BY DEF TypeOK, Files, Copy, senderVars, planVars, dialVars
<1>2. ASSUME NEW q \in Receivers, q # r PROVE Fits(q)'
  BY <1>2, Same DEF TypeOK, Copy, senderVars, planVars, dialVars
<1>3. Fits(r)'
  <2>1. LinkOf(r)'
    BY DEF Fits, LinkOf, TypeOK, Copy, senderVars, Receiving
  <2>2. PlanOf(r)'
    BY DEF Fits, PlanOf, TypeOK, Copy, planVars, Dialling
  <2> DEFINE n == Len(file[r])
             m == Len(wire[r])
  <2>3. /\ m \in Nat /\ m > 0 /\ n \in Nat /\ offset[r] \in Nat /\ Size \in Nat
        /\ Len(file'[r]) = n + 1 /\ file'[r][n + 1] = wire[r][1]
        /\ \A i \in 1..n : file'[r][i] = file[r][i]
        /\ Len(wire'[r]) = m - 1
        /\ \A i \in 1..m - 1 : wire'[r][i] = wire[r][i + 1]
        /\ Position(r) = n /\ Position(r)' = Len(file'[r])
        /\ run' = run /\ offset' = offset /\ run[r] = "copying"
    <3>1. /\ file[r] \in Seq(STRING) /\ wire[r] \in Seq(STRING) /\ wire[r] # <<>>
          /\ offset[r] \in Nat /\ Size \in Nat
      BY PayloadAssumption, LenProperties DEF TypeOK, Files, Copy, Size
    <3>2. /\ file'[r] = Append(file[r], wire[r][1]) /\ wire'[r] = Tail(wire[r])
          /\ run' = run /\ offset' = offset /\ run[r] = "copying"
      BY <3>1 DEF TypeOK, Copy, planVars
    <3>3. m \in Nat /\ m > 0 /\ n \in Nat /\ wire[r][1] \in STRING
      <4>1. m \in Nat /\ m # 0 /\ n \in Nat
        BY <3>1, EmptySeq, LenProperties
      <4> QED
        BY <3>1, <4>1, ElementOfSeq
    <3>4. /\ Len(file'[r]) = n + 1 /\ file'[r][n + 1] = wire[r][1]
          /\ \A i \in 1..n : file'[r][i] = file[r][i]
      BY <3>1, <3>2, <3>3, AppendProperties
    <3>5. /\ Len(wire'[r]) = m - 1
          /\ \A i \in 1..m - 1 : wire'[r][i] = wire[r][i + 1]
      BY <3>1, <3>2, HeadTailProperties
    <3>6. Position(r) = n /\ Position(r)' = Len(file'[r])
      BY <3>2 DEF Position
    <3> QED
      BY <3>1, <3>2, <3>3, <3>4, <3>5, <3>6
  <2>4. InPlace(r)'
    <3>1. /\ Appended(r)
          /\ \A i \in 1..m : n + i <= Size /\ wire[r][i] = Payload[n + i]
      BY <2>3 DEF Fits, InPlace, InFlight, Reading
    <3>2. Appended(r)'
      <4>1. n + 1 <= Size /\ wire[r][1] = Payload[n + 1]
        BY <2>3, <3>1
      <4> HIDE DEF n, m
      <4>2. \A i \in offset[r] + 1..n + 1 : i \in 1..n \/ i = n + 1
        BY <2>3
      <4>3. ASSUME NEW i \in offset[r] + 1..n + 1 PROVE i <= Size /\ file'[r][i] = Payload[i]
        <5>1. CASE i = n + 1
          BY <2>3, <4>1, <5>1
        <5>2. CASE i \in 1..n
          BY <2>3, <3>1, <4>3, <5>2 DEF Appended, n
        <5> QED
          BY <4>2, <4>3, <5>1, <5>2
      <4>4. offset[r] <= n + 1
        BY <2>3, <3>1 DEF Appended, n
      <4> QED
        BY <2>3, <4>3, <4>4 DEF Appended, Size
    <3>3. InFlight(r)'
      <4> HIDE DEF n, m
      <4>1. ASSUME NEW i \in 1..m - 1
            PROVE  n + 1 + i <= Size /\ wire'[r][i] = Payload[n + 1 + i]
        <5>1. i + 1 \in 1..m /\ n + (i + 1) = n + 1 + i
          BY <2>3, <4>1
        <5> QED
          BY <2>3, <3>1, <4>1, <5>1
      <4> QED
        BY <2>3, <4>1 DEF InFlight, Size
    <3> QED
      BY <2>3, <3>2, <3>3 DEF InPlace
  <2>7. SenderAgrees(r)'
    <3>1. r \in up' => r \in up /\ sender' = sender /\ sent' = sent
      BY DEF Copy, senderVars, planVars
    <3>2. /\ r \in up => sender # "accepted"
          /\ r \in up /\ sender \in {"streaming", "closing"} => sent = n + m
      <4>1. r \in up /\ sender = "accepted" => wire[r] = <<>>
        BY DEF Fits, SenderAgrees
      <4> QED
        BY <2>3, <4>1 DEF Fits, SenderAgrees, Copy
    <3> HIDE DEF n, m
    <3>3. n + m = n + 1 + (m - 1)
      BY <2>3
    <3> QED
      BY <2>3, <3>1, <3>2, <3>3 DEF SenderAgrees, Reading
  <2>5. EndFollows(r)'
    BY DEF Fits, EndFollows, Position, TypeOK, Copy, senderVars, planVars, Reading
  <2>6. DoneHasAll(r)'
    BY DEF Fits, DoneHasAll, Appended, TypeOK, Copy, senderVars, planVars, dialVars
  <2> QED
    BY <2>1, <2>2, <2>4, <2>5, <2>6, <2>7 DEF Fits
<1> QED
  BY <1>1, <1>2, <1>3

(* The end of the stream, behind the last block.                           *)
LEMMA CompleteKeeps ==
    ASSUME IInv, NEW r \in Receivers, Complete(r)
    PROVE  IInv'
<1> USE DEF IInv
<1>1. TypeOK'
  BY DEF TypeOK, Files, Complete, Finishes, senderVars, dialVars, Ended, Receiving, Dialling
<1>2. ASSUME NEW q \in Receivers, q # r PROVE Fits(q)'
  BY <1>2, Same DEF TypeOK, Complete, Finishes, senderVars, dialVars
<1>3. Fits(r)'
  <2>1. LinkOf(r)'
    BY DEF Fits, LinkOf, TypeOK, Complete, Finishes, senderVars, Receiving
  <2>2. PlanOf(r)'
    BY DEF Fits, PlanOf, TypeOK, Complete, Finishes, Dialling
  <2>3. InPlace(r)'
    BY DEF Fits, InPlace, Appended, InFlight, Position, TypeOK, Complete, Finishes, Reading
  <2>4. SenderAgrees(r)'
    BY DEF Fits, SenderAgrees, Position, TypeOK, Complete, Finishes, senderVars, Reading
  <2>5. EndFollows(r)'
    BY DEF Fits, EndFollows, Position, TypeOK, Complete, Finishes, senderVars, Reading
  <2>6. DoneHasAll(r)'
    BY DEF Fits, DoneHasAll, InPlace, EndFollows, LinkOf, Appended, InFlight, Position, TypeOK,
           Files, Size, Complete, Finishes, senderVars, dialVars, Receiving, Reading
  <2> QED
    BY <2>1, <2>2, <2>3, <2>4, <2>5, <2>6 DEF Fits
<1> QED
  BY <1>1, <1>2, <1>3

LEMMA CompleteUnflushedKeeps ==
    ASSUME IInv, NEW r \in Receivers, CompleteUnflushed(r)
    PROVE  IInv'
<1> USE DEF IInv
<1>1. TypeOK'
  <2>1. Front(file[r]) \in Files
    BY DEF TypeOK, Files, CompleteUnflushed, Front
  <2> QED
    BY <2>1, BoundsAssumption
       DEF TypeOK, CompleteUnflushed, Finishes, senderVars, planVars, netVars, dialVars, Ended,
           Receiving
<1>2. ASSUME NEW q \in Receivers, q # r PROVE Fits(q)'
  BY <1>2, Same DEF TypeOK, CompleteUnflushed, Finishes, senderVars
<1>3. Fits(r)'
  <2>1. LinkOf(r)'
    BY DEF Fits, LinkOf, TypeOK, CompleteUnflushed, Finishes, senderVars, Receiving
  <2>2. PlanOf(r)'
    BY DEF Fits, PlanOf, TypeOK, CompleteUnflushed, Finishes, Dialling
  <2>3. InPlace(r)'
    BY DEF Fits, InPlace, Appended, InFlight, Position, TypeOK, CompleteUnflushed, Finishes,
           Reading
  <2>4. SenderAgrees(r)'
    BY DEF Fits, SenderAgrees, Position, TypeOK, CompleteUnflushed, Finishes, senderVars,
           Reading
  <2>5. EndFollows(r)'
    BY DEF Fits, EndFollows, Position, TypeOK, CompleteUnflushed, Finishes, senderVars, Reading
  <2>6. DoneHasAll(r)'
    BY DEF Fits, DoneHasAll, InPlace, EndFollows, LinkOf, Appended, InFlight, Position, TypeOK,
           Files, Size, CompleteUnflushed, Finishes, senderVars, Receiving, Reading
  <2> QED
    BY <2>1, <2>2, <2>3, <2>4, <2>5, <2>6 DEF Fits
<1> QED
  BY <1>1, <1>2, <1>3

(* Failures of the run and of the connection.                              *)
LEMMA RecvFailsKeeps ==
    ASSUME IInv, NEW r \in Receivers, RecvFails(r)
    PROVE  IInv'
<1> USE DEF IInv
<1>1. TypeOK'
  BY DEF TypeOK, Files, RecvFails, Fails, senderVars, netVars, dialVars, Ended, Receiving,
         Dialling
<1>2. ASSUME NEW q \in Receivers, q # r PROVE Fits(q)'
  BY <1>2, Same DEF TypeOK, RecvFails, Fails, senderVars, netVars, dialVars
<1>3. Fits(r)'
  <2>1. LinkOf(r)'
    BY DEF Fits, LinkOf, TypeOK, RecvFails, Fails, senderVars, netVars, Receiving
  <2>2. PlanOf(r)'
    BY DEF Fits, PlanOf, TypeOK, RecvFails, Fails, Dialling, Receiving
  <2>3. InPlace(r)'
    BY DEF Fits, InPlace, Appended, InFlight, Position, TypeOK, RecvFails, Fails, netVars,
           Receiving, Reading
  <2>4. SenderAgrees(r)'
    BY DEF Fits, SenderAgrees, Position, TypeOK, RecvFails, Fails, senderVars, netVars,
           Receiving, Reading
  <2>5. EndFollows(r)'
    BY DEF Fits, EndFollows, Position, TypeOK, RecvFails, Fails, senderVars, netVars, Receiving,
           Reading
  <2>6. DoneHasAll(r)'
    BY DEF Fits, DoneHasAll, Appended, TypeOK, RecvFails, Fails, senderVars, dialVars, Receiving
  <2> QED
    BY <2>1, <2>2, <2>3, <2>4, <2>5, <2>6 DEF Fits
<1> QED
  BY <1>1, <1>2, <1>3

LEMMA KilledKeeps ==
    ASSUME IInv, NEW r \in Receivers, Killed(r)
    PROVE  IInv'
<1> USE DEF IInv
<1>1. TypeOK'
  BY EmptySeq DEF TypeOK, Files, Killed, Fails, senderVars, dialVars, Ended, Receiving, Dialling
<1>2. ASSUME NEW q \in Receivers, q # r PROVE Fits(q)'
  BY <1>2, Same DEF TypeOK, Killed, Fails, senderVars, dialVars
<1>3. Fits(r)'
  <2>1. LinkOf(r)'
    BY DEF Fits, LinkOf, TypeOK, Killed, Fails, senderVars, Dialling, Receiving
  <2>2. PlanOf(r)'
    BY DEF Fits, PlanOf, TypeOK, Killed, Fails, Dialling, Receiving
  <2>3. InPlace(r)'
    BY DEF Fits, InPlace, Appended, InFlight, Position, TypeOK, Killed, Fails, Dialling,
           Receiving, Reading
  <2>4. SenderAgrees(r)'
    BY DEF Fits, SenderAgrees, Position, TypeOK, Killed, Fails, senderVars, Dialling, Receiving,
           Reading
  <2>5. EndFollows(r)'
    BY DEF Fits, EndFollows, Position, TypeOK, Killed, Fails, senderVars, Dialling, Receiving,
           Reading
  <2>6. DoneHasAll(r)'
    BY DEF Fits, DoneHasAll, Appended, TypeOK, Killed, Fails, senderVars, dialVars, Dialling,
           Receiving
  <2> QED
    BY <2>1, <2>2, <2>3, <2>4, <2>5, <2>6 DEF Fits
<1> QED
  BY <1>1, <1>2, <1>3

LEMMA ConnectionLostKeeps ==
    ASSUME IInv, NEW r \in Receivers, ConnectionLost(r)
    PROVE  IInv'
<1> USE DEF IInv
<1>1. TypeOK'
  BY DEF TypeOK, Files, ConnectionLost, senderVars, planVars, dialVars
<1>2. ASSUME NEW q \in Receivers, q # r PROVE Fits(q)'
  BY <1>2, Same DEF TypeOK, ConnectionLost, senderVars, planVars, dialVars
<1>3. Fits(r)'
  <2>1. LinkOf(r)'
    BY DEF Fits, LinkOf, TypeOK, ConnectionLost, senderVars, Receiving
  <2>2. PlanOf(r)'
    BY DEF Fits, PlanOf, TypeOK, ConnectionLost, planVars, Dialling
  <2>3. InPlace(r)'
    <3>1. PICK n \in 0..Len(wire[r]) :
             /\ wire'[r] = SubSeq(wire[r], 1, n)
             /\ fin'[r] => fin[r]
      BY DEF ConnectionLost, TypeOK
    <3>2. wire[r] \in Seq(STRING) /\ Len(wire[r]) \in Nat
      BY LenProperties DEF TypeOK, Files
    <3>3. /\ wire'[r] \in Seq(STRING) /\ Len(wire'[r]) = n
          /\ \A i \in 1..n : wire'[r][i] = wire[r][i]
      BY <3>1, <3>2, SubSeqProperties
    <3>4. wire[r] = <<>> => wire'[r] = <<>>
      BY <3>1, <3>2, <3>3, EmptySeq
    <3>5. run' = run /\ file' = file /\ offset' = offset /\ Position(r)' = Position(r)
      BY DEF ConnectionLost, planVars, Position
    <3>6. run[r] \in Reading => InFlight(r)'
      BY <3>2, <3>3, <3>5 DEF Fits, InPlace, InFlight, Size
    <3> QED
      BY <3>1, <3>4, <3>5, <3>6 DEF Fits, InPlace, Appended, Size
  <2>4. SenderAgrees(r)'
    BY DEF Fits, SenderAgrees, Position, TypeOK, ConnectionLost, senderVars, planVars, Reading
  <2>5. EndFollows(r)'
    <3>1. PICK n \in 0..Len(wire[r]) :
             /\ wire' = [wire EXCEPT ![r] = SubSeq(@, 1, n)]
             /\ fin' = [fin EXCEPT ![r] = @ /\ n = Len(wire[r])]
      BY DEF ConnectionLost
    <3>2. fin'[r] => fin[r] /\ Len(wire'[r]) = Len(wire[r])
      BY <3>1, SubSeqFull DEF TypeOK, Files
    <3> QED
      BY <3>2 DEF Fits, EndFollows, Position, ConnectionLost, senderVars, planVars
  <2>6. DoneHasAll(r)'
    BY DEF Fits, DoneHasAll, Appended, TypeOK, ConnectionLost, senderVars, planVars, dialVars
  <2> QED
    BY <2>1, <2>2, <2>3, <2>4, <2>5, <2>6 DEF Fits
<1> QED
  BY <1>1, <1>2, <1>3

(* The sender, while it listens, has nobody's state to disturb.            *)
LEMMA AcceptKeeps ==
    ASSUME IInv, NEW r \in Receivers, Accept(r)
    PROVE  IInv'
<1> USE DEF IInv
<1>1. TypeOK'
  BY EmptySeq DEF TypeOK, Files, Accept, planVars, dialVars, Ended, Receiving, Dialling
<1>2. ASSUME NEW q \in Receivers, q # r PROVE Fits(q)'
  BY <1>2, Apart DEF TypeOK, Accept, planVars, dialVars, Fits, LinkOf
<1>3. Fits(r)'
  <2>1. LinkOf(r)'
    BY DEF Fits, LinkOf, TypeOK, Accept, Dialling, Receiving
  <2>2. PlanOf(r)'
    BY DEF Fits, PlanOf, TypeOK, Accept, planVars, Dialling
  <2>3. InPlace(r)'
    BY DEF Fits, InPlace, Appended, InFlight, Position, TypeOK, Accept, planVars, Dialling,
           Reading
  <2>4. SenderAgrees(r)'
    BY DEF Fits, SenderAgrees, Position, TypeOK, Accept, planVars, Dialling, Reading
  <2>5. EndFollows(r)'
    BY DEF Fits, EndFollows, Position, TypeOK, Accept, planVars, Dialling, Reading
  <2>6. DoneHasAll(r)'
    BY DEF Fits, DoneHasAll, Appended, TypeOK, Accept, planVars, dialVars, Dialling
  <2> QED
    BY <2>1, <2>2, <2>3, <2>4, <2>5, <2>6 DEF Fits
<1> QED
  BY <1>1, <1>2, <1>3

LEMMA AcceptStrayKeeps ==
    ASSUME IInv, NEW r \in Receivers, AcceptStray(r)
    PROVE  IInv'
<1> USE DEF IInv
<1>1. TypeOK'
  BY DEF TypeOK, Files, AcceptStray, planVars, netVars
<1>2. ASSUME NEW q \in Receivers PROVE Fits(q)'
  BY Apart DEF TypeOK, AcceptStray, planVars, netVars, Fits, LinkOf
<1> QED
  BY <1>1, <1>2

(* The sender's position is taken from the request,                        *)
LEMMA ReadRequestKeeps ==
    ASSUME IInv, ReadRequest
    PROVE  IInv'
<1> USE DEF IInv
<1>1. TypeOK'
  BY DEF TypeOK, Files, ReadRequest, planVars, netVars, dialVars
<1>2. ASSUME NEW q \in Receivers, q # peer PROVE Fits(q)'
  BY <1>2, Apart DEF TypeOK, ReadRequest, planVars, netVars, dialVars
<1>3. ASSUME NEW r \in Receivers, r = peer PROVE Fits(r)'
  <2>1. LinkOf(r)'
    BY <1>3 DEF Fits, LinkOf, TypeOK, ReadRequest, netVars, Receiving
  <2>2. PlanOf(r)'
    BY <1>3 DEF Fits, PlanOf, TypeOK, ReadRequest, planVars, Dialling
  <2>3. InPlace(r)'
    BY <1>3
       DEF Fits, InPlace, Appended, InFlight, Position, TypeOK, ReadRequest, planVars, netVars,
           Reading
  <2>4. SenderAgrees(r)'
    BY <1>3 DEF Fits, SenderAgrees, Position, TypeOK, ReadRequest, planVars, netVars, Reading
  <2>5. EndFollows(r)'
    BY <1>3 DEF Fits, EndFollows, Position, TypeOK, ReadRequest, planVars, netVars, Reading
  <2>6. DoneHasAll(r)'
    BY <1>3 DEF Fits, DoneHasAll, Appended, TypeOK, ReadRequest, planVars, dialVars
  <2> QED
    BY <2>1, <2>2, <2>3, <2>4, <2>5, <2>6 DEF Fits
<1> QED
  BY <1>1, <1>2, <1>3

(* and moves with each block it puts on the wire.                          *)
LEMMA StreamKeeps ==
    ASSUME IInv, Stream
    PROVE  IInv'
<1> USE DEF IInv
<1>1. TypeOK'
  BY PayloadAssumption DEF TypeOK, Files, Stream, planVars, dialVars, Size
<1>2. ASSUME NEW q \in Receivers, q # peer PROVE Fits(q)'
  BY <1>2, Apart DEF TypeOK, Stream, planVars, dialVars
<1>3. ASSUME NEW r \in Receivers, r = peer PROVE Fits(r)'
  <2>1. LinkOf(r)'
    BY <1>3 DEF Fits, LinkOf, TypeOK, Stream, Receiving
  <2>2. PlanOf(r)'
    BY <1>3 DEF Fits, PlanOf, TypeOK, Stream, planVars, Dialling
  <2>3. InPlace(r)'
    <3>1. run[r] \in Reading /\ sent = Position(r) + Len(wire[r])
      BY <1>3 DEF Stream, Fits, SenderAgrees
    <3>2. Payload[sent + 1] \in STRING /\ Size \in Nat
      BY ElementOfSeq, PayloadAssumption, LenProperties DEF Stream, TypeOK, Size
    <3>3. /\ Len(wire'[r]) = Len(wire[r]) + 1
          /\ wire'[r][Len(wire[r]) + 1] = Payload[sent + 1]
          /\ \A i \in 1..Len(wire[r]) : wire'[r][i] = wire[r][i]
      BY <1>3, <3>2, AppendProperties DEF Stream, TypeOK, Files
    <3>4. Position(r)' = Position(r) /\ Position(r) \in Nat /\ Len(wire[r]) \in Nat
      BY LenProperties DEF Position, Stream, planVars, TypeOK, Files
    <3>5. InFlight(r)'
      <4> SUFFICES ASSUME NEW i \in 1..Len(wire[r]) + 1
                   PROVE  Position(r) + i <= Size /\ wire'[r][i] = Payload[Position(r) + i]
        BY <3>3, <3>4 DEF InFlight, Size
      <4>1. CASE i \in 1..Len(wire[r])
        BY <4>1, <3>1, <3>3, <3>4 DEF Fits, InPlace, InFlight
      <4>2. CASE i = Len(wire[r]) + 1
        <5>1. sent \in Nat /\ sent < Size
          BY DEF Stream, TypeOK
        <5>2. sent + 1 <= Size /\ Position(r) + i = sent + 1
          BY <3>1, <3>2, <3>4, <4>2, <5>1
        <5> QED
          BY <3>3, <4>2, <5>2
      <4> QED
        BY <4>1, <4>2, <3>4
    <3> QED
      BY <3>1, <3>5 DEF Fits, InPlace, Appended, Stream, planVars, Reading
  <2>4. SenderAgrees(r)'
    <3>1. Payload[sent + 1] \in STRING
      BY ElementOfSeq, PayloadAssumption DEF Stream, TypeOK, Size
    <3>2. Len(wire'[r]) = Len(wire[r]) + 1
      BY <1>3, <3>1, AppendProperties DEF Stream, TypeOK, Files
    <3>3. Len(wire[r]) \in Nat /\ Position(r) \in Nat /\ Position(r)' = Position(r)
      BY LenProperties DEF Position, Stream, planVars, TypeOK, Files
    <3> QED
      BY <1>3, <3>2, <3>3 DEF Fits, SenderAgrees, Stream
  <2>5. EndFollows(r)'
    BY <1>3 DEF Fits, EndFollows, Position, TypeOK, Stream, planVars, Reading
  <2>6. DoneHasAll(r)'
    BY <1>3 DEF Fits, DoneHasAll, Appended, TypeOK, Stream, planVars, dialVars
  <2> QED
    BY <2>1, <2>2, <2>3, <2>4, <2>5, <2>6 DEF Fits
<1> QED
  BY <1>1, <1>2, <1>3

(* At the end of the source.                                               *)
LEMMA FinishPayloadKeeps ==
    ASSUME IInv, FinishPayload
    PROVE  IInv'
<1> USE DEF IInv
<1>1. TypeOK'
  BY DEF TypeOK, Files, FinishPayload, planVars, dialVars, Size
<1>2. ASSUME NEW q \in Receivers, q # peer PROVE Fits(q)'
  BY <1>2, Apart DEF TypeOK, FinishPayload, planVars, dialVars
<1>3. ASSUME NEW r \in Receivers, r = peer PROVE Fits(r)'
  <2>1. LinkOf(r)'
    BY <1>3 DEF Fits, LinkOf, TypeOK, FinishPayload, Receiving
  <2>2. PlanOf(r)'
    BY <1>3 DEF Fits, PlanOf, TypeOK, FinishPayload, planVars, Dialling
  <2>3. InPlace(r)'
    <3>1. run[r] \in Reading
      BY <1>3 DEF Fits, SenderAgrees, FinishPayload
    <3> QED
      BY <3>1 DEF Fits, InPlace, Appended, InFlight, Position, FinishPayload, planVars, Reading
  <2>4. SenderAgrees(r)'
    BY <1>3 DEF Fits, SenderAgrees, Position, TypeOK, FinishPayload, planVars, Reading
  <2>5. EndFollows(r)'
    BY <1>3
       DEF Fits, EndFollows, LinkOf, InPlace, SenderAgrees, Position, Appended, InFlight,
           TypeOK, Files, Size, FinishPayload, planVars, Receiving, Reading
  <2>6. DoneHasAll(r)'
    BY <1>3 DEF Fits, DoneHasAll, Appended, TypeOK, FinishPayload, planVars, dialVars
  <2> QED
    BY <2>1, <2>2, <2>3, <2>4, <2>5, <2>6 DEF Fits
<1> QED
  BY <1>1, <1>2, <1>3

(* Back to accept(), out of the loop, or interrupted.                      *)
LEMMA ServeFailsKeeps ==
    ASSUME IInv, ServeFails
    PROVE  IInv'
<1> USE DEF IInv
<1>1. TypeOK'
  BY DEF TypeOK, Files, ServeFails, planVars, netVars, dialVars
<1>2. ASSUME NEW q \in Receivers PROVE Fits(q)'
  BY Apart DEF TypeOK, ServeFails, planVars, netVars, dialVars, Fits, LinkOf
<1> QED
  BY <1>1, <1>2

LEMMA ServeEndsKeeps ==
    ASSUME IInv, ServeEnds
    PROVE  IInv'
<1> USE DEF IInv
<1>1. TypeOK'
  BY DEF TypeOK, Files, ServeEnds, planVars, netVars, dialVars
<1>2. ASSUME NEW q \in Receivers, q # peer PROVE Fits(q)'
  BY <1>2, Apart DEF TypeOK, ServeEnds, planVars, netVars, dialVars
<1>3. ASSUME NEW r \in Receivers, r = peer PROVE Fits(r)'
  <2>1. LinkOf(r)'
    BY <1>3 DEF Fits, LinkOf, TypeOK, ServeEnds, netVars, Receiving
  <2>2. PlanOf(r)'
    BY <1>3 DEF Fits, PlanOf, TypeOK, ServeEnds, planVars, Dialling
  <2>3. InPlace(r)'
    BY DEF Fits, InPlace, Appended, InFlight, Position, ServeEnds, planVars, netVars
  <2>4. SenderAgrees(r)'
    BY <1>3 DEF Fits, SenderAgrees, Position, TypeOK, ServeEnds, planVars, netVars, Reading
  <2>5. EndFollows(r)'
    BY <1>3 DEF Fits, EndFollows, Position, TypeOK, ServeEnds, planVars, netVars, Reading
  <2>6. DoneHasAll(r)'
    BY <1>3 DEF Fits, DoneHasAll, Appended, TypeOK, ServeEnds, planVars, dialVars
  <2> QED
    BY <2>1, <2>2, <2>3, <2>4, <2>5, <2>6 DEF Fits
<1> QED
  BY <1>1, <1>2, <1>3

LEMMA InterruptKeeps ==
    ASSUME IInv, Interrupt
    PROVE  IInv'
<1> USE DEF IInv
<1>1. TypeOK'
  BY DEF TypeOK, Files, Interrupt, planVars, netVars, dialVars
<1>2. ASSUME NEW q \in Receivers PROVE Fits(q)'
  BY Apart DEF TypeOK, Interrupt, planVars, netVars, dialVars, Fits, LinkOf
<1> QED
  BY <1>1, <1>2

-----------------------------------------------------------------------------

(* The three facts about IInv.                                             *)
LEMMA Initially == Init => IInv
<1> SUFFICES ASSUME Init PROVE IInv
  OBVIOUS
<1>1. file \in [Receivers -> Files]
  BY FilesAssumption DEF Init, Files
<1>2. TypeOK
  BY <1>1, BoundsAssumption, EmptySeq
     DEF Init, TypeOK, Files, Ended, Receiving, Dialling, Nobody
<1>3. ASSUME NEW r \in Receivers PROVE Fits(r)
  BY <1>3 DEF Init, Fits, LinkOf, PlanOf, InPlace, SenderAgrees, EndFollows, DoneHasAll,
              Reading, Dialling
<1> QED
  BY <1>2, <1>3 DEF IInv

LEMMA NextKeeps == IInv /\ [Next]_vars => IInv'
<1> SUFFICES ASSUME IInv, [Next]_vars PROVE IInv'
  OBVIOUS
<1>1. CASE Next
  BY <1>1, RecvKeeps, BindFailsKeeps, FallsBackKeeps, DialFailsKeeps, RequestKeeps, OpenKeeps,
     CopyKeeps, CompleteKeeps, CompleteUnflushedKeeps, RecvFailsKeeps, KilledKeeps,
     ConnectionLostKeeps, AcceptKeeps, AcceptStrayKeeps, ReadRequestKeeps, StreamKeeps,
     FinishPayloadKeeps, ServeFailsKeeps, ServeEndsKeeps, InterruptKeeps
     DEF Next, RecvStep, SendStep
<1>2. CASE UNCHANGED vars
  <2>1. TypeOK'
    BY <1>2 DEF IInv, TypeOK, vars, senderVars, planVars, netVars, dialVars
  <2>2. ASSUME NEW r \in Receivers PROVE Fits(r)'
    BY <1>2, Same DEF IInv, vars, planVars, netVars, dialVars
  <2> QED
    BY <2>1, <2>2 DEF IInv
<1> QED
  BY <1>1, <1>2

(* What is written, in flight and still to be read of the source fit       *)
(* together in every reachable state: serve_once and write_to_file share   *)
(* no state but the offset in the request.                                 *)
THEOREM Invariance == Spec => []IInv
BY Initially, NextKeeps, PTL DEF Spec

(* Element by element, the file of a run that is done is what it kept and  *)
(* then the payload.                                                       *)
LEMMA FilesAreWhole == IInv => CompletesFromOffset
<1> SUFFICES ASSUME IInv, NEW r \in Receivers, run[r] = "done", r \notin unflushed
             PROVE  /\ Len(file[r]) >= offset[r]
                    /\ file[r] = SubSeq(file[r], 1, offset[r])
                                    \o SubSeq(Payload, offset[r] + 1, Size)
  BY DEF CompletesFromOffset
<1> DEFINE f == file[r]
           o == offset[r]
           kept == SubSeq(f, 1, o)
           rest == SubSeq(Payload, o + 1, Size)
           both == kept \o rest
<1>1. /\ f \in Seq(STRING) /\ o \in Nat /\ Len(f) \in Nat /\ Size \in Nat
      /\ Payload \in Seq(STRING)
  BY PayloadAssumption, LenProperties DEF IInv, TypeOK, Files, Size
<1>2. /\ o <= Len(f)
      /\ Len(f) >= Size
      /\ \A i \in o + 1..Len(f) : i <= Size /\ f[i] = Payload[i]
  BY DEF IInv, Fits, DoneHasAll, Appended
<1>3. Len(f) > o => Len(f) = Size
  BY <1>1, <1>2
<1>4. /\ kept \in Seq(STRING)
      /\ Len(kept) = o
      /\ \A i \in 1..o : kept[i] = f[i]
  <2>1. \A i \in 1..o : f[i] \in STRING
    BY <1>1, <1>2, ElementOfSeq
  <2> HIDE DEF f, o
  <2> QED
    BY <1>1, <2>1, SubSeqProperties
<1>5. /\ rest \in Seq(STRING)
      /\ Len(rest) = IF o < Size THEN Size - o ELSE 0
      /\ \A i \in 1..Size - o : rest[i] = Payload[o + i]
  <2>1. \A i \in o + 1..Size : Payload[i] \in STRING
    BY <1>1, ElementOfSeq DEF Size
  <2> HIDE DEF o
  <2> QED
    BY <1>1, <2>1, SubSeqProperties
<1> HIDE DEF f, o, kept, rest
<1>6. /\ both \in Seq(STRING)
      /\ Len(both) = Len(kept) + Len(rest)
      /\ \A i \in 1..Len(kept) + Len(rest) :
            both[i] = IF i <= Len(kept) THEN kept[i] ELSE rest[i - Len(kept)]
  BY <1>4, <1>5, ConcatProperties DEF both
<1> HIDE DEF both
<1>7. Len(kept) + Len(rest) = Len(f)
  BY <1>1, <1>2, <1>3, <1>4, <1>5
<1>8. ASSUME NEW i \in 1..Len(f) PROVE both[i] = f[i]
  <2>1. CASE i <= o
    BY <2>1, <1>1, <1>4, <1>6, <1>7
  <2>2. CASE i > o
    <3>1. i \in o + 1..Len(f)
      BY <2>2, <1>1
    <3>2. i <= Size /\ f[i] = Payload[i]
      BY <3>1, <1>2
    <3>3. i - o \in 1..Size - o /\ o + (i - o) = i
      <4>1. i \in Int /\ o \in Int /\ Size \in Int /\ o < i /\ i <= Size
        BY <2>2, <3>2, <1>1
      <4> QED
        BY <4>1
    <3>4. both[i] = rest[i - o]
      <4>1. i \in 1..Len(kept) + Len(rest) /\ ~(i <= Len(kept)) /\ Len(kept) = o
        BY <2>2, <1>1, <1>4, <1>7
      <4> QED
        BY <4>1, <1>6
    <3> QED
      BY <3>2, <3>3, <3>4, <1>5
  <2> QED
    BY <2>1, <2>2, <1>1
<1>9. f = both
  BY <1>1, <1>6, <1>7, <1>8, SeqEqual
<1> QED
  BY <1>2, <1>9 DEF f, o, kept, rest, both

(* Whatever was lost, killed and retried before: write_to_file's append    *)
(* leaves, behind the bytes the receiver chose to keep, all of the payload *)
(* that follows the offset (p2p.rs:24).                                    *)
THEOREM FilesOnlyDifferInKept == Spec => []OnlyKeptBytesDiffer
<1>1. IInv => OnlyKeptBytesDiffer
  BY FilesAreWhole DEF OnlyKeptBytesDiffer, IInv
<1> QED
  BY <1>1, Invariance, PTL

(* A receiver that completed is the one serve_once serves to the end and   *)
(* leaves its loop for.                                                    *)
THEOREM ReceivedIsServed == Spec => []ExitsAfterSuccess
<1>1. IInv => ExitsAfterSuccess
  BY DEF ExitsAfterSuccess, IInv, Fits, DoneHasAll
<1> QED
  BY <1>1, Invariance, PTL

(* Prefixes.                                                               *)
LEMMA PrefixOfItself == ASSUME NEW s, Len(s) \in Nat PROVE IsPrefix(s, s)
BY DEF IsPrefix

LEMMA PrefixOfAppended ==
    ASSUME NEW S, NEW s \in Seq(S), NEW e \in S
    PROVE  IsPrefix(s, Append(s, e))
<1> DEFINE n == Len(s)
           t == Append(s, e)
<1>1. /\ n \in Nat
      /\ t \in Seq(S)
      /\ Len(t) = n + 1
      /\ \A i \in 1..n : t[i] = s[i] /\ s[i] \in S
  BY AppendProperties, LenProperties, ElementOfSeq
<1> HIDE DEF n, t
<1>2. /\ SubSeq(t, 1, n) \in Seq(S)
      /\ Len(SubSeq(t, 1, n)) = n
      /\ \A i \in 1..n : SubSeq(t, 1, n)[i] = s[i]
  BY <1>1, SubSeqProperties
<1>3. SubSeq(t, 1, n) = s
  BY <1>1, <1>2, SeqEqual DEF n
<1> QED
  BY <1>1, <1>3, SubSeqFull DEF IsPrefix, n, t

(* Only Copy changes a file that is a prefix of the payload under a run    *)
(* without --overwrite and --stdout: Open has planned to append to it      *)
(* unless it is empty.                                                     *)
LEMMA StepKeepsProgress ==
    ASSUME IInv, [Next]_vars, NEW q \in Receivers,
           {mode[q], mode'[q]} \cap {"overwrite", "stdout"} = {},
           IsPrefix(file[q], Payload)
    PROVE  IsPrefix(file[q], file'[q])
<1> USE DEF IInv
<1>1. mode[q] \in {"auto", "resume"} /\ mode'[q] # "stdout"
  BY ModesAssumption DEF TypeOK
<1>2. SUFFICES ASSUME file'[q] # file[q]
               PROVE  IsPrefix(file[q], file'[q])
  BY PrefixOfItself, LenProperties DEF TypeOK, Files
<1>3. ASSUME NEW r \in Receivers, NEW m \in Modes, Recv(r, m) \/ BindFails(r, m)
      PROVE  FALSE
  BY <1>1, <1>2, <1>3 DEF Recv, BindFails, Emptied, TypeOK
<1>4. ASSUME NEW r \in Receivers, CompleteUnflushed(r)
      PROVE  FALSE
  BY <1>1, <1>2, <1>4 DEF CompleteUnflushed, TypeOK
<1>5. ASSUME NEW r \in Receivers, Open(r)
      PROVE  FALSE
  BY <1>1, <1>2, <1>5 DEF Open, TypeOK, Fits, PlanOf
<1>6. ASSUME NEW r \in Receivers, Copy(r)
      PROVE  IsPrefix(file[q], file'[q])
  BY <1>2, <1>6, PrefixOfAppended, HeadTailProperties DEF Copy, TypeOK, Files
<1>7. ASSUME UNCHANGED file PROVE FALSE
  BY <1>2, <1>7
<1> QED
  BY <1>3, <1>4, <1>5, <1>6, <1>7
     DEF Next, RecvStep, SendStep, FallsBack, DialFails, Request, Complete, RecvFails, Killed,
         ConnectionLost, Accept, AcceptStray, ReadRequest, Stream, FinishPayload, ServeFails,
         ServeEnds, Interrupt, vars

(* No later run, dial that is given up or failure takes back a block of    *)
(* the payload that reached the file (plan_file_receive, write_to_file).   *)
THEOREM ProgressIsSafe == Spec => ProgressIsKept
<1>1. ASSUME IInv, [Next]_vars
      PROVE  [\A r \in Receivers :
                {mode[r], mode'[r]} \cap {"overwrite", "stdout"} = {} /\ IsPrefix(file[r], Payload) =>
                    IsPrefix(file[r], file'[r])]_vars
  BY <1>1, StepKeepsProgress
<1> QED
  BY <1>1, Invariance, PTL DEF Spec, ProgressIsKept
=============================================================================
