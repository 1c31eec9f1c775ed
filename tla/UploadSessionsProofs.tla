------------------------ MODULE UploadSessionsProofs ------------------------
(***************************************************************************)
(* Proofs about UploadSessions, for all tabs, files and bounds.  The       *)
(* inductive invariant says that an id stands for one file, wherever it is *)
(* kept: in a tab, in localStorage, in a PATCH or as a temporary file.     *)
(***************************************************************************)
EXTENDS UploadSessions, SequenceTheorems, TLAPS

(* The types, in three parts.                                              *)
ServerTypes ==
    /\ phase \in {"serving", "closing", "stopped"}
    /\ created \in 0..MaxIds
    /\ live \subseteq 1..created
    /\ held \subseteq 1..created
    /\ stale \subseteq live
    /\ committed \subseteq Files
    /\ posting \subseteq Files

DiskTypes ==
    /\ offset \in [live \cup held -> 0..Chunks]
    /\ body \in [held -> Files \X (1..Chunks)]
    /\ \A s \in DOMAIN temp : temp[s] \in Content

ScriptTypes ==
    /\ pc \in [Tabs -> Resting \cup Requested \cup Answered]
    /\ file \in [Tabs -> Files]
    /\ attempt \in [Tabs -> 1..2]
    /\ id \in [Tabs -> 0..MaxIds]
    /\ from \in [Tabs -> 0..Chunks]
    /\ storage \in [Files -> 0..MaxIds]
    /\ uploads \in 0..MaxUploads

(* Nobody knows an id that was not given out.                              *)
Known == /\ \A t \in Tabs : id[t] <= created
         /\ \A f \in Files : storage[f] <= created

(* What a tab waits for is what a PATCH does; and how far it has come.     *)
Waits(t) ==
    /\ pc[t] = "body" => id[t] \in held /\ body[id[t]][2] = from[t] + 1
    /\ pc[t] = "patched" => from[t] + 1 <= Chunks
    /\ pc[t] \in {"complete", "saved"} => file[t] \in committed

(* Session s was made for the file owner[s].                               *)
OwnedByTabs(owner) == \A t \in Tabs : id[t] # NoId => owner[id[t]] = file[t]
OwnedInStorage(owner) == \A f \in Files : storage[f] # NoId => owner[storage[f]] = f
OwnedBodies(owner) == \A s \in held : body[s] = <<owner[s], offset[s] + 1>>
OwnedFiles(owner) ==
    \A s \in live \cup held :
        /\ offset[s] < Chunks
        /\ Len(temp[s]) = offset[s]
        /\ \A i \in 1..offset[s] : temp[s][i] = <<owner[s], i>>

Owned(owner) == /\ OwnedByTabs(owner)
                /\ OwnedInStorage(owner)
                /\ OwnedBodies(owner)
                /\ OwnedFiles(owner)

IInv == /\ ServerTypes
        /\ DiskTypes
        /\ ScriptTypes
        /\ NoFileLeaks
        /\ Known
        /\ \A t \in Tabs : Waits(t)
        /\ TargetIsWhole
        /\ \E owner \in [1..created -> Files] : Owned(owner)
-----------------------------------------------------------------------------
(* Sessions that leave the map go with their offsets and their files:      *)
(* cleanup_expired, cleanup_all, and the end of a PATCH.                   *)
LEMMA Forgotten ==
    ASSUME ServerTypes, DiskTypes, NoFileLeaks, NEW owner, OwnedFiles(owner), NEW gone,
           offset' = Without(offset, gone), temp' = Without(temp, gone),
           live' \cup held' = (live \cup held) \ gone
    PROVE  /\ offset' \in [live' \cup held' -> 0..Chunks]
           /\ \A s \in live' \cup held' : offset'[s] = offset[s]
           /\ DOMAIN temp' = live' \cup held'
           /\ \A s \in DOMAIN temp' : temp'[s] \in Content
           /\ OwnedFiles(owner)'
<1>1. offset' \in [live' \cup held' -> 0..Chunks]
  BY DEF Without, DiskTypes
<1>2. \A s \in live' \cup held' : offset'[s] = offset[s]
  BY DEF Without, DiskTypes
<1>3. /\ DOMAIN temp' = live' \cup held'
      /\ \A s \in live' \cup held' : temp'[s] = temp[s]
  BY DEF Without, NoFileLeaks
<1>4. \A s \in DOMAIN temp' : temp'[s] \in Content
  BY <1>3 DEF DiskTypes, NoFileLeaks
<1>5. OwnedFiles(owner)'
  BY <1>2, <1>3 DEF OwnedFiles
<1> QED
  BY <1>1, <1>2, <1>3, <1>4, <1>5

(* A PATCH that ends leaves the bodies of the others.                      *)
LEMMA Released ==
    ASSUME DiskTypes, NEW s \in held, held' = held \ {s}, body' = Without(body, {s})
    PROVE  /\ body' \in [held' -> Files \X (1..Chunks)]
           /\ \A x \in held' : body'[x] = body[x]
BY DEF Without, DiskTypes

(* All of a file is a content.                                             *)
LEMMA WholeFacts ==
    ASSUME NEW f \in Files
    PROVE  /\ Whole(f) \in Content
           /\ Len(Whole(f)) = Chunks
           /\ \A i \in 1..Chunks : Whole(f)[i] = <<f, i>>
<1>1. Whole(f) \in [1..Chunks -> Files \X (1..Chunks)]
  BY DEF Whole
<1>2. Whole(f) \in Content
  BY <1>1, ChunksAssumption, SeqDef DEF Content
<1>3. Len(Whole(f)) = Chunks
  BY <1>1, <1>2, LenProperties, ChunksAssumption DEF Content
<1> QED
  BY <1>2, <1>3 DEF Whole

(* One lemma for each step: plain POSTs,                                   *)
LEMMA PostBeginsKeeps ==
    ASSUME IInv, NEW f \in Files, PostBegins(f)
    PROVE  IInv'
<1>1. PICK owner \in [1..created -> Files] : Owned(owner)
  BY DEF IInv
<1>2. ServerTypes'
  BY BoundsAssumption, ChunksAssumption DEF IInv, ServerTypes, PostBegins, mapVars, patchVars
<1>3. DiskTypes'
  BY ChunksAssumption DEF IInv, DiskTypes, Content, PostBegins, mapVars, patchVars, diskVars
<1>4. ScriptTypes'
  BY BoundsAssumption, ChunksAssumption
     DEF IInv, ScriptTypes, Resting, Requested, Answered, PostBegins, patchVars, localVars
<1>5. NoFileLeaks'
  BY DEF IInv, NoFileLeaks, PostBegins, mapVars, patchVars, diskVars
<1>6. Known'
  BY DEF IInv, Known, PostBegins, mapVars, localVars
<1>7. ASSUME NEW u \in Tabs PROVE Waits(u)'
  BY <1>7 DEF IInv, Waits, PostBegins, patchVars, localVars
<1>8. TargetIsWhole'
  BY DEF IInv, TargetIsWhole, OldTarget, PostBegins
<1>9. OwnedByTabs(owner)'
  BY <1>1 DEF Owned, OwnedByTabs, NoId, PostBegins, localVars
<1>10. OwnedInStorage(owner)'
  BY <1>1 DEF Owned, OwnedInStorage, NoId, PostBegins
<1>11. OwnedBodies(owner)'
  BY <1>1 DEF Owned, OwnedBodies, PostBegins, patchVars, diskVars
<1>12. OwnedFiles(owner)'
  BY <1>1 DEF Owned, OwnedFiles, PostBegins, mapVars, patchVars, diskVars
<1>13. created' = created
  BY DEF PostBegins, mapVars
<1> QED
  BY <1>1, <1>2, <1>3, <1>4, <1>5, <1>6, <1>7, <1>8, <1>9, <1>10, <1>11, <1>12, <1>13
     DEF IInv, Owned

LEMMA PostEndsKeeps ==
    ASSUME IInv, NEW f \in Files, PostEnds(f)
    PROVE  IInv'
<1>1. PICK owner \in [1..created -> Files] : Owned(owner)
  BY DEF IInv
<1>2. ServerTypes'
  BY BoundsAssumption, ChunksAssumption DEF IInv, ServerTypes, PostEnds, mapVars, patchVars
<1>3. DiskTypes'
  BY ChunksAssumption DEF IInv, DiskTypes, Content, PostEnds, mapVars, patchVars, diskVars
<1>4. ScriptTypes'
  BY BoundsAssumption, ChunksAssumption
     DEF IInv, ScriptTypes, Resting, Requested, Answered, PostEnds, patchVars, localVars,
         userVars
<1>5. NoFileLeaks'
  BY DEF IInv, NoFileLeaks, PostEnds, mapVars, patchVars, diskVars
<1>6. Known'
  BY DEF IInv, Known, PostEnds, mapVars, localVars, userVars
<1>7. ASSUME NEW u \in Tabs PROVE Waits(u)'
  BY <1>7 DEF IInv, Waits, PostEnds, patchVars, localVars
<1>8. TargetIsWhole'
  BY DEF IInv, TargetIsWhole, OldTarget, PostEnds
<1>9. OwnedByTabs(owner)'
  BY <1>1 DEF Owned, OwnedByTabs, NoId, PostEnds, localVars
<1>10. OwnedInStorage(owner)'
  BY <1>1 DEF Owned, OwnedInStorage, NoId, PostEnds, userVars
<1>11. OwnedBodies(owner)'
  BY <1>1 DEF Owned, OwnedBodies, PostEnds, patchVars, diskVars
<1>12. OwnedFiles(owner)'
  BY <1>1 DEF Owned, OwnedFiles, PostEnds, mapVars, patchVars, diskVars
<1>13. created' = created
  BY DEF PostEnds, mapVars
<1> QED
  BY <1>1, <1>2, <1>3, <1>4, <1>5, <1>6, <1>7, <1>8, <1>9, <1>10, <1>11, <1>12, <1>13
     DEF IInv, Owned

(* the script,                                                             *)
LEMMA ChooseKeeps ==
    ASSUME IInv, NEW t \in Tabs, NEW f \in Files, Choose(t, f)
    PROVE  IInv'
<1>1. PICK owner \in [1..created -> Files] : Owned(owner)
  BY DEF IInv
<1>2. ServerTypes'
  BY BoundsAssumption, ChunksAssumption
     DEF IInv, ServerTypes, Choose, NoId, Resting, Fetch, serverVars, mapVars, patchVars,
         targetVars
<1>3. DiskTypes'
  BY ChunksAssumption
     DEF IInv, DiskTypes, Content, Choose, NoId, Resting, Fetch, serverVars, mapVars, patchVars,
         diskVars
<1>4. ScriptTypes'
  BY BoundsAssumption, ChunksAssumption
     DEF IInv, ScriptTypes, Resting, Requested, Answered, Choose, NoId, Fetch, serverVars,
         patchVars
<1>5. NoFileLeaks'
  BY DEF IInv, NoFileLeaks, Choose, NoId, Resting, Fetch, serverVars, mapVars, patchVars,
         diskVars
<1>6. Known'
  BY DEF IInv, Known, Choose, NoId, Resting, Fetch, serverVars, mapVars
<1>7. ASSUME NEW u \in Tabs PROVE Waits(u)'
  BY <1>7
     DEF IInv, Waits, ServerTypes, DiskTypes, ScriptTypes, NoFileLeaks, Content, Resting,
         Requested, Answered, Choose, NoId, Fetch, serverVars, mapVars, patchVars, diskVars,
         targetVars
<1>8. TargetIsWhole'
  BY DEF IInv, TargetIsWhole, OldTarget, Choose, NoId, Resting, Fetch, serverVars, targetVars
<1>9. OwnedByTabs(owner)'
  BY <1>1
     DEF IInv, Owned, OwnedByTabs, ServerTypes, DiskTypes, ScriptTypes, NoFileLeaks, Known,
         OwnedInStorage, OwnedBodies, OwnedFiles, NoId, Content, Resting, Requested, Answered,
         Choose, Fetch, serverVars, mapVars, patchVars, diskVars, targetVars
<1>10. OwnedInStorage(owner)'
  BY <1>1 DEF Owned, OwnedInStorage, NoId, Choose, Resting, Fetch
<1>11. OwnedBodies(owner)'
  BY <1>1 DEF Owned, OwnedBodies, Choose, NoId, Resting, Fetch, serverVars, patchVars, diskVars
<1>12. OwnedFiles(owner)'
  BY <1>1
     DEF Owned, OwnedFiles, Choose, NoId, Resting, Fetch, serverVars, mapVars, patchVars,
         diskVars
<1>13. created' = created
  BY DEF Choose, serverVars, mapVars
<1> QED
  BY <1>1, <1>2, <1>3, <1>4, <1>5, <1>6, <1>7, <1>8, <1>9, <1>10, <1>11, <1>12, <1>13
     DEF IInv, Owned

LEMMA StoreIdKeeps ==
    ASSUME IInv, NEW t \in Tabs, StoreId(t)
    PROVE  IInv'
<1>1. PICK owner \in [1..created -> Files] : Owned(owner)
  BY DEF IInv
<1>2. ServerTypes'
  BY BoundsAssumption, ChunksAssumption
     DEF IInv, ServerTypes, StoreId, Fetch, serverVars, mapVars, patchVars, targetVars
<1>3. DiskTypes'
  BY ChunksAssumption
     DEF IInv, DiskTypes, Content, StoreId, Fetch, serverVars, mapVars, patchVars, diskVars
<1>4. ScriptTypes'
  BY BoundsAssumption, ChunksAssumption
     DEF IInv, ScriptTypes, Resting, Requested, Answered, StoreId, Fetch, serverVars, localVars,
         patchVars
<1>5. NoFileLeaks'
  BY DEF IInv, NoFileLeaks, StoreId, Fetch, serverVars, mapVars, patchVars, diskVars
<1>6. Known'
  BY DEF IInv, Known, StoreId, Fetch, serverVars, localVars, mapVars
<1>7. ASSUME NEW u \in Tabs PROVE Waits(u)'
  BY <1>7 DEF IInv, Waits, StoreId, Fetch, serverVars, localVars, patchVars, targetVars
<1>8. TargetIsWhole'
  BY DEF IInv, TargetIsWhole, OldTarget, StoreId, Fetch, serverVars, targetVars
<1>9. OwnedByTabs(owner)'
  BY <1>1 DEF Owned, OwnedByTabs, NoId, StoreId, Fetch, localVars
<1>10. OwnedInStorage(owner)'
  BY <1>1
     DEF IInv, Owned, OwnedInStorage, ServerTypes, DiskTypes, ScriptTypes, NoFileLeaks, Known,
         OwnedByTabs, OwnedBodies, OwnedFiles, NoId, Content, Resting, Requested, Answered,
         StoreId, Fetch, serverVars, localVars, mapVars, patchVars, diskVars, targetVars
<1>11. OwnedBodies(owner)'
  BY <1>1 DEF Owned, OwnedBodies, StoreId, Fetch, serverVars, patchVars, diskVars
<1>12. OwnedFiles(owner)'
  BY <1>1 DEF Owned, OwnedFiles, StoreId, Fetch, serverVars, mapVars, patchVars, diskVars
<1>13. created' = created
  BY DEF StoreId, serverVars, mapVars
<1> QED
  BY <1>1, <1>2, <1>3, <1>4, <1>5, <1>6, <1>7, <1>8, <1>9, <1>10, <1>11, <1>12, <1>13
     DEF IInv, Owned

LEMMA SendNextKeeps ==
    ASSUME IInv, NEW t \in Tabs, SendNext(t)
    PROVE  IInv'
<1>1. PICK owner \in [1..created -> Files] : Owned(owner)
  BY DEF IInv
<1>2. ServerTypes'
  BY BoundsAssumption, ChunksAssumption
     DEF IInv, ServerTypes, SendNext, Fetch, serverVars, mapVars, patchVars, targetVars
<1>3. DiskTypes'
  BY ChunksAssumption
     DEF IInv, DiskTypes, Content, SendNext, Fetch, serverVars, mapVars, patchVars, diskVars
<1>4. ScriptTypes'
  BY BoundsAssumption, ChunksAssumption
     DEF IInv, ScriptTypes, ServerTypes, DiskTypes, Known, Waits, Resting, Requested, Answered,
         Content, SendNext, Fetch, serverVars, mapVars, patchVars, diskVars, targetVars
<1>5. NoFileLeaks'
  BY DEF IInv, NoFileLeaks, SendNext, Fetch, serverVars, mapVars, patchVars, diskVars
<1>6. Known'
  BY DEF IInv, Known, SendNext, Fetch, serverVars, mapVars
<1>7. ASSUME NEW u \in Tabs PROVE Waits(u)'
  BY <1>7
     DEF IInv, Waits, ServerTypes, DiskTypes, ScriptTypes, NoFileLeaks, Content, Resting,
         Requested, Answered, SendNext, Fetch, serverVars, mapVars, patchVars, diskVars,
         targetVars
<1>8. TargetIsWhole'
  BY DEF IInv, TargetIsWhole, OldTarget, SendNext, Fetch, serverVars, targetVars
<1>9. OwnedByTabs(owner)'
  BY <1>1 DEF Owned, OwnedByTabs, NoId, SendNext, Fetch
<1>10. OwnedInStorage(owner)'
  BY <1>1
     DEF IInv, Owned, OwnedInStorage, ServerTypes, DiskTypes, ScriptTypes, NoFileLeaks, Known,
         OwnedByTabs, OwnedBodies, OwnedFiles, NoId, Content, Resting, Requested, Answered,
         SendNext, Fetch, serverVars, mapVars, patchVars, diskVars, targetVars
<1>11. OwnedBodies(owner)'
  BY <1>1 DEF Owned, OwnedBodies, SendNext, Fetch, serverVars, patchVars, diskVars
<1>12. OwnedFiles(owner)'
  BY <1>1 DEF Owned, OwnedFiles, SendNext, Fetch, serverVars, mapVars, patchVars, diskVars
<1>13. created' = created
  BY DEF SendNext, serverVars, mapVars
<1> QED
  BY <1>1, <1>2, <1>3, <1>4, <1>5, <1>6, <1>7, <1>8, <1>9, <1>10, <1>11, <1>12, <1>13
     DEF IInv, Owned

(* whose call returns after Saved, Restart, Throw and Disconnect,          *)
LEMMA ReturnKeeps ==
    ASSUME IInv, NEW t \in Tabs, NEW state \in {"idle", "saved"}, Return(t, state),
           state = "saved" => pc[t] = "complete", UNCHANGED serverVars,
           storage' = storage \/ storage' = [storage EXCEPT ![file[t]] = NoId]
    PROVE  IInv'
<1>1. PICK owner \in [1..created -> Files] : Owned(owner)
  BY DEF IInv
<1>2. ServerTypes'
  BY BoundsAssumption, ChunksAssumption
     DEF IInv, ServerTypes, Return, NoId, serverVars, mapVars, patchVars, targetVars
<1>3. DiskTypes'
  BY ChunksAssumption
     DEF IInv, DiskTypes, Content, Return, NoId, serverVars, mapVars, patchVars, diskVars
<1>4. ScriptTypes'
  <2>1. storage' \in [Files -> 0..MaxIds]
    <3>1. storage \in [Files -> 0..MaxIds] /\ NoId \in 0..MaxIds
      BY BoundsAssumption DEF IInv, ScriptTypes, NoId
    <3> QED
      BY <3>1
  <2>2. pc' \in [Tabs -> Resting \cup Requested \cup Answered]
    BY DEF IInv, Return, ScriptTypes, Resting
  <2> QED
    BY <2>1, <2>2, BoundsAssumption, ChunksAssumption DEF IInv, Return, ScriptTypes, NoId
<1>5. NoFileLeaks'
  BY DEF IInv, NoFileLeaks, Return, NoId, serverVars, mapVars, patchVars, diskVars
<1>6. Known'
  <2>1. \A f \in Files : storage'[f] <= created
    <3>1. /\ \A f \in Files : storage[f] <= created
          /\ storage \in [Files -> 0..MaxIds]
          /\ NoId <= created
      BY DEF IInv, Known, ScriptTypes, ServerTypes, NoId
    <3> QED
      BY <3>1
  <2> QED
    BY <2>1 DEF IInv, Return, Known, ScriptTypes, ServerTypes, NoId, serverVars, mapVars
<1>7. ASSUME NEW u \in Tabs PROVE Waits(u)'
  BY <1>7
     DEF IInv, Waits, ServerTypes, DiskTypes, ScriptTypes, NoFileLeaks, Content, Resting,
         Requested, Answered, Return, NoId, serverVars, mapVars, patchVars, diskVars, targetVars
<1>8. TargetIsWhole'
  BY DEF IInv, TargetIsWhole, OldTarget, Return, NoId, serverVars, targetVars
<1>9. OwnedByTabs(owner)'
  BY <1>1 DEF Owned, OwnedByTabs, NoId, Return
<1>10. OwnedInStorage(owner)'
  BY <1>1
     DEF IInv, Owned, OwnedInStorage, ServerTypes, DiskTypes, ScriptTypes, NoFileLeaks, Known,
         OwnedByTabs, OwnedBodies, OwnedFiles, NoId, Content, Resting, Requested, Answered,
         Return, serverVars, mapVars, patchVars, diskVars, targetVars
<1>11. OwnedBodies(owner)'
  BY <1>1 DEF Owned, OwnedBodies, Return, NoId, serverVars, patchVars, diskVars
<1>12. OwnedFiles(owner)'
  BY <1>1 DEF Owned, OwnedFiles, Return, NoId, serverVars, mapVars, patchVars, diskVars
<1>13. created' = created
  BY DEF Return, serverVars, NoId, mapVars
<1> QED
  BY <1>1, <1>2, <1>3, <1>4, <1>5, <1>6, <1>7, <1>8, <1>9, <1>10, <1>11, <1>12, <1>13
     DEF IInv, Owned

LEMMA AgainKeeps ==
    ASSUME IInv, NEW t \in Tabs, Again(t), attempt[t] < 2, UNCHANGED serverVars,
           storage' = [storage EXCEPT ![file[t]] = NoId]
    PROVE  IInv'
<1>1. PICK owner \in [1..created -> Files] : Owned(owner)
  BY DEF IInv
<1>2. ServerTypes'
  BY BoundsAssumption, ChunksAssumption
     DEF IInv, ServerTypes, Again, NoId, Fetch, serverVars, mapVars, patchVars, targetVars
<1>3. DiskTypes'
  BY ChunksAssumption
     DEF IInv, DiskTypes, Content, Again, NoId, Fetch, serverVars, mapVars, patchVars, diskVars
<1>4. ScriptTypes'
  <2>1. storage' \in [Files -> 0..MaxIds]
    <3>1. storage \in [Files -> 0..MaxIds] /\ NoId \in 0..MaxIds
      BY BoundsAssumption DEF IInv, ScriptTypes, NoId
    <3> QED
      BY <3>1
  <2>2. pc' \in [Tabs -> Resting \cup Requested \cup Answered]
    BY DEF IInv, Again, Fetch, ScriptTypes, Requested, Answered
  <2>3. attempt' \in [Tabs -> 1..2]
    <3>1. attempt[t] \in 1..2
      BY DEF IInv, ScriptTypes
    <3>2. attempt[t] + 1 \in 1..2
      BY <3>1
    <3> QED
      BY <3>2 DEF IInv, Again, ScriptTypes
  <2> QED
    BY <2>1, <2>2, <2>3, BoundsAssumption, ChunksAssumption DEF IInv, Again, ScriptTypes, NoId
<1>5. NoFileLeaks'
  BY DEF IInv, NoFileLeaks, Again, NoId, Fetch, serverVars, mapVars, patchVars, diskVars
<1>6. Known'
  BY DEF IInv, Known, ServerTypes, DiskTypes, ScriptTypes, Content, Resting, Requested,
         Answered, Again, NoId, Fetch, serverVars, mapVars, patchVars, diskVars, targetVars
<1>7. ASSUME NEW u \in Tabs PROVE Waits(u)'
  BY <1>7
     DEF IInv, Waits, ServerTypes, DiskTypes, ScriptTypes, NoFileLeaks, Content, Resting,
         Requested, Answered, Again, NoId, Fetch, serverVars, mapVars, patchVars, diskVars,
         targetVars
<1>8. TargetIsWhole'
  BY DEF IInv, TargetIsWhole, OldTarget, Again, NoId, Fetch, serverVars, targetVars
<1>9. OwnedByTabs(owner)'
  BY <1>1 DEF Owned, OwnedByTabs, NoId, Again, Fetch
<1>10. OwnedInStorage(owner)'
  BY <1>1 DEF Owned, OwnedInStorage, NoId, Again, Fetch
<1>11. OwnedBodies(owner)'
  BY <1>1 DEF Owned, OwnedBodies, Again, NoId, Fetch, serverVars, patchVars, diskVars
<1>12. OwnedFiles(owner)'
  BY <1>1 DEF Owned, OwnedFiles, Again, NoId, Fetch, serverVars, mapVars, patchVars, diskVars
<1>13. created' = created
  BY DEF Again, serverVars, NoId, mapVars
<1> QED
  BY <1>1, <1>2, <1>3, <1>4, <1>5, <1>6, <1>7, <1>8, <1>9, <1>10, <1>11, <1>12, <1>13
     DEF IInv, Owned

(* the requests, which all forget the sessions that are stale,             *)
LEMMA CreateSessionKeeps ==
    ASSUME IInv, NEW t \in Tabs, CreateSession(t)
    PROVE  IInv'
<1>1. PICK owner \in [1..created -> Files] : Owned(owner)
  BY DEF IInv
<1>2. /\ created' = created + 1 /\ created \in Nat
      /\ created' \notin live \cup held
      /\ live' \cup held' = ((live \cup held) \ stale) \cup {created'}
  <2>1. created' = created + 1 /\ created \in Nat
    BY BoundsAssumption DEF IInv, CreateSession, ServerTypes
  <2>2. created' \notin live /\ created' \notin held
    BY <2>1 DEF IInv, ServerTypes
  <2>3. live' = (live \ stale) \cup {created'} /\ held' = held /\ held \cap stale = {}
    BY DEF IInv, CreateSession, Fresh, patchVars, ServerTypes, NoFileLeaks
  <2> QED
    BY <2>1, <2>2, <2>3
<1>3. /\ offset' \in [live' \cup held' -> 0..Chunks]
      /\ offset'[created'] = 0
      /\ \A x \in (live \cup held) \ stale : offset'[x] = offset[x]
  BY <1>2, ChunksAssumption DEF IInv, CreateSession, Put, Without, DiskTypes
<1>4. /\ DOMAIN temp' = live' \cup held'
      /\ temp'[created'] = <<>>
      /\ \A x \in (live \cup held) \ stale : temp'[x] = temp[x]
  BY <1>2 DEF IInv, CreateSession, Put, Without, NoFileLeaks
<1>5. held' = held /\ body' = body /\ held \subseteq (live \cup held) \ stale
  BY DEF IInv, CreateSession, patchVars, ServerTypes, NoFileLeaks
<1>6. PICK new \in [1..created' -> Files] :
           /\ new[created'] = file[t]
           /\ \A x \in 1..created : new[x] = owner[x]
  <2> DEFINE extended == [x \in 1..created + 1 |-> IF x = created + 1 THEN file[t] ELSE owner[x]]
  <2>1. /\ extended \in [1..created' -> Files]
        /\ extended[created'] = file[t]
        /\ \A x \in 1..created : extended[x] = owner[x]
    BY <1>2 DEF IInv, ScriptTypes
  <2> QED
    BY <2>1
<1>7. ServerTypes'
  <2>1. created' \in 0..MaxIds
    BY <1>2, BoundsAssumption DEF IInv, CreateSession, ServerTypes
  <2>2. live' \subseteq 1..created' /\ held' \subseteq 1..created'
    BY <1>2, <1>5 DEF IInv, CreateSession, Fresh, ServerTypes
  <2>3. stale' = {} /\ phase' = phase /\ committed' = committed /\ posting' = posting
    BY DEF CreateSession, targetVars
  <2> QED
    BY <2>1, <2>2, <2>3 DEF IInv, ServerTypes
<1>8. DiskTypes'
  <2>1. <<>> \in Content
    BY EmptySeq DEF Content
  <2> QED
    BY <1>2, <1>3, <1>4, <1>5, <2>1 DEF IInv, DiskTypes, NoFileLeaks
<1>9. ScriptTypes'
  BY <1>2, <1>3, <1>4, <1>5, <1>6, BoundsAssumption, ChunksAssumption
     DEF IInv, ScriptTypes, Resting, Requested, Answered, CreateSession, Running, Fresh,
         patchVars, userVars
<1>10. NoFileLeaks'
  <2>1. live' \cap held' = {}
    BY <1>2, <1>5 DEF IInv, CreateSession, Fresh, NoFileLeaks
  <2> QED
    BY <1>4, <2>1 DEF IInv, NoFileLeaks
<1>11. Known'
  BY <1>2, <1>3, <1>4, <1>5, <1>6
     DEF IInv, Known, ServerTypes, DiskTypes, ScriptTypes, Content, Resting, Requested,
         Answered, CreateSession, Running, Fresh, patchVars, targetVars, userVars
<1>12. ASSUME NEW u \in Tabs PROVE Waits(u)'
  BY <1>12, <1>2, <1>3, <1>4, <1>5, <1>6
     DEF IInv, Waits, CreateSession, Running, Fresh, patchVars, targetVars
<1>13. TargetIsWhole'
  BY <1>2, <1>3, <1>4, <1>5, <1>6
     DEF IInv, TargetIsWhole, OldTarget, CreateSession, Running, Fresh, targetVars
<1>14. OwnedByTabs(new)'
  <2> SUFFICES ASSUME NEW u \in Tabs, id'[u] # NoId
               PROVE  new[id'[u]] = file[u]
    BY DEF CreateSession, OwnedByTabs
  <2>1. CASE u = t
    BY <2>1, <1>6 DEF IInv, CreateSession, ScriptTypes
  <2>2. CASE u # t
    <3>1. id'[u] = id[u] /\ id[u] \in 1..created
      BY <2>2, <1>2 DEF IInv, CreateSession, ScriptTypes, Known, NoId
    <3> QED
      BY <3>1, <1>1, <1>6 DEF Owned, OwnedByTabs
  <2> QED
    BY <2>1, <2>2
<1>15. OwnedInStorage(new)'
  <2>1. ASSUME NEW f \in Files, storage[f] # NoId
        PROVE  storage[f] \in 1..created
    BY <2>1, <1>2 DEF IInv, ScriptTypes, Known, NoId
  <2> QED
    BY <2>1, <1>1, <1>6 DEF Owned, OwnedInStorage, CreateSession, userVars
<1>16. OwnedBodies(new)'
  BY <1>1, <1>3, <1>5, <1>6 DEF IInv, Owned, OwnedBodies, ServerTypes
<1>17. OwnedFiles(new)'
  <2> SUFFICES ASSUME NEW x \in live' \cup held'
               PROVE  /\ offset'[x] < Chunks
                      /\ Len(temp'[x]) = offset'[x]
                      /\ \A i \in 1..offset'[x] : temp'[x][i] = <<new[x], i>>
    BY DEF OwnedFiles
  <2>1. CASE x = created'
    BY <2>1, <1>3, <1>4, EmptySeq, ChunksAssumption
  <2>2. CASE x \in (live \cup held) \ stale
    <3>1. new[x] = owner[x]
      BY <2>2, <1>6 DEF IInv, ServerTypes
    <3> QED
      BY <2>2, <3>1, <1>1, <1>3, <1>4 DEF Owned, OwnedFiles
  <2> QED
    BY <2>1, <2>2, <1>2
<1> QED
  BY <1>2, <1>3, <1>4, <1>5, <1>6, <1>7, <1>8, <1>9, <1>10, <1>11, <1>12, <1>13, <1>14, <1>15,
     <1>16, <1>17
     DEF IInv, Owned

LEMMA HeadFoundKeeps ==
    ASSUME IInv, NEW t \in Tabs, SessionHead(t), HeadFound(t)
    PROVE  IInv'
<1>1. PICK owner \in [1..created -> Files] : Owned(owner)
  BY DEF IInv
<1>2. live' \cup held' = (live \cup held) \ stale
  BY DEF IInv, ServerTypes, NoFileLeaks, SessionHead, HeadFound, Running, Fresh, CleanupExpired,
         Fetch, patchVars
<1>3. /\ offset' \in [live' \cup held' -> 0..Chunks]
      /\ \A x \in live' \cup held' : offset'[x] = offset[x]
      /\ DOMAIN temp' = live' \cup held'
      /\ \A x \in DOMAIN temp' : temp'[x] \in Content
      /\ OwnedFiles(owner)'
  BY <1>1, <1>2, Forgotten
     DEF IInv, ServerTypes, Owned, SessionHead, HeadFound, Running, Fresh, CleanupExpired,
         Fetch, patchVars
<1>4. ServerTypes'
  BY BoundsAssumption, ChunksAssumption
     DEF IInv, ServerTypes, SessionHead, HeadFound, Running, Fresh, CleanupExpired, Fetch,
         patchVars, targetVars
<1>5. DiskTypes'
  BY <1>2, <1>3, ChunksAssumption
     DEF IInv, DiskTypes, Content, SessionHead, HeadFound, Running, Fresh, CleanupExpired,
         Fetch, patchVars
<1>6. ScriptTypes'
  BY BoundsAssumption, ChunksAssumption
     DEF IInv, ScriptTypes, ServerTypes, DiskTypes, Known, Waits, Resting, Requested, Answered,
         Content, SessionHead, HeadFound, Running, Fresh, CleanupExpired, Fetch, patchVars,
         targetVars, userVars
<1>7. NoFileLeaks'
  BY <1>2, <1>3
     DEF IInv, NoFileLeaks, SessionHead, HeadFound, Running, Fresh, CleanupExpired, Fetch,
         patchVars
<1>8. Known'
  BY DEF IInv, Known, SessionHead, HeadFound, Running, Fresh, CleanupExpired, Fetch, userVars
<1>9. ASSUME NEW u \in Tabs PROVE Waits(u)'
  BY <1>9
     DEF IInv, Waits, SessionHead, HeadFound, Running, Fresh, CleanupExpired, Fetch, patchVars,
         targetVars
<1>10. TargetIsWhole'
  BY DEF IInv, TargetIsWhole, OldTarget, SessionHead, HeadFound, Running, Fresh, CleanupExpired,
         Fetch, targetVars
<1>11. OwnedByTabs(owner)'
  BY <1>1
     DEF Owned, OwnedByTabs, NoId, SessionHead, HeadFound, Running, Fresh, CleanupExpired, Fetch
<1>12. OwnedInStorage(owner)'
  BY <1>1
     DEF Owned, OwnedInStorage, NoId, SessionHead, HeadFound, Running, Fresh, CleanupExpired,
         Fetch, userVars
<1>13. OwnedBodies(owner)'
  BY <1>1, <1>2, <1>3
     DEF Owned, OwnedBodies, SessionHead, HeadFound, Running, Fresh, CleanupExpired, Fetch,
         patchVars
<1>14. OwnedFiles(owner)'
  BY <1>1, <1>2, <1>3
     DEF Owned, OwnedFiles, SessionHead, HeadFound, Running, Fresh, CleanupExpired, Fetch,
         patchVars
<1>15. created' = created
  BY DEF SessionHead, HeadFound
<1> QED
  BY <1>1, <1>4, <1>5, <1>6, <1>7, <1>8, <1>9, <1>10, <1>11, <1>12, <1>13, <1>14, <1>15
     DEF IInv, Owned

LEMMA HeadNotFoundKeeps ==
    ASSUME IInv, NEW t \in Tabs, SessionHead(t), HeadNotFound(t)
    PROVE  IInv'
<1>1. PICK owner \in [1..created -> Files] : Owned(owner)
  BY DEF IInv
<1>2. live' \cup held' = (live \cup held) \ stale
  BY DEF IInv, ServerTypes, NoFileLeaks, SessionHead, HeadNotFound, Running, Fresh,
         CleanupExpired, patchVars
<1>3. /\ offset' \in [live' \cup held' -> 0..Chunks]
      /\ \A x \in live' \cup held' : offset'[x] = offset[x]
      /\ DOMAIN temp' = live' \cup held'
      /\ \A x \in DOMAIN temp' : temp'[x] \in Content
      /\ OwnedFiles(owner)'
  BY <1>1, <1>2, Forgotten
     DEF IInv, ServerTypes, Owned, SessionHead, HeadNotFound, Running, Fresh, CleanupExpired,
         patchVars
<1>4. ServerTypes'
  BY BoundsAssumption, ChunksAssumption
     DEF IInv, ServerTypes, SessionHead, HeadNotFound, Running, Fresh, CleanupExpired,
         patchVars, targetVars
<1>5. DiskTypes'
  BY <1>2, <1>3, ChunksAssumption
     DEF IInv, DiskTypes, Content, SessionHead, HeadNotFound, Running, Fresh, CleanupExpired,
         patchVars
<1>6. ScriptTypes'
  BY BoundsAssumption, ChunksAssumption
     DEF IInv, ScriptTypes, Resting, Requested, Answered, SessionHead, HeadNotFound, Running,
         Fresh, CleanupExpired, patchVars, userVars
<1>7. NoFileLeaks'
  BY <1>2, <1>3
     DEF IInv, NoFileLeaks, SessionHead, HeadNotFound, Running, Fresh, CleanupExpired, patchVars
<1>8. Known'
  BY DEF IInv, Known, SessionHead, HeadNotFound, Running, Fresh, CleanupExpired, userVars
<1>9. ASSUME NEW u \in Tabs PROVE Waits(u)'
  BY <1>9
     DEF IInv, Waits, SessionHead, HeadNotFound, Running, Fresh, CleanupExpired, patchVars,
         targetVars
<1>10. TargetIsWhole'
  BY DEF IInv, TargetIsWhole, OldTarget, SessionHead, HeadNotFound, Running, Fresh,
         CleanupExpired, targetVars
<1>11. OwnedByTabs(owner)'
  BY <1>1
     DEF Owned, OwnedByTabs, NoId, SessionHead, HeadNotFound, Running, Fresh, CleanupExpired
<1>12. OwnedInStorage(owner)'
  BY <1>1
     DEF Owned, OwnedInStorage, NoId, SessionHead, HeadNotFound, Running, Fresh, CleanupExpired,
         userVars
<1>13. OwnedBodies(owner)'
  BY <1>1, <1>2, <1>3
     DEF Owned, OwnedBodies, SessionHead, HeadNotFound, Running, Fresh, CleanupExpired,
         patchVars
<1>14. OwnedFiles(owner)'
  BY <1>1, <1>2, <1>3
     DEF Owned, OwnedFiles, SessionHead, HeadNotFound, Running, Fresh, CleanupExpired, patchVars
<1>15. created' = created
  BY DEF SessionHead, HeadNotFound
<1> QED
  BY <1>1, <1>4, <1>5, <1>6, <1>7, <1>8, <1>9, <1>10, <1>11, <1>12, <1>13, <1>14, <1>15
     DEF IInv, Owned

LEMMA ChunkTakenKeeps ==
    ASSUME IInv, NEW t \in Tabs, WriteChunk(t), ChunkTaken(t)
    PROVE  IInv'
<1>1. PICK owner \in [1..created -> Files] : Owned(owner)
  BY DEF IInv
<1>2. live' \cup held' = (live \cup held) \ stale
  BY DEF IInv, ServerTypes, NoFileLeaks, WriteChunk, ChunkTaken, Running, CleanupExpired, Fresh
<1>3. /\ offset' \in [live' \cup held' -> 0..Chunks]
      /\ \A x \in live' \cup held' : offset'[x] = offset[x]
      /\ DOMAIN temp' = live' \cup held'
      /\ \A x \in DOMAIN temp' : temp'[x] \in Content
      /\ OwnedFiles(owner)'
  BY <1>1, <1>2, Forgotten
     DEF IInv, ServerTypes, Owned, WriteChunk, ChunkTaken, Running, CleanupExpired, Fresh
<1>4. /\ id[t] \in live /\ id[t] \notin held
      /\ held' = held \cup {id[t]}
      /\ body' \in [held' -> Files \X (1..Chunks)]
      /\ body'[id[t]] = <<file[t], offset[id[t]] + 1>>
      /\ \A x \in held : body'[x] = body[x]
  <2>1. /\ id[t] \in live /\ id[t] \notin held
        /\ held' = held \cup {id[t]}
        /\ body' = Put(body, id[t], <<file[t], offset[id[t]] + 1>>)
    BY DEF IInv, ChunkTaken, Fresh, NoFileLeaks
  <2>2. offset[id[t]] + 1 \in 1..Chunks
    BY <1>1, <2>1, ChunksAssumption DEF IInv, Owned, OwnedFiles, DiskTypes
  <2> QED
    BY <2>1, <2>2 DEF IInv, Put, DiskTypes, ScriptTypes
<1>5. ServerTypes'
  BY <1>2, <1>3, <1>4, BoundsAssumption, ChunksAssumption
     DEF IInv, ServerTypes, WriteChunk, ChunkTaken, Running, CleanupExpired, Fresh, targetVars
<1>6. DiskTypes'
  BY <1>2, <1>3, <1>4, ChunksAssumption
     DEF IInv, DiskTypes, Content, WriteChunk, ChunkTaken, Running, CleanupExpired, Fresh
<1>7. ScriptTypes'
  BY <1>2, <1>3, <1>4, BoundsAssumption, ChunksAssumption
     DEF IInv, ScriptTypes, Resting, Requested, Answered, WriteChunk, ChunkTaken, Running,
         CleanupExpired, Fresh, localVars, userVars
<1>8. NoFileLeaks'
  BY <1>2, <1>3, <1>4
     DEF IInv, NoFileLeaks, WriteChunk, ChunkTaken, Running, CleanupExpired, Fresh
<1>9. Known'
  BY <1>2, <1>3, <1>4
     DEF IInv, Known, WriteChunk, ChunkTaken, Running, CleanupExpired, Fresh, localVars,
         userVars
<1>10. ASSUME NEW u \in Tabs PROVE Waits(u)'
  <2>1. CASE u = t
    <3>1. pc'[u] = "body" /\ id'[u] = id[t] /\ from'[u] = from[t] /\ offset[id[t]] = from[t]
      BY <2>1 DEF IInv, WriteChunk, ChunkTaken, ScriptTypes, localVars
    <3>2. id[t] \in held' /\ body'[id[t]][2] = from[t] + 1
      BY <1>4, <3>1
    <3> QED
      BY <3>1, <3>2 DEF IInv, Waits
  <2>2. CASE u # t
    BY <2>2, <1>10, <1>4
       DEF IInv, WriteChunk, ChunkTaken, Waits, ScriptTypes, localVars, targetVars
  <2> QED
    BY <2>1, <2>2
<1>11. TargetIsWhole'
  BY <1>2, <1>3, <1>4
     DEF IInv, TargetIsWhole, OldTarget, WriteChunk, ChunkTaken, Running, CleanupExpired, Fresh,
         targetVars
<1>12. OwnedByTabs(owner)'
  BY <1>1, <1>2, <1>3, <1>4
     DEF Owned, OwnedByTabs, NoId, WriteChunk, ChunkTaken, Running, CleanupExpired, Fresh,
         localVars
<1>13. OwnedInStorage(owner)'
  BY <1>1, <1>2, <1>3, <1>4
     DEF Owned, OwnedInStorage, NoId, WriteChunk, ChunkTaken, Running, CleanupExpired, Fresh,
         userVars
<1>14. OwnedBodies(owner)'
  <2>1. owner[id[t]] = file[t]
    BY <1>1, <1>4 DEF IInv, Owned, OwnedByTabs, ServerTypes, NoId
  <2>2. ASSUME NEW x \in held'
        PROVE  offset'[x] = offset[x]
    BY <1>3
  <2> QED
    BY <1>1, <1>4, <2>1, <2>2 DEF Owned, OwnedBodies
<1>15. OwnedFiles(owner)'
  BY <1>1, <1>2, <1>3, <1>4
     DEF Owned, OwnedFiles, WriteChunk, ChunkTaken, Running, CleanupExpired, Fresh
<1>16. created' = created
  BY DEF WriteChunk, ChunkTaken
<1> QED
  BY <1>1, <1>4, <1>5, <1>6, <1>7, <1>8, <1>9, <1>10, <1>11, <1>12, <1>13, <1>14, <1>15, <1>16
     DEF IInv, Owned

LEMMA ChunkConflictsKeeps ==
    ASSUME IInv, NEW t \in Tabs, WriteChunk(t), ChunkConflicts(t)
    PROVE  IInv'
<1>1. PICK owner \in [1..created -> Files] : Owned(owner)
  BY DEF IInv
<1>2. live' \cup held' = (live \cup held) \ stale
  BY DEF IInv, ServerTypes, NoFileLeaks, WriteChunk, ChunkConflicts, Running, CleanupExpired,
         Fresh, patchVars
<1>3. /\ offset' \in [live' \cup held' -> 0..Chunks]
      /\ \A x \in live' \cup held' : offset'[x] = offset[x]
      /\ DOMAIN temp' = live' \cup held'
      /\ \A x \in DOMAIN temp' : temp'[x] \in Content
      /\ OwnedFiles(owner)'
  BY <1>1, <1>2, Forgotten
     DEF IInv, ServerTypes, Owned, WriteChunk, ChunkConflicts, Running, CleanupExpired, Fresh,
         patchVars
<1>4. ServerTypes'
  BY BoundsAssumption, ChunksAssumption
     DEF IInv, ServerTypes, WriteChunk, ChunkConflicts, Running, CleanupExpired, Fresh,
         targetVars, patchVars
<1>5. DiskTypes'
  BY <1>2, <1>3, ChunksAssumption
     DEF IInv, DiskTypes, Content, WriteChunk, ChunkConflicts, Running, CleanupExpired, Fresh,
         patchVars
<1>6. ScriptTypes'
  BY BoundsAssumption, ChunksAssumption
     DEF IInv, ScriptTypes, Resting, Requested, Answered, WriteChunk, ChunkConflicts, Running,
         CleanupExpired, Fresh, localVars, userVars, patchVars
<1>7. NoFileLeaks'
  BY <1>2, <1>3
     DEF IInv, NoFileLeaks, WriteChunk, ChunkConflicts, Running, CleanupExpired, Fresh,
         patchVars
<1>8. Known'
  BY DEF IInv, Known, WriteChunk, ChunkConflicts, Running, CleanupExpired, Fresh, localVars,
         userVars
<1>9. ASSUME NEW u \in Tabs PROVE Waits(u)'
  BY <1>9
     DEF IInv, Waits, WriteChunk, ChunkConflicts, Running, CleanupExpired, Fresh, targetVars,
         localVars, patchVars
<1>10. TargetIsWhole'
  BY DEF IInv, TargetIsWhole, OldTarget, WriteChunk, ChunkConflicts, Running, CleanupExpired,
         Fresh, targetVars
<1>11. OwnedByTabs(owner)'
  BY <1>1
     DEF Owned, OwnedByTabs, NoId, WriteChunk, ChunkConflicts, Running, CleanupExpired, Fresh,
         localVars
<1>12. OwnedInStorage(owner)'
  BY <1>1
     DEF Owned, OwnedInStorage, NoId, WriteChunk, ChunkConflicts, Running, CleanupExpired,
         Fresh, userVars
<1>13. OwnedBodies(owner)'
  BY <1>1, <1>2, <1>3
     DEF Owned, OwnedBodies, WriteChunk, ChunkConflicts, Running, CleanupExpired, Fresh,
         patchVars
<1>14. OwnedFiles(owner)'
  BY <1>1, <1>2, <1>3
     DEF Owned, OwnedFiles, WriteChunk, ChunkConflicts, Running, CleanupExpired, Fresh,
         patchVars
<1>15. created' = created
  BY DEF WriteChunk, ChunkConflicts
<1> QED
  BY <1>1, <1>4, <1>5, <1>6, <1>7, <1>8, <1>9, <1>10, <1>11, <1>12, <1>13, <1>14, <1>15
     DEF IInv, Owned

LEMMA ChunkNotFoundKeeps ==
    ASSUME IInv, NEW t \in Tabs, WriteChunk(t), ChunkNotFound(t)
    PROVE  IInv'
<1>1. PICK owner \in [1..created -> Files] : Owned(owner)
  BY DEF IInv
<1>2. live' \cup held' = (live \cup held) \ stale
  BY DEF IInv, ServerTypes, NoFileLeaks, WriteChunk, ChunkNotFound, Running, CleanupExpired,
         Fresh, patchVars
<1>3. /\ offset' \in [live' \cup held' -> 0..Chunks]
      /\ \A x \in live' \cup held' : offset'[x] = offset[x]
      /\ DOMAIN temp' = live' \cup held'
      /\ \A x \in DOMAIN temp' : temp'[x] \in Content
      /\ OwnedFiles(owner)'
  BY <1>1, <1>2, Forgotten
     DEF IInv, ServerTypes, Owned, WriteChunk, ChunkNotFound, Running, CleanupExpired, Fresh,
         patchVars
<1>4. ServerTypes'
  BY BoundsAssumption, ChunksAssumption
     DEF IInv, ServerTypes, WriteChunk, ChunkNotFound, Running, CleanupExpired, Fresh,
         targetVars, patchVars
<1>5. DiskTypes'
  BY <1>2, <1>3, ChunksAssumption
     DEF IInv, DiskTypes, Content, WriteChunk, ChunkNotFound, Running, CleanupExpired, Fresh,
         patchVars
<1>6. ScriptTypes'
  BY BoundsAssumption, ChunksAssumption
     DEF IInv, ScriptTypes, Resting, Requested, Answered, WriteChunk, ChunkNotFound, Running,
         CleanupExpired, Fresh, localVars, userVars, patchVars
<1>7. NoFileLeaks'
  BY <1>2, <1>3
     DEF IInv, NoFileLeaks, WriteChunk, ChunkNotFound, Running, CleanupExpired, Fresh, patchVars
<1>8. Known'
  BY DEF IInv, Known, WriteChunk, ChunkNotFound, Running, CleanupExpired, Fresh, localVars,
         userVars
<1>9. ASSUME NEW u \in Tabs PROVE Waits(u)'
  BY <1>9
     DEF IInv, Waits, WriteChunk, ChunkNotFound, Running, CleanupExpired, Fresh, targetVars,
         localVars, patchVars
<1>10. TargetIsWhole'
  BY DEF IInv, TargetIsWhole, OldTarget, WriteChunk, ChunkNotFound, Running, CleanupExpired,
         Fresh, targetVars
<1>11. OwnedByTabs(owner)'
  BY <1>1
     DEF Owned, OwnedByTabs, NoId, WriteChunk, ChunkNotFound, Running, CleanupExpired, Fresh,
         localVars
<1>12. OwnedInStorage(owner)'
  BY <1>1
     DEF Owned, OwnedInStorage, NoId, WriteChunk, ChunkNotFound, Running, CleanupExpired, Fresh,
         userVars
<1>13. OwnedBodies(owner)'
  BY <1>1, <1>2, <1>3
     DEF Owned, OwnedBodies, WriteChunk, ChunkNotFound, Running, CleanupExpired, Fresh,
         patchVars
<1>14. OwnedFiles(owner)'
  BY <1>1, <1>2, <1>3
     DEF Owned, OwnedFiles, WriteChunk, ChunkNotFound, Running, CleanupExpired, Fresh, patchVars
<1>15. created' = created
  BY DEF WriteChunk, ChunkNotFound
<1> QED
  BY <1>1, <1>4, <1>5, <1>6, <1>7, <1>8, <1>9, <1>10, <1>11, <1>12, <1>13, <1>14, <1>15
     DEF IInv, Owned

(* the ends of a PATCH,                                                    *)
LEMMA ChunkWrittenKeeps ==
    ASSUME IInv, NEW s \in Ids, ChunkWritten(s)
    PROVE  IInv'
<1>1. PICK owner \in [1..created -> Files] : Owned(owner)
  BY DEF IInv
<1>2. /\ s \in held /\ s \notin live
      /\ body[s] = <<owner[s], offset[s] + 1>>
      /\ offset[s] + 1 \in 0..Chunks /\ offset[s] + 1 < Chunks
      /\ live' = live \cup {s} /\ held' = held \ {s}
      /\ live' \cup held' = live \cup held
  <2>1. /\ s \in held /\ s \notin live
        /\ live' = live \cup {s} /\ held' = held \ {s}
        /\ body[s][2] < Chunks
    BY DEF IInv, ChunkWritten, Release, NoFileLeaks
  <2>2. body[s] = <<owner[s], offset[s] + 1>> /\ offset[s] \in 0..Chunks
    BY <1>1, <2>1 DEF IInv, Owned, OwnedBodies, DiskTypes
  <2> QED
    BY <2>1, <2>2, ChunksAssumption
<1>3. /\ offset' \in [live' \cup held' -> 0..Chunks]
      /\ offset'[s] = offset[s] + 1
      /\ \A x \in (live \cup held) \ {s} : offset'[x] = offset[x]
  BY <1>2 DEF IInv, ChunkWritten, DiskTypes
<1>4. /\ DOMAIN temp' = live' \cup held'
      /\ temp'[s] \in Content
      /\ Len(temp'[s]) = offset[s] + 1
      /\ \A i \in 1..offset[s] + 1 : temp'[s][i] = <<owner[s], i>>
      /\ \A x \in (live \cup held) \ {s} : temp'[x] = temp[x]
  <2>1. temp' = [temp EXCEPT ![s] = Append(temp[s], body[s])] /\ DOMAIN temp = live \cup held
    BY DEF IInv, ChunkWritten, NoFileLeaks
  <2>2. /\ DOMAIN temp' = live' \cup held'
        /\ temp'[s] = Append(temp[s], body[s])
        /\ \A x \in (live \cup held) \ {s} : temp'[x] = temp[x]
    BY <1>2, <2>1
  <2>3. temp[s] \in Content /\ body[s] \in Files \X (1..Chunks)
    BY <1>2, <2>1 DEF IInv, DiskTypes
  <2>4. /\ offset[s] \in Nat /\ Len(temp[s]) = offset[s]
        /\ \A i \in 1..offset[s] : temp[s][i] = <<owner[s], i>>
    BY <1>1, <1>2, ChunksAssumption DEF IInv, Owned, OwnedFiles, DiskTypes
  <2>5. /\ Append(temp[s], body[s]) \in Content
        /\ Len(Append(temp[s], body[s])) = offset[s] + 1
        /\ \A i \in 1..offset[s] : Append(temp[s], body[s])[i] = <<owner[s], i>>
        /\ Append(temp[s], body[s])[offset[s] + 1] = <<owner[s], offset[s] + 1>>
    BY <1>2, <2>3, <2>4, AppendProperties DEF Content
  <2> QED
    BY <2>2, <2>4, <2>5
<1>5. /\ body' \in [held' -> Files \X (1..Chunks)]
      /\ \A x \in held' : body'[x] = body[x]
  BY <1>2, Released DEF IInv, ChunkWritten, Release
<1>6. ServerTypes'
  BY <1>2, <1>3, <1>4, <1>5, BoundsAssumption, ChunksAssumption
     DEF IInv, ServerTypes, ChunkWritten, Running, Release, Waiting, targetVars
<1>7. DiskTypes'
  BY <1>2, <1>3, <1>4, <1>5 DEF IInv, DiskTypes, NoFileLeaks
<1>8. ScriptTypes'
  BY <1>2, <1>3, <1>4, <1>5, BoundsAssumption, ChunksAssumption
     DEF IInv, ScriptTypes, Resting, Requested, Answered, ChunkWritten, Running, Release,
         Waiting, localVars, userVars
<1>9. NoFileLeaks'
  BY <1>2, <1>3, <1>4, <1>5 DEF IInv, NoFileLeaks, ChunkWritten, Running, Release, Waiting
<1>10. Known'
  BY <1>2, <1>3, <1>4, <1>5
     DEF IInv, Known, ChunkWritten, Running, Release, Waiting, localVars, userVars
<1>11. ASSUME NEW u \in Tabs PROVE Waits(u)'
  <2>1. CASE u \in Waiting(s)
    <3>1. pc[u] = "body" /\ id[u] = s /\ pc'[u] = "patched" /\ from'[u] = from[u]
      BY <2>1 DEF Waiting, ChunkWritten, Release, localVars
    <3>2. body[s][2] = from[u] + 1
      BY <3>1 DEF IInv, Waits
    <3> QED
      BY <3>1, <3>2, <1>2 DEF IInv, Waits
  <2>2. CASE u \notin Waiting(s)
    <3>1. pc'[u] = pc[u] /\ (pc[u] = "body" => id[u] # s)
      BY <2>2 DEF Waiting, ChunkWritten, Release
    <3> QED
      BY <1>11, <3>1, <1>2, <1>5 DEF IInv, Waits, ChunkWritten, localVars, targetVars
  <2> QED
    BY <2>1, <2>2
<1>12. TargetIsWhole'
  BY <1>2, <1>3, <1>4, <1>5
     DEF IInv, TargetIsWhole, OldTarget, ChunkWritten, Running, Release, Waiting, targetVars
<1>13. OwnedByTabs(owner)'
  BY <1>1, <1>2, <1>3, <1>4, <1>5
     DEF Owned, OwnedByTabs, NoId, ChunkWritten, Running, Release, Waiting, localVars
<1>14. OwnedInStorage(owner)'
  BY <1>1, <1>2, <1>3, <1>4, <1>5
     DEF Owned, OwnedInStorage, NoId, ChunkWritten, Running, Release, Waiting, userVars
<1>15. OwnedBodies(owner)'
  BY <1>1, <1>2, <1>3, <1>5 DEF Owned, OwnedBodies
<1>16. OwnedFiles(owner)'
  <2> SUFFICES ASSUME NEW x \in live \cup held
               PROVE  /\ offset'[x] < Chunks
                      /\ Len(temp'[x]) = offset'[x]
                      /\ \A i \in 1..offset'[x] : temp'[x][i] = <<owner[x], i>>
    BY <1>2 DEF OwnedFiles
  <2>1. CASE x = s
    BY <2>1, <1>2, <1>3, <1>4
  <2>2. CASE x # s
    BY <2>2, <1>1, <1>3, <1>4 DEF Owned, OwnedFiles
  <2> QED
    BY <2>1, <2>2
<1>17. created' = created
  BY DEF ChunkWritten
<1> QED
  BY <1>1, <1>2, <1>3, <1>4, <1>5, <1>6, <1>7, <1>8, <1>9, <1>10, <1>11, <1>12, <1>13, <1>14,
     <1>15, <1>16, <1>17
     DEF IInv, Owned

(* The last chunk completes one whole file, and this is what is put in     *)
(* place.                                                                  *)
LEMMA CompletedIsWhole ==
    ASSUME IInv, NEW s \in Ids, UploadCompleted(s)
    PROVE  \E f \in Files : target' = Whole(f) /\ committed' = committed \cup {f}
<1>1. PICK owner \in [1..created -> Files] : Owned(owner)
  BY DEF IInv
<1>2. /\ s \in held
      /\ body[s] = <<owner[s], Chunks>>
      /\ owner[s] \in Files
      /\ offset[s] = Chunks - 1
  <2>1. s \in held /\ body[s][2] = Chunks
    BY DEF UploadCompleted
  <2>2. body[s] = <<owner[s], offset[s] + 1>> /\ offset[s] \in 0..Chunks
    BY <1>1, <2>1 DEF IInv, Owned, OwnedBodies, DiskTypes
  <2>3. owner[s] \in Files
    BY <2>1, <1>1 DEF IInv, ServerTypes
  <2> QED
    BY <2>1, <2>2, <2>3, ChunksAssumption
<1>3. temp[s] \in Content /\ body[s] \in Files \X (1..Chunks)
  BY <1>2 DEF IInv, DiskTypes, NoFileLeaks
<1>4. /\ Len(temp[s]) = Chunks - 1
      /\ \A i \in 1..Chunks - 1 : temp[s][i] = <<owner[s], i>>
  BY <1>1, <1>2 DEF Owned, OwnedFiles
<1>5. /\ target' \in Content
      /\ Len(target') = Chunks
      /\ \A i \in 1..Chunks - 1 : target'[i] = <<owner[s], i>>
      /\ target'[Chunks] = <<owner[s], Chunks>>
  BY <1>2, <1>3, <1>4, AppendProperties, ChunksAssumption DEF Content, UploadCompleted
<1>6. /\ Whole(owner[s]) \in Content
      /\ Len(Whole(owner[s])) = Chunks
      /\ \A i \in 1..Chunks : Whole(owner[s])[i] = <<owner[s], i>>
  BY <1>2, WholeFacts
<1>7. \A i \in 1..Chunks : target'[i] = Whole(owner[s])[i]
  BY <1>5, <1>6, ChunksAssumption
<1>8. target' = Whole(owner[s])
  BY <1>5, <1>6, <1>7, SeqEqual DEF Content
<1>9. committed' = committed \cup {owner[s]}
  BY <1>2 DEF UploadCompleted
<1> QED
  BY <1>2, <1>8, <1>9

LEMMA UploadCompletedKeeps ==
    ASSUME IInv, NEW s \in Ids, UploadCompleted(s)
    PROVE  IInv'
<1>1. PICK owner \in [1..created -> Files] : Owned(owner)
  BY DEF IInv
<1>2. live' \cup held' = (live \cup held) \ {s}
  BY DEF IInv, ServerTypes, NoFileLeaks, UploadCompleted, Running, Release, mapVars
<1>3. /\ offset' \in [live' \cup held' -> 0..Chunks]
      /\ \A x \in live' \cup held' : offset'[x] = offset[x]
      /\ DOMAIN temp' = live' \cup held'
      /\ \A x \in DOMAIN temp' : temp'[x] \in Content
      /\ OwnedFiles(owner)'
  BY <1>1, <1>2, Forgotten
     DEF IInv, ServerTypes, Owned, UploadCompleted, Running, Release, mapVars
<1>4. /\ body' \in [held' -> Files \X (1..Chunks)]
      /\ \A x \in held' : body'[x] = body[x]
  BY Released DEF IInv, UploadCompleted, Release
<1>5. /\ s \in held
      /\ body[s] = <<owner[s], Chunks>>
      /\ owner[s] \in Files
      /\ offset[s] = Chunks - 1
  <2>1. s \in held /\ body[s][2] = Chunks
    BY DEF UploadCompleted
  <2>2. body[s] = <<owner[s], offset[s] + 1>> /\ offset[s] \in 0..Chunks
    BY <1>1, <2>1 DEF IInv, Owned, OwnedBodies, DiskTypes
  <2>3. owner[s] \in Files
    BY <2>1, <1>1 DEF IInv, ServerTypes
  <2> QED
    BY <2>1, <2>2, <2>3, ChunksAssumption
<1>6. ServerTypes'
  BY <1>5 DEF IInv, ServerTypes, UploadCompleted, Release, mapVars
<1>7. DiskTypes'
  BY <1>2, <1>3, <1>4, <1>5, ChunksAssumption
     DEF IInv, DiskTypes, Content, UploadCompleted, Running, Release, Waiting, mapVars
<1>8. ScriptTypes'
  BY <1>2, <1>3, <1>4, <1>5, BoundsAssumption, ChunksAssumption
     DEF IInv, ScriptTypes, Resting, Requested, Answered, UploadCompleted, Running, Release,
         Waiting, localVars, userVars
<1>9. NoFileLeaks'
  BY <1>2, <1>3, <1>4, <1>5
     DEF IInv, NoFileLeaks, UploadCompleted, Running, Release, Waiting, mapVars
<1>10. Known'
  BY <1>2, <1>3, <1>4, <1>5
     DEF IInv, Known, UploadCompleted, Running, Release, Waiting, mapVars, localVars, userVars
<1>11. ASSUME NEW u \in Tabs PROVE Waits(u)'
  <2>1. CASE u \in Waiting(s)
    <3>1. pc[u] = "body" /\ id[u] = s /\ pc'[u] = "complete" /\ file'[u] = file[u]
      BY <2>1 DEF Waiting, UploadCompleted, Release, localVars
    <3>2. file[u] = owner[s]
      BY <3>1, <1>1, <1>5 DEF IInv, Owned, OwnedByTabs, ServerTypes, NoId
    <3> QED
      BY <3>1, <3>2, <1>5 DEF IInv, Waits, UploadCompleted
  <2>2. CASE u \notin Waiting(s)
    <3>1. pc'[u] = pc[u] /\ (pc[u] = "body" => id[u] # s)
      BY <2>2 DEF Waiting, UploadCompleted, Release
    <3> QED
      BY <1>11, <3>1, <1>4 DEF IInv, Waits, UploadCompleted, Release, localVars
  <2> QED
    BY <2>1, <2>2
<1>12. TargetIsWhole'
  BY CompletedIsWhole DEF TargetIsWhole
<1>13. OwnedByTabs(owner)'
  BY <1>1, <1>2, <1>3, <1>4, <1>5
     DEF Owned, OwnedByTabs, NoId, UploadCompleted, Running, Release, Waiting, localVars
<1>14. OwnedInStorage(owner)'
  BY <1>1, <1>2, <1>3, <1>4, <1>5
     DEF Owned, OwnedInStorage, NoId, UploadCompleted, Running, Release, Waiting, userVars
<1>15. OwnedBodies(owner)'
  BY <1>1, <1>2, <1>3, <1>4, <1>5
     DEF Owned, OwnedBodies, UploadCompleted, Running, Release, Waiting
<1>16. OwnedFiles(owner)'
  BY <1>1, <1>2, <1>3, <1>4, <1>5
     DEF Owned, OwnedFiles, UploadCompleted, Running, Release, Waiting, mapVars
<1>17. created' = created
  BY DEF UploadCompleted, mapVars
<1> QED
  BY <1>1, <1>5, <1>6, <1>7, <1>8, <1>9, <1>10, <1>11, <1>12, <1>13, <1>14, <1>15, <1>16, <1>17
     DEF IInv, Owned

LEMMA ChunkLostKeeps ==
    ASSUME IInv, NEW s \in Ids, ChunkLost(s)
    PROVE  IInv'
<1>1. PICK owner \in [1..created -> Files] : Owned(owner)
  BY DEF IInv
<1>2. live' \cup held' = (live \cup held) \ {s}
  BY DEF IInv, ServerTypes, NoFileLeaks, ChunkLost, Running, Release, mapVars
<1>3. /\ offset' \in [live' \cup held' -> 0..Chunks]
      /\ \A x \in live' \cup held' : offset'[x] = offset[x]
      /\ DOMAIN temp' = live' \cup held'
      /\ \A x \in DOMAIN temp' : temp'[x] \in Content
      /\ OwnedFiles(owner)'
  BY <1>1, <1>2, Forgotten DEF IInv, ServerTypes, Owned, ChunkLost, Running, Release, mapVars
<1>4. /\ body' \in [held' -> Files \X (1..Chunks)]
      /\ \A x \in held' : body'[x] = body[x]
  BY Released DEF IInv, ChunkLost, Release
<1>5. ServerTypes'
  BY BoundsAssumption, ChunksAssumption
     DEF IInv, ServerTypes, ChunkLost, Running, Release, Waiting, mapVars, targetVars
<1>6. DiskTypes'
  BY <1>2, <1>3, <1>4, ChunksAssumption
     DEF IInv, DiskTypes, Content, ChunkLost, Running, Release, Waiting, mapVars
<1>7. ScriptTypes'
  BY BoundsAssumption, ChunksAssumption
     DEF IInv, ScriptTypes, Resting, Requested, Answered, ChunkLost, Running, Release, Waiting,
         localVars, userVars
<1>8. NoFileLeaks'
  BY <1>2, <1>3, <1>4 DEF IInv, NoFileLeaks, ChunkLost, Running, Release, Waiting, mapVars
<1>9. Known'
  BY DEF IInv, Known, ChunkLost, Running, Release, Waiting, mapVars, localVars, userVars
<1>10. ASSUME NEW u \in Tabs PROVE Waits(u)'
  <2>1. CASE u \in Waiting(s)
    BY <2>1 DEF IInv, Waiting, ChunkLost, Release, Waits
  <2>2. CASE u \notin Waiting(s)
    <3>1. pc'[u] = pc[u] /\ (pc[u] = "body" => id[u] # s)
      BY <2>2 DEF Waiting, ChunkLost, Release
    <3> QED
      BY <1>10, <3>1, <1>4 DEF IInv, Waits, ChunkLost, Release, localVars, targetVars
  <2> QED
    BY <2>1, <2>2
<1>11. TargetIsWhole'
  BY DEF IInv, TargetIsWhole, OldTarget, ChunkLost, Running, Release, Waiting, targetVars
<1>12. OwnedByTabs(owner)'
  BY <1>1 DEF Owned, OwnedByTabs, NoId, ChunkLost, Running, Release, Waiting, localVars
<1>13. OwnedInStorage(owner)'
  BY <1>1 DEF Owned, OwnedInStorage, NoId, ChunkLost, Running, Release, Waiting, userVars
<1>14. OwnedBodies(owner)'
  BY <1>1, <1>2, <1>3, <1>4 DEF Owned, OwnedBodies, ChunkLost, Running, Release, Waiting
<1>15. OwnedFiles(owner)'
  BY <1>1, <1>2, <1>3, <1>4 DEF Owned, OwnedFiles, ChunkLost, Running, Release, Waiting, mapVars
<1>16. created' = created
  BY DEF ChunkLost, mapVars
<1> QED
  BY <1>1, <1>5, <1>6, <1>7, <1>8, <1>9, <1>10, <1>11, <1>12, <1>13, <1>14, <1>15, <1>16
     DEF IInv, Owned

(* and time.                                                               *)
LEMMA ExpireKeeps ==
    ASSUME IInv, NEW s \in Ids, Expire(s)
    PROVE  IInv'
<1>1. PICK owner \in [1..created -> Files] : Owned(owner)
  BY DEF IInv
<1>2. ServerTypes'
  BY BoundsAssumption, ChunksAssumption
     DEF IInv, ServerTypes, Expire, Running, Fresh, patchVars, targetVars
<1>3. DiskTypes'
  BY ChunksAssumption DEF IInv, DiskTypes, Content, Expire, Running, Fresh, patchVars, diskVars
<1>4. ScriptTypes'
  BY BoundsAssumption, ChunksAssumption
     DEF IInv, ScriptTypes, Resting, Requested, Answered, Expire, Running, Fresh, patchVars,
         localVars, userVars
<1>5. NoFileLeaks'
  BY DEF IInv, NoFileLeaks, Expire, Running, Fresh, patchVars, diskVars
<1>6. Known'
  BY DEF IInv, Known, Expire, Running, Fresh, localVars, userVars
<1>7. ASSUME NEW u \in Tabs PROVE Waits(u)'
  BY <1>7 DEF IInv, Waits, Expire, Running, Fresh, patchVars, targetVars, localVars
<1>8. TargetIsWhole'
  BY DEF IInv, TargetIsWhole, OldTarget, Expire, Running, Fresh, targetVars
<1>9. OwnedByTabs(owner)'
  BY <1>1 DEF Owned, OwnedByTabs, NoId, Expire, Running, Fresh, localVars
<1>10. OwnedInStorage(owner)'
  BY <1>1 DEF Owned, OwnedInStorage, NoId, Expire, Running, Fresh, userVars
<1>11. OwnedBodies(owner)'
  BY <1>1 DEF Owned, OwnedBodies, Expire, Running, Fresh, patchVars, diskVars
<1>12. OwnedFiles(owner)'
  BY <1>1 DEF Owned, OwnedFiles, Expire, Running, Fresh, patchVars, diskVars
<1>13. created' = created
  BY DEF Expire
<1> QED
  BY <1>1, <1>2, <1>3, <1>4, <1>5, <1>6, <1>7, <1>8, <1>9, <1>10, <1>11, <1>12, <1>13
     DEF IInv, Owned

LEMMA TickKeeps ==
    ASSUME IInv, Tick
    PROVE  IInv'
<1>1. PICK owner \in [1..created -> Files] : Owned(owner)
  BY DEF IInv
<1>2. live' \cup held' = (live \cup held) \ stale
  BY DEF IInv, ServerTypes, NoFileLeaks, Tick, Fresh, CleanupExpired, patchVars
<1>3. /\ offset' \in [live' \cup held' -> 0..Chunks]
      /\ \A x \in live' \cup held' : offset'[x] = offset[x]
      /\ DOMAIN temp' = live' \cup held'
      /\ \A x \in DOMAIN temp' : temp'[x] \in Content
      /\ OwnedFiles(owner)'
  BY <1>1, <1>2, Forgotten DEF IInv, ServerTypes, Owned, Tick, Fresh, CleanupExpired, patchVars
<1>4. ServerTypes'
  BY BoundsAssumption, ChunksAssumption
     DEF IInv, ServerTypes, Tick, Fresh, CleanupExpired, patchVars, targetVars
<1>5. DiskTypes'
  BY <1>2, <1>3, ChunksAssumption
     DEF IInv, DiskTypes, Content, Tick, Fresh, CleanupExpired, patchVars
<1>6. ScriptTypes'
  BY BoundsAssumption, ChunksAssumption
     DEF IInv, ScriptTypes, Resting, Requested, Answered, Tick, Fresh, CleanupExpired,
         patchVars, localVars, userVars
<1>7. NoFileLeaks'
  BY <1>2, <1>3 DEF IInv, NoFileLeaks, Tick, Fresh, CleanupExpired, patchVars
<1>8. Known'
  BY DEF IInv, Known, Tick, Fresh, CleanupExpired, localVars, userVars
<1>9. ASSUME NEW u \in Tabs PROVE Waits(u)'
  BY <1>9 DEF IInv, Waits, Tick, Fresh, CleanupExpired, patchVars, targetVars, localVars
<1>10. TargetIsWhole'
  BY DEF IInv, TargetIsWhole, OldTarget, Tick, Fresh, CleanupExpired, targetVars
<1>11. OwnedByTabs(owner)'
  BY <1>1 DEF Owned, OwnedByTabs, NoId, Tick, Fresh, CleanupExpired, localVars
<1>12. OwnedInStorage(owner)'
  BY <1>1 DEF Owned, OwnedInStorage, NoId, Tick, Fresh, CleanupExpired, userVars
<1>13. OwnedBodies(owner)'
  BY <1>1, <1>2, <1>3 DEF Owned, OwnedBodies, Tick, Fresh, CleanupExpired, patchVars
<1>14. OwnedFiles(owner)'
  BY <1>1, <1>2, <1>3 DEF Owned, OwnedFiles, Tick, Fresh, CleanupExpired, patchVars
<1>15. created' = created
  BY DEF Tick
<1> QED
  BY <1>1, <1>4, <1>5, <1>6, <1>7, <1>8, <1>9, <1>10, <1>11, <1>12, <1>13, <1>14, <1>15
     DEF IInv, Owned

LEMMA CleanupAllKeeps ==
    ASSUME IInv, CleanupAll
    PROVE  IInv'
<1>1. PICK owner \in [1..created -> Files] : Owned(owner)
  BY DEF IInv
<1>2. live' \cup held' = (live \cup held) \ live
  BY DEF IInv, ServerTypes, NoFileLeaks, CleanupAll, patchVars
<1>3. /\ offset' \in [live' \cup held' -> 0..Chunks]
      /\ \A x \in live' \cup held' : offset'[x] = offset[x]
      /\ DOMAIN temp' = live' \cup held'
      /\ \A x \in DOMAIN temp' : temp'[x] \in Content
      /\ OwnedFiles(owner)'
  BY <1>1, <1>2, Forgotten DEF IInv, ServerTypes, Owned, CleanupAll, patchVars
<1>4. ServerTypes'
  BY BoundsAssumption, ChunksAssumption DEF IInv, ServerTypes, CleanupAll, patchVars, targetVars
<1>5. DiskTypes'
  BY <1>2, <1>3, ChunksAssumption DEF IInv, DiskTypes, Content, CleanupAll, patchVars
<1>6. ScriptTypes'
  BY BoundsAssumption, ChunksAssumption
     DEF IInv, ScriptTypes, Resting, Requested, Answered, CleanupAll, patchVars, localVars,
         userVars
<1>7. NoFileLeaks'
  BY <1>2, <1>3 DEF IInv, NoFileLeaks, CleanupAll, patchVars
<1>8. Known'
  BY DEF IInv, Known, CleanupAll, localVars, userVars
<1>9. ASSUME NEW u \in Tabs PROVE Waits(u)'
  BY <1>9 DEF IInv, Waits, CleanupAll, patchVars, targetVars, localVars
<1>10. TargetIsWhole'
  BY DEF IInv, TargetIsWhole, OldTarget, CleanupAll, targetVars
<1>11. OwnedByTabs(owner)'
  BY <1>1 DEF Owned, OwnedByTabs, NoId, CleanupAll, localVars
<1>12. OwnedInStorage(owner)'
  BY <1>1 DEF Owned, OwnedInStorage, NoId, CleanupAll, userVars
<1>13. OwnedBodies(owner)'
  BY <1>1, <1>2, <1>3 DEF Owned, OwnedBodies, CleanupAll, patchVars
<1>14. OwnedFiles(owner)'
  BY <1>1, <1>2, <1>3 DEF Owned, OwnedFiles, CleanupAll, patchVars
<1>15. created' = created
  BY DEF CleanupAll
<1> QED
  BY <1>1, <1>4, <1>5, <1>6, <1>7, <1>8, <1>9, <1>10, <1>11, <1>12, <1>13, <1>14, <1>15
     DEF IInv, Owned

LEMMA AcceptFailsKeeps ==
    ASSUME IInv, AcceptFails
    PROVE  IInv'
<1>1. PICK owner \in [1..created -> Files] : Owned(owner)
  BY DEF IInv
<1>2. ServerTypes'
  BY BoundsAssumption, ChunksAssumption DEF IInv, ServerTypes, AcceptFails, patchVars, targetVars
<1>3. DiskTypes'
  BY ChunksAssumption DEF IInv, DiskTypes, Content, AcceptFails, patchVars, diskVars
<1>4. ScriptTypes'
  BY BoundsAssumption, ChunksAssumption
     DEF IInv, ScriptTypes, Resting, Requested, Answered, AcceptFails, patchVars, localVars, userVars
<1>5. NoFileLeaks'
  BY DEF IInv, NoFileLeaks, AcceptFails, patchVars, diskVars
<1>6. Known'
  BY DEF IInv, Known, AcceptFails, localVars, userVars
<1>7. ASSUME NEW u \in Tabs PROVE Waits(u)'
  BY <1>7 DEF IInv, Waits, AcceptFails, patchVars, targetVars, localVars
<1>8. TargetIsWhole'
  BY DEF IInv, TargetIsWhole, OldTarget, AcceptFails, targetVars
<1>9. OwnedByTabs(owner)'
  BY <1>1 DEF Owned, OwnedByTabs, NoId, AcceptFails, localVars
<1>10. OwnedInStorage(owner)'
  BY <1>1 DEF Owned, OwnedInStorage, NoId, AcceptFails, userVars
<1>11. OwnedBodies(owner)'
  BY <1>1 DEF Owned, OwnedBodies, AcceptFails, patchVars, diskVars
<1>12. OwnedFiles(owner)'
  BY <1>1 DEF Owned, OwnedFiles, AcceptFails, patchVars, diskVars
<1>13. created' = created
  BY DEF AcceptFails
<1> QED
  BY <1>1, <1>2, <1>3, <1>4, <1>5, <1>6, <1>7, <1>8, <1>9, <1>10, <1>11, <1>12, <1>13
     DEF IInv, Owned

LEMMA ExitKeeps ==
    ASSUME IInv, Exit
    PROVE  IInv'
<1>1. PICK owner \in [1..created -> Files] : Owned(owner)
  BY DEF IInv
<1>2. ServerTypes'
  BY BoundsAssumption, ChunksAssumption DEF IInv, ServerTypes, Exit, patchVars
<1>3. DiskTypes'
  BY ChunksAssumption DEF IInv, DiskTypes, Content, Exit, patchVars, diskVars
<1>4. ScriptTypes'
  BY BoundsAssumption, ChunksAssumption
     DEF IInv, ScriptTypes, Resting, Requested, Answered, Exit, patchVars, localVars, userVars
<1>5. NoFileLeaks'
  BY DEF IInv, NoFileLeaks, Exit, patchVars, diskVars
<1>6. Known'
  BY DEF IInv, Known, Exit, localVars, userVars
<1>7. ASSUME NEW u \in Tabs PROVE Waits(u)'
  BY <1>7 DEF IInv, Waits, Exit, patchVars, localVars
<1>8. TargetIsWhole'
  BY DEF IInv, TargetIsWhole, OldTarget, Exit
<1>9. OwnedByTabs(owner)'
  BY <1>1 DEF Owned, OwnedByTabs, NoId, Exit, localVars
<1>10. OwnedInStorage(owner)'
  BY <1>1 DEF Owned, OwnedInStorage, NoId, Exit, userVars
<1>11. OwnedBodies(owner)'
  BY <1>1 DEF Owned, OwnedBodies, Exit, patchVars, diskVars
<1>12. OwnedFiles(owner)'
  BY <1>1 DEF Owned, OwnedFiles, Exit, patchVars, diskVars
<1>13. created' = created
  BY DEF Exit
<1> QED
  BY <1>1, <1>2, <1>3, <1>4, <1>5, <1>6, <1>7, <1>8, <1>9, <1>10, <1>11, <1>12, <1>13
     DEF IInv, Owned

-----------------------------------------------------------------------------

(* The three facts about IInv.                                             *)
LEMMA Initially == Init => IInv
<1> SUFFICES ASSUME Init PROVE IInv
  OBVIOUS
<1>1. AnyFile \in Files
  BY FilesAssumption DEF AnyFile
<1>2. /\ ServerTypes
      /\ DiskTypes
      /\ ScriptTypes
  BY <1>1, BoundsAssumption, ChunksAssumption
     DEF Init, ServerTypes, DiskTypes, ScriptTypes, Resting, NoId
<1>3. /\ NoFileLeaks
      /\ Known
      /\ TargetIsWhole
      /\ \A t \in Tabs : Waits(t)
  BY DEF Init, NoFileLeaks, Known, TargetIsWhole, Waits, NoId
<1>4. \E owner \in [1..created -> Files] : Owned(owner)
  <2> DEFINE owner == [s \in 1..created |-> AnyFile]
  <2>1. owner \in [1..created -> Files]
    BY <1>1
  <2>2. Owned(owner)
    BY DEF Init, Owned, OwnedByTabs, OwnedInStorage, OwnedBodies, OwnedFiles, NoId
  <2> QED
    BY <2>1, <2>2
<1> QED
  BY <1>2, <1>3, <1>4 DEF IInv

LEMMA ScriptKeeps ==
    ASSUME IInv, NEW t \in Tabs, Script(t) \/ Disconnect(t)
    PROVE  IInv'
<1>1. CASE StoreId(t) \/ SendNext(t)
  BY <1>1, StoreIdKeeps, SendNextKeeps
<1>2. CASE Saved(t)
  BY <1>2, ReturnKeeps DEF Saved
<1>3. CASE Restart(t)
  <2>1. CASE attempt[t] < 2 /\ Again(t)
    BY <1>3, <2>1, AgainKeeps DEF Restart
  <2>2. CASE Return(t, "idle")
    BY <1>3, <2>2, ReturnKeeps DEF Restart
  <2> QED
    BY <1>3, <2>1, <2>2 DEF Restart
<1>4. CASE Throw(t) \/ Disconnect(t)
  BY <1>4, ReturnKeeps DEF Throw, Disconnect
<1> QED
  BY <1>1, <1>2, <1>3, <1>4 DEF Script

LEMMA RequestKeeps ==
    ASSUME IInv, NEW t \in Tabs, Request(t)
    PROVE  IInv'
<1>1. CASE CreateSession(t)
  BY <1>1, CreateSessionKeeps
<1>2. CASE SessionHead(t)
  BY <1>2, HeadFoundKeeps, HeadNotFoundKeeps DEF SessionHead
<1>3. CASE WriteChunk(t)
  BY <1>3, ChunkTakenKeeps, ChunkConflictsKeeps, ChunkNotFoundKeeps DEF WriteChunk
<1> QED
  BY <1>1, <1>2, <1>3 DEF Request

LEMMA StutterKeeps == IInv /\ UNCHANGED vars => IInv'
<1> SUFFICES ASSUME IInv, UNCHANGED vars PROVE IInv'
  OBVIOUS
<1> USE DEF vars, serverVars, mapVars, patchVars, diskVars, targetVars, localVars, userVars
<1>1. ServerTypes' /\ DiskTypes' /\ ScriptTypes'
  BY DEF IInv, ServerTypes, DiskTypes, ScriptTypes
<1>2. NoFileLeaks' /\ Known' /\ TargetIsWhole' /\ \A t \in Tabs : Waits(t)'
  BY DEF IInv, NoFileLeaks, Known, TargetIsWhole, Waits
<1>3. PICK owner \in [1..created -> Files] : Owned(owner)
  BY DEF IInv
<1>4. Owned(owner)'
  BY <1>3 DEF Owned, OwnedByTabs, OwnedInStorage, OwnedBodies, OwnedFiles
<1> QED
  BY <1>1, <1>2, <1>3, <1>4 DEF IInv

LEMMA NextKeeps == IInv /\ [Next]_vars => IInv'
<1> SUFFICES ASSUME IInv, Next PROVE IInv'
  BY StutterKeeps
<1>1. ASSUME NEW f \in Files, PostBegins(f) \/ PostEnds(f) PROVE IInv'
  BY <1>1, PostBeginsKeeps, PostEndsKeeps
<1>2. ASSUME NEW t \in Tabs, NEW f \in Files, Choose(t, f) PROVE IInv'
  BY <1>2, ChooseKeeps
<1>3. ASSUME NEW t \in Tabs, Script(t) \/ Request(t) \/ Disconnect(t) PROVE IInv'
  BY <1>3, ScriptKeeps, RequestKeeps
<1>4. ASSUME NEW s \in Ids, BodyEnds(s) \/ Expire(s) PROVE IInv'
  BY <1>4, ChunkWrittenKeeps, UploadCompletedKeeps, ChunkLostKeeps, ExpireKeeps DEF BodyEnds
<1>5. CASE Tick \/ CleanupAll \/ AcceptFails \/ Exit
  BY <1>5, TickKeeps, CleanupAllKeeps, AcceptFailsKeeps, ExitKeeps
<1> QED
  BY <1>1, <1>2, <1>3, <1>4, <1>5 DEF Next

(* The map, the disk, the browser's memory and the PATCHes that run agree  *)
(* on the file a session is for.                                           *)
THEOREM Invariance == Spec => []IInv
BY Initially, NextKeeps, PTL DEF Spec

(* The file under its final name is the old one or all of one uploaded     *)
(* file, whatever requests interleave (UploadSession::commit,              *)
(* write_upload).                                                          *)
THEOREM TargetStaysWhole == Spec => []TargetIsWhole
<1>1. IInv => TargetIsWhole
  BY DEF IInv
<1> QED
  BY <1>1, Invariance, PTL

(* The types of TypeOK follow,                                             *)
LEMMA TypesHold == IInv => TypeOK
<1> SUFFICES ASSUME IInv PROVE TypeOK
  OBVIOUS
<1>1. target \in Content
  <2>1. <<>> \in Content
    BY EmptySeq DEF Content
  <2> QED
    BY <2>1, WholeFacts DEF IInv, TargetIsWhole, OldTarget
<1>2. DOMAIN temp \subseteq 1..created
  BY DEF IInv, NoFileLeaks, ServerTypes
<1> QED
  BY <1>1, <1>2 DEF IInv, TypeOK, ServerTypes, DiskTypes, ScriptTypes

(* and what a temporary file holds.                                        *)
LEMMA OffsetsMatch == IInv => OffsetMatchesFile
<1> SUFFICES ASSUME IInv, NEW s \in live \cup held
             PROVE  \E f \in Files : temp[s] = SubSeq(Whole(f), 1, offset[s])
  BY DEF OffsetMatchesFile
<1>1. PICK owner \in [1..created -> Files] : Owned(owner)
  BY DEF IInv
<1> DEFINE f == owner[s]
           n == offset[s]
           start == SubSeq(Whole(f), 1, n)
<1>2. /\ f \in Files
      /\ n \in Nat /\ n < Chunks
      /\ temp[s] \in Content
  BY <1>1, ChunksAssumption
     DEF IInv, ServerTypes, DiskTypes, NoFileLeaks, Owned, OwnedFiles
<1>3. Len(temp[s]) = n /\ \A i \in 1..n : temp[s][i] = <<f, i>>
  BY <1>1 DEF Owned, OwnedFiles
<1>4. /\ start \in Content
      /\ Len(start) = n
      /\ \A i \in 1..n : start[i] = <<f, i>>
  <2>1. ASSUME NEW i \in 1..n
        PROVE  Whole(f)[i] = <<f, i>> /\ Whole(f)[i] \in Files \X (1..Chunks)
    <3>1. i \in 1..Chunks
      BY <1>2, ChunksAssumption
    <3>2. Whole(f)[i] = <<f, i>>
      BY <1>2, <3>1, WholeFacts
    <3>3. <<f, i>> \in Files \X (1..Chunks)
      BY <1>2, <3>1
    <3> QED
      BY <3>2, <3>3
  <2> HIDE DEF f, n
  <2> QED
    BY <1>2, <2>1, SubSeqProperties DEF Content
<1> HIDE DEF f, n, start
<1>5. temp[s] = start
  BY <1>2, <1>3, <1>4, SeqEqual DEF Content
<1> QED
  BY <1>2, <1>5 DEF f, n, start

(* A session's file holds the chunks before its offset, of one file, in    *)
(* order, once, and every temporary file has an owner (write_upload_chunk  *)
(* appends without looking at the file).                                   *)
THEOREM FilesStayMatched == Spec => []FilesMatch
<1>1. IInv => FilesMatch
  BY TypesHold, OffsetsMatch DEF FilesMatch, IInv
<1> QED
  BY <1>1, Invariance, PTL

(* The page says "saved" only for a file that the server has put in place. *)
THEOREM SavedStaysCommitted == Spec => []SavedIsCommitted
<1>1. IInv => SavedIsCommitted
  BY DEF IInv, Waits, SavedIsCommitted
<1> QED
  BY <1>1, Invariance, PTL

-----------------------------------------------------------------------------
(* The refinement.  Each request is a step of the abstract form or a       *)
(* stutter; that none places a file after the exit needs to know that a    *)
(* POST does not outlive the process.                                      *)
PostsEnd == phase = "stopped" => posting = {}

LEMMA PostsEndKept == PostsEnd /\ [Next]_vars => PostsEnd'
<1> SUFFICES ASSUME PostsEnd, [Next]_vars PROVE PostsEnd'
  OBVIOUS
<1> USE DEF PostsEnd
<1>1. ASSUME NEW f \in Files, PostBegins(f) \/ PostEnds(f) PROVE PostsEnd'
  BY <1>1 DEF PostBegins, PostEnds, mapVars
<1>2. ASSUME NEW t \in Tabs, Script(t) \/ Disconnect(t) \/ \E f \in Files : Choose(t, f)
      PROVE  PostsEnd'
  BY <1>2 DEF Script, StoreId, SendNext, Saved, Restart, Throw, Disconnect, Choose,
              serverVars, mapVars, targetVars
<1>3. ASSUME NEW t \in Tabs, Request(t) PROVE PostsEnd'
  BY <1>3 DEF Request, CreateSession, SessionHead, WriteChunk, targetVars
<1>4. ASSUME NEW s \in Ids, BodyEnds(s) \/ Expire(s) PROVE PostsEnd'
  BY <1>4 DEF BodyEnds, ChunkWritten, UploadCompleted, ChunkLost, Expire, targetVars, mapVars
<1>5. CASE Tick \/ CleanupAll \/ AcceptFails \/ Exit
  BY <1>5 DEF Tick, CleanupAll, AcceptFails, Exit, targetVars
<1>6. CASE UNCHANGED vars
  BY <1>6 DEF vars, serverVars, mapVars, targetVars
<1> QED
  BY <1>1, <1>2, <1>3, <1>4, <1>5, <1>6 DEF Next

Told == [t \in Tabs |-> IF pc[t] \in Resting THEN pc[t] ELSE "waiting"]

(* What a tab's step is to the abstract form: nothing that the user sees,  *)
(* unless its script returns.                                              *)
LEMMA Unseen ==
  ASSUME UNCHANGED <<target, committed, phase, file>>,
         \A t \in Tabs : \/ pc'[t] = pc[t]
                         \/ pc[t] \notin Resting /\ pc'[t] \notin Resting
  PROVE  UNCHANGED Form!vars
BY DEF Form!vars

LEMMA ReturnIsSeen ==
  ASSUME IInv, NEW t \in Tabs, NEW end \in Resting, pc[t] \notin Resting, Return(t, end),
         UNCHANGED serverVars, end = "saved" => file[t] \in committed
  PROVE  Form!Next
<1>1. UNCHANGED <<target, committed, phase, file>>
  BY DEF Return, serverVars, mapVars, targetVars
<1>2. Told' = [Told EXCEPT ![t] = end]
  BY DEF IInv, ScriptTypes, Return, Told
<1>3. Told[t] = "waiting"
  BY DEF Told
<1>4. CASE end = "saved"
  BY <1>1, <1>2, <1>3, <1>4 DEF Form!Next, Form!Hear, Told
<1>5. CASE end = "idle"
  BY <1>1, <1>2, <1>3, <1>5 DEF Form!Next, Form!GiveUp, Told
<1> QED
  BY <1>4, <1>5 DEF Resting

LEMMA ScriptRefines ==
  ASSUME IInv, NEW t \in Tabs, Script(t) \/ Disconnect(t)
  PROVE  [Form!Next]_(Form!vars)
<1>0. pc \in [Tabs -> Resting \cup Requested \cup Answered]
  BY DEF IInv, ScriptTypes
<1>1. CASE StoreId(t) \/ SendNext(t)
  <2>1. UNCHANGED <<target, committed, phase, file>>
    BY <1>1 DEF StoreId, SendNext, localVars, serverVars, mapVars, targetVars
  <2>2. pc[t] \notin Resting /\ pc'[t] \notin Resting /\ \A u \in Tabs \ {t} : pc'[u] = pc[u]
    BY <1>0, <1>1 DEF StoreId, SendNext, Fetch, Resting
  <2> QED
    BY <2>1, <2>2, Unseen
<1>2. CASE Saved(t)
  <2>1. file[t] \in committed /\ pc[t] \notin Resting
    BY <1>2 DEF Saved, IInv, Waits, Resting
  <2> QED
    BY <1>2, <2>1, ReturnIsSeen DEF Saved, Resting
<1>3. CASE Restart(t)
  <2>1. pc[t] \notin Resting /\ UNCHANGED serverVars
    BY <1>3 DEF Restart, Resting
  <2>2. CASE Again(t)
    <3>1. UNCHANGED <<target, committed, phase, file>>
      BY <2>1, <2>2 DEF Again, serverVars, mapVars, targetVars
    <3>2. pc'[t] \notin Resting /\ \A u \in Tabs \ {t} : pc'[u] = pc[u]
      BY <1>0, <2>2 DEF Again, Fetch, Resting
    <3> QED
      BY <2>1, <3>1, <3>2, Unseen
  <2>3. CASE Return(t, "idle")
    BY <2>1, <2>3, ReturnIsSeen DEF Resting
  <2> QED
    BY <1>3, <2>2, <2>3 DEF Restart
<1>4. CASE Throw(t) \/ Disconnect(t)
  <2>1. pc[t] \notin Resting /\ Return(t, "idle") /\ UNCHANGED serverVars
    BY <1>4 DEF Throw, Disconnect, Requested, Answered, Resting
  <2> QED
    BY <2>1, ReturnIsSeen DEF Resting
<1> QED
  BY <1>1, <1>2, <1>3, <1>4 DEF Script

LEMMA ChooseRefines ==
  ASSUME IInv, NEW t \in Tabs, NEW f \in Files, Choose(t, f)
  PROVE  [Form!Next]_(Form!vars)
<1>1. UNCHANGED <<target, committed, phase>> /\ file' = [file EXCEPT ![t] = f]
  BY DEF Choose, serverVars, mapVars, targetVars
<1>2. Told' = [Told EXCEPT ![t] = "waiting"]
  BY DEF IInv, ScriptTypes, Choose, Fetch, Told, Resting
<1>3. Told[t] # "waiting"
  BY DEF Choose, Told, Resting
<1>4. Form!Choose(t, f)
  BY <1>1, <1>2, <1>3 DEF Form!Choose, Told
<1> QED
  BY <1>4 DEF Form!Next

LEMMA RequestRefines ==
  ASSUME IInv, NEW t \in Tabs, Request(t)
  PROVE  [Form!Next]_(Form!vars)
<1>0. pc \in [Tabs -> Resting \cup Requested \cup Answered]
  BY DEF IInv, ScriptTypes
<1>1. UNCHANGED <<target, committed, phase, file>>
  BY DEF Request, CreateSession, SessionHead, WriteChunk, targetVars, localVars
<1>2. pc[t] \notin Resting /\ pc'[t] \notin Resting /\ \A u \in Tabs \ {t} : pc'[u] = pc[u]
  BY <1>0 DEF Request, CreateSession, SessionHead, HeadFound, HeadNotFound, WriteChunk,
              ChunkTaken, ChunkConflicts, ChunkNotFound, Fetch, Resting
<1> QED
  BY <1>1, <1>2, Unseen

(* The answer to a PATCH is not heard by the user either.                  *)
LEMMA AnswerIsUnseen ==
  ASSUME NEW s, NEW answer, Release(s, answer), answer \notin Resting
  PROVE  Told' = Told
<1> SUFFICES ASSUME NEW t \in Tabs PROVE Told'[t] = Told[t]
  BY DEF Told
<1>1. t \in Waiting(s) => pc[t] \notin Resting /\ pc'[t] \notin Resting
  BY DEF Release, Waiting, Resting
<1>2. t \notin Waiting(s) => pc'[t] = pc[t]
  BY DEF Release
<1> QED
  BY <1>1, <1>2 DEF Told

LEMMA BodyEndsRefines ==
  ASSUME IInv, NEW s \in Ids, BodyEnds(s)
  PROVE  [Form!Next]_(Form!vars)
<1>1. CASE ChunkWritten(s) \/ ChunkLost(s)
  <2>1. UNCHANGED <<target, committed, phase, file>>
    BY <1>1 DEF ChunkWritten, ChunkLost, targetVars, mapVars, localVars
  <2>2. Told' = Told
    BY <1>1, AnswerIsUnseen DEF ChunkWritten, ChunkLost, Resting
  <2> QED
    BY <2>1, <2>2 DEF Form!vars, Told
<1>2. CASE UploadCompleted(s)
  <2>1. PICK f \in Files : target' = Whole(f) /\ committed' = committed \cup {f}
    BY <1>2, CompletedIsWhole
  <2>2. Told' = Told
    BY <1>2, AnswerIsUnseen DEF UploadCompleted, Resting
  <2>3. phase # "stopped" /\ phase' = phase /\ file' = file
    BY <1>2 DEF UploadCompleted, Running, mapVars, localVars
  <2>4. Form!Place(f)
    BY <2>1, <2>2, <2>3 DEF Form!Place, Told
  <2> QED
    BY <2>4 DEF Form!Next
<1> QED
  BY <1>1, <1>2 DEF BodyEnds

LEMMA PostRefines ==
  ASSUME PostsEnd, NEW f \in Files, PostBegins(f) \/ PostEnds(f)
  PROVE  [Form!Next]_(Form!vars)
<1>1. UNCHANGED <<committed, phase, file, pc>>
  BY DEF PostBegins, PostEnds, mapVars, localVars
<1>2. CASE target' = target
  BY <1>1, <1>2 DEF Form!vars
<1>3. CASE target' # target
  <2>1. target' = Whole(f) /\ phase # "stopped"
    BY <1>3 DEF PostBegins, PostEnds, PostsEnd
  <2>2. Form!Replace(f)
    BY <1>1, <2>1 DEF Form!Replace
  <2> QED
    BY <2>2 DEF Form!Next
<1> QED
  BY <1>2, <1>3

LEMMA ListenerRefines ==
  ASSUME Tick \/ CleanupAll \/ AcceptFails \/ Exit \/ \E s \in Ids : Expire(s)
  PROVE  [Form!Next]_(Form!vars)
<1>1. UNCHANGED <<target, committed, file, pc>>
  BY DEF Tick, CleanupAll, AcceptFails, Exit, Expire, targetVars, localVars
<1>2. CASE Exit
  <2>1. Form!Close
    BY <1>1, <1>2 DEF Exit, Form!Close
  <2> QED
    BY <2>1 DEF Form!Next
<1>3. CASE ~Exit
  <2>1. (phase' # "stopped") = (phase # "stopped")
    BY <1>3 DEF Tick, CleanupAll, AcceptFails, Expire
  <2> QED
    BY <1>1, <2>1 DEF Form!vars
<1> QED
  BY <1>2, <1>3

(* Uploads in chunks, with retries, cut and repeated requests and several  *)
(* tabs, come to a form whose file is replaced in one step (ii.md:299).    *)
THEOREM ImplementsForm == Spec => ReplacesAtOnce
<1>1. Init => PostsEnd /\ Form!Init
  <2>1. Init => PostsEnd
    BY DEF Init, PostsEnd
  <2>2. AnyFile \in Files
    BY FilesAssumption DEF AnyFile
  <2>3. Init => Form!Init
    BY <2>2 DEF Init, Form!Init, Resting
  <2> QED
    BY <2>1, <2>3
<1>2. IInv /\ PostsEnd /\ [Next]_vars => [Form!Next]_(Form!vars)
  <2> SUFFICES ASSUME IInv, PostsEnd, [Next]_vars PROVE [Form!Next]_(Form!vars)
    OBVIOUS
  <2>1. CASE UNCHANGED vars
    BY <2>1 DEF vars, serverVars, mapVars, targetVars, localVars, Form!vars
  <2>2. CASE Next
    BY <2>2, PostRefines, ChooseRefines, ScriptRefines, RequestRefines, BodyEndsRefines,
       ListenerRefines DEF Next
  <2> QED
    BY <2>1, <2>2
<1> QED
  BY <1>1, <1>2, Invariance, PostsEndKept, PTL DEF Spec, ReplacesAtOnce, Form!Spec
=============================================================================
