--------------------------- MODULE FolderWatchProofs ---------------------------
(***************************************************************************)
(* Proofs about FolderWatch, for any directory, number of changes and      *)
(* --stabilize.  The inductive invariant says that what a path's scans     *)
(* find only grows, as long as no old version is put back, and so that a   *)
(* stamp cannot be pending for longer than every scan has found it.        *)
(***************************************************************************)
EXTENDS FolderWatch, FiniteSetTheorems, SequenceTheorems, TLAPS

Stamps == Versions \cup {Absent}
Entries == [stamp : Stamps, age : 0..Stabilize]

Types ==
    /\ files \in [Paths -> Stamps]
    /\ phase \in {"scan", "sleep", "rescan", "send", "ended"}
    /\ entry \in Paths \cup {NoPath}
    /\ current \in [Paths -> Stamps]
    /\ seen \in [Paths -> Stamps]
    /\ queued \in [Paths -> Stamps]
    /\ pending \in [Paths -> Entries]
    /\ steady \in [Paths -> Entries]
    /\ jobs \in Seq(Paths)
    /\ writes \in 0..MaxWrites

(* Only what the filters or --symlinks list is found, and queued.          *)
OnlyListed == /\ \A p \in Paths : current[p] # Absent => p \in Listed
              /\ \A i \in 1..Len(jobs) : jobs[i] \in Listed

(* There are jobs only while they are sent, and stamps that are not stable *)
(* only in the loop.                                                       *)
JobsOnlyToSend ==
    /\ phase \in {"scan", "sleep", "rescan"} => jobs = <<>>
    /\ phase = "scan" => \A p \in Paths : pending[p] = NotPending

(* No stamp is newer than the last change.                                 *)
NoneIsNewer(p) ==
    /\ files[p] <= writes + 1
    /\ current[p] <= writes + 1
    /\ steady[p].stamp <= writes + 1

(* What is seen, what the last scan found, what this one finds and what is *)
(* there now: each is at least as new as the one before, if there is one.  *)
Grows(p) ==
    /\ seen[p] <= steady[p].stamp
    /\ current[p] # Absent => steady[p].stamp <= current[p]
    /\ files[p] # Absent => steady[p].stamp <= files[p] /\ current[p] <= files[p]

(* A pending stamp is what every scan has found since it is pending.       *)
PendingIsSteady(p) ==
    pending[p] # NotPending =>
        /\ steady[p].stamp = pending[p].stamp
        /\ pending[p].age <= steady[p].age
        /\ seen[p] < pending[p].stamp

StableJobs == \A i \in 1..Len(jobs) :
                 jobs[i] \in restored \/ steady[jobs[i]].age >= Stabilize

(* Until something else is found, a path was last queued with what is seen.*)
QueuedIsSeen == \A p \in Paths : p \in changed \/ queued[p] = seen[p]

IInv == /\ Types
        /\ OnlyListed
        /\ JobsOnlyToSend
        /\ \A p \in Paths : NoneIsNewer(p)
        /\ \A p \in Paths \ restored : Grows(p) /\ PendingIsSteady(p)
        /\ StableJobs
        /\ QueuedIsSeen
-----------------------------------------------------------------------------
(* A finite set in some order: nothing else is in the sequence.            *)
LEMMA SetToSeqIsInside ==
    ASSUME NEW S, IsFiniteSet(S)
    PROVE  /\ SetToSeq(S) \in Seq(S)
           /\ \A i \in 1..Len(SetToSeq(S)) : SetToSeq(S)[i] \in S
<1> DEFINE n == Cardinality(S)
<1>1. n \in Nat /\ ExistsBijection(1..n, S)
  BY FS_CardinalityType
<1>2. \E f \in [1..n -> S] : IsInjective(f)
  BY <1>1 DEF ExistsBijection, Bijection, Injection, IsInjective
<1>3. SetToSeq(S) \in [1..n -> S]
  BY <1>2 DEF SetToSeq
<1>4. SetToSeq(S) \in Seq(S) /\ Len(SetToSeq(S)) = n
  BY <1>1, <1>3, SeqDef, LenProperties
<1> QED
  BY <1>3, <1>4

(* What time does to an entry, to two of them, and to the paths.           *)
LEMMA OlderIs ==
    ASSUME NEW e \in Entries
    PROVE  /\ Older(e) \in Entries
           /\ Older(e).stamp = e.stamp
           /\ e.age <= Older(e).age
           /\ Older(e) # NotPending <=> e # NotPending
<1>1. e = [stamp |-> e.stamp, age |-> e.age] /\ e.stamp \in Stamps /\ e.age \in 0..Stabilize
  BY DEF Entries
<1>2. CASE e # NotPending /\ e.age < Stabilize
  <2>1. Older(e) = [stamp |-> e.stamp, age |-> e.age + 1]
    BY <1>1, <1>2 DEF Older, Entries
  <2>2. e.age + 1 \in 0..Stabilize /\ e.age <= e.age + 1 /\ e.age + 1 # 0
    BY <1>1, <1>2, BoundsAssumption
  <2> QED
    BY <1>1, <1>2, <2>1, <2>2 DEF Entries, NotPending
<1>3. CASE ~(e # NotPending /\ e.age < Stabilize)
  <2>1. Older(e) = e /\ e.age <= e.age
    BY <1>1, <1>3, BoundsAssumption DEF Older
  <2> QED
    BY <2>1
<1> QED
  BY <1>2, <1>3

LEMMA AgeTogether ==
    ASSUME NEW e \in Entries, NEW f \in Entries, f # NotPending, e.age <= f.age
    PROVE  Older(e).age <= Older(f).age
<1>1. e.age \in 0..Stabilize /\ f.age \in 0..Stabilize
  BY DEF Entries
<1>2. CASE f.age < Stabilize
  <2>1. Older(f).age = f.age + 1
    BY <1>2 DEF Older, Entries
  <2>2. Older(e).age = e.age \/ Older(e).age = e.age + 1
    BY DEF Older, Entries
  <2> QED
    BY <1>1, <2>1, <2>2, BoundsAssumption
<1>3. CASE ~(f.age < Stabilize)
  <2>1. Older(f) = f
    BY <1>3 DEF Older
  <2>2. f.age = Stabilize
    BY <1>1, <1>3, BoundsAssumption
  <2>3. Older(e).age \in 0..Stabilize
    BY OlderIs DEF Entries
  <2> QED
    BY <2>1, <2>2, <2>3, BoundsAssumption
<1> QED
  BY <1>2, <1>3

LEMMA TimeKeeps ==
    ASSUME Types, TimePasses
    PROVE  /\ pending' \in [Paths -> Entries] /\ steady' \in [Paths -> Entries]
           /\ \A p \in Paths :
                /\ steady'[p].stamp = steady[p].stamp /\ pending'[p].stamp = pending[p].stamp
                /\ steady[p].age <= steady'[p].age
                /\ pending'[p] # NotPending <=> pending[p] # NotPending
                /\ steady[p] # NotPending /\ pending[p].age <= steady[p].age
                     => pending'[p].age <= steady'[p].age
<1>1. \A p \in Paths : pending[p] \in Entries /\ steady[p] \in Entries
  BY DEF Types
<1>2. /\ pending' = [p \in Paths |-> Older(pending[p])]
      /\ steady' = [p \in Paths |-> Older(steady[p])]
  BY DEF TimePasses
<1> QED
  BY <1>1, <1>2, OlderIs, AgeTogether

(* So a pending stamp stays steady while time passes.                      *)
LEMMA AgedFits ==
    ASSUME Types, NEW p \in Paths, pending'[p] # NotPending => pending[p] # NotPending,
           steady'[p].stamp = steady[p].stamp, pending'[p].stamp = pending[p].stamp,
           pending' \in [Paths -> Entries], steady' \in [Paths -> Entries], seen' = seen,
           steady[p] # NotPending /\ pending[p].age <= steady[p].age
             => pending'[p].age <= steady'[p].age,
           PendingIsSteady(p)
    PROVE  PendingIsSteady(p)'
<1>1. SUFFICES ASSUME pending'[p] # NotPending
               PROVE  /\ steady'[p].stamp = pending'[p].stamp
                      /\ pending'[p].age <= steady'[p].age
                      /\ seen[p] < pending'[p].stamp
  BY DEF PendingIsSteady
<1>2. /\ steady[p].stamp = pending[p].stamp
      /\ pending[p].age <= steady[p].age
      /\ seen[p] < pending[p].stamp
  BY <1>1 DEF PendingIsSteady
<1>3. steady[p] # NotPending
  <2>1. seen[p] \in Nat
    BY BoundsAssumption DEF Types, Stamps, Versions, Absent
  <2>2. steady[p].stamp # 0
    BY <1>2, <2>1
  <2> QED
    BY <2>2 DEF NotPending, Absent
<1> QED
  BY <1>2, <1>3

(* An entry after a scan has what the scan has found; and the one that is  *)
(* pending is no older than what is steady.                                *)
LEMMA SinceIs ==
    ASSUME Types, NEW p \in Paths, NEW e \in Entries
    PROVE  Since(e, p) \in Entries /\ Since(e, p).stamp = current[p]
<1>1. [stamp |-> current[p], age |-> 0] \in Entries
  BY BoundsAssumption DEF Types, Entries
<1> QED
  BY <1>1 DEF Since

LEMMA SinceAges ==
    ASSUME NEW p \in Paths, PendingIsSteady(p), current[p] # Absent,
           pending[p] \in Entries, steady[p] \in Entries
    PROVE  Since(pending[p], p).age <= Since(steady[p], p).age
<1>1. pending[p].age \in Nat /\ steady[p].age \in Nat
  BY BoundsAssumption DEF Entries
<1>2. CASE pending[p].stamp = current[p]
  <2>1. pending[p] # NotPending
    BY <1>2 DEF NotPending
  <2>2. /\ steady[p].stamp = current[p]
        /\ pending[p].age <= steady[p].age
    BY <1>2, <2>1 DEF PendingIsSteady
  <2> QED
    BY <1>2, <2>2 DEF Since
<1>3. CASE pending[p].stamp # current[p]
  <2>1. Since(pending[p], p).age = 0
    BY <1>3 DEF Since
  <2>2. Since(steady[p], p).age \in Nat
    BY <1>1 DEF Since
  <2> QED
    BY <2>1, <2>2
<1> QED
  BY <1>2, <1>3

(* The loop queues stable paths only.                                      *)
LEMMA QueuesStable ==
    ASSUME QueuesJobs
    PROVE  /\ jobs' \in Seq(Paths)
           /\ \A i \in 1..Len(jobs') : jobs'[i] \in Paths /\ Stable(jobs'[i])
           /\ \A p \in ToSet(jobs') : Stable(p)
<1> DEFINE S == {q \in Paths : Stable(q)}
<1>1. IsFiniteSet(S)
  BY PathsAssumption, FS_Subset
<1>2. jobs' = SetToSeq(S)
  BY DEF QueuesJobs
<1>3. jobs' \in Seq(S) /\ \A i \in 1..Len(jobs') : jobs'[i] \in S
  BY <1>1, <1>2, SetToSeqIsInside
<1>4. DOMAIN jobs' = 1..Len(jobs')
  BY <1>3, LenProperties
<1> QED
  BY <1>3, <1>4 DEF ToSet

(* One lemma for each step: the directory's,                               *)
LEMMA WritesFileKeeps ==
    ASSUME IInv, NEW p \in Paths, WritesFile(p)
    PROVE  IInv'
<1>1. Types'
  BY PathsAssumption, BoundsAssumption
     DEF IInv, Types, Stamps, Entries, NoPath, Versions, Absent, WritesFile, Others, watchVars
<1>2. OnlyListed'
  BY DEF IInv, OnlyListed, Absent, Listed, WritesFile, Others, watchVars
<1>3. JobsOnlyToSend'
  BY DEF IInv, JobsOnlyToSend, NotPending, Absent, WritesFile, Others, watchVars
<1>4. ASSUME NEW q \in Paths PROVE NoneIsNewer(q)'
  <2>1. /\ files[q] \in Int /\ current[q] \in Int /\ steady[q].stamp \in Int /\ writes \in Nat
        /\ files[q] <= writes + 1 /\ current[q] <= writes + 1 /\ steady[q].stamp <= writes + 1
    BY <1>4, BoundsAssumption DEF IInv, Types, NoneIsNewer, Stamps, Versions, Absent, Entries
  <2>2. files'[q] = files[q] \/ files'[q] = writes + 2
    BY <1>4 DEF IInv, Types, WritesFile, Others
  <2>3. writes' = writes + 1 /\ current' = current /\ steady' = steady
    BY DEF WritesFile, Others, watchVars
  <2> QED
    BY <2>1, <2>2, <2>3 DEF NoneIsNewer
<1>5. ASSUME NEW q \in Paths \ restored' PROVE Grows(q)'
  <2>1. /\ current[q] \in Int /\ steady[q].stamp \in Int /\ writes \in Nat
        /\ current[q] <= writes + 1 /\ steady[q].stamp <= writes + 1
    BY <1>5, BoundsAssumption DEF IInv, Types, NoneIsNewer, Stamps, Versions, Absent, Entries
  <2>2. files'[q] = files[q] \/ files'[q] = writes + 2
    BY <1>5 DEF IInv, Types, WritesFile, Others
  <2>3. Grows(q) /\ seen' = seen /\ current' = current /\ steady' = steady
    BY <1>5 DEF IInv, WritesFile, Others, watchVars
  <2> QED
    BY <2>1, <2>2, <2>3 DEF Grows
<1>6. ASSUME NEW q \in Paths \ restored' PROVE PendingIsSteady(q)'
  BY <1>6, PathsAssumption, BoundsAssumption
     DEF IInv, PendingIsSteady, NotPending, Absent, WritesFile, Others, watchVars
<1>7. StableJobs'
  BY DEF IInv, StableJobs, WritesFile, Others, watchVars
<1>8. QueuedIsSeen'
  BY DEF IInv, QueuedIsSeen, WritesFile, Others, watchVars
<1> QED
  BY <1>1, <1>2, <1>3, <1>4, <1>5, <1>6, <1>7, <1>8 DEF IInv

LEMMA RemovesFileKeeps ==
    ASSUME IInv, NEW p \in Paths, RemovesFile(p)
    PROVE  IInv'
<1>1. Types'
  BY PathsAssumption, BoundsAssumption
     DEF IInv, Types, Stamps, Entries, NoPath, Versions, Absent, RemovesFile, Others, watchVars
<1>2. OnlyListed'
  BY DEF IInv, OnlyListed, Absent, Listed, RemovesFile, Others, watchVars
<1>3. JobsOnlyToSend'
  BY DEF IInv, JobsOnlyToSend, NotPending, Absent, RemovesFile, Others, watchVars
<1>4. ASSUME NEW q \in Paths PROVE NoneIsNewer(q)'
  <2>1. /\ files[q] \in Int /\ current[q] \in Int /\ steady[q].stamp \in Int /\ writes \in Nat
        /\ files[q] <= writes + 1 /\ current[q] <= writes + 1 /\ steady[q].stamp <= writes + 1
    BY <1>4, BoundsAssumption DEF IInv, Types, NoneIsNewer, Stamps, Versions, Absent, Entries
  <2>2. files'[q] = files[q] \/ files'[q] = 0
    BY <1>4 DEF IInv, Types, RemovesFile, Others, Absent
  <2>3. writes' = writes + 1 /\ current' = current /\ steady' = steady
    BY DEF RemovesFile, Others, watchVars
  <2> QED
    BY <2>1, <2>2, <2>3 DEF NoneIsNewer
<1>5. ASSUME NEW q \in Paths \ restored' PROVE Grows(q)'
  BY <1>5, PathsAssumption, BoundsAssumption
     DEF IInv, Grows, Absent, RemovesFile, Others, watchVars
<1>6. ASSUME NEW q \in Paths \ restored' PROVE PendingIsSteady(q)'
  BY <1>6, PathsAssumption, BoundsAssumption
     DEF IInv, PendingIsSteady, NotPending, Absent, RemovesFile, Others, watchVars
<1>7. StableJobs'
  BY DEF IInv, StableJobs, RemovesFile, Absent, Others, watchVars
<1>8. QueuedIsSeen'
  BY DEF IInv, QueuedIsSeen, RemovesFile, Absent, Others, watchVars
<1> QED
  BY <1>1, <1>2, <1>3, <1>4, <1>5, <1>6, <1>7, <1>8 DEF IInv

LEMMA RestoresFileKeeps ==
    ASSUME IInv, NEW p \in Paths, RestoresFile(p)
    PROVE  IInv'
<1>1. Types'
  BY PathsAssumption, BoundsAssumption
     DEF IInv, Types, Stamps, Entries, NoPath, Versions, Absent, RestoresFile, Others, watchVars
<1>2. OnlyListed'
  BY DEF IInv, OnlyListed, Absent, Listed, RestoresFile, Others, watchVars
<1>3. JobsOnlyToSend'
  BY DEF IInv, JobsOnlyToSend, NotPending, Absent, RestoresFile, Others, watchVars
<1>4. ASSUME NEW q \in Paths PROVE NoneIsNewer(q)'
  BY <1>4, PathsAssumption, BoundsAssumption
     DEF IInv, NoneIsNewer, RestoresFile, Others, watchVars
<1>5. ASSUME NEW q \in Paths \ restored' PROVE Grows(q)'
  BY <1>5, PathsAssumption, BoundsAssumption
     DEF IInv, Grows, Absent, RestoresFile, Others, watchVars
<1>6. ASSUME NEW q \in Paths \ restored' PROVE PendingIsSteady(q)'
  BY <1>6, PathsAssumption, BoundsAssumption
     DEF IInv, PendingIsSteady, NotPending, Absent, RestoresFile, Others, watchVars
<1>7. StableJobs'
  BY DEF IInv, StableJobs, RestoresFile, Others, watchVars
<1>8. QueuedIsSeen'
  BY DEF IInv, QueuedIsSeen, RestoresFile, Others, watchVars
<1> QED
  BY <1>1, <1>2, <1>3, <1>4, <1>5, <1>6, <1>7, <1>8 DEF IInv

(* those of a scan,                                                        *)
LEMMA ReadsEntryKeeps ==
    ASSUME IInv, NEW p \in Paths, ReadsEntry(p)
    PROVE  IInv'
<1>1. Types'
  BY PathsAssumption, BoundsAssumption
     DEF IInv, Types, Stamps, Entries, NoPath, Versions, Absent, ReadsEntry, history
<1>2. OnlyListed'
  BY DEF IInv, OnlyListed, Absent, Listed, ReadsEntry, NoPath, history
<1>3. JobsOnlyToSend'
  BY DEF IInv, JobsOnlyToSend, NotPending, Absent, ReadsEntry, NoPath, history
<1>4. ASSUME NEW q \in Paths PROVE NoneIsNewer(q)'
  BY <1>4, PathsAssumption, BoundsAssumption
     DEF IInv, NoneIsNewer, ReadsEntry, Absent, NoPath, history
<1>5. ASSUME NEW q \in Paths \ restored' PROVE Grows(q)'
  BY <1>5, PathsAssumption, BoundsAssumption
     DEF IInv, Grows, Absent, ReadsEntry, NoPath, history
<1>6. ASSUME NEW q \in Paths \ restored' PROVE PendingIsSteady(q)'
  BY <1>6, PathsAssumption, BoundsAssumption
     DEF IInv, PendingIsSteady, NotPending, Absent, ReadsEntry, NoPath, history
<1>7. StableJobs'
  BY DEF IInv, StableJobs, ReadsEntry, Absent, NoPath, history
<1>8. QueuedIsSeen'
  BY DEF IInv, QueuedIsSeen, ReadsEntry, Absent, NoPath, history
<1> QED
  BY <1>1, <1>2, <1>3, <1>4, <1>5, <1>6, <1>7, <1>8 DEF IInv

LEMMA ReadsMetadataKeeps ==
    ASSUME IInv, ReadsMetadata
    PROVE  IInv'
<1>1. Types'
  BY PathsAssumption, BoundsAssumption
     DEF IInv, Types, Stamps, Entries, NoPath, Versions, Absent, ReadsMetadata, history, Listed
<1>2. OnlyListed'
  BY DEF IInv, OnlyListed, Absent, Listed, ReadsMetadata, NoPath, history
<1>3. JobsOnlyToSend'
  BY DEF IInv, JobsOnlyToSend, NotPending, Absent, ReadsMetadata, NoPath, history, Listed
<1>4. ASSUME NEW q \in Paths PROVE NoneIsNewer(q)'
  BY <1>4, PathsAssumption, BoundsAssumption
     DEF IInv, NoneIsNewer, Types, Stamps, Entries, NoPath, Versions, Absent, ReadsMetadata,
         history, Listed
<1>5. ASSUME NEW q \in Paths \ restored' PROVE Grows(q)'
  BY <1>5, PathsAssumption, BoundsAssumption
     DEF IInv, Grows, Types, Absent, Stamps, Entries, NoPath, Versions, ReadsMetadata, history,
         Listed
<1>6. ASSUME NEW q \in Paths \ restored' PROVE PendingIsSteady(q)'
  BY <1>6, PathsAssumption, BoundsAssumption
     DEF IInv, PendingIsSteady, NotPending, Absent, ReadsMetadata, NoPath, history, Listed
<1>7. StableJobs'
  BY DEF IInv, StableJobs, ReadsMetadata, Absent, NoPath, history, Listed
<1>8. QueuedIsSeen'
  BY DEF IInv, QueuedIsSeen, ReadsMetadata, Absent, NoPath, history, Listed
<1> QED
  BY <1>1, <1>2, <1>3, <1>4, <1>5, <1>6, <1>7, <1>8 DEF IInv

LEMMA ScanFailsKeeps ==
    ASSUME IInv, ScanFails
    PROVE  IInv'
<1>1. Types'
  BY PathsAssumption, BoundsAssumption
     DEF IInv, Types, Stamps, Entries, NoPath, Versions, Absent, ScanFails, history
<1>2. OnlyListed'
  BY DEF IInv, OnlyListed, Absent, Listed, ScanFails, NoPath, history
<1>3. JobsOnlyToSend'
  BY DEF IInv, JobsOnlyToSend, NotPending, Absent, ScanFails, NoPath, history
<1>4. ASSUME NEW q \in Paths PROVE NoneIsNewer(q)'
  BY <1>4, PathsAssumption, BoundsAssumption
     DEF IInv, NoneIsNewer, ScanFails, Absent, NoPath, history
<1>5. ASSUME NEW q \in Paths \ restored' PROVE Grows(q)'
  BY <1>5, PathsAssumption, BoundsAssumption DEF IInv, Grows, Absent, ScanFails, NoPath, history
<1>6. ASSUME NEW q \in Paths \ restored' PROVE PendingIsSteady(q)'
  BY <1>6, PathsAssumption, BoundsAssumption
     DEF IInv, PendingIsSteady, NotPending, Absent, ScanFails, NoPath, history
<1>7. StableJobs'
  BY DEF IInv, StableJobs, ScanFails, Absent, NoPath, history
<1>8. QueuedIsSeen'
  BY DEF IInv, QueuedIsSeen, ScanFails, Absent, NoPath, history
<1> QED
  BY <1>1, <1>2, <1>3, <1>4, <1>5, <1>6, <1>7, <1>8 DEF IInv

LEMMA FirstScanKeeps ==
    ASSUME IInv, FirstScan
    PROVE  IInv'
<1>1. Types'
  BY PathsAssumption, BoundsAssumption
     DEF IInv, Types, Stamps, Entries, NoPath, Versions, Absent, FirstScan, Scanned
<1>2. OnlyListed'
  BY DEF IInv, OnlyListed, Absent, Listed, FirstScan, Scanned, NoPath
<1>3. JobsOnlyToSend'
  BY DEF IInv, JobsOnlyToSend, NotPending, Absent, FirstScan, Scanned, NoPath
<1>4. ASSUME NEW q \in Paths PROVE NoneIsNewer(q)'
  BY <1>4, PathsAssumption, BoundsAssumption DEF IInv, NoneIsNewer, FirstScan, Scanned, NoPath
<1>5. ASSUME NEW q \in Paths \ restored' PROVE Grows(q)'
  BY <1>5, PathsAssumption, BoundsAssumption
     DEF IInv, Grows, Types, Absent, Stamps, Entries, NoPath, Versions, FirstScan, Scanned
<1>6. ASSUME NEW q \in Paths \ restored' PROVE PendingIsSteady(q)'
  BY <1>6 DEF IInv, JobsOnlyToSend, PendingIsSteady, FirstScan, Scanned
<1>7. StableJobs'
  <2>1. jobs' = <<>> /\ Len(jobs') = 0
    BY EmptySeq DEF IInv, JobsOnlyToSend, FirstScan, Scanned
  <2> QED
    BY <2>1 DEF StableJobs
<1>8. QueuedIsSeen'
  BY DEF IInv, QueuedIsSeen, FirstScan, Scanned, NoPath
<1> QED
  BY <1>1, <1>2, <1>3, <1>4, <1>5, <1>6, <1>7, <1>8 DEF IInv

(* and those of the loop.                                                  *)
LEMMA SleepsKeeps ==
    ASSUME IInv, Sleeps
    PROVE  IInv'
<1>1. /\ pending' \in [Paths -> Entries] /\ steady' \in [Paths -> Entries]
      /\ \A p \in Paths :
           /\ steady'[p].stamp = steady[p].stamp /\ pending'[p].stamp = pending[p].stamp
           /\ steady[p].age <= steady'[p].age
           /\ pending'[p] # NotPending => pending[p] # NotPending
           /\ steady[p] # NotPending /\ pending[p].age <= steady[p].age
                => pending'[p].age <= steady'[p].age
  BY TimeKeeps DEF IInv, Sleeps
<1>2. Types'
  BY <1>1 DEF IInv, Types, Sleeps, Nowhere, Stamps
<1>3. OnlyListed'
  BY DEF IInv, OnlyListed, Absent, Listed, Sleeps, Nowhere
<1>4. JobsOnlyToSend'
  BY DEF IInv, JobsOnlyToSend, NotPending, Absent, Sleeps, Nowhere
<1>5. ASSUME NEW q \in Paths PROVE NoneIsNewer(q)'
  BY <1>5, <1>1, BoundsAssumption DEF IInv, Types, NoneIsNewer, Sleeps, Nowhere, Absent
<1>6. ASSUME NEW q \in Paths \ restored' PROVE Grows(q)'
  <2>1. Grows(q) /\ current'[q] = 0 /\ steady'[q].stamp = steady[q].stamp
    BY <1>6, <1>1 DEF IInv, Sleeps, Nowhere, Absent
  <2>2. files' = files /\ seen' = seen /\ files[q] \in Nat
    BY <1>6, BoundsAssumption DEF IInv, Types, Stamps, Versions, Absent, Sleeps
  <2> QED
    BY <2>1, <2>2 DEF Grows, Absent
<1>7. ASSUME NEW q \in Paths \ restored' PROVE PendingIsSteady(q)'
  BY <1>7, <1>1, AgedFits DEF IInv, Sleeps
<1>8. StableJobs'
  BY <1>1 DEF IInv, JobsOnlyToSend, StableJobs, Sleeps
<1>9. QueuedIsSeen'
  BY DEF IInv, QueuedIsSeen, Sleeps, Nowhere, Absent
<1> QED
  BY <1>2, <1>3, <1>4, <1>5, <1>6, <1>7, <1>8, <1>9 DEF IInv

LEMMA QueuesJobsKeeps ==
    ASSUME IInv, QueuesJobs
    PROVE  IInv'
<1>1. jobs' \in Seq(Paths) /\ \A i \in 1..Len(jobs') : jobs'[i] \in Paths /\ Stable(jobs'[i])
  BY QueuesStable
<1>2. \A q \in Paths :
         /\ seen'[q] = IF Stable(q) \/ current[q] = Absent THEN current[q] ELSE seen[q]
         /\ pending'[q] = IF Stable(q) \/ current[q] = Absent THEN NotPending
                          ELSE IF New(q) THEN Since(pending[q], q) ELSE pending[q]
         /\ queued'[q] = IF Stable(q) THEN current[q] ELSE queued[q]
         /\ steady'[q] = Since(steady[q], q)
         /\ Stable(q) \/ q \in changed' \/ (q \notin changed /\ current[q] = queued[q])
  <2> SUFFICES ASSUME NEW q \in Paths
               PROVE  /\ seen'[q] = IF Stable(q) \/ current[q] = Absent
                                    THEN current[q] ELSE seen[q]
                      /\ pending'[q] = IF Stable(q) \/ current[q] = Absent THEN NotPending
                                       ELSE IF New(q) THEN Since(pending[q], q) ELSE pending[q]
                      /\ queued'[q] = IF Stable(q) THEN current[q] ELSE queued[q]
                      /\ steady'[q] = Since(steady[q], q)
                      /\ \/ Stable(q)
                         \/ q \in changed'
                         \/ (q \notin changed /\ current[q] = queued[q])
    OBVIOUS
  <2> DEFINE S == {p \in Paths : Stable(p)}
  <2>1. q \in S <=> Stable(q)
    OBVIOUS
  <2>2. changed' = (changed \ S) \cup {p \in Paths \ S : current[p] # queued[p]}
    BY DEF QueuesJobs
  <2> HIDE DEF S
  <2>3. q \in S \/ q \in changed' \/ (q \notin changed /\ current[q] = queued[q])
    <3>1. CASE q \in S \/ q \in changed \ S
      BY <2>2, <3>1
    <3>2. CASE q \notin S /\ q \notin changed
      <4>1. current[q] # queued[q] => q \in changed'
        BY <2>2, <3>2
      <4> QED
        BY <3>2, <4>1
    <3> QED
      BY <3>1, <3>2
  <2>4. /\ seen'[q] = IF q \in S \/ current[q] = Absent THEN current[q] ELSE seen[q]
        /\ pending'[q] = IF q \in S \/ current[q] = Absent THEN NotPending
                         ELSE IF New(q) THEN Since(pending[q], q) ELSE pending[q]
        /\ queued'[q] = IF q \in S THEN current[q] ELSE queued[q]
        /\ steady'[q] = Since(steady[q], q)
    BY DEF QueuesJobs, Remember, AfterScan, S
  <2> QED
    BY <2>1, <2>3, <2>4
<1>3. \A q \in Paths : /\ pending[q] \in Entries /\ steady[q] \in Entries
                       /\ Since(pending[q], q) \in Entries /\ Since(steady[q], q) \in Entries
                       /\ Since(pending[q], q).stamp = current[q]
                       /\ Since(steady[q], q).stamp = current[q]
  BY SinceIs DEF IInv, Types
<1>4. UNCHANGED <<files, current, writes, restored>> /\ phase' = "send" /\ entry' = entry
  BY DEF QueuesJobs
<1>5. Types'
  <2>1. NotPending \in Entries
    BY BoundsAssumption DEF NotPending, Entries, Stamps
  <2>2. \A q \in Paths : /\ seen'[q] \in Stamps /\ queued'[q] \in Stamps
                         /\ pending'[q] \in Entries /\ steady'[q] \in Entries
    BY <1>2, <1>3, <2>1 DEF IInv, Types
  <2>3. /\ DOMAIN seen' = Paths /\ seen' = [q \in Paths |-> seen'[q]]
        /\ DOMAIN queued' = Paths /\ queued' = [q \in Paths |-> queued'[q]]
        /\ DOMAIN pending' = Paths /\ pending' = [q \in Paths |-> pending'[q]]
        /\ DOMAIN steady' = Paths /\ steady' = [q \in Paths |-> steady'[q]]
    BY DEF QueuesJobs, Remember
  <2> QED
    BY <1>1, <1>4, <2>2, <2>3 DEF IInv, Types
<1>6. OnlyListed'
  BY <1>1, <1>4 DEF IInv, OnlyListed, Stable, New
<1>7. JobsOnlyToSend'
  BY DEF IInv, JobsOnlyToSend, NotPending, Absent, QueuesJobs, Scanned, NoPath
<1>8. ASSUME NEW q \in Paths PROVE NoneIsNewer(q)'
  BY <1>8, <1>2, <1>3, <1>4 DEF IInv, NoneIsNewer
<1>9. ASSUME NEW q \in Paths \ restored' PROVE Grows(q)'
  <2>1. /\ seen'[q] \in {current[q], seen[q]} /\ (current[q] = Absent => seen'[q] = Absent)
        /\ steady'[q].stamp = current[q]
    BY <1>9, <1>2, <1>3
  <2>2. Grows(q) /\ files' = files /\ current' = current
    BY <1>9, <1>4 DEF IInv
  <2>3. /\ seen[q] \in Int /\ current[q] \in Int /\ steady[q].stamp \in Int /\ files[q] \in Int
    BY <1>9, BoundsAssumption DEF IInv, Types, Stamps, Versions, Absent, Entries
  <2> QED
    BY <2>1, <2>2, <2>3 DEF Grows, Absent
<1>10. ASSUME NEW q \in Paths \ restored' PROVE PendingIsSteady(q)'
  <2>1. /\ Grows(q) /\ PendingIsSteady(q) /\ current' = current
        /\ seen[q] \in Nat /\ current[q] \in Nat /\ steady[q].stamp \in Nat
    BY <1>10, <1>4, BoundsAssumption DEF IInv, Types, Stamps, Versions, Absent, Entries
  <2>2. SUFFICES ASSUME pending'[q] # NotPending
                 PROVE  /\ steady'[q].stamp = pending'[q].stamp
                        /\ pending'[q].age <= steady'[q].age
                        /\ seen'[q] < pending'[q].stamp
    BY DEF PendingIsSteady
  <2>3. current[q] # Absent /\ seen'[q] = seen[q] /\ ~Stable(q)
    BY <1>10, <1>2, <2>2
  <2>4. seen[q] <= current[q]
    BY <2>1, <2>3 DEF Grows
  <2>5. CASE New(q)
    <3>1. pending'[q] = Since(pending[q], q) /\ steady'[q] = Since(steady[q], q)
      BY <1>10, <1>2, <2>3, <2>5
    <3>2. seen[q] < current[q]
      BY <2>1, <2>4, <2>5 DEF New
    <3>3. Since(pending[q], q).age <= Since(steady[q], q).age
      BY <1>3, <2>1, <2>3, SinceAges
    <3> QED
      BY <1>3, <2>3, <3>1, <3>2, <3>3
  <2>6. CASE ~New(q)
    <3>1. current[q] = seen[q] /\ pending[q] # NotPending
      BY <1>10, <1>2, <2>2, <2>3, <2>6 DEF New
    <3>2. seen[q] < steady[q].stamp /\ steady[q].stamp <= current[q]
      BY <2>1, <2>3, <3>1 DEF PendingIsSteady, Grows
    <3> QED
      BY <2>1, <3>1, <3>2
  <2> QED
    BY <2>5, <2>6
<1>11. StableJobs'
  <2>1. SUFFICES ASSUME NEW i \in 1..Len(jobs'), jobs'[i] \notin restored
                 PROVE  steady'[jobs'[i]].age >= Stabilize
    BY <1>4 DEF StableJobs
  <2>2. PICK q \in Paths \ restored : q = jobs'[i] /\ Stable(q)
    BY <1>1, <2>1
  <2>3. /\ Since(pending[q], q).age >= Stabilize
        /\ current[q] # Absent
    BY <2>2 DEF Stable, AfterScan, New
  <2>4. Since(pending[q], q).age <= Since(steady[q], q).age
    BY <1>3, <2>2, <2>3, SinceAges DEF IInv
  <2>5. Since(pending[q], q).age \in Nat /\ Since(steady[q], q).age \in Nat
    BY <1>3, BoundsAssumption DEF Entries
  <2>6. Since(steady[q], q).age >= Stabilize
    BY <2>3, <2>4, <2>5, BoundsAssumption
  <2> QED
    BY <1>2, <2>2, <2>6
<1>12. QueuedIsSeen'
  <2>1. SUFFICES ASSUME NEW q \in Paths, q \notin changed'
                 PROVE  queued'[q] = seen'[q]
    BY DEF QueuedIsSeen
  <2>2. CASE Stable(q)
    BY <1>2, <2>2
  <2>3. CASE ~Stable(q)
    BY <1>2, <2>1, <2>3 DEF IInv, QueuedIsSeen
  <2> QED
    BY <2>2, <2>3
<1> QED
  BY <1>5, <1>6, <1>7, <1>8, <1>9, <1>10, <1>11, <1>12 DEF IInv

LEMMA SendsKeeps ==
    ASSUME IInv, Sends
    PROVE  IInv'
<1>1. /\ pending' \in [Paths -> Entries] /\ steady' \in [Paths -> Entries]
      /\ \A p \in Paths :
           /\ steady'[p].stamp = steady[p].stamp /\ pending'[p].stamp = pending[p].stamp
           /\ steady[p].age <= steady'[p].age
           /\ pending'[p] # NotPending => pending[p] # NotPending
           /\ steady[p] # NotPending /\ pending[p].age <= steady[p].age
                => pending'[p].age <= steady'[p].age
  <2>1. CASE TimePasses
    BY <2>1, TimeKeeps DEF IInv
  <2>2. CASE UNCHANGED <<pending, steady>>
    BY <2>2, BoundsAssumption DEF IInv, Types, Entries
  <2> QED
    BY <2>1, <2>2 DEF Sends
<1>2. Types'
  <2>1. jobs' \in Seq(Paths)
    BY HeadTailProperties DEF IInv, Types, Sends
  <2> QED
    BY <1>1, <2>1 DEF IInv, Types, Sends
<1>3. OnlyListed'
  BY DEF IInv, OnlyListed, Absent, Listed, Sends
<1>4. JobsOnlyToSend'
  BY DEF IInv, JobsOnlyToSend, NotPending, Absent, Sends
<1>5. ASSUME NEW q \in Paths PROVE NoneIsNewer(q)'
  BY <1>5, <1>1, BoundsAssumption DEF IInv, Types, NoneIsNewer, Sends, Nowhere, Absent
<1>6. ASSUME NEW q \in Paths \ restored' PROVE Grows(q)'
  BY <1>6, <1>1, BoundsAssumption DEF IInv, Types, Grows, Sends, Nowhere, Absent
<1>7. ASSUME NEW q \in Paths \ restored' PROVE PendingIsSteady(q)'
  BY <1>7, <1>1, AgedFits DEF IInv, Sends
<1>8. StableJobs'
  <2>1. /\ Len(jobs') \in Nat
        /\ \A i \in 1..Len(jobs') : i + 1 \in 1..Len(jobs) /\ jobs'[i] = jobs[i + 1]
        /\ jobs' \in Seq(Paths) /\ \A i \in 1..Len(jobs') : jobs'[i] \in Paths
    BY HeadTailProperties, ElementOfSeq DEF IInv, Types, Sends
  <2>2. SUFFICES ASSUME NEW i \in 1..Len(jobs')
                 PROVE  jobs'[i] \in restored \/ steady'[jobs'[i]].age >= Stabilize
    BY DEF StableJobs, Sends
  <2>3. jobs'[i] \in restored \/ steady[jobs'[i]].age >= Stabilize
    BY <2>1 DEF IInv, StableJobs
  <2>4. /\ steady[jobs'[i]].age \in Nat /\ steady'[jobs'[i]].age \in Nat
        /\ steady[jobs'[i]].age <= steady'[jobs'[i]].age
    <3>1. /\ steady[jobs'[i]] \in Entries /\ steady'[jobs'[i]] \in Entries
          /\ steady[jobs'[i]].age <= steady'[jobs'[i]].age
      BY <1>1, <2>1 DEF IInv, Types
    <3> QED
      BY <3>1, BoundsAssumption DEF Entries
  <2> QED
    BY <2>3, <2>4, BoundsAssumption
<1>9. QueuedIsSeen'
  BY DEF IInv, QueuedIsSeen, Sends
<1> QED
  BY <1>2, <1>3, <1>4, <1>5, <1>6, <1>7, <1>8, <1>9 DEF IInv

LEMMA SentKeeps ==
    ASSUME IInv, Sent
    PROVE  IInv'
<1>1. Types'
  BY PathsAssumption, BoundsAssumption
     DEF IInv, Types, Stamps, Entries, NoPath, Versions, Absent, Sent, history
<1>2. OnlyListed'
  BY DEF IInv, OnlyListed, Absent, Listed, Sent, history
<1>3. JobsOnlyToSend'
  BY DEF IInv, JobsOnlyToSend, NotPending, Absent, Sent, history
<1>4. ASSUME NEW q \in Paths PROVE NoneIsNewer(q)'
  BY <1>4, PathsAssumption, BoundsAssumption DEF IInv, NoneIsNewer, Sent, history
<1>5. ASSUME NEW q \in Paths \ restored' PROVE Grows(q)'
  BY <1>5, PathsAssumption, BoundsAssumption DEF IInv, Grows, Absent, Sent, history
<1>6. ASSUME NEW q \in Paths \ restored' PROVE PendingIsSteady(q)'
  BY <1>6, PathsAssumption, BoundsAssumption
     DEF IInv, PendingIsSteady, NotPending, Absent, Sent, history
<1>7. StableJobs'
  BY DEF IInv, StableJobs, Sent, history
<1>8. QueuedIsSeen'
  BY DEF IInv, QueuedIsSeen, Sent, history
<1> QED
  BY <1>1, <1>2, <1>3, <1>4, <1>5, <1>6, <1>7, <1>8 DEF IInv

LEMMA StopsKeeps ==
    ASSUME IInv, Stops
    PROVE  IInv'
<1>1. Types'
  BY PathsAssumption, BoundsAssumption
     DEF IInv, Types, Stamps, Entries, NoPath, Versions, Absent, Stops, history
<1>2. OnlyListed'
  BY DEF IInv, OnlyListed, Absent, Listed, Stops, history
<1>3. JobsOnlyToSend'
  BY DEF IInv, JobsOnlyToSend, NotPending, Absent, Stops, history
<1>4. ASSUME NEW q \in Paths PROVE NoneIsNewer(q)'
  BY <1>4, PathsAssumption, BoundsAssumption DEF IInv, NoneIsNewer, Stops, history
<1>5. ASSUME NEW q \in Paths \ restored' PROVE Grows(q)'
  BY <1>5, PathsAssumption, BoundsAssumption DEF IInv, Grows, Absent, Stops, history
<1>6. ASSUME NEW q \in Paths \ restored' PROVE PendingIsSteady(q)'
  BY <1>6, PathsAssumption, BoundsAssumption
     DEF IInv, PendingIsSteady, NotPending, Absent, Stops, history
<1>7. StableJobs'
  BY DEF IInv, StableJobs, Stops, history
<1>8. QueuedIsSeen'
  BY DEF IInv, QueuedIsSeen, Stops, history
<1> QED
  BY <1>1, <1>2, <1>3, <1>4, <1>5, <1>6, <1>7, <1>8 DEF IInv

-----------------------------------------------------------------------------

(* The three facts about IInv.                                             *)
LEMMA Initially == Init => IInv
<1> SUFFICES ASSUME Init PROVE IInv
  OBVIOUS
<1>1. Types
  <2>1. /\ Absent \in Stamps /\ 1 \in Stamps
        /\ NotPending \in Entries
        /\ 0 \in 0..MaxWrites
    BY BoundsAssumption DEF Stamps, Versions, Entries, NotPending
  <2> QED
    BY <2>1, EmptySeq DEF Init, Types, Nowhere
<1>2. OnlyListed /\ JobsOnlyToSend /\ QueuedIsSeen /\ StableJobs
  <2>1. Len(jobs) = 0
    BY EmptySeq DEF Init
  <2> QED
    BY <2>1 DEF Init, OnlyListed, JobsOnlyToSend, QueuedIsSeen, StableJobs, Nowhere
<1>3. ASSUME NEW p \in Paths PROVE NoneIsNewer(p) /\ Grows(p) /\ PendingIsSteady(p)
  BY DEF Init, NoneIsNewer, Grows, PendingIsSteady, Nowhere, NotPending, Absent
<1> QED
  BY <1>1, <1>2, <1>3 DEF IInv

LEMMA StutterKeeps ==
    ASSUME IInv, UNCHANGED vars
    PROVE  IInv'
BY DEF IInv, Types, OnlyListed, JobsOnlyToSend, QueuedIsSeen, StableJobs, NoneIsNewer, Grows,
       PendingIsSteady, vars, watchVars, history

LEMMA NextKeeps ==
    ASSUME IInv, Next
    PROVE  IInv'
<1>1. CASE \E p \in Paths : WritesFile(p) \/ RemovesFile(p) \/ RestoresFile(p)
  BY <1>1, WritesFileKeeps, RemovesFileKeeps, RestoresFileKeeps
<1>2. CASE Watch
  BY <1>2, ReadsEntryKeeps, ReadsMetadataKeeps, ScanFailsKeeps, FirstScanKeeps, SleepsKeeps,
     QueuesJobsKeeps, SendsKeeps, SentKeeps DEF Watch
<1>3. CASE Stops
  BY <1>3, StopsKeeps
<1> QED
  BY <1>1, <1>2, <1>3 DEF Next

(* Stamps grow until an old one is put back, and what is pending is        *)
(* steady.                                                                 *)
THEOREM Invariance == Spec => []IInv
<1>1. Init => IInv
  BY Initially
<1>2. IInv /\ [Next]_vars => IInv'
  BY NextKeeps, StutterKeeps
<1> QED
  BY <1>1, <1>2, PTL DEF Spec

(* The jobs, as a set.                                                     *)
LEMMA JobsAre ==
    ASSUME IInv
    PROVE  ToSet(jobs) = {jobs[i] : i \in 1..Len(jobs)}
<1>1. DOMAIN jobs = 1..Len(jobs)
  BY LenProperties DEF IInv, Types
<1> QED
  BY <1>1 DEF ToSet

(* A path is sent only when every scan has found the same stamp for as     *)
(* long as --stabilize asks, unless an old version was put back (the loop  *)
(* over `pending` in watch.rs).                                            *)
THEOREM JobsStayStable == Spec => []JobsAreStable
<1>1. ASSUME IInv PROVE JobsAreStable
  <2>1. \A p \in ToSet(jobs) : p \in Listed /\ (p \in restored \/ steady[p].age >= Stabilize)
    BY <1>1, JobsAre DEF IInv, OnlyListed, StableJobs
  <2>2. \A p \in Paths : /\ pending[p].stamp \in Versions \cup {Absent}
                         /\ pending[p].age \in 0..Stabilize
    BY <1>1 DEF IInv, Types, Entries, Stamps
  <2> QED
    BY <1>1, <2>1, <2>2 DEF IInv, Types, Stamps, TypeOK, JobsAreStable
<1> QED
  BY <1>1, Invariance, PTL

(* Jobs come from one step,                                                *)
LEMMA OnlyQueuesJobs ==
    ASSUME Next, Scanned("rescan"), phase' = "send"
    PROVE  QueuesJobs
BY DEF Next, Watch, WritesFile, RemovesFile, RestoresFile, Others, ReadsEntry, ReadsMetadata,
       ScanFails, FirstScan, Sleeps, Sends, Sent, Stops, Scanned, watchVars

(* and none of them repeats one: a path is queued again only if a scan has *)
(* found it changed or gone since it was last queued.                      *)
THEOREM RepeatsAreChanges == Spec => NoRepeat
<1> DEFINE Reason == \A p \in Paths :
               (Scanned("rescan") /\ phase' = "send" /\ p \in ToSet(jobs'))
                  => current[p] # queued[p] \/ p \in changed
<1>1. ASSUME IInv, Next PROVE Reason
  <2>1. SUFFICES ASSUME NEW p \in Paths, Scanned("rescan"), phase' = "send", p \in ToSet(jobs')
                 PROVE  current[p] # queued[p] \/ p \in changed
    OBVIOUS
  <2>2. QueuesJobs
    BY <1>1, <2>1, OnlyQueuesJobs
  <2>3. Stable(p)
    BY <1>1, <2>1, <2>2, QueuesStable
  <2> QED
    BY <1>1, <2>3 DEF Stable, New, IInv, QueuedIsSeen
<1>2. IInv /\ [Next]_vars => [Reason]_vars
  BY <1>1
<1> QED
  BY <1>2, Invariance, PTL DEF Spec, NoRepeat
=============================================================================
