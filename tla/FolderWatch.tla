------------------------------ MODULE FolderWatch ------------------------------
(***************************************************************************)
(* ii watch (service/watch.rs): scan a directory, sleep, scan again; send  *)
(* every file that is new or changed once it has looked the same for long  *)
(* enough.  The scan is a walk: between two entries, and between the name  *)
(* of an entry and its metadata, files come, change and go.  Sends are     *)
(* done one after the other, and nothing is scanned meanwhile.             *)
(*                                                                         *)
(* A version stands for size and modification time.  Writing gives a new   *)
(* one; a file that is put back (a rename, a restored time) brings back    *)
(* an old one.  Time goes in intervals of the loop's sleep.                *)
(***************************************************************************)
EXTENDS Naturals, Sequences, FiniteSets, SequencesExt

CONSTANTS Paths,       (* the entries a directory may have                 *)
          Selected,    (* those the filters select                         *)
          Rejected,    (* symlinks, under --symlinks reject                *)
          Stabilize,   (* --stabilize, in intervals                        *)
          MaxWrites,   (* bound: changes to the directory                  *)
          MaxRestores  (* bound: versions that are put back                *)

ASSUME PathsAssumption ==
    IsFiniteSet(Paths) /\ Selected \subseteq Paths /\ Rejected \subseteq Paths
ASSUME BoundsAssumption ==
    Stabilize \in Nat /\ MaxWrites \in Nat /\ MaxRestores \in Nat

Versions == 1..(1 + MaxWrites)
Absent == 0
NotPending == [stamp |-> Absent, age |-> 0]
NoPath == "none"

VARIABLES
    files,     (* path to version, or Absent                               *)
    phase,     (* what the watch is doing                                  *)
    todo,      (* the paths the walk has not come to                       *)
    entry,     (* the entry it has read the name of                        *)
    current,   (* what this scan has found                                 *)
    seen,      (* the stamps that need no sending                          *)
    pending,   (* the stamps that may not be stable yet, and their age     *)
    jobs,      (* paths to send                                            *)
    writes, restores,
    sent,      (* history: the version the last send of a path read, or    *)
               (* that was there at the start                              *)
    queued,    (* history: the stamp a path was last queued with           *)
    changed,   (* history: a scan has found another stamp or none since    *)
    restored,  (* history: paths whose versions were put back              *)
    steady     (* history: what the last scan found, and for how long      *)
               (* every scan has found it                                  *)

watchVars == <<phase, todo, entry, current, seen, pending, jobs>>
history == <<sent, queued, changed, restored, steady>>
vars == <<files, watchVars, writes, restores, history>>

Nowhere == [p \in Paths |-> Absent]

Init == /\ files \in [Paths -> {Absent, 1}]
        /\ phase = "scan"
        /\ todo = Paths
        /\ entry = NoPath
        /\ current = Nowhere
        /\ seen = Nowhere
        /\ pending = [p \in Paths |-> NotPending]
        /\ jobs = <<>>
        /\ writes = 0 /\ restores = 0
        /\ sent = Nowhere /\ queued = Nowhere
        /\ changed = {} /\ restored = {}
        /\ steady = [p \in Paths |-> NotPending]

-----------------------------------------------------------------------------
(* What others do to the directory.                                        *)
Others(p, v) ==
    /\ phase # "ended"
    /\ files' = [files EXCEPT ![p] = v]
    /\ UNCHANGED watchVars
    /\ UNCHANGED <<sent, queued, changed, steady>>

WritesFile(p) ==
    /\ writes < MaxWrites
    /\ writes' = writes + 1
    /\ Others(p, writes + 2)
    /\ UNCHANGED <<restores, restored>>

RemovesFile(p) ==
    /\ files[p] # Absent
    /\ writes < MaxWrites
    /\ writes' = writes + 1
    /\ Others(p, Absent)
    /\ UNCHANGED <<restores, restored>>

RestoresFile(p) ==
    /\ restores < MaxRestores
    /\ restores' = restores + 1
    /\ \E v \in 1..(writes + 1) : v # files[p] /\ Others(p, v)
    /\ restored' = restored \cup {p}
    /\ UNCHANGED writes

-----------------------------------------------------------------------------
(* scan_dir: the name of an entry, then its metadata.  A symlink that is   *)
(* to be rejected is listed whatever the filters say.                      *)
Listed == Selected \cup Rejected

ReadsEntry(p) ==
    /\ phase \in {"scan", "rescan"}
    /\ entry = NoPath
    /\ p \in todo
    /\ todo' = todo \ {p}
    /\ entry' = IF files[p] = Absent THEN NoPath ELSE p
    /\ UNCHANGED <<files, phase, current, seen, pending, jobs, writes, restores, history>>

ReadsMetadata ==
    /\ entry # NoPath
    /\ files[entry] # Absent
    /\ entry' = NoPath
    /\ current' = [current EXCEPT ![entry] = IF entry \in Listed THEN files[entry] ELSE Absent]
    /\ UNCHANGED <<files, phase, todo, seen, pending, jobs, writes, restores, history>>

(* The file has gone in between, selected or not: the watch ends.          *)
ScanFails ==
    /\ entry # NoPath
    /\ files[entry] = Absent
    /\ phase' = "ended"
    /\ entry' = NoPath
    /\ UNCHANGED <<files, todo, current, seen, pending, jobs, writes, restores, history>>

Scanned(p) == phase = p /\ todo = {} /\ entry = NoPath

(* The scan before the loop: what is there is not sent.                    *)
FirstScan ==
    /\ Scanned("scan")
    /\ seen' = current
    /\ sent' = current
    /\ queued' = current
    /\ steady' = [p \in Paths |-> [stamp |-> current[p], age |-> 0]]
    /\ phase' = "sleep"
    /\ UNCHANGED <<files, todo, entry, current, pending, jobs, writes, restores,
                   changed, restored>>

(* Time passes: the sleep between the scans, the wait in a send.           *)
Older(e) == IF e # NotPending /\ e.age < Stabilize THEN [e EXCEPT !.age = @ + 1] ELSE e

TimePasses == /\ pending' = [p \in Paths |-> Older(pending[p])]
              /\ steady' = [p \in Paths |-> Older(steady[p])]

Sleeps ==
    /\ phase = "sleep"
    /\ phase' = "rescan"
    /\ todo' = Paths
    /\ current' = Nowhere
    /\ TimePasses
    /\ UNCHANGED <<files, entry, seen, jobs, writes, restores, sent, queued,
                   changed, restored>>

-----------------------------------------------------------------------------
(* The loop over what a scan has found: stable paths become jobs, and are  *)
(* seen from now on.  A pending stamp stays when the scan finds the one    *)
(* that is seen.                                                           *)
New(p) == current[p] # Absent /\ current[p] # seen[p]

Since(e, p) == IF e.stamp = current[p] THEN e ELSE [stamp |-> current[p], age |-> 0]

AfterScanFirst(p) == IF pending[p] # NotPending THEN [pending[p] EXCEPT !.stamp = current[p]]
                     ELSE [stamp |-> current[p], age |-> 0]
AfterScan(p) == Since(pending[p], p)

Stable(p) == New(p) /\ AfterScan(p).age >= Stabilize

RememberLate(stable) == [p \in Paths |-> IF current[p] = Absent THEN Absent ELSE seen[p]]
RememberAll(stable) == current
Remember(stable) ==
    [p \in Paths |-> IF p \in stable \/ current[p] = Absent THEN current[p] ELSE seen[p]]

QueuesJobs ==
    LET stable == {p \in Paths : Stable(p)}
    IN  /\ Scanned("rescan")
        /\ jobs' = SetToSeq(stable)
        /\ seen' = Remember(stable)
        /\ pending' = [p \in Paths |->
                          IF p \in stable \/ current[p] = Absent THEN NotPending
                          ELSE IF New(p) THEN AfterScan(p) ELSE pending[p]]
        /\ queued' = [p \in Paths |-> IF p \in stable THEN current[p] ELSE queued[p]]
        /\ changed' = (changed \ stable) \cup {p \in Paths \ stable : current[p] # queued[p]}
        /\ steady' = [p \in Paths |-> Since(steady[p], p)]
        /\ phase' = "send"
        /\ UNCHANGED <<files, todo, entry, current, writes, restores, sent, restored>>

(* The send opens the file as it is by now.  It may fail, and take as long *)
(* as it likes; it is not tried again.                                     *)
Sends ==
    /\ phase = "send"
    /\ jobs # <<>>
    /\ sent' = [sent EXCEPT ![Head(jobs)] = files[Head(jobs)]]
    /\ jobs' = Tail(jobs)
    /\ UNCHANGED <<pending, steady>> \/ TimePasses
    /\ UNCHANGED <<files, phase, todo, entry, current, seen, writes, restores,
                   queued, changed, restored>>

Sent ==
    /\ phase = "send"
    /\ jobs = <<>>
    /\ phase' = "sleep"
    /\ UNCHANGED <<files, todo, entry, current, seen, pending, jobs, writes,
                   restores, history>>

(* Ctrl-C is heard while it sleeps and while it sends.                     *)
Stops ==
    /\ phase \in {"sleep", "send"}
    /\ phase' = "ended"
    /\ UNCHANGED <<files, todo, entry, current, seen, pending, jobs, writes,
                   restores, history>>

-----------------------------------------------------------------------------
Watch == \/ \E p \in Paths : ReadsEntry(p)
         \/ ReadsMetadata \/ ScanFails \/ FirstScan \/ Sleeps
         \/ QueuesJobs \/ Sends \/ Sent

Next == \/ \E p \in Paths : WritesFile(p) \/ RemovesFile(p) \/ RestoresFile(p)
        \/ Watch \/ Stops

(* The loop goes on, and every send ends: an upload does; a send to a peer *)
(* does when somebody fetches it.                                          *)
Spec == Init /\ [][Next]_vars /\ WF_vars(Watch)

-----------------------------------------------------------------------------
(* Types.                                                                  *)
TypeOK ==
    /\ files \in [Paths -> Versions \cup {Absent}]
    /\ phase \in {"scan", "sleep", "rescan", "send", "ended"}
    /\ seen \in [Paths -> Versions \cup {Absent}]
    /\ \A p \in Paths : pending[p].stamp \in Versions \cup {Absent}
                        /\ pending[p].age \in 0..Stabilize
    /\ ToSet(jobs) \subseteq Listed

(* A version that stays is sent in the end, whenever it was written: in    *)
(* the middle of a scan, while its predecessor is pending, queued or being *)
(* sent.  Not so one that is put back after a send has read its successor. *)
StableIsSent ==
    \A p \in Selected : \A v \in Versions :
        (phase # "ended" /\ files[p] = v)
            ~> (files[p] # v \/ sent[p] = v \/ p \in restored \/ phase = "ended")

(* What is sent again was seen to be different, or gone, in between; and   *)
(* what was there at the start is not sent.                                *)
NoRepeat ==
    [][\A p \in Paths :
          (Scanned("rescan") /\ phase' = "send" /\ p \in ToSet(jobs'))
             => current[p] # queued[p] \/ p \in changed]_vars

(* Types; and a path waits to be sent because every scan has found the     *)
(* same stamp for as long as --stabilize asks, unless one was put back: a  *)
(* stamp that was pending when its predecessor came back keeps its age.    *)
JobsAreStable ==
    /\ TypeOK
    /\ \A p \in ToSet(jobs) : p \in restored \/ steady[p].age >= Stabilize
=============================================================================
