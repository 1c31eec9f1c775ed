--------------------------- MODULE UploadSessions ---------------------------
(***************************************************************************)
(* Resumable browser uploads (web/upload.rs), served by `ii web --upload`, *)
(* `ii send --web --upload` and `ii drop`: the server's map of sessions    *)
(* and their temporary files, the requests upload/init, HEAD and PATCH,    *)
(* and the page's script, resumable(f), in the tabs of one browser.        *)
(*                                                                         *)
(* All files uploaded here have one name, so they compete for one target.  *)
(* A member of Files is what the script's localStorage key tells apart; the*)
(* chunk of number i of file f is <<f, i>>.  A PATCH takes its session out *)
(* of the map while it reads its body and puts it back afterwards: these   *)
(* are two steps.  Anything else a request does is one step, since between *)
(* its awaits it holds nothing that another request could observe.         *)
(***************************************************************************)
EXTENDS Integers, Sequences, FiniteSets

CONSTANTS Tabs,       (* tabs of the browser                               *)
          Files,      (* files chosen for upload, all of the same name     *)
          Chunks,     (* how many chunks a file has                        *)
          MaxIds,     (* bound: sessions created                           *)
          MaxUploads  (* bound: uploads started                            *)

ASSUME FilesAssumption == Files # {}
ASSUME ChunksAssumption == Chunks \in Nat \ {0}
ASSUME BoundsAssumption == MaxIds \in Nat \ {0} /\ MaxUploads \in Nat

VARIABLES
    phase,      (* the listener serves, has left its loop, has exited      *)
    created,    (* number of sessions created: their ids are 1..created    *)
    live,       (* ids in the map                                          *)
    held,       (* ids a PATCH has taken out of the map                    *)
    stale,      (* ids in the map that are past SESSION_TTL                *)
    offset,     (* live and held id to UploadSession.offset, in chunks     *)
    body,       (* held id to the chunk the PATCH reads                    *)
    temp,       (* id to the content of its temporary file, if that exists *)
    target,     (* content of the file under its final name                *)
    committed,  (* the files whose session the server has completed        *)
    posting,    (* the files that arrive in one plain POST just now        *)
    pc,         (* where the tab's script is                               *)
    file,       (* the file it uploads                                     *)
    attempt,    (* its `attempt`, counted from 1                           *)
    id,         (* its `id`, 0 for none                                    *)
    from,       (* its `offset`, in chunks                                 *)
    storage,    (* localStorage: file to session id, 0 for none            *)
    uploads     (* number of uploads started                               *)

mapVars == <<phase, created, live, stale>>
patchVars == <<held, body>>
diskVars == <<offset, temp>>
targetVars == <<target, committed, posting>>
serverVars == <<mapVars, patchVars, diskVars, targetVars>>
localVars == <<file, attempt, id, from>>
userVars == <<storage, uploads>>
vars == <<serverVars, pc, localVars, userVars>>

Ids == 1..MaxIds
NoId == 0
AnyFile == CHOOSE f \in Files : TRUE
Whole(f) == [i \in 1..Chunks |-> <<f, i>>]
OldTarget == <<>>

Resting == {"idle", "saved"}
Requested == {"init", "head", "patch", "body"}
Answered == {"inited", "patched", "complete", "gone", "error"}

-----------------------------------------------------------------------------
Init == /\ phase = "serving"
        /\ created = 0
        /\ live = {} /\ held = {} /\ stale = {}
        /\ offset = <<>> /\ body = <<>> /\ temp = <<>>
        /\ target = OldTarget
        /\ committed = {}
        /\ posting = {}
        /\ pc = [t \in Tabs |-> "idle"]
        /\ file = [t \in Tabs |-> AnyFile]
        /\ attempt = [t \in Tabs |-> 1]
        /\ id = [t \in Tabs |-> NoId]
        /\ from = [t \in Tabs |-> 0]
        /\ storage = [f \in Files |-> NoId]
        /\ uploads = 0

-----------------------------------------------------------------------------
(* The server.  Once the loop has ended the requests already accepted go on*)
(* until the process exits.                                                *)

Running == phase # "stopped"

(* What becomes of a fetch made now: each takes a connection of its own,   *)
(* which is refused when nobody accepts it any more.                       *)
Fetch(request) == IF phase = "serving" THEN request ELSE "error"

Put(f, s, v) == [x \in DOMAIN f \cup {s} |-> IF x = s THEN v ELSE f[x]]
Without(f, gone) == [x \in DOMAIN f \ gone |-> f[x]]

(* cleanup_expired, which every request runs first: what it leaves.        *)
Fresh == live \ stale
CleanupExpired ==
    /\ stale' = {}
    /\ offset' = Without(offset, stale)
    /\ temp' = Without(temp, stale)

(* create_session: POST upload/init, answered 201 with the id.             *)
CreateSession(t) ==
    /\ Running
    /\ pc[t] = "init"
    /\ created < MaxIds
    /\ created' = created + 1
    /\ live' = Fresh \cup {created'}
    /\ stale' = {}
    /\ offset' = Put(Without(offset, stale), created', 0)
    /\ temp' = Put(Without(temp, stale), created', <<>>)
    /\ id' = [id EXCEPT ![t] = created']
    /\ pc' = [pc EXCEPT ![t] = "inited"]
    /\ UNCHANGED <<phase, patchVars, targetVars, file, attempt, from, userVars>>

(* session_head: 200 with the offset, and the script sends its next chunk; *)
(* or 404.                                                                 *)
HeadFound(t) ==
    /\ id[t] \in Fresh
    /\ pc' = [pc EXCEPT ![t] = Fetch("patch")]
    /\ from' = [from EXCEPT ![t] = offset[id[t]]]

HeadNotFound(t) ==
    /\ id[t] \notin Fresh
    /\ pc' = [pc EXCEPT ![t] = "gone"]
    /\ UNCHANGED from

SessionHead(t) ==
    /\ Running
    /\ pc[t] = "head"
    /\ live' = Fresh
    /\ CleanupExpired
    /\ HeadFound(t) \/ HeadNotFound(t)
    /\ UNCHANGED <<phase, created, patchVars, targetVars, file, attempt, id,
                   userVars>>

(* write_upload_chunk up to its body: take the session out of the map.     *)
ChunkTakenAtAnyOffset(t) ==
    /\ id[t] \in Fresh
    /\ live' = Fresh \ {id[t]}
    /\ held' = held \cup {id[t]}
    /\ body' = Put(body, id[t], <<file[t], from[t] + 1>>)
    /\ pc' = [pc EXCEPT ![t] = "body"]
ChunkTaken(t) ==
    /\ id[t] \in Fresh
    /\ offset[id[t]] = from[t]
    /\ live' = Fresh \ {id[t]}
    /\ held' = held \cup {id[t]}
    /\ body' = Put(body, id[t], <<file[t], from[t] + 1>>)
    /\ pc' = [pc EXCEPT ![t] = "body"]

(* 409: the session is put back at once.                                   *)
ChunkConflicts(t) ==
    /\ id[t] \in Fresh
    /\ offset[id[t]] # from[t]
    /\ live' = Fresh
    /\ pc' = [pc EXCEPT ![t] = "error"]
    /\ UNCHANGED patchVars

(* 404.                                                                    *)
ChunkNotFound(t) ==
    /\ id[t] \notin Fresh
    /\ live' = Fresh
    /\ pc' = [pc EXCEPT ![t] = "gone"]
    /\ UNCHANGED patchVars

WriteChunk(t) ==
    /\ Running
    /\ pc[t] = "patch"
    /\ CleanupExpired
    /\ ChunkTaken(t) \/ ChunkConflicts(t) \/ ChunkNotFound(t)
    /\ UNCHANGED <<phase, created, targetVars, localVars, userVars>>

(* The end of the PATCH that holds s.  The tab that sent it gets an answer,*)
(* unless its connection is gone.                                          *)
Waiting(s) == {t \in Tabs : pc[t] = "body" /\ id[t] = s}
Release(s, answer) ==
    /\ held' = held \ {s}
    /\ body' = Without(body, {s})
    /\ pc' = [t \in Tabs |-> IF t \in Waiting(s) THEN answer ELSE pc[t]]

(* All of the body came and is appended: 204, the session is back.         *)
ChunkWritten(s) ==
    /\ Running
    /\ s \in held
    /\ body[s][2] < Chunks
    /\ temp' = [temp EXCEPT ![s] = Append(@, body[s])]
    /\ offset' = [offset EXCEPT ![s] = body[s][2]]
    /\ live' = live \cup {s}
    /\ Release(s, "patched")
    /\ UNCHANGED <<phase, created, stale, targetVars, localVars, userVars>>

(* The last chunk came: 201, the file has replaced the target.             *)
UploadCompleted(s) ==
    /\ Running
    /\ s \in held
    /\ body[s][2] = Chunks
    /\ target' = Append(temp[s], body[s])
    /\ committed' = committed \cup {body[s][1]}
    /\ temp' = Without(temp, {s})
    /\ offset' = Without(offset, {s})
    /\ Release(s, "complete")
    /\ UNCHANGED <<mapVars, posting, localVars, userVars>>

(* The body ended early, or a write or the rename failed: 400 or 500, and  *)
(* the session is gone with its file.                                      *)
ChunkLostKeepingSession(s) ==
    /\ Running
    /\ s \in held
    /\ temp' = [temp EXCEPT ![s] = Append(@, body[s])]
    /\ live' = live \cup {s}
    /\ Release(s, "error")
    /\ UNCHANGED <<phase, created, stale, offset, targetVars, localVars,
                   userVars>>
ChunkLostKeepingFile(s) ==
    /\ Running
    /\ s \in held
    /\ offset' = Without(offset, {s})
    /\ Release(s, "error")
    /\ UNCHANGED <<mapVars, temp, targetVars, localVars, userVars>>
ChunkLostUnanswered(s) ==
    /\ Running
    /\ s \in held
    /\ temp' = Without(temp, {s})
    /\ offset' = Without(offset, {s})
    /\ Release(s, "body")
    /\ UNCHANGED <<mapVars, targetVars, localVars, userVars>>
ChunkLost(s) ==
    /\ Running
    /\ s \in held
    /\ temp' = Without(temp, {s})
    /\ offset' = Without(offset, {s})
    /\ Release(s, "error")
    /\ UNCHANGED <<mapVars, targetVars, localVars, userVars>>

(* write_upload: POST of a whole file, which the script does with an empty *)
(* one, and clients without the script with any.  It has a temporary file  *)
(* of its own, which goes with the request.                                *)
PostBegins(f) ==
    /\ phase = "serving"
    /\ f \notin posting
    /\ uploads < MaxUploads
    /\ uploads' = uploads + 1
    /\ posting' = posting \cup {f}
    /\ UNCHANGED <<mapVars, patchVars, diskVars, target, committed, pc, localVars,
                   storage>>

PostEnds(f) ==
    /\ f \in posting
    /\ posting' = posting \ {f}
    /\ target' \in {target, Whole(f)}   \* a body that ended early, or an error
    /\ UNCHANGED <<mapVars, patchVars, diskVars, committed, pc, localVars, userVars>>

(* An hour passes without a PATCH on s; the loop's tick, each minute.      *)
Expire(s) ==
    /\ Running
    /\ s \in Fresh
    /\ stale' = stale \cup {s}
    /\ UNCHANGED <<phase, created, live, patchVars, diskVars, targetVars, pc,
                   localVars, userVars>>

Tick ==
    /\ phase = "serving"
    /\ stale # {}
    /\ live' = Fresh
    /\ CleanupExpired
    /\ UNCHANGED <<phase, created, patchVars, targetVars, pc, localVars,
                   userVars>>

(* Ctrl-C, a first download of --once, or the TTL: cleanup_all drains the  *)
(* map.  Then main returns and the tasks that still run are dropped.       *)
CleanupAll ==
    /\ phase = "serving"
    /\ phase' = "closing"
    /\ live' = {}
    /\ stale' = {}
    /\ offset' = Without(offset, live)
    /\ temp' = Without(temp, live)
    /\ UNCHANGED <<created, patchVars, targetVars, pc, localVars, userVars>>

(* accept returns an error: the loop ends without draining the map.        *)
AcceptFails ==
    /\ phase = "serving"
    /\ phase' = "closing"
    /\ UNCHANGED <<created, live, stale, patchVars, diskVars, targetVars, pc,
                   localVars, userVars>>

ExitLettingPostsFinish ==
    /\ phase = "closing"
    /\ phase' = "stopped"
    /\ UNCHANGED <<created, live, stale, patchVars, diskVars, targetVars, pc,
                   localVars, userVars>>
Exit ==
    /\ phase = "closing"
    /\ phase' = "stopped"
    /\ posting' = {}
    /\ UNCHANGED <<created, live, stale, patchVars, diskVars, target, committed,
                   pc, localVars, userVars>>

-----------------------------------------------------------------------------
(* The script, resumable(f) for a file that is not empty.                  *)

(* The user chooses a file: go on with its session if one is stored.       *)
Choose(t, f) ==
    /\ pc[t] \in Resting
    /\ uploads < MaxUploads
    /\ uploads' = uploads + 1
    /\ file' = [file EXCEPT ![t] = f]
    /\ id' = [id EXCEPT ![t] = storage[f]]
    /\ pc' = [pc EXCEPT ![t] = Fetch(IF storage[f] = NoId THEN "init"
                                                      ELSE "head")]
    /\ UNCHANGED <<serverVars, attempt, from, storage>>

StoreId(t) ==
    /\ pc[t] = "inited"
    /\ storage' = [storage EXCEPT ![file[t]] = id[t]]
    /\ pc' = [pc EXCEPT ![t] = Fetch("head")]
    /\ UNCHANGED <<serverVars, localVars, uploads>>

SendNext(t) ==
    /\ pc[t] = "patched"
    /\ from' = [from EXCEPT ![t] = @ + 1]
    /\ storage' = [storage EXCEPT ![file[t]] = id[t]]
    /\ pc' = [pc EXCEPT ![t] = Fetch("patch")]
    /\ UNCHANGED <<serverVars, file, attempt, id, uploads>>

(* The script's call is over, and its variables are gone.                  *)
Return(t, state) ==
    /\ pc' = [pc EXCEPT ![t] = state]
    /\ attempt' = [attempt EXCEPT ![t] = 1]
    /\ id' = [id EXCEPT ![t] = NoId]
    /\ from' = [from EXCEPT ![t] = 0]
    /\ UNCHANGED <<file, uploads>>

Saved(t) ==
    /\ pc[t] = "complete"
    /\ storage' = [storage EXCEPT ![file[t]] = NoId]
    /\ Return(t, "saved")
    /\ UNCHANGED serverVars

(* 404: forget the id; once more from upload/init, or give up.             *)
Again(t) ==
    /\ attempt' = [attempt EXCEPT ![t] = @ + 1]
    /\ id' = [id EXCEPT ![t] = NoId]
    /\ from' = [from EXCEPT ![t] = 0]
    /\ pc' = [pc EXCEPT ![t] = Fetch("init")]
    /\ UNCHANGED <<file, uploads>>

RestartForEver(t) ==
    /\ pc[t] = "gone"
    /\ storage' = [storage EXCEPT ![file[t]] = NoId]
    /\ Again(t)
    /\ UNCHANGED serverVars
RestartUnlessHalfSent(t) ==
    /\ pc[t] = "gone"
    /\ storage' = [storage EXCEPT ![file[t]] = NoId]
    /\ \/ from[t] = 0 /\ Again(t)
       \/ from[t] > 0 /\ Return(t, "saved")
    /\ UNCHANGED serverVars
Restart(t) ==
    /\ pc[t] = "gone"
    /\ storage' = [storage EXCEPT ![file[t]] = NoId]
    /\ \/ attempt[t] < 2 /\ Again(t)
       \/ attempt[t] = 2 /\ Return(t, "idle")
    /\ UNCHANGED serverVars

(* Any other answer that is not ok throws.                                 *)
Throw(t) ==
    /\ pc[t] = "error"
    /\ Return(t, "idle")
    /\ UNCHANGED <<serverVars, storage>>

(* The page is refreshed or closed, or a fetch throws: its request may or  *)
(* may not have reached the server, an answer on its way is not seen.      *)
Disconnect(t) ==
    /\ pc[t] \in Requested \cup Answered
    /\ Return(t, "idle")
    /\ UNCHANGED <<serverVars, storage>>

-----------------------------------------------------------------------------
Script(t) ==
    StoreId(t) \/ SendNext(t) \/ Saved(t) \/ Restart(t) \/ Throw(t)
Request(t) == CreateSession(t) \/ SessionHead(t) \/ WriteChunk(t)
BodyEnds(s) == ChunkWritten(s) \/ UploadCompleted(s) \/ ChunkLost(s)

Next ==
    \/ \E f \in Files : PostBegins(f) \/ PostEnds(f)
    \/ \E t \in Tabs : \/ \E f \in Files : Choose(t, f)
                       \/ Script(t)
                       \/ Request(t)
                       \/ Disconnect(t)
    \/ \E s \in Ids : BodyEnds(s) \/ Expire(s)
    \/ Tick
    \/ CleanupAll
    \/ AcceptFails
    \/ Exit

Spec == Init /\ [][Next]_vars

(* Tasks and scripts run when they can, and a fetch fails once the server  *)
(* has exited.  That the body of a PATCH ends is an assumption on clients: *)
(* the server reads it without a timeout.                                  *)
Fairness ==
    /\ \A t \in Tabs : /\ WF_vars(Script(t))
                       /\ WF_vars(Request(t))
                       /\ WF_vars(phase = "stopped" /\ Disconnect(t))
    /\ \A s \in Ids : WF_vars(BodyEnds(s))

FairSpec == Spec /\ Fairness

-----------------------------------------------------------------------------
(* Properties.                                                             *)

Content == Seq(Files \X (1..Chunks))

TypeOK ==
    /\ phase \in {"serving", "closing", "stopped"}
    /\ created \in 0..MaxIds
    /\ live \subseteq 1..created
    /\ held \subseteq 1..created
    /\ stale \subseteq live
    /\ offset \in [live \cup held -> 0..Chunks]
    /\ body \in [held -> Files \X (1..Chunks)]
    /\ DOMAIN temp \subseteq 1..created
    /\ \A s \in DOMAIN temp : temp[s] \in Content
    /\ target \in Content
    /\ committed \subseteq Files
    /\ posting \subseteq Files
    /\ pc \in [Tabs -> Resting \cup Requested \cup Answered]
    /\ file \in [Tabs -> Files]
    /\ attempt \in [Tabs -> 1..2]
    /\ id \in [Tabs -> 0..MaxIds]
    /\ from \in [Tabs -> 0..Chunks]
    /\ storage \in [Files -> 0..MaxIds]
    /\ uploads \in 0..MaxUploads

(* ii.md:299, "a file of the same name is atomically replaced on           *)
(* completion": whatever requests of whatever tabs interleave, are cut or  *)
(* repeated, the target is the old file or all of one uploaded file.       *)
TargetIsWhole == target \in {OldTarget} \cup {Whole(f) : f \in Files}

(* The map and the disk agree (upload.rs:281 trusts the offset and appends *)
(* without looking at the file): a session's file holds the chunks before  *)
(* its offset, of one file, in order, once.                                *)
OffsetMatchesFile ==
    \A s \in live \cup held :
        \E f \in Files : temp[s] = SubSeq(Whole(f), 1, offset[s])

(* Every temporary file belongs to a session of the map, which expiry will *)
(* find, or to a running PATCH, which removes or returns it; and neither   *)
(* owns a file that is gone.  (A PATCH removed from the map, upload.rs:281,*)
(* escapes cleanup_expired and cleanup_all.)                               *)
NoFileLeaks ==
    /\ DOMAIN temp = live \cup held
    /\ live \cap held = {}

(* What the server remembers (TypeOK), what it has on disk, and who owns   *)
(* it, agree.                                                              *)
FilesMatch == TypeOK /\ OffsetMatchesFile /\ NoFileLeaks

(* The page says "saved" for a file only when the server has put all of it *)
(* in place, however often the script restarted with another session.      *)
SavedIsCommitted ==
    \A t \in Tabs : pc[t] = "saved" => file[t] \in committed

(* With all its sessions, requests and retries the code implements the     *)
(* abstract upload form: the target changes in one step from one whole file*)
(* to another, never after the exit, and a tab that says "saved" for a     *)
(* file hears what has already happened.                                   *)
Form == INSTANCE FileDrop WITH
    Users   <- Tabs,
    Content <- [f \in Files |-> Whole(f)],
    Old     <- OldTarget,
    current <- target,
    stored  <- committed,
    open    <- phase # "stopped",
    wants   <- file,
    state   <- [t \in Tabs |-> IF pc[t] \in Resting THEN pc[t] ELSE "waiting"]

ReplacesAtOnce == Form!Spec

(* Two tabs cannot make each other wait or restart for ever (upload.rs:281 *)
(* answers 404 while the other's PATCH holds the session): every upload    *)
(* ends as saved, as failed or with a broken connection.                   *)
UploadEnds ==
    \A t \in Tabs : pc[t] \notin Resting ~> pc[t] \in Resting
=============================================================================
