------------------------------ MODULE WebServe ------------------------------
(***************************************************************************)
(* `ii web --once` and `ii send --web`: the listener that serves until the *)
(* first download is complete (web/http.rs), and the handler of a          *)
(* connection (web/http.rs, web/directory.rs), while somebody edits the    *)
(* one file that is served.                                                *)
(*                                                                         *)
(* A handler awaits between any two looks at the file: to decide whether   *)
(* the request is a full GET of a file, to take its size, to open it and   *)
(* for every piece it reads.  An answer without a file in it is one step,  *)
(* for nothing else depends on when it is written.  The upload requests    *)
(* are in UploadSessions; here they are one more request that consumes     *)
(* nothing.  With -t nothing is ever signalled and no download ends the    *)
(* loop; that is left out.                                                 *)
(***************************************************************************)
EXTENDS Integers, Sequences, FiniteSets

CONSTANTS Clients,     (* connections; each makes one request              *)
          Requests,    (* the requests each of them may make               *)
          MaxSize,     (* bound: bytes in a file                           *)
          MaxEdits     (* bound: edits of the file                         *)

ASSUME BoundsAssumption == MaxSize \in Nat /\ MaxEdits \in Nat
ASSUME ClientsAssumption == IsFiniteSet(Clients)

(* WebRange: a Range header as far as web_file_range understands it.       *)
WebRange ==
    [kind : {"none", "invalid"}] \cup [kind : {"last"}, n : Nat]
    \cup [kind : {"from"}, a : Nat] \cup [kind : {"between"}, a : Nat, b : Nat]

ASSUME RequestsAssumption ==
    \A c \in Clients : \A r \in Requests[c] :
        r.method \in {"GET", "HEAD", "POST"} /\ r.range \in WebRange

Absent == 0
Directory == -1

VARIABLES
    content,    (* WebContent: "Directory", or "Download" with source.size *)
    entry,      (* what the served name is: Absent, Directory or an inode  *)
    sizes,      (* inode to its bytes                                      *)
    server,     (* the listener: "serving", "stopping", "exited"           *)
    done,       (* messages in the channel of completed downloads          *)
    pc,         (* where the handler of the connection is                  *)
    req,        (* its request                                             *)
    full,       (* full_file_get                                           *)
    file,       (* the inode it has open                                   *)
    reply,      (* status, first byte and length the response announces    *)
    sent,       (* bytes of the file written to the connection             *)
    edits,      (* how often the file was edited                           *)
    disturbed,  (* history: the file was edited while the handler ran      *)
    cause       (* history: what has ended the loop: "interrupt", "refusal"*)
                (* (accept failed), "download", or "none"                  *)

disk == <<entry, sizes, edits>>
handler == <<pc, req, full, file, reply, sent, disturbed>>
vars == <<content, disk, server, done, handler, cause>>

NoRequest == [method |-> "none"]
NoReply == [status |-> 0, start |-> 0, length |-> 0]

Ended == {"completed", "handled", "failed", "cut"}
Active(c) == pc[c] \notin Ended \cup {"idle"}

-----------------------------------------------------------------------------
(* web_file_range.  A range is "none", "invalid" (no bytes=, a list, given *)
(* twice, unreadable), the last n bytes, from a on, or from a to b.        *)
Whole(size) == [status |-> 200, start |-> 0, length |-> size]
Part(a, b) == [status |-> 206, start |-> a, length |-> b - a + 1]
Unsatisfiable == [status |-> 416, start |-> 0, length |-> 0]

Least(a, b) == IF a <= b THEN a ELSE b
Monus(a, b) == IF a <= b THEN 0 ELSE a - b   \* saturating_sub

FileRangeOffByOne(range, size) ==
    CASE range.kind = "none" -> Whole(size)
      [] range.kind = "invalid" \/ (range.kind # "none" /\ size = 0) -> Unsatisfiable
      [] range.kind = "last" /\ size > 0 ->
            IF range.n = 0 THEN Unsatisfiable
                           ELSE Part(Monus(size, range.n), size - 1)
      [] range.kind = "from" /\ size > 0 ->
            IF range.a >= size THEN Unsatisfiable ELSE Part(range.a, size - 1)
      [] range.kind = "between" /\ size > 0 ->
            IF range.a >= size \/ range.a > range.b THEN Unsatisfiable
            ELSE Part(range.a, Least(range.b, size))
FileRange(range, size) ==
    CASE range.kind = "none" -> Whole(size)
      [] range.kind = "invalid" \/ (range.kind # "none" /\ size = 0) -> Unsatisfiable
      [] range.kind = "last" /\ size > 0 ->
            IF range.n = 0 THEN Unsatisfiable
                           ELSE Part(Monus(size, range.n), size - 1)
      [] range.kind = "from" /\ size > 0 ->
            IF range.a >= size THEN Unsatisfiable ELSE Part(range.a, size - 1)
      [] range.kind = "between" /\ size > 0 ->
            IF range.a >= size \/ range.a > range.b THEN Unsatisfiable
            ELSE Part(range.a, Least(range.b, size - 1))

-----------------------------------------------------------------------------
Init == /\ sizes \in {<<n>> : n \in 0..MaxSize}
        /\ content \in {[kind |-> k, size |-> sizes[1]] :
                           k \in {"Directory", "Download"}}
        /\ entry = 1
        /\ server = "serving"
        /\ done = 0
        /\ pc = [c \in Clients |-> "idle"]
        /\ req = [c \in Clients |-> NoRequest]
        /\ full = [c \in Clients |-> FALSE]
        /\ file = [c \in Clients |-> Absent]
        /\ reply = [c \in Clients |-> NoReply]
        /\ sent = [c \in Clients |-> 0]
        /\ edits = 0
        /\ disturbed = [c \in Clients |-> FALSE]
        /\ cause = "none"

-----------------------------------------------------------------------------
(* The listener: a biased select, which looks at Ctrl-C first, then at the *)
(* channel, then at new connections.                                       *)
listener == <<server, done, cause>>

Interrupt == /\ server = "serving"
             /\ server' = "stopping"
             /\ cause' = "interrupt"
             /\ UNCHANGED <<content, disk, done, handler>>

(* accept returns an error, which ends the loop and then the process with  *)
(* an error, whatever is in progress.                                      *)
AcceptFails == /\ server = "serving"
               /\ done = 0
               /\ server' = "stopping"
               /\ cause' = "refusal"
               /\ UNCHANGED <<content, disk, done, handler>>

DownloadDoneWhenAlone ==
    /\ server = "serving"
    /\ done > 0
    /\ \A c \in Clients : ~Active(c)
    /\ server' = "stopping"
    /\ done' = done - 1
    /\ cause' = "download"
    /\ UNCHANGED <<content, disk, handler>>
DownloadDone ==
    /\ server = "serving"
    /\ done > 0
    /\ server' = "stopping"
    /\ done' = done - 1
    /\ cause' = "download"
    /\ UNCHANGED <<content, disk, handler>>

(* The loop accepts; the task reads the request, and refuses a bad one.    *)
Accept(c) ==
    /\ server = "serving"
    /\ done = 0
    /\ pc[c] = "idle"
    /\ \/ pc' = [pc EXCEPT ![c] = "reading"]
       \/ pc' = [pc EXCEPT ![c] = "handled"]
    /\ UNCHANGED <<content, disk, listener, req, full, file, reply, sent, disturbed>>

ExitWithoutTheTasks ==
    /\ server = "stopping"
    /\ server' = "exited"
    /\ UNCHANGED <<content, disk, done, handler, cause>>
(* cleanup_all has been awaited, unless accept failed; the return of main  *)
(* drops all tasks.                                                        *)
Exit == /\ server = "stopping"
        /\ server' = "exited"
        /\ pc' = [c \in Clients |-> IF Active(c) THEN "cut" ELSE pc[c]]
        /\ UNCHANGED <<content, disk, done, req, full, file, reply, sent,
                       disturbed, cause>>

-----------------------------------------------------------------------------
(* The handler, serve_web_connection.                                      *)

Goes(c, state) == pc' = [pc EXCEPT ![c] = state]
Answers(c, status) == reply' = [reply EXCEPT ![c] = [NoReply EXCEPT !.status = status]]

(* What serve_web_connection returns: a full file GET sends a message.     *)
Ends(c) == IF full[c] THEN Goes(c, "completed") /\ done' = done + 1
                      ELSE Goes(c, "handled") /\ UNCHANGED done

(* The request is there and has a route.  A Download announces the size    *)
(* taken before serving began and ignores ranges.                          *)
Route(c) ==
    /\ pc[c] = "reading"
    /\ \E r \in Requests[c] :
         /\ req' = [req EXCEPT ![c] = r]
         /\ \/ /\ content.kind = "Directory"
               /\ \/ r.method = "GET" /\ Goes(c, "deciding")
                  \/ r.method = "HEAD" /\ Goes(c, "looking")
               /\ UNCHANGED <<full, reply>>
            \/ /\ content.kind = "Download" /\ r.method = "GET" /\ r.path = "download"
               /\ Goes(c, "opening")
               /\ full' = [full EXCEPT ![c] = TRUE]
               /\ reply' = [reply EXCEPT ![c] = Whole(content.size)]
            \/ /\ \/ r.method = "POST"
                  \/ content.kind = "Download" /\ (r.method = "HEAD" \/ r.path # "download")
               /\ Goes(c, "handled")
               /\ Answers(c, CASE r.method = "HEAD" -> 405
                               [] r.method = "GET" /\ r.path = "/" -> 200
                               [] OTHER -> 404)
               /\ UNCHANGED full
    /\ UNCHANGED <<content, disk, listener, file, sent, disturbed>>

(* web_directory_target: what the path leads to; nothing outside the root. *)
Target(c) == CASE req[c].path = "/" -> Directory
               [] req[c].path \in {"name", "name/"} -> entry
               [] OTHER -> Absent
Slash(c) == req[c].path = "name/"

(* is_full_file_get.                                                       *)
DecideIgnoringRange(c) ==
    /\ pc[c] = "deciding"
    /\ full' = [full EXCEPT ![c] = ~Slash(c) /\ Target(c) > 0]
    /\ Goes(c, "looking")
    /\ UNCHANGED <<content, disk, listener, req, file, reply, sent, disturbed>>
Decide(c) ==
    /\ pc[c] = "deciding"
    /\ full' = [full EXCEPT ![c] = /\ req[c].range.kind = "none"
                                   /\ ~Slash(c) /\ Target(c) > 0]
    /\ Goes(c, "looking")
    /\ UNCHANGED <<content, disk, listener, req, file, reply, sent, disturbed>>

(* write_directory up to the metadata: an error, a redirect, a directory to*)
(* list, or the size that the response will announce.                      *)
Look(c) ==
    /\ pc[c] = "looking"
    /\ \/ /\ Target(c) > 0 /\ ~Slash(c)
          /\ reply' = [reply EXCEPT ![c] = FileRange(req[c].range, sizes[Target(c)])]
          /\ Goes(c, "opening")
          /\ UNCHANGED done
       \/ /\ Target(c) = Directory /\ req[c].path # "name"
          /\ Goes(c, "listing")
          /\ UNCHANGED <<reply, done>>
       \/ /\ Target(c) = Directory /\ req[c].path = "name"
          /\ Answers(c, 302)
          /\ Ends(c)
       \/ /\ Target(c) = Absent \/ (Target(c) > 0 /\ Slash(c))
          /\ Answers(c, 404)
          /\ Ends(c)
    /\ UNCHANGED <<content, disk, server, cause, req, full, file, sent, disturbed>>

(* The directory is read; it may be gone by now.                           *)
List(c) ==
    /\ pc[c] = "listing"
    /\ Answers(c, IF Target(c) = Directory THEN 200 ELSE 404)
    /\ Ends(c)
    /\ UNCHANGED <<content, disk, server, cause, req, full, file, sent, disturbed>>

(* File::open, which opens a directory too; then, for the listing, the     *)
(* header and, unless it is a HEAD or a range that cannot be satisfied, the*)
(* body.                                                                   *)
Open(c) ==
    /\ pc[c] = "opening"
    /\ file' = [file EXCEPT ![c] = entry]
    /\ \/ /\ entry = Absent /\ content.kind = "Directory"
          /\ Answers(c, 404)
          /\ Ends(c)
       \/ /\ entry = Absent /\ content.kind = "Download"
          /\ Goes(c, "failed")
          /\ UNCHANGED <<reply, done>>
       \/ /\ entry # Absent
          /\ IF req[c].method = "HEAD" \/ reply[c].status = 416
             THEN Ends(c)
             ELSE Goes(c, "sending") /\ UNCHANGED done
          /\ UNCHANGED reply
    /\ UNCHANGED <<content, disk, server, cause, req, full, sent,
                   disturbed>>

(* The copy loop: the listing takes no more than it announced, a Download  *)
(* reads to the end of the file.                                           *)
MoreToSendUnlimited(c) ==
    file[c] # Directory => reply[c].start + sent[c] < sizes[file[c]]
MoreToSend(c) ==
    /\ content.kind = "Directory" => sent[c] < reply[c].length
    /\ file[c] # Directory => reply[c].start + sent[c] < sizes[file[c]]

Send(c) ==
    /\ pc[c] = "sending"
    /\ MoreToSend(c)
    /\ IF file[c] = Directory
       THEN Goes(c, "failed") /\ UNCHANGED sent
       ELSE /\ sent' = [sent EXCEPT ![c] = @ + 1]
            /\ UNCHANGED pc
    /\ UNCHANGED <<content, disk, listener, req, full, file, reply, disturbed>>

Finish(c) ==
    /\ pc[c] = "sending"
    /\ ~MoreToSend(c)
    /\ Ends(c)
    /\ UNCHANGED <<content, disk, server, cause, req, full, file, reply,
                   sent, disturbed>>

(* The client goes away and a read or a write notices it; one that is not  *)
(* noticed makes no difference here.                                       *)
Broken(c) ==
    /\ Active(c) /\ pc[c] # "deciding"
    /\ Goes(c, "failed")
    /\ UNCHANGED <<content, disk, listener, req, full, file, reply, sent, disturbed>>

-----------------------------------------------------------------------------
(* Somebody edits the file: removes or replaces it, or puts a directory in *)
(* its place, which open handles do not see; or changes its length, which  *)
(* they do.                                                                *)
Edit ==
    /\ edits < MaxEdits
    /\ edits' = edits + 1
    /\ \/ /\ entry' \in {Absent, Directory} \ {entry}
          /\ UNCHANGED sizes
       \/ /\ entry' = Len(sizes) + 1
          /\ \E n \in 0..MaxSize : sizes' = Append(sizes, n)
       \/ /\ entry > 0
          /\ \E n \in 0..MaxSize \ {sizes[entry]} :
               sizes' = [sizes EXCEPT ![entry] = n]
          /\ UNCHANGED entry
    /\ disturbed' = [c \in Clients |-> disturbed[c] \/ Active(c)]
    /\ UNCHANGED <<content, listener, pc, req, full, file, reply, sent>>

-----------------------------------------------------------------------------
Handle(c) == Route(c) \/ Decide(c) \/ Look(c) \/ List(c) \/ Open(c) \/ Send(c) \/ Finish(c)

Next == \/ Interrupt \/ AcceptFails \/ DownloadDone \/ Exit \/ Edit
        \/ \E c \in Clients : Accept(c) \/ Handle(c) \/ Broken(c)

Fairness == WF_vars(DownloadDone) /\ WF_vars(Exit)

Spec == Init /\ [][Next]_vars /\ Fairness

-----------------------------------------------------------------------------
(* Properties.                                                             *)

TypeOK ==
    /\ content \in [kind : {"Directory", "Download"}, size : 0..MaxSize]
    /\ sizes \in Seq(0..MaxSize) /\ sizes # <<>>
    /\ entry \in {Absent, Directory} \cup DOMAIN sizes
    /\ server \in {"serving", "stopping", "exited"}
    /\ done \in 0..Cardinality(Clients)
    /\ \A c \in Clients :
         /\ Active(c) => server # "exited"
         /\ pc[c] = "sending" => file[c] # Absent
         /\ sent[c] \in 0..MaxSize
         /\ reply[c].length \in Nat
    /\ edits \in 0..MaxEdits
    /\ cause \in {"none", "interrupt", "refusal", "download"}
    /\ server = "serving" <=> cause = "none"

(* The file was edited after its size was taken, or may have been.         *)
Disturbed(c) == IF content.kind = "Directory" THEN disturbed[c] ELSE edits > 0

(* A 200 with all the bytes it announced, to a GET of the file as a whole. *)
CompleteDownload(c) ==
    /\ req[c].method = "GET"
    /\ IF content.kind = "Directory"
       THEN req[c].path = "name" /\ req[c].range.kind = "none"
       ELSE req[c].path = "download"
    /\ reply[c].status = 200
    /\ sent[c] = reply[c].length

(* Unless Ctrl-C or a failed accept (http.rs:150) ends the service, it ends*)
(* with a complete download, whatever is requested beside it: ranges,      *)
(* HEADs, pages, errors and lost connections consume nothing.  Only an edit*)
(* of the file in the middle of a request may deceive it (http.rs:604      *)
(* decides before the file is opened).                                     *)
OnlyDownloadsConsume ==
    /\ TypeOK
    /\ server # "serving" =>
          cause \in {"interrupt", "refusal"} \/ \E c \in Clients : pc[c] = "completed"
    /\ \A c \in Clients :
         pc[c] = "completed" => CompleteDownload(c) \/ Disturbed(c)

(* web_file_range and the copy (directory.rs:322): a 206 sends exactly the *)
(* requested bytes that the file has, a 416 is sent when there are none;   *)
(* however the file grows or is replaced meanwhile, the listing never sends*)
(* more than the Content-Length it announced (directory.rs:313).           *)
Requested(range, size) ==
    {k \in 0..size - 1 :
        \/ range.kind = "last" /\ k >= size - range.n
        \/ range.kind = "from" /\ k >= range.a
        \/ range.kind = "between" /\ range.a <= k /\ k <= range.b}
RangeIsExact ==
    \A c \in Clients : content.kind = "Directory" =>
        /\ sent[c] <= reply[c].length
        /\ /\ pc[c] = "handled" /\ edits = 0
           /\ req[c].method = "GET" /\ req[c].path = "name" /\ req[c].range.kind # "none"
           => LET wanted == Requested(req[c].range, sizes[1])
              IN  /\ reply[c].length = sent[c]
                  /\ reply[c].status = (IF wanted = {} THEN 416 ELSE 206)
                  /\ wanted = reply[c].start..reply[c].start + sent[c] - 1

(* The first download to finish ends the process, whatever else is still   *)
(* in progress (http.rs:147).                                              *)
DownloadEndsService ==
    (\E c \in Clients : pc[c] = "completed") ~> server = "exited"
=============================================================================
