---------------------------- MODULE ObjectRelay ----------------------------
(***************************************************************************)
(* `ii send --s3 | --r2 | --azure | --webdav | --ftp | --sftp` and the     *)
(* `ii recv` of such tickets (backend/*.rs, the dispatch in                *)
(* service/recv.rs).  A file or stdin is stored under its MD5: a sender    *)
(* uploads only what is not there yet, and tickets of equal contents share *)
(* one object, which a receiver with a -d ticket deletes afterwards.       *)
(*                                                                         *)
(* The store is external.  Over HTTP an object appears when its upload is  *)
(* complete, except that a WebDAV server may write in place, as FTP and    *)
(* SFTP do: there the object exists, and grows, while it is uploaded, and  *)
(* an upload that is cut off leaves what it wrote.  Azure stages blocks by *)
(* key and block id, for all who upload to the key, until a list of ids    *)
(* makes them the object.                                                  *)
(*                                                                         *)
(* An inode is a sequence of blocks; a block is the content it is from.    *)
(***************************************************************************)
EXTENDS Integers, Sequences, FiniteSets, SequencesExt, FilePlan

CONSTANTS Senders, Receivers,
          Contents,    (* what a source file may contain; also the keys    *)
          Hole,        (* a block nobody wrote                             *)
          Size,        (* blocks in a file                                 *)
          Stores,      (* [protocol, inPlace]: the stores to look at       *)
          StartFiles,  (* what a receiver may have under the ticket's name *)
          Modes,       (* flags of `ii recv`, as in FilePlan               *)
          MaxSends,    (* bound: runs of `ii send`                         *)
          MaxRuns,     (* bound: runs of `ii recv`                         *)
          MaxFaults    (* bound: edits of sources, lost writes to stdout,  *)
                       (* bodies that end early                            *)

ASSUME HoleAssumption == Hole \notin Contents
ASSUME BoundsAssumption ==
    Size \in Nat \ {0} /\ MaxSends \in Nat /\ MaxRuns \in Nat /\ MaxFaults \in Nat
ASSUME FilesAssumption == StartFiles \subseteq Seq(Contents \cup {Hole})
ASSUME StoresAssumption ==
    /\ Stores \subseteq [protocol : {"s3", "azure", "webdav", "ftp", "sftp"},
                        inPlace : BOOLEAN]
    /\ \A s \in Stores : s.protocol # "webdav" => s.inPlace = (s.protocol \in {"ftp", "sftp"})

VARIABLES
    store,    (* the store all use                                         *)
    objects,  (* key to inode, for the objects that exist                  *)
    inodes,   (* inode to its blocks                                       *)
    staged,   (* Azure: key and block id to the block, or Hole             *)
    source,   (* what the sender's file contains                           *)
    send,     (* where its `ii send` is                                    *)
    upload,   (* key, -d, the inode it writes and how many blocks it wrote *)
    tickets,  (* those that were issued                                    *)
    sends,    (* how many sends were started                               *)
    recv,     (* where the receiver's latest run is                        *)
    ticket,   (* its ticket                                                *)
    offset,   (* its resume_from, until the destination is open            *)
    get,      (* inode, next block and end (content-length) of its GET     *)
    file,     (* its file, or what its --stdout is redirected to           *)
    piped,    (* whether a run that receives writes to stdout              *)
    runs,     (* how many runs were made                                   *)
    faults,   (* how many of these there were                              *)
    kept,     (* history: blocks of the file that were there before the run*)
    clean,    (* history: the object it reads was whole, or will be, when  *)
              (* it was opened, and nobody wrote to it since               *)
    short,    (* history: its body ended early, or its last write was lost *)
    spoilt    (* history: keys of which an upload was edited or, in place, *)
              (* cut off midway                                            *)

storeVars == <<store, objects, inodes, staged>>
sendVars == <<source, send, upload, tickets, sends, faults, spoilt>>
recvVars == <<recv, ticket, offset, get, file, piped, runs, kept, clean, short>>
vars == <<storeVars, sendVars, recvVars>>

Ended == {"idle", "done", "failed"}
NoUpload == [key |-> Hole, del |-> FALSE, inode |-> 0, pos |-> 0]
NoTicket == [key |-> Hole, del |-> FALSE]
NoGet == [inode |-> 0, next |-> 0, end |-> 0]

Http == store.protocol \in {"s3", "azure", "webdav"}

NothingStaged == [i \in 1..Size |-> Hole]
Whole(k) == [i \in 1..Size |-> k]

(* The function f with the value v for k.                                  *)
Put(f, k, v) == [x \in DOMAIN f \cup {k} |-> IF x = k THEN v ELSE f[x]]

(* A handle writes at its own position, whatever others do to the file.    *)
WriteAt(f, pos, block) ==
    [i \in 1..(IF Len(f) > pos THEN Len(f) ELSE pos + 1) |->
        IF i = pos + 1 THEN block ELSE IF i <= Len(f) THEN f[i] ELSE Hole]

(* The senders that write to the object k in place.                        *)
Writers(k) == {s \in Senders : /\ store.inPlace
                               /\ send[s] = "uploading"
                               /\ upload[s].key = k}

Init == /\ store \in Stores
        /\ objects = <<>>
        /\ inodes = <<>>
        /\ staged = [k \in Contents |-> NothingStaged]
        /\ source \in [Senders -> Contents]
        /\ send = [s \in Senders |-> "idle"]
        /\ upload = [s \in Senders |-> NoUpload]
        /\ tickets = {}
        /\ sends = 0
        /\ recv = [r \in Receivers |-> "idle"]
        /\ ticket = [r \in Receivers |-> NoTicket]
        /\ offset = [r \in Receivers |-> 0]
        /\ get = [r \in Receivers |-> NoGet]
        /\ file \in [Receivers -> StartFiles]
        /\ piped = [r \in Receivers |-> FALSE]
        /\ runs = 0
        /\ faults = 0
        /\ kept = [r \in Receivers |-> 0]
        /\ clean = [r \in Receivers |-> TRUE]
        /\ short = [r \in Receivers |-> FALSE]
        /\ spoilt = {}

-----------------------------------------------------------------------------
(* The sender.                                                             *)

Become(s, state) == send' = [send EXCEPT ![s] = state]

(* source_from_args takes the MD5.                                         *)
Send(s, d) ==
    /\ send[s] = "idle"
    /\ sends < MaxSends
    /\ sends' = sends + 1
    /\ upload' = [upload EXCEPT ![s] = [key |-> source[s], del |-> d, inode |-> 0, pos |-> 0]]
    /\ Become(s, "hashed")
    /\ UNCHANGED <<storeVars, source, tickets, faults, spoilt, recvVars>>

Issue(s) ==
    /\ tickets' = tickets \cup {[key |-> upload[s].key, del |-> upload[s].del]}
    /\ upload' = [upload EXCEPT ![s] = NoUpload]
    /\ Become(s, "idle")

(* The object exists: reuse it.                                            *)
Reuse(s) ==
    /\ send[s] = "hashed"
    /\ upload[s].key \in DOMAIN objects
    /\ Issue(s)
    /\ UNCHANGED <<storeVars, source, sends, faults, spoilt, recvVars>>

(* It does not.                                                            *)
Missing(s) ==
    /\ send[s] = "hashed"
    /\ upload[s].key \notin DOMAIN objects
    /\ Become(s, "opening")
    /\ UNCHANGED <<storeVars, source, upload, tickets, sends, faults, spoilt, recvVars>>

(* FTP takes any failure of SIZE for a missing object, S3 a HEAD that gets *)
(* no answer.                                                              *)
SizeFails(s) ==
    /\ store.protocol = "ftp"
    /\ send[s] = "hashed"
    /\ Become(s, "opening")
    /\ UNCHANGED <<storeVars, source, upload, tickets, sends, faults, spoilt, recvVars>>
HeadFails(s) ==
    /\ store.protocol = "s3"
    /\ send[s] = "hashed"
    /\ Become(s, "opening")
    /\ UNCHANGED <<storeVars, source, upload, tickets, sends, faults, spoilt, recvVars>>

(* Open the source and begin an upload that nobody sees until it is        *)
(* complete.                                                               *)
BeginHidden(s) ==
    /\ ~store.inPlace /\ store.protocol # "azure"
    /\ send[s] = "opening"
    /\ inodes' = Append(inodes, <<>>)
    /\ upload' = [upload EXCEPT ![s].inode = Len(inodes) + 1]
    /\ Become(s, "uploading")
    /\ UNCHANGED <<store, objects, staged, source, tickets, sends, faults, spoilt, recvVars>>

(* The same, of blocks.                                                    *)
BeginStaging(s) ==
    /\ store.protocol = "azure"
    /\ send[s] = "opening"
    /\ Become(s, "uploading")
    /\ UNCHANGED <<storeVars, source, upload, tickets, sends, faults, spoilt, recvVars>>

(* The same in place: the object is created or truncated.                  *)
BeginInPlace(s) ==
    LET k == upload[s].key IN
    /\ store.inPlace
    /\ send[s] = "opening"
    /\ objects' = IF k \in DOMAIN objects THEN objects ELSE Put(objects, k, Len(inodes) + 1)
    /\ inodes' = IF k \in DOMAIN objects
                 THEN [inodes EXCEPT ![objects[k]] = <<>>]
                 ELSE Append(inodes, <<>>)
    /\ upload' = [upload EXCEPT ![s].inode = objects'[k]]
    /\ clean' = [r \in Receivers |-> clean[r] /\ ticket[r].key # k]
    /\ Become(s, "uploading")
    /\ UNCHANGED <<store, staged, source, tickets, sends, faults, spoilt, recv, ticket,
                   offset, get, file, piped, runs, kept, short>>

(* One block of what is left of the source.                                *)
Reads(s) ==
    /\ send[s] = "uploading"
    /\ upload[s].pos < Size
    /\ upload' = [upload EXCEPT ![s].pos = @ + 1]
    /\ spoilt' = IF source[s] = upload[s].key THEN spoilt ELSE spoilt \cup {upload[s].key}
    /\ UNCHANGED <<store, objects, source, send, tickets, sends, faults, recvVars>>

(* ... is written, by copy_with_progress_limited or as a part of put_multipart. *)
Upload(s) ==
    /\ store.protocol # "azure"
    /\ Reads(s)
    /\ inodes' = [inodes EXCEPT ![upload[s].inode] = WriteAt(@, upload[s].pos, source[s])]
    /\ UNCHANGED staged

(* ... is staged.                                                          *)
PutBlock(s) ==
    /\ store.protocol = "azure"
    /\ Reads(s)
    /\ staged' = [staged EXCEPT ![upload[s].key][upload[s].pos + 1] = source[s]]
    /\ UNCHANGED inodes

(* The upload is complete, and a success; the ticket is printed.           *)
FinishEarly(s) ==
    /\ store.protocol # "azure"
    /\ send[s] = "uploading"
    /\ upload[s].pos > 0
    /\ objects' = IF store.inPlace THEN objects
                  ELSE Put(objects, upload[s].key, upload[s].inode)
    /\ Issue(s)
    /\ UNCHANGED <<store, inodes, staged, source, sends, faults, spoilt, recvVars>>
Finish(s) ==
    /\ store.protocol # "azure"
    /\ send[s] = "uploading"
    /\ upload[s].pos = Size
    /\ objects' = IF store.inPlace THEN objects
                  ELSE Put(objects, upload[s].key, upload[s].inode)
    /\ Issue(s)
    /\ UNCHANGED <<store, inodes, staged, source, sends, faults, spoilt, recvVars>>

(* The list of all ids, each with the latest block there is: a staged one, *)
(* or the object's if somebody's list has taken them meanwhile.  The rest  *)
(* of what is staged is dropped.  An id without any block is an error.     *)
Latest(k, i) == IF staged[k][i] = Hole /\ k \in DOMAIN objects
                THEN inodes[objects[k]][i] ELSE staged[k][i]
PutBlockList(s) ==
    LET k == upload[s].key
        latest == [i \in 1..Size |-> Latest(k, i)]
    IN  /\ store.protocol = "azure"
        /\ send[s] = "uploading"
        /\ upload[s].pos = Size
        /\ \A i \in 1..Size : latest[i] # Hole
        /\ inodes' = Append(inodes, latest)
        /\ objects' = Put(objects, k, Len(inodes) + 1)
        /\ staged' = [staged EXCEPT ![k] = NothingStaged]
        /\ Issue(s)
        /\ UNCHANGED <<store, source, sends, faults, spoilt, recvVars>>

(* A request fails, the connection is lost, the process is killed.         *)
SendFailsKeepingUpload(s) ==
    /\ send[s] # "idle"
    /\ Become(s, "idle")
    /\ spoilt' = IF s \in Writers(upload[s].key) THEN spoilt \cup {upload[s].key}
                                                 ELSE spoilt
    /\ UNCHANGED <<storeVars, source, upload, tickets, sends, faults, recvVars>>
SendFails(s) ==
    /\ send[s] # "idle"
    /\ Become(s, "idle")
    /\ spoilt' = IF s \in Writers(upload[s].key) THEN spoilt \cup {upload[s].key}
                                                 ELSE spoilt
    /\ upload' = [upload EXCEPT ![s] = NoUpload]
    /\ UNCHANGED <<storeVars, source, tickets, sends, faults, recvVars>>

(* Somebody edits the source during the send; before, it makes no odds.    *)
Edit(s) ==
    /\ send[s] # "idle"
    /\ faults < MaxFaults
    /\ faults' = faults + 1
    /\ \E v \in Contents \ {source[s]} : source' = [source EXCEPT ![s] = v]
    /\ UNCHANGED <<storeVars, send, upload, tickets, sends, spoilt, recvVars>>

-----------------------------------------------------------------------------
(* The receiver.                                                           *)

Goes(r, state) == recv' = [recv EXCEPT ![r] = state]

(* What follows success: try_delete_..., if the ticket says so.            *)
DeletesAnyway(r, t) == Goes(r, "deleting")
DeletesOrEnds(r, t) == Goes(r, IF t.del THEN "deleting" ELSE "done")

(* `ii recv <ticket>`, up to the request.  Skipping deletes, too.  The     *)
(* shell has emptied the file that stdout is redirected to.                *)
Recv(r, t, m) ==
    /\ recv[r] \in Ended
    /\ runs < MaxRuns
    /\ runs' = runs + 1
    /\ ticket' = [ticket EXCEPT ![r] = t]
    /\ piped' = [piped EXCEPT ![r] = m = "stdout"]
    /\ file' = IF m = "stdout" THEN [file EXCEPT ![r] = <<>>] ELSE file
    /\ offset' = [offset EXCEPT ![r] = ResumeFrom(m, file[r], Whole(t.key))]
    /\ IF Skips(m, file[r], Whole(t.key)) THEN DeletesOrEnds(r, t) ELSE Goes(r, "asking")
    /\ kept' = [kept EXCEPT ![r] = 0]
    /\ clean' = [clean EXCEPT ![r] = TRUE]
    /\ short' = [short EXCEPT ![r] = FALSE]
    /\ UNCHANGED <<storeVars, sendVars, get>>

(* The object is open from block `from` on; so is the destination, to      *)
(* append if from > 0, truncated if not.                                   *)
Opened(r, k, from) ==
    /\ get' = [get EXCEPT ![r] =
                 [inode |-> objects[k], next |-> from,
                  end |-> IF Http THEN Len(inodes[objects[k]]) ELSE Size]]
    /\ file' = [file EXCEPT ![r] = IF from > 0 THEN @ ELSE <<>>]
    /\ kept' = [kept EXCEPT ![r] = from]
    /\ clean' = [clean EXCEPT ![r] = k \notin spoilt /\ Writers(k) = {}]
    /\ Goes(r, "copying")
    /\ offset' = [offset EXCEPT ![r] = 0]

Asks(r) == recv[r] = "asking" /\ ticket[r].key \in DOMAIN objects

(* A GET of an object that is there.  A range is granted if it begins      *)
(* inside; if it is ignored (200), the whole is asked for again.           *)
AskHttpAppendingWhole(r) ==
    LET k == ticket[r].key IN
    /\ Http
    /\ Asks(r)
    /\ \/ /\ offset[r] > 0 => offset[r] < Len(inodes[objects[k]])
          /\ Opened(r, k, offset[r])
       \/ /\ offset[r] > 0
          /\ get' = [get EXCEPT ![r] =
                       [inode |-> objects[k], next |-> 0, end |-> Len(inodes[objects[k]])]]
          /\ kept' = [kept EXCEPT ![r] = offset[r]]
          /\ clean' = [clean EXCEPT ![r] = k \notin spoilt /\ Writers(k) = {}]
          /\ Goes(r, "copying")
          /\ offset' = [offset EXCEPT ![r] = 0]
          /\ UNCHANGED file
    /\ UNCHANGED <<storeVars, sendVars, ticket, piped, runs, short>>
AskHttp(r) ==
    LET k == ticket[r].key IN
    /\ Http
    /\ Asks(r)
    /\ \/ /\ offset[r] > 0 => offset[r] < Len(inodes[objects[k]])
          /\ Opened(r, k, offset[r])
       \/ /\ offset[r] > 0
          /\ offset' = [offset EXCEPT ![r] = 0]
          /\ UNCHANGED <<recv, get, file, kept, clean>>
    /\ UNCHANGED <<storeVars, sendVars, ticket, piped, runs, short>>

(* REST may be refused, and then RETR gives the whole; SFTP seeks, to      *)
(* behind the end if need be.                                              *)
AskFtp(r) ==
    /\ store.protocol = "ftp"
    /\ Asks(r)
    /\ \E from \in {0, offset[r]} : Opened(r, ticket[r].key, from)
    /\ UNCHANGED <<storeVars, sendVars, ticket, piped, runs, short>>
AskSftp(r) ==
    /\ store.protocol = "sftp"
    /\ Asks(r)
    /\ Opened(r, ticket[r].key, offset[r])
    /\ UNCHANGED <<storeVars, sendVars, ticket, piped, runs, short>>

(* One round of the copy loop.  FTP and SFTP read to the end of the file,  *)
(* HTTP as much as the response announced.                                 *)
Copy(r) ==
    LET g == get[r] IN
    /\ recv[r] = "copying"
    /\ g.next < g.end /\ g.next < Len(inodes[g.inode])
    /\ file' = [file EXCEPT ![r] = Append(@, inodes[g.inode][g.next + 1])]
    /\ get' = [get EXCEPT ![r].next = @ + 1]
    /\ UNCHANGED <<storeVars, sendVars, recv, ticket, offset, piped, runs, kept, clean, short>>

(* The end of the stream, which is success: the size is not looked at.     *)
Complete(r) ==
    LET g == get[r] IN
    /\ recv[r] = "copying"
    /\ IF Http THEN g.next = g.end ELSE g.next >= Len(inodes[g.inode])
    /\ DeletesOrEnds(r, ticket[r])
    /\ get' = [get EXCEPT ![r] = NoGet]
    /\ piped' = [piped EXCEPT ![r] = FALSE]
    /\ UNCHANGED <<storeVars, sendVars, ticket, offset, file, runs, kept, clean, short>>

(* attohttpc takes a body that ends before its Content-Length for one that *)
(* is complete, and so does the copy of an S3 or Azure ticket.             *)
CompleteShort(r) ==
    LET g == get[r] IN
    /\ recv[r] = "copying"
    /\ store.protocol \in {"s3", "azure"}
    /\ g.next < g.end
    /\ faults < MaxFaults
    /\ faults' = faults + 1
    /\ short' = [short EXCEPT ![r] = TRUE]
    /\ DeletesOrEnds(r, ticket[r])
    /\ get' = [get EXCEPT ![r] = NoGet]
    /\ piped' = [piped EXCEPT ![r] = FALSE]
    /\ UNCHANGED <<storeVars, source, send, upload, tickets, sends, spoilt, ticket, offset, file,
                   runs, kept, clean>>

(* On stdout, whose writes are done behind the copy's back, the last one   *)
(* may fail, and the flush that says so is ignored.                        *)
CompleteUnflushed(r) ==
    LET g == get[r] IN
    /\ recv[r] = "copying"
    /\ piped[r]
    /\ IF Http THEN g.next = g.end ELSE g.next >= Len(inodes[g.inode])
    /\ file[r] # <<>>
    /\ faults < MaxFaults
    /\ faults' = faults + 1
    /\ file' = [file EXCEPT ![r] = Front(@)]
    /\ short' = [short EXCEPT ![r] = TRUE]
    /\ DeletesOrEnds(r, ticket[r])
    /\ get' = [get EXCEPT ![r] = NoGet]
    /\ piped' = [piped EXCEPT ![r] = FALSE]
    /\ UNCHANGED <<storeVars, source, send, upload, tickets, sends, spoilt, ticket, offset, runs,
                   kept, clean>>

(* Whatever the store answers to the deletion, the run was a success.      *)
Delete(r) ==
    /\ recv[r] = "deleting"
    /\ \/ objects' = [q \in DOMAIN objects \ {ticket[r].key} |-> objects[q]]
       \/ UNCHANGED objects
    /\ Goes(r, "done")
    /\ UNCHANGED <<store, inodes, staged, sendVars, ticket, offset, get, file, piped, runs, kept, clean, short>>

(* No such object, a range that cannot be satisfied, a connection that is  *)
(* reset, a WebDAV body that ends early, a transfer the FTP or SFTP server *)
(* does not confirm, a full disk, an interrupt.                            *)
RecvFailsDeleting(r) ==
    /\ recv[r] \in {"asking", "copying"}
    /\ DeletesOrEnds(r, ticket[r])
    /\ get' = [get EXCEPT ![r] = NoGet]
    /\ piped' = [piped EXCEPT ![r] = FALSE]
    /\ UNCHANGED <<storeVars, sendVars, ticket, offset, file, runs, kept, clean, short>>
RecvFails(r) ==
    /\ recv[r] \in {"asking", "copying"}
    /\ Goes(r, "failed")
    /\ ticket' = [ticket EXCEPT ![r] = NoTicket]
    /\ offset' = [offset EXCEPT ![r] = 0]
    /\ get' = [get EXCEPT ![r] = NoGet]
    /\ kept' = [kept EXCEPT ![r] = 0]
    /\ clean' = [clean EXCEPT ![r] = TRUE]
    /\ short' = [short EXCEPT ![r] = FALSE]
    /\ piped' = [piped EXCEPT ![r] = FALSE]
    /\ UNCHANGED <<storeVars, sendVars, file, runs>>

-----------------------------------------------------------------------------
Next ==
    \/ \E s \in Senders :
         \/ \E d \in BOOLEAN : Send(s, d)
         \/ Reuse(s) \/ Missing(s) \/ SizeFails(s) \/ HeadFails(s)
         \/ BeginHidden(s) \/ BeginStaging(s) \/ BeginInPlace(s)
         \/ Upload(s) \/ PutBlock(s) \/ Finish(s) \/ PutBlockList(s)
         \/ SendFails(s) \/ Edit(s)
    \/ \E r \in Receivers :
         \/ \E t \in tickets, m \in Modes : Recv(r, t, m)
         \/ AskHttp(r) \/ AskFtp(r) \/ AskSftp(r) \/ Copy(r)
         \/ Complete(r) \/ CompleteShort(r) \/ CompleteUnflushed(r) \/ Delete(r) \/ RecvFails(r)

Spec == Init /\ [][Next]_vars

-----------------------------------------------------------------------------
(* Properties.                                                             *)

Block == Contents \cup {Hole}
Ticket == [key : Contents, del : BOOLEAN]

TypeOK ==
    /\ store \in Stores
    /\ inodes \in Seq(Seq(Block))
    /\ \A i \in DOMAIN inodes : Len(inodes[i]) <= Size
    /\ staged \in [Contents -> [1..Size -> Block]]
    /\ DOMAIN objects \subseteq Contents
    /\ \A k \in DOMAIN objects : objects[k] \in DOMAIN inodes
    /\ source \in [Senders -> Contents]
    /\ \A s \in Senders :
         /\ send[s] = "idle" <=> upload[s] = NoUpload
         /\ send[s] = "uploading" /\ store.protocol # "azure"
                <=> upload[s].inode \in DOMAIN inodes
         /\ upload[s].pos \in 0..Size
    /\ tickets \subseteq Ticket
    /\ \A r \in Receivers :
         /\ recv[r] \in Ended \cup {"asking", "copying", "deleting"}
         /\ recv[r] \notin {"idle", "failed"} => ticket[r] \in Ticket
         /\ recv[r] = "copying" <=> get[r].inode \in DOMAIN inodes
         /\ file[r] \in Seq(Block) /\ kept[r] <= Len(file[r])

(* An object holds the content its key says unless it is being written or  *)
(* an upload of it was edited or cut off: check-then-upload (ftp.rs:34,    *)
(* sftp.rs:115) lets senders truncate and overwrite each other's object,   *)
(* and yet, as they write the same bytes at the same places, the last one  *)
(* to finish leaves it whole.                                              *)
StoredIsWhole ==
    \A k \in DOMAIN objects :
        k \notin spoilt /\ Writers(k) = {} => inodes[objects[k]] = Whole(k)

(* All a ticket promises is that one can fetch its object: that can only be*)
(* gone if a -d ticket was issued for the same content, by any sender, for *)
(* the object is shared (s3.rs:108).                                       *)
TicketKeepsObject ==
    \A t \in tickets :
        t.key \in DOMAIN objects \/ [key |-> t.key, del |-> TRUE] \in tickets

(* What a receiver has: its old blocks and, after them, the payload's, all *)
(* of them or, when it was cut short, no others.                           *)
Holds(r) ==
    LET k == ticket[r].key IN
    /\ Len(file[r]) = (IF kept[r] > Size THEN kept[r] ELSE Size)
    /\ \A i \in kept[r] + 1..Size : file[r][i] = k
HoldsPart(r) ==
    LET k == ticket[r].key IN
    /\ Len(file[r]) <= (IF kept[r] > Size THEN kept[r] ELSE Size)
    /\ \A i \in kept[r] + 1..Len(file[r]) : file[r][i] = k
Received(r) == clean[r] => IF short[r] THEN HoldsPart(r) ELSE Holds(r)

(* A run that reports success has written the payload behind the blocks it *)
(* kept, whatever ranges the server granted, refused or ignored, and       *)
(* although the object may be deleted or replaced under it: as long as     *)
(* what it read was whole and not written in place meanwhile.  If its body *)
(* ended early (s3.rs:161 takes that for the end) or stdout did not take   *)
(* the last block (its flush is ignored, s3.rs:328), it has written the    *)
(* blocks up to there, and reports success all the same.                   *)
ReceivedIsWhole ==
    \A r \in Receivers : recv[r] \in {"deleting", "done"} => Received(r)

(* On both ends, and what is neither whole nor an object is in the hands   *)
(* of a running upload (TypeOK).                                           *)
ObjectsAreWhole == TypeOK /\ StoredIsWhole /\ ReceivedIsWhole

Deletes(r, k) ==
    /\ recv[r] = "deleting" /\ recv'[r] = "done"
    /\ ticket[r] = [key |-> k, del |-> TRUE]

(* "after a successful download, or after skipping an identical file"      *)
(* (ftp.md:94, sftp.md:106, webdav.md:176, s3.md:162).  Objects are deleted*)
(* by receivers with a -d ticket for that very content, which hold it, and *)
(* by none that failed; the object of another content is never touched.    *)
(* But what counts is that the run reported success: one that was cut short*)
(* unnoticed deletes the object although it holds a part.                  *)
DeletedBySuccess ==
    [][\A k \in DOMAIN objects \ DOMAIN objects' :
         \E r \in Receivers : Deletes(r, k) /\ Received(r)]_vars
=============================================================================
