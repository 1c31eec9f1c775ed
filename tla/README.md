# ii in TLA+

TLA+ models of [`ii`](../src/README.en.md), a command-line program that moves
files between machines: over peer-to-peer QUIC (iroh), from and to browsers on
the LAN, and through object stores and file servers.  The modules follow the
Rust sources under `src/src`; `PROJECT.json` maps every definition to the
lines it stands for.

Checking: `tlc -config MCSendPool.cfg MCSendPool.tla` and so on for each
`.cfg`; proofs: `tlapm ServingProofs.tla` and so on for each `...Proofs.tla`.

## 1. Inventory

`ii` is one process per command, on a single-threaded tokio runtime
(`main.rs:3`).  Tasks interleave only where they await; what stands between two
awaits is atomic.  Two processes, or a process and a browser, interleave freely
and fail independently.

| Part | State | Operations | Interacts with | Hard behaviour | Correct when |
|---|---|---|---|---|---|
| Keep-alive sender (`service/send.rs`, `send -t`) | two JoinSets, FIFO of connections, counters | accept, handshake, transfer, refill, shut down | receivers over QUIC; the payload source | bursts against limits, tasks ending in any order, shutdown | limits hold, FIFO, no idle slot, count right, admitted is served |
| Plain sender (`serve_once`) | the connection being served, count | accept, serve inline, leave | one receiver at a time | lost connections, retries, Ctrl-C | serves until one receiver has the payload, then exits |
| Receiver (`service/recv.rs`, `transport/p2p.rs`) | the file on disk, resume offset | plan, dial, request, append | sender | a crash between any two writes, reruns with other flags | the finished file is the payload, progress is kept |
| Payload source (`transport/source.rs`, `archive.rs`, `progress.rs`) | path or temporary file, size, MD5 | open, seek, stream | senders | edits after the ticket was made | streams what the ticket describes |
| Upload sessions (`web/upload.rs`, `ii drop` in `service/lan.rs`) | map of sessions, temporary files, target files | init, HEAD, PATCH, plain POST, expiry, clean-up | the page's script and its localStorage | tabs on one session, cut bodies, lost answers, expiry, shutdown | the target is never partial, map and disk agree, nothing leaks |
| Web server (`web/http.rs`, `web/directory.rs`) | listener, completion channel | page, download, listing, `--once` | upload sessions, file system | first complete download ends the process | exits exactly after a complete file |
| WebDAV server (`web/dav.rs`) | lock table, tree on disk | LOCK, UNLOCK, PUT, MOVE, COPY, DELETE, MKCOL | several clients | lock checked, body awaited, file replaced; locks carried by MOVE; expiry | no write under another's lock; locks do not overlap |
| WebRTC room (`web/webrtc.rs`, `webrtc_page.html`) | peers with last_seen, signal queues; a page's id and connections | join, peers, heartbeat, relay, poll; offer, answer, candidates | browsers | signals and lists in any order, bounded queues, lost responses | present pairs connect, what works is kept |
| Tunnel, SOCKS5, TCP/UDP forwarders (`service/tunnel.rs`, `socks5.rs`, `network.rs`) | permits, session table, per-direction copies | connect, copy, retire | two peers and a target | half-closed streams, idle timers, limits | permits come back, an active session stays |
| Watch and queue (`service/watch.rs`, `queue.rs`) | seen stamps, pending stamps, jobs | scan, stabilise, send | plain sender, an editor of the folder | edits during a scan or a send, failed sends | each stable version is sent |
| Object storage and file servers (`backend/*`) | objects by content key | HEAD, PUT, GET, DELETE | several senders and receivers | shared objects, delete after receive | a ticket's object exists while it may be received |
| Profiles (`storage/*.rs`) | `ii.toml`, key files | load, prompt, validate, save after success | every command with a storage profile, the GUI | whole-file saves of old copies, emptied files, keys before profiles | a save changes what its user meant; what is stored can be used |
| GUI (`gui/src/main.rs`, `queue.rs`) | SQLite table of tasks, event channel, its copy of the configuration | start, apply events, clear, edit profiles | transfers in threads, a second GUI, `ii.toml` | read and write are two statements, refused statements, deleted rows | a row tells how its transfer ended; deleted rows stay deleted |
| Tickets, discovery, relay, endpoints, CLI, FTP server | values, configuration, library state | encode, announce, configure, wrap | all of the above | little of their own | covered by unit tests; not modelled (section 6) |

The hazards, line by line and with the properties that look at them, are in
`PROJECT.json`.

## 2. Modules

| Module | Models |
|---|---|
| `ServiceQueue` | abstract: clients arrive in an order, at most `Servers` are served, in that order |
| `SendPool` | `serve_keep_alive_with_limits_and_rate`, `has_capacity`, `start_queued_transfers`, `start_transfer`; implements `ServiceQueue` |
| `...Proofs` | theorems (section 4): `ServingProofs` about `SendPool` and `DavServer`, `NetworkProofs` about `TcpRelay` and `UdpSessions`, `WebProofs` about `WebServe` and `SignalRoom`, `GuiProofs` about `GuiQueue` and `ConfigFile`; one module each about `FileTransfer`, `UploadSessions`, `ObjectRelay` and `FolderWatch` |
| `FilePlan` | `plan_file_receive` as operators: skip, resume or start over; used by the two modules that receive files |
| `FileTransfer` | `serve_once`, `serve_one_inner`, `write_to_file`, the receiver's run, lost connections, kills and reruns |
| `FileDrop` | abstract: a file that is replaced as a whole, users who hear of it afterwards |
| `UploadSessions` | `web/upload.rs` (init, HEAD, PATCH, plain POST, expiry, shutdown), the listener of `ii drop`, and the script `resumable(f)`; implements `FileDrop` |
| `DavServer` | `web/dav.rs`: PUT, MKCOL, DELETE, MOVE, COPY over a tree, LOCK, UNLOCK, expiry, with several clients |
| `WebServe` | `serve_web_listener`, `serve_web_connection`, ranges and listing of `web/http.rs` and `web/directory.rs`, one served file under edit |
| `ObjectRelay` | `send` to and `recv` from object stores and file servers (`backend/*.rs`): one object per content, shared by senders, deleted by `-d` receivers |
| `TcpRelay` | what `tunnel.rs`, `socks5.rs` (CONNECT, BIND, UDP ASSOCIATE), and the HTTP proxy and TCP forwarder of `network.rs` do with one TCP connection |
| `SignalRoom` | `web/webrtc.rs` (join, peers, relay, poll, TTL, bounded queues) and the script of `webrtc_page.html` that connects each pair of pages |
| `UdpSessions` | `ii udp` (`network.rs`): the session table, a channel and a task per client, both idle clocks |
| `FolderWatch` | `ii watch` (`service/watch.rs`): scans against changes of the directory, stamps, jobs |
| `Profiles` | the profiles of `storage/model.rs` as values; `storage/profiles.rs` as operators from a stored profile to the outcomes of a load |
| `ConfigFile` | `ii.toml` and the key files between commands and the GUI: loads, saves, removals, faults |
| `GuiQueue` | the GUI's table of tasks, the events of transfers and the thread that applies them, in several processes |
| `MC...` | give the constants values for TLC |

Where a module of proofs extends two components, one of them prefixes the names
both would have: `DavSpec`, `UdpSpec`, `RoomSpec`, `QueueSpec`.

Definitions that no specification uses (`...OffByOne`, `...Never`,
`...KeepingFile`, `...WithoutLeaving`) are mutants: plausible bugs in the
definition they vary.  Each property is shown able to fail by one of them
(`PROJECT.json`, `mutants`).

### SendPool

State: `fresh` and `dialled` are the outside world and the accept queue;
`handshakes` and `transfers` are the JoinSets, ended tasks included until they
are joined, with `result` their outcome; `waiting` is the VecDeque; `numbered`
records the order in which `next_number` was given; `accepted` is the loop's
count.  Each branch of the `biased` select is an action guarded by "no earlier
branch is ready", and includes the refill that the next iteration performs
before it awaits anything: no other task can run in between.  `Interrupt`
stands for Ctrl-C and for the closing of the endpoint; `Stop` for the return
of `endpoint.close()` and the aborts after it.  Failed, ignored and panicking
tasks are one outcome, since the loop treats them alike.

### FileTransfer

State: `sender` is the place of `serve_once` (listening, accepted, streaming,
closing, exited) with `peer` the connection it serves inline, `sent` the
position in the source; `run` is the place of a receiver's run (dialling,
connected, requested, copying, and how it ended) with its flag `mode` and its
`offset`; `file` is what is on disk, `up`, `wire`, `fin` the connection: which
are alive, what is in flight, whether the end of the stream is behind it.
`Recv` is `plan_file_receive` up to the dialling; `BindFails` is an endpoint
that does not come up, before the file is touched; `Open` is the truncating or
appending open; `Copy` one round of the copy loop.  With `--stdout` nothing is
planned, and `file` is what the shell redirects to, which it empties.

The first dial goes to all addresses and is dropped after 3 s for one through
the relay (`FallsBack`); the sender may have seen it by then, and finds out only
when it has accepted it (`stray`, `AcceptStray`), serving nobody else in the
meantime.  Writes to stdout are done behind the copy's back, and the flush that
would report the last one is ignored: `CompleteUnflushed` is a run that
succeeds without it, `unflushed` remembers which.

`ConnectionLost` leaves an
arbitrary prefix of what was in flight readable, as QUIC does; `Killed` is an
interrupted process or a full disk.  `ServeEnds` follows the code in taking
any end of the connection after the last block for success.

Abstractions: a block stands for any piece of the stream; a missing and an
empty file are both `<<>>` (the payload is not empty, and the code treats the
two alike); an MD5 match is equality.  Assumptions: the source does not change
after the ticket was made; receivers do not share a directory.  Both can be
broken in reality (see the hazards), and the code has no guard against it.

### UploadSessions

State: `live` is the map, `held` the sessions a PATCH has taken out of it,
`stale` those whose hour is over; `offset` and `temp` are the sessions' offsets
and the temporary files on disk, `body` the chunk a PATCH reads; `target` is
the file all uploads compete for (the only interesting case: all have one
name); `pc`, `file`, `attempt`, `id`, `from` are the script's variables in each
tab, `storage` the shared localStorage.  Every request runs
`cleanup_expired` first, as in the code.  A PATCH is two steps, `WriteChunk`
(up to the body) and one of `ChunkWritten`, `UploadCompleted`, `ChunkLost`: the
await between them is where others see the session missing.  `Disconnect` cuts
a tab off at any point, before its request was handled or after; the handler
goes on without it.  `CleanupAll` and `Exit` are the end of the listener after
Ctrl-C, `AcceptFails` and `Exit` the one after an error of `accept`, which skips
the clean-up; once it has ended, accepted requests go on and new fetches are
refused.

An empty file takes the plain POST of `write_upload`: `posting` holds those
under way, each with a temporary file of its own, from `PostBegins` to
`PostEnds`.  The same sessions are served by `ii drop`, whose listener differs
in expiring them by a timer (`Tick`) as well.

The sizes of body pieces, the validation of headers (a 400 or 411 changes
nothing) and I/O errors other than those of `ChunkLost` are left out.

### DavServer

State: `tree` maps the paths that exist to nodes (directory or not, and an id
that is never used again), `locks` is `LockState.locks` with, as history, the
node a lock was granted for; `owner` says who was given a token.  `pc` and
`req` are a client's request, `temp` the directory its temporary file is in
(a MOVE may carry it off), `copies` the pairs `copy_path` still has to visit.
Every await of a handler ends a step: check, then each removal, rename, copy;
`MoveLocks` is a step after `Rename`, as in the code.  What runs under the lock
mutex is one step.

`LOCK` takes the mutex of its own while a write that was checked before is
still under way, and two MOVEs may both be past their check: the code lets a
write land under a lock granted after the check, and lets a MOVE carry a lock
beside another one.  The properties say exactly how far the protection goes:
`req.seen` is the set of locks the request was checked against without
presenting them, and `quiet` says no two requests overlapped so far.

Left out: requests that change nothing (PROPFIND, GET, OPTIONS, PROPPATCH, a
LOCK that refreshes), symbolic links, the bytes of files; copying a file is one
step; a temporary file that a MOVE carried away is forgotten.

### WebServe

State: `content` is what is served, a directory or one download with the size
taken at the start; `entry` is what the served name is now, `sizes` the bytes
of each inode it was; `server` and `done` are the listener and its channel;
`pc`, `req`, `full`, `file`, `reply`, `sent` are the handler of each
connection.  The biased select takes Ctrl-C, then completed downloads, then
connections, hence the guard `done = 0` of `Accept`.  A handler looks at the
file up to four times (`Decide`, `Look` or `List`, `Open`, every `Send`), and
`Edit` removes, replaces, shrinks or extends it between any two.  `Decide` says
what kind of request it is before the path is resolved; a directory without its
slash is redirected, one with it is read by `List`, which finds it gone or not.
`AcceptFails` is an error of `accept` (`http.rs:150`), which ends the loop, skips
the clean-up and makes the process fail; `cause` tells it from Ctrl-C and from a
download.  `Exit` is the return of `main`: it cuts what still runs.

`send --web` and `web --once` are covered; with `-t` nothing is signalled and
the loop has no end of interest.

### ObjectRelay

State: `store` is the store in use: its protocol, and whether it writes in
place.  `objects` maps keys (MD5s) to inodes, `inodes` an inode to its blocks;
`send`, `upload` are a sender's place, key and position, `recv`, `ticket`,
`offset`, `get`, `file` a receiver's; `staged` the blocks an Azure store holds
for a key without having made an object of them.  The store itself is external,
modelled by what the code relies on: over HTTP an object appears when its
upload ends (some WebDAV servers write in place), FTP's STOR and SFTP's
TRUNCATE create or empty it at once and let others see it grow, and Azure
stages blocks by id, which every sender of one content numbers alike, until a
list of ids commits them.

The ways a backend looks for an object (`Reuse`, `Missing`, and the two that
take an error for absence, `SizeFails` of FTP and `HeadFails` of S3) and the
three ways an upload begins (`BeginHidden`, `BeginInPlace`, `BeginStaging`) are
actions; each handle writes at its own position, so that two uploads of one
object interleave block by block.  `PutBlockList` takes the latest version of
each block, staged or committed, discards the rest, and fails when one is
missing.  A receiver plans with `FilePlan`, then asks: an HTTP range may be
granted, refused (416, a failure) or ignored (the code asks again for the
whole); FTP's REST may be refused and the whole is read; SFTP seeks, past the
end if need be.  `Complete` compares no sizes where the code does not.
`Delete` follows every success of a `-d` ticket, the skip included, and its
failure is ignored.

A body over HTTP may end before its `Content-Length`.  For WebDAV reqwest makes
that an error (`RecvFails`); attohttpc, the client of S3 and Azure, does not
(`vendor`, `parsing/body_reader.rs` and `tls/rustls_impl.rs`), nor does the copy
compare what it wrote with the size in the ticket (`s3.rs:161`): the run
succeeds with a part of the file (`CompleteShort`).

`piped` says that a run writes to stdout: it asks for the whole, and may lose
its last write and succeed all the same (`CompleteUnflushed`).  `short` remembers
either of these, and the properties say what such a run holds and that it
deletes the object like any other that succeeded.

Left out: directories (stored under random keys, nothing is shared),
credentials and signed URLs.

### TcpRelay

One model for seven commands (`kind`), since all of them but one reach a target
and then copy both directions until both have ended.  Bytes pass stations: `near`, the
process the client connected to, and for a tunnel `far`, the process that
shares the target, behind a QUIC connection of their own (`link`).
`count[c][d][n]` is what node `n` has sent in direction `d` of connection `c`,
`end[c][d][n]` how `n` has ended it; the difference between two neighbours is
what is under way or buffered.  `answer` is the attempt to reach the target.

The setup actions are the commands' own (greeting, request and reply of SOCKS5;
the request of the proxy; stream, key, permit and status byte of the tunnel);
`FarAccepts` is `serve_tunnel_connection` taking the first stream of a link.
`Copy`, `PassEnd` and `Fails` are `copy_bidirectional` and the two copies under
`try_join`; a plain proxy request copies the request first and then the
response.  `Leaves` is what the end of a task does to what it holds: a socket
sends its end, or a reset if something was left unread; a QUIC stream is
finished; the near station drops the last handle of the QUIC connection, which
closes it at once, and some of what it sent last may be lost.  Faults are an
application's reset, the loss of the link, and the end of either process, by
Ctrl-C or by an error of its listener's `accept`.  An application may also stop
reading for good (`StopsReading`): what is written to it then waits, and with it
the task, for no write has a timeout.

A plain proxy request is framed by its head, and its body is relayed by it: one
that ends early (`Fails`) or cannot be understood at any point (`BadFraming`)
drops both connections, although the target may have got a part of it.

Nothing of an aborted source, or of such a request, is passed on but its end: the
tasks drop both sockets, and the other application reads an ordinary end.
`EndsAreOrderly` therefore speaks of the ends of connections without a fault
whose client framed its request rightly, and exempts the direction "up" of a
tunnel once `near` has ended, for the tail that closing the QUIC connection may
lose.  Of a request that was broken off it says, whatever the reason, that its
client never gets a byte of an answer (`OnlyWholeAnswered`).

The one is UDP ASSOCIATE: its packets take a socket of their own, and the
connection that asked for it only says how long that lives: until anything is
heard on it (`ControlEnds`), or nothing was passed on for five minutes
(`UdpIdles`).  The loop hears nothing while it resolves the name in a packet
(`UdpResolves` to `UdpResolved`).

Left out: the bytes of requests, replies and datagrams, names and addresses, and
the choice of ports and relays.

### SignalRoom

State: `created` and `queue` are the server's `next_peer_id` and `peers`, whose
domain is the room; `net` the signals on their way to it.  `id`, `conn`,
`offers`, `lists`, `poll` are a page's: its peer id, its connections by remote
id, the runs of `startOffer` in progress, the answers to `refreshPeers` it has
yet to take (the timer does not wait for the last one), and the chain of polls.
A connection is reduced to what decides whether it works: which of its own
offers it made, which one its remote description belongs to, and the candidates
that wait.  Requests are handled in any order; a poll and the handling of its
signal up to the next request are one step (`PollSignal`).  `handleSignal`
creates a connection for whatever arrives, as in the script, and `OfferFails`
closes the connection to its peer even if it is another one by then.

Faults are a request or an answer that is lost, a list that overtakes another,
a direct connection that breaks, a page suspended for 30 s.  `troubled` keeps
the pairs they (or a full queue) met.  The properties speak of the others, for
the script does not recover every pair: it offers only to peers to whom it has
no connection at all, and a late answer or candidate for a connection that was
closed creates one that neither offers nor fails.  Such a pair stays apart
until one of its pages is reloaded.

Left out: the token, the descriptions, the probe of the browser before the
join, and the texts and files on an open channel.

### UdpSessions

State: `table` and `activity` are `sessions` with the time since each client's
last packet, `loop` the packet the loop is handing over (it has taken a clone
of the sender out of the table and awaits room in the channel), `cleanup` the
interval that is due; of each session `state`, `queue` (how full its channel
is) and `quiet` (its task's own clock).  Time goes in periods of the clean-up:
`Tick` is disabled while something that is due has not been done, since no
timer is late by a whole period; only resolving the target may take longer,
and the loop behind it.  A task ends by its clock, because its channel closes
(the table and the loop hold no sender any more), or by a fault; the table
learns of it only when the next packet cannot be handed over (`Loses`).

Left out: the bytes and the targets, and an error of the listening socket's
`recv_from` (`network.rs:394`), which ends `ii udp` and all its sessions at once.
`Capacity` is 64 and `Timeout` five periods in the code.

### FolderWatch

State: `files` is the directory, a version standing for size and modification
time; `phase`, `todo`, `entry`, `current` are the walk of a scan, `seen`,
`pending`, `jobs` the maps and the queue of `watch`.  A scan reads the name of
an entry and then its metadata (`ReadsEntry`, `ReadsMetadata`), and ends the
watch if the file has gone in between (`ScanFails`), whether the filters select
it or not: `symlink_metadata` comes first and its error is returned.
`QueuesJobs` is the loop over what was found, with both `retain`s; time passes
in `Sleeps` and, if they take long, in `Sends`.

A send reads the file as it is by then.  It may fail, and is not tried again:
the code prints the error and has marked the stamp as seen, so "sent" below
means that a send was begun on that version.  A stamp that is pending when its
predecessor is put back (a rename over it, a restored time) stays pending with
its age, since only stamps that differ from `seen` are looked up; when the
stamp returns, it counts as stable at once.  `JobsAreStable` therefore exempts
paths with versions that were put back.

Left out: globs (`Selected` is a set), the tree (paths are entries of one
walk), `ii queue`, a loop over the lines of a file.

### Profiles and ConfigFile

In `Profiles` a field of a profile is blank, malformed, the user's own, or the
ticket's it came from, which is what validation, prompts and saves can tell
apart; a provider may also be the legacy `cloudflare-r2`.  For each kind,
`Load...` gives the outcomes of loading one: what is defaulted, what is missing
(and so asked for on a terminal, or an error without one), the result of
validating it, and whether it is to be saved.  `...From(t)` are the profiles a
portable ticket may carry, for it is no more than its text, and `Taken` says
which of them a receiver accepts: FTP and SFTP ones are validated, of a WebDAV
one nothing but the URL is.

`ConfigFile` puts the file between processes.  `stored` and `parses` are what
is on disk, `mem` the copy of a command or of the GUI with the slot its user
means.  A command loads, works (prompts, sends or receives, for as long as it
likes), and saves the whole copy in two steps, as `std::fs::write` does: open
and truncate, then write.  With no lock around them, a load in between finds an
empty file, which is a valid configuration without profiles; two writers may
leave the tail of the longer text.  A portable SFTP ticket has its key written
to `ii-keys/<name>.key` first (`KeepsKey`), and two names may share that file
(`safe_profile_component`).  The GUI loads once, changes its copy, saves it,
and keeps the change if the save fails; its editor shows the first kind that
knows the name clicked on, S3 before WebDAV before TLS, and holds the provider
of the profile it last showed (`Providers`), which the next save of an S3
profile hands on, whatever the profile's name.

`SavesAreUsable` says that what is saved can be used, but for two cases the code
does not exclude: the provider of a legacy profile that is in the file may be
handed on, and a WebDAV ticket's user name and password are stored unread.
`send --s3` refuses the one, the prompts of the next `send --webdav` meet the
other.

The code does not protect a profile from a save whose copy is older than it.
`astray` names the processes this can happen to, and the properties say that it
happens to no others and in no other way.

Left out: fields that no validation of a profile refuses (account ids of S3,
ports, passphrases, the style of addressing, and the TTLs, of which a 0 is
replaced on loading as a blank prefix is), and the commands that list profiles.

### GuiQueue

State: `rows` is the table of `QueueDb`, shared by all GUI processes of a user;
`inbox` the channel of a process, `held` the row its window thread has read and
changed and not yet written: the two SQL statements of
`apply_background_event` are two steps (`Reads`, `Writes`), other processes
work in between, and either statement may be refused (`ReadFails`,
`WriteFails`), upon which the event is lost.  `phase` is a transfer's thread.
Ids are drawn from a counter of the process and the second of the clock, so
that two processes may share one.  Closing a GUI ends its transfers and leaves
their rows as they are.

What the model shows is in the exemptions: a row deleted between the two
statements comes back (`torn`); a refused statement leaves its row behind until
the next event (`dropped`); rows of a closed GUI keep their last status for
ever, as nothing reads them at the next start.

Left out: the texts of a row, the window, and the services without rows.

## 3. What the runs show

| Run | Bounds | States | Shows |
|---|---|---|---|
| `send_pool` | 4 attempts, 2 slots, 1 queue place | 93 338 | `StaysWithinLimits`, `NoIdleSlot`, `NoOvertaking`, `CountsSent`; refinement of `ServiceQueue` (`ServesFirstCome`); `AdmittedIsServed` |
| `file_transfer` | 2 receivers, one with a shorter and one with a longer file, 2 blocks, both in flight at once, 3 runs with `--resume`, `--stdout` or no flag, 1 slow dial or lost write | 272 241 | `OnlyKeptBytesDiffer`, `ProgressIsKept`, `ExitsAfterSuccess`; `BothEnd` |
| `uploads` | 2 tabs, 2 versions, 2 chunks, 2 uploads | 297 134 | `TargetIsWhole`, `FilesMatch`; refinement of `FileDrop` (`ReplacesAtOnce`), which implies `SavedIsCommitted`; `UploadEnds` |
| `dav` | 2 clients, folder, file in it, free name; 2 locks, 4 requests | 1 130 552 | `LocksRespected`, `LocksAgree` |
| `web_once` | 2 connections, one asks anything; up to 2 bytes, 1 edit | 1 310 638 | `OnlyDownloadsConsume`, `RangeIsExact`; `DownloadEndsService` |
| `object_relay` | 2 senders, 2 receivers, 2 contents of 2 blocks; 2 sends, 3 receives, some to stdout, 1 edit, lost write or body cut short; S3, Azure, WebDAV in place, FTP, SFTP | 2 595 013 | `ObjectsAreWhole`, `TicketKeepsObject`, `DeletedBySuccess` |
| `tcp_relay` | all seven commands; 2 connections, one with a block each way, one empty; 1 permit, 1 fault or application that stops reading | 156 509 | `WithinPermits`, `EndsAreOrderly`; `RelayEnds` |
| `signal_room` | 2 pages, 1 place in a queue, 2 lists, 2 offers, 1 fault | 275 785 | `WorkingKept`; `PairConnects` |
| `udp_sessions` | 2 clients with 3 packets and 1, channels of 1, a timeout of 2 periods, 3 sessions, 1 fault | 51 460 | `OneSession`, `ActiveIsKept`; `SessionsEnd` |
| `folder_watch` | a file and a symlink to be rejected, 2 intervals to be stable, 2 writes, 1 version put back | 67 519 | `JobsAreStable`, `NoRepeat`; `StableIsSent` |
| `config_file` | 2 commands (one of any kind, one of SFTP) and the GUI, 2 tickets, 2 contents to start from, 1 save in the GUI, 1 fault | 1 452 188 | `DiskAgrees`, `OnlyMalformedFails`, `OtherProfilesKept`, `SavesAreUsable` |
| `gui_queue` | 2 processes, a send in one, a receive in either, 2 ids, 1 refused statement, 2 deletions, 1 closing | 464 484 | `RowTellsOutcome`, `RowsAreKept`; `EndIsShown` |

The type invariant of a module is the first conjunct of one of its invariants
(`StaysWithinLimits`, `OnlyKeptBytesDiffer`, `FilesMatch`, ...).

Why the bounds are enough.  In `send_pool` there is one attempt more than the
capacity, so that refusal, queueing, direct start and refill all occur and
compete; the theorems below remove the bound for all but the liveness.  In
`file_transfer` two blocks give an empty, a partial and a complete file, the
initial files are a shorter and a longer one of other content, and
three runs let a receiver fail, retry under another flag and meet a competitor;
of two blocks in flight none, one or both may arrive.  `--overwrite` is left to
`FilePlan`: it only plans what `--stdout` and a run over a longer file do.  In
`uploads` two tabs share one session or race with two versions, or one of them
retries with the stored id; two sessions per upload is what the script can
create, so `MaxIds` stops nothing, and plain POSTs share the bound on uploads.  In `dav` a lock, a write that overlaps it
or carries it, and a lock at its destination need three requests, and the
fourth is the one that suffers; the tree has a place above, below and beside
any other.  In `web_once` ranges lie within, across and behind a file of two
bytes, the empty file included; a second connection is what the first one's
completion cuts off, and one edit separates any two looks at the file.  In
`object_relay` two sends are what it takes to truncate each other's upload, or
to find what an interrupted one left; three receives let a run resume after a
failure while another one deletes the object under it; the second content is
what an edited source turns into and what a deletion must not touch; `--resume`
is left to `file_transfer`, for a rerun without a flag resumes as well.  In `tcp_relay`
one block is enough to be overtaken by an end, left unread, or lost; the empty
connection is the one that competes for the permit, and one fault, or one
application that stops reading, meets every step of either task. A WebDAV store
that hides uploads is S3 without `HeadFails` and adds nothing to `object_relay`.
In `signal_room` connections are kept by
pairs of ids, and a reloaded page comes back under another id, so that two
pages with one id each show every interaction of a pair; the second offer is
the retry after a failure, the second list the one that overtakes, and the
queue is full when the candidate comes before the offer was polled, or a retry
meets what is left of the first offer.  In
`udp_sessions` a channel of one packet is full while its session resolves, two
periods tell the table's clock from the task's, and with three sessions the
first client can lose one, open another and meet the old task still draining.
In `folder_watch` the paths do not influence each other but for the order of a
walk, so that one is watched and the other one is what makes a walk fail; two
writes change a file twice, once before and once after any step of the first;
two intervals give a stamp an age that is neither new nor stable.  In
`config_file` two commands and the GUI give an old copy, its overwriter and a
bystander; the second content holds every way a stored profile can be
incomplete or malformed and three kinds under one name; more saves repeat what
one does.  In `gui_queue` one transfer has another's deletion between its two
statements, an event behind it in the channel, and a twin with the same id.

`CHECK_DEADLOCK FALSE` is set because all programs really stop: the
commands exit, and the users have no further runs.

### Fairness

The executor polls a ready task and a ready loop: weak fairness of the loop's
step as a whole, and of each task.  Beyond that:

- `SendPool`: that a transfer ends is an assumption on receivers, for
  `serve_one_inner` has no timeout of its own; a handshake ends by QUIC's.
- `FileTransfer`: the sender's steps, accepting included, and each receiver's;
  dialling is only assumed to fail once the sender has exited; losses, kills,
  abandoned dials, runs and Ctrl-C are never assumed.
- `UploadSessions`: that the body of a PATCH ends, one way or the other, is an
  assumption on clients (the server reads without a timeout); expiry, ticks,
  cuts and shutdown are never assumed; a fetch fails once the server is gone.
- `WebServe`: the listener's own steps only; that a client reads on is never
  assumed.
- `TcpRelay`: each task's steps; that the attempt to reach a target ends is
  owed to the timeouts of the code, of TCP and of QUIC, that of resolving a
  packet's name to the resolver's.  A task that copies goes on as long as its
  socket takes data, that is, while the application at its other side reads; one
  that pauses is not told from one that is slow, and one that has stopped for
  good (`stalled`) keeps its task waiting, which `RelayEnds` names as the one
  way not to end.  No application is assumed to send or close, hence its
  premise.  Hearing the control stream of a UDP
  association is strongly fair: `select!` without `biased` picks at random among
  what is ready (`socks5.rs:333`).  With weak fairness the property fails, as
  packets could keep the loop busy for ever.
- `SignalRoom`: browsers go on with what the script began and with its timers,
  the server handles what arrives; each of the four kinds of work is fair as a
  whole, no single request is.  Joining, leaving and faults are never assumed.
- `UdpSessions`: the loop's step or the passing of time, and each task's, the
  resolving included (the resolver has a timeout of its own); no client and no
  target is assumed to send.
- `FolderWatch`: the loop's own steps; that a send ends is an assumption on its
  receivers, for the watch awaits it without a timeout.  Nothing is assumed of
  the directory, nor that the watch is ever stopped.
- `GuiQueue`: the window thread of a process that runs goes on with its events;
  transfers, users and the database are never assumed to do anything.
- `DavServer`, `ObjectRelay` and `ConfigFile`: none, they state safety only.

### Divergences from the documents

Met while translating; the models do what the code does, and no run states the
document's claim.

1. A file of the same name and other content "is overwritten"
   (README.en.md:276).  If it is shorter it is kept as the head of the new one
   (`p2p.rs:312`).  ii.md:488 describes what the code does.
2. "After a disconnect or refresh, selecting the same file resumes it"
   (README.en.md:297).  Only if it fell between two chunks: inside one, the
   server drops the session and its file (`upload.rs:317`).
3. `ii web --once` "exits only after the first complete ordinary-file `GET
   200`" and 404 answers "do not consume the one-shot lifetime"
   (README.en.md:303).  Whether a request consumes is decided before the file
   is looked up (`http.rs:604`): removed in between, it is answered 404 and the
   service exits.  `OnlyDownloadsConsume` says what does hold.
4. The FTP object is deleted "after a successful download, or after skipping an
   identical file" (ftp.md:94).  An upload that was cut off leaves a partial
   object, which the next send takes for the content because it exists
   (`ftp.rs:34`); the receiver copies to its end, reports success and deletes
   it, without having the file (`DeletedBySuccess` asks for the whole only of a
   run that read a whole object).
5. The UDP forwarder "removes idle sessions after five minutes"
   (README.en.md:458).  What counts is the client's silence alone
   (`network.rs:391`): a session whose target still sends goes as well, and a
   session that is removed lives on until its task has handed over what was
   queued.
6. The GUI's `RecvArgs` (`gui/src/main.rs:604`) lacks the fields `checksum` and
   `quic_port` that `command.rs:287` declares, so that the crate
   does not build against this version.  `GuiQueue` models the GUI's own code.
7. The S3 object is deleted "after a successful download" (s3.md:162).  A body
   that the server, or a proxy in between, cuts short counts as one: attohttpc
   takes the early end for the end, `s3.rs:161` copies up to it, and the run
   reports success and deletes the object, of which it holds a part (the same for
   Azure).  The next run would have resumed the file.
8. `ii recv <ticket> --stdout > project.tar.gz` (README.en.md:270) and the
   deletion "after a successful download" (ftp.md:94): the error of the last
   flush of stdout is dropped (`p2p.rs:164`, `s3.rs:328`, `webdav.rs:356`,
   `ftp.rs:356`, `sftp.rs:507` of `backend/`), so that a run may succeed, and
   delete the object, without the end of the file.

Not a divergence, but worth knowing: plain `ii send` counts a transfer as sent
when its connection ends after the last block was queued (`p2p.rs:402`),
whoever ended it; `ExitsAfterSuccess` says what it does promise.

## 4. Proofs

Every component's proof follows one plan.  An inductive invariant (`IInv`;
`DavInv`, `UdpInv`, `RoomInv`, `QueueInv`, `ConfigInv` in the modules that hold
two) joins what the properties say with what they rest on; a first lemma proves
that it holds in the initial states, one lemma per action (`RouteKeeps`,
`CopyKeeps`, ...) that the action preserves it, and a theorem puts them
together as `Spec => []IInv`; the theorems a reader is after follow from it.
TLC has checked every one of these as an invariant of the run of its module, on
the states counted in section 3 (`RoomInv` with two places in a queue, 413 880
states, and with the signals in `net` and the queues for "all signals").  What holds of one receiver, tab, connection, path or
pair is a predicate with that as its parameter (`Fits(r)`), and a lemma says
that a step that leaves the variables of a receiver alone leaves the predicate
alone; what a step does to the one it is about is then all that is left to
prove.

| Module | Theorem | States |
|---|---|---|
| `ServingProofs` | `TypeCorrect` | `SendPool`: `TypeOK` always |
| | `LimitsHold` | `StaysWithinLimits` always: the types and `WithinLimits` |
| | `SlotsAreUsed` | `NoIdleSlot` always |
| | `FirstComeFirstServed` | `NoOvertaking` always |
| | `SentAreCounted` | `CountsSent` always |
| | `ImplementsQueue` | `Spec` implements `ServiceQueue` under the mapping of `SendPool` |
| | `LocksAgreeAlways` | `DavServer`: `LocksAgree` always |
| | `ChecksSuffice` | `LocksRespected`: a property of every step |
| `FileTransferProofs` | `FilesOnlyDifferInKept` | `OnlyKeptBytesDiffer` always |
| | `ReceivedIsServed` | `ExitsAfterSuccess` always |
| | `ProgressIsSafe` | `ProgressIsKept`: a property of every step |
| `UploadSessionsProofs` | `TargetStaysWhole` | `TargetIsWhole` always |
| | `FilesStayMatched` | `FilesMatch` always |
| | `SavedStaysCommitted` | `SavedIsCommitted` always |
| | `ImplementsForm` | `Spec` implements `FileDrop` under the mapping of `UploadSessions` |
| `WebProofs` | `DownloadsConsume` | `WebServe`: `OnlyDownloadsConsume` always |
| | `RangesAreExact` | `RangeIsExact` always |
| | `ConnectionsAreKept` | `SignalRoom`: `WorkingKept`, a property of every step |
| `ObjectRelayProofs` | `ContentsAreWhole` | `ObjectsAreWhole` always |
| | `TicketsPromise` | `TicketKeepsObject` always |
| | `SuccessesDelete` | `DeletedBySuccess`: a property of every step |
| `NetworkProofs` | `PermitsSuffice` | `TcpRelay`: `WithinPermits` always |
| | `EndsStayOrderly` | `EndsAreOrderly` always |
| | `ServesOneSession` | `UdpSessions`: `OneSession` always |
| | `ActiveStays` | `ActiveIsKept`: a property of every step |
| `FolderWatchProofs` | `JobsStayStable` | `JobsAreStable` always |
| | `RepeatsAreChanges` | `NoRepeat`: a property of every step |
| `GuiProofs` | `RowsTell` | `GuiQueue`: `RowTellsOutcome` always |
| | `RowsStay` | `RowsAreKept` always |
| | `DiskIsWhole` | `ConfigFile`: `DiskAgrees` always |
| | `PromptsSuffice` | `OnlyMalformedFails` always |
| | `OthersStay` | `OtherProfilesKept`: a property of every step |
| | `SavesFit` | `SavesAreUsable`: a property of every step |

They hold for every value of the constants that the `ASSUME`s of the modules
admit.  These ask for little: limits, sizes and bounds are natural numbers
(positive where zero makes no sense), and
- the connections of `WebServe` and the paths of `FolderWatch` are finite sets,
  as `done` and a walk count them; no other set of actors need be finite;
- the files receivers start from are sequences of blocks (`FilesAssumption`),
  and a hole in a file is nobody's content (`HoleAssumption`);
- a request has one of three methods and a range that is a `WebRange`
  (`RequestsAssumption`); a store is one of those of `StoresAssumption`, a
  command one of those of `KindsAssumption`;
- a tree to start from is a finite tree: a directory above every node, one node
  at a path (`TreesAssumption`); paths are sequences of names;
- what a user wrote into `ii.toml` by hand is a table of profiles, each with the
  fields of its kind and values of any sort (`HandwrittenAssumption`); a
  ticket's name is none of the special values (`TicketsAssumption`), the GUI no
  command (`GuiAssumption`);
- no id of a task is `NoId` (`IdsAssumption`), nobody both sends and receives
  (`TasksAssumption`).

### SendPool

`WithinLimits` alone is not inductive: a handshake that joins
while somebody waits may push the queue past its limit unless no slot is free
then, and a join of a transfer may refill two slots unless at most one is free.
So the inductive invariant `IInv` joins it with `NoIdleSlot`, with `KeptApart`
(an attempt is in one place and numbered at most once, which makes the sets'
cardinalities add up) and with `InOrder` (`NoOvertaking` element by element, so
that popping the front of the queue moves exactly the next number into a slot).
From it each branch of the loop has a short effect, stated once as a lemma:
`JoinTransferEffect` (one slot freed, the first waiting connection takes it),
`JoinHandshakeEffect` (one slot or the end of the queue taken), `AcceptEffect`
(the slots do not change); they rest on `RefillNothing` and `RefillOne`, which
say that under `IInv` the refill pops no connection or one.  `CountsSent` needs
`Outcomes` in addition: a connection that waits, or has not been admitted, has
no outcome yet, and the payloads sent are finitely many even if `Peers` is not.
The refinement follows from the effects: a joined handshake is the abstract
`Arrive` (with `Begin` when it starts at once), a joined transfer `Finish`,
`Stop` is `Shut`, every other action a stutter.

### DavServer

`LocksAgree` compares locks with the tree at moments between the steps of
requests, `LocksRespected` a write with the locks as they were when its request
was checked.  `RequestFits` therefore carries a request's check along
(`Checked`: the locks it saw and did not present do not overlap its target or
its destination, and it copies only to what was checked); with `Rooted`, that
there is a directory above every node, no operation reaches a path outside of
these, which is `LocksRespected`.  `LocksAgree` needs more, and only while no
two requests overlap in time (`QuietFits`): the locks around the request's
paths are then its client's own (`Covers`), so that carrying them to the
destination puts no lock over another client's (`Exclusive`).  `Following`
accounts for the step between the rename of a tree and that of its locks: in
it a lock is where `Carried` will take it.  The lemmas about paths (prefixes,
rebasing, what overlaps after a move) are proved for all sequences of names.

### FileTransfer

`OnlyKeptBytesDiffer` speaks of the file alone, and the next block to be
written is in flight, sent from a position the receiver named in its request.
`IInv` therefore follows a block from the source to the file: behind the bytes
a receiver kept its file holds the payload (`Appended`), behind these come the
blocks in flight (`InFlight`), and the sender's position is behind all of them
(`SenderAgrees`); the end of the stream follows the last block (`EndFollows`),
so that a run that reads it has everything (`DoneHasAll`).  `LinkOf` says that
one connection is up at most, that of the receiver being served: without it a
second receiver could take the sender's position for its own.  `PlanOf` is
what `ProgressIsKept` rests on: a run that plans to start over had nothing to
lose, unless told otherwise.  The loss of a connection keeps any prefix of what
was in flight, and every one of these predicates survives taking a prefix.

### UploadSessions

What makes the properties hold is that a session id stands for one file
wherever it is kept: as the id of a tab, in localStorage, with the body a PATCH
is reading, and by the chunks of its temporary file.  Neither the server nor
the script records which file that is, so that `IInv` asserts that there is an
assignment of files to ids, `owner`, with which all four agree (`Owned`); an
init extends it by the new id.  The rest says that nobody knows an id that was
not given out (`Known`), that a tab that awaits a PATCH is the one whose
session is held (`Waits`), and that a temporary file is in the map, held, or
that of a POST (`NoFileLeaks`).  When the last chunk is written, the temporary
file then holds all chunks of the owner in order, and the rename puts a whole
file in place (`CompletedIsWhole`).  That is the abstract `Place` of
`FileDrop`; `PostEnds` is `Replace`, the return of a script `Hear` or `GiveUp`,
`Exit` is `Close`, every other step a stutter.  The mapping needs one more
invariant, `PostsEnd`: no POST outlives the process.

### WebServe

`OnlyDownloadsConsume` is about the end of a handler that looked at the file
up to four times.  `IInv` carries along what it has decided (`Whence`: it has
the whole of a file to send only for a plain GET of that file), what it has
announced (`Announced`: the answer of `web_file_range` for some size, and for
the size of the file it has open or will open unless somebody edited it), and
what it has delivered; `SendsWhole` does so for a single download.  `Counted`
bounds the messages in the channel by the completed handlers, so that the
listener that receives one knows there is one; whatever else ends the loop is
recorded in `cause`.  `RangeIsExact` rests on
`FileRangeCases`: for every range and size the answer is the whole file, a part
inside of it or a refusal, and the part is exactly the bytes asked for.

### SignalRoom

A connection works when both ends are stable on one offer and its answer, and
may be lost by a list without the peer, a late signal or a `startOffer` that
fails.  `RoomInv` says, of two present pages that met no fault, how far their
pair can have come (`PairFits`).  Either the lower id has not offered yet, and
then nothing of the pair exists anywhere (`Quiet`); or it has offered exactly
once, and then the connection is there, every list of peers on its way names
the other page, and no run of `startOffer` has failed (`Offered`), while the
other end, and what travels between the two, belongs to that one offer and is
no further than its answer (`Replied`).  A second offer cannot come about, for
a page offers to those it has no connection to.  What excludes that a list
drops a peer is `ListsFit`: lists are taken in the order in which they were
made unless one overtakes another, which is a fault, and a later list names
every peer still in the room that an earlier one named; a page's first list has
all that were there before it.  Two more facts keep the directions apart
(`Proper`): offers go from the lower id to the higher, answers back.  That a
stable connection stays stable (`StaysStable`) is shown along with each action;
a connection that is stable and not answered at the other end would be
`IceFails`'s to close, and `Paired` and `Awaits` follow from `Replied`.

### ObjectRelay

An object is shared by everybody who sends or receives the content of its key,
and may be written to in place by several at once.  `StoredOf` says that each
of its blocks is what it should be or lies before the position of a sender that
writes to it: a later sender may truncate the object, for it will write
everything again.  `SenderFits` says who may write to which inode: to no object
but that of its key, and only in a store that writes in place (`WritesItsOwn`);
an upload nobody sees holds what was written so far (`HiddenOf`).
`ReceiverFits` says that a run that is still clean reads an inode that is whole
and that nobody writes to (`ReadsWhole`); an upload that begins in place ends
the cleanness of the runs on that key.  A run that is cut short unnoticed leaves
what every unfinished run leaves, the beginning of the content behind the blocks
it kept (`HoldsPart`).  For Azure `StagedOf` says that a staged block is of
its key's content, whoever staged it.  `TicketKeepsObject` is a conjunct of
`IInv`; it needs `PromiseOf`, that an object somebody writes in place is
deleted only as a ticketed one is.

### TcpRelay

`WithinPermits` counts the tasks that hold a permit and relates them to the
connections at the target (`HoldsItsTarget`).  `EndsAreOrderly` is about an
application reading the end of a direction; what could go wrong did so two
stations before.  For a connection without a fault `Orderly` therefore says how
far its tasks can be (`Tunnelled`, `Untunnelled`), that no station has passed
anything on before there is a target (`NotYetPassed`), and that a station that
has ended a direction has done so with an end, after it had read everything,
and after the station it reads from (`PassesInOrder`): by induction over at
most three stations the application's end comes last.  `LeavesNothingOpen`
covers the tasks that are over.  That only whole requests are answered needs no
such care: no response is copied before the request has been.

### UdpSessions

The inductive invariant is `Types`, `Belongs` (a session is opened for one
client, the table gives it to nobody else, and the loop hands over only to the
session in the table), `WastedOnce` (a session that has cost a packet has ended
and left the table) and `ClocksAgree` (the task's clock runs behind the table's
unless a packet of the client is on its way: in the channel or in the loop's
hands).  `ClocksAgree` is what makes
`ActiveIsKept` hold: the two clocks are set at different ends of a channel, and
the bound needs what lies in between.

### FolderWatch

`seen`, `pending` and what a scan finds belong to different times, and
`JobsAreStable` relates the age the code counts to the number of scans that
really found the stamp (`steady`).  For a path with no version put back
`Grows` says that what is seen, what the last scan found, what this scan finds
and what is there now are each at least as new as the one before, so that a
stamp that was left cannot return; hence a pending stamp is the one every scan
has found since (`PendingIsSteady`).  `StableJobs` keeps this for the jobs until
they are sent, `QueuedIsSeen` is what `NoRepeat` rests on.

### ConfigFile

`ConfigInv` says of a process that was not overtaken (it is not `astray`) what
its copy is: the file as it was written last, but for the slot its user means
(`CopyFits`).  A save by another process makes every other holder of a copy
`astray`, and a load in the middle of a save sees nothing and does so too, so
that the invariant survives; what the holder saves then changes its own slot
only, which is `OtherProfilesKept`.  `SaveFits` keeps what is about to be
saved usable: it was validated, and everything validated was asked for
(`refused` stays empty).  That rests on one lemma per kind of profile
(`LoadsSftp` and its like): whatever fields a stored profile lacks, an outcome of
the load has them all, is refused for something malformed only, or changes
nothing.  What a ticket brings is usable or taken as it is (`Savable`); what the
GUI saves has the provider of its editor, which is the user's or that of a profile
in its copy, hence in the file unless it is `astray` (`EditorFits`).  `KeyKept`
covers the time between a key file and the profile that
names it: the file holds the key of whoever is in between, and otherwise that
of the stored profile.

### GuiQueue

`RowTellsOutcome` is about a transfer none of whose events are pending; `QueueInv`
says what the row has to be while they are.  An event in an inbox or in hand is
of a transfer of this process and is its last, or the last waits further behind
(`EventFits`), so that the event handled last is the last one; `ShowsTicket`
says the same of the ticket, which a later event must carry along: the row in
hand has it as soon as its event was handled.  `StaysDeleted` adds to
`RowsAreKept` that nobody has a deleted row in hand, except for `torn` ones.

### Only model-checked

- Liveness: `AdmittedIsServed`, `BothEnd`, `UploadEnds`, `DownloadEndsService`,
  `RelayEnds`, `PairConnects`, `SessionsEnd`, `StableIsSent`, `EndIsShown`.
  Fairness and ENABLED are out of the prover's reach.  Every other property of
  every run is a theorem.
- What `FilePlan` computes is used by two proofs (a plan keeps nothing or the
  file as it is); that `Profiles` agrees with the code's tables of fields is
  beyond proof, they are data.

## 5. Plan

Done: all modules of section 2, their runs, and the proofs of section 4.
To do, in this order:

1. An abstract specification of `WebServe`, a service that is consumed once,
   with the refinement proved as those of `ServiceQueue` and `FileDrop` are.
2. The data channel of `webrtc_page.html`: frames of texts and files between two
   pages, above the connections of `SignalRoom`.  Its hazard: a file that
   cannot be read to its end leaves the receiver with an open transfer
   (`webrtc_page.html:395`), which refuses the next text and takes its chunks
   for the file's, until another file is announced.

## 6. Not modelled

- Tickets, discovery, the relay's and the endpoint's configuration, the command
  line and JSON output: values computed once, with no state another step could
  find changed.  Unit tests reach them.
- The FTP server (`service/ftp.rs`): sessions, their order and their state are
  libunftp's; this code adds a check of the path in front of each operation.
- Directories in a transfer (tar streams, archives, filters, checksums): a
  directory is one payload to the protocol; what is special is the extraction,
  a sequential walk.
- `ii queue`, health, ping, port, wake and speed: sequential commands.
- The end of a server where no property looks at it: Ctrl-C, or an error of
  `accept`, in `ii dav` (`dav.rs:130`) and `ii webrtc` loses locks, room and
  signals, all of which were in memory only.
- What each subsection of section 2 lists as left out.
