------------------------------- MODULE GuiQueue -------------------------------
(***************************************************************************)
(* The transfer queue of the GUI: a table of tasks in SQLite (QueueDb),    *)
(* which every GUI process of the user opens, and the events with which    *)
(* transfers in threads of a process tell it how they are doing.  The      *)
(* process has one thread for its window: it handles clicks and, every     *)
(* 100 ms, the events that have arrived, each by reading the table,        *)
(* finding the row and writing the whole row back.  The database knows     *)
(* nothing of these two statements belonging together.                     *)
(*                                                                         *)
(* The events of a transfer go through a channel and a forwarding thread   *)
(* of their own into the one channel of the process: they arrive in order, *)
(* and the delay is that of the transfer itself.                           *)
(***************************************************************************)
EXTENDS Naturals, Sequences, FiniteSets

CONSTANTS Guis,        (* GUI processes                                    *)
          Sends, Recvs,(* transfers                                        *)
          Windows,     (* the processes each may be started in             *)
          Ids,         (* task ids                                         *)
          MaxRefusals, (* bound: statements the database refuses           *)
          MaxClears,   (* bound: deletions of history                      *)
          MaxCloses    (* bound: processes that are closed                 *)

Tasks == Sends \cup Recvs

ASSUME TasksAssumption ==
    /\ Sends \cap Recvs = {}
    /\ Windows \in [Tasks -> SUBSET Guis]
ASSUME QueueBoundsAssumption ==
    MaxRefusals \in Nat /\ MaxClears \in Nat /\ MaxCloses \in Nat

Events == {"started", "ticket", "completed", "failed"}
Statuses == {"preparing", "transferring", "waiting", "completed", "failed"}
Final == {"completed", "failed"}
Rows == [status : Statuses, ticket : BOOLEAN]
NoRow == [status |-> "none"]
NoId == "none"
ASSUME IdsAssumption == NoId \notin Ids
Nobody == [task |-> "none"]

VARIABLES
    rows,      (* the table: id to row                                     *)
    open,      (* the processes that run                                   *)
    used,      (* the ids a process has given out                          *)
    id,        (* the id of a task                                         *)
    owner,     (* the process a transfer was started in                    *)
    phase,     (* how far a transfer is                                    *)
    inbox,     (* the events a process has not handled                     *)
    held,      (* the row it has read and changed and not yet written      *)
    refusals, clears, closes,
    last,      (* history: the last event of a task                        *)
    dropped,   (* history: events that were lost to a refused statement    *)
    gone,      (* history: how the row of an id was deleted, "no" if not   *)
    torn       (* history: ids deleted while a process held their row      *)

processVars == <<open, used, inbox, held>>
bounds == <<refusals, clears, closes>>
history == <<last, dropped, gone, torn>>
queueVars == <<rows, processVars, id, owner, phase, bounds, history>>

QueueInit ==
    /\ rows = [i \in Ids |-> NoRow]
    /\ open = Guis
    /\ used = [g \in Guis |-> {}]
    /\ id = [t \in Tasks |-> NoId]
    /\ owner = [t \in Tasks |-> "none"]
    /\ phase = [t \in Tasks |-> "new"]
    /\ inbox = [g \in Guis |-> <<>>]
    /\ held = [g \in Guis |-> Nobody]
    /\ refusals = 0 /\ clears = 0 /\ closes = 0
    /\ last = [t \in Tasks |-> "none"]
    /\ dropped = {}
    /\ gone = [i \in Ids |-> "no"]
    /\ torn = {}

(* The thread of the window is not in the middle of an event.              *)
Idle(g) == g \in open /\ held[g] = Nobody

Refused == refusals < MaxRefusals /\ refusals' = refusals + 1

-----------------------------------------------------------------------------
(* on_start_send, on_start_receive: a row, then a thread.  next_task_id    *)
(* counts in the process, and adds the second: another process may give    *)
(* out the same id.                                                        *)
FirstRow(t) == [status |-> "preparing", ticket |-> t \in Recvs]

Inserts(t, i) ==
    /\ rows' = [rows EXCEPT ![i] = FirstRow(t)]
    /\ id' = [id EXCEPT ![t] = i]
    /\ phase' = [phase EXCEPT ![t] = "spawned"]
    /\ gone' = [gone EXCEPT ![i] = "no"]
    /\ torn' = torn \ {i}
    /\ UNCHANGED refusals

InsertFails(t) ==
    /\ Refused
    /\ phase' = [phase EXCEPT ![t] = "dead"]
    /\ UNCHANGED <<rows, id, gone, torn>>

StartTask(t, g) ==
    /\ Idle(g)
    /\ phase[t] = "new"
    /\ \E i \in Ids \ used[g] :
          /\ used' = [used EXCEPT ![g] = @ \cup {i}]
          /\ Inserts(t, i) \/ InsertFails(t)
    /\ owner' = [owner EXCEPT ![t] = g]
    /\ UNCHANGED <<open, inbox, held, clears, closes, last, dropped>>

-----------------------------------------------------------------------------
(* send_with_events_impl, with_events_impl: the events of a transfer.  A   *)
(* send that keeps sending never completes.                                *)
Emits(t, e) ==
    /\ inbox' = [inbox EXCEPT ![owner[t]] = Append(@, [task |-> t, event |-> e])]
    /\ last' = [last EXCEPT ![t] = e]
    /\ UNCHANGED <<rows, open, used, held, id, owner, bounds, dropped, gone, torn>>

TaskStarted(t) ==
    /\ phase[t] = "spawned"
    /\ phase' = [phase EXCEPT ![t] = "running"]
    /\ Emits(t, "started")

TicketReady(t) ==
    /\ t \in Sends
    /\ phase[t] = "running"
    /\ phase' = [phase EXCEPT ![t] = "ticketed"]
    /\ Emits(t, "ticket")

TaskCompleted(t) ==
    /\ \/ t \in Recvs /\ phase[t] = "running"
       \/ t \in Sends /\ phase[t] = "ticketed"
    /\ phase' = [phase EXCEPT ![t] = "ended"]
    /\ Emits(t, "completed")

TaskFailed(t) ==
    /\ phase[t] \in {"running", "ticketed"}
    /\ phase' = [phase EXCEPT ![t] = "ended"]
    /\ Emits(t, "failed")

-----------------------------------------------------------------------------
(* apply_transfer_event.                                                   *)
AfterEvent(e) == CASE e = "started" -> "transferring"
                   [] e = "ticket" -> "waiting"
                   [] e = "completed" -> "completed"
                   [] e = "failed" -> "failed"

AppliedAnew(row, e) == [status |-> AfterEvent(e), ticket |-> e = "ticket"]
Applied(row, e) ==
    [status |-> AfterEvent(e), ticket |-> row.ticket \/ e = "ticket"]

(* apply_background_event, first half: the table is read.  The event of a  *)
(* row that is no longer there is dropped.                                 *)
ReadsInserting(g) ==
    /\ Idle(g)
    /\ inbox[g] # <<>>
    /\ LET m == Head(inbox[g])
           row == rows[id[m.task]]
       IN  held' = [held EXCEPT ![g] =
                       [task |-> m.task, event |-> m.event,
                        row |-> Applied(IF row = NoRow THEN FirstRow(m.task) ELSE row,
                                        m.event)]]
    /\ inbox' = [inbox EXCEPT ![g] = Tail(@)]
    /\ UNCHANGED <<rows, open, used, id, owner, phase, bounds, history>>
ReadsRetrying(g) ==
    /\ Idle(g)
    /\ inbox[g] # <<>>
    /\ LET m == Head(inbox[g])
           row == rows[id[m.task]]
       IN  IF row = NoRow THEN UNCHANGED <<held, inbox>>
           ELSE /\ held' = [held EXCEPT ![g] = [task |-> m.task, event |-> m.event,
                                                row |-> Applied(row, m.event)]]
                /\ inbox' = [inbox EXCEPT ![g] = Tail(@)]
    /\ UNCHANGED <<rows, open, used, id, owner, phase, bounds, history>>
Reads(g) ==
    /\ Idle(g)
    /\ inbox[g] # <<>>
    /\ LET m == Head(inbox[g])
           row == rows[id[m.task]]
       IN  held' = IF row = NoRow THEN held
                   ELSE [held EXCEPT ![g] = [task |-> m.task, event |-> m.event,
                                             row |-> Applied(row, m.event)]]
    /\ inbox' = [inbox EXCEPT ![g] = Tail(@)]
    /\ UNCHANGED <<rows, open, used, id, owner, phase, bounds, history>>

(* Second half: upsert writes the whole row, or inserts it again.          *)
Writes(g) ==
    /\ g \in open /\ held[g] # Nobody
    /\ rows' = [rows EXCEPT ![id[held[g].task]] = held[g].row]
    /\ held' = [held EXCEPT ![g] = Nobody]
    /\ UNCHANGED <<open, used, inbox, id, owner, phase, bounds, history>>

(* The database is busy (VACUUM) or full: the event is not tried again.    *)
ReadFails(g) ==
    /\ Idle(g)
    /\ inbox[g] # <<>>
    /\ Refused
    /\ dropped' = dropped \cup {Head(inbox[g])}
    /\ inbox' = [inbox EXCEPT ![g] = Tail(@)]
    /\ UNCHANGED <<rows, open, used, held, id, owner, phase, clears, closes, last, gone, torn>>

WriteFails(g) ==
    /\ g \in open /\ held[g] # Nobody
    /\ Refused
    /\ dropped' = dropped \cup {[task |-> held[g].task, event |-> held[g].event]}
    /\ held' = [held EXCEPT ![g] = Nobody]
    /\ UNCHANGED <<rows, open, used, inbox, id, owner, phase, clears, closes, last, gone, torn>>

-----------------------------------------------------------------------------
(* clear_completed and clear_all.                                          *)
Deletes(g, ids, how) ==
    /\ Idle(g)
    /\ clears < MaxClears
    /\ clears' = clears + 1
    /\ rows' = [i \in Ids |-> IF i \in ids THEN NoRow ELSE rows[i]]
    /\ gone' = [i \in Ids |-> IF i \in ids THEN how ELSE gone[i]]
    /\ torn' = torn \cup {i \in ids : \E h \in Guis : /\ held[h] # Nobody
                                                      /\ id[held[h].task] = i}
    /\ UNCHANGED <<processVars, id, owner, phase, refusals, closes, last, dropped>>

Kept == {i \in Ids : rows[i] # NoRow}

ClearCompleted(g) == Deletes(g, {i \in Kept : rows[i].status \in Final}, "completed")

ClearAll(g) == Deletes(g, Kept, "all")

(* A process that is closed takes its transfers along; their rows remain.  *)
CloseGui(g) ==
    /\ g \in open
    /\ closes < MaxCloses
    /\ closes' = closes + 1
    /\ open' = open \ {g}
    /\ used' = [used EXCEPT ![g] = {}]
    /\ inbox' = [inbox EXCEPT ![g] = <<>>]
    /\ held' = [held EXCEPT ![g] = Nobody]
    /\ phase' = [t \in Tasks |-> IF owner[t] = g /\ phase[t] # "new" THEN "dead"
                                 ELSE phase[t]]
    /\ UNCHANGED <<rows, id, owner, refusals, clears, history>>

OpenGui(g) ==
    /\ g \notin open
    /\ open' = open \cup {g}
    /\ UNCHANGED <<rows, used, inbox, held, id, owner, phase, bounds, history>>

-----------------------------------------------------------------------------
QueueNext ==
    \/ \E t \in Tasks : \/ \E g \in Windows[t] : StartTask(t, g)
                        \/ TaskStarted(t) \/ TicketReady(t)
                        \/ TaskCompleted(t) \/ TaskFailed(t)
    \/ \E g \in Guis : \/ Reads(g) \/ Writes(g) \/ ReadFails(g) \/ WriteFails(g)
                       \/ ClearCompleted(g) \/ ClearAll(g)
                       \/ CloseGui(g) \/ OpenGui(g)

(* The timer of an open window fires for ever, and drains the channel.     *)
Fairness == \A g \in Guis : WF_queueVars(Reads(g) \/ Writes(g))

QueueSpec == QueueInit /\ [][QueueNext]_queueVars /\ Fairness

-----------------------------------------------------------------------------
(* Types.                                                                  *)
QueueTypeOK ==
    /\ rows \in [Ids -> Rows \cup {NoRow}]
    /\ open \subseteq Guis
    /\ owner \in [Tasks -> Guis \cup {"none"}]
    /\ id \in [Tasks -> Ids \cup {NoId}]
    /\ phase \in [Tasks -> {"new", "spawned", "running", "ticketed", "ended", "dead"}]
    /\ \A g \in Guis : \A k \in DOMAIN inbox[g] : owner[inbox[g][k].task] = g
    /\ gone \in [Ids -> {"no", "completed", "all"}]

RowOf(t) == IF id[t] = NoId THEN NoRow ELSE rows[id[t]]

Live(t) == phase[t] \in {"running", "ticketed", "ended"}

(* Two processes have given out one id within the same second.             *)
Shared(t) == \E u \in Tasks \ {t} : id[u] # NoId /\ id[u] = id[t]

Pending(t) == LET g == owner[t]
              IN  \/ held[g] # Nobody /\ held[g].task = t
                  \/ \E k \in DOMAIN inbox[g] : inbox[g][k].task = t

(* Once the events of a transfer are handled, its row shows the last of    *)
(* them and the ticket it has announced, whatever the other process did to *)
(* the table meanwhile, unless just that event was lost.                   *)
RowTellsOutcome ==
    \A t \in Tasks :
        LET row == RowOf(t)
            lost(e) == [task |-> t, event |-> e] \in dropped
            announced == t \in Sends /\ (phase[t] = "ticketed" \/ last[t] = "completed")
        IN  (Live(t) /\ ~Shared(t) /\ ~Pending(t) /\ row # NoRow)
               => /\ ~lost(last[t]) => row.status = AfterEvent(last[t])
                  /\ (announced /\ ~lost("ticket")) => row.ticket

(* What was deleted stays deleted, although its transfer may go on, unless *)
(* it was deleted by another process between the two halves of an update.  *)
(* And a transfer that has not ended is in the table until all history is  *)
(* deleted: no clean-up of what has ended takes it along.                  *)
RowsAreKept ==
    /\ QueueTypeOK
    /\ \A i \in Ids : (gone[i] # "no" /\ i \notin torn) => rows[i] = NoRow
    /\ \A t \in Tasks : (Live(t) /\ phase[t] # "ended" /\ ~Shared(t))
                           => (RowOf(t) # NoRow \/ gone[id[t]] = "all")

(* While its process runs, the end of a transfer is shown, unless the      *)
(* event was lost or the row deleted.                                      *)
EndIsShown ==
    \A t \in Tasks :
        (phase[t] = "ended")
            ~> \/ phase[t] = "dead" \/ Shared(t)
               \/ [task |-> t, event |-> last[t]] \in dropped
               \/ RowOf(t) = NoRow
               \/ RowOf(t).status = last[t]
=============================================================================
