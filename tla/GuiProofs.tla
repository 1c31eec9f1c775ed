------------------------------ MODULE GuiProofs ------------------------------
(***************************************************************************)
(* Proofs about what outlives a process in the GUI's directory: the queue  *)
(* table (GuiQueue, for any number of processes, transfers, ids and        *)
(* refusals), then ii.toml (ConfigFile).                                   *)
(***************************************************************************)
EXTENDS GuiQueue, ConfigFile, TLAPS

Message(t, e) == [task |-> t, event |-> e]
Messages == [task : Tasks, event : Events]
Held == [task : Tasks, event : Events, row : Rows]

(* The types.                                                              *)
QueueTypes ==
    /\ QueueTypeOK
    /\ inbox \in [Guis -> Seq(Messages)]
    /\ held \in [Guis -> {Nobody} \cup Held]
    /\ last \in [Tasks -> Events \cup {"none"}]
    /\ torn \subseteq Ids

(* How far a transfer is tells what it has, and its last event.            *)
PhaseFits(t) ==
    /\ phase[t] = "new" => id[t] = NoId
    /\ phase[t] \in {"new", "spawned"} => last[t] = "none"
    /\ phase[t] \notin {"new", "dead"} => id[t] \in Ids /\ owner[t] \in Guis
    /\ phase[t] = "running" => last[t] = "started"
    /\ phase[t] = "ticketed" => last[t] = "ticket" /\ t \in Sends
    /\ phase[t] = "ended" => last[t] \in Final

(* An event belongs to a transfer that runs or has ended in this process;  *)
(* it is the last of its transfer, or the last waits in the inbox.         *)
LastWaits(t, g, after) ==
    \E j \in DOMAIN inbox[g] : j > after /\ inbox[g][j] = Message(t, last[t])

EventFits(t, e, g, at) ==
    /\ owner[t] = g
    /\ Live(t)
    /\ e \in Final => phase[t] = "ended"
    /\ e = last[t] \/ LastWaits(t, g, at)

InboxFits(g) ==
    \A k \in DOMAIN inbox[g] : EventFits(inbox[g][k].task, inbox[g][k].event, g, k)

HeldFits(g) ==
    held[g] # Nobody =>
        /\ EventFits(held[g].task, held[g].event, g, 0)
        /\ held[g].row.status = AfterEvent(held[g].event)
        /\ held[g].event = "ticket" => held[g].row.ticket

(* The row of a transfer, and the row that is about to be written, show    *)
(* what was handled.                                                       *)
Alone(t) == phase[t] \notin {"new", "dead"} /\ ~Shared(t)

ShowsStatus(t) ==
    LET row == RowOf(t)
    IN  row # NoRow =>
          /\ row.status \in Final => phase[t] = "ended"
          /\ (Live(t) /\ ~Pending(t) /\ Message(t, last[t]) \notin dropped)
                => row.status = AfterEvent(last[t])

Announced(t) == t \in Sends /\ (phase[t] = "ticketed" \/ last[t] = "completed")

TicketHandled(t) ==
    /\ Message(t, "ticket") \notin dropped
    /\ \A k \in DOMAIN inbox[owner[t]] : inbox[owner[t]][k] # Message(t, "ticket")
    /\ ~(held[owner[t]] # Nobody /\ held[owner[t]].task = t
           /\ held[owner[t]].event = "ticket")

ShowsTicket(t) ==
    (Announced(t) /\ TicketHandled(t))
        => /\ RowOf(t) # NoRow => RowOf(t).ticket
           /\ (held[owner[t]] # Nobody /\ held[owner[t]].task = t)
                 => held[owner[t]].row.ticket

RowFits(t) ==
    Alone(t) => /\ ShowsStatus(t)
                /\ ShowsTicket(t)
                /\ phase[t] # "ended" => (RowOf(t) # NoRow \/ gone[id[t]] = "all")

(* A deleted row stays away.                                               *)
StaysDeleted(i) ==
    (gone[i] # "no" /\ i \notin torn)
        => /\ rows[i] = NoRow
           /\ \A g \in Guis : held[g] # Nobody => id[held[g].task] # i

QueueInv ==
    /\ QueueTypes
    /\ \A t \in Tasks : PhaseFits(t) /\ RowFits(t)
    /\ \A g \in Guis : InboxFits(g) /\ HeldFits(g)
    /\ \A i \in Ids : StaysDeleted(i)

-----------------------------------------------------------------------------
LEMMA TailFacts ==
    ASSUME NEW S, NEW s \in Seq(S), s # <<>>
    PROVE  /\ Tail(s) \in Seq(S)
           /\ Head(s) \in S /\ Head(s) = s[1] /\ 1 \in DOMAIN s
           /\ \A k \in DOMAIN Tail(s) :
                 k \in Nat /\ k + 1 \in DOMAIN s /\ Tail(s)[k] = s[k + 1]
           /\ \A k \in DOMAIN s :
                 k > 1 => k - 1 \in DOMAIN Tail(s) /\ Tail(s)[k - 1] = s[k]
  OBVIOUS

LEMMA AfterEvents ==
    /\ \A e \in Events : AfterEvent(e) \in Statuses \ {"preparing"}
    /\ \A e \in Events : AfterEvent(e) \in Final <=> e \in Final
  BY DEF Events, AfterEvent, Statuses, Final

LEMMA QueueInitially == QueueInit => QueueInv
<1> SUFFICES ASSUME QueueInit PROVE QueueInv
  OBVIOUS
<1> USE DEF QueueInit
<1>1. QueueTypes
  BY DEF QueueTypes, QueueTypeOK
<1>2. ASSUME NEW t \in Tasks PROVE PhaseFits(t) /\ RowFits(t)
  BY DEF PhaseFits, RowFits, Alone
<1>3. ASSUME NEW g \in Guis PROVE InboxFits(g) /\ HeldFits(g)
  BY DEF InboxFits, HeldFits
<1>4. ASSUME NEW i \in Ids PROVE StaysDeleted(i)
  BY DEF StaysDeleted
<1> QED
  BY <1>1, <1>2, <1>3, <1>4 DEF QueueInv

-----------------------------------------------------------------------------
(* An event is sent.                                                       *)
PhaseAfter(e) == CASE e = "started" -> "running"
                   [] e = "ticket" -> "ticketed"
                   [] e \in Final -> "ended"

LEMMA EmitsKeeps ==
    ASSUME QueueInv,
           NEW t \in Tasks, NEW e \in Events,
           phase[t] \in {"spawned", "running", "ticketed"},
           e = "ticket" => t \in Sends,
           (e = "completed" /\ t \in Sends) => phase[t] = "ticketed",
           phase' = [phase EXCEPT ![t] = PhaseAfter(e)],
           Emits(t, e)
    PROVE  QueueInv'
<1> DEFINE g == owner[t]
           m == Message(t, e)
           p == PhaseAfter(e)
<1> USE DEF Emits
<1>0. \/ p = "running" /\ e = "started"
      \/ p = "ticketed" /\ e = "ticket" /\ t \in Sends
      \/ p = "ended" /\ e \in Final
  BY DEF PhaseAfter, Events, Final
<1> HIDE DEF p
<1>1. g \in Guis /\ id[t] \in Ids
  BY DEF QueueInv, PhaseFits
<1>2. /\ UNCHANGED <<rows, open, held, id, owner, dropped, gone, torn>>
      /\ inbox' = [inbox EXCEPT ![g] = Append(inbox[g], m)]
      /\ last' = [last EXCEPT ![t] = e]
  BY DEF Message
<1>3. /\ m \in Messages
      /\ m.task = t /\ m.event = e
  BY DEF Message, Messages
<1>4. /\ DOMAIN inbox'[g] = 1..Len(inbox[g]) + 1
      /\ DOMAIN inbox[g] = 1..Len(inbox[g]) /\ Len(inbox[g]) \in Nat
      /\ \A k \in DOMAIN inbox[g] : inbox'[g][k] = inbox[g][k]
      /\ inbox'[g][Len(inbox[g]) + 1] = m
  BY <1>1, <1>2, <1>3 DEF QueueInv, QueueTypes
<1>5. \A h \in Guis \ {g} : inbox'[h] = inbox[h]
  BY <1>1, <1>2 DEF QueueInv, QueueTypes
<1>6. \A u \in Tasks \ {t} : phase'[u] = phase[u] /\ last'[u] = last[u]
  BY <1>2 DEF QueueInv, QueueTypes, QueueTypeOK
<1>7. phase'[t] = p /\ last'[t] = e
  BY <1>2 DEF p, QueueInv, QueueTypes, QueueTypeOK
<1>10. QueueTypes'
  <2>1. QueueTypeOK'
    BY <1>0, <1>1, <1>2, <1>3, <1>4, <1>5, <1>6, <1>7 DEF QueueInv, QueueTypes, QueueTypeOK
  <2>2. Append(inbox[g], m) \in Seq(Messages)
    BY <1>1, <1>3 DEF QueueInv, QueueTypes
  <2>3. inbox' \in [Guis -> Seq(Messages)]
    BY <1>1, <1>2, <2>2 DEF QueueInv, QueueTypes
  <2>4. last' \in [Tasks -> Events \cup {"none"}]
    BY <1>2 DEF QueueInv, QueueTypes
  <2> QED
    BY <2>1, <2>3, <2>4, <1>2 DEF QueueInv, QueueTypes
<1>11. ASSUME NEW u \in Tasks PROVE PhaseFits(u)'
  BY <1>0, <1>1, <1>2, <1>6, <1>7 DEF QueueInv, PhaseFits, Final
<1>12. ASSUME NEW u \in Tasks, NEW f, NEW h \in Guis, NEW k \in Nat, EventFits(u, f, h, k),
              k \in DOMAIN inbox[h] \/ k = 0
       PROVE  EventFits(u, f, h, k)'
  <2>1. CASE u = t
    <3>1. h = g
      BY <2>1, <1>12 DEF EventFits
    <3>2. LastWaits(u, h, k)'
      <4>1. Len(inbox[g]) + 1 > k /\ Len(inbox[g]) + 1 \in DOMAIN inbox'[h]
        BY <3>1, <1>4, <1>12
      <4>2. inbox'[h][Len(inbox[g]) + 1] = Message(u, last'[u])
        BY <2>1, <3>1, <1>4, <1>7
      <4> QED
        BY <4>1, <4>2 DEF LastWaits
    <3>3. Live(u)' /\ (f \in Final => phase'[u] = "ended")
      BY <1>0, <2>1, <1>7, <1>12 DEF EventFits, Live
    <3> QED
      BY <3>2, <3>3, <1>2, <1>12 DEF EventFits
  <2>2. CASE u # t
    <3>1. LastWaits(u, h, k) => LastWaits(u, h, k)'
      BY <2>2, <1>4, <1>5, <1>6 DEF LastWaits, Message
    <3> QED
      BY <3>1, <2>2, <1>2, <1>6, <1>12 DEF EventFits, Live
  <2> QED
    BY <2>1, <2>2
<1>13. ASSUME NEW h \in Guis PROVE InboxFits(h)'
  <2> SUFFICES ASSUME NEW k \in DOMAIN inbox'[h]
               PROVE  EventFits(inbox[h][k].task, inbox[h][k].event, h, k)'
    BY DEF InboxFits
  <2>1. CASE h = g /\ k = Len(inbox[g]) + 1
    <3>1. inbox'[h][k].task = t /\ inbox'[h][k].event = e
      BY <2>1, <1>3, <1>4
    <3>2. EventFits(t, e, h, k)'
      BY <1>0, <2>1, <1>2, <1>7 DEF EventFits, Live, Final
    <3> QED
      BY <3>1, <3>2
  <2>2. CASE k \in DOMAIN inbox[h]
    <3>1. inbox'[h][k] = inbox[h][k]
      BY <2>2, <1>4, <1>5
    <3>3. inbox[h] \in Seq(Messages)
      BY DEF QueueInv, QueueTypes
    <3>4. inbox[h][k] \in Messages /\ k \in Nat
      BY <3>3, <2>2
    <3>2. EventFits(inbox[h][k].task, inbox[h][k].event, h, k)
      BY <2>2 DEF QueueInv, InboxFits
    <3> QED
      BY <3>1, <3>2, <3>4, <2>2, <1>12 DEF Messages
  <2> QED
    BY <2>1, <2>2, <1>4, <1>5
<1>14. ASSUME NEW h \in Guis PROVE HeldFits(h)'
  <2> SUFFICES ASSUME held[h] # Nobody
               PROVE  HeldFits(h)'
    BY <1>2 DEF HeldFits
  <2>1. held[h].task \in Tasks
    BY DEF QueueInv, QueueTypes, Held
  <2>2. EventFits(held[h].task, held[h].event, h, 0)'
    BY <2>1, <1>2, <1>12 DEF QueueInv, HeldFits
  <2> QED
    BY <2>2, <1>2 DEF QueueInv, HeldFits
<1>15. ASSUME NEW u \in Tasks PROVE RowFits(u)'
  <2> SUFFICES ASSUME Alone(u)'
               PROVE  /\ ShowsStatus(u)'
                      /\ ShowsTicket(u)'
                      /\ (phase[u] # "ended" => (RowOf(u) # NoRow \/ gone[id[u]] = "all"))'
    BY DEF RowFits
  <2>1. Alone(u) /\ RowOf(u)' = RowOf(u) /\ (phase'[u] # "ended" => phase[u] # "ended")
    BY <1>2, <1>6, <1>7 DEF Alone, Shared, RowOf
  <2>2. RowFits(u)
    BY DEF QueueInv
  <2>3. CASE u = t
    <3>1. inbox'[owner[u]][Len(inbox[g]) + 1] = Message(u, e)
          /\ Len(inbox[g]) + 1 \in DOMAIN inbox'[owner[u]]
      BY <2>3, <1>4
    <3>2. Pending(u)'
      BY <1>0, <3>1, <1>2, <1>3, <2>3 DEF Pending
    <3>3. ShowsStatus(u)'
      BY <3>2, <2>1, <2>2, <2>3, <1>2, <1>7 DEF RowFits, ShowsStatus
    <3>4. ShowsTicket(u)'
      <4> SUFFICES ASSUME Announced(u)', TicketHandled(u)'
                   PROVE  Announced(u) /\ TicketHandled(u)
        BY <2>1, <2>2, <1>2 DEF RowFits, ShowsTicket
      <4>1. e # "ticket"
        BY <3>1, <1>2 DEF TicketHandled, Message
      <4>2. Announced(u)
        BY <1>0, <4>1, <2>3, <1>7 DEF Announced, Final
      <4>3. TicketHandled(u)
        BY <1>2, <1>4, <2>3 DEF TicketHandled
      <4> QED
        BY <4>2, <4>3
    <3> QED
      BY <3>3, <3>4, <2>1, <2>2, <1>2 DEF RowFits
  <2>4. CASE u # t
    <3>1. owner[u] \in Guis
      BY <2>1 DEF Alone, QueueInv, PhaseFits
    <3>2. \A k \in DOMAIN inbox[owner[u]] :
              /\ k \in DOMAIN inbox'[owner[u]]
              /\ inbox'[owner[u]][k] = inbox[owner[u]][k]
      BY <3>1, <1>4, <1>5
    <3>3. ShowsStatus(u)'
      <4>1. Pending(u) => Pending(u)'
        BY <3>2, <1>2 DEF Pending
      <4> QED
        BY <4>1, <2>1, <2>2, <2>4, <1>2, <1>6 DEF RowFits, ShowsStatus, Live
    <3>4. ShowsTicket(u)'
      <4>1. TicketHandled(u)' => TicketHandled(u)
        BY <3>2, <1>2 DEF TicketHandled
      <4> QED
        BY <4>1, <2>1, <2>2, <2>4, <1>2, <1>6 DEF RowFits, ShowsTicket, Announced
    <3> QED
      BY <3>3, <3>4, <2>1, <2>2, <1>2 DEF RowFits
  <2> QED
    BY <2>3, <2>4
<1>16. ASSUME NEW i \in Ids PROVE StaysDeleted(i)'
  BY <1>2 DEF QueueInv, StaysDeleted
<1> QED
  BY <1>10, <1>11, <1>13, <1>14, <1>15, <1>16 DEF QueueInv

-----------------------------------------------------------------------------
(* An event leaves the inbox.                                              *)
TakesFirst(g) ==
    /\ inbox[g] # <<>>
    /\ held[g] = Nobody
    /\ inbox' = [inbox EXCEPT ![g] = Tail(inbox[g])]
    /\ UNCHANGED <<rows, id, owner, phase, last, gone, torn>>

LEMMA TakesFirstEffect ==
    ASSUME QueueInv, NEW g \in Guis, TakesFirst(g)
    PROVE  /\ inbox' \in [Guis -> Seq(Messages)]
           /\ Head(inbox[g]) \in Messages
           /\ Head(inbox[g]) = inbox[g][1] /\ 1 \in DOMAIN inbox[g]
           /\ \A k \in DOMAIN inbox'[g] :
                 k \in Nat /\ k + 1 \in DOMAIN inbox[g] /\ inbox'[g][k] = inbox[g][k + 1]
           /\ \A k \in DOMAIN inbox[g] :
                 k > 1 => k - 1 \in DOMAIN inbox'[g] /\ inbox'[g][k - 1] = inbox[g][k]
           /\ \A h \in Guis \ {g} : inbox'[h] = inbox[h]
<1>1. inbox \in [Guis -> Seq(Messages)]
  BY DEF QueueInv, QueueTypes
<1>2. inbox[g] \in Seq(Messages) /\ inbox'[g] = Tail(inbox[g])
      /\ \A h \in Guis \ {g} : inbox'[h] = inbox[h]
  BY <1>1 DEF TakesFirst
<1>3. Tail(inbox[g]) \in Seq(Messages)
  BY <1>2, TailFacts DEF TakesFirst
<1>4. inbox' \in [Guis -> Seq(Messages)]
  BY <1>1, <1>3 DEF TakesFirst
<1> QED
  BY <1>2, <1>4, TailFacts DEF TakesFirst

LEMMA TakenFits ==
    ASSUME QueueInv, NEW g \in Guis, TakesFirst(g), NEW t, NEW e
    PROVE  /\ \A k \in DOMAIN inbox[g] : EventFits(t, e, g, k) => EventFits(t, e, g, k - 1)'
           /\ \A h \in Guis \ {g}, k \in Nat : EventFits(t, e, h, k) => EventFits(t, e, h, k)'
<1> USE TakesFirstEffect
<1>1. ASSUME NEW k \in DOMAIN inbox[g], LastWaits(t, g, k) PROVE LastWaits(t, g, k - 1)'
  <2>1. PICK j \in DOMAIN inbox[g] : j > k /\ inbox[g][j] = Message(t, last[t])
    BY <1>1 DEF LastWaits
  <2>2. inbox[g] \in Seq(Messages)
    BY DEF QueueInv, QueueTypes
  <2>3. j \in Nat /\ k \in Nat /\ j > 1
    BY <2>1, <2>2
  <2>4. j - 1 \in DOMAIN inbox'[g] /\ inbox'[g][j - 1] = Message(t, last[t]) /\ j - 1 > k - 1
    BY <2>1, <2>3
  <2> QED
    BY <2>4 DEF LastWaits, TakesFirst, Message
<1>2. ASSUME NEW h \in Guis \ {g}, NEW k \in Nat, LastWaits(t, h, k) PROVE LastWaits(t, h, k)'
  BY <1>2 DEF LastWaits, TakesFirst, Message
<1> QED
  BY <1>1, <1>2 DEF EventFits, Live, TakesFirst

LEMMA TakenKeeps ==
    ASSUME QueueInv, NEW g \in Guis, TakesFirst(g)
    PROVE  /\ \A h \in Guis : InboxFits(h)'
           /\ \A t, e : (t = Head(inbox[g]).task /\ e = Head(inbox[g]).event)
                          => EventFits(t, e, g, 0)'
           /\ \A h \in Guis \ {g} : held'[h] = held[h] => HeldFits(h)'
           /\ \A u \in Tasks : PhaseFits(u)'
<1>1. ASSUME NEW k \in DOMAIN inbox'[g]
      PROVE  EventFits(inbox[g][k].task, inbox[g][k].event, g, k)'
  <2>1. k \in Nat /\ k + 1 \in DOMAIN inbox[g] /\ inbox'[g][k] = inbox[g][k + 1]
    BY TakesFirstEffect
  <2>2. EventFits(inbox[g][k + 1].task, inbox[g][k + 1].event, g, k + 1)
    BY <2>1 DEF QueueInv, InboxFits
  <2>3. EventFits(inbox[g][k + 1].task, inbox[g][k + 1].event, g, k + 1)
           => (\A t, e : (t = inbox[g][k + 1].task /\ e = inbox[g][k + 1].event)
                   => EventFits(t, e, g, k + 1 - 1)')
    BY <2>1, TakenFits
  <2>4. k + 1 - 1 = k
    BY <2>1
  <2> QED
    BY <2>1, <2>2, <2>3, <2>4
<1>2. ASSUME NEW h \in Guis \ {g}, NEW k \in DOMAIN inbox'[h]
      PROVE  EventFits(inbox[h][k].task, inbox[h][k].event, h, k)'
  <2>1. inbox'[h] = inbox[h] /\ inbox[h] \in Seq(Messages)
    BY TakesFirstEffect DEF QueueInv, QueueTypes
  <2>2. EventFits(inbox[h][k].task, inbox[h][k].event, h, k) /\ k \in Nat
    BY <2>1 DEF QueueInv, InboxFits
  <2> QED
    BY <2>1, <2>2, TakenFits
<1>3. \A h \in Guis : InboxFits(h)'
  BY <1>1, <1>2 DEF InboxFits
<1>4. \A t, e : (t = Head(inbox[g]).task /\ e = Head(inbox[g]).event)
                  => EventFits(t, e, g, 0)'
  <2>1. \A t, e : EventFits(t, e, g, 1) => EventFits(t, e, g, 1 - 1)'
    BY TakesFirstEffect, TakenFits
  <2>2. EventFits(Head(inbox[g]).task, Head(inbox[g]).event, g, 1)
    BY TakesFirstEffect DEF QueueInv, InboxFits
  <2> QED
    BY <2>1, <2>2
<1>5. ASSUME NEW h \in Guis \ {g}, held'[h] = held[h] PROVE HeldFits(h)'
  BY <1>5, TakenFits DEF QueueInv, HeldFits
<1>6. \A u \in Tasks : PhaseFits(u)'
  BY DEF QueueInv, PhaseFits, TakesFirst
<1> QED
  BY <1>3, <1>4, <1>5, <1>6

(* Who waits, and what is handled, changes only for the event's transfer.  *)
LEMMA TakenWaits ==
    ASSUME QueueInv, NEW g \in Guis, TakesFirst(g), NEW u \in Tasks, Alone(u),
           \A h \in Guis \ {g} : held'[h] = held[h],
           held'[g] # Nobody => /\ held'[g].task = Head(inbox[g]).task
                                /\ held'[g].event = Head(inbox[g]).event
    PROVE  /\ (Pending(u) /\ ~Pending(u)')
                 => Head(inbox[g]).task = u /\ held'[g] = Nobody
                    /\ (Live(u) => Head(inbox[g]).event = last[u])
           /\ (TicketHandled(u)' /\ ~TicketHandled(u) /\ dropped \subseteq dropped')
                 => Head(inbox[g]) = Message(u, "ticket") /\ held'[g] = Nobody
           /\ (/\ owner[u] # g \/ Head(inbox[g]).task # u
               /\ held'[owner[u]] # Nobody /\ held'[owner[u]].task = u)
                 => held'[owner[u]] = held[owner[u]]
<1>1. owner[u] \in Guis /\ owner'[u] = owner[u]
  BY DEF Alone, QueueInv, PhaseFits, TakesFirst
<1>2. CASE owner[u] # g
  <2>1. inbox'[owner[u]] = inbox[owner[u]] /\ held'[owner[u]] = held[owner[u]]
    BY <1>1, <1>2, TakesFirstEffect
  <2> QED
    BY <1>1, <1>2, <2>1 DEF Pending, TicketHandled, Message
<1>3. CASE owner[u] = g
  <2>1. held[g] = Nobody
    BY DEF TakesFirst
  <2>2. ASSUME Pending(u), ~Pending(u)'
        PROVE  Head(inbox[g]).task = u /\ held'[g] = Nobody
               /\ (Live(u) => Head(inbox[g]).event = last[u])
    <3>1. PICK k \in DOMAIN inbox[g] : inbox[g][k].task = u
      BY <2>1, <2>2, <1>3 DEF Pending
    <3>2. inbox[g] \in Seq(Messages)
      BY DEF QueueInv, QueueTypes
    <3>3. ~(k > 1)
      BY <3>1, <1>1, <1>3, <2>2, TakesFirstEffect DEF Pending
    <3>4. k = 1
      BY <3>2, <3>3
    <3>5. Head(inbox[g]).task = u
      BY <3>1, <3>4, TakesFirstEffect
    <3>6. held'[g] = Nobody
      BY <3>5, <1>1, <1>3, <2>2 DEF Pending
    <3>7. \A e : e = Head(inbox[g]).event => EventFits(u, e, g, 0)'
      BY <3>5, TakenKeeps
    <3>8. ~LastWaits(u, g, 0)'
      BY <1>1, <1>3, <2>2 DEF Pending, LastWaits, Message
    <3> QED
      BY <3>5, <3>6, <3>7, <3>8 DEF EventFits, TakesFirst
  <2>3. ASSUME TicketHandled(u)', ~TicketHandled(u), dropped \subseteq dropped'
        PROVE  Head(inbox[g]) = Message(u, "ticket") /\ held'[g] = Nobody
    <3>1. PICK k \in DOMAIN inbox[g] : inbox[g][k] = Message(u, "ticket")
      BY <2>1, <2>3, <1>1, <1>3 DEF TicketHandled, Message
    <3>2. inbox[g] \in Seq(Messages)
      BY DEF QueueInv, QueueTypes
    <3>3. ~(k > 1)
      BY <3>1, <1>1, <1>3, <2>3, TakesFirstEffect DEF TicketHandled, Message
    <3>4. Head(inbox[g]) = Message(u, "ticket")
      BY <3>1, <3>2, <3>3, TakesFirstEffect
    <3>5. Head(inbox[g]).task = u /\ Head(inbox[g]).event = "ticket"
      BY <3>4 DEF Message
    <3>6. held'[g] = Nobody
      BY <3>5, <1>1, <1>3, <2>3 DEF TicketHandled
    <3> QED
      BY <3>4, <3>6
  <2> QED
    BY <1>3, <2>2, <2>3
<1> QED
  BY <1>2, <1>3

-----------------------------------------------------------------------------
(* The table is read, or cannot be.                                        *)
LEMMA ReadsKeeps ==
    ASSUME QueueInv, NEW g \in Guis, Reads(g)
    PROVE  QueueInv'
<1> DEFINE m == Head(inbox[g])
           row == rows[id[m.task]]
<1>1. TakesFirst(g) /\ UNCHANGED <<open, dropped>>
  BY DEF Reads, Idle, TakesFirst, history
<1>2. /\ held' = IF row = NoRow THEN held
                 ELSE [held EXCEPT ![g] = [task |-> m.task, event |-> m.event,
                                           row |-> Applied(row, m.event)]]
      /\ held[g] = Nobody
  BY DEF Reads, Idle
<1>3. /\ m \in Messages /\ m.task \in Tasks /\ m.event \in Events
      /\ m = Message(m.task, m.event)
  BY <1>1, TakesFirstEffect DEF Messages, Message
<1>4. \A t, e : (t = m.task /\ e = m.event) => EventFits(t, e, g, 0)'
  BY <1>1, TakenKeeps
<1>5. owner[m.task] = g /\ Live(m.task) /\ id[m.task] \in Ids
  <2>1. owner[m.task] = g /\ Live(m.task)
    BY <1>1, TakesFirstEffect DEF QueueInv, InboxFits, EventFits
  <2> QED
    BY <2>1, <1>3 DEF QueueInv, PhaseFits, Live
<1>6. row # NoRow =>
        /\ held'[g] = [task |-> m.task, event |-> m.event, row |-> Applied(row, m.event)]
        /\ held'[g] # Nobody
        /\ row \in Rows
        /\ Applied(row, m.event) \in Rows
        /\ Applied(row, m.event).status = AfterEvent(m.event)
        /\ Applied(row, m.event).ticket = (row.ticket \/ m.event = "ticket")
  <2> SUFFICES ASSUME row # NoRow
               PROVE  /\ held'[g] = [task |-> m.task, event |-> m.event,
                                     row |-> Applied(row, m.event)]
                      /\ held'[g] # Nobody
                      /\ row \in Rows
                      /\ Applied(row, m.event) \in Rows
                      /\ Applied(row, m.event).status = AfterEvent(m.event)
                      /\ Applied(row, m.event).ticket = (row.ticket \/ m.event = "ticket")
    OBVIOUS
  <2>1. row \in Rows
    BY <1>5 DEF QueueInv, QueueTypes, QueueTypeOK
  <2>2. AfterEvent(m.event) \in Statuses
    BY <1>3, AfterEvents
  <2>3. held'[g] = [task |-> m.task, event |-> m.event, row |-> Applied(row, m.event)]
    BY <1>2 DEF QueueInv, QueueTypes
  <2>4. held'[g] # Nobody
    BY <2>3 DEF Nobody
  <2> QED
    BY <2>1, <2>2, <2>3, <2>4 DEF Applied, Rows
<1>7. \A h \in Guis \ {g} : held'[h] = held[h]
  BY <1>2 DEF QueueInv, QueueTypes
<1>8. held'[g] # Nobody => row # NoRow
  BY <1>2
<1>10. QueueTypes'
  <2>1. held' \in [Guis -> {Nobody} \cup Held]
    <3>1. row # NoRow => [task |-> m.task, event |-> m.event, row |-> Applied(row, m.event)] \in Held
      BY <1>3, <1>6 DEF Held
    <3> QED
      BY <3>1, <1>2 DEF QueueInv, QueueTypes
  <2>2. QueueTypeOK'
    <3>1. \A h \in Guis : \A k \in DOMAIN inbox'[h] : owner'[inbox'[h][k].task] = h
      BY <1>1, TakenKeeps DEF InboxFits, EventFits
    <3> QED
      BY <3>1, <1>1 DEF QueueInv, QueueTypes, QueueTypeOK, TakesFirst
  <2> QED
    BY <2>1, <2>2, <1>1, TakesFirstEffect DEF QueueInv, QueueTypes, TakesFirst
<1>11. HeldFits(g)'
  <2> SUFFICES ASSUME held'[g] # Nobody PROVE HeldFits(g)'
    BY DEF HeldFits
  <2>1. /\ held'[g].task = m.task /\ held'[g].event = m.event
        /\ held'[g].row = Applied(row, m.event)
    BY <1>6, <1>8
  <2>2. EventFits(held[g].task, held[g].event, g, 0)'
    BY <2>1, <1>4
  <2>3. held'[g].row.status = AfterEvent(held'[g].event)
        /\ (held'[g].event = "ticket" => held'[g].row.ticket)
    BY <2>1, <1>6, <1>8
  <2> QED
    BY <2>2, <2>3 DEF HeldFits
<1>12. ASSUME NEW u \in Tasks PROVE RowFits(u)'
  <2> SUFFICES ASSUME Alone(u)'
               PROVE  /\ ShowsStatus(u)'
                      /\ ShowsTicket(u)'
                      /\ (phase[u] # "ended" => (RowOf(u) # NoRow \/ gone[id[u]] = "all"))'
    BY DEF RowFits
  <2>1. Alone(u) /\ RowOf(u)' = RowOf(u) /\ owner[u] \in Guis /\ RowOf(u) = rows[id[u]]
    BY <1>1, IdsAssumption DEF TakesFirst, Alone, Shared, RowOf, QueueInv, PhaseFits
  <2>2. ShowsStatus(u) /\ ShowsTicket(u)
        /\ (phase[u] # "ended" => (RowOf(u) # NoRow \/ gone[id[u]] = "all"))
    BY <2>1 DEF QueueInv, RowFits
  <2>3. /\ (Pending(u) /\ ~Pending(u)') => m.task = u /\ held'[g] = Nobody
        /\ (TicketHandled(u)' /\ ~TicketHandled(u))
              => m = Message(u, "ticket") /\ held'[g] = Nobody
        /\ (/\ owner[u] # g \/ m.task # u
            /\ held'[owner[u]] # Nobody /\ held'[owner[u]].task = u)
              => held'[owner[u]] = held[owner[u]]
    BY <1>1, <1>6, <1>7, <1>8, <2>1, TakenWaits
  <2>4. m.task = u /\ held'[g] = Nobody => RowOf(u) = NoRow
    BY <1>6, <2>1
  <2>5. ShowsStatus(u)'
    BY <1>1, <2>1, <2>2, <2>3, <2>4 DEF ShowsStatus, Live, TakesFirst
  <2>6. ShowsTicket(u)'
    <3> SUFFICES ASSUME Announced(u)', TicketHandled(u)'
                 PROVE  /\ RowOf(u) # NoRow => RowOf(u).ticket
                        /\ (held'[owner[u]] # Nobody /\ held'[owner[u]].task = u)
                              => held'[owner[u]].row.ticket
      BY <2>1, <1>1 DEF ShowsTicket, TakesFirst
    <3>1. Announced(u)
      BY <1>1 DEF Announced, TakesFirst
    <3>2. CASE TicketHandled(u)
      <4>1. /\ RowOf(u) # NoRow => RowOf(u).ticket
            /\ (held[owner[u]] # Nobody /\ held[owner[u]].task = u)
                  => held[owner[u]].row.ticket
        BY <2>2, <3>1, <3>2 DEF ShowsTicket
      <4>2. CASE owner[u] = g /\ m.task = u
        <5> SUFFICES ASSUME held'[g] # Nobody
                     PROVE  RowOf(u).ticket /\ held'[g].row.ticket
          BY <4>1, <4>2
        <5>1. row = RowOf(u) /\ row # NoRow
          BY <4>2, <1>8, <2>1
        <5>2. held'[g].row = Applied(row, m.event)
          BY <5>1, <1>6
        <5> QED
          BY <5>1, <5>2, <4>1, <1>6
      <4>3. CASE owner[u] # g \/ m.task # u
        BY <4>1, <4>3, <2>3
      <4> QED
        BY <4>2, <4>3
    <3>3. CASE ~TicketHandled(u)
      <4>1. m.task = u /\ held'[g] = Nobody
        BY <3>3, <2>3 DEF Message
      <4> QED
        BY <4>1, <2>4, <1>5
    <3> QED
      BY <3>2, <3>3
  <2> QED
    BY <2>1, <2>2, <2>5, <2>6, <1>1 DEF TakesFirst
<1>13. ASSUME NEW i \in Ids PROVE StaysDeleted(i)'
  <2> SUFFICES ASSUME gone[i] # "no", i \notin torn
               PROVE  rows[i] = NoRow /\ \A h \in Guis : held'[h] # Nobody => id[held'[h].task] # i
    BY <1>1 DEF StaysDeleted, TakesFirst
  <2>1. rows[i] = NoRow /\ \A h \in Guis : held[h] # Nobody => id[held[h].task] # i
    BY DEF QueueInv, StaysDeleted
  <2>2. held'[g] # Nobody => id[held'[g].task] # i
    BY <2>1, <1>6, <1>8
  <2> QED
    BY <2>1, <2>2, <1>7
<1> QED
  BY <1>1, <1>7, <1>10, <1>11, <1>12, <1>13, TakenKeeps DEF QueueInv

LEMMA ReadFailsKeeps ==
    ASSUME QueueInv, NEW g \in Guis, ReadFails(g)
    PROVE  QueueInv'
<1> DEFINE m == Head(inbox[g])
<1>1. TakesFirst(g) /\ UNCHANGED <<open, held>> /\ dropped' = dropped \cup {m} /\ held[g] = Nobody
  BY DEF ReadFails, Idle, TakesFirst
<1>2. m = Message(m.task, m.event)
  BY <1>1, TakesFirstEffect DEF Messages, Message
<1>3. QueueTypes'
  <2>1. \A h \in Guis : \A k \in DOMAIN inbox'[h] : owner'[inbox'[h][k].task] = h
    BY <1>1, TakenKeeps DEF InboxFits, EventFits
  <2>2. QueueTypeOK'
    BY <2>1, <1>1 DEF QueueInv, QueueTypes, QueueTypeOK, TakesFirst
  <2> QED
    BY <2>2, <1>1, TakesFirstEffect DEF QueueInv, QueueTypes, TakesFirst
<1>4. HeldFits(g)'
  BY <1>1 DEF HeldFits
<1>5. ASSUME NEW u \in Tasks PROVE RowFits(u)'
  <2> SUFFICES ASSUME Alone(u)'
               PROVE  /\ ShowsStatus(u)'
                      /\ ShowsTicket(u)'
                      /\ (phase[u] # "ended" => (RowOf(u) # NoRow \/ gone[id[u]] = "all"))'
    BY DEF RowFits
  <2>1. Alone(u) /\ RowOf(u)' = RowOf(u)
    BY <1>1 DEF TakesFirst, Alone, Shared, RowOf
  <2>2. RowFits(u)
    BY DEF QueueInv
  <2>3. /\ (Pending(u) /\ ~Pending(u)')
              => m.task = u /\ (Live(u) => m.event = last[u])
        /\ (TicketHandled(u)' /\ ~TicketHandled(u)) => m = Message(u, "ticket")
    BY <1>1, <2>1, TakenWaits
  <2>4. ShowsStatus(u)'
    BY <1>1, <1>2, <2>1, <2>2, <2>3 DEF RowFits, ShowsStatus, Live, TakesFirst, Message
  <2>5. ShowsTicket(u)'
    <3>1. TicketHandled(u)' => TicketHandled(u)
      BY <1>1, <2>3 DEF TicketHandled, Message
    <3> QED
      BY <1>1, <2>1, <2>2, <3>1 DEF RowFits, ShowsTicket, Announced, TakesFirst
  <2> QED
    BY <2>1, <2>2, <2>4, <2>5, <1>1 DEF RowFits, TakesFirst
<1>6. ASSUME NEW i \in Ids PROVE StaysDeleted(i)'
  BY <1>1 DEF QueueInv, StaysDeleted, TakesFirst
<1> QED
  BY <1>1, <1>3, <1>4, <1>5, <1>6, TakenKeeps DEF QueueInv

-----------------------------------------------------------------------------
(* The row is written, or cannot be.                                       *)

(* The event in hand is the last of its transfer unless one waits.         *)
LEMMA HeldIsLast ==
    ASSUME QueueInv, NEW g \in Guis, held[g] # Nobody
    PROVE  /\ held[g] \in Held
           /\ owner[held[g].task] = g /\ Live(held[g].task) /\ id[held[g].task] \in Ids
           /\ \/ held[g].event = last[held[g].task]
              \/ \E k \in DOMAIN inbox[g] : inbox[g][k].task = held[g].task
<1>1. held[g] \in Held /\ EventFits(held[g].task, held[g].event, g, 0)
  BY DEF QueueInv, QueueTypes, HeldFits
<1>2. id[held[g].task] \in Ids
  BY <1>1 DEF EventFits, QueueInv, PhaseFits, Live, Held
<1> QED
  BY <1>1, <1>2 DEF EventFits, LastWaits, Message

(* Once the process has nothing in hand, no other transfer is affected.    *)
PutDown(g) ==
    /\ held[g] # Nobody
    /\ held' = [held EXCEPT ![g] = Nobody]
    /\ UNCHANGED <<open, inbox, id, owner, phase, last, gone, torn>>

LEMMA PutDownKeeps ==
    ASSUME QueueInv, NEW g \in Guis, PutDown(g)
    PROVE  /\ held'[g] = Nobody
           /\ held' \in [Guis -> {Nobody} \cup Held]
           /\ \A h \in Guis \ {g} : held'[h] = held[h]
           /\ \A h \in Guis : InboxFits(h)' /\ HeldFits(h)'
           /\ \A u \in Tasks : PhaseFits(u)'
           /\ \A u \in Tasks : (Alone(u) /\ u # held[g].task)
                 => /\ Pending(u)' = Pending(u)
                    /\ TicketHandled(u)' /\ dropped \subseteq dropped' => TicketHandled(u)
                    /\ (held'[owner[u]] # Nobody /\ held'[owner[u]].task = u)
                          => held'[owner[u]] = held[owner[u]]
<1> USE DEF PutDown
<1>1. /\ held'[g] = Nobody
      /\ held' \in [Guis -> {Nobody} \cup Held]
      /\ \A h \in Guis \ {g} : held'[h] = held[h]
  BY DEF QueueInv, QueueTypes
<1>2. ASSUME NEW h \in Guis, NEW t, NEW e, NEW k
      PROVE  EventFits(t, e, h, k) => EventFits(t, e, h, k)'
  BY DEF EventFits, LastWaits, Live, Message
<1>3. ASSUME NEW h \in Guis PROVE InboxFits(h)'
  BY <1>2 DEF QueueInv, InboxFits
<1>4. ASSUME NEW h \in Guis PROVE HeldFits(h)'
  <2>1. CASE h = g
    BY <2>1, <1>1 DEF HeldFits
  <2>2. CASE h # g
    BY <2>2, <1>1, <1>2 DEF QueueInv, HeldFits
  <2> QED
    BY <2>1, <2>2
<1>5. ASSUME NEW u \in Tasks PROVE PhaseFits(u)'
  BY DEF QueueInv, PhaseFits
<1>6. ASSUME NEW u \in Tasks, Alone(u), u # held[g].task
      PROVE  /\ Pending(u)' = Pending(u)
             /\ TicketHandled(u)' /\ dropped \subseteq dropped' => TicketHandled(u)
             /\ (held'[owner[u]] # Nobody /\ held'[owner[u]].task = u)
                   => held'[owner[u]] = held[owner[u]]
  <2>1. owner[u] \in Guis
    BY <1>6 DEF Alone, QueueInv, PhaseFits
  <2>2. (held'[owner[u]] # Nobody /\ held'[owner[u]].task = u)
          <=> (held[owner[u]] # Nobody /\ held[owner[u]].task = u)
    BY <2>1, <1>1, <1>6
  <2>3. (held'[owner[u]] # Nobody /\ held'[owner[u]].task = u)
          => held'[owner[u]] = held[owner[u]]
    BY <2>1, <1>1, <1>6
  <2>4. Pending(u)' = Pending(u)
    BY <2>2 DEF Pending
  <2>5. TicketHandled(u)' /\ dropped \subseteq dropped' => TicketHandled(u)
    BY <2>2, <2>3 DEF TicketHandled, Message
  <2> QED
    BY <2>3, <2>4, <2>5
<1> QED
  BY <1>1, <1>3, <1>4, <1>5, <1>6

LEMMA WritesKeeps ==
    ASSUME QueueInv, NEW g \in Guis, Writes(g)
    PROVE  QueueInv'
<1> DEFINE t == held[g].task
           r == held[g].row
<1>1. PutDown(g) /\ rows' = [rows EXCEPT ![id[t]] = r] /\ UNCHANGED dropped
  BY DEF Writes, PutDown, history
<1>2. /\ t \in Tasks /\ r \in Rows /\ id[t] \in Ids /\ Live(t) /\ owner[t] = g
      /\ \/ held[g].event = last[t]
         \/ \E k \in DOMAIN inbox[g] : inbox[g][k].task = t
  BY <1>1, HeldIsLast DEF PutDown, Held
<1>3. HeldFits(g) /\ held[g] # Nobody /\ held[g].event \in Events
  BY <1>1, HeldIsLast DEF QueueInv, PutDown, Held
<1>4. /\ rows'[id[t]] = r
      /\ \A i \in Ids \ {id[t]} : rows'[i] = rows[i]
  BY <1>1, <1>2 DEF QueueInv, QueueTypes, QueueTypeOK
<1>5. QueueTypes'
  BY <1>1, <1>2, PutDownKeeps DEF QueueInv, QueueTypes, QueueTypeOK, PutDown
<1>6. ASSUME NEW u \in Tasks PROVE RowFits(u)'
  <2> SUFFICES ASSUME Alone(u)'
               PROVE  /\ ShowsStatus(u)'
                      /\ ShowsTicket(u)'
                      /\ (phase[u] # "ended" => (RowOf(u) # NoRow \/ gone[id[u]] = "all"))'
    BY DEF RowFits
  <2>1. Alone(u) /\ id[u] \in Ids /\ id[u] # NoId
    BY <1>1, IdsAssumption DEF PutDown, Alone, Shared, QueueInv, PhaseFits
  <2>2. RowFits(u)
    BY DEF QueueInv
  <2>3. CASE u = t
    <3>1. RowOf(u)' = r /\ r # NoRow
      BY <2>1, <2>3, <1>1, <1>2, <1>4 DEF RowOf, PutDown, Rows, NoRow, Statuses
    <3>2. r.status = AfterEvent(held[g].event)
      BY <1>3 DEF HeldFits
    <3>3. r.status \in Final => phase[u] = "ended"
      BY <3>2, <2>3, <1>3, AfterEvents DEF HeldFits, EventFits
    <3>4. ShowsStatus(u)'
      <4>1. ~Pending(u)' => held[g].event = last[u]
        BY <2>3, <1>1, <1>2 DEF Pending, PutDown
      <4> QED
        BY <4>1, <3>1, <3>2, <3>3, <1>1 DEF ShowsStatus, PutDown
    <3>5. ShowsTicket(u)'
      <4> SUFFICES ASSUME Announced(u)', TicketHandled(u)'
                   PROVE  r.ticket
        BY <3>1, <2>3, <1>1, <1>2, PutDownKeeps DEF ShowsTicket, PutDown
      <4>1. CASE held[g].event = "ticket"
        BY <4>1, <1>3 DEF HeldFits
      <4>2. CASE held[g].event # "ticket"
        <5>1. TicketHandled(u) /\ Announced(u)
          BY <4>2, <2>3, <1>1, <1>2 DEF TicketHandled, Announced, PutDown, Message
        <5> QED
          BY <5>1, <2>1, <2>2, <2>3, <1>2, <1>3 DEF RowFits, ShowsTicket
      <4> QED
        BY <4>1, <4>2
    <3> QED
      BY <3>1, <3>4, <3>5
  <2>4. CASE u # t
    <3>1. id[u] # id[t]
      BY <2>1, <2>4, <1>2, IdsAssumption DEF Alone, Shared
    <3>2. RowOf(u)' = RowOf(u)
      BY <3>1, <2>1, <1>1, <1>4 DEF RowOf, PutDown
    <3>3. /\ Pending(u)' = Pending(u)
          /\ TicketHandled(u)' => TicketHandled(u)
          /\ (held'[owner[u]] # Nobody /\ held'[owner[u]].task = u)
                => held'[owner[u]] = held[owner[u]]
      BY <2>1, <2>4, <1>1, PutDownKeeps
    <3>4. ShowsStatus(u)'
      BY <3>2, <3>3, <2>1, <2>2, <1>1 DEF RowFits, ShowsStatus, PutDown, Live
    <3>5. ShowsTicket(u)'
      BY <3>2, <3>3, <2>1, <2>2, <1>1 DEF RowFits, ShowsTicket, Announced, PutDown
    <3> QED
      BY <3>2, <3>4, <3>5, <2>1, <2>2, <1>1 DEF RowFits, PutDown
  <2> QED
    BY <2>3, <2>4
<1>7. ASSUME NEW i \in Ids PROVE StaysDeleted(i)'
  <2> SUFFICES ASSUME gone[i] # "no", i \notin torn
               PROVE  rows'[i] = NoRow /\ \A h \in Guis : held'[h] # Nobody => id[held'[h].task] # i
    BY <1>1 DEF StaysDeleted, PutDown
  <2>1. rows[i] = NoRow /\ \A h \in Guis : held[h] # Nobody => id[held[h].task] # i
    BY DEF QueueInv, StaysDeleted
  <2> QED
    BY <2>1, <1>1, <1>3, <1>4, PutDownKeeps
<1> QED
  BY <1>1, <1>5, <1>6, <1>7, PutDownKeeps DEF QueueInv

LEMMA WriteFailsKeeps ==
    ASSUME QueueInv, NEW g \in Guis, WriteFails(g)
    PROVE  QueueInv'
<1> DEFINE t == held[g].task
<1>1. /\ PutDown(g) /\ UNCHANGED rows
      /\ dropped' = dropped \cup {Message(t, held[g].event)}
  BY DEF WriteFails, PutDown, Message
<1>2. /\ owner[t] = g
      /\ \/ held[g].event = last[t]
         \/ \E k \in DOMAIN inbox[g] : inbox[g][k].task = t
  BY <1>1, HeldIsLast DEF PutDown
<1>3. QueueTypes'
  BY <1>1, PutDownKeeps DEF QueueInv, QueueTypes, QueueTypeOK, PutDown
<1>4. ASSUME NEW u \in Tasks PROVE RowFits(u)'
  <2> SUFFICES ASSUME Alone(u)'
               PROVE  /\ ShowsStatus(u)'
                      /\ ShowsTicket(u)'
                      /\ (phase[u] # "ended" => (RowOf(u) # NoRow \/ gone[id[u]] = "all"))'
    BY DEF RowFits
  <2>1. Alone(u) /\ RowOf(u)' = RowOf(u)
    BY <1>1 DEF PutDown, Alone, Shared, RowOf
  <2>2. RowFits(u)
    BY DEF QueueInv
  <2>3. CASE u = t
    <3>1. ShowsStatus(u)'
      <4>1. (~Pending(u) \/ held[g].event = last[u]) \/ Pending(u)'
        BY <2>3, <1>1, <1>2 DEF Pending, PutDown
      <4> QED
        BY <4>1, <2>1, <2>2, <2>3, <1>1 DEF RowFits, ShowsStatus, PutDown, Live, Message
    <3>2. ShowsTicket(u)'
      <4> SUFFICES ASSUME Announced(u)', TicketHandled(u)'
                   PROVE  RowOf(u) # NoRow => RowOf(u).ticket
        BY <2>1, <2>3, <1>1, <1>2, PutDownKeeps DEF ShowsTicket, PutDown
      <4>1. held[g].event # "ticket"
        BY <2>3, <1>1 DEF TicketHandled, Message
      <4>2. TicketHandled(u) /\ Announced(u)
        BY <4>1, <2>3, <1>1, <1>2 DEF TicketHandled, Announced, PutDown, Message
      <4> QED
        BY <4>2, <2>1, <2>2 DEF RowFits, ShowsTicket
    <3> QED
      BY <3>1, <3>2, <2>1, <2>2, <1>1 DEF RowFits, PutDown
  <2>4. CASE u # t
    <3>1. /\ Pending(u)' = Pending(u)
          /\ TicketHandled(u)' => TicketHandled(u)
          /\ (held'[owner[u]] # Nobody /\ held'[owner[u]].task = u)
                => held'[owner[u]] = held[owner[u]]
      BY <2>1, <2>4, <1>1, PutDownKeeps
    <3>2. ShowsStatus(u)'
      BY <3>1, <2>1, <2>2, <1>1 DEF RowFits, ShowsStatus, PutDown, Live, Message
    <3>3. ShowsTicket(u)'
      BY <3>1, <2>1, <2>2, <1>1 DEF RowFits, ShowsTicket, Announced, PutDown
    <3> QED
      BY <3>2, <3>3, <2>1, <2>2, <1>1 DEF RowFits, PutDown
  <2> QED
    BY <2>3, <2>4
<1>5. ASSUME NEW i \in Ids PROVE StaysDeleted(i)'
  <2> SUFFICES ASSUME gone[i] # "no", i \notin torn
               PROVE  rows[i] = NoRow /\ \A h \in Guis : held'[h] # Nobody => id[held'[h].task] # i
    BY <1>1 DEF StaysDeleted, PutDown
  <2> QED
    BY <1>1, PutDownKeeps DEF QueueInv, StaysDeleted
<1> QED
  BY <1>1, <1>3, <1>4, <1>5, PutDownKeeps DEF QueueInv

-----------------------------------------------------------------------------
(* A transfer is started: it has an id of its own, or shares it.           *)
LEMMA StartTaskKeeps ==
    ASSUME QueueInv, NEW t \in Tasks, NEW g \in Windows[t], StartTask(t, g)
    PROVE  QueueInv'
<1>1. /\ g \in Guis /\ phase[t] = "new"
      /\ owner' = [owner EXCEPT ![t] = g]
      /\ UNCHANGED <<open, inbox, held, last, dropped>>
  BY TasksAssumption DEF StartTask
<1>2. \A u \in Tasks \ {t} : owner'[u] = owner[u]
  BY <1>1 DEF QueueInv, QueueTypes, QueueTypeOK
<1>3. owner'[t] = g
  BY <1>1 DEF QueueInv, QueueTypes, QueueTypeOK
<1>4. /\ \A u \in Tasks : Live(u) => u # t
      /\ id[t] = NoId /\ last[t] = "none"
  BY <1>1 DEF QueueInv, PhaseFits, Live
<1>5. /\ \A h \in Guis : \A k \in DOMAIN inbox[h] :
            inbox[h][k].task \in Tasks /\ inbox[h][k].task # t
      /\ \A h \in Guis : held[h] # Nobody => held[h].task \in Tasks /\ held[h].task # t
  <2>1. ASSUME NEW h \in Guis, NEW k \in DOMAIN inbox[h]
        PROVE  inbox[h][k].task \in Tasks /\ inbox[h][k].task # t
    <3>1. inbox[h] \in Seq(Messages)
      BY DEF QueueInv, QueueTypes
    <3>2. inbox[h][k] \in Messages
      BY <3>1
    <3> QED
      BY <3>2, <1>4 DEF Messages, QueueInv, InboxFits, EventFits
  <2>2. ASSUME NEW h \in Guis, held[h] # Nobody
        PROVE  held[h].task \in Tasks /\ held[h].task # t
    BY <2>2, <1>4, HeldIsLast DEF Held
  <2> QED
    BY <2>1, <2>2
(* Whichever way the insertion goes: i is the id, if any.                  *)
<1>6. ASSUME NEW i \in Ids,
             \A u \in Tasks \ {t} : id'[u] = id[u] /\ phase'[u] = phase[u],
             \A j \in Ids \ {i} : rows'[j] = rows[j] /\ gone'[j] = gone[j]
                                  /\ (j \in torn' <=> j \in torn),
             \/ /\ id'[t] = i /\ phase'[t] = "spawned"
                /\ rows'[i] = FirstRow(t) /\ gone'[i] = "no"
             \/ /\ id'[t] = NoId /\ phase'[t] = "dead"
                /\ UNCHANGED <<rows, gone, torn>>,
             QueueTypes'
      PROVE  QueueInv'
  <2>1. ASSUME NEW u \in Tasks, u # t, NEW e, NEW h \in Guis, NEW k
        PROVE  EventFits(u, e, h, k) => EventFits(u, e, h, k)'
    BY <2>1, <1>1, <1>2, <1>6 DEF EventFits, LastWaits, Live, Message
  <2>2. ASSUME NEW h \in Guis PROVE InboxFits(h)'
    BY <2>1, <1>1, <1>5 DEF QueueInv, InboxFits
  <2>3. ASSUME NEW h \in Guis PROVE HeldFits(h)'
    BY <2>1, <1>1, <1>5 DEF QueueInv, HeldFits
  <2>4. ASSUME NEW u \in Tasks PROVE PhaseFits(u)'
    BY <1>1, <1>2, <1>3, <1>4, <1>6 DEF QueueInv, PhaseFits
  <2>5. ASSUME NEW u \in Tasks, u # t PROVE RowFits(u)'
    <3> SUFFICES ASSUME Alone(u)' PROVE RowFits(u)'
      BY DEF RowFits
    <3>1. Alone(u)
      <4> SUFFICES ASSUME Shared(u) PROVE Shared(u)'
        BY <2>5, <1>6 DEF Alone
      <4>1. PICK v \in Tasks \ {u} : id[v] # NoId /\ id[v] = id[u]
        BY DEF Shared
      <4>2. v # t
        BY <4>1, <1>4
      <4> QED
        BY <4>1, <4>2, <2>5, <1>6 DEF Shared
    <3>2. RowFits(u)
      BY DEF QueueInv
    <3>3. /\ RowOf(u)' = RowOf(u)
          /\ id[u] \in Ids /\ gone'[id[u]] = gone[id[u]]
      <4>1. id[u] \in Ids /\ id'[u] = id[u]
        BY <3>1, <2>5, <1>6 DEF Alone, QueueInv, PhaseFits
      <4>2. id[u] = i => id'[t] # i
        BY <4>1, <2>5, IdsAssumption DEF Alone, Shared
      <4> QED
        BY <4>1, <4>2, <1>6, IdsAssumption DEF RowOf
    <3>4. owner'[u] = owner[u] /\ phase'[u] = phase[u] /\ id'[u] = id[u]
      BY <2>5, <1>2, <1>6
    <3>5. ShowsStatus(u)'
      BY <3>1, <3>2, <3>3, <3>4, <1>1 DEF RowFits, ShowsStatus, Live, Pending, Message
    <3>6. ShowsTicket(u)'
      BY <3>1, <3>2, <3>3, <3>4, <1>1
         DEF RowFits, ShowsTicket, Announced, TicketHandled, Message
    <3> QED
      BY <3>1, <3>2, <3>3, <3>4, <3>5, <3>6 DEF RowFits
  <2>6. RowFits(t)'
    <3> SUFFICES ASSUME Alone(t)'
                 PROVE  ShowsStatus(t)' /\ ShowsTicket(t)' /\ RowOf(t)' # NoRow
      BY DEF RowFits
    <3>1. phase'[t] = "spawned" /\ id'[t] = i /\ rows'[i] = FirstRow(t)
      BY <1>6 DEF Alone
    <3>2. RowOf(t)' = FirstRow(t)
      BY <3>1, IdsAssumption DEF RowOf
    <3>3. FirstRow(t).status = "preparing" /\ FirstRow(t) # NoRow
      BY DEF FirstRow, NoRow
    <3>4. ShowsStatus(t)'
      BY <3>1, <3>2, <3>3 DEF ShowsStatus, Final, Live
    <3>5. ShowsTicket(t)'
      BY <3>1, <1>1, <1>4 DEF ShowsTicket, Announced
    <3> QED
      BY <3>2, <3>3, <3>4, <3>5
  <2>7. ASSUME NEW j \in Ids PROVE StaysDeleted(j)'
    <3> SUFFICES ASSUME gone'[j] # "no", j \notin torn'
                 PROVE  rows'[j] = NoRow /\ \A h \in Guis : held[h] # Nobody => id'[held[h].task] # j
      BY <1>1 DEF StaysDeleted
    <3>1. gone[j] # "no" /\ j \notin torn /\ rows'[j] = rows[j]
      BY <1>6
    <3>2. rows[j] = NoRow /\ \A h \in Guis : held[h] # Nobody => id[held[h].task] # j
      BY <3>1 DEF QueueInv, StaysDeleted
    <3> QED
      BY <3>1, <3>2, <1>5, <1>6
  <2> QED
    BY <2>2, <2>3, <2>4, <2>5, <2>6, <2>7, <1>6 DEF QueueInv
<1>7. PICK i \in Ids \ used[g] : Inserts(t, i) \/ InsertFails(t)
  BY DEF StartTask
<1>8. /\ owner' \in [Tasks -> Guis \cup {"none"}]
      /\ \A h \in Guis : \A k \in DOMAIN inbox'[h] : owner'[inbox'[h][k].task] = h
  BY <1>1, <1>2, <1>5 DEF QueueInv, QueueTypes, QueueTypeOK
<1>9. CASE Inserts(t, i)
  <2> USE <1>9 DEF Inserts
  <2>1. FirstRow(t) \in Rows
    BY DEF FirstRow, Rows, Statuses
  <2>2. QueueTypes'
    BY <1>1, <1>8, <2>1 DEF QueueInv, QueueTypes, QueueTypeOK
  <2> QED
    BY <2>2, <1>6 DEF QueueInv, QueueTypes, QueueTypeOK
<1>10. CASE InsertFails(t)
  <2> USE <1>10 DEF InsertFails
  <2>1. QueueTypes'
    BY <1>1, <1>8 DEF QueueInv, QueueTypes, QueueTypeOK
  <2>2. /\ \A u \in Tasks \ {t} : id'[u] = id[u] /\ phase'[u] = phase[u]
        /\ phase'[t] = "dead" /\ id'[t] = NoId
        /\ UNCHANGED <<rows, gone, torn>>
    BY <1>4 DEF QueueInv, QueueTypes, QueueTypeOK
  <2> QED
    BY <2>1, <2>2, <1>6
<1> QED
  BY <1>7, <1>9, <1>10

-----------------------------------------------------------------------------
(* History is deleted: all of it, or what has ended.                       *)
LEMMA DeletesKeeps ==
    ASSUME QueueInv, NEW g \in Guis, NEW ids \in SUBSET Ids, NEW how \in {"completed", "all"},
           how = "completed" => \A i \in ids : rows[i] # NoRow /\ rows[i].status \in Final,
           Deletes(g, ids, how)
    PROVE  QueueInv'
<1>1. /\ rows' = [i \in Ids |-> IF i \in ids THEN NoRow ELSE rows[i]]
      /\ gone' = [i \in Ids |-> IF i \in ids THEN how ELSE gone[i]]
      /\ torn' = torn \cup {i \in ids : \E h \in Guis : /\ held[h] # Nobody
                                                        /\ id[held[h].task] = i}
      /\ UNCHANGED <<open, used, inbox, held, id, owner, phase, last, dropped>>
  BY DEF Deletes, processVars
<1>2. QueueTypes'
  BY <1>1 DEF QueueInv, QueueTypes, QueueTypeOK
<1>3. ASSUME NEW t, NEW e, NEW h, NEW k PROVE EventFits(t, e, h, k) => EventFits(t, e, h, k)'
  BY <1>1 DEF EventFits, LastWaits, Live, Message
<1>4. ASSUME NEW h \in Guis PROVE InboxFits(h)' /\ HeldFits(h)'
  BY <1>1, <1>3 DEF QueueInv, InboxFits, HeldFits
<1>5. ASSUME NEW u \in Tasks PROVE PhaseFits(u)'
  BY <1>1 DEF QueueInv, PhaseFits
<1>6. ASSUME NEW u \in Tasks PROVE RowFits(u)'
  <2> SUFFICES ASSUME Alone(u)' PROVE RowFits(u)'
    BY DEF RowFits
  <2>1. Alone(u) /\ id[u] \in Ids
    BY <1>1 DEF Alone, Shared, QueueInv, PhaseFits
  <2>2. RowFits(u)
    BY DEF QueueInv
  <2>3. RowOf(u) = rows[id[u]] /\ RowOf(u)' = IF id[u] \in ids THEN NoRow ELSE RowOf(u)
    BY <2>1, <1>1, IdsAssumption DEF RowOf
  <2>4. ShowsStatus(u)'
    BY <2>1, <2>2, <2>3, <1>1 DEF RowFits, ShowsStatus, Live, Pending
  <2>5. ShowsTicket(u)'
    BY <2>1, <2>2, <2>3, <1>1 DEF RowFits, ShowsTicket, Announced, TicketHandled, Message
  <2>6. phase[u] # "ended" => (RowOf(u)' # NoRow \/ gone'[id[u]] = "all")
    BY <2>1, <2>2, <2>3, <1>1 DEF RowFits, ShowsStatus
  <2> QED
    BY <2>1, <2>4, <2>5, <2>6, <1>1 DEF RowFits
<1>7. ASSUME NEW i \in Ids PROVE StaysDeleted(i)'
  BY <1>1 DEF QueueInv, StaysDeleted
<1> QED
  BY <1>2, <1>4, <1>5, <1>6, <1>7 DEF QueueInv

-----------------------------------------------------------------------------
(* A process is closed, with what it has in hand and its transfers.        *)
LEMMA CloseGuiKeeps ==
    ASSUME QueueInv, NEW g \in Guis, CloseGui(g)
    PROVE  QueueInv'
<1>1. /\ open' = open \ {g}
      /\ inbox' = [inbox EXCEPT ![g] = <<>>]
      /\ held' = [held EXCEPT ![g] = Nobody]
      /\ phase' = [t \in Tasks |-> IF owner[t] = g /\ phase[t] # "new" THEN "dead"
                                   ELSE phase[t]]
      /\ UNCHANGED <<rows, id, owner, last, dropped, gone, torn>>
  BY DEF CloseGui, history
<1>2. /\ inbox'[g] = <<>> /\ held'[g] = Nobody
      /\ \A h \in Guis \ {g} : inbox'[h] = inbox[h] /\ held'[h] = held[h]
  BY <1>1 DEF QueueInv, QueueTypes
<1>3. QueueTypes'
  <2>1. <<>> \in Seq(Messages)
    OBVIOUS
  <2>2. inbox' \in [Guis -> Seq(Messages)] /\ held' \in [Guis -> {Nobody} \cup Held]
    BY <2>1, <1>1 DEF QueueInv, QueueTypes
  <2>3. \A h \in Guis : \A k \in DOMAIN inbox'[h] : owner'[inbox'[h][k].task] = h
    BY <1>1, <1>2 DEF QueueInv, QueueTypes, QueueTypeOK
  <2>4. phase' \in [Tasks -> {"new", "spawned", "running", "ticketed", "ended", "dead"}]
    BY <1>1 DEF QueueInv, QueueTypes, QueueTypeOK
  <2> QED
    BY <2>2, <2>3, <2>4, <1>1 DEF QueueInv, QueueTypes, QueueTypeOK
<1>4. ASSUME NEW t \in Tasks, NEW e, NEW h \in Guis \ {g}, NEW k
      PROVE  EventFits(t, e, h, k) => EventFits(t, e, h, k)'
  BY <1>1, <1>2 DEF EventFits, LastWaits, Live, Message
<1>5. ASSUME NEW h \in Guis PROVE InboxFits(h)'
  <2>1. CASE h = g
    BY <2>1, <1>2 DEF InboxFits
  <2>2. CASE h # g
    <3>1. inbox[h] \in Seq(Messages) /\ inbox'[h] = inbox[h]
      BY <2>2, <1>2 DEF QueueInv, QueueTypes
    <3>2. \A k \in DOMAIN inbox[h] : inbox[h][k] \in Messages
      BY <3>1
    <3> QED
      BY <3>1, <3>2, <2>2, <1>4 DEF QueueInv, InboxFits, Messages
  <2> QED
    BY <2>1, <2>2
<1>6. ASSUME NEW h \in Guis PROVE HeldFits(h)'
  <2> SUFFICES ASSUME held'[h] # Nobody PROVE HeldFits(h)'
    BY DEF HeldFits
  <2>1. h # g /\ held'[h] = held[h] /\ held[h].task \in Tasks
    BY <1>2, HeldIsLast DEF Held
  <2> QED
    BY <2>1, <1>4 DEF QueueInv, HeldFits
<1>7. ASSUME NEW u \in Tasks PROVE PhaseFits(u)'
  BY <1>1 DEF QueueInv, PhaseFits
<1>8. ASSUME NEW u \in Tasks PROVE RowFits(u)'
  <2> SUFFICES ASSUME Alone(u)' PROVE RowFits(u)'
    BY DEF RowFits
  <2>1. owner[u] # g /\ phase'[u] = phase[u] /\ Alone(u)
    BY <1>1 DEF Alone, Shared
  <2>2. owner[u] \in Guis \ {g}
    BY <2>1 DEF Alone, QueueInv, PhaseFits
  <2>3. inbox'[owner[u]] = inbox[owner[u]] /\ held'[owner[u]] = held[owner[u]]
    BY <2>2, <1>2
  <2>4. RowFits(u) /\ RowOf(u)' = RowOf(u)
    BY <1>1 DEF QueueInv, RowOf
  <2>5. ShowsStatus(u)'
    BY <2>1, <2>3, <2>4, <1>1 DEF RowFits, ShowsStatus, Live, Pending, Message
  <2>6. ShowsTicket(u)'
    BY <2>1, <2>3, <2>4, <1>1 DEF RowFits, ShowsTicket, Announced, TicketHandled, Message
  <2> QED
    BY <2>1, <2>4, <2>5, <2>6, <1>1 DEF RowFits
<1>9. ASSUME NEW i \in Ids PROVE StaysDeleted(i)'
  BY <1>1, <1>2 DEF QueueInv, StaysDeleted
<1> QED
  BY <1>3, <1>5, <1>6, <1>7, <1>8, <1>9 DEF QueueInv

(* What no part of the invariant looks at.                                 *)
LEMMA IdlingKeeps ==
    ASSUME QueueInv, open' \subseteq Guis,
           UNCHANGED <<rows, inbox, held, id, owner, phase, last, dropped, gone, torn>>
    PROVE  QueueInv'
<1>1. QueueTypes'
  BY DEF QueueInv, QueueTypes, QueueTypeOK
<1>2. ASSUME NEW t, NEW e, NEW h, NEW k PROVE EventFits(t, e, h, k)' <=> EventFits(t, e, h, k)
  BY DEF EventFits, LastWaits, Live, Message
<1>3. ASSUME NEW h \in Guis PROVE InboxFits(h)' /\ HeldFits(h)'
  BY <1>2 DEF QueueInv, InboxFits, HeldFits
<1>4. ASSUME NEW u \in Tasks PROVE PhaseFits(u)' /\ RowFits(u)'
  <2>1. PhaseFits(u) /\ RowFits(u)
    BY DEF QueueInv
  <2> QED
    BY <2>1 DEF PhaseFits, RowFits, Alone, Shared, ShowsStatus, RowOf, Live, Pending,
                ShowsTicket, Announced, TicketHandled, Message
<1>5. ASSUME NEW i \in Ids PROVE StaysDeleted(i)'
  BY DEF QueueInv, StaysDeleted
<1> QED
  BY <1>1, <1>3, <1>4, <1>5 DEF QueueInv

-----------------------------------------------------------------------------
LEMMA QueueNextKeeps == QueueInv /\ [QueueNext]_queueVars => QueueInv'
<1> SUFFICES ASSUME QueueInv, [QueueNext]_queueVars PROVE QueueInv'
  OBVIOUS
<1>1. ASSUME NEW t \in Tasks, NEW g \in Windows[t], StartTask(t, g) PROVE QueueInv'
  BY <1>1, StartTaskKeeps
<1>2. ASSUME NEW t \in Tasks, TaskStarted(t) PROVE QueueInv'
  <2>1. PhaseAfter("started") = "running" /\ "started" \in Events
    BY DEF PhaseAfter, Events, Final
  <2> QED
    BY <1>2, <2>1, EmitsKeeps DEF TaskStarted
<1>3. ASSUME NEW t \in Tasks, TicketReady(t) PROVE QueueInv'
  <2>1. PhaseAfter("ticket") = "ticketed" /\ "ticket" \in Events
    BY DEF PhaseAfter, Events, Final
  <2> QED
    BY <1>3, <2>1, EmitsKeeps DEF TicketReady
<1>4. ASSUME NEW t \in Tasks, TaskCompleted(t) PROVE QueueInv'
  <2>1. /\ phase[t] \in {"spawned", "running", "ticketed"}
        /\ t \in Sends => phase[t] = "ticketed"
        /\ phase' = [phase EXCEPT ![t] = "ended"]
        /\ Emits(t, "completed")
    BY <1>4, TasksAssumption DEF TaskCompleted
  <2>2. PhaseAfter("completed") = "ended" /\ "completed" \in Events
    BY DEF PhaseAfter, Events, Final
  <2> QED
    BY <2>1, <2>2, EmitsKeeps
<1>5. ASSUME NEW t \in Tasks, TaskFailed(t) PROVE QueueInv'
  <2>1. /\ phase[t] \in {"spawned", "running", "ticketed"}
        /\ phase' = [phase EXCEPT ![t] = "ended"]
        /\ Emits(t, "failed")
    BY <1>5 DEF TaskFailed
  <2>2. PhaseAfter("failed") = "ended" /\ "failed" \in Events
    BY DEF PhaseAfter, Events, Final
  <2> QED
    BY <2>1, <2>2, EmitsKeeps
<1>6. ASSUME NEW g \in Guis, Reads(g) PROVE QueueInv'
  BY <1>6, ReadsKeeps
<1>7. ASSUME NEW g \in Guis, Writes(g) PROVE QueueInv'
  BY <1>7, WritesKeeps
<1>8. ASSUME NEW g \in Guis, ReadFails(g) PROVE QueueInv'
  BY <1>8, ReadFailsKeeps
<1>9. ASSUME NEW g \in Guis, WriteFails(g) PROVE QueueInv'
  BY <1>9, WriteFailsKeeps
<1>10. ASSUME NEW g \in Guis, ClearCompleted(g) PROVE QueueInv'
  BY <1>10, DeletesKeeps DEF ClearCompleted, Kept
<1>11. ASSUME NEW g \in Guis, ClearAll(g) PROVE QueueInv'
  BY <1>11, DeletesKeeps DEF ClearAll, Kept
<1>12. ASSUME NEW g \in Guis, CloseGui(g) PROVE QueueInv'
  BY <1>12, CloseGuiKeeps
<1>13. ASSUME NEW g \in Guis, OpenGui(g) PROVE QueueInv'
  BY <1>13, IdlingKeeps DEF OpenGui, history, QueueInv, QueueTypes, QueueTypeOK
<1>14. CASE UNCHANGED queueVars
  BY <1>14, IdlingKeeps DEF queueVars, processVars, history, QueueInv, QueueTypes, QueueTypeOK
<1> QED
  BY <1>1, <1>2, <1>3, <1>4, <1>5, <1>6, <1>7, <1>8, <1>9, <1>10, <1>11, <1>12, <1>13, <1>14
     DEF QueueNext

(* QueueInv holds always: the table, the events and what a process has in  *)
(* hand agree about every transfer.                                        *)
THEOREM QueueInvariance == QueueSpec => []QueueInv
<1> QED
  BY QueueInitially, QueueNextKeeps, PTL DEF QueueSpec

(* apply_background_event: once the events of a transfer are handled, its  *)
(* row shows the last of them and the ticket, unless these were lost.      *)
THEOREM RowsTell == QueueSpec => []RowTellsOutcome
<1>1. QueueInv => RowTellsOutcome
  <2> SUFFICES ASSUME QueueInv, NEW t \in Tasks, Live(t), ~Shared(t), ~Pending(t),
                      RowOf(t) # NoRow
               PROVE  /\ Message(t, last[t]) \notin dropped
                            => RowOf(t).status = AfterEvent(last[t])
                      /\ (Announced(t) /\ Message(t, "ticket") \notin dropped)
                            => RowOf(t).ticket
    BY DEF RowTellsOutcome, Message, Announced
  <2>1. ShowsStatus(t) /\ ShowsTicket(t)
    BY DEF QueueInv, RowFits, Alone, Live
  <2>2. Message(t, "ticket") \notin dropped => TicketHandled(t)
    BY DEF TicketHandled, Pending, Message
  <2> QED
    BY <2>1, <2>2 DEF ShowsStatus, ShowsTicket
<1> QED
  BY <1>1, QueueInvariance, PTL

(* clear_completed, clear_all: a deleted row stays deleted unless the      *)
(* deletion met an update, and a clean-up spares what has not ended.       *)
THEOREM RowsStay == QueueSpec => []RowsAreKept
<1>1. QueueInv => RowsAreKept
  <2> SUFFICES ASSUME QueueInv PROVE RowsAreKept
    OBVIOUS
  <2>1. ASSUME NEW t \in Tasks, Live(t), phase[t] # "ended", ~Shared(t)
        PROVE  RowOf(t) # NoRow \/ gone[id[t]] = "all"
    BY <2>1 DEF QueueInv, RowFits, Alone, Live
  <2> QED
    BY <2>1 DEF RowsAreKept, QueueInv, QueueTypes, StaysDeleted
<1> QED
  BY <1>1, QueueInvariance, PTL

-----------------------------------------------------------------------------
(***************************************************************************)
(* ConfigFile, for any profiles, tickets, commands and names.              *)
(***************************************************************************)

(* A profile of kind k has the fields of its kind.                         *)
Shaped(k, p) == DOMAIN p = Fields(k) /\ p.kind = k
Completed(p) == Valid(p) \/ Malformed(p)

LEMMA FieldsOfKinds ==
    /\ \A k \in Kinds : "kind" \in Fields(k)
    /\ Fields("s3") = {"kind", "provider", "endpoint", "region", "bucket",
                       "access_key_id", "secret_access_key", "prefix"}
    /\ Fields("r2") = {"kind", "account_id", "bucket", "access_key_id",
                       "secret_access_key", "prefix"}
    /\ Fields("azure") = {"kind", "auth", "account_name", "container", "endpoint",
                          "account_key", "sas_token", "prefix"}
    /\ Fields("webdav") = {"kind", "url", "username", "password", "remote_dir"}
    /\ Fields("ftp") = {"kind", "url", "username", "password", "remote_dir"}
    /\ Fields("sftp") = {"kind", "auth", "host", "username", "password",
                         "private_key_path", "remote_dir"}
    /\ Fields("tls") = {"kind", "url"}
  BY DEF Kinds, Fields, EmptyS3, EmptyR2, EmptyAzure, EmptyWebDav, EmptyFtp, EmptySftp

LEMMA EmptyProfiles ==
    /\ Shaped("s3", EmptyS3)
    /\ Shaped("r2", EmptyR2)
    /\ Shaped("azure", EmptyAzure)
    /\ Shaped("webdav", EmptyWebDav)
    /\ Shaped("ftp", EmptyFtp)
    /\ Shaped("sftp", EmptySftp)
<1>1. Shaped("s3", EmptyS3)
  BY FieldsOfKinds DEF Shaped, EmptyS3
<1>2. Shaped("r2", EmptyR2)
  BY FieldsOfKinds DEF Shaped, EmptyR2
<1>3. Shaped("azure", EmptyAzure)
  BY FieldsOfKinds DEF Shaped, EmptyAzure
<1>4. Shaped("webdav", EmptyWebDav)
  BY FieldsOfKinds DEF Shaped, EmptyWebDav
<1>5. Shaped("ftp", EmptyFtp)
  BY FieldsOfKinds DEF Shaped, EmptyFtp, EmptyWebDav
<1>6. Shaped("sftp", EmptySftp)
  BY FieldsOfKinds DEF Shaped, EmptySftp
<1> QED
  BY <1>1, <1>2, <1>3, <1>4, <1>5, <1>6

LEMMA PromptedFacts ==
    ASSUME NEW k \in Kinds, NEW p, Shaped(k, p), NEW asked, "kind" \notin asked,
           asked \subseteq Fields(k), NEW r \in Prompted(p, asked)
    PROVE  /\ Shaped(k, r)
           /\ \A f \in asked : r[f] # Blank
           /\ \A f \in Fields(k) \ asked : r[f] = p[f]
           /\ \A f \in Fields(k) : r[f] \in {p[f], Own, Bad}
<1> DEFINE blank == Lacking(p, asked)
<1>1. PICK bad \in SUBSET (blank \cap Parsed) :
          r = [f \in DOMAIN p |-> IF f \in bad THEN Bad
                                  ELSE IF f \in blank THEN Own ELSE p[f]]
  BY DEF Prompted
<1>2. DOMAIN r = Fields(k)
  BY <1>1 DEF Shaped
<1>3. \A f \in Fields(k) : r[f] = IF f \in bad THEN Bad ELSE IF f \in blank THEN Own ELSE p[f]
  BY <1>1 DEF Shaped
<1>4. blank \subseteq asked /\ bad \subseteq asked
  BY DEF Lacking
<1>5. r.kind = k /\ "kind" \in Fields(k)
  BY <1>3, <1>4, FieldsOfKinds DEF Shaped
<1>6. \A f \in asked : r[f] # Blank
  BY <1>3 DEF Lacking, Blank, Bad, Own
<1> QED
  BY <1>2, <1>3, <1>4, <1>5, <1>6 DEF Shaped

LEMMA DefaultsFacts ==
    ASSUME NEW k \in Kinds, NEW p, Shaped(k, p), NEW fields
    PROVE  /\ Shaped(k, Defaults(p, fields))
           /\ \A f \in Fields(k) : Defaults(p, fields)[f] \in {p[f], Own}
<1>1. k # Blank
  BY DEF Kinds, Blank
<1> QED
  BY <1>1, FieldsOfKinds DEF Shaped, Defaults

(* What a load may yield: a profile that is ready can be used, and none is *)
(* refused that is not malformed.                                          *)
KeyOf(p) == IF p # NoProfile /\ p.auth = "private-key" /\ p.private_key_path \in Tickets
            THEN p.private_key_path ELSE "none"

Usable(k, p) == Shaped(k, p) /\ Valid(p) /\ ~IsLegacy(p)

OutcomeFits(k, p, o) ==
    /\ o.result # "incomplete"
    /\ o.save \in BOOLEAN
    /\ o.result = "ready" =>
          /\ Usable(k, o.profile)
          /\ k = "sftp" => KeyOf(o.profile) \in {"none", KeyOf(p)}

Fit(k, p, r) ==
    /\ Shaped(k, r)
    /\ Completed(r)
    /\ k = "s3" => ~IsLegacy(r)
    /\ k = "sftp" => KeyOf(r) \in {"none", KeyOf(p)}

LEMMA OutcomesFit ==
    ASSUME NEW k \in Kinds, NEW p, NEW q, NEW missing, NEW prompted, NEW terminal,
           missing = {} => Fit(k, p, q),
           \A r \in prompted : Fit(k, p, r),
           NEW o \in Outcomes(p, q, missing, prompted, terminal)
    PROVE  OutcomeFits(k, p, o)
<1> DEFINE Checked(r) == Outcome(IF Valid(r) THEN "ready"
                                 ELSE IF Malformed(r) THEN "failed"
                                 ELSE "incomplete", p, r)
<1>1. ASSUME NEW r, Fit(k, p, r) PROVE OutcomeFits(k, p, Checked(r))
  BY <1>1 DEF Fit, OutcomeFits, Completed, Usable, Shaped, IsLegacy, Outcome
<1>2. OutcomeFits(k, p, Outcome("failed", p, q))
  BY DEF OutcomeFits, Outcome
<1>3. \/ missing = {} /\ o = Checked(q)
      \/ o = Outcome("failed", p, q)
      \/ \E r \in prompted : o = Checked(r)
  BY DEF Outcomes
<1> HIDE DEF Checked
<1> QED
  BY <1>1, <1>2, <1>3

LEMMA LoadsS3 ==
    ASSUME NEW p, p = NoProfile \/ Shaped("s3", p), NEW legacy, NEW terminal,
           NEW o \in LoadS3(p, legacy, terminal)
    PROVE  OutcomeFits("s3", p, o)
<1> DEFINE found == IF p = NoProfile THEN EmptyS3 ELSE p
           q == Defaults(found, {"provider", "region", "prefix"})
           asked == {"endpoint", "bucket", "access_key_id", "secret_access_key"}
<1>0. "s3" \in Kinds
  BY DEF Kinds
<1>1. Shaped("s3", found) /\ Shaped("s3", q) /\ q.provider \in {found.provider, Own}
  BY <1>0, EmptyProfiles, DefaultsFacts, FieldsOfKinds
<1>2. ASSUME NEW r, Shaped("s3", r), \A f \in asked : r[f] # Blank, r.provider = q.provider,
             ~IsLegacy(found)
      PROVE  Fit("s3", p, r)
  <2>1. ~IsLegacy(r)
    BY <1>1, <1>2 DEF IsLegacy, Shaped, Legacy, Own
  <2> QED
    BY <1>2, <2>1, FieldsOfKinds DEF Fit, Shaped, Completed, Valid, ValidS3, Malformed, Lacking
<1>3. ASSUME ~IsLegacy(found), MissingS3(q) = {} PROVE Fit("s3", p, q)
  BY <1>1, <1>2, <1>3 DEF MissingS3, Lacking
<1>4. ASSUME ~IsLegacy(found), NEW r \in PromptS3(q) PROVE Fit("s3", p, r)
  <2>1. Shaped("s3", r) /\ \A f \in asked : r[f] # Blank
    BY <1>0, <1>1, PromptedFacts, FieldsOfKinds DEF PromptS3
  <2>2. r.provider = q.provider
    <3>1. "provider" \in Fields("s3") \ asked
      BY FieldsOfKinds
    <3> QED
      BY <3>1, <1>0, <1>1, PromptedFacts, FieldsOfKinds DEF PromptS3
  <2> QED
    BY <2>1, <2>2, <1>2, <1>4
<1>5. OutcomeFits("s3", p, Outcome("failed", p, found))
  BY DEF OutcomeFits, Outcome
<1>6. \/ o = Outcome("failed", p, found)
      \/ ~IsLegacy(found) /\ o \in Outcomes(p, q, MissingS3(q), PromptS3(q), terminal)
  BY DEF LoadS3
<1> QED
  BY <1>0, <1>3, <1>4, <1>5, <1>6, OutcomesFit

LEMMA LoadsR2 ==
    ASSUME NEW p, p = NoProfile \/ Shaped("r2", p), NEW terminal,
           NEW o \in LoadR2(p, terminal)
    PROVE  OutcomeFits("r2", p, o)
<1> DEFINE q == Defaults(IF p = NoProfile THEN EmptyR2 ELSE p, {"prefix"})
           asked == {"account_id", "bucket", "access_key_id", "secret_access_key"}
<1>0. "r2" \in Kinds
  BY DEF Kinds
<1>1. Shaped("r2", q)
  BY <1>0, EmptyProfiles, DefaultsFacts
<1>2. ASSUME NEW r, Shaped("r2", r), \A f \in asked : r[f] # Blank
      PROVE  Fit("r2", p, r)
  BY <1>2, FieldsOfKinds DEF Fit, Shaped, Completed, Valid, ValidR2, Malformed, Lacking
<1>3. MissingR2(q) = {} => Fit("r2", p, q)
  BY <1>1, <1>2 DEF MissingR2, Lacking
<1>4. ASSUME NEW r \in PromptR2(q) PROVE Fit("r2", p, r)
  <2>1. Shaped("r2", r) /\ \A f \in asked : r[f] # Blank
    BY <1>0, <1>1, PromptedFacts, FieldsOfKinds DEF PromptR2
  <2> QED
    BY <2>1, <1>2
<1>5. o \in Outcomes(p, q, MissingR2(q), PromptR2(q), terminal)
  BY DEF LoadR2
<1> QED
  BY <1>0, <1>3, <1>4, <1>5, OutcomesFit

LEMMA LoadsWebDav ==
    ASSUME NEW p, p = NoProfile \/ Shaped("webdav", p), NEW terminal,
           NEW o \in LoadWebDav(p, terminal)
    PROVE  OutcomeFits("webdav", p, o)
<1> DEFINE q == Defaults(IF p = NoProfile THEN EmptyWebDav ELSE p, {"remote_dir"})
           asked == {"url", "username", "password"}
<1>0. "webdav" \in Kinds
  BY DEF Kinds
<1>1. Shaped("webdav", q)
  BY <1>0, EmptyProfiles, DefaultsFacts
<1>2. ASSUME NEW r, Shaped("webdav", r), \A f \in asked : r[f] # Blank
      PROVE  Fit("webdav", p, r)
  BY <1>2, FieldsOfKinds
     DEF Fit, Shaped, Completed, Valid, ValidWebDav, Malformed, Lacking
<1>3. MissingWebDav(q) = {} => Fit("webdav", p, q)
  BY <1>1, <1>2 DEF MissingWebDav, Lacking
<1>4. ASSUME NEW r \in PromptWebDav(q) PROVE Fit("webdav", p, r)
  <2>1. Shaped("webdav", r) /\ \A f \in asked : r[f] # Blank
    BY <1>0, <1>1, PromptedFacts, FieldsOfKinds DEF PromptWebDav
  <2> QED
    BY <2>1, <1>2
<1>5. o \in Outcomes(p, q, MissingWebDav(q), PromptWebDav(q), terminal)
  BY DEF LoadWebDav
<1> QED
  BY <1>0, <1>3, <1>4, <1>5, OutcomesFit

LEMMA LoadsFtp ==
    ASSUME NEW p, p = NoProfile \/ Shaped("ftp", p), NEW terminal,
           NEW o \in LoadFtp(p, terminal)
    PROVE  OutcomeFits("ftp", p, o)
<1> DEFINE q == Defaults(IF p = NoProfile THEN EmptyFtp ELSE p, {"remote_dir"})
           asked == {"url", "username", "password"}
<1>0. "ftp" \in Kinds
  BY DEF Kinds
<1>1. Shaped("ftp", q)
  BY <1>0, EmptyProfiles, DefaultsFacts
<1>2. ASSUME NEW r, Shaped("ftp", r), \A f \in asked : r[f] # Blank
      PROVE  Fit("ftp", p, r)
  BY <1>2, FieldsOfKinds
     DEF Fit, Shaped, Completed, Valid, ValidFtp, MissingFtp, Malformed, Lacking
<1>3. MissingFtp(q) = {} => Fit("ftp", p, q)
  BY <1>1, <1>2 DEF MissingFtp, Lacking
<1>4. ASSUME NEW r \in PromptFtp(q) PROVE Fit("ftp", p, r)
  <2>1. Shaped("ftp", r) /\ \A f \in asked : r[f] # Blank
    BY <1>0, <1>1, PromptedFacts, FieldsOfKinds DEF PromptFtp
  <2> QED
    BY <2>1, <1>2
<1>5. o \in Outcomes(p, q, MissingFtp(q), PromptFtp(q), terminal)
  BY DEF LoadFtp
<1> QED
  BY <1>0, <1>3, <1>4, <1>5, OutcomesFit

LEMMA LoadsAzure ==
    ASSUME NEW p, p = NoProfile \/ Shaped("azure", p), NEW terminal,
           NEW o \in LoadAzure(p, terminal)
    PROVE  OutcomeFits("azure", p, o)
<1> DEFINE q == Defaults(IF p = NoProfile THEN EmptyAzure ELSE p, {"prefix"})
           asked(r) == {"account_name", "container", AzureSecret(r)}
<1>0. "azure" \in Kinds
  BY DEF Kinds
<1>1. Shaped("azure", q)
  BY <1>0, EmptyProfiles, DefaultsFacts
<1>2. ASSUME NEW r, Shaped("azure", r), \A f \in asked(r) : r[f] # Blank
      PROVE  Fit("azure", p, r)
  <2>1. MissingAzure(r) = {}
    BY <1>2 DEF MissingAzure, Lacking
  <2> QED
    BY <1>2, <2>1, FieldsOfKinds DEF Fit, Shaped, Completed, Valid, ValidAzure, Malformed
<1>3. MissingAzure(q) = {} => Fit("azure", p, q)
  BY <1>1, <1>2 DEF MissingAzure, Lacking
<1>4. ASSUME NEW r \in PromptAzure(q, p = NoProfile) PROVE Fit("azure", p, r)
  <2>1. PICK a, c : /\ c = [q EXCEPT !.auth = a] \/ c = q
                    /\ \/ r \in Prompted(c, asked(c))
                       \/ \E s \in Prompted(c, asked(c)) : r \in Prompted(s, {"endpoint"})
    <3> DEFINE auths == IF p = NoProfile THEN {"shared-key", "sas"} ELSE {q.auth}
               chosen == {[q EXCEPT !.auth = a] : a \in auths}
               Ask(c) == Prompted(c, asked(c))
    <3>1. r \in UNION {Ask(c) \cup UNION {Prompted(s, {"endpoint"}) : s \in Ask(c)} :
                          c \in chosen}
      BY DEF PromptAzure
    <3>2. PICK c \in chosen : r \in Ask(c) \cup UNION {Prompted(s, {"endpoint"}) : s \in Ask(c)}
      BY <3>1
    <3>3. PICK a \in auths : c = [q EXCEPT !.auth = a]
      BY <3>2
    <3>4. \/ r \in Prompted(c, asked(c))
          \/ \E s \in Prompted(c, asked(c)) : r \in Prompted(s, {"endpoint"})
      BY <3>2
    <3> QED
      BY <3>3, <3>4
  <2>2. Shaped("azure", c)
    BY <2>1, <1>1, FieldsOfKinds DEF Shaped
  <2>3. ASSUME NEW s \in Prompted(c, asked(c))
        PROVE  Shaped("azure", s) /\ s.auth = c.auth /\ \A f \in asked(c) : s[f] # Blank
    <3>1. asked(c) \subseteq Fields("azure") /\ "kind" \notin asked(c) /\ "auth" \notin asked(c)
      BY FieldsOfKinds DEF AzureSecret
    <3>2. "auth" \in Fields("azure")
      BY FieldsOfKinds
    <3> QED
      BY <3>1, <3>2, <2>2, <1>0, PromptedFacts
  <2>4. CASE r \in Prompted(c, asked(c))
    BY <2>3, <2>4, <1>2 DEF AzureSecret
  <2>5. CASE \E s \in Prompted(c, asked(c)) : r \in Prompted(s, {"endpoint"})
    <3>1. PICK s \in Prompted(c, asked(c)) : r \in Prompted(s, {"endpoint"})
      BY <2>5
    <3>2. /\ Shaped("azure", r)
          /\ \A f \in Fields("azure") \ {"endpoint"} : r[f] = s[f]
      <4>1. Shaped("azure", s) /\ {"endpoint"} \subseteq Fields("azure")
        BY <2>3, FieldsOfKinds
      <4> QED
        BY <4>1, <3>1, <1>0, PromptedFacts
    <3>3. asked(c) \subseteq Fields("azure") \ {"endpoint"}
      BY FieldsOfKinds DEF AzureSecret
    <3>4. r.auth = c.auth
      BY <3>1, <3>2, <2>3, FieldsOfKinds
    <3>5. asked(r) = asked(c)
      BY <3>4 DEF AzureSecret
    <3> QED
      BY <3>1, <3>2, <3>3, <3>5, <2>3, <1>2
  <2> QED
    BY <2>1, <2>4, <2>5
<1>5. o \in Outcomes(p, q, MissingAzure(q), PromptAzure(q, p = NoProfile), terminal)
  BY DEF LoadAzure
<1> QED
  BY <1>0, <1>3, <1>4, <1>5, OutcomesFit

LEMMA LoadsSftp ==
    ASSUME NEW p, p = NoProfile \/ Shaped("sftp", p), NEW terminal,
           NEW o \in LoadSftp(p, terminal)
    PROVE  OutcomeFits("sftp", p, o)
<1> DEFINE found == IF p = NoProfile THEN EmptySftp ELSE p
           q == Defaults(found, {"remote_dir"})
           asked(r) == {"host", "username", SftpSecret(r)}
           SameKey(r) == KeyOf(r) \in {"none", KeyOf(p)}
<1>0. "sftp" \in Kinds /\ {"auth", "private_key_path"} \subseteq Fields("sftp")
  BY FieldsOfKinds DEF Kinds
<1>1. Shaped("sftp", q) /\ \A f \in Fields("sftp") : q[f] \in {found[f], Own}
  BY <1>0, EmptyProfiles, DefaultsFacts
<1>6. ASSUME NEW r, r.private_key_path \in {q.private_key_path, Own, Bad},
             p # NoProfile => r.auth = q.auth
      PROVE  SameKey(r)
  <2>1. CASE p = NoProfile
    <3>1. q.private_key_path \in {Blank, Own}
      BY <2>1, <1>0, <1>1 DEF EmptySftp
    <3> QED
      BY <3>1, <1>6, TicketsAssumption DEF KeyOf
  <2>2. CASE p # NoProfile
    <3>1. q.private_key_path \in {p.private_key_path, Own} /\ q.auth \in {p.auth, Own}
      BY <2>2, <1>0, <1>1
    <3> QED
      BY <3>1, <2>2, <1>6, TicketsAssumption DEF KeyOf, Own
  <2> QED
    BY <2>1, <2>2
<1>2. ASSUME NEW r, Shaped("sftp", r), \A f \in asked(r) : r[f] # Blank, SameKey(r)
      PROVE  Fit("sftp", p, r)
  <2>1. MissingSftp(r) = {}
    BY <1>2 DEF MissingSftp, Lacking
  <2> QED
    BY <1>2, <2>1, FieldsOfKinds DEF Fit, Shaped, Completed, Valid, ValidSftp, Malformed
<1>3. MissingSftp(q) = {} => Fit("sftp", p, q)
  BY <1>1, <1>2, <1>6 DEF MissingSftp, Lacking
<1>4. ASSUME NEW r \in PromptSftp(q, p = NoProfile) PROVE Fit("sftp", p, r)
  <2>1. PICK a, c : /\ c = [q EXCEPT !.auth = a]
                    /\ p # NoProfile => a = q.auth
                    /\ r \in Prompted(c, asked(c))
    <3> DEFINE auths == IF p = NoProfile THEN {"password", "private-key"} ELSE {q.auth}
               chosen == {[q EXCEPT !.auth = a] : a \in auths}
    <3>1. r \in UNION {Prompted(c, asked(c)) : c \in chosen}
      BY DEF PromptSftp
    <3>2. PICK c \in chosen : r \in Prompted(c, asked(c))
      BY <3>1
    <3>3. PICK a \in auths : c = [q EXCEPT !.auth = a]
      BY <3>2
    <3> QED
      BY <3>2, <3>3
  <2>2. Shaped("sftp", c) /\ c.private_key_path = q.private_key_path
        /\ (p # NoProfile => c.auth = q.auth)
    BY <2>1, <1>0, <1>1, FieldsOfKinds DEF Shaped
  <2>3. /\ asked(c) \subseteq Fields("sftp")
        /\ "kind" \notin asked(c) /\ "auth" \notin asked(c)
    BY FieldsOfKinds DEF SftpSecret
  <2>4. /\ Shaped("sftp", r) /\ r.auth = c.auth
        /\ \A f \in asked(c) : r[f] # Blank
        /\ r.private_key_path \in {c.private_key_path, Own, Bad}
    <3>1. r \in Prompted(c, asked(c))
      BY <2>1
    <3>2. /\ Shaped("sftp", r)
          /\ \A f \in asked(c) : r[f] # Blank
          /\ \A f \in Fields("sftp") \ asked(c) : r[f] = c[f]
          /\ \A f \in Fields("sftp") : r[f] \in {c[f], Own, Bad}
      <4> HIDE DEF asked
      <4> QED
        BY <3>1, <2>2, <2>3, <1>0, PromptedFacts
    <3> QED
      BY <3>2, <2>3, <1>0
  <2>5. SameKey(r)
    BY <2>2, <2>4, <1>6
  <2>6. asked(r) = asked(c)
    BY <2>4 DEF SftpSecret
  <2> QED
    BY <2>4, <2>5, <2>6, <1>2
<1>5. o \in Outcomes(p, q, MissingSftp(q), PromptSftp(q, p = NoProfile), terminal)
  BY DEF LoadSftp
<1> QED
  BY <1>0, <1>3, <1>4, <1>5, OutcomesFit
-----------------------------------------------------------------------------
Contents(c) ==
    /\ DOMAIN c = Slots
    /\ \A slot \in Slots : c[slot] = NoProfile \/ Shaped(slot[1], c[slot])

FileFits ==
    /\ parses \in BOOLEAN /\ orderly \in BOOLEAN
    /\ Contents(stored) /\ Contents(written)
    /\ (\A p \in Processes : pc[p] # "opened") => stored = written
    /\ ~parses => ~orderly
    /\ pc = [p \in Processes |-> pc[p]] /\ mem = [p \in Processes |-> mem[p]]
    /\ DOMAIN keys = {KeyFile[n] : n \in Names["sftp"]}
    /\ astray \subseteq Processes

MemoryFits(m, p) ==
    /\ DOMAIN m = {"copy", "meant", "save", "carried", "provider", "then"}
    /\ Contents(m.copy)
    /\ m.meant \in Slots \cup {NoSlot}
    /\ m.save \in BOOLEAN
    /\ m.carried # NoProfile => /\ Usable("sftp", m.carried)
                                /\ m.meant \in Slots /\ m.meant[1] = "sftp"
                                /\ p \in Sessions
                                /\ ~m.save

(* What a process that has not been overtaken holds: the file as it was    *)
(* written last, but for the slot its user means.                          *)
HasCopy(p) == \/ pc[p] \in {"keyed", "open", "saving", "opened"}
              \/ pc[p] = "working" /\ mem[p].carried = NoProfile

CopyFits(p) ==
    (HasCopy(p) /\ p \notin astray) =>
        /\ \A slot \in Slots \ {mem[p].meant} : mem[p].copy[slot] = written[slot]
        /\ pc[p] = "open" => \A slot \in Slots : mem[p].copy[slot] = written[slot]
        /\ (p \in Sessions /\ mem[p].carried = NoProfile /\ mem[p].meant[1] = "sftp")
              => KeyOf(mem[p].copy[mem[p].meant]) \in {"none", KeyOf(written[mem[p].meant])}

WillSave(p) == \/ pc[p] \in {"keyed", "saving", "opened"}
               \/ pc[p] = "working" /\ mem[p].save

(* What may be put into the file, with the exceptions of SavesAreUsable.   *)
Savable(r) ==
    \/ Valid(r) /\ (IsLegacy(r) => \E other \in Slots : IsLegacy(written[other]))
    \/ \E t \in Tickets : r \in WebDavFrom(t) /\ Taken(r)

SaveFits(p) ==
    WillSave(p) =>
        /\ mem[p].meant \in Slots
        /\ (orderly /\ p \notin astray)
              => LET mine == mem[p].copy[mem[p].meant]
                 IN  mine = NoProfile \/ Savable(mine)

(* The editor shows the legacy provider only while a profile has it.       *)
EditorFits(p) ==
    (p = Gui /\ orderly /\ p \notin astray) =>
        /\ (pc[p] = "open" /\ mem[p].provider = Legacy)
              => \E other \in Slots : IsLegacy(written[other])
        /\ (pc[p] \in {"saving", "opened"} /\ mem[p].then = Legacy)
              => \E other \in Slots : IsLegacy(mem[p].copy[other])

ProcessFits(p) ==
    /\ MemoryFits(mem[p], p)
    /\ pc[p] \in IF p = Gui THEN {"idle", "open", "saving", "opened"}
                            ELSE {"idle", "working", "keyed", "opened", "done"}
    /\ pc[p] = "keyed" => mem[p].carried # NoProfile
    /\ pc[p] = "opened" => (stored = Nothing \/ p \in astray)
    /\ (p = Gui /\ pc[p] # "idle") => mem[p].meant \in GuiSlots \cup {NoSlot}
    /\ CopyFits(p)
    /\ SaveFits(p)
    /\ EditorFits(p)

(* The key files.  While somebody is between writing a key and saving the  *)
(* profile that names it, the file holds the key of the last to come.      *)
Keepers(n) == {s \in Sessions : /\ pc[s] \in {"keyed", "opened"}
                                /\ mem[s].meant = <<"sftp", n>>
                                /\ mem[s].carried # NoProfile}

FitsKey(p, key) == KeyOf(p) \in {"none", key}

KeyKept(n) ==
    LET slot == <<"sftp", n>>
        key == keys[KeyFile[n]]
    IN  (orderly /\ \A other \in Names["sftp"] \ {n} : KeyFile[other] # KeyFile[n])
            => /\ Keepers(n) = {} => FitsKey(written[slot], key)
               /\ \A s \in Sessions \ astray :
                     Keepers(n) = {s} => FitsKey(mem[s].copy[slot], key)

ConfigInv ==
    /\ FileFits
    /\ \A p \in Processes : ProcessFits(p)
    /\ \A n \in Names["sftp"] : KeyKept(n)
    /\ refused = {}
-----------------------------------------------------------------------------
LEMMA SlotFacts ==
    /\ \A slot \in Slots : /\ slot[1] \in Kinds /\ slot[2] \in Names[slot[1]]
                           /\ slot = <<slot[1], slot[2]>>
    /\ \A k \in Kinds : \A n \in Names[k] : <<k, n>> \in Slots
  BY DEF Slots

LEMMA NothingFits ==
    /\ Contents(Nothing)
    /\ \A p : MemoryFits(NoMemory, p)
  BY DEF Contents, Nothing, MemoryFits, NoMemory

LEMMA TicketProfiles ==
    ASSUME NEW t \in Tickets
    PROVE  /\ \A p \in WebDavFrom(t) : Taken(p) => Shaped("webdav", p) /\ Savable(p)
           /\ \A p \in FtpFrom(t) : Taken(p) => Usable("ftp", p)
           /\ \A p \in SftpFrom(t) : Taken(p) => Usable("sftp", p) /\ p # NoProfile
<1>1. ASSUME NEW p \in WebDavFrom(t), Taken(p) PROVE Shaped("webdav", p) /\ Savable(p)
  BY <1>1, FieldsOfKinds DEF Shaped, Savable, WebDavFrom
<1>2. ASSUME NEW p \in FtpFrom(t), Taken(p) PROVE Usable("ftp", p)
  BY <1>2, FieldsOfKinds DEF Usable, Shaped, FtpFrom, Taken, IsLegacy
<1>3. ASSUME NEW p \in SftpFrom(t), Taken(p) PROVE Usable("sftp", p) /\ p # NoProfile
  <2>1. Shaped("sftp", p) /\ p.kind = "sftp"
    BY <1>3, FieldsOfKinds DEF Shaped, SftpFrom
  <2> QED
    BY <1>3, <2>1 DEF Usable, Taken, IsLegacy, NoProfile
<1> QED
  BY <1>1, <1>2, <1>3

LEMMA ConfigInitially == Init => ConfigInv
<1> SUFFICES ASSUME Init PROVE ConfigInv
  OBVIOUS
<1>1. Contents(stored) /\ \A n \in Names["sftp"] : KeyOf(stored[<<"sftp", n>>]) = "none"
  <2>1. ASSUME NEW n \in Names["sftp"] PROVE KeyOf(stored[<<"sftp", n>>]) = "none"
    <3>1. <<"sftp", n>> \in Slots
      BY SlotFacts DEF Kinds
    <3> QED
      BY <3>1, HandwrittenAssumption, FieldsOfKinds DEF Init, KeyOf
  <2> QED
    BY <2>1, HandwrittenAssumption DEF Init, Contents, Shaped
<1>2. FileFits
  BY <1>1 DEF FileFits, Init
<1>3. ASSUME NEW p \in Processes PROVE ProcessFits(p)
  BY NothingFits, GuiAssumption
     DEF Init, ProcessFits, CopyFits, HasCopy, SaveFits, Savable, WillSave, EditorFits, Processes
<1>4. ASSUME NEW n \in Names["sftp"] PROVE KeyKept(n)
  BY <1>1, SlotFacts DEF KeyKept, Keepers, FitsKey, Init, Kinds, Processes
<1> QED
  BY <1>2, <1>3, <1>4 DEF ConfigInv, Init

(* A process goes on by itself: nothing on the disk changes.               *)
LEMMA PrivateStep ==
    ASSUME ConfigInv, NEW p \in Processes, NEW c, NEW m,
           UNCHANGED <<stored, parses, written, keys, orderly>>,
           pc' = [pc EXCEPT ![p] = c], mem' = [mem EXCEPT ![p] = m],
           {pc[p], c} \cap {"keyed", "opened"} = {},
           astray' \subseteq Processes,
           \A q \in Processes \ {p} : q \in astray' <=> q \in astray,
           refused' = {},
           ProcessFits(p)'
    PROVE  ConfigInv'
<1>1. /\ pc'[p] = c /\ mem'[p] = m
      /\ \A q \in Processes \ {p} : pc'[q] = pc[q] /\ mem'[q] = mem[q]
  BY DEF ConfigInv, FileFits
<1>2. FileFits'
  BY <1>1 DEF ConfigInv, FileFits
<1>3. ASSUME NEW q \in Processes PROVE ProcessFits(q)'
  <2>1. CASE q # p
    BY <2>1, <1>1 DEF ConfigInv, ProcessFits, CopyFits, HasCopy, SaveFits, Savable, WillSave, EditorFits
  <2> QED
    BY <2>1
<1>4. ASSUME NEW n \in Names["sftp"] PROVE KeyKept(n)'
  <2>1. /\ Keepers(n)' = Keepers(n)
        /\ p \notin Keepers(n)
    BY <1>1 DEF Keepers, Processes
  <2>2. \A s \in Sessions : Keepers(n) = {s} => (s # p /\ s \in Processes)
    BY <2>1 DEF Processes
  <2> QED
    BY <2>1, <2>2, <1>1 DEF ConfigInv, KeyKept
<1> QED
  BY <1>2, <1>3, <1>4 DEF ConfigInv

-----------------------------------------------------------------------------
(* A command starts.                                                       *)
LEMMA EndsKeeps ==
    ASSUME ConfigInv, NEW s \in Sessions, Ends(s), pc[s] \notin {"keyed", "opened"},
           UNCHANGED <<stored, parses, written, keys, orderly>>, refused' = {}
    PROVE  ConfigInv'
<1>1. s \in Processes /\ s # Gui
  BY GuiAssumption DEF Processes
<1>2. pc'[s] = "done" /\ mem'[s] = NoMemory
  BY <1>1 DEF Ends, Exits, ConfigInv, FileFits
<1>3. ProcessFits(s)'
  BY <1>1, <1>2, NothingFits DEF ProcessFits, CopyFits, HasCopy, SaveFits, Savable, WillSave, EditorFits
<1> QED
  BY <1>1, <1>3, PrivateStep DEF Ends, Exits, ConfigInv, FileFits

LEMMA WorksKeeps ==
    ASSUME ConfigInv, NEW s \in Sessions, pc[s] = "idle", NEW slot \in Slots, NEW r, NEW save \in BOOLEAN,
           Shaped(slot[1], r), Savable(r),
           slot[1] = "sftp" => KeyOf(r) \in {"none", KeyOf(stored[slot])},
           Works(s, [NoMemory EXCEPT !.copy = [stored EXCEPT ![slot] = r],
                                     !.meant = slot, !.save = save]),
           Loads(s), UNCHANGED <<stored, parses, written, keys, orderly, refused>>
    PROVE  ConfigInv'
<1> DEFINE copy == [stored EXCEPT ![slot] = r]
           m == [NoMemory EXCEPT !.copy = copy, !.meant = slot, !.save = save]
<1>1. s \in Processes /\ s # Gui
  BY GuiAssumption DEF Processes
<1>2. /\ DOMAIN m = {"copy", "meant", "save", "carried", "provider", "then"}
      /\ m.copy = copy /\ m.meant = slot /\ m.save = save /\ m.carried = NoProfile
  BY DEF NoMemory
<1>3. /\ Contents(copy) /\ copy[slot] = r
      /\ \A other \in Slots \ {slot} : copy[other] = stored[other]
  <2>1. Contents(stored) /\ Shaped(slot[1], r)
    BY DEF ConfigInv, FileFits
  <2>2. copy = [stored EXCEPT ![slot] = r]
    OBVIOUS
  <2> HIDE DEF copy
  <2> QED
    BY <2>1, <2>2 DEF Contents
<1> HIDE DEF copy, m
<1>4. /\ pc' = [pc EXCEPT ![s] = "working"] /\ mem' = [mem EXCEPT ![s] = m]
      /\ pc'[s] = "working" /\ mem'[s] = m
  BY <1>1 DEF Works, ConfigInv, FileFits, m, copy
<1>5. s \in astray' \/ stored = written
  BY DEF Loads
<1>6. ProcessFits(s)'
  <2>1. MemoryFits(m, s)
    BY <1>2, <1>3 DEF MemoryFits
  <2>2. CopyFits(s)'
    BY <1>2, <1>3, <1>4, <1>5 DEF CopyFits
  <2>3. SaveFits(s)'
    BY <1>2, <1>3, <1>4 DEF SaveFits, Savable
  <2> QED
    BY <2>1, <2>2, <2>3, <1>1, <1>4 DEF ProcessFits, EditorFits
<1> QED
  BY <1>1, <1>4, <1>6, PrivateStep DEF Loads, ConfigInv, FileFits

LEMMA WithProfileKeeps ==
    ASSUME ConfigInv, NEW s \in Sessions, NEW slot \in Slots, NEW outcomes,
           \A o \in outcomes : OutcomeFits(slot[1], stored[slot], o),
           WithProfile(s, slot, outcomes)
    PROVE  ConfigInv'
<1> USE DEF WithProfile, Starts, Unaffected, fileVars
<1>0. refused = {}
  BY DEF ConfigInv
<1>1. CASE LoadFails(s) /\ UNCHANGED refused
  BY <1>0, <1>1, EndsKeeps DEF LoadFails
<1>2. CASE Selects(s, slot, outcomes)
  <2>1. PICK o \in outcomes :
          \/ /\ o.result = "ready"
             /\ Works(s, [NoMemory EXCEPT !.copy = [stored EXCEPT ![slot] = o.profile],
                                          !.meant = slot, !.save = o.save])
             /\ Loads(s)
             /\ UNCHANGED refused
          \/ /\ o.result # "ready"
             /\ Ends(s)
             /\ refused' = IF o.result = "incomplete" THEN refused \cup {s} ELSE refused
    BY <1>2 DEF Selects
  <2>2. OutcomeFits(slot[1], stored[slot], o)
    OBVIOUS
  <2>3. CASE o.result = "ready"
    BY <2>1, <2>2, <2>3, WorksKeeps DEF OutcomeFits, Usable, Savable
  <2>4. CASE o.result # "ready"
    BY <2>1, <2>2, <2>4, <1>0, EndsKeeps DEF OutcomeFits
  <2> QED
    BY <2>3, <2>4
<1> QED
  BY <1>1, <1>2

LEMMA WithTicketKeeps ==
    ASSUME ConfigInv, NEW s \in Sessions, NEW slot \in Slots, slot[1] # "sftp",
           NEW r, Taken(r) => Shaped(slot[1], r) /\ Savable(r), WithTicket(s, slot, r)
    PROVE  ConfigInv'
<1> USE DEF WithTicket, Starts, Unaffected, fileVars
<1>1. CASE LoadFails(s)
  BY <1>1, EndsKeeps DEF LoadFails, ConfigInv
<1>2. CASE RefusesTicket(s, r)
  BY <1>2, EndsKeeps DEF RefusesTicket, ConfigInv
<1>3. CASE Taken(r) /\ InsertsTicket(s, slot, r)
  BY <1>3, WorksKeeps DEF InsertsTicket
<1> QED
  BY <1>1, <1>2, <1>3

LEMMA SftpTicketKeeps ==
    ASSUME ConfigInv, NEW s \in Sessions, NEW slot \in Slots, slot[1] = "sftp",
           SftpTicket(s, slot)
    PROVE  ConfigInv'
<1> USE DEF SftpTicket, Starts, Unaffected, fileVars
<1>0. PICK t \in Tickets :
          \E r \in SftpFrom(t) :
             \/ RefusesTicket(s, r)
             \/ /\ Taken(r)
                /\ Works(s, [NoMemory EXCEPT !.meant = slot, !.carried = r])
                /\ UNCHANGED astray
  OBVIOUS
<1>1. PICK r \in SftpFrom(t) :
          \/ RefusesTicket(s, r)
          \/ /\ Taken(r)
             /\ Works(s, [NoMemory EXCEPT !.meant = slot, !.carried = r])
             /\ UNCHANGED astray
  BY <1>0
<1>2. CASE RefusesTicket(s, r)
  BY <1>2, EndsKeeps DEF RefusesTicket, ConfigInv
<1>3. CASE Taken(r) /\ Works(s, [NoMemory EXCEPT !.meant = slot, !.carried = r])
           /\ UNCHANGED astray
  <2> DEFINE m == [NoMemory EXCEPT !.meant = slot, !.carried = r]
  <2>1. s \in Processes /\ s # Gui
    BY GuiAssumption DEF Processes
  <2>2. Usable("sftp", r) /\ r # NoProfile
    BY <1>3, TicketProfiles
  <2>3. /\ DOMAIN m = {"copy", "meant", "save", "carried", "provider", "then"}
        /\ m.copy = Nothing /\ m.meant = slot /\ m.save = FALSE /\ m.carried = r
    BY DEF NoMemory
  <2> HIDE DEF m
  <2>4. /\ pc' = [pc EXCEPT ![s] = "working"] /\ mem' = [mem EXCEPT ![s] = m]
        /\ pc'[s] = "working" /\ mem'[s] = m
    BY <1>3, <2>1 DEF Works, ConfigInv, FileFits, m
  <2>5. ProcessFits(s)'
    <3>1. MemoryFits(m, s)
      BY <2>2, <2>3, NothingFits DEF MemoryFits
    <3> QED
      BY <3>1, <2>1, <2>2, <2>3, <2>4
         DEF ProcessFits, CopyFits, HasCopy, SaveFits, WillSave, EditorFits
  <2> QED
    BY <1>3, <2>1, <2>4, <2>5, PrivateStep DEF ConfigInv, FileFits
<1> QED
  BY <1>1, <1>2, <1>3

(* A command starts with any of the profiles.                              *)
LEMMA StartsKeeps ==
    ASSUME ConfigInv, NEW s \in Sessions,
           \/ \E n \in Names["s3"], terminal \in BOOLEAN : SendS3(s, n, terminal)
           \/ \E n \in Names["r2"], terminal \in BOOLEAN : SendR2(s, n, terminal)
           \/ \E n \in Names["azure"], terminal \in BOOLEAN : SendAzure(s, n, terminal)
           \/ \E n \in Names["webdav"], terminal \in BOOLEAN : SendWebDav(s, n, terminal)
           \/ \E n \in Names["ftp"], terminal \in BOOLEAN : SendFtp(s, n, terminal)
           \/ \E n \in Names["sftp"], terminal \in BOOLEAN : SendSftp(s, n, terminal)
           \/ \E n \in Names["webdav"] : RecvWebDav(s, n)
           \/ \E n \in Names["ftp"] : RecvFtp(s, n)
           \/ \E n \in Names["sftp"] : RecvSftp(s, n)
    PROVE  ConfigInv'
<1>1. Contents(stored)
  BY DEF ConfigInv, FileFits
<1>2. ASSUME NEW n \in Names["s3"], NEW terminal \in BOOLEAN,
             NEW slot, slot = <<"s3", n>>,
             WithProfile(s, slot, LoadS3(stored[slot], LegacyR2(slot), terminal))
      PROVE  ConfigInv'
  <2>1. /\ slot \in Slots /\ slot[1] = "s3"
        /\ stored[slot] = NoProfile \/ Shaped("s3", stored[slot])
    BY <1>1, <1>2, SlotFacts DEF Kinds, Contents
  <2> QED
    BY <2>1, <1>2, LoadsS3, WithProfileKeeps
<1>3. ASSUME NEW n \in Names["r2"], NEW terminal \in BOOLEAN,
             NEW slot, slot = <<"r2", n>>,
             WithProfile(s, slot, LoadR2(stored[slot], terminal))
      PROVE  ConfigInv'
  <2>1. /\ slot \in Slots /\ slot[1] = "r2"
        /\ stored[slot] = NoProfile \/ Shaped("r2", stored[slot])
    BY <1>1, <1>3, SlotFacts DEF Kinds, Contents
  <2> QED
    BY <2>1, <1>3, LoadsR2, WithProfileKeeps
<1>4. ASSUME NEW n \in Names["azure"], NEW terminal \in BOOLEAN,
             NEW slot, slot = <<"azure", n>>,
             WithProfile(s, slot, LoadAzure(stored[slot], terminal))
      PROVE  ConfigInv'
  <2>1. /\ slot \in Slots /\ slot[1] = "azure"
        /\ stored[slot] = NoProfile \/ Shaped("azure", stored[slot])
    BY <1>1, <1>4, SlotFacts DEF Kinds, Contents
  <2> QED
    BY <2>1, <1>4, LoadsAzure, WithProfileKeeps
<1>5. ASSUME NEW n \in Names["webdav"], NEW terminal \in BOOLEAN,
             NEW slot, slot = <<"webdav", n>>,
             WithProfile(s, slot, LoadWebDav(stored[slot], terminal))
      PROVE  ConfigInv'
  <2>1. /\ slot \in Slots /\ slot[1] = "webdav"
        /\ stored[slot] = NoProfile \/ Shaped("webdav", stored[slot])
    BY <1>1, <1>5, SlotFacts DEF Kinds, Contents
  <2> QED
    BY <2>1, <1>5, LoadsWebDav, WithProfileKeeps
<1>6. ASSUME NEW n \in Names["ftp"], NEW terminal \in BOOLEAN,
             NEW slot, slot = <<"ftp", n>>,
             WithProfile(s, slot, LoadFtp(stored[slot], terminal))
      PROVE  ConfigInv'
  <2>1. /\ slot \in Slots /\ slot[1] = "ftp"
        /\ stored[slot] = NoProfile \/ Shaped("ftp", stored[slot])
    BY <1>1, <1>6, SlotFacts DEF Kinds, Contents
  <2> QED
    BY <2>1, <1>6, LoadsFtp, WithProfileKeeps
<1>7. ASSUME NEW n \in Names["sftp"], NEW terminal \in BOOLEAN,
             NEW slot, slot = <<"sftp", n>>,
             WithProfile(s, slot, LoadSftp(stored[slot], terminal))
      PROVE  ConfigInv'
  <2>1. /\ slot \in Slots /\ slot[1] = "sftp"
        /\ stored[slot] = NoProfile \/ Shaped("sftp", stored[slot])
    BY <1>1, <1>7, SlotFacts DEF Kinds, Contents
  <2> QED
    BY <2>1, <1>7, LoadsSftp, WithProfileKeeps
<1>8. ASSUME NEW n \in Names["webdav"], RecvWebDav(s, n) PROVE ConfigInv'
  <2> DEFINE slot == <<"webdav", n>>
  <2>1. slot \in Slots /\ slot[1] = "webdav"
    BY SlotFacts DEF Kinds
  <2>2. ASSUME NEW t \in Tickets, NEW p \in WebDavFrom(t), WithTicket(s, slot, p)
        PROVE  ConfigInv'
    BY <2>1, <2>2, TicketProfiles, WithTicketKeeps
  <2> QED
    BY <2>2, <1>5, <1>8 DEF RecvWebDav
<1>9. ASSUME NEW n \in Names["ftp"], RecvFtp(s, n) PROVE ConfigInv'
  <2> DEFINE slot == <<"ftp", n>>
  <2>1. slot \in Slots /\ slot[1] = "ftp"
    BY SlotFacts DEF Kinds
  <2>2. ASSUME NEW t \in Tickets, NEW p \in FtpFrom(t), WithTicket(s, slot, p)
        PROVE  ConfigInv'
    BY <2>1, <2>2, TicketProfiles, WithTicketKeeps DEF Usable, Savable
  <2> QED
    BY <2>2, <1>6, <1>9 DEF RecvFtp
<1>10. ASSUME NEW n \in Names["sftp"], RecvSftp(s, n) PROVE ConfigInv'
  <2> DEFINE slot == <<"sftp", n>>
  <2>1. slot \in Slots /\ slot[1] = "sftp"
    BY SlotFacts DEF Kinds
  <2>2. ASSUME SftpTicket(s, slot) PROVE ConfigInv'
    BY <2>1, <2>2, SftpTicketKeeps
  <2> QED
    BY <2>2, <1>7, <1>10 DEF RecvSftp
<1> QED
  BY <1>2, <1>3, <1>4, <1>5, <1>6, <1>7, <1>8, <1>9, <1>10
     DEF SendS3, SendR2, SendAzure, SendWebDav, SendFtp, SendSftp

(* A transfer that succeeded has its key written, and names it.            *)
LEMMA KeepsKeyKeeps ==
    ASSUME ConfigInv, NEW s \in Sessions, KeepsKey(s)
    PROVE  ConfigInv'
<1> DEFINE meant == mem[s].meant
           r == mem[s].carried
           copy == [stored EXCEPT ![meant] = r]
<1> USE DEF KeepsKey, fileVars
<1>0. refused' = {} /\ UNCHANGED <<stored, parses, written, orderly>>
  BY DEF ConfigInv
<1>1. CASE LoadFails(s) /\ UNCHANGED keys
  BY <1>0, <1>1, EndsKeeps DEF LoadFails
<1>2. CASE ~(LoadFails(s) /\ UNCHANGED keys)
  <2>0. /\ Loads(s) /\ WritesKey(s)
        /\ mem' = [mem EXCEPT ![s].copy = copy]
        /\ pc' = [pc EXCEPT ![s] = "keyed"]
        /\ pc[s] = "working" /\ r # NoProfile
    BY <1>2
  <2>1. s \in Processes /\ s # Gui
    BY GuiAssumption DEF Processes
  <2>2. /\ MemoryFits(mem[s], s) /\ Usable("sftp", r)
        /\ meant \in Slots /\ meant[1] = "sftp"
        /\ meant[2] \in Names["sftp"] /\ meant = <<"sftp", meant[2]>>
    BY <2>0, <2>1, SlotFacts DEF ConfigInv, ProcessFits, MemoryFits
  <2>3. /\ Contents(copy) /\ copy[meant] = r
        /\ \A other \in Slots \ {meant} : copy[other] = stored[other]
    <3>1. Contents(stored) /\ Shaped(meant[1], r)
      BY <2>2 DEF ConfigInv, FileFits, Usable
    <3>2. copy = [stored EXCEPT ![meant] = r]
      OBVIOUS
    <3> HIDE DEF meant, r, copy
    <3> QED
      BY <3>1, <3>2, <2>2 DEF Contents
  <2> HIDE DEF copy
  <2>4. /\ DOMAIN mem'[s] = {"copy", "meant", "save", "carried", "provider", "then"}
        /\ mem'[s].copy = copy /\ mem'[s].meant = meant
        /\ mem'[s].save = mem[s].save /\ mem'[s].carried = r
        /\ pc'[s] = "keyed"
        /\ \A q \in Processes \ {s} : pc'[q] = pc[q] /\ mem'[q] = mem[q]
        /\ \A q \in Processes \ {s} : q \in astray' <=> q \in astray
        /\ pc' = [q \in Processes |-> pc'[q]] /\ mem' = [q \in Processes |-> mem'[q]]
        /\ astray' \subseteq Processes
    BY <2>0, <2>1, <2>2 DEF Loads, MemoryFits, ConfigInv, FileFits
  <2>5. s \in astray' \/ stored = written
    BY <2>0 DEF Loads
  <2> DEFINE n0 == meant[2]
             file == KeyFile[n0]
  <2>6. /\ r.auth = "private-key" => keys'[file] = r.private_key_path
        /\ \A other \in Names["sftp"] : KeyFile[other] # file => keys'[KeyFile[other]] = keys[KeyFile[other]]
        /\ DOMAIN keys' = DOMAIN keys
    BY <2>0, <2>2 DEF WritesKey, ConfigInv, FileFits
  <2>7. FileFits'
    BY <1>0, <2>1, <2>4, <2>6 DEF FileFits, ConfigInv
  <2>8. ASSUME NEW q \in Processes PROVE ProcessFits(q)'
    <3>1. CASE q = s
      <4>1. MemoryFits(mem'[s], s)
        BY <2>2, <2>3, <2>4 DEF MemoryFits
      <4>2. CopyFits(s)'
        BY <1>0, <2>0, <2>3, <2>4, <2>5 DEF CopyFits
      <4>3. SaveFits(s)'
        BY <2>2, <2>3, <2>4 DEF SaveFits, Savable, Usable
      <4> QED
        BY <3>1, <4>1, <4>2, <4>3, <2>0, <2>1, <2>4 DEF ProcessFits, EditorFits
    <3>2. CASE q # s
      BY <3>2, <1>0, <2>4 DEF ConfigInv, ProcessFits, CopyFits, HasCopy, SaveFits, Savable, WillSave, EditorFits
    <3> QED
      BY <3>1, <3>2
  <2>9. ASSUME NEW n \in Names["sftp"] PROVE KeyKept(n)'
    <3> SUFFICES ASSUME orderly,
                        \A other \in Names["sftp"] \ {n} : KeyFile[other] # KeyFile[n]
                 PROVE  /\ Keepers(n)' = {} => FitsKey(written[<<"sftp", n>>], keys'[KeyFile[n]])
                        /\ \A t \in Sessions \ astray' :
                              Keepers(n)' = {t} => FitsKey(mem'[t].copy[<<"sftp", n>>], keys'[KeyFile[n]])
      BY <1>0 DEF KeyKept
    <3>1. CASE n = n0
      <4>1. s \in Keepers(n)'
        BY <3>1, <2>0, <2>2, <2>4 DEF Keepers
      <4>2. FitsKey(copy[meant], keys'[KeyFile[n]])
        BY <3>1, <2>3, <2>6 DEF FitsKey, KeyOf
      <4> QED
        BY <3>1, <4>1, <4>2, <2>2, <2>4
    <3>2. CASE n # n0
      <4>1. meant # <<"sftp", n>>
        BY <3>2, <2>2
      <4>2. Keepers(n)' = Keepers(n) /\ s \notin Keepers(n)
        BY <4>1, <2>1, <2>4 DEF Keepers, Processes
      <4>3. keys'[KeyFile[n]] = keys[KeyFile[n]]
        BY <3>2, <2>2, <2>6
      <4>4. \A t \in Sessions : Keepers(n) = {t} => (t # s /\ t \in Processes)
        BY <4>2 DEF Processes
      <4> QED
        BY <4>2, <4>3, <4>4, <2>4 DEF ConfigInv, KeyKept
    <3> QED
      BY <3>1, <3>2
  <2> QED
    BY <2>7, <2>8, <2>9, <1>0 DEF ConfigInv
<1> QED
  BY <1>1, <1>2
-----------------------------------------------------------------------------
(* The GUI.                                                                *)
LEMMA GuiOpensKeeps ==
    ASSUME ConfigInv, GuiOpens
    PROVE  ConfigInv'
<1> DEFINE m == [NoMemory EXCEPT !.copy = stored]
<1>1. Gui \in Processes /\ Gui \notin Sessions
  BY GuiAssumption DEF Processes
<1>2. /\ MemoryFits(m, Gui) /\ m.copy = stored /\ m.meant = NoSlot /\ m.carried = NoProfile
      /\ m.provider # Legacy
  BY DEF MemoryFits, NoMemory, Own, Legacy, ConfigInv, FileFits
<1> HIDE DEF m
<1>3. /\ pc' = [pc EXCEPT ![Gui] = "open"] /\ mem' = [mem EXCEPT ![Gui] = m]
      /\ pc'[Gui] = "open" /\ mem'[Gui] = m
  BY <1>1 DEF GuiOpens, ConfigInv, FileFits, m
<1>4. Gui \in astray' \/ stored = written
  BY DEF GuiOpens, Loads
<1>5. ProcessFits(Gui)'
  BY <1>1, <1>2, <1>3, <1>4
     DEF GuiOpens, fileVars, ProcessFits, CopyFits, HasCopy, SaveFits, Savable, WillSave, EditorFits
<1> QED
  <2>1. /\ refused' = {} /\ astray' \subseteq Processes
        /\ \A q \in Processes \ {Gui} : q \in astray' <=> q \in astray
        /\ UNCHANGED <<stored, parses, written, keys, orderly>>
        /\ pc[Gui] = "idle"
    BY <1>1 DEF GuiOpens, Loads, fileVars, ConfigInv, FileFits
  <2> QED
    BY <2>1, <1>1, <1>3, <1>5, PrivateStep

LEMMA GuiClosesKeeps ==
    ASSUME ConfigInv, GuiCloses
    PROVE  ConfigInv'
<1>1. Gui \in Processes /\ Gui \notin Sessions
  BY GuiAssumption DEF Processes
<1>2. pc'[Gui] = "idle" /\ mem'[Gui] = NoMemory
  BY <1>1 DEF GuiCloses, Exits, ConfigInv, FileFits
<1>3. ProcessFits(Gui)'
  BY <1>1, <1>2, NothingFits DEF ProcessFits, CopyFits, HasCopy, SaveFits, Savable, WillSave, EditorFits
<1> QED
  BY <1>1, <1>3, PrivateStep DEF GuiCloses, Exits, fileVars, ConfigInv, FileFits

(* A change of one profile in the copy of the GUI.                         *)
LEMMA GuiChangeKeeps ==
    ASSUME ConfigInv, NEW slot \in GuiSlots, NEW changed \in Slots, NEW r,
           NEW provider, NEW then,
           r = NoProfile \/ Shaped(changed[1], r),
           (orderly /\ Gui \notin astray) =>
              /\ r = NoProfile \/ Savable(r)
              /\ then = Legacy => \/ IsLegacy(r)
                                  \/ \E x \in Slots \ {changed} : IsLegacy(mem[Gui].copy[x]),
           pc[Gui] = "open",
           Edits(slot, changed, r, provider, then),
           pc' = [pc EXCEPT ![Gui] = "saving"],
           astray' = IF changed = slot THEN astray ELSE astray \cup {Gui},
           UNCHANGED <<stored, parses, written, keys, orderly, refused>>
    PROVE  ConfigInv'
<1> DEFINE copy == [mem[Gui].copy EXCEPT ![changed] = r]
           m == [mem[Gui] EXCEPT !.copy = copy, !.meant = slot,
                                 !.provider = provider, !.then = then]
<1>1. Gui \in Processes /\ Gui \notin Sessions /\ slot \in Slots
  BY GuiAssumption DEF Processes, GuiSlots
<1>2. MemoryFits(mem[Gui], Gui) /\ CopyFits(Gui)
  BY <1>1 DEF ConfigInv, ProcessFits
<1>3. /\ Contents(copy) /\ copy[changed] = r
      /\ \A other \in Slots \ {changed} : copy[other] = mem[Gui].copy[other]
  <2>1. Contents(mem[Gui].copy) /\ (r = NoProfile \/ Shaped(changed[1], r))
    BY <1>2 DEF MemoryFits
  <2>2. copy = [mem[Gui].copy EXCEPT ![changed] = r]
    OBVIOUS
  <2> HIDE DEF copy
  <2> QED
    BY <2>1, <2>2 DEF Contents
<1>4. /\ DOMAIN m = {"copy", "meant", "save", "carried", "provider", "then"}
      /\ m.copy = copy /\ m.meant = slot /\ m.save = mem[Gui].save
      /\ m.carried = mem[Gui].carried /\ m.then = then
  BY <1>2 DEF MemoryFits
<1>5. mem' = [mem EXCEPT ![Gui] = m]
  BY <1>1, <1>2 DEF Edits, ConfigInv, FileFits, MemoryFits
<1> HIDE DEF m, copy
<1>6. pc'[Gui] = "saving" /\ mem'[Gui] = m
  BY <1>1, <1>5 DEF ConfigInv, FileFits
<1>7. ProcessFits(Gui)'
  <2>1. MemoryFits(m, Gui)
    BY <1>1, <1>2, <1>3, <1>4 DEF MemoryFits
  <2>2. CopyFits(Gui)'
    BY <1>1, <1>2, <1>3, <1>4, <1>6 DEF CopyFits, HasCopy
  <2>3. SaveFits(Gui)'
    BY <1>1, <1>3, <1>4, <1>6 DEF SaveFits, Savable
  <2>4. EditorFits(Gui)'
    BY <1>1, <1>3, <1>4, <1>6 DEF EditorFits
  <2> QED
    BY <2>1, <2>2, <2>3, <2>4, <1>4, <1>6 DEF ProcessFits
<1> QED
  <2>1. /\ refused' = {} /\ astray' \subseteq Processes
        /\ \A q \in Processes \ {Gui} : q \in astray' <=> q \in astray
    BY <1>1 DEF ConfigInv, FileFits
  <2> QED
    BY <2>1, <1>1, <1>5, <1>7, PrivateStep

LEMMA TypedShaped ==
    ASSUME NEW k \in {"s3", "webdav", "tls"}, NEW v, NEW r \in Typed(k, v)
    PROVE  Shaped(k, r) /\ (k = "s3" => r.provider = v)
<1> DEFINE new == CASE k = "s3" -> [Defaults(EmptyS3, DOMAIN EmptyS3) EXCEPT !.provider = v]
                    [] k = "webdav" -> Defaults(EmptyWebDav, DOMAIN EmptyWebDav)
                    [] k = "tls" -> [kind |-> "tls", url |-> Own]
           address == IF k = "s3" THEN "endpoint" ELSE "url"
<1>1. k \in Kinds /\ "kind" # address /\ "provider" # address
  BY DEF Kinds
<1>2. Shaped(k, new) /\ (k = "s3" => new.provider = v)
  <2>1. CASE k = "s3"
    <3>1. Shaped("s3", Defaults(EmptyS3, DOMAIN EmptyS3))
      BY <2>1, <1>1, EmptyProfiles, DefaultsFacts
    <3>2. new = [Defaults(EmptyS3, DOMAIN EmptyS3) EXCEPT !.provider = v]
      BY <2>1
    <3> HIDE DEF new
    <3> QED
      BY <2>1, <3>1, <3>2, FieldsOfKinds DEF Shaped
  <2>2. CASE k = "webdav"
    BY <2>2, <1>1, EmptyProfiles, DefaultsFacts
  <2>3. CASE k = "tls"
    BY <2>3, FieldsOfKinds DEF Shaped
  <2> QED
    BY <2>1, <2>2, <2>3
<1>3. r \in {new, [new EXCEPT ![address] = Bad], [new EXCEPT ![address] = Blank]}
  BY DEF Typed
<1> HIDE DEF new, address
<1> QED
  BY <1>1, <1>2, <1>3, FieldsOfKinds DEF Shaped

(* A legacy provider in the editor is that of a profile in the copy.       *)
LEMMA EditorsProvider ==
    ASSUME ConfigInv, pc[Gui] = "open", orderly, Gui \notin astray,
           NEW v \in Providers(mem[Gui]), v = Legacy
    PROVE  \E x \in Slots : IsLegacy(mem[Gui].copy[x]) /\ IsLegacy(written[x])
<1>1. \A x \in Slots : mem[Gui].copy[x] = written[x]
  BY DEF ConfigInv, ProcessFits, CopyFits, HasCopy, Processes
<1>2. CASE v = mem[Gui].provider
  BY <1>1, <1>2 DEF ConfigInv, ProcessFits, EditorFits, Processes
<1>3. CASE \E x \in Slots : mem[Gui].copy[x].kind = "s3" /\ v = mem[Gui].copy[x].provider
  BY <1>1, <1>3 DEF IsLegacy
<1> QED
  BY <1>2, <1>3 DEF Providers, Legacy, Own

LEMMA SaveProfileKeeps ==
    ASSUME ConfigInv, NEW slot \in GuiSlots, SaveProfile(slot)
    PROVE  ConfigInv'
<1>1. PICK v \in Providers(mem[Gui]) :
          \E r \in Typed(slot[1], v) : Valid(r) /\ Edits(slot, slot, r, v, v)
  BY DEF SaveProfile
<1>2. PICK r \in Typed(slot[1], v) : Valid(r) /\ Edits(slot, slot, r, v, v)
  BY <1>1
<1>3. /\ slot \in Slots /\ slot[1] \in {"s3", "webdav", "tls"}
      /\ pc[Gui] = "open"
  BY DEF GuiSlots, SaveProfile
<1>4. Shaped(slot[1], r) /\ (slot[1] = "s3" => r.provider = v)
  BY <1>3, TypedShaped
<1>5. ASSUME orderly, Gui \notin astray
      PROVE  /\ Savable(r)
             /\ v = Legacy => \/ IsLegacy(r)
                              \/ \E x \in Slots \ {slot} : IsLegacy(mem[Gui].copy[x])
  <2>1. CASE v = Legacy
    <3>1. PICK x \in Slots : IsLegacy(mem[Gui].copy[x]) /\ IsLegacy(written[x])
      BY <1>3, <1>5, <2>1, EditorsProvider
    <3>2. x[1] = "s3"
      BY <3>1 DEF ConfigInv, FileFits, Contents, Shaped, IsLegacy, NoProfile
    <3> QED
      BY <2>1, <3>1, <3>2, <1>2, <1>4 DEF Savable, IsLegacy, Shaped
  <2>2. CASE v # Legacy
    BY <2>2, <1>2, <1>3, <1>4 DEF Savable, IsLegacy, Shaped
  <2> QED
    BY <2>1, <2>2
<1> QED
  BY <1>2, <1>3, <1>4, <1>5, GuiChangeKeeps DEF SaveProfile, fileVars

LEMMA DeleteProfileKeeps ==
    ASSUME ConfigInv, NEW slot \in GuiSlots, DeleteProfile(slot)
    PROVE  ConfigInv'
<1> DEFINE shown == Shown(mem[Gui].copy, slot[2])
<1>1. shown \in Slots
  <2> DEFINE known == {i \in DOMAIN GuiKinds :
                          /\ slot[2] \in Names[GuiKinds[i]]
                          /\ mem[Gui].copy[<<GuiKinds[i], slot[2]>>] # NoProfile}
             first == CHOOSE i \in known : \A j \in known : i <= j
  <2>1. /\ slot \in Slots /\ slot[1] \in {"s3", "webdav", "tls"}
        /\ slot[2] \in Names[slot[1]] /\ slot = <<slot[1], slot[2]>>
    BY SlotFacts DEF GuiSlots
  <2>2. /\ DOMAIN GuiKinds = {1, 2, 3}
        /\ GuiKinds[1] = "s3" /\ GuiKinds[2] = "webdav" /\ GuiKinds[3] = "tls"
    BY DEF GuiKinds
  <2>3. known # {} /\ known \subseteq {1, 2, 3}
    BY <2>1, <2>2 DEF DeleteProfile
  <2>4. \E i \in known : \A j \in known : i <= j
    <3>1. CASE 1 \in known
      BY <3>1, <2>3
    <3>2. CASE 1 \notin known /\ 2 \in known
      BY <3>2, <2>3
    <3>3. CASE 1 \notin known /\ 2 \notin known
      BY <3>3, <2>3
    <3> QED
      BY <3>1, <3>2, <3>3
  <2>5. first \in known
    BY <2>4
  <2>6. GuiKinds[first] \in Kinds /\ slot[2] \in Names[GuiKinds[first]]
    BY <2>2, <2>5 DEF Kinds
  <2>7. shown = <<GuiKinds[first], slot[2]>>
    BY DEF Shown
  <2> QED
    BY <2>6, <2>7, SlotFacts
<1>2. /\ \E v : Edits(slot, shown, NoProfile, v, Own)
      /\ astray' = IF shown = slot THEN astray ELSE astray \cup {Gui}
  BY DEF DeleteProfile
<1>3. PICK v : Edits(slot, shown, NoProfile, v, Own)
  BY <1>2
<1>4. Own # Legacy
  BY DEF Own, Legacy
<1> HIDE DEF shown
<1> QED
  BY <1>1, <1>2, <1>3, <1>4, GuiChangeKeeps DEF DeleteProfile, fileVars
-----------------------------------------------------------------------------
(* The two halves of a save.                                               *)
LEMMA OpensFileKeeps ==
    ASSUME ConfigInv, NEW p \in Processes, OpensFile(p)
    PROVE  ConfigInv'
<1> USE DEF OpensFile
<1>1. /\ pc'[p] = "opened" /\ UNCHANGED <<mem, written, keys, astray, orderly, refused>>
      /\ \A q \in Processes \ {p} : pc'[q] = pc[q]
      /\ stored' = Nothing /\ parses'
  BY DEF ConfigInv, FileFits
<1>2. FileFits'
  BY <1>1, NothingFits DEF ConfigInv, FileFits
<1>3. ProcessFits(p)
  BY DEF ConfigInv
<1>4. HasCopy(p) /\ WillSave(p)
  BY <1>3 DEF MaySave, ProcessFits, MemoryFits, HasCopy, WillSave
<1>5. ASSUME NEW q \in Processes PROVE ProcessFits(q)'
  <2>1. CASE q = p
    <3>1. CopyFits(p)' /\ SaveFits(p)' /\ EditorFits(p)'
      BY <1>1, <1>3, <1>4, GuiAssumption
         DEF MaySave, ProcessFits, CopyFits, SaveFits, Savable, EditorFits
    <3>2. p = Gui => pc[p] # "idle"
      BY <1>4 DEF WillSave
    <3> QED
      BY <2>1, <3>1, <3>2, <1>1, <1>3, GuiAssumption DEF ProcessFits
  <2>2. CASE q # p
    BY <2>2, <1>1 DEF ConfigInv, ProcessFits, CopyFits, HasCopy, SaveFits, Savable, WillSave, EditorFits
  <2> QED
    BY <2>1, <2>2
<1>6. ASSUME NEW n \in Names["sftp"] PROVE KeyKept(n)'
  <2>1. p \in Sessions => (pc[p] = "keyed" \/ mem[p].carried = NoProfile)
    BY <1>3, GuiAssumption DEF MaySave, ProcessFits, MemoryFits
  <2>2. Keepers(n)' = Keepers(n)
    BY <2>1, <1>1 DEF Keepers, Processes
  <2> QED
    BY <2>2, <1>1 DEF ConfigInv, KeyKept
<1> QED
  BY <1>1, <1>2, <1>5, <1>6 DEF ConfigInv

(* The memory of the GUI when it goes on after a save.                     *)
LEMMA GoesOn ==
    ASSUME NEW p, NEW m, MemoryFits(m, p), NEW v
    PROVE  LET next == [m EXCEPT !.provider = v]
           IN  /\ MemoryFits(next, p)
               /\ next.copy = m.copy /\ next.meant = m.meant /\ next.save = m.save
               /\ next.carried = m.carried /\ next.provider = v
  BY DEF MemoryFits

(* Whoever was under way when somebody else wrote has been overtaken: what *)
(* it saves from now on is astray.                                         *)
LEMMA Overtaken ==
    ASSUME ConfigInv, NEW p \in Processes, NEW v,
           pc' = [pc EXCEPT ![p] = IF p = Gui THEN IF pc'[p] = "open" THEN "open" ELSE "idle"
                                             ELSE "done"],
           \A q \in Processes \ {p} : mem'[q] = mem[q],
           mem'[p] = NoMemory \/ (p = Gui /\ mem'[p] = [mem[p] EXCEPT !.provider = v]),
           pc[p] = "opened",
           Active \ {p} \subseteq astray',
           pc'[p] = "open" =>
              /\ mem'[p] = [mem[p] EXCEPT !.provider = v]
              /\ p \in astray' \/ \A slot \in Slots : mem[p].copy[slot] = written'[slot]
              /\ (orderly' /\ v = Legacy) => \E slot \in Slots : IsLegacy(written'[slot])
    PROVE  \A q \in Processes : ProcessFits(q)'
<1>1. /\ \A q \in Processes \ {p} : pc'[q] = pc[q]
      /\ pc'[p] \in IF p = Gui THEN {"open", "idle"} ELSE {"done"}
  BY DEF ConfigInv, FileFits
<1>2. ASSUME NEW q \in Processes, q # p PROVE ProcessFits(q)'
  <2>1. ProcessFits(q) /\ mem'[q] = mem[q] /\ pc'[q] = pc[q]
    BY <1>1, <1>2 DEF ConfigInv
  <2>2. q \in astray' \/ pc[q] \in {"idle", "done"}
    BY <1>2 DEF Active
  <2> QED
    BY <2>1, <2>2 DEF ProcessFits, CopyFits, HasCopy, SaveFits, Savable, WillSave, EditorFits
<1>3. ProcessFits(p)'
  <2>1. /\ ProcessFits(p) /\ MemoryFits(mem'[p], p)
        /\ pc'[p] = "open" => mem'[p].copy = mem[p].copy /\ mem'[p].meant = mem[p].meant
                               /\ mem'[p].provider = v
    <3>1. ProcessFits(p) /\ MemoryFits(mem[p], p)
      BY DEF ConfigInv, ProcessFits
    <3>2. LET next == [mem[p] EXCEPT !.provider = v]
          IN  /\ MemoryFits(next, p)
              /\ next.copy = mem[p].copy /\ next.meant = mem[p].meant /\ next.provider = v
      BY <3>1, GoesOn
    <3> QED
      BY <3>1, <3>2, NothingFits
  <2>2. SaveFits(p)' /\ (pc'[p] = "open" => p \notin Sessions)
    BY <1>1, GuiAssumption DEF SaveFits, Savable, WillSave, EditorFits
  <2>3. CopyFits(p)'
    BY <2>1, <2>2, <1>1 DEF CopyFits, HasCopy
  <2>4. EditorFits(p)'
    BY <2>1, <1>1 DEF EditorFits
  <2> QED
    BY <2>1, <2>2, <2>3, <2>4, <1>1 DEF ProcessFits, NoMemory
<1> QED
  BY <1>2, <1>3
LEMMA WritesFileKeeps ==
    ASSUME ConfigInv, NEW p \in Processes, WritesFile(p)
    PROVE  ConfigInv'
<1>1. /\ pc[p] = "opened" /\ ProcessFits(p)
      /\ stored' = mem[p].copy /\ written' = mem[p].copy
      /\ orderly' = (orderly /\ p \notin astray)
      /\ Active \ {p} \subseteq astray' /\ astray' \subseteq Active
      /\ UNCHANGED <<keys, refused>>
      /\ parses' \in BOOLEAN
      /\ ~parses' => stored # Nothing
      /\ pc' = [q \in Processes |-> pc'[q]] /\ mem' = [q \in Processes |-> mem'[q]]
  BY DEF WritesFile, AfterSave, Exits, ConfigInv, FileFits
<1>2. /\ \A q \in Processes \ {p} : mem'[q] = mem[q] /\ pc'[q] = pc[q]
      /\ p = Gui => pc'[p] = "open" /\ mem'[p] = [mem[p] EXCEPT !.provider = mem[p].then]
      /\ p # Gui => pc'[p] = "done" /\ mem'[p] = NoMemory
      /\ pc' = [pc EXCEPT ![p] = IF p = Gui THEN "open" ELSE "done"]
  BY DEF WritesFile, AfterSave, Exits, ConfigInv, FileFits
<1>3. FileFits'
  <2>1. Contents(mem[p].copy) /\ (stored = Nothing \/ p \in astray)
    BY <1>1 DEF ProcessFits, MemoryFits
  <2>2. ~parses' => ~orderly'
    BY <2>1, <1>1
  <2>3. astray' \subseteq Processes
    BY <1>1 DEF Active
  <2> QED
    BY <2>1, <2>2, <2>3, <1>1 DEF ConfigInv, FileFits
<1>4. \A q \in Processes : ProcessFits(q)'
  <2>1. p = Gui => ((orderly' /\ mem[p].then = Legacy)
                       => \E slot \in Slots : IsLegacy(written'[slot]))
    BY <1>1 DEF ProcessFits, EditorFits
  <2> QED
    BY <2>1, <1>1, <1>2, Overtaken
<1>5. ASSUME NEW n \in Names["sftp"] PROVE KeyKept(n)'
  <2> DEFINE slot == <<"sftp", n>>
             key == keys[KeyFile[n]]
  <2>0. slot \in Slots
    BY SlotFacts DEF Kinds
  <2> SUFFICES ASSUME orderly, p \notin astray,
                      \A other \in Names["sftp"] \ {n} : KeyFile[other] # KeyFile[n]
               PROVE  /\ Keepers(n)' = {} => FitsKey(mem[p].copy[slot], key)
                      /\ \A s \in Sessions \ astray' : Keepers(n)' # {s}
    BY <1>1, <1>2 DEF KeyKept
  <2>1. p \notin Keepers(n)'
    BY <1>1, <1>2, GuiAssumption DEF Keepers
  <2>2. \A s \in Sessions \ {p} : s \in Keepers(n)' <=> s \in Keepers(n)
    BY <1>2 DEF Keepers, Processes
  <2>3. ASSUME NEW s \in Sessions \ astray' PROVE Keepers(n)' # {s}
    <3>1. s \in Keepers(n)' => (s # p /\ pc[s] \in {"keyed", "opened"} /\ s \in Active)
      BY <2>1, <1>2 DEF Keepers, Active, Processes
    <3> QED
      BY <3>1, <2>3, <1>1
  <2>4. ASSUME Keepers(n)' = {} PROVE FitsKey(mem[p].copy[slot], key)
    <3>1. CASE p \in Keepers(n)
      <4>1. Keepers(n) = {p} /\ p \in Sessions
        BY <3>1, <2>2, <2>4 DEF Keepers
      <4> QED
        BY <4>1 DEF ConfigInv, KeyKept
    <3>2. CASE p \notin Keepers(n)
      <4>1. Keepers(n) = {}
        BY <3>2, <2>2, <2>4 DEF Keepers
      <4>2. FitsKey(written[slot], key)
        BY <4>1 DEF ConfigInv, KeyKept
      <4>3. CopyFits(p) /\ HasCopy(p)
        BY <1>1 DEF ProcessFits, HasCopy
      <4>4. CASE mem[p].meant # slot
        BY <4>2, <4>3, <4>4, <2>0 DEF CopyFits
      <4>5. CASE mem[p].meant = slot
        <5>1. p # Gui
          BY <4>5, <2>0, <1>1 DEF ProcessFits, GuiSlots, NoSlot
        <5>2. p \in Sessions /\ mem[p].carried = NoProfile
          BY <5>1, <4>5, <3>2, <1>1 DEF Keepers, Processes
        <5>3. KeyOf(mem[p].copy[slot]) \in {"none", KeyOf(written[slot])}
          BY <5>2, <4>3, <4>5 DEF CopyFits
        <5> QED
          BY <5>3, <4>2 DEF FitsKey
      <4> QED
        BY <4>4, <4>5
    <3> QED
      BY <3>1, <3>2
  <2> QED
    BY <2>3, <2>4
<1> QED
  BY <1>1, <1>3, <1>4, <1>5 DEF ConfigInv

(* A save that is cut off: before the file is emptied, only its process is *)
(* concerned; afterwards everybody is.                                     *)
LEMMA CutOffKeeps ==
    ASSUME ConfigInv, NEW p \in Processes, SaveFails(p) \/ (p = Gui /\ GuiKilled)
    PROVE  ConfigInv'
<1> DEFINE same == [mem[p] EXCEPT !.provider = mem[p].provider]
<1>1. /\ CutOff(p) /\ ProcessFits(p)
      /\ UNCHANGED <<stored, parses, keys, refused>>
      /\ pc' = [q \in Processes |-> pc'[q]] /\ mem' = [q \in Processes |-> mem'[q]]
      /\ refused' = {}
  BY DEF SaveFails, GuiKilled, CutOff, AfterSave, Exits, ConfigInv, FileFits
<1>2. \/ /\ p = Gui /\ pc' = [pc EXCEPT ![p] = "open"]
         /\ mem' = [mem EXCEPT ![p] = same]
      \/ /\ p = Gui /\ pc' = [pc EXCEPT ![p] = "idle"]
         /\ mem' = [mem EXCEPT ![p] = NoMemory]
      \/ /\ p # Gui /\ pc' = [pc EXCEPT ![p] = "done"]
         /\ mem' = [mem EXCEPT ![p] = NoMemory]
  BY DEF SaveFails, GuiKilled, AfterSave, Exits
<1>3. /\ \A q \in Processes \ {p} : mem'[q] = mem[q] /\ pc'[q] = pc[q]
      /\ \/ p = Gui /\ pc'[p] = "open" /\ mem'[p] = same
         \/ p = Gui /\ pc'[p] = "idle" /\ mem'[p] = NoMemory
         \/ p # Gui /\ pc'[p] = "done" /\ mem'[p] = NoMemory
  BY <1>2 DEF ConfigInv, FileFits
<1>4. CASE pc[p] = "opened"
  <2>1. orderly' = FALSE /\ written' = stored /\ astray' = Active
    BY <1>1, <1>4 DEF CutOff
  <2>2. FileFits'
    BY <2>1, <1>1 DEF FileFits, ConfigInv, Active
  <2>3. p \in astray' /\ Active \ {p} \subseteq astray'
    BY <2>1, <1>4 DEF Active
  <2>4. pc' = [pc EXCEPT ![p] = IF p = Gui THEN IF pc'[p] = "open" THEN "open" ELSE "idle"
                                           ELSE "done"]
    BY <1>2, <1>3
  <2>5. \A q \in Processes : ProcessFits(q)'
    BY <2>1, <2>3, <2>4, <1>3, <1>4, Overtaken
  <2>6. \A n : KeyKept(n)'
    BY <2>1 DEF KeyKept
  <2> QED
    BY <2>2, <2>5, <2>6, <1>1 DEF ConfigInv
<1>5. CASE pc[p] = "keyed"
  <2>1. p # Gui /\ orderly' = FALSE /\ UNCHANGED <<written, astray>>
    BY <1>1, <1>5 DEF CutOff, ProcessFits
  <2>2. FileFits'
    BY <2>1, <1>1, <1>3, <1>5 DEF FileFits, ConfigInv
  <2>3. ASSUME NEW q \in Processes PROVE ProcessFits(q)'
    <3>1. CASE q = p
      BY <3>1, <2>1, <1>3, NothingFits
         DEF ProcessFits, CopyFits, HasCopy, SaveFits, Savable, WillSave, EditorFits
    <3>2. CASE q # p
      BY <3>2, <2>1, <1>1, <1>3
         DEF ConfigInv, ProcessFits, CopyFits, HasCopy, SaveFits, Savable, WillSave, EditorFits
    <3> QED
      BY <3>1, <3>2
  <2>4. \A n : KeyKept(n)'
    BY <2>1 DEF KeyKept
  <2> QED
    BY <2>2, <2>3, <2>4, <1>1 DEF ConfigInv
<1>6. CASE pc[p] = "saving"
  <2>1. /\ p = Gui /\ p \notin Sessions
        /\ UNCHANGED <<written, orderly>> /\ astray' = astray \cup {p}
    BY <1>1, <1>6, GuiAssumption DEF CutOff, ProcessFits, ConfigInv, FileFits
  <2>2. PICK c, m : /\ pc' = [pc EXCEPT ![p] = c] /\ mem' = [mem EXCEPT ![p] = m]
                    /\ c \in {"open", "idle"}
    BY <2>1, <1>2
  <2>3. ProcessFits(p)'
    <3>1. MemoryFits(mem'[p], p) /\ pc'[p] \in {"open", "idle"}
      BY <2>1, <1>1, <1>3, NothingFits, GoesOn DEF ProcessFits
    <3>2. pc'[p] = "open" => mem'[p].meant \in GuiSlots \cup {NoSlot}
      <4>1. MemoryFits(mem[p], p) /\ mem[p].meant \in GuiSlots \cup {NoSlot}
        BY <2>1, <1>1, <1>6 DEF ProcessFits
      <4>2. same.meant = mem[p].meant
        BY <4>1, GoesOn
      <4> QED
        BY <4>1, <4>2, <2>1, <1>3
    <3>3. p \in astray'
      BY <2>1
    <3> QED
      BY <3>1, <3>2, <3>3, <2>1 DEF ProcessFits, CopyFits, SaveFits, Savable, WillSave, EditorFits
  <2>4. /\ astray' \subseteq Processes
        /\ \A q \in Processes \ {p} : q \in astray' <=> q \in astray
    BY <2>1 DEF ConfigInv, FileFits
  <2> QED
    BY <2>1, <2>2, <2>3, <2>4, <1>1, <1>6, PrivateStep
<1> QED
  BY <1>1, <1>4, <1>5, <1>6 DEF CutOff

-----------------------------------------------------------------------------
LEMMA ConfigNextKeeps == ConfigInv /\ [Next]_vars => ConfigInv'
<1> SUFFICES ASSUME ConfigInv, [Next]_vars PROVE ConfigInv'
  OBVIOUS
<1>1. ASSUME NEW s \in Sessions, SessionNext(s) PROVE ConfigInv'
  <2>1. CASE Fails(s)
    BY <2>1, EndsKeeps DEF Fails, fileVars, ConfigInv
  <2>2. CASE Done(s)
    BY <2>2, EndsKeeps DEF Done, fileVars, ConfigInv
  <2>3. CASE KeepsKey(s)
    BY <2>3, KeepsKeyKeeps
  <2> QED
    BY <1>1, <2>1, <2>2, <2>3, StartsKeeps DEF SessionNext
<1>2. ASSUME GuiNext PROVE ConfigInv'
  <2>1. CASE GuiOpens
    BY <2>1, GuiOpensKeeps
  <2>2. CASE GuiCloses
    BY <2>2, GuiClosesKeeps
  <2>3. CASE GuiKilled
    BY <2>3, CutOffKeeps DEF Processes
  <2>4. ASSUME NEW slot \in GuiSlots, SaveProfile(slot) PROVE ConfigInv'
    BY <2>4, SaveProfileKeeps
  <2>5. ASSUME NEW slot \in GuiSlots, DeleteProfile(slot) PROVE ConfigInv'
    BY <2>5, DeleteProfileKeeps
  <2> QED
    BY <1>2, <2>1, <2>2, <2>3, <2>4, <2>5 DEF GuiNext
<1>3. ASSUME NEW p \in Processes, OpensFile(p) \/ WritesFile(p) \/ SaveFails(p)
      PROVE  ConfigInv'
  BY <1>3, OpensFileKeeps, WritesFileKeeps, CutOffKeeps
<1>4. CASE UNCHANGED vars
  <2> USE <1>4 DEF vars, fileVars
  <2>1. FileFits'
    BY DEF ConfigInv, FileFits
  <2>2. ASSUME NEW p \in Processes PROVE ProcessFits(p)'
    BY DEF ConfigInv, ProcessFits, CopyFits, HasCopy, SaveFits, Savable, WillSave, EditorFits
  <2>3. ASSUME NEW n \in Names["sftp"] PROVE KeyKept(n)'
    BY DEF ConfigInv, KeyKept, Keepers
  <2> QED
    BY <2>1, <2>2, <2>3 DEF ConfigInv
<1> QED
  BY <1>1, <1>2, <1>3, <1>4 DEF Next

(* ConfigInv holds always: whoever has not been overtaken holds the file   *)
(* as it was written last, but for the slot its user means.                *)
THEOREM ConfigInvariance == Spec => []ConfigInv
<1> QED
  BY ConfigInitially, ConfigNextKeeps, PTL DEF Spec

(* ii.toml and the key files are whole and agree with each other, unless a *)
(* save was cut off or went astray.                                        *)
THEOREM DiskIsWhole == Spec => []DiskAgrees
<1>1. ConfigInv => DiskAgrees
  <2> SUFFICES ASSUME ConfigInv PROVE DiskAgrees
    OBVIOUS
  <2>1. TypeOK
    <3>1. \A p \in Processes : pc[p] \in {"idle", "working", "keyed", "saving", "open", "opened", "done"}
      BY DEF ConfigInv, ProcessFits
    <3>2. \A slot \in Slots : /\ stored[slot].kind \in {"none", slot[1]}
                              /\ written[slot].kind \in {"none", slot[1]}
      BY DEF ConfigInv, FileFits, Contents, Shaped, NoProfile
    <3>3. \A p \in Processes : /\ mem[p].meant \in Slots \cup {NoSlot}
                               /\ mem[p].save \in BOOLEAN
                               /\ mem[p].carried.kind \in {"none", "sftp"}
      BY DEF ConfigInv, ProcessFits, MemoryFits, Usable, Shaped, NoProfile
    <3> QED
      BY <3>1, <3>2, <3>3 DEF TypeOK, ConfigInv, FileFits
  <2>2. FileIsWhole
    BY DEF FileIsWhole, ConfigInv, FileFits
  <2>3. KeyFits
    <3> SUFFICES ASSUME NEW n \in Names["sftp"], orderly,
                        ~\E other \in Names["sftp"] \ {n} : KeyFile[other] = KeyFile[n],
                        ~\E s \in Sessions : /\ mem[s].meant = <<"sftp", n>>
                                             /\ pc[s] \in {"keyed", "opened"},
                        written[<<"sftp", n>>] # NoProfile,
                        written[<<"sftp", n>>].auth = "private-key",
                        written[<<"sftp", n>>].private_key_path \in Tickets
                 PROVE  keys[KeyFile[n]] = written[<<"sftp", n>>].private_key_path
      BY DEF KeyFits
    <3>1. Keepers(n) = {}
      BY DEF Keepers
    <3>2. FitsKey(written[<<"sftp", n>>], keys[KeyFile[n]])
      BY <3>1 DEF ConfigInv, KeyKept
    <3> QED
      BY <3>2, TicketsAssumption DEF FitsKey, KeyOf
  <2> QED
    BY <2>1, <2>2, <2>3 DEF DiskAgrees
<1> QED
  BY <1>1, ConfigInvariance, PTL

(* prompt_*_profile asks for all that validate_*_profile wants.            *)
THEOREM PromptsSuffice == Spec => []OnlyMalformedFails
<1>1. ConfigInv => OnlyMalformedFails
  BY DEF ConfigInv, OnlyMalformedFails
<1> QED
  BY <1>1, ConfigInvariance, PTL

(* Every step but the second half of a save leaves alone what was written, *)
(* and who has the file open.                                              *)
LEMMA FileKept ==
    ASSUME ConfigInv, Next
    PROVE  \/ \E p \in Processes : WritesFile(p) \/ CutOff(p)
           \/ /\ UNCHANGED <<written, faults>>
              /\ \A p \in Processes : pc[p] = "opened" => pc'[p] = "opened"
<1> DEFINE Untouched == /\ UNCHANGED <<written, faults>>
                   /\ \A p \in Processes : pc[p] = "opened" => pc'[p] = "opened"
<1>1. ASSUME NEW s \in Sessions, SessionNext(s) PROVE Untouched
  <2>1. /\ UNCHANGED <<written, faults>>
        /\ pc[s] \in {"idle", "working"}
        /\ \E c : pc' = [pc EXCEPT ![s] = c]
    <3>1. CASE Fails(s) \/ Done(s) \/ KeepsKey(s)
      BY <3>1 DEF Fails, Done, KeepsKey, LoadFails, Ends, fileVars
    <3>2. ASSUME NEW slot, NEW outcomes, WithProfile(s, slot, outcomes) PROVE <2>1
      BY <3>2 DEF WithProfile, Starts, Selects, LoadFails, Ends, Works, Unaffected, fileVars
    <3>3. ASSUME NEW slot, NEW r, WithTicket(s, slot, r) PROVE <2>1
      BY <3>3 DEF WithTicket, Starts, InsertsTicket, RefusesTicket, LoadFails, Ends, Works,
                  Unaffected, fileVars
    <3>4. ASSUME NEW slot, SftpTicket(s, slot) PROVE <2>1
      BY <3>4 DEF SftpTicket, Starts, RefusesTicket, Ends, Works, Unaffected, fileVars
    <3> QED
      BY <1>1, <3>1, <3>2, <3>3, <3>4
         DEF SessionNext, SendS3, SendR2, SendAzure, SendWebDav, SendFtp, SendSftp,
             RecvWebDav, RecvFtp, RecvSftp
  <2> QED
    BY <2>1 DEF ConfigInv, FileFits
<1>2. ASSUME GuiNext, ~GuiKilled PROVE Untouched
  <2>1. /\ UNCHANGED <<written, faults>>
        /\ pc[Gui] \in {"idle", "open"}
        /\ \E c : pc' = [pc EXCEPT ![Gui] = c]
    BY <1>2 DEF GuiNext, GuiOpens, GuiCloses, SaveProfile, DeleteProfile, fileVars
  <2> QED
    BY <2>1 DEF ConfigInv, FileFits
<1>3. ASSUME NEW p \in Processes, OpensFile(p) PROVE Untouched
  BY <1>3 DEF OpensFile, ConfigInv, FileFits
<1> QED
  BY <1>1, <1>2, <1>3 DEF Next, SaveFails, GuiKilled, Processes

LEMMA FaultsCounted == Spec => [](faults \in Nat)
<1>1. Init => faults \in Nat
  BY DEF Init
<1>2. faults \in Nat /\ [Next]_vars => (faults \in Nat)'
  <2> SUFFICES ASSUME faults \in Nat, [Next]_vars, faults' # faults PROVE faults' \in Nat
    OBVIOUS
  <2>1. ASSUME NEW p, CutOff(p) PROVE faults' \in Nat
    BY <2>1 DEF CutOff
  <2>2. ASSUME NEW s \in Sessions, SessionNext(s) PROVE faults' = faults
    BY <2>2 DEF SessionNext, SendS3, SendR2, SendAzure, SendWebDav, SendFtp, SendSftp,
                RecvWebDav, RecvFtp, RecvSftp, WithProfile, WithTicket, SftpTicket, Unaffected,
                Fails, Done, KeepsKey
  <2>3. ASSUME GuiNext, ~GuiKilled PROVE faults' = faults
    BY <2>3 DEF GuiNext, GuiOpens, GuiCloses, SaveProfile, DeleteProfile
  <2> QED
    BY <2>1, <2>2, <2>3 DEF Next, vars, OpensFile, WritesFile, SaveFails, GuiKilled
<1> QED
  BY <1>1, <1>2, PTL DEF Spec

(* save_config: a save that has not gone astray changes the slot its user  *)
(* means and no other.                                                     *)
THEOREM OthersStay == Spec => OtherProfilesKept
<1> DEFINE Keeps == \A p \in Processes :
               (pc[p] = "opened" /\ pc'[p] # "opened" /\ faults' = faults /\ p \notin astray)
                  => \A slot \in Slots \ {mem[p].meant} : written'[slot] = written[slot]
<1>1. ConfigInv /\ faults \in Nat /\ [Next]_vars => [Keeps]_vars
  <2> SUFFICES ASSUME ConfigInv, faults \in Nat, Next,
                      NEW p \in Processes, pc[p] = "opened", pc'[p] # "opened",
                      p \notin astray, NEW slot \in Slots, slot # mem[p].meant,
                      faults' = faults
               PROVE  written'[slot] = written[slot]
    BY DEF vars
  <2>1. CASE \E q \in Processes : WritesFile(q)
    <3>1. PICK q \in Processes : WritesFile(q)
      BY <2>1
    <3>2. q = p
      BY <3>1 DEF WritesFile, AfterSave, ConfigInv, FileFits
    <3>3. CopyFits(p) /\ HasCopy(p)
      BY DEF ConfigInv, ProcessFits, HasCopy
    <3> QED
      BY <3>1, <3>2, <3>3 DEF WritesFile, CopyFits
  <2>2. ~\E q \in Processes : CutOff(q)
    BY DEF CutOff
  <2> QED
    BY <2>1, <2>2, FileKept
<1> QED
  BY <1>1, ConfigInvariance, FaultsCounted, PTL DEF OtherProfilesKept, Spec

(* prompt_*_profile, validate_*_profile, save_profile_from_window: no save *)
(* that has not gone astray puts a profile into the file that cannot be    *)
(* used as it is, but for a legacy provider that the GUI hands on from     *)
(* another profile, and for what a WebDAV ticket does not say.             *)
THEOREM SavesFit == Spec => SavesAreUsable
<1> DEFINE Fits == orderly' => \A slot \in Slots :
              LET p == written'[slot]
              IN  \/ p \in {NoProfile, written[slot]}
                  \/ /\ Valid(p)
                     /\ IsLegacy(p) => \E other \in Slots : IsLegacy(written[other])
                  \/ \E t \in Tickets : p \in WebDavFrom(t) /\ Taken(p)
<1>1. ConfigInv /\ [Next]_vars => [Fits]_vars
  <2> SUFFICES ASSUME ConfigInv, Next, orderly', NEW slot \in Slots
               PROVE  written'[slot] \in {NoProfile, written[slot]} \/ Savable(written'[slot])
    BY DEF vars, Savable
  <2>1. CASE \E q \in Processes : WritesFile(q)
    <3>1. PICK q \in Processes : WritesFile(q)
      BY <2>1
    <3>2. pc[q] = "opened" /\ orderly /\ q \notin astray /\ written' = mem[q].copy
      BY <3>1 DEF WritesFile
    <3>3. CopyFits(q) /\ HasCopy(q) /\ SaveFits(q) /\ WillSave(q)
      BY <3>2 DEF ConfigInv, ProcessFits, HasCopy, WillSave
    <3> QED
      BY <3>2, <3>3 DEF CopyFits, SaveFits
  <2>2. CASE \E q \in Processes : CutOff(q)
    BY <2>2 DEF CutOff, ConfigInv, FileFits
  <2> QED
    BY <2>1, <2>2, FileKept
<1> QED
  BY <1>1, ConfigInvariance, PTL DEF SavesAreUsable, Spec
=============================================================================
