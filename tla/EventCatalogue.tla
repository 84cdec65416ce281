--------------------------- MODULE EventCatalogue ---------------------------
(***************************************************************************)
(* The rows of events, ticket types, seats and reservations as they come   *)
(* and go: EventService creates the catalogue, StressAdminService seeds an *)
(* event and resets all seeded ones, while reservations are made and       *)
(* settled.  What a row says is left to ReservationSystem; here it exists  *)
(* or not, refers to other rows, and is locked.  The foreign keys decide   *)
(* what an insert must find, and what a delete takes along (CASCADE) or    *)
(* must not leave behind (RESTRICT).                                       *)
(*                                                                         *)
(* A call is one request and one transaction; a row is named by the call   *)
(* that inserts it and by what it is.  An UPDATE, a DELETE and a FOR       *)
(* UPDATE lock a row for one transaction; an insert that refers to an      *)
(* event locks it against its deletion only (KEY SHARE).                   *)
(***************************************************************************)
EXTENDS Naturals, FiniteSets, Sequences, Functions

CONSTANTS
  Calls,       \* the requests of a run, and those that are over before it
  Positions,   \* section, row and number of a seat
  Workloads,   \* the payloads to check, one function per workload
  Before,      \* the calls that are over before the run
  MaxCrashes,  \* bound: how many processes may die
  None

EventPayload == [op : {"event"}, stress : BOOLEAN]    \* with the prefix or without
TicketPayload == [op : {"ticket"}, event : Calls]
SeatBatchPayload ==
  [op : {"seats"}, event : Calls,
   seats : {s \in Seq(Positions) : s # <<>> /\ IsInjective(s)}]
StressPayload == [op : {"seed"}, seats : SUBSET Positions] \cup [op : {"reset"}]
ReservationPayload ==
  [op : {"reserve"}, stock : Calls \X (Positions \cup {"ticket"})]
    \cup [op : {"settle"}, target : Calls]    \* cancel or confirm
Payload == EventPayload \cup TicketPayload \cup SeatBatchPayload
             \cup StressPayload \cup ReservationPayload

ASSUME CatalogueAssumption ==
  /\ IsFiniteSet(Calls) /\ IsFiniteSet(Positions)
  /\ Before \subseteq Calls /\ None \notin Calls
  /\ Positions \cap {"event", "ticket", "reservation", "child"} = {}
  /\ MaxCrashes \in Nat
  /\ \A load \in Workloads : DOMAIN load = Calls /\ \A c \in Calls : load[c] \in Payload

VARIABLES
  live,      \* the committed rows
  inserted,  \* the rows each open transaction has inserted
  locked,    \* ... has locked; those of a reset are deleted
  shared,    \* ... the event it has locked against deletion
  req, pc,
  todo,      \* the rows a statement has still to lock or to insert, in its order
  counted,   \* the seeded events a reset has counted
  reply, crashes

database == <<live, inserted, locked, shared>>
vars == <<database, req, pc, todo, counted, reply, crashes>>

-----------------------------------------------------------------------------
(* Rows and what they refer to *)

EventRow(c) == <<c, "event">>
ReservationRow(c) == <<c, "reservation">>
ChildRow(c) == <<c, "child">>      \* reservation_items or reservation_seats

\* The event a ticket type or seat belongs to.
StockEvent(x) == EventRow(IF req[x[1]].op = "seed" THEN x[1] ELSE req[x[1]].event)

EventOf(x) ==
  CASE x[2] = "event" -> x
    [] x[2] \in {"reservation", "child"} -> StockEvent(req[x[1]].stock)
    [] OTHER -> StockEvent(x)

\* ondelete CASCADE, and RESTRICT.
DeletedWith(x) ==
  CASE x[2] = "child" -> {ReservationRow(x[1])}
    [] x[2] \in Positions \cup {"ticket"} -> {EventOf(x)}
    [] OTHER -> {}

Restricts(x) ==
  CASE x[2] = "child" -> {req[x[1]].stock}
    [] x[2] = "reservation" -> {EventOf(x)}
    [] OTHER -> {}

\* uq_seats_event_id_section_row_name_seat_number.
SamePlace(x, y) ==
  x[2] \in Positions /\ x[2] = y[2] /\ StockEvent(x) = StockEvent(y)

\* The rows a call inserts.
Own(c) ==
  {c} \X (CASE req[c].op = "event" -> {"event"}
            [] req[c].op = "seed" -> {"event", "ticket"} \cup req[c].seats
            [] req[c].op = "ticket" -> {"ticket"}
            [] req[c].op = "seats" -> Range(req[c].seats)
            [] req[c].op = "reserve" -> {"reservation", "child"}
            [] OTHER -> {})

\* Event.name.startswith(STRESS_EVENT_PREFIX).
Stress(e) == req[e[1]].op = "seed" \/ req[e[1]].stress

-----------------------------------------------------------------------------
(* Locks *)

Running == Calls \ Before

\* The rows the next statement of a call locks or refers to, the event it
\* inserts rows of, or the rows that a foreign key check of a reset finds.
Survivors(c) == {x \in live \ locked[c] : Restricts(x) \cap locked[c] # {}}

Needs(c) ==
  CASE todo[c] # <<>> -> {Head(todo[c])}
    [] pc[c] = "insert" ->
         {IF req[c].op = "reserve" THEN StockEvent(req[c].stock) ELSE EventRow(req[c].event)}
    [] pc[c] = "stock" -> {req[c].stock}
    [] pc[c] = "parent" -> {ReservationRow(req[c].target)}
    [] pc[c] = "counters" -> {req[req[c].target].stock}
    [] pc[c] = "child" -> {ChildRow(req[c].target)}
    [] pc[c] = "check" -> Survivors(c)
    [] OTHER -> {}

Deleted(c) == IF req[c].op = "reset" THEN locked[c] ELSE {}

WaitsFor(c, d) ==
  /\ c # d
  /\ \/ Needs(c) \cap locked[d] # {}
     \/ pc[c] = "events" /\ shared[d] \in Needs(c)
     \/ pc[c] = "seat" /\ \E x \in inserted[d] \cup Deleted(d) :
                            \E y \in Needs(c) : SamePlace(x, y)

Ready(c) == \A d \in Running : ~ WaitsFor(c, d)
Waiting == {c \in Running : ~ Ready(c)}

Lock(c, S) == locked' = [locked EXCEPT ![c] = @ \cup S]

Release(c) ==
  /\ inserted' = [inserted EXCEPT ![c] = {}]
  /\ locked' = [locked EXCEPT ![c] = {}]
  /\ shared' = [shared EXCEPT ![c] = None]

Commit(c) == live' = (live \cup inserted[c]) \ Deleted(c) /\ Release(c)
Rollback(c) == UNCHANGED live /\ Release(c)

Goto(c, label) ==
  /\ pc' = [pc EXCEPT ![c] = label]
  /\ UNCHANGED <<todo, counted, reply>>

Answer(c, code) ==
  /\ reply' = [reply EXCEPT ![c] = code]
  /\ pc' = [pc EXCEPT ![c] = "done"]
  /\ todo' = [todo EXCEPT ![c] = <<>>]
  /\ UNCHANGED counted

Refuse(c, code) == Rollback(c) /\ Answer(c, code)

-----------------------------------------------------------------------------
(* EventService *)

\* create_event and seed: nobody knows the new rows before the commit.
CreateEvent(c) ==
  /\ pc[c] = "create"
  /\ live' = live \cup Own(c)
  /\ Goto(c, "refresh")
  /\ UNCHANGED <<inserted, locked, shared>>

Seed(c) ==
  /\ pc[c] = "seed"
  /\ live' = live \cup Own(c)
  /\ Answer(c, "OK")
  /\ UNCHANGED <<inserted, locked, shared>>

\* session.refresh of the rows the call has committed.
Refresh(c) ==
  /\ pc[c] = "refresh"
  /\ Answer(c, IF Own(c) \subseteq live THEN "OK" ELSE "ERROR")
  /\ UNCHANGED database

\* get_event, without a lock.
FindEvent(c) ==
  /\ pc[c] = "find"
  /\ \/ /\ EventRow(req[c].event) \in live
        /\ pc' = [pc EXCEPT ![c] = IF req[c].op = "seats" THEN "seat" ELSE "insert"]
        /\ todo' = [todo EXCEPT ![c] = IF req[c].op = "ticket" THEN <<>>
                      ELSE [i \in DOMAIN req[c].seats |-> <<c, req[c].seats[i]>>]]
        /\ UNCHANGED <<counted, reply>>
     \/ EventRow(req[c].event) \notin live /\ Answer(c, "EVENT_NOT_FOUND")
  /\ UNCHANGED database

Insert(c, x) ==
  /\ inserted' = [inserted EXCEPT ![c] = @ \cup {x}]
  /\ todo' = [todo EXCEPT ![c] = Tail(@)]
  /\ pc' = [pc EXCEPT ![c] = IF Tail(todo[c]) = <<>> THEN "insert" ELSE @]
  /\ UNCHANGED <<live, locked, shared, counted, reply>>

Occupied(x) == \E y \in live : SamePlace(x, y)

\* Mutants of InsertSeat: ON CONFLICT DO NOTHING; a conflict is tried again.
InsertFreeSeat(c) ==
  /\ pc[c] = "seat" /\ Ready(c)
  /\ IF Occupied(Head(todo[c])) /\ Len(todo[c]) > 1
     THEN todo' = [todo EXCEPT ![c] = Tail(@)] /\ UNCHANGED <<database, pc, counted, reply>>
     ELSE Insert(c, Head(todo[c]))

RetryBatch(c) ==
  /\ pc[c] = "seat" /\ Ready(c)
  /\ \/ ~ Occupied(Head(todo[c])) /\ Insert(c, Head(todo[c]))
     \/ /\ Occupied(Head(todo[c])) /\ Rollback(c)
        /\ pc' = [pc EXCEPT ![c] = "find"] /\ todo' = [todo EXCEPT ![c] = <<>>]
        /\ UNCHANGED <<counted, reply>>

\* One row of the INSERT of create_seats, in the client's order: the unique
\* index waits for open transactions, a taken position ends the call.
InsertSeat(c) ==
  /\ pc[c] = "seat" /\ Ready(c)
  /\ \/ ~ Occupied(Head(todo[c])) /\ Insert(c, Head(todo[c]))
     \/ Occupied(Head(todo[c])) /\ Refuse(c, "SEAT_ALREADY_EXISTS")

NoForeignKey(c) == TRUE    \* mutant of EventThere
EventThere(c) == Needs(c) \subseteq live

\* What becomes of an IntegrityError: create_seats and reserve take any for
\* the one they expect, create_ticket_type expects none.
RefusedInsert(c) ==
  CASE req[c].op = "seats" -> "SEAT_ALREADY_EXISTS"
    [] req[c].op = "reserve" -> "UNAVAILABLE"
    [] OTHER -> "ERROR"

\* The inserts that refer to an event.  The child of a reservation goes in with
\* it: it refers to rows its transaction has locked or inserted itself.
CheckEvent(c) ==
  /\ pc[c] = "insert" /\ Ready(c)
  /\ \/ /\ EventThere(c)
        /\ shared' = [shared EXCEPT ![c] = CHOOSE e \in Needs(c) : TRUE]
        /\ inserted' = [inserted EXCEPT ![c] = IF req[c].op = "seats" THEN @ ELSE Own(c)]
        /\ Goto(c, "commit")
        /\ UNCHANGED <<live, locked>>
     \/ ~ EventThere(c) /\ Refuse(c, RefusedInsert(c))

CommitCall(c) ==
  /\ pc[c] = "commit"
  /\ Commit(c)
  /\ IF req[c].op \in {"ticket", "seats"} THEN Goto(c, "refresh") ELSE Answer(c, "OK")

-----------------------------------------------------------------------------
(* Reservations, as far as their locks and rows go *)

\* The UPDATE of the ticket type or the FOR UPDATE of the seat: one that is in
\* stock and free, unless it is gone.
LockStock(c) ==
  /\ pc[c] = "stock" /\ Ready(c)
  /\ \/ req[c].stock \in live /\ Lock(c, Needs(c)) /\ Goto(c, "insert")
        /\ UNCHANGED <<live, inserted, shared>>
     \/ req[c].stock \notin live /\ Refuse(c, "UNAVAILABLE")

Settled(x) ==
  \E d \in Calls : req[d].op = "settle" /\ req[d].target = x /\ reply[d] = "OK"

\* get_owned_reservation ... FOR UPDATE.
LockParent(c) ==
  /\ pc[c] = "parent" /\ Ready(c)
  /\ LET x == req[c].target
     IN \/ /\ Needs(c) \subseteq live /\ ~ Settled(x)
           /\ Lock(c, Needs(c))
           /\ Goto(c, IF req[x].stock[2] = "ticket" THEN "counters" ELSE "child")
           /\ UNCHANGED <<live, inserted, shared>>
        \/ Needs(c) \subseteq live /\ Settled(x) /\ Refuse(c, "SETTLED")
        \/ ~ Needs(c) \subseteq live /\ Refuse(c, "RESERVATION_NOT_FOUND")

\* The UPDATE of the ticket type, then that of the child (neither can be gone
\* while the parent is locked).
LockNext(c) ==
  /\ pc[c] \in {"counters", "child"} /\ Ready(c)
  /\ Lock(c, Needs(c) \cap live)
  /\ Goto(c, IF pc[c] = "counters" THEN "child" ELSE "commit")
  /\ UNCHANGED <<live, inserted, shared>>

-----------------------------------------------------------------------------
(* StressAdminService.reset *)

StressEvents == {x \in live : x[2] = "event" /\ Stress(x)}

Count(c) ==
  /\ pc[c] = "count"
  /\ counted' = [counted EXCEPT ![c] = StressEvents]
  /\ pc' = [pc EXCEPT ![c] = "counted"]
  /\ UNCHANGED <<database, todo, reply>>

\* The statements in their order; "children" and "inventory" are the cascades of
\* the deletes before them, "check" stands for their RESTRICT checks.
Following ==
  [counted |-> "holds", holds |-> "items", items |-> "reservations",
   reservations |-> "children", children |-> "events", events |-> "inventory",
   inventory |-> "check"]

CountedEvents(c) == counted[c]     \* mutant of DeletedEvents: the events it counted

\* DELETE FROM events looks for the prefix again.
DeletedEvents(c) == StressEvents

\* What a statement deletes: the committed rows at its start.
Targets(c, statement) ==
  {x \in live \ locked[c] :
     CASE statement = "holds" ->
            x[2] = "child" /\ req[x[1]].stock[2] # "ticket" /\ Stress(EventOf(x))
       [] statement = "items" ->
            x[2] = "child" /\ req[x[1]].stock[2] = "ticket" /\ Stress(EventOf(x))
       [] statement = "reservations" -> x[2] = "reservation" /\ Stress(EventOf(x))
       [] statement = "events" -> x \in DeletedEvents(c)
       [] statement \in {"children", "inventory"} -> DeletedWith(x) \cap locked[c] # {}
       [] OTHER -> FALSE}

Orders(S) == {f \in [1..Cardinality(S) -> S] : Range(f) = S}

\* A statement starts when the one before has deleted its last row; it meets
\* its rows in no particular order.
StartDelete(c) ==
  /\ pc[c] \in DOMAIN Following /\ todo[c] = <<>>
  /\ pc' = [pc EXCEPT ![c] = Following[pc[c]]]
  /\ \E order \in Orders(Targets(c, Following[pc[c]])) :
       todo' = [todo EXCEPT ![c] = order]
  /\ UNCHANGED <<database, counted, reply>>

\* A row somebody else has deleted meanwhile is passed over.
DeleteRow(c) ==
  /\ pc[c] \in DOMAIN Following /\ todo[c] # <<>> /\ Ready(c)
  /\ Lock(c, {Head(todo[c])} \cap live)
  /\ todo' = [todo EXCEPT ![c] = Tail(@)]
  /\ UNCHANGED <<live, inserted, shared, pc, counted, reply>>

\* Nothing may refer to what is deleted; then the deletes are committed.
FinishReset(c) ==
  /\ pc[c] = "check" /\ Ready(c)
  /\ \/ Survivors(c) = {} /\ Commit(c) /\ Answer(c, "OK")
     \/ Survivors(c) # {} /\ Refuse(c, "ERROR")

-----------------------------------------------------------------------------
Step(c) ==
  /\ \/ CreateEvent(c) \/ Seed(c) \/ Refresh(c) \/ FindEvent(c) \/ InsertSeat(c)
     \/ CheckEvent(c) \/ CommitCall(c) \/ LockStock(c) \/ LockParent(c) \/ LockNext(c)
     \/ Count(c) \/ StartDelete(c) \/ DeleteRow(c) \/ FinishReset(c)
  /\ UNCHANGED <<req, crashes>>

\* PostgreSQL aborts one of the transactions that wait for one another.
DeadlockVictim(c) ==
  /\ \E D \in SUBSET Waiting :
       c \in D /\ \A x \in D : \E y \in D : WaitsFor(x, y)
  /\ Refuse(c, "ERROR")
  /\ UNCHANGED <<req, crashes>>

\* The process dies before the next statement, or its connection does.
Crash(c) ==
  /\ crashes < MaxCrashes /\ pc[c] # "done"
  /\ crashes' = crashes + 1
  /\ Refuse(c, "ERROR")
  /\ UNCHANGED req

First(c) ==
  CASE req[c].op = "event" -> "create"
    [] req[c].op = "seed" -> "seed"
    [] req[c].op \in {"ticket", "seats"} -> "find"
    [] req[c].op = "reserve" -> "stock"
    [] req[c].op = "settle" -> "parent"
    [] req[c].op = "reset" -> "count"

Init ==
  /\ req \in Workloads
  /\ live = UNION {Own(c) : c \in Before}
  /\ inserted = [c \in Calls |-> {}] /\ locked = [c \in Calls |-> {}]
  /\ shared = [c \in Calls |-> None]
  /\ pc = [c \in Calls |-> IF c \in Before THEN "done" ELSE First(c)]
  /\ todo = [c \in Calls |-> <<>>]
  /\ counted = [c \in Calls |-> {}]
  /\ reply = [c \in Calls |-> IF c \in Before THEN "OK" ELSE "PENDING"]
  /\ crashes = 0

Next ==
  \/ \E c \in Running : Step(c) \/ DeadlockVictim(c) \/ Crash(c)
  \/ (\A c \in Calls : pc[c] = "done") /\ UNCHANGED vars

\* A call goes on as long as it can; the deadlock detector always fires.
Fairness ==
  /\ \A c \in Running : WF_vars(Step(c))
  /\ WF_vars(\E c \in Running : DeadlockVictim(c))

Spec == Init /\ [][Next]_vars /\ Fairness

-----------------------------------------------------------------------------
(* Properties *)

\* A committed row refers to committed rows, also while a reset deletes the
\* event that somebody is adding to, and no two seats of an event have one
\* position.
ReferencesHold ==
  \A x \in live :
    /\ DeletedWith(x) \cup Restricts(x) \subseteq live
    /\ \A y \in live : SamePlace(x, y) => x = y

\* create_seats adds all its seats or none, and a reset takes all or none; the
\* answer says which: after SEAT_ALREADY_EXISTS there is none, after a success
\* there are all, for as long as there is the event.
SeatBatchesWhole ==
  \A c \in Calls : req[c].op = "seats" =>
    /\ Own(c) \cap live \in {{}, Own(c)}
    /\ reply[c] = "SEAT_ALREADY_EXISTS" => Own(c) \cap live = {}
    /\ reply[c] = "OK" /\ EventRow(req[c].event) \in live => Own(c) \subseteq live

\* Whatever is reserved, confirmed, seeded or reset meanwhile: a row disappears
\* only with its event, and only a seeded event disappears; and a reset that
\* answers has removed every event it has counted.
ResetsTakeWholeEvents ==
  [][/\ \A x \in live \ live' : EventOf(x) \notin live' /\ Stress(EventOf(x))
     /\ \A c \in Calls : req[c].op = "reset" /\ reply'[c] = "OK" =>
                         counted[c] \cap live' = {}]_vars

\* Every call is answered, though a reset may deadlock with reservations that
\* are made or settled, with another reset, and two batches of seats with each
\* other.
EveryCallAnswered == \A c \in Calls : <>(pc[c] = "done")

\* A client is told that a seat exists only when it does.
ConflictMeansExists ==
  [][\A c \in Calls :
       reply[c] = "PENDING" /\ reply'[c] = "SEAT_ALREADY_EXISTS" =>
         \E x \in Own(c) : Occupied(x)]_vars
=============================================================================
