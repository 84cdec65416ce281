-------------------------- MODULE ReservationStore --------------------------
(***************************************************************************)
(* The PostgreSQL tables the reservation services share, and the part of   *)
(* READ COMMITTED they rely on.  Every HTTP request and every batch of the *)
(* expiration worker is one process that runs one transaction.  A table    *)
(* keeps the committed version of each row and the version written by the  *)
(* transaction that holds the row's lock; statements of that transaction   *)
(* see the latter, all others the former.  Commit publishes the written    *)
(* versions of the rows a process has locked, Rollback forgets them.       *)
(*                                                                         *)
(* Columns that never change after the insert (owner, key, type, event,    *)
(* ticket, quantity, seats) are read from the request that inserts the     *)
(* row: reservation r is the one request r creates.                        *)
(***************************************************************************)
EXTENDS Integers, FiniteSets

CONSTANTS
  Requests,      \* the HTTP requests of a run; their order is the uuid order
  Workers,       \* the expiration worker processes
  Sessions, Users, Keys, Events, TicketTypes,
  Seats,         \* seat ids; their order is the uuid order
  TicketEvent,   \* the event each ticket type belongs to
  SeatEvent,     \* the event each seat belongs to
  Total,         \* ticket_types.total_quantity
  TTL,           \* reservation_ttl_seconds, in clock ticks
  BatchSize,     \* expiration_worker_batch_size
  MaxQuantity,   \* bound: the largest quantity a request asks for
  MaxTime,       \* bound: the last value of the clock
  MaxCrashes,    \* bound: how many processes may die
  Workloads,     \* the request payloads to check, one function per workload
  None

Absent == "absent"
Status == {"reserved", "confirmed", "cancelled", "expired"}
Active == {"reserved", "confirmed"}

Owner == [session : Sessions, user : Users \cup {None}]

QuantityPayload ==
  [op : {"quantity"}, by : Owner, key : Keys,
   event : Events, ticket : TicketTypes, quantity : 1..MaxQuantity]

SeatsPayload ==
  [op : {"seats"}, by : Owner, key : Keys,
   event : Events, seats : (SUBSET Seats) \ {{}}]

LifecyclePayload ==
  [op : {"get", "cancel", "confirm"}, by : Owner, target : Requests]

Payload == QuantityPayload \cup SeatsPayload \cup LifecyclePayload

Payloads == [Requests -> Payload]

Process == Requests \cup Workers

ASSUME StoreAssumption ==
  /\ Requests \subseteq Nat /\ IsFiniteSet(Requests)
  /\ Seats \subseteq Nat /\ IsFiniteSet(Seats)
  /\ Workers \cap Requests = {} /\ None \notin Process
  /\ TicketEvent \in [TicketTypes -> Events]
  /\ SeatEvent \in [Seats -> Events]
  /\ Total \in [TicketTypes -> Nat]
  /\ TTL \in Nat /\ BatchSize \in Nat \ {0} /\ MaxQuantity \in Nat \ {0}
  /\ MaxTime \in Nat /\ MaxCrashes \in Nat
  /\ Workloads \subseteq Payloads

-----------------------------------------------------------------------------
VARIABLES
  tickets,     \* ticket_types: the committed stock counters
  ticketsW,    \* ... as written by the transaction that holds the row lock
  ticketLock,  \* ... the process whose transaction holds the row lock
  resv,        \* reservations, with reservation_items and reservation_seats
  resvW,
  resvLock,
  seatLock,    \* seats: FOR UPDATE locks (their rows never change)
  req,         \* the payload of each request, picked by Init
  pc,          \* where each process is in its handler
  todo,        \* the rows a process has still to lock or to write, by id
  goal,        \* the status a lifecycle request is moving its target to
  stamp,       \* the expires_at a reserve request has computed
  reply,       \* the HTTP answer
  now,         \* the clock
  crashes

tables == <<tickets, ticketsW, ticketLock, resv, resvW, resvLock, seatLock>>
locals == <<pc, todo, goal, stamp, reply>>
env == <<req, now, crashes>>    \* what no handler changes
vars == <<tables, locals, env>>

TicketRow == [reserved : Nat, sold : Nat]

\* A reservation with its children: item is the status of its only
\* reservation_items row, hold[s] that of its reservation_seats row for seat s.
Row == [status : Status \cup {Absent}, expires : Nat,
        item : Status \cup {Absent}, hold : [Seats -> Status \cup {Absent}]]

NoHold == [s \in Seats |-> Absent]
NoRow == [status |-> Absent, expires |-> 0, item |-> Absent, hold |-> NoHold]

Code == {"PENDING", "OK", "ERROR", "INSUFFICIENT_STOCK", "SEATS_NOT_FOUND",
         "SEAT_UNAVAILABLE", "RESERVATION_NOT_FOUND",
         "RESERVATION_NOT_CANCELLABLE", "RESERVATION_NOT_CONFIRMABLE"}

Reply == [code : Code, id : Requests \cup {None},
          status : Status \cup {Absent, None}, children : SUBSET Status]

\* An answer that carries no reservation.
Answer(code) == [code |-> code, id |-> None, status |-> None, children |-> {}]

\* The statuses of the item and seat rows listed in a detail response.
Children(row) == ({row.item} \cup {row.hold[s] : s \in Seats}) \ {Absent}

-----------------------------------------------------------------------------
(* Transactions *)

FreeAlways(holder, p) == TRUE    \* mutant of Free: no FOR UPDATE
Free(holder, p) == holder \in {None, p}

\* Mutant of Unlock: the connection goes back to the pool with its seat locks.
UnlockRows(p) ==
  /\ ticketLock' = [t \in TicketTypes |->
                      IF ticketLock[t] = p THEN None ELSE ticketLock[t]]
  /\ resvLock' = [x \in Requests |->
                    IF resvLock[x] = p THEN None ELSE resvLock[x]]
  /\ UNCHANGED seatLock

Unlock(p) ==
  /\ ticketLock' = [t \in TicketTypes |->
                      IF ticketLock[t] = p THEN None ELSE ticketLock[t]]
  /\ resvLock' = [x \in Requests |->
                    IF resvLock[x] = p THEN None ELSE resvLock[x]]
  /\ seatLock' = [s \in Seats |->
                    IF seatLock[s] = p THEN None ELSE seatLock[s]]

Commit(p) ==
  /\ tickets' = [t \in TicketTypes |->
                   IF ticketLock[t] = p THEN ticketsW[t] ELSE tickets[t]]
  /\ resv' = [x \in Requests |-> IF resvLock[x] = p THEN resvW[x] ELSE resv[x]]
  /\ UNCHANGED <<ticketsW, resvW>>
  /\ Unlock(p)

Rollback(p) ==
  /\ ticketsW' = [t \in TicketTypes |->
                    IF ticketLock[t] = p THEN tickets[t] ELSE ticketsW[t]]
  /\ resvW' = [x \in Requests |-> IF resvLock[x] = p THEN resv[x] ELSE resvW[x]]
  /\ UNCHANGED <<tickets, resv>>
  /\ Unlock(p)

\* The request is answered and its session closed.
Done(r, answer) ==
  /\ reply' = [reply EXCEPT ![r] = answer]
  /\ pc' = [pc EXCEPT ![r] = "done"]
  /\ UNCHANGED <<todo, goal, stamp>>

Goto(p, label) == pc' = [pc EXCEPT ![p] = label]

\* ORDER BY id: x is the next of the rows S.
InAnyOrder(S, x) == x \in S      \* mutant of InIdOrder: no ORDER BY
InIdOrder(S, x) == x \in S /\ \A y \in S : x <= y

-----------------------------------------------------------------------------
(* ReservationRepository *)

\* The version of a ticket row a statement of p reads before it waits.
SeenTicket(p, t) == IF ticketLock[t] = p THEN ticketsW[t] ELSE tickets[t]

SetTicket(p, t, row) ==
  /\ ticketsW' = [ticketsW EXCEPT ![t] = row]
  /\ ticketLock' = [ticketLock EXCEPT ![t] = p]

\* reserve_ticket_quantity: the WHERE clause and the SET clause.
FitsUnsold(row, t, q) == Total[t] - row.sold >= q    \* mutant of Fits
Fits(row, t, q) == Total[t] - row.sold - row.reserved >= q
AddReserved(row, q) == [row EXCEPT !.reserved = @ + q]

\* release_reserved_quantity and confirm_reserved_quantity.
CanMove(row, t, q, target) ==
  /\ row.reserved >= q
  /\ target = "confirmed" => row.sold + row.reserved <= Total[t]

\* Mutants of MoveReserved: cancel and expiry restock nothing; a confirmation is
\* not counted as sold; the quantity is released twice.
MoveOnlySales(row, q, target) ==
  IF target = "confirmed" THEN [reserved |-> row.reserved - q, sold |-> row.sold + q]
  ELSE row
MoveNoSale(row, q, target) == [row EXCEPT !.reserved = @ - q]
MoveTwice(row, q, target) == [row EXCEPT !.reserved = @ - 2 * q]

MoveReserved(row, q, target) ==
  [reserved |-> row.reserved - q,
   sold |-> IF target = "confirmed" THEN row.sold + q ELSE row.sold]

\* Mutants of Owned: anybody's; the session's only; all anonymous visitors'.
OwnedByAnyone(r, x) == resv[x].status # Absent
OwnedBySession(r, x) ==
  resv[x].status # Absent /\ req[x].by.session = req[r].by.session
OwnedBySameUser(r, x) ==
  /\ resv[x].status # Absent
  /\ req[x].by.session = req[r].by.session \/ req[x].by.user = req[r].by.user

\* get_owned_reservation.
Owned(r, x) ==
  /\ resv[x].status # Absent
  /\ \/ req[x].by.session = req[r].by.session
     \/ req[r].by.user # None /\ req[x].by.user = req[r].by.user

\* Reservations whose header carries the (visitor_session, key) of request r.
SameKey(r) ==
  {x \in Requests \ {r} :
     /\ req[x].op \in {"quantity", "seats"}
     /\ req[x].by.session = req[r].by.session
     /\ req[x].key = req[r].key}

\* Mutant of Replays: the key is looked up without its visitor session.
ReplaysAnySession(r) ==
  {x \in Requests \ {r} :
     /\ req[x].op = req[r].op /\ req[x].key = req[r].key
     /\ Children(resv[x]) # {}}

\* get_quantity_by_idempotency_key and get_seats_by_idempotency_key: the inner
\* join finds a committed reservation of the type that has a child row.
Replays(r) ==
  {x \in SameKey(r) : req[x].op = req[r].op /\ Children(resv[x]) # {}}

Replay(r) == LET x == CHOOSE x \in Replays(r) : TRUE
             IN [code |-> "OK", id |-> x, status |-> resv[x].status,
                 children |-> {}]

Created(r) == [code |-> "OK", id |-> r, status |-> "reserved", children |-> {}]

\* Mutant of KeyTaken: the unique index is partial, on active reservations.
KeyTakenByActive(r) == \E x \in SameKey(r) : resv[x].status \in Active

\* uq_reservations_visitor_session_id_idempotency_key: an insert is refused by
\* a committed row and waits for one whose transaction is still open.
KeyTaken(r) == \E x \in SameKey(r) : resv[x].status # Absent
KeyPending(r) ==
  \E x \in SameKey(r) : resv[x].status = Absent /\ resvW[x].status # Absent

InsertReservation(r, item) ==
  /\ resvW' = [resvW EXCEPT ![r] = [status |-> "reserved", expires |-> stamp[r],
                                    item |-> item, hold |-> NoHold]]
  /\ resvLock' = [resvLock EXCEPT ![r] = r]

\* Where a process is: about to run the statement its label names.
QuantityLabels == {"q_lookup", "q_stock", "q_insert", "q_commit", "q_resolve"}
SeatsLabels == {"s_lookup", "s_lock", "s_parents", "s_insert", "s_holds",
                "s_commit", "s_resolve"}
LifecycleLabels == {"l_lock", "l_move", "l_commit"}
GetLabels == {"g_parent", "g_children"}
WorkerLabels == {"w_sleep", "w_move", "w_commit"}
Label == QuantityLabels \cup SeatsLabels \cup LifecycleLabels \cup GetLabels
           \cup WorkerLabels \cup {"done"}

TablesOK ==
  /\ tickets \in [TicketTypes -> TicketRow]
  /\ ticketsW \in [TicketTypes -> TicketRow]
  /\ ticketLock \in [TicketTypes -> Process \cup {None}]
  /\ resv \in [Requests -> Row]
  /\ resvW \in [Requests -> Row]
  /\ resvLock \in [Requests -> Process \cup {None}]
  /\ seatLock \in [Seats -> Process \cup {None}]

LocalsOK ==
  /\ pc \in [Process -> Label]
  /\ todo \in [Process -> SUBSET Nat]
  /\ \A w \in Workers : todo[w] \in SUBSET Requests
  /\ goal \in [Requests -> Status]
  /\ stamp \in [Requests -> Nat]
  /\ reply \in [Requests -> Reply]

EnvOK == req \in Payloads /\ now \in 0..MaxTime /\ crashes \in 0..MaxCrashes

TypeOK == TablesOK /\ LocalsOK /\ EnvOK
=============================================================================
