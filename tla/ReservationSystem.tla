------------------------- MODULE ReservationSystem --------------------------
(***************************************************************************)
(* The API and the expiration workers over one database: every request of  *)
(* a workload and every worker runs its handler, statement by statement,   *)
(* interleaved with the others, with the clock, with process deaths and    *)
(* with PostgreSQL's deadlock detector.                                    *)
(***************************************************************************)
EXTENDS QuantityReservationService, SeatReservationService,
        ReservationLifecycleService

Entry(op) == CASE op = "quantity" -> "q_lookup"
               [] op = "seats" -> "s_lookup"
               [] op = "get" -> "g_parent"
               [] op \in {"cancel", "confirm"} -> "l_lock"

\* The database holds these rows and counters, and no transaction is open;
\* the requests that created the rows were answered earlier.
InitWith(rows, stock) ==
  /\ resv = rows /\ resvW = rows
  /\ tickets = stock /\ ticketsW = stock
  /\ ticketLock = [t \in TicketTypes |-> None]
  /\ resvLock = [x \in Requests |-> None]
  /\ seatLock = [s \in Seats |-> None]
  /\ pc = [p \in Process |-> IF p \in Workers THEN "w_sleep"
                           ELSE IF rows[p].status # Absent THEN "done"
                           ELSE Entry(req[p].op)]
  /\ todo = [p \in Process |-> {}]
  /\ goal = [r \in Requests |-> "reserved"]
  /\ stamp = [r \in Requests |-> 0]
  /\ reply = [r \in Requests |-> Answer("PENDING")]
  /\ now = 0 /\ crashes = 0

Init ==
  /\ req \in Workloads
  /\ InitWith([x \in Requests |-> NoRow],
              [t \in TicketTypes |-> [reserved |-> 0, sold |-> 0]])

-----------------------------------------------------------------------------
(* Which process the next statement of another one waits for *)

WaitsForTicket(p, q, x, target) ==
  /\ req[x].op = "quantity"
  /\ LET t == req[x].ticket
     IN /\ ticketLock[t] = q
        /\ resvW[x].item = "reserved"
        /\ CanMove(tickets[t], t, req[x].quantity, target)

WaitsFor(p, q) ==
  /\ p # q
  /\ \/ /\ pc[p] = "q_stock"
        /\ LET t == req[p].ticket
           IN /\ ticketLock[t] = q
              /\ TicketEvent[t] = req[p].event
              /\ Fits(tickets[t], t, req[p].quantity)
     \/ /\ pc[p] \in {"q_insert", "s_insert"}
        /\ ~ KeyTaken(p)
        /\ \E x \in SameKey(p) : resvLock[x] = q /\ resvW[x].status # Absent
     \/ /\ pc[p] = "s_lock"
        /\ \E s \in todo[p] : InIdOrder(todo[p], s) /\ seatLock[s] = q
     \/ /\ pc[p] = "s_parents"
        /\ \E x \in todo[p] : InIdOrder(todo[p], x) /\ resvLock[x] = q
     \/ /\ pc[p] = "s_holds"
        /\ \E s \in todo[p], x \in Requests :
              /\ InIdOrder(todo[p], s)
              /\ resvLock[x] = q
              /\ resvW[x].hold[s] # resv[x].hold[s]
              /\ {resvW[x].hold[s], resv[x].hold[s]} \cap Active # {}
     \/ /\ pc[p] = "l_lock"
        /\ Owned(p, req[p].target)
        /\ resvLock[req[p].target] = q
     \/ pc[p] = "l_move" /\ WaitsForTicket(p, q, req[p].target, goal[p])
     \/ /\ pc[p] = "w_move"
        /\ \E x \in todo[p] : NextUp(p, x) /\ WaitsForTicket(p, q, x, "expired")

Waiting == {p \in Process : \E q \in Process : WaitsFor(p, q)}

\* Processes that wait for one another.
Stuck(D) == D # {} /\ \A p \in D : \E q \in D : WaitsFor(p, q)

WaitCycle(D) == Stuck(D) /\ \A E \in SUBSET D : Stuck(E) => E = D

-----------------------------------------------------------------------------
(* The session of p ends without a commit: an exception other than those   *)
(* the services catch, or the death of the process.                        *)
Abort(p) ==
  /\ Rollback(p)
  /\ Goto(p, IF p \in Workers THEN "w_sleep" ELSE "done")
  /\ todo' = [todo EXCEPT ![p] = {}]
  /\ reply' = IF p \in Workers THEN reply
              ELSE [reply EXCEPT ![p] = Answer("ERROR")]
  /\ UNCHANGED <<goal, stamp, req, now>>

Crash(p) ==
  /\ crashes < MaxCrashes
  /\ pc[p] \notin {"done", "w_sleep"}
  /\ Abort(p)
  /\ crashes' = crashes + 1

\* After deadlock_timeout PostgreSQL fails one statement of a wait cycle.
DeadlockVictim(p) ==
  /\ \E D \in SUBSET Waiting : p \in D /\ WaitCycle(D)
  /\ Abort(p)
  /\ UNCHANGED crashes

Tick ==
  /\ now < MaxTime
  /\ now' = now + 1
  /\ UNCHANGED <<tables, locals, req, crashes>>

\* Every client has its answer; nothing is left to do but wait.
AllAnswered ==
  /\ \A r \in Requests : pc[r] = "done"
  /\ UNCHANGED <<tables, locals, env>>

Serve(r) == QuantityReserve(r) \/ SeatsReserve(r) \/ Lifecycle(r)

Next ==
  \/ \E r \in Requests : Serve(r)
  \/ \E w \in Workers : ExpireBatch(w)
  \/ \E p \in Process : Crash(p) \/ DeadlockVictim(p)
  \/ Tick
  \/ AllAnswered

\* A worker's loop goes on whenever the database lets it, the deadlock detector
\* always fires, and time passes.  A request goes on when its lock is free again
\* and again: it waits in the queue of the row while workers sleep in between.
Fairness ==
  /\ \A r \in Requests : SF_vars(Serve(r))
  /\ \A w \in Workers : WF_vars(ExpireBatch(w))
  /\ WF_vars(\E p \in Process : DeadlockVictim(p))
  /\ WF_vars(Tick)

Spec == Init /\ [][Next]_vars
FairSpec == Spec /\ Fairness

-----------------------------------------------------------------------------
(* Safety *)

\* The tickets of type t in item rows with status st, one unit each.
Units(rows, t, st) ==
  {u \in Requests \X (1..MaxQuantity) :
     /\ req[u[1]].op = "quantity" /\ req[u[1]].ticket = t
     /\ u[2] <= req[u[1]].quantity
     /\ rows[u[1]].item = st}

\* The counters of a ticket type are the quantities of its reserved and its
\* confirmed items: no step of reserve, confirm, cancel, expire_batch, retry,
\* crash or rollback loses or double-counts a unit.
StockAccounting ==
  \A t \in TicketTypes :
    /\ tickets[t].reserved = Cardinality(Units(resv, t, "reserved"))
    /\ tickets[t].sold = Cardinality(Units(resv, t, "confirmed"))

\* No committed or uncommitted stock row breaks sold + reserved <= total: the
\* guarded UPDATEs alone prevent overselling, the CHECK constraint never fires.
NeverOversold ==
  \A t \in TicketTypes :
    /\ tickets[t].sold + tickets[t].reserved <= Total[t]
    /\ ticketsW[t].sold + ticketsW[t].reserved <= Total[t]

\* A seat is in at most one active hold, in the committed rows and in what the
\* open transactions have written.
NoDoubleSeat ==
  \A s \in Seats : \A x, y \in Requests :
    /\ resv[x].hold[s] \in Active /\ resv[y].hold[s] \in Active => x = y
    /\ resvW[x].hold[s] \in Active /\ resvW[y].hold[s] \in Active => x = y

\* A row of request x and its children, short of the holds on the seats owed.
Agrees(x, row, owed) ==
  IF row.status = Absent THEN row = NoRow
  ELSE \/ /\ req[x].op = "quantity"
          /\ row.item = row.status /\ row.hold = NoHold
       \/ /\ req[x].op = "seats"
          /\ row.item = Absent
          /\ row.hold = [s \in Seats |-> IF s \in req[x].seats \ owed
                                        THEN row.status ELSE Absent]

\* A committed reservation and all its children have one status, and the
\* children are those the request asked for: nothing is half cancelled, half
\* confirmed or half expired, whichever of the four writers did it.
ParentChildAgreement == \A x \in Requests : Agrees(x, resv[x], {})

\* A reserve request answered with success names the one committed reservation
\* of its visitor session and key, of its own type, however many requests with
\* that key raced, failed or were retried.
IdempotentReplies ==
  \A r \in Requests :
    pc[r] = "done" /\ reply[r].code = "OK" /\ req[r].op \in {"quantity", "seats"} =>
      LET x == reply[r].id
      IN /\ resv[x].status # Absent /\ req[x].op = req[r].op
         /\ {y \in SameKey(r) \cup {r} : resv[y].status # Absent} = {x}

\* A cancel or confirm that was acknowledged stays done, in the header and in
\* the children.
AcknowledgedIsDurable ==
  \A r \in Requests :
    pc[r] = "done" /\ reply[r].code = "OK" /\ req[r].op \in {"cancel", "confirm"} =>
      /\ reply[r].children = {Wanted(r)}
      /\ resv[req[r].target].status = Wanted(r)
      /\ Children(resv[req[r].target]) = {Wanted(r)}

\* GET reads header and children in different statements: children are all
\* alike, and they agree with any header status other than reserved.
GetIsCoherent ==
  \A r \in Requests :
    pc[r] = "done" /\ reply[r].code = "OK" /\ req[r].op = "get" =>
      /\ Cardinality(reply[r].children) = 1
      /\ reply[r].status # "reserved" => reply[r].children = {reply[r].status}

\* The orders in which the handlers take row locks never close a cycle.
NoWaitCycle == ~ \E D \in SUBSET Waiting : Stuck(D)

\* Workers that skip the reservations another worker has locked never deadlock.
WorkersNeverDeadlock == ~ \E D \in SUBSET (Workers \cap Waiting) : Stuck(D)

\* A visitor is told SEAT_UNAVAILABLE only when another request has reserved or
\* confirmed one of the seats.
UnavailableMeansHeld ==
  \A r \in Requests :
    reply[r].code = "SEAT_UNAVAILABLE" =>
      \E x \in Requests \ {r} : /\ req[x].op = "seats"
                                /\ req[x].seats \cap req[r].seats # {}
                                /\ resv[x].status # Absent

\* Cancelled, expired and confirmed reservations never change again.
SettledIsFinal ==
  [][\A x \in Requests :
       resv[x].status \in Status \ {"reserved"} => resv'[x] = resv[x]]_vars

\* Only an overdue reservation expires, whoever expires it.
NoEarlyExpiry ==
  [][\A x \in Requests :
       resv'[x].status = "expired" /\ resv[x].status # "expired" =>
         resv[x].status = "reserved" /\ resv[x].expires <= now]_vars

\* The services implement the box office.
Office == INSTANCE BoxOffice WITH
            status <- [x \in Requests |-> resv[x].status],
            expires <- [x \in Requests |-> resv[x].expires]
ImplementsBoxOffice == Office!Spec

-----------------------------------------------------------------------------
(* Why the stock adds up: the inductive invariant behind StockAccounting *)

\* A request runs the handler of its payload.
HandlerMatches ==
  \A r \in Requests :
    /\ pc[r] \in QuantityLabels => req[r].op = "quantity"
    /\ pc[r] \in SeatsLabels => req[r].op = "seats"
    /\ pc[r] \in LifecycleLabels => req[r].op \in {"cancel", "confirm"}
    /\ pc[r] \in GetLabels => req[r].op = "get"

\* A row nobody has locked has one version.
UnlockedIsCommitted ==
  /\ \A t \in TicketTypes : ticketLock[t] = None => ticketsW[t] = tickets[t]
  /\ \A x \in Requests : resvLock[x] = None => resvW[x] = resv[x]

BeforeInsert == {"q_lookup", "q_stock", "q_insert",
                 "s_lookup", "s_lock", "s_parents", "s_insert"}

\* Until its insert a request has no row, committed or not.
NotYetInserted ==
  \A r \in Requests :
    pc[r] \in BeforeInsert =>
      /\ resv[r].status = Absent /\ resv[r].item = Absent
      /\ resvW[r].status = Absent /\ resvW[r].item = Absent

\* The stock row stays locked from the UPDATE to the insert, a new reservation
\* while its holds are inserted, and the parent row from its SELECT FOR UPDATE
\* to the transition, which leads out of reserved.
LocksHeld ==
  /\ \A r \in Requests : pc[r] = "q_insert" => ticketLock[req[r].ticket] = r
  /\ \A r \in Requests : pc[r] = "s_holds" => resvLock[r] = r
  /\ \A r \in Requests : pc[r] = "l_move" =>
       /\ resvLock[req[r].target] = r
       /\ resv[req[r].target].status = "reserved" /\ goal[r] # "reserved"
  /\ \A w \in Workers : pc[w] = "w_move" => \A x \in todo[w] :
       x \in Requests /\ resvLock[x] = w /\ resv[x].status = "reserved"

\* Whoever has changed an item holds the lock of its stock row as well as that
\* of its parent, so one commit publishes both or neither.
OneWriter ==
  \A x \in Requests :
    req[x].op = "quantity" /\ resvW[x].item # resv[x].item =>
      ticketLock[req[x].ticket] = resvLock[x]

\* The units an open transaction has counted in stock but not inserted yet.
Uninserted(t) ==
  LET r == ticketLock[t]
  IN IF r \in Requests /\ pc[r] = "q_insert" /\ req[r].ticket = t
     THEN req[r].quantity ELSE 0

\* The written versions add up too, short of the units not inserted yet.
WorkAccounting ==
  \A t \in TicketTypes :
    /\ ticketsW[t].reserved = Cardinality(Units(resvW, t, "reserved")) + Uninserted(t)
    /\ ticketsW[t].sold = Cardinality(Units(resvW, t, "confirmed"))

StockInv ==
  /\ HandlerMatches /\ UnlockedIsCommitted /\ NotYetInserted /\ LocksHeld
  /\ OneWriter /\ WorkAccounting /\ StockAccounting

-----------------------------------------------------------------------------
(* Why reservations settle once, whole, in time and without sharing a seat or *)
(* a key: the inductive invariant of the rows and their locks                 *)

\* From the insert of its row to the commit.
Inserting == {"q_commit", "s_holds", "s_commit"}

\* A row only the transaction that inserts it sees.
Inserted(x) ==
  /\ resv[x] = NoRow /\ resvLock[x] = x /\ pc[x] \in Inserting
  /\ resvW[x].status = "reserved" /\ resvW[x].expires = stamp[x]

\* Where the transaction of p moves the reservations it has locked.
Destination(p) == IF p \in Requests /\ pc[p] = "l_commit" THEN goal[p] ELSE "expired"

\* A reservation an open transaction has moved out of reserved.
MovedOut(x) ==
  /\ resv[x].status = "reserved"
  /\ resvW[x].status = Destination(resvLock[x])
  /\ resvW[x].expires = resv[x].expires
  /\ resvW[x].status = "expired" => resv[x].expires <= now

\* Nothing else is ever written: a settled row has one version for good.
WrittenRows == \A x \in Requests : resvW[x] = resv[x] \/ Inserted(x) \/ MovedOut(x)

InsertedRows ==
  \A r \in Requests :
    /\ pc[r] \in Inserting => Inserted(r)
    /\ pc[r] \in Inserting \cup {"q_insert", "s_parents", "s_insert"} =>
         TTL <= stamp[r] /\ stamp[r] <= now + TTL

\* Written rows agree with their children too; the seats a request has still to
\* hold are among those it asked for.
Owed(x) == IF pc[x] = "s_holds" THEN todo[x] ELSE {}

WrittenAgreement ==
  \A x \in Requests : /\ Agrees(x, resvW[x], Owed(x))
                      /\ pc[x] = "s_holds" => todo[x] \subseteq req[x].seats

OverdueHold(x) ==
  req[x].op = "seats" /\ resv[x].status # Absent /\ resv[x].expires <= now

\* What entitles p to the lock of row x: it expires the row or the holds of the
\* row, has inserted it, or moves it for its owner.
Entitled(p, x) ==
  \/ /\ p \in Workers /\ pc[p] \in {"w_move", "w_commit"}
     /\ resv[x].status = "reserved" /\ resv[x].expires < now
  \/ p \in Requests /\ p = x /\ pc[p] \in Inserting
  \/ /\ p \in Requests /\ pc[p] \in {"s_parents", "s_insert", "s_holds", "s_commit"}
     /\ OverdueHold(x)
  \/ /\ p \in Requests /\ pc[p] \in {"l_move", "l_commit"} /\ x = req[p].target
     /\ resv[x].status = "reserved"

RowLocks == \A x \in Requests : resvLock[x] # None => Entitled(resvLock[x], x)

StaleParents ==
  \A r \in Requests : pc[r] = "s_parents" =>
    \A x \in todo[r] : x \in Requests /\ OverdueHold(x)

\* A cancel or confirm owns the row it has locked, and expires it only when the
\* deadline has passed.
Intents ==
  \A r \in Requests : pc[r] \in {"l_move", "l_commit"} =>
    LET x == req[r].target
    IN /\ resvLock[x] = r /\ resv[x].status = "reserved" /\ Owned(r, x)
       /\ goal[r] \in {"expired", Wanted(r)}
       /\ goal[r] = "expired" => resv[x].expires < now
       /\ pc[r] = "l_commit" => resvW[x].status = goal[r]

\* No two rows, committed or not, carry one key of one visitor session.
KeysUnique ==
  \A r \in Requests :
    resvW[r].status # Absent => \A x \in SameKey(r) : resvW[x].status = Absent

\* A seat one transaction has written an active hold for is actively held by
\* another committed row only if that transaction is about to release it.
HoldsApart ==
  \A s \in Seats : \A x, y \in Requests :
    x # y /\ resvW[x].hold[s] \in Active /\ resv[y].hold[s] \in Active =>
      resvLock[x] = resvLock[y]

RowInv ==
  /\ WrittenRows /\ InsertedRows /\ WrittenAgreement /\ ParentChildAgreement
  /\ RowLocks /\ StaleParents /\ Intents /\ KeysUnique /\ NoDoubleSeat /\ HoldsApart

-----------------------------------------------------------------------------
(* Liveness *)

\* The workers release every overdue reservation nobody else settles, whatever
\* deadlocks and crashes their batches meet; a row they have to skip does not
\* keep them from releasing the others.
SoundEventuallyReleased ==
  \A x \in Requests :
    (resv[x].status = "reserved" /\ resv[x].expires < now
       /\ Children(resv[x]) = {"reserved"})
      ~> (resv[x].status # "reserved")

\* Every request is answered: no lock is leaked and nobody waits for ever.
EveryRequestAnswered == \A r \in Requests : <>(pc[r] = "done")
=============================================================================
