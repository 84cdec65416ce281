-------------------- MODULE ReservationLifecycleService ---------------------
(***************************************************************************)
(* ReservationLifecycleService: get, cancel and confirm of one owned       *)
(* reservation, and expire_batch run by the expiration worker's loop.      *)
(* Cancel, confirm and expiry all move a reservation and its children out  *)
(* of reserved under the lock of the parent row.                           *)
(***************************************************************************)
EXTENDS ReservationStore

(* _transition_reserved, for the transaction of process p *)

\* _transition_quantity: one item row and one guarded UPDATE of its stock row,
\* which waits for the row lock when the guard holds of the version it sees.
TransitionQuantity(p, x, target) ==
  LET t == req[x].ticket
      q == req[x].quantity
  IN /\ req[x].op = "quantity"
     /\ resvW[x].item = "reserved"
     /\ Free(ticketLock[t], p)
     /\ CanMove(ticketsW[t], t, q, target)
     /\ SetTicket(p, t, MoveReserved(ticketsW[t], q, target))
     /\ resvW' = [resvW EXCEPT ![x].status = target, ![x].item = target]

\* _transition_seats: every seat row, all of them reserved.
SeatsMovable(row) == Children(row) = {"reserved"}

\* Mutant of TransitionSeats: the seat rows are not written.
TransitionHeader(x, target) ==
  /\ req[x].op = "seats"
  /\ SeatsMovable(resvW[x])
  /\ resvW' = [resvW EXCEPT ![x].status = target]
  /\ UNCHANGED <<ticketsW, ticketLock>>

TransitionSeats(x, target) ==
  /\ req[x].op = "seats"
  /\ SeatsMovable(resvW[x])
  /\ resvW' = [resvW EXCEPT
       ![x].status = target,
       ![x].hold = [s \in Seats |-> IF @[s] = Absent THEN Absent ELSE target]]
  /\ UNCHANGED <<ticketsW, ticketLock>>

TransitionReserved(p, x, target) ==
  TransitionQuantity(p, x, target) \/ TransitionSeats(x, target)

\* ReservationInventoryConflictError: no child, a child that is not reserved,
\* or a guarded UPDATE that matches no row.
InventoryConflict(p, x, target) ==
  \/ /\ req[x].op = "quantity"
     /\ LET t == req[x].ticket
        IN \/ resvW[x].item # "reserved"
           \/ ~ CanMove(SeenTicket(p, t), t, req[x].quantity, target)
  \/ req[x].op = "seats" /\ ~ SeatsMovable(resvW[x])

-----------------------------------------------------------------------------
(* cancel and confirm *)

Refused(r) == Answer(IF req[r].op = "cancel" THEN "RESERVATION_NOT_CANCELLABLE"
                     ELSE "RESERVATION_NOT_CONFIRMABLE")

Wanted(r) == IF req[r].op = "cancel" THEN "cancelled" ELSE "confirmed"

Detail(x, row) == [code |-> "OK", id |-> x, status |-> row.status,
                   children |-> Children(row)]

NotFound(r) ==
  /\ pc[r] \in {"l_lock", "g_parent"}
  /\ ~ Owned(r, req[r].target)
  /\ Done(r, Answer("RESERVATION_NOT_FOUND"))
  /\ UNCHANGED <<tables, env>>

\* The row is settled already: replay it or refuse, and roll back.
LifecycleSettled(r) ==
  LET x == req[r].target
  IN /\ pc[r] = "l_lock"
     /\ Owned(r, x) /\ Free(resvLock[x], r)
     /\ resv[x].status # "reserved"
     /\ Done(r, IF resv[x].status = Wanted(r) THEN Detail(x, resv[x])
                ELSE Refused(r))
     /\ UNCHANGED <<tables, env>>

AimAnytime(r, x) == Wanted(r)    \* mutant of Aim: confirm ignores the deadline
Aim(r, x) == IF resv[x].expires < now THEN "expired" ELSE Wanted(r)

\* The row is reserved: keep its lock and decide by the clock where it goes.
LifecycleLock(r) ==
  LET x == req[r].target
  IN /\ pc[r] = "l_lock"
     /\ Owned(r, x) /\ Free(resvLock[x], r)
     /\ resv[x].status = "reserved"
     /\ resvLock' = [resvLock EXCEPT ![x] = r]
     /\ goal' = [goal EXCEPT ![r] = Aim(r, x)]
     /\ Goto(r, "l_move")
     /\ UNCHANGED <<tickets, ticketsW, ticketLock, resv, resvW, seatLock,
                    todo, stamp, reply, env>>

LifecycleMove(r) ==
  /\ pc[r] = "l_move"
  /\ TransitionReserved(r, req[r].target, goal[r])
  /\ Goto(r, "l_commit")
  /\ UNCHANGED <<tickets, resv, resvLock, seatLock,
                 todo, goal, stamp, reply, env>>

LifecycleConflict(r) ==
  /\ pc[r] = "l_move"
  /\ InventoryConflict(r, req[r].target, goal[r])
  /\ Rollback(r)
  /\ Done(r, Refused(r))
  /\ UNCHANGED <<env>>

LifecycleCommit(r) ==
  /\ pc[r] = "l_commit"
  /\ Commit(r)
  /\ Done(r, IF goal[r] = "expired" THEN Refused(r)
             ELSE Detail(req[r].target, resvW[req[r].target]))
  /\ UNCHANGED <<env>>

-----------------------------------------------------------------------------
(* get: the header and the children are read by statements of their own *)

GetParent(r) ==
  LET x == req[r].target
  IN /\ pc[r] = "g_parent"
     /\ Owned(r, x)
     /\ reply' = [reply EXCEPT ![r].id = x, ![r].status = resv[x].status]
     /\ Goto(r, "g_children")
     /\ UNCHANGED <<tables, todo, goal, stamp, env>>

GetChildren(r) ==
  /\ pc[r] = "g_children"
  /\ Done(r, [reply[r] EXCEPT !.code = "OK",
                              !.children = Children(resv[req[r].target])])
  /\ UNCHANGED <<tables, env>>

Lifecycle(r) ==
  \/ NotFound(r) \/ LifecycleSettled(r) \/ LifecycleLock(r) \/ LifecycleMove(r)
  \/ LifecycleConflict(r) \/ LifecycleCommit(r) \/ GetParent(r) \/ GetChildren(r)

-----------------------------------------------------------------------------
(* expire_batch *)

\* ORDER BY expires_at, id.
Before(x, y) == \/ resv[x].expires < resv[y].expires
                \/ resv[x].expires = resv[y].expires /\ x < y

\* Mutants of Expirable: no FOR UPDATE SKIP LOCKED; a tick too late.
ExpirableUnlocked == {x \in Requests : resv[x].status = "reserved" /\ resv[x].expires < now}
ExpirableLate == {x \in Requests : /\ resv[x].status = "reserved"
                                   /\ resv[x].expires + 1 < now
                                   /\ resvLock[x] = None}

\* lock_expired_reservations: stale rows nobody has locked, the oldest first.
Expirable == {x \in Requests : /\ resv[x].status = "reserved"
                               /\ resv[x].expires < now
                               /\ resvLock[x] = None}

Batch == {x \in Expirable :
            Cardinality({y \in Expirable : Before(y, x)}) < BatchSize}

WorkerIdle(w) ==
  /\ pc[w] = "w_sleep" /\ Batch = {}
  /\ UNCHANGED <<tables, locals, env>>

WorkerLock(w) ==
  /\ pc[w] = "w_sleep" /\ Batch # {}
  /\ resvLock' = [x \in Requests |-> IF x \in Batch THEN w ELSE resvLock[x]]
  /\ todo' = [todo EXCEPT ![w] = Batch]
  /\ Goto(w, "w_move")
  /\ UNCHANGED <<tickets, ticketsW, ticketLock, resv, resvW, seatLock,
                 goal, stamp, reply, env>>

\* The reservation the loop has come to.
NextUp(w, x) == x \in todo[w] /\ \A y \in todo[w] \ {x} : Before(x, y)

\* Mutant of WorkerMove: without savepoints an inconsistent row fails the batch.
WorkerMoveAllOrNothing(w) ==
  /\ pc[w] = "w_move"
  /\ \E x \in todo[w] :
       /\ NextUp(w, x)
       /\ \/ /\ TransitionReserved(w, x, "expired")
             /\ todo' = [todo EXCEPT ![w] = @ \ {x}]
             /\ Goto(w, IF todo[w] = {x} THEN "w_commit" ELSE "w_move")
             /\ UNCHANGED <<tickets, resv, resvLock, seatLock>>
          \/ /\ InventoryConflict(w, x, "expired")
             /\ Rollback(w)
             /\ todo' = [todo EXCEPT ![w] = {}]
             /\ Goto(w, "w_sleep")
  /\ UNCHANGED <<goal, stamp, reply, env>>

\* It is expired in a savepoint of its own; an inconsistent one is skipped.
WorkerMove(w) ==
  /\ pc[w] = "w_move"
  /\ \E x \in todo[w] :
       /\ NextUp(w, x)
       /\ \/ TransitionReserved(w, x, "expired")
          \/ /\ InventoryConflict(w, x, "expired")
             /\ UNCHANGED <<ticketsW, ticketLock, resvW>>
       /\ todo' = [todo EXCEPT ![w] = @ \ {x}]
       /\ Goto(w, IF todo[w] = {x} THEN "w_commit" ELSE "w_move")
  /\ UNCHANGED <<tickets, resv, resvLock, seatLock,
                 goal, stamp, reply, env>>

WorkerCommit(w) ==
  /\ pc[w] = "w_commit"
  /\ Commit(w)
  /\ Goto(w, "w_sleep")
  /\ UNCHANGED <<todo, goal, stamp, reply, env>>

ExpireBatch(w) ==
  WorkerIdle(w) \/ WorkerLock(w) \/ WorkerMove(w) \/ WorkerCommit(w)
=============================================================================
