----------------------- MODULE SeatReservationService -----------------------
(***************************************************************************)
(* SeatReservationService.reserve: idempotency lookup, seat row locks one  *)
(* by one in id order, expiry of stale holds of those seats under their    *)
(* parents' locks, insert of header and holds, commit.                     *)
(***************************************************************************)
EXTENDS ReservationStore

SeatsLookup(r) ==
  /\ pc[r] = "s_lookup"
  /\ \/ Replays(r) # {} /\ Done(r, Replay(r))
     \/ /\ Replays(r) = {}
        /\ Goto(r, "s_lock")
        /\ todo' = [todo EXCEPT ![r] =
                      {s \in req[r].seats : SeatEvent[s] = req[r].event}]
        /\ UNCHANGED <<goal, stamp, reply>>
  /\ UNCHANGED <<tables, env>>

\* lock_event_seats: SELECT ... ORDER BY id FOR UPDATE takes the next row lock.
SeatsLock(r) ==
  /\ pc[r] = "s_lock" /\ todo[r] # {}
  /\ \E s \in todo[r] :
        /\ InIdOrder(todo[r], s)
        /\ Free(seatLock[s], r)
        /\ seatLock' = [seatLock EXCEPT ![s] = r]
        /\ todo' = [todo EXCEPT ![r] = @ \ {s}]
  /\ UNCHANGED <<tickets, ticketsW, ticketLock, resv, resvW, resvLock,
                 pc, goal, stamp, reply, env>>

SeatsMissing(r) ==
  /\ pc[r] = "s_lock" /\ todo[r] = {}
  /\ \E s \in req[r].seats : SeatEvent[s] # req[r].event
  /\ Rollback(r)
  /\ Done(r, Answer("SEATS_NOT_FOUND"))
  /\ UNCHANGED <<env>>

\* Mutant of StaleHolders: the deadline is not looked at.
HoldersOfAnyAge(r) ==
  {x \in Requests : \E s \in req[r].seats : resv[x].hold[s] = "reserved"}

\* The reservations expire_reservations_for_seats selects: a reserved hold on
\* a requested seat whose time has come.
StaleHolders(r) ==
  {x \in Requests : \E s \in req[r].seats :
     resv[x].hold[s] = "reserved" /\ resv[x].expires <= now}

\* All seats are locked: read the clock once, for the stale holds and the TTL.
SeatsStale(r) ==
  /\ pc[r] = "s_lock" /\ todo[r] = {}
  /\ \A s \in req[r].seats : SeatEvent[s] = req[r].event
  /\ todo' = [todo EXCEPT ![r] = StaleHolders(r)]
  /\ stamp' = [stamp EXCEPT ![r] = now + TTL]
  /\ Goto(r, IF StaleHolders(r) = {} THEN "s_insert" ELSE "s_parents")
  /\ UNCHANGED <<tables, goal, reply, env>>

\* Lock the parents in id order.
SeatsLockParent(r) ==
  /\ pc[r] = "s_parents" /\ todo[r] # {}
  /\ \E x \in todo[r] :
        /\ InIdOrder(todo[r], x)
        /\ Free(resvLock[x], r)
        /\ resvLock' = [resvLock EXCEPT ![x] = r]
        /\ todo' = [todo EXCEPT ![r] = @ \ {x}]
  /\ UNCHANGED <<tickets, ticketsW, ticketLock, resv, resvW, seatLock,
                 pc, goal, stamp, reply, env>>

ExpireActive(st) == IF st \in Active THEN "expired" ELSE st   \* mutant of ExpireStatus
ExpireStatus(st) == IF st = "reserved" THEN "expired" ELSE st

\* Mutant of ExpiredRow: the second UPDATE is missing.
ExpiredHolds(row) ==
  [row EXCEPT !.hold = [s \in Seats |-> ExpireStatus(row.hold[s])]]

ExpiredRow(row) ==
  [row EXCEPT !.status = ExpireStatus(@),
              !.hold = [s \in Seats |-> ExpireStatus(row.hold[s])]]

\* Both UPDATEs, on what is still reserved now that the parents are locked.
SeatsExpire(r) ==
  /\ pc[r] = "s_parents" /\ todo[r] = {}
  /\ resvW' = [x \in Requests |->
                 IF resvLock[x] = r THEN ExpiredRow(resvW[x]) ELSE resvW[x]]
  /\ Goto(r, "s_insert")
  /\ UNCHANGED <<tickets, ticketsW, ticketLock, resv, resvLock, seatLock,
                 todo, goal, stamp, reply, env>>

\* Header flush; the unique key decides.
SeatsInsert(r) ==
  /\ pc[r] = "s_insert"
  /\ \/ /\ ~ KeyTaken(r) /\ ~ KeyPending(r)
        /\ InsertReservation(r, Absent)
        /\ todo' = [todo EXCEPT ![r] = req[r].seats]
        /\ Goto(r, "s_holds")
        /\ UNCHANGED <<tickets, ticketsW, ticketLock, resv, seatLock>>
     \/ /\ KeyTaken(r)
        /\ Rollback(r)
        /\ Goto(r, "s_resolve")
        /\ UNCHANGED todo
  /\ UNCHANGED <<goal, stamp, reply, env>>

\* uq_active_reservation_seat: another transaction is changing an active hold
\* of the seat (the insert waits), or the seat has an active hold (refused).
HoldInFlux(r, s) ==
  \E x \in Requests :
    /\ resvLock[x] \notin {r, None}
    /\ resvW[x].hold[s] # resv[x].hold[s]
    /\ {resvW[x].hold[s], resv[x].hold[s]} \cap Active # {}

\* Mutant of HoldTaken: the unique index covers confirmed holds only.
HoldSold(r, s) == \E x \in Requests : resv[x].hold[s] = "confirmed"

HoldTaken(r, s) ==
  \E x \in Requests :
    /\ resvW[x].hold[s] \in Active
    /\ resvLock[x] = r \/ resvW[x].hold[s] = resv[x].hold[s]

SeatsHold(r) ==
  /\ pc[r] = "s_holds"
  /\ \E s \in todo[r] :
        \/ /\ InIdOrder(todo[r], s)
           /\ ~ HoldInFlux(r, s) /\ ~ HoldTaken(r, s)
           /\ resvW' = [resvW EXCEPT ![r].hold[s] = "reserved"]
           /\ todo' = [todo EXCEPT ![r] = @ \ {s}]
           /\ Goto(r, IF todo[r] = {s} THEN "s_commit" ELSE "s_holds")
           /\ UNCHANGED <<tickets, ticketsW, ticketLock, resv, resvLock, seatLock>>
        \/ /\ InIdOrder(todo[r], s)
           /\ HoldTaken(r, s)
           /\ Rollback(r)
           /\ todo' = [todo EXCEPT ![r] = {}]
           /\ Goto(r, "s_resolve")
  /\ UNCHANGED <<goal, stamp, reply, env>>

SeatsCommit(r) ==
  /\ pc[r] = "s_commit"
  /\ Commit(r)
  /\ Done(r, Created(r))
  /\ UNCHANGED <<env>>

\* _resolve_conflict_or_replay, after its rollback.
SeatsResolve(r) ==
  /\ pc[r] = "s_resolve"
  /\ Done(r, IF Replays(r) # {} THEN Replay(r) ELSE Answer("SEAT_UNAVAILABLE"))
  /\ UNCHANGED <<tables, env>>

SeatsReserve(r) ==
  \/ SeatsLookup(r) \/ SeatsLock(r) \/ SeatsMissing(r) \/ SeatsStale(r)
  \/ SeatsLockParent(r) \/ SeatsExpire(r) \/ SeatsInsert(r) \/ SeatsHold(r)
  \/ SeatsCommit(r) \/ SeatsResolve(r)
=============================================================================
