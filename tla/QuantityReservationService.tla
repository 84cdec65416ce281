--------------------- MODULE QuantityReservationService ---------------------
(***************************************************************************)
(* QuantityReservationService.reserve: idempotency lookup, guarded stock   *)
(* UPDATE, insert of header and item, commit.  The stock row stays locked  *)
(* from the UPDATE to the commit or rollback.                              *)
(***************************************************************************)
EXTENDS ReservationStore

\* Replay an already created reservation before touching inventory.
QuantityLookup(r) ==
  /\ pc[r] = "q_lookup"
  /\ \/ Replays(r) # {} /\ Done(r, Replay(r))
     \/ Replays(r) = {} /\ Goto(r, "q_stock") /\ UNCHANGED <<todo, goal, stamp, reply>>
  /\ UNCHANGED <<tables, env>>

\* The UPDATE matches: wait for the row lock, check the newest version, add.
\* expires_at is computed when the statement returns.
QuantityStock(r) ==
  /\ pc[r] = "q_stock"
  /\ LET t == req[r].ticket
         q == req[r].quantity
     IN /\ TicketEvent[t] = req[r].event
        /\ Free(ticketLock[t], r)
        /\ Fits(ticketsW[t], t, q)
        /\ SetTicket(r, t, AddReserved(ticketsW[t], q))
  /\ stamp' = [stamp EXCEPT ![r] = now + TTL]
  /\ Goto(r, "q_insert")
  /\ UNCHANGED <<tickets, resv, resvW, resvLock, seatLock,
                 todo, goal, reply, env>>

\* The UPDATE matches no row: it does not wait for a row it does not match.
QuantityNoStock(r) ==
  /\ pc[r] = "q_stock"
  /\ LET t == req[r].ticket
     IN \/ TicketEvent[t] # req[r].event
        \/ ~ Fits(SeenTicket(r, t), t, req[r].quantity)
  /\ Goto(r, "q_resolve")
  /\ UNCHANGED <<tables, todo, goal, stamp, reply, env>>

\* Header flush and item insert; the unique key decides.
QuantityInsert(r) ==
  /\ pc[r] = "q_insert"
  /\ \/ /\ ~ KeyTaken(r) /\ ~ KeyPending(r)
        /\ InsertReservation(r, "reserved")
        /\ Goto(r, "q_commit")
        /\ UNCHANGED <<tickets, ticketsW, ticketLock, resv, seatLock>>
     \/ /\ KeyTaken(r)
        /\ Rollback(r)
        /\ Goto(r, "q_resolve")
  /\ UNCHANGED <<todo, goal, stamp, reply, env>>

QuantityCommit(r) ==
  /\ pc[r] = "q_commit"
  /\ Commit(r)
  /\ Done(r, Created(r))
  /\ UNCHANGED <<env>>

\* _resolve_conflict_or_replay, after its rollback.
QuantityResolve(r) ==
  /\ pc[r] = "q_resolve"
  /\ Done(r, IF Replays(r) # {} THEN Replay(r) ELSE Answer("INSUFFICIENT_STOCK"))
  /\ UNCHANGED <<tables, env>>

QuantityReserve(r) ==
  \/ QuantityLookup(r) \/ QuantityStock(r) \/ QuantityNoStock(r)
  \/ QuantityInsert(r) \/ QuantityCommit(r) \/ QuantityResolve(r)
=============================================================================
