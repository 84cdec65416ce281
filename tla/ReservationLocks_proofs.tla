------------------------ MODULE ReservationLocks_proofs -------------------------
(***************************************************************************)
(* A row lock is never left on a connection that went back to the pool,    *)
(* whatever rows the database holds at the start; and, workers apart, no   *)
(* waits for row locks close a cycle.  Both for every pool size and every  *)
(* set of requests and workers.                                            *)
(***************************************************************************)
EXTENDS ConnectionPool, ReservationAnswers_proofs

-----------------------------------------------------------------------------
(* Locks and connections *)

\* The statements of a request that may have locked a stock row, a row of
\* reservations, a seat row.
StockLabels == {"q_insert", "q_commit", "l_commit"}
RowLabels == {"q_commit", "s_parents", "s_insert", "s_holds", "s_commit", "l_move", "l_commit"}
SeatLabels == {"s_lock", "s_parents", "s_insert", "s_holds", "s_commit"}

\* Elsewhere it has locked none.
LocksOf(r) ==
  /\ \A t \in TicketTypes : ticketLock[t] = r => pc[r] \in StockLabels
  /\ \A x \in Requests : resvLock[x] = r => pc[r] \in RowLabels
  /\ \A s \in Seats : seatLock[s] = r => pc[r] \in SeatLabels

HasNoLock(r) ==
  /\ \A t \in TicketTypes : ticketLock[t] # r
  /\ \A x \in Requests : resvLock[x] # r
  /\ \A s \in Seats : seatLock[s] # r

\* Locks are held where they were taken, on the connection of their request.
PoolTypes ==
  /\ pc \in [Process -> Label]
  /\ ticketLock \in [TicketTypes -> Process \cup {None}]
  /\ resvLock \in [Requests -> Process \cup {None}]
  /\ seatLock \in [Seats -> Process \cup {None}]

PoolInv ==
  /\ PoolTypes
  /\ \A r \in Requests : LocksOf(r) /\ (r \notin conn => HasNoLock(r))

\* The rows and counters do not matter.
PooledStart ==
  /\ req \in Workloads
  /\ \E rows \in [Requests -> Row], stock \in [TicketTypes -> TicketRow] :
       InitWith(rows, stock)
  /\ EmptyPool

\* No lock is taken by a statement of somebody else.
OthersLocks(p) ==
  \A r \in Requests \ {p} :
    /\ \A t \in TicketTypes : ticketLock'[t] = r => ticketLock[t] = r
    /\ \A x \in Requests : resvLock'[x] = r => resvLock[x] = r
    /\ \A s \in Seats : seatLock'[s] = r => seatLock[s] = r

\* What a statement of p does to locks: it takes locks for p only, and p is where
\* its locks belong, or has none.
Orderly(p) ==
  /\ PoolTypes'
  /\ \A r \in Requests \ {p} : pc'[r] = pc[r]
  /\ OthersLocks(p)
  /\ p \in Requests => LocksOf(p)'
  /\ p \in Requests /\ Returned(p) => HasNoLock(p)'

\* COMMIT and ROLLBACK leave no lock behind.
LEMMA UnlockFrees ==
  ASSUME NEW p, p # None, Unlock(p)
  PROVE  HasNoLock(p)' /\ OthersLocks(p)
BY StoreAssumption DEF Unlock, HasNoLock, OthersLocks, Process

\* ... and keep the types of the locks.
LEMMA UnlockTypes ==
  ASSUME PoolTypes, NEW p, Unlock(p), pc' \in [Process -> Label]
  PROVE  PoolTypes'
BY DEF Unlock, PoolTypes

\* Nothing is locked where the labels say nothing.
LEMMA FreeOfLocks ==
  ASSUME NEW r, HasNoLock(r)' PROVE LocksOf(r)'
BY DEF HasNoLock, LocksOf

\* A statement that takes no lock, of a request that has none.
LEMMA LocklessOrderly ==
  ASSUME PoolInv, NEW r \in Requests, UNCHANGED tables,
         NEW l \in Label, pc' = [pc EXCEPT ![r] = l],
         pc[r] \notin StockLabels \cup RowLabels \cup SeatLabels
  PROVE  Orderly(r)
<1>1. PoolTypes /\ LocksOf(r)
  BY DEF PoolInv
<1>2. HasNoLock(r)'
  BY <1>1 DEF LocksOf, HasNoLock, tables
<1>3. PoolTypes' /\ OthersLocks(r)
  BY <1>1 DEF PoolTypes, OthersLocks, tables
<1> QED
  BY <1>1, <1>2, <1>3, FreeOfLocks DEF Orderly, PoolTypes

\* The last statement of a transaction.
LEMMA EndOrderly ==
  ASSUME PoolInv, NEW p \in Process, Unlock(p), NEW l \in Label,
         pc' = [pc EXCEPT ![p] = l]
  PROVE  Orderly(p)
<1>1. PoolTypes /\ p # None
  BY StoreAssumption DEF PoolInv, Process
<1>2. HasNoLock(p)' /\ OthersLocks(p)
  BY <1>1, UnlockFrees
<1>3. pc' \in [Process -> Label]
  BY <1>1 DEF PoolTypes
<1> QED
  BY <1>1, <1>2, <1>3, UnlockTypes, FreeOfLocks DEF Orderly, PoolTypes

\* The statements of a quantity reservation.
LEMMA QuantityOrderly ==
  ASSUME PoolInv, NEW r \in Requests, QuantityReserve(r)
  PROVE  Orderly(r)
<1>0. /\ r \in Process /\ r # None /\ pc \in [Process -> Label] /\ LocksOf(r)
      /\ PoolTypes
  BY StoreAssumption DEF Process, PoolInv, PoolTypes
<1> USE DEF Label, QuantityLabels, StockLabels, RowLabels, SeatLabels
<1>1. CASE QuantityLookup(r) \/ QuantityNoStock(r) \/ QuantityResolve(r)
  <2>1. /\ pc[r] \in {"q_lookup", "q_stock", "q_resolve"} /\ UNCHANGED tables
        /\ \E l \in Label : pc' = [pc EXCEPT ![r] = l]
    BY <1>1 DEF QuantityLookup, QuantityNoStock, QuantityResolve, Done, Goto
  <2> QED BY <2>1, LocklessOrderly
<1>2. CASE QuantityStock(r)
  <2>1. /\ pc[r] = "q_stock" /\ pc' = [pc EXCEPT ![r] = "q_insert"]
        /\ UNCHANGED <<resvLock, seatLock>>
        /\ ticketLock' = [ticketLock EXCEPT ![req[r].ticket] = r]
    BY <1>2 DEF QuantityStock, SetTicket, Goto
  <2>2. PoolTypes' /\ OthersLocks(r)
    BY <1>0, <2>1 DEF PoolTypes, OthersLocks
  <2>3. LocksOf(r)'
    BY <1>0, <2>1 DEF PoolTypes, LocksOf
  <2> QED BY <1>0, <2>1, <2>2, <2>3 DEF Orderly, PoolTypes, Returned, BetweenTransactions
<1>3. CASE QuantityInsert(r)
  <2>1. pc[r] = "q_insert"
    BY <1>3 DEF QuantityInsert
  <2>2. CASE Rollback(r) /\ Goto(r, "q_resolve")
    BY <1>0, <2>2, EndOrderly DEF Rollback, Goto
  <2>3. CASE InsertReservation(r, "reserved") /\ Goto(r, "q_commit")
             /\ UNCHANGED <<ticketLock, seatLock>>
    <3>1. /\ pc' = [pc EXCEPT ![r] = "q_commit"]
          /\ resvLock' = [resvLock EXCEPT ![r] = r]
      BY <2>3 DEF InsertReservation, Goto
    <3>2. PoolTypes' /\ OthersLocks(r)
      BY <1>0, <2>3, <3>1 DEF PoolTypes, OthersLocks
    <3>3. LocksOf(r)'
      BY <1>0, <2>1, <2>3, <3>1 DEF PoolTypes, LocksOf
    <3> QED BY <1>0, <3>1, <3>2, <3>3 DEF Orderly, PoolTypes, Returned, BetweenTransactions
  <2> QED BY <1>3, <2>2, <2>3 DEF QuantityInsert
<1>4. CASE QuantityCommit(r)
  BY <1>0, <1>4, EndOrderly DEF QuantityCommit, Commit, Done
<1> QED
  BY <1>1, <1>2, <1>3, <1>4 DEF QuantityReserve

\* The statements of a seat reservation.
LEMMA SeatsOrderly ==
  ASSUME PoolInv, NEW r \in Requests, SeatsReserve(r)
  PROVE  Orderly(r)
<1>0. /\ r \in Process /\ r # None /\ pc \in [Process -> Label] /\ LocksOf(r)
      /\ PoolTypes
  BY StoreAssumption DEF Process, PoolInv, PoolTypes
<1> USE DEF Label, SeatsLabels, StockLabels, RowLabels, SeatLabels
<1>1. CASE SeatsLookup(r) \/ SeatsResolve(r)
  <2>1. /\ pc[r] \in {"s_lookup", "s_resolve"} /\ UNCHANGED tables
        /\ \E l \in Label : pc' = [pc EXCEPT ![r] = l]
    BY <1>0, <1>1 DEF SeatsLookup, SeatsResolve, Done, Goto
  <2> QED BY <2>1, LocklessOrderly
<1>2. CASE SeatsLock(r)
  <2>1. PICK s : seatLock' = [seatLock EXCEPT ![s] = r]
    BY <1>2 DEF SeatsLock
  <2>2. pc[r] = "s_lock" /\ UNCHANGED <<ticketLock, resvLock, pc>>
    BY <1>2 DEF SeatsLock
  <2>3. PoolTypes' /\ OthersLocks(r)
    BY <1>0, <2>1, <2>2 DEF PoolTypes, OthersLocks
  <2>4. LocksOf(r)'
    BY <1>0, <2>1, <2>2 DEF PoolTypes, LocksOf
  <2> QED BY <2>2, <2>3, <2>4 DEF Orderly, Returned
<1>3. CASE SeatsStale(r)
  <2>1. /\ pc[r] = "s_lock" /\ UNCHANGED tables
        /\ \E l \in {"s_insert", "s_parents"} : pc' = [pc EXCEPT ![r] = l]
    BY <1>3 DEF SeatsStale, Goto
  <2>2. PoolTypes' /\ OthersLocks(r)
    BY <1>0, <2>1 DEF PoolTypes, OthersLocks, tables
  <2>3. LocksOf(r)'
    BY <1>0, <2>1 DEF PoolTypes, LocksOf, tables
  <2> QED BY <1>0, <2>1, <2>2, <2>3 DEF Orderly, PoolTypes, Returned, BetweenTransactions
<1>4. CASE SeatsLockParent(r)
  <2>1. PICK x : resvLock' = [resvLock EXCEPT ![x] = r]
    BY <1>4 DEF SeatsLockParent
  <2>2. pc[r] = "s_parents" /\ UNCHANGED <<ticketLock, seatLock, pc>>
    BY <1>4 DEF SeatsLockParent
  <2>3. PoolTypes' /\ OthersLocks(r)
    BY <1>0, <2>1, <2>2 DEF PoolTypes, OthersLocks
  <2>4. LocksOf(r)'
    BY <1>0, <2>1, <2>2 DEF PoolTypes, LocksOf
  <2> QED BY <2>2, <2>3, <2>4 DEF Orderly, Returned
<1>5. CASE SeatsExpire(r)
  <2>1. /\ pc[r] = "s_parents" /\ pc' = [pc EXCEPT ![r] = "s_insert"]
        /\ UNCHANGED <<ticketLock, resvLock, seatLock>>
    BY <1>5 DEF SeatsExpire, Goto
  <2>2. PoolTypes' /\ OthersLocks(r)
    BY <1>0, <2>1 DEF PoolTypes, OthersLocks
  <2>3. LocksOf(r)'
    BY <1>0, <2>1 DEF PoolTypes, LocksOf
  <2> QED BY <1>0, <2>1, <2>2, <2>3 DEF Orderly, PoolTypes, Returned, BetweenTransactions
<1>6. CASE SeatsInsert(r)
  <2>1. pc[r] = "s_insert"
    BY <1>6 DEF SeatsInsert
  <2>2. CASE Rollback(r) /\ Goto(r, "s_resolve")
    BY <1>0, <2>2, EndOrderly DEF Rollback, Goto
  <2>3. CASE /\ InsertReservation(r, Absent) /\ Goto(r, "s_holds")
             /\ UNCHANGED <<ticketLock, seatLock>>
    <3>1. /\ pc' = [pc EXCEPT ![r] = "s_holds"]
          /\ resvLock' = [resvLock EXCEPT ![r] = r]
      BY <2>3 DEF InsertReservation, Goto
    <3>2. PoolTypes' /\ OthersLocks(r)
      BY <1>0, <2>3, <3>1 DEF PoolTypes, OthersLocks
    <3>3. LocksOf(r)'
      BY <1>0, <2>1, <2>3, <3>1 DEF PoolTypes, LocksOf
    <3> QED BY <1>0, <3>1, <3>2, <3>3 DEF Orderly, PoolTypes, Returned, BetweenTransactions
  <2> QED BY <1>6, <2>2, <2>3 DEF SeatsInsert
<1>7. CASE SeatsHold(r)
  <2>1. pc[r] = "s_holds"
    BY <1>7 DEF SeatsHold
  <2>2. CASE Rollback(r) /\ Goto(r, "s_resolve")
    BY <1>0, <2>2, EndOrderly DEF Rollback, Goto
  <2>3. CASE \E l \in {"s_commit", "s_holds"} :
               Goto(r, l) /\ UNCHANGED <<ticketLock, resvLock, seatLock>>
    <3>1. PoolTypes' /\ OthersLocks(r)
      BY <1>0, <2>3 DEF PoolTypes, OthersLocks, Goto
    <3>2. LocksOf(r)'
      BY <1>0, <2>1, <2>3 DEF PoolTypes, LocksOf, Goto
    <3> QED BY <1>0, <2>3, <3>1, <3>2 DEF Orderly, PoolTypes, Returned, BetweenTransactions, Goto
  <2> QED BY <1>7, <2>2, <2>3 DEF SeatsHold
<1>8. CASE SeatsMissing(r)
  BY <1>0, <1>8, EndOrderly DEF SeatsMissing, Rollback, Done
<1>9. CASE SeatsCommit(r)
  BY <1>0, <1>9, EndOrderly DEF SeatsCommit, Commit, Done
<1> QED
  BY <1>1, <1>2, <1>3, <1>4, <1>5, <1>6, <1>7, <1>8, <1>9 DEF SeatsReserve

\* The statements of cancel, confirm and get.
LEMMA LifecycleOrderly ==
  ASSUME PoolInv, NEW r \in Requests, Lifecycle(r)
  PROVE  Orderly(r)
<1>0. /\ r \in Process /\ r # None /\ pc \in [Process -> Label] /\ LocksOf(r)
      /\ PoolTypes
  BY StoreAssumption DEF Process, PoolInv, PoolTypes
<1> USE DEF Label, LifecycleLabels, GetLabels, StockLabels, RowLabels, SeatLabels
<1>1. CASE NotFound(r) \/ LifecycleSettled(r) \/ GetParent(r) \/ GetChildren(r)
  <2>1. /\ pc[r] \in {"l_lock", "g_parent", "g_children"} /\ UNCHANGED tables
        /\ \E l \in Label : pc' = [pc EXCEPT ![r] = l]
    BY <1>0, <1>1 DEF NotFound, LifecycleSettled, GetParent, GetChildren, Done, Goto
  <2> QED BY <2>1, LocklessOrderly
<1>2. CASE LifecycleLock(r)
  <2>1. /\ pc[r] = "l_lock" /\ pc' = [pc EXCEPT ![r] = "l_move"]
        /\ UNCHANGED <<ticketLock, seatLock>>
        /\ resvLock' = [resvLock EXCEPT ![req[r].target] = r]
    BY <1>2 DEF LifecycleLock, Goto
  <2>2. PoolTypes' /\ OthersLocks(r)
    BY <1>0, <2>1 DEF PoolTypes, OthersLocks
  <2>3. LocksOf(r)'
    BY <1>0, <2>1 DEF PoolTypes, LocksOf
  <2> QED BY <1>0, <2>1, <2>2, <2>3 DEF Orderly, PoolTypes, Returned, BetweenTransactions
<1>3. CASE LifecycleMove(r)
  <2>1. /\ pc[r] = "l_move" /\ pc' = [pc EXCEPT ![r] = "l_commit"]
        /\ UNCHANGED <<resvLock, seatLock>>
        /\ \/ UNCHANGED ticketLock
           \/ ticketLock' = [ticketLock EXCEPT ![req[req[r].target].ticket] = r]
    BY <1>3 DEF LifecycleMove, TransitionReserved, TransitionQuantity,
       TransitionSeats, SetTicket, Goto
  <2>2. PoolTypes' /\ OthersLocks(r)
    BY <1>0, <2>1 DEF PoolTypes, OthersLocks
  <2>3. LocksOf(r)'
    BY <1>0, <2>1 DEF PoolTypes, LocksOf
  <2> QED BY <1>0, <2>1, <2>2, <2>3 DEF Orderly, PoolTypes, Returned, BetweenTransactions
<1>4. CASE LifecycleConflict(r)
  BY <1>0, <1>4, EndOrderly DEF LifecycleConflict, Rollback, Done
<1>5. CASE LifecycleCommit(r)
  BY <1>0, <1>5, EndOrderly DEF LifecycleCommit, Commit, Done
<1> QED
  BY <1>1, <1>2, <1>3, <1>4, <1>5 DEF Lifecycle

\* The statements of a worker, whose engine is its own.
LEMMA WorkerOrderly ==
  ASSUME PoolInv, NEW w \in Workers, ExpireBatch(w)
  PROVE  Orderly(w)
<1>0. w \in Process /\ w \notin Requests /\ PoolTypes /\ pc \in [Process -> Label]
  BY StoreAssumption DEF Process, PoolInv, PoolTypes
<1> USE DEF Label, WorkerLabels
<1>1. CASE WorkerIdle(w)
  BY <1>0, <1>1 DEF WorkerIdle, tables, locals, Orderly, PoolTypes, OthersLocks
<1>2. CASE WorkerLock(w)
  <2>1. /\ resvLock' = [x \in Requests |-> IF x \in Batch THEN w ELSE resvLock[x]]
        /\ pc' = [pc EXCEPT ![w] = "w_move"] /\ UNCHANGED <<ticketLock, seatLock>>
    BY <1>2 DEF WorkerLock, Goto
  <2>2. PoolTypes' /\ OthersLocks(w)
    BY <1>0, <2>1 DEF PoolTypes, OthersLocks
  <2> QED BY <1>0, <2>1, <2>2 DEF Orderly
<1>3. CASE WorkerMove(w)
  <2>1. /\ \E l \in {"w_commit", "w_move"} : pc' = [pc EXCEPT ![w] = l]
        /\ UNCHANGED <<resvLock, seatLock>>
        /\ \/ UNCHANGED ticketLock
           \/ \E t : ticketLock' = [ticketLock EXCEPT ![t] = w]
    BY <1>3 DEF WorkerMove, TransitionReserved, TransitionQuantity,
       TransitionSeats, SetTicket, Goto
  <2>2. PoolTypes' /\ OthersLocks(w)
    BY <1>0, <2>1 DEF PoolTypes, OthersLocks
  <2> QED BY <1>0, <2>1, <2>2 DEF Orderly
<1>4. CASE WorkerCommit(w)
  BY <1>0, <1>4, EndOrderly DEF WorkerCommit, Commit, Goto
<1> QED
  BY <1>1, <1>2, <1>3, <1>4 DEF ExpireBatch

\* A session that ends without a commit.
LEMMA AbortOrderly ==
  ASSUME PoolInv, NEW p \in Process, Abort(p)
  PROVE  Orderly(p) /\ HasNoLock(p)'
<1>1. \E l \in Label : pc' = [pc EXCEPT ![p] = l]
  BY DEF Abort, Goto, Label, WorkerLabels
<1>2. Unlock(p) /\ p # None
  BY StoreAssumption DEF Abort, Rollback, Process
<1> QED
  BY <1>1, <1>2, EndOrderly, UnlockFrees

\* No step leaves a lock on a connection it gives back.
LEMMA GiveBackKeepsLocks ==
  ASSUME PoolInv, NEW p \in Process, Orderly(p), GiveBack,
         p \in Requests /\ p \notin conn => HasNoLock(p)'
  PROVE  PoolInv'
<1>1. SUFFICES ASSUME NEW r \in Requests
               PROVE  LocksOf(r)' /\ (r \notin conn' => HasNoLock(r)')
  BY DEF Orderly, PoolInv
<1>2. CASE r = p
  BY <1>2 DEF Orderly, GiveBack
<1>3. CASE r # p
  <2>1. pc'[r] = pc[r] /\ (r \notin conn' => r \notin conn)
    BY <1>3 DEF Orderly, GiveBack, Returned
  <2>2. LocksOf(r)'
    BY <1>3, <2>1 DEF Orderly, OthersLocks, PoolInv, LocksOf
  <2>3. ASSUME r \notin conn' PROVE HasNoLock(r)'
    BY <1>3, <2>1, <2>3 DEF Orderly, OthersLocks, PoolInv, HasNoLock
  <2> QED BY <2>2, <2>3
<1> QED
  BY <1>2, <1>3

\* Statements that touch neither locks nor labels.
LEMMA NothingMoves ==
  ASSUME PoolInv, UNCHANGED <<tables, locals>>, conn \subseteq conn'
  PROVE  PoolInv'
<1>1. PoolTypes'
  BY DEF PoolInv, PoolTypes, tables, locals
<1>2. ASSUME NEW r \in Requests PROVE LocksOf(r)'
  BY DEF PoolInv, LocksOf, tables, locals
<1>3. ASSUME NEW r \in Requests, r \notin conn' PROVE HasNoLock(r)'
  BY <1>3 DEF PoolInv, HasNoLock, tables, locals
<1> QED
  BY <1>1, <1>2, <1>3 DEF PoolInv

\* Nothing is locked at the start.
LEMMA PoolStarts == PooledStart => PoolInv
<1>1. SUFFICES ASSUME PooledStart PROVE PoolInv
  OBVIOUS
<1>2. PICK rows \in [Requests -> Row], stock \in [TicketTypes -> TicketRow] :
        InitWith(rows, stock)
  BY <1>1 DEF PooledStart
<1>3. req \in [Requests -> Payload]
  BY <1>1, StoreAssumption DEF PooledStart, Payloads
<1>4. ASSUME NEW r \in Requests PROVE Entry(req[r].op) \in Label
  <2>1. req[r].op \in {"quantity", "seats", "get", "cancel", "confirm"}
    BY <1>3 DEF Payload, QuantityPayload, SeatsPayload, LifecyclePayload
  <2> QED BY <2>1 DEF Entry, Label, QuantityLabels, SeatsLabels, LifecycleLabels, GetLabels
<1>5. pc \in [Process -> Label]
  BY <1>2, <1>4 DEF InitWith, Label, WorkerLabels, Process
<1>6. PoolTypes /\ \A r \in Requests : HasNoLock(r)
  BY <1>2, <1>5, StoreAssumption DEF InitWith, PoolTypes, HasNoLock, Process
<1> QED
  BY <1>6 DEF PoolInv, HasNoLock, LocksOf

\* Every step of requests, workers, pool, clock and deadlock detector.
LEMMA PooledNextKeepsLocks ==
  ASSUME PoolInv, [PooledNext]_pooledVars
  PROVE  PoolInv'
<1>1. ASSUME NEW r \in Requests, Checkout(r) PROVE PoolInv'
  BY <1>1, NothingMoves DEF Checkout, vars
<1>2. ASSUME NEW r \in Requests, PoolTimeout(r) PROVE PoolInv'
  <2>1. r \in Process
    BY DEF Process
  <2>2. Orderly(r) /\ HasNoLock(r)' /\ conn' = conn
    BY <1>2, <2>1, AbortOrderly DEF PoolTimeout
  <2>3. ASSUME NEW q \in Requests \ {r}
        PROVE  LocksOf(q)' /\ (q \notin conn => HasNoLock(q)')
    BY <2>2 DEF Orderly, OthersLocks, PoolInv, LocksOf, HasNoLock
  <2> QED BY <2>2, <2>3 DEF Orderly, PoolInv
<1>3. ASSUME NEW r \in Requests, PooledServe(r) PROVE PoolInv'
  <2>1. r \in Process
    BY DEF Process
  <2>2. Orderly(r)
    BY <1>3, QuantityOrderly, SeatsOrderly, LifecycleOrderly DEF PooledServe, Serve
  <2> QED BY <1>3, <2>1, <2>2, GiveBackKeepsLocks DEF PooledServe
<1>4. ASSUME NEW w \in Workers, PooledBatch(w) PROVE PoolInv'
  <2>1. w \in Process /\ w \notin Requests
    BY StoreAssumption DEF Process
  <2>2. Orderly(w)
    BY <1>4, WorkerOrderly DEF PooledBatch
  <2> QED BY <1>4, <2>1, <2>2, GiveBackKeepsLocks DEF PooledBatch
<1>5. ASSUME NEW p \in Process, PooledCrash(p) \/ PooledVictim(p) PROVE PoolInv'
  <2>1. Abort(p) /\ GiveBack
    BY <1>5 DEF PooledCrash, PooledVictim, Crash, DeadlockVictim
  <2> QED BY <2>1, AbortOrderly, GiveBackKeepsLocks
<1>6. CASE PooledTick \/ PooledEnd
  <2>1. UNCHANGED <<tables, locals>> /\ GiveBack
    BY <1>6 DEF PooledTick, PooledEnd, Tick, AllAnswered
  <2>2. conn \subseteq conn'
    BY <2>1 DEF GiveBack, Returned, locals
  <2> QED BY <2>1, <2>2, NothingMoves
<1>7. CASE UNCHANGED pooledVars
  BY <1>7, NothingMoves DEF pooledVars, vars
<1> QED
  BY <1>1, <1>2, <1>3, <1>4, <1>5, <1>6, <1>7 DEF PooledNext

\* From any database at rest, with a pool of any size: a request that holds a row
\* lock has a connection.  No path through reserve, cancel, confirm, get, a pool
\* timeout, a crash or a deadlock puts a connection back with a lock on it.
THEOREM LocksKeepConnections ==
  PooledStart /\ [][PooledNext]_pooledVars => []LocksHaveConnections
<1>1. PoolInv => LocksHaveConnections
  BY DEF PoolInv, HasNoLock, LocksHaveConnections
<1> QED
  BY <1>1, PoolStarts, PooledNextKeepsLocks, PTL

-----------------------------------------------------------------------------
(* In which order rows are locked *)

\* The statements of a transaction that may have locked a stock row, and those of
\* a seat reservation that has locked all its seats.
StockHolders == {"q_insert", "q_commit", "l_commit", "w_move", "w_commit"}
SeatHolders == {"s_parents", "s_insert", "s_holds", "s_commit"}

\* Workers and requests run their own handlers, and nobody else has such locks.
LockPlaces ==
  /\ \A w \in Workers : pc[w] \in WorkerLabels
  /\ \A r \in Requests : pc[r] \notin WorkerLabels
  /\ \A t \in TicketTypes : ticketLock[t] # None => pc[ticketLock[t]] \in StockHolders
  /\ \A s \in Seats : seatLock[s] # None =>
       seatLock[s] \in Requests /\ pc[seatLock[s]] \in SeatHolders \cup {"s_lock"}

\* Reservation x was overdue when r read the clock.
StaleFor(r, x) == resv[x].expires + TTL <= stamp[r]

\* Seats are locked in id order.
SeatsInOrder(r) ==
  pc[r] = "s_lock" =>
    /\ \A s \in Seats : seatLock[s] = r => \A u \in todo[r] : s < u
    /\ \A s \in req[r].seats :
         seatLock[s] = r \/ s \in todo[r] \/ SeatEvent[s] # req[r].event
    /\ todo[r] \subseteq req[r].seats

\* Stale parents are locked in id order, and none is written until all are locked.
ParentsInOrder(r) ==
  pc[r] = "s_parents" =>
    /\ \A x \in Requests : resvLock[x] = r =>
         resvW[x] = resv[x] /\ \A y \in todo[r] : x < y
    /\ \A x \in todo[r] : StaleFor(r, x)

\* From then on all the seats are locked, and the parents r has locked are those
\* that were stale when it looked: all of them, once it is past their loop.
SeatsSecured(r) ==
  pc[r] \in SeatHolders =>
    /\ \A s \in req[r].seats : seatLock[s] = r
    /\ \A x \in Requests \ {r} :
         /\ resvLock[x] = r => StaleFor(r, x)
         /\ StaleFor(r, x) /\ (\E s \in req[r].seats : resv[x].hold[s] = "reserved") =>
              \/ resvLock[x] = r
              \/ pc[r] = "s_parents" /\ x \in todo[r]

InOrder(r) == SeatsInOrder(r) /\ ParentsInOrder(r) /\ SeatsSecured(r)

WaitInv == LockPlaces /\ \A r \in Requests : InOrder(r)

\* A step of p locks rows for p only, where they belong, and leaves those that
\* others have locked to them.
OwnLocks(p) ==
  /\ p \in Workers => pc'[p] \in WorkerLabels
  /\ p \in Requests => pc'[p] \notin WorkerLabels
  /\ \A t \in TicketTypes :
       /\ ticketLock'[t] \in {ticketLock[t], None, p}
       /\ ticketLock'[t] = p => pc'[p] \in StockHolders
  /\ \A s \in Seats :
       /\ seatLock'[s] \in {seatLock[s], None, p}
       /\ seatLock'[s] = p => p \in Requests /\ pc'[p] \in SeatHolders \cup {"s_lock"}

\* What others have locked, their own written rows and deadlines included, stays.
OthersRows(p) ==
  \A r \in Requests \ {p} :
    /\ stamp'[r] = stamp[r]
    /\ \A s \in Seats : seatLock'[s] = r <=> seatLock[s] = r
    /\ \A x \in Requests :
         /\ resvLock'[x] = r <=> resvLock[x] = r
         /\ resvLock[x] = r => resv'[x] = resv[x] /\ resvW'[x] = resvW[x]

OwnStep(p) == Alone(p) /\ OwnLocks(p) /\ OthersRows(p)

\* Every lock stays where it belongs.
LEMMA PlacesKept ==
  ASSUME Inv, LockPlaces, NEW p \in Process, OwnStep(p)
  PROVE  LockPlaces'
<1>0. /\ p # None /\ Workers \cap Requests = {}
      /\ \A q \in Process \ {p} : pc'[q] = pc[q]
      /\ \A t \in TicketTypes : ticketLock[t] \in Process \cup {None}
      /\ \A s \in Seats : seatLock[s] \in Process \cup {None}
  BY StoreAssumption DEF Inv, TypeOK, TablesOK, OwnStep, Alone
<1>1. /\ \A w \in Workers : pc'[w] \in WorkerLabels
      /\ \A r \in Requests : pc'[r] \notin WorkerLabels
  BY <1>0 DEF OwnStep, OwnLocks, LockPlaces, Process
<1>2. ASSUME NEW t \in TicketTypes, ticketLock'[t] # None
      PROVE  pc'[ticketLock'[t]] \in StockHolders
  <2>1. CASE ticketLock'[t] = p
    BY <2>1 DEF OwnStep, OwnLocks
  <2>2. CASE ticketLock'[t] # p
    <3>1. ticketLock'[t] = ticketLock[t] /\ ticketLock[t] \in Process \ {p}
      BY <1>0, <1>2, <2>2 DEF OwnStep, OwnLocks
    <3> QED BY <1>0, <1>2, <3>1 DEF LockPlaces
  <2> QED BY <2>1, <2>2
<1>3. ASSUME NEW s \in Seats, seatLock'[s] # None
      PROVE  seatLock'[s] \in Requests /\ pc'[seatLock'[s]] \in SeatHolders \cup {"s_lock"}
  <2>1. CASE seatLock'[s] = p
    BY <2>1 DEF OwnStep, OwnLocks
  <2>2. CASE seatLock'[s] # p
    <3>1. seatLock'[s] = seatLock[s] /\ seatLock[s] \in Process \ {p}
      BY <1>0, <1>3, <2>2 DEF OwnStep, OwnLocks
    <3> QED BY <1>0, <1>3, <3>1 DEF LockPlaces
  <2> QED BY <2>1, <2>2
<1> QED
  BY <1>1, <1>2, <1>3 DEF LockPlaces

\* A reservation that comes to hold a seat held all its seats locked before.
LEMMA NewHolds ==
  ASSUME Inv, RowInv, WaitInv, [Next]_vars, NEW x \in Requests, NEW s \in Seats,
         resv'[x].hold[s] = "reserved", resv'[x] # resv[x]
  PROVE  seatLock[s] = x
<1>1. resv'[x] = resvW[x] /\ (Inserted(x) \/ MovedOut(x))
  BY RowChanges
<1>2. /\ Agrees(x, resvW[x], Owed(x)) /\ resvW[x].hold[s] = "reserved"
      /\ req \in Payloads
  BY <1>1 DEF RowInv, WrittenAgreement, Inv, TypeOK, EnvOK
<1>3. resvW[x].status = "reserved" /\ req[x].op = "seats" /\ s \in req[x].seats
  BY <1>2 DEF Agrees, NoRow, NoHold, Absent
<1>4. Inserted(x)
  BY <1>1, <1>3, DestinationSettled DEF MovedOut, RowInv
<1>5. pc[x] \in SeatHolders
  BY <1>3, <1>4 DEF Inserted, Inserting, SeatHolders, Inv, StockInv, HandlerMatches,
     QuantityLabels
<1> QED
  BY <1>3, <1>5 DEF WaitInv, InOrder, SeatsSecured

\* What the others have locked and read stays in order.
LEMMA OthersInOrder ==
  ASSUME Inv, RowInv, WaitInv, [Next]_vars, NEW p \in Process, OwnStep(p),
         NEW r \in Requests, r # p
  PROVE  InOrder(r)'
<1>0. /\ InOrder(r) /\ r \in Process /\ req \in Payloads
      /\ resv \in [Requests -> Row] /\ stamp \in [Requests -> Nat] /\ TTL \in Nat
  BY StoreAssumption DEF WaitInv, Process, Inv, TypeOK, EnvOK, TablesOK, LocalsOK
<1>1. /\ pc'[r] = pc[r] /\ todo'[r] = todo[r] /\ stamp'[r] = stamp[r] /\ req' = req
      /\ \A s \in Seats : seatLock'[s] = r <=> seatLock[s] = r
      /\ \A x \in Requests :
           /\ resvLock'[x] = r <=> resvLock[x] = r
           /\ resvLock[x] = r => resv'[x] = resv[x] /\ resvW'[x] = resvW[x]
  BY <1>0, ClockAndPayloads DEF OwnStep, Alone, OthersRows
<1>2. pc[r] \in SeatHolders \cup {"s_lock"} => req[r].seats \in SUBSET Seats
  BY <1>0, PayloadFields DEF SeatHolders, Inv, StockInv, HandlerMatches, SeatsLabels
<1>3. SeatsInOrder(r)'
  BY <1>0, <1>1, <1>2 DEF InOrder, SeatsInOrder
<1>4. ASSUME NEW x \in Requests, resv[x].status # Absent
      PROVE  resv'[x].expires = resv[x].expires
  <2>1. CASE resv'[x] = resv[x]
    BY <2>1
  <2>2. CASE resv'[x] # resv[x]
    <3>1. resv'[x] = resvW[x] /\ (Inserted(x) \/ MovedOut(x))
      BY <2>2, RowChanges
    <3> QED BY <1>4, <3>1 DEF Inserted, MovedOut, NoRow
  <2> QED BY <2>1, <2>2
<1>5. ParentsInOrder(r)'
  <2> SUFFICES ASSUME pc[r] = "s_parents"
               PROVE  /\ \A x \in Requests : resvLock'[x] = r =>
                           resvW'[x] = resv'[x] /\ \A y \in todo[r] : x < y
                      /\ \A x \in todo[r] : StaleFor(r, x)'
    BY <1>1 DEF ParentsInOrder
  <2>1. \A x \in todo[r] : x \in Requests /\ resv[x].status # Absent
    BY DEF RowInv, StaleParents, OverdueHold
  <2> QED BY <1>0, <1>1, <1>4, <2>1 DEF InOrder, ParentsInOrder, StaleFor
<1>6. SeatsSecured(r)'
  <2> SUFFICES ASSUME pc[r] \in SeatHolders
               PROVE  /\ \A s \in req[r].seats : seatLock'[s] = r
                      /\ \A x \in Requests \ {r} :
                           /\ resvLock'[x] = r => StaleFor(r, x)'
                           /\ StaleFor(r, x)'
                              /\ (\E s \in req[r].seats : resv'[x].hold[s] = "reserved") =>
                                \/ resvLock'[x] = r
                                \/ pc[r] = "s_parents" /\ x \in todo[r]
    BY <1>1 DEF SeatsSecured
  <2>1. \A s \in req[r].seats : seatLock[s] = r /\ s \in Seats
    BY <1>0, <1>2 DEF InOrder, SeatsSecured
  <2>2. ASSUME NEW x \in Requests \ {r}, resvLock'[x] = r
        PROVE  StaleFor(r, x)'
    BY <1>0, <1>1, <2>2 DEF InOrder, SeatsSecured, StaleFor
  <2>3. ASSUME NEW x \in Requests \ {r}, StaleFor(r, x)',
               NEW s \in req[r].seats, resv'[x].hold[s] = "reserved"
        PROVE  resvLock'[x] = r \/ (pc[r] = "s_parents" /\ x \in todo[r])
    <3>1. resv'[x] = resv[x]
      BY <2>1, <2>3, NewHolds
    <3>2. StaleFor(r, x) /\ resv[x].hold[s] = "reserved"
      BY <1>1, <2>3, <3>1 DEF StaleFor
    <3> QED BY <1>0, <1>1, <3>2 DEF InOrder, SeatsSecured
  <2> QED BY <1>1, <2>1, <2>2, <2>3
<1> QED
  BY <1>3, <1>5, <1>6 DEF InOrder

\* So a step need only keep its own process in order.
LEMMA OwnStepKeeps ==
  ASSUME Inv, RowInv, WaitInv, [Next]_vars, NEW p \in Process, OwnStep(p),
         p \in Requests => InOrder(p)'
  PROVE  WaitInv'
BY PlacesKept, OthersInOrder DEF WaitInv

\* The statements of other handlers than the seat reservation's.
LEMMA ElsewhereInOrder ==
  ASSUME NEW r, pc'[r] \notin SeatHolders \cup {"s_lock"}
  PROVE  InOrder(r)'
BY DEF InOrder, SeatsInOrder, ParentsInOrder, SeatsSecured, SeatHolders

\* A commit or a rollback gives all locks back.
LEMMA EndOfTransaction ==
  ASSUME Inv, NEW p \in Process, Commit(p) \/ Rollback(p), Alone(p), UNCHANGED stamp,
         p \in Workers => pc'[p] \in WorkerLabels,
         p \in Requests => pc'[p] \notin WorkerLabels
  PROVE  OwnStep(p)
<1>0. p # None /\ Unlock(p)
  BY StoreAssumption DEF Commit, Rollback
<1>1. OwnLocks(p)
  BY <1>0 DEF Unlock, OwnLocks
<1>2. OthersRows(p)
  <2> SUFFICES ASSUME NEW r \in Requests, r # p
               PROVE  /\ stamp'[r] = stamp[r]
                      /\ \A s \in Seats : seatLock'[s] = r <=> seatLock[s] = r
                      /\ \A x \in Requests :
                           /\ resvLock'[x] = r <=> resvLock[x] = r
                           /\ resvLock[x] = r => resv'[x] = resv[x] /\ resvW'[x] = resvW[x]
    BY DEF OthersRows
  <2>1. r # None
    BY StoreAssumption DEF Process
  <2>2. /\ \A s \in Seats : seatLock'[s] = r <=> seatLock[s] = r
        /\ \A x \in Requests : resvLock'[x] = r <=> resvLock[x] = r
    BY <1>0, <2>1 DEF Unlock
  <2>3. \A x \in Requests : resvLock[x] = r => resv'[x] = resv[x] /\ resvW'[x] = resvW[x]
    BY DEF Commit, Rollback
  <2> QED BY <2>2, <2>3
<1> QED
  BY <1>1, <1>2 DEF OwnStep

\* A statement that locks and writes nothing.
LEMMA QuietStatement ==
  ASSUME Inv, LockPlaces, NEW p \in Process, UNCHANGED <<tables, stamp>>, Alone(p),
         p \in Workers => pc'[p] \in WorkerLabels,
         p \in Requests => pc'[p] \notin WorkerLabels,
         pc'[p] = pc[p] \/ pc[p] \notin StockHolders \cup SeatHolders \cup {"s_lock"}
  PROVE  OwnStep(p)
<1>0. p # None
  BY StoreAssumption
<1> QED
  BY <1>0 DEF OwnStep, OwnLocks, OthersRows, LockPlaces, tables

\* The statements of a quantity reservation.
LEMMA QuantityInOrder ==
  ASSUME Inv, RowInv, WaitInv, [Next]_vars, NEW r \in Requests, QuantityReserve(r)
  PROVE  WaitInv'
<1>0. /\ r \in Process /\ r # None /\ r \notin Workers /\ pc \in [Process -> Label]
      /\ stamp \in [Requests -> Nat] /\ LockPlaces
      /\ ticketLock \in [TicketTypes -> Process \cup {None}]
  BY StoreAssumption DEF Process, Inv, TypeOK, LocalsOK, TablesOK, WaitInv
<1> USE DEF QuantityLabels, WorkerLabels
<1>1. CASE QuantityLookup(r) \/ QuantityNoStock(r) \/ QuantityResolve(r)
  <2>1. /\ pc[r] \in {"q_lookup", "q_stock", "q_resolve"} /\ UNCHANGED <<tables, stamp>>
        /\ pc'[r] \in {"q_stock", "q_resolve", "done"} /\ Alone(r)
    BY <1>0, <1>1 DEF QuantityLookup, QuantityNoStock, QuantityResolve, Done, Goto, Alone
  <2>2. OwnStep(r)
    BY <1>0, <2>1, QuietStatement DEF StockHolders, SeatHolders
  <2> QED BY <1>0, <2>1, <2>2, OwnStepKeeps, ElsewhereInOrder DEF SeatHolders
<1>2. CASE QuantityStock(r)
  <2>1. /\ UNCHANGED <<resv, resvW, resvLock, seatLock>>
        /\ pc[r] = "q_stock" /\ pc'[r] = "q_insert" /\ Alone(r)
        /\ ticketLock' = [ticketLock EXCEPT ![req[r].ticket] = r]
        /\ stamp' = [stamp EXCEPT ![r] = now + TTL]
    BY <1>0, <1>2 DEF QuantityStock, SetTicket, Goto, Alone
  <2>2. OwnLocks(r)
    BY <1>0, <2>1 DEF OwnLocks, LockPlaces, StockHolders, SeatHolders
  <2>3. OthersRows(r)
    BY <1>0, <2>1 DEF OthersRows
  <2>4. OwnStep(r)
    BY <2>1, <2>2, <2>3 DEF OwnStep
  <2> QED BY <1>0, <2>1, <2>4, OwnStepKeeps, ElsewhereInOrder DEF SeatHolders
<1>3. CASE QuantityInsert(r)
  <2>1. UNCHANGED stamp /\ pc[r] = "q_insert" /\ pc'[r] \in {"q_commit", "q_resolve"} /\ Alone(r)
    BY <1>0, <1>3 DEF QuantityInsert, Goto, Alone
  <2>2. CASE Rollback(r)
    <3>1. OwnStep(r)
      BY <1>0, <2>1, <2>2, EndOfTransaction
    <3> QED BY <1>0, <2>1, <3>1, OwnStepKeeps, ElsewhereInOrder DEF SeatHolders
  <2>3. CASE InsertReservation(r, "reserved") /\ pc'[r] = "q_commit"
             /\ UNCHANGED <<ticketLock, resv, seatLock>>
    <3>1. OwnLocks(r)
      BY <1>0, <2>1, <2>3 DEF OwnLocks, LockPlaces, StockHolders, SeatHolders
    <3>2. OthersRows(r)
      <4>1. resvLock[r] = None
        BY <1>0, <2>1, NoRowYet DEF BeforeInsert
      <4> QED BY <1>0, <2>1, <2>3, <4>1, StoreAssumption DEF OthersRows, InsertReservation,
                 Inv, TypeOK, TablesOK, Process
    <3>3. OwnStep(r)
      BY <2>1, <3>1, <3>2 DEF OwnStep
    <3> QED BY <1>0, <2>1, <3>3, OwnStepKeeps, ElsewhereInOrder DEF SeatHolders
  <2> QED BY <1>0, <1>3, <2>2, <2>3 DEF QuantityInsert, Goto
<1>4. CASE QuantityCommit(r)
  <2>1. UNCHANGED stamp /\ pc'[r] = "done" /\ Alone(r) /\ Commit(r)
    BY <1>0, <1>4 DEF QuantityCommit, Done, Alone
  <2>2. OwnStep(r)
    BY <1>0, <2>1, EndOfTransaction
  <2> QED BY <1>0, <2>1, <2>2, OwnStepKeeps, ElsewhereInOrder DEF SeatHolders
<1> QED
  BY <1>1, <1>2, <1>3, <1>4 DEF QuantityReserve

\* The statements of cancel, confirm and get.
LEMMA LifecycleInOrder ==
  ASSUME Inv, RowInv, WaitInv, [Next]_vars, NEW r \in Requests, Lifecycle(r)
  PROVE  WaitInv'
<1>0. /\ r \in Process /\ r # None /\ r \notin Workers /\ pc \in [Process -> Label]
      /\ LockPlaces /\ ticketLock \in [TicketTypes -> Process \cup {None}]
      /\ resvLock \in [Requests -> Process \cup {None}]
  BY StoreAssumption DEF Process, Inv, TypeOK, LocalsOK, TablesOK, WaitInv
<1> USE DEF LifecycleLabels, GetLabels, WorkerLabels
<1>1. CASE NotFound(r) \/ LifecycleSettled(r) \/ GetParent(r) \/ GetChildren(r)
  <2>1. /\ pc[r] \in {"l_lock", "g_parent", "g_children"} /\ UNCHANGED <<tables, stamp>>
        /\ pc'[r] \in {"g_children", "done"} /\ Alone(r)
    BY <1>0, <1>1 DEF NotFound, LifecycleSettled, GetParent, GetChildren, Done, Goto, Alone
  <2>2. OwnStep(r)
    BY <1>0, <2>1, QuietStatement DEF StockHolders, SeatHolders
  <2> QED BY <1>0, <2>1, <2>2, OwnStepKeeps, ElsewhereInOrder DEF SeatHolders
<1>2. CASE LifecycleLock(r)
  <2>1. /\ UNCHANGED <<resv, resvW, ticketLock, seatLock, stamp>>
        /\ pc[r] = "l_lock" /\ pc'[r] = "l_move" /\ Alone(r)
        /\ resvLock' = [resvLock EXCEPT ![req[r].target] = r]
        /\ resvLock[req[r].target] \in {None, r}
    BY <1>0, <1>2 DEF LifecycleLock, Free, Goto, Alone
  <2>2. OwnLocks(r)
    BY <1>0, <2>1 DEF OwnLocks, LockPlaces, StockHolders, SeatHolders
  <2>3. OthersRows(r)
    BY <1>0, <2>1, StoreAssumption DEF OthersRows, Process
  <2>4. OwnStep(r)
    BY <2>1, <2>2, <2>3 DEF OwnStep
  <2> QED BY <1>0, <2>1, <2>4, OwnStepKeeps, ElsewhereInOrder DEF SeatHolders
<1>3. CASE LifecycleMove(r)
  <2>1. /\ UNCHANGED <<resv, resvLock, seatLock, stamp>>
        /\ pc[r] = "l_move" /\ pc'[r] = "l_commit" /\ Alone(r)
        /\ TransitionReserved(r, req[r].target, goal[r])
    BY <1>0, <1>3 DEF LifecycleMove, Goto, Alone
  <2>2. resvLock[req[r].target] = r
    BY <2>1 DEF Inv, StockInv, LocksHeld
  <2>3. /\ \A t \in TicketTypes : ticketLock'[t] \in {ticketLock[t], r}
        /\ \A x \in Requests : x # req[r].target => resvW'[x] = resvW[x]
    BY <1>0, <2>1 DEF TransitionReserved, TransitionQuantity, TransitionSeats, SetTicket,
       Inv, TypeOK, TablesOK
  <2>4. OwnLocks(r)
    BY <1>0, <2>1, <2>3 DEF OwnLocks, LockPlaces, StockHolders, SeatHolders
  <2>5. OthersRows(r)
    BY <1>0, <2>1, <2>2, <2>3 DEF OthersRows
  <2>6. OwnStep(r)
    BY <2>1, <2>4, <2>5 DEF OwnStep
  <2> QED BY <1>0, <2>1, <2>6, OwnStepKeeps, ElsewhereInOrder DEF SeatHolders
<1>4. CASE LifecycleConflict(r) \/ LifecycleCommit(r)
  <2>1. UNCHANGED stamp /\ pc'[r] = "done" /\ Alone(r) /\ (Commit(r) \/ Rollback(r))
    BY <1>0, <1>4 DEF LifecycleConflict, LifecycleCommit, Done, Alone
  <2>2. OwnStep(r)
    BY <1>0, <2>1, EndOfTransaction
  <2> QED BY <1>0, <2>1, <2>2, OwnStepKeeps, ElsewhereInOrder DEF SeatHolders
<1> QED
  BY <1>1, <1>2, <1>3, <1>4 DEF Lifecycle

\* The locks of the seat rows.
LEMMA SeatLockInOrder ==
  ASSUME Inv, RowInv, WaitInv, [Next]_vars, NEW r \in Requests,
         SeatsLookup(r) \/ SeatsLock(r)
  PROVE  WaitInv'
<1>0. /\ r \in Process /\ r # None /\ r \notin Workers /\ pc \in [Process -> Label]
      /\ todo \in [Process -> SUBSET Nat] /\ Seats \subseteq Nat
      /\ LockPlaces /\ InOrder(r) /\ req \in Payloads /\ req' = req
      /\ seatLock \in [Seats -> Process \cup {None}]
  BY StoreAssumption, ClockAndPayloads
  DEF Process, Inv, TypeOK, LocalsOK, TablesOK, EnvOK, WaitInv
<1>a. req[r].seats \in SUBSET Seats
  BY <1>0, PayloadFields
  DEF SeatsLookup, SeatsLock, Inv, StockInv, HandlerMatches, SeatsLabels
<1> USE DEF SeatsLabels, WorkerLabels
<1>1. CASE SeatsLookup(r)
  <2>1. /\ pc[r] = "s_lookup" /\ UNCHANGED <<tables, stamp>> /\ Alone(r)
        /\ pc'[r] \in {"s_lock", "done"}
        /\ pc'[r] = "s_lock" => todo'[r] = {s \in req[r].seats : SeatEvent[s] = req[r].event}
    BY <1>0, <1>1 DEF SeatsLookup, Done, Goto, Alone
  <2>2. OwnStep(r)
    BY <1>0, <2>1, QuietStatement DEF StockHolders, SeatHolders
  <2>3. \A s \in Seats : seatLock'[s] # r
    BY <1>0, <2>1 DEF LockPlaces, SeatHolders, tables
  <2>4. SeatsInOrder(r)'
    BY <1>0, <1>a, <2>1, <2>3 DEF SeatsInOrder
  <2>5. InOrder(r)'
    BY <2>1, <2>4 DEF InOrder, ParentsInOrder, SeatsSecured, SeatHolders
  <2> QED BY <1>0, <2>2, <2>5, OwnStepKeeps
<1>2. CASE SeatsLock(r)
  <2>1. PICK s \in todo[r] :
          /\ InIdOrder(todo[r], s) /\ Free(seatLock[s], r)
          /\ seatLock' = [seatLock EXCEPT ![s] = r]
          /\ todo' = [todo EXCEPT ![r] = @ \ {s}]
    BY <1>2 DEF SeatsLock
  <2>2. /\ pc[r] = "s_lock" /\ pc' = pc /\ UNCHANGED <<resv, resvW, resvLock, ticketLock, stamp>>
    BY <1>2 DEF SeatsLock
  <2>3. Alone(r) /\ todo'[r] = todo[r] \ {s}
    BY <1>0, <2>1, <2>2 DEF Alone
  <2>4. OwnLocks(r)
    BY <1>0, <2>1, <2>2 DEF OwnLocks, LockPlaces, SeatHolders, StockHolders
  <2>5. OthersRows(r)
    BY <1>0, <2>1, <2>2, StoreAssumption DEF OthersRows, Free, Process
  <2>6. SeatsInOrder(r)'
    <3>1. ASSUME NEW v \in Seats, seatLock'[v] = r, NEW u \in todo'[r]
          PROVE  v < u
      <4>1. CASE v = s
        BY <1>0, <2>1, <2>3, <3>1, <4>1 DEF InIdOrder
      <4>2. CASE v # s
        BY <1>0, <2>1, <2>2, <2>3, <3>1, <4>2 DEF InOrder, SeatsInOrder
      <4> QED BY <4>1, <4>2
    <3>2. ASSUME NEW v \in req[r].seats
          PROVE  seatLock'[v] = r \/ v \in todo'[r] \/ SeatEvent[v] # req[r].event
      BY <1>0, <1>a, <2>1, <2>2, <2>3, <3>2 DEF InOrder, SeatsInOrder
    <3>3. todo'[r] \subseteq req[r].seats
      BY <1>0, <2>2, <2>3 DEF InOrder, SeatsInOrder
    <3> QED BY <1>0, <3>1, <3>2, <3>3 DEF SeatsInOrder
  <2>7. InOrder(r)'
    BY <2>2, <2>6 DEF InOrder, ParentsInOrder, SeatsSecured, SeatHolders
  <2> QED BY <1>0, <2>3, <2>4, <2>5, <2>7, OwnStepKeeps DEF OwnStep
<1> QED
  BY <1>1, <1>2

\* The sweep of stale holds: which parents it locks, and when.
LEMMA SweepInOrder ==
  ASSUME Inv, RowInv, WaitInv, [Next]_vars, NEW r \in Requests,
         SeatsStale(r) \/ SeatsLockParent(r) \/ SeatsExpire(r)
  PROVE  WaitInv'
<1>0. /\ r \in Process /\ r # None /\ r \notin Workers /\ pc \in [Process -> Label]
      /\ todo \in [Process -> SUBSET Nat] /\ Requests \subseteq Nat /\ TTL \in Nat
      /\ stamp \in [Requests -> Nat] /\ resv \in [Requests -> Row] /\ now \in Nat
      /\ LockPlaces /\ InOrder(r) /\ req \in Payloads /\ req' = req
      /\ resvLock \in [Requests -> Process \cup {None}]
  BY StoreAssumption, ClockAndPayloads
  DEF Process, Inv, TypeOK, LocalsOK, TablesOK, EnvOK, WaitInv
<1>a. req[r].seats \in SUBSET Seats
  BY <1>0, PayloadFields
  DEF SeatsStale, SeatsLockParent, SeatsExpire, Inv, StockInv, HandlerMatches, SeatsLabels
<1> USE DEF WorkerLabels
<1>1. CASE SeatsStale(r)
  <2>1. /\ pc[r] = "s_lock" /\ todo[r] = {} /\ UNCHANGED tables
        /\ \A s \in req[r].seats : SeatEvent[s] = req[r].event
        /\ todo' = [todo EXCEPT ![r] = StaleHolders(r)]
        /\ stamp' = [stamp EXCEPT ![r] = now + TTL]
        /\ pc' = [pc EXCEPT ![r] = IF StaleHolders(r) = {} THEN "s_insert" ELSE "s_parents"]
    BY <1>1 DEF SeatsStale, Goto
  <2>2. /\ Alone(r) /\ todo'[r] = StaleHolders(r) /\ stamp'[r] = now + TTL
        /\ pc'[r] \in {"s_insert", "s_parents"}
        /\ pc'[r] = "s_insert" => StaleHolders(r) = {}
    BY <1>0, <2>1 DEF Alone
  <2>3. OwnLocks(r)
    BY <1>0, <2>1, <2>2 DEF OwnLocks, LockPlaces, SeatHolders, StockHolders, tables
  <2>4. OthersRows(r)
    BY <1>0, <2>1 DEF OthersRows, tables
  <2>5. \A x \in Requests : resvLock'[x] # r
    <3>1. ASSUME NEW x \in Requests, resvLock[x] = r PROVE FALSE
      BY <1>0, <2>1, <3>1 DEF RowInv, RowLocks, Entitled, Inserting
    <3> QED BY <2>1, <3>1 DEF tables
  <2>6. \A s \in req[r].seats : seatLock'[s] = r
    BY <1>0, <2>1 DEF InOrder, SeatsInOrder, tables
  <2>7. ASSUME NEW x \in Requests PROVE StaleFor(r, x)' <=> resv[x].expires <= now
    <3>1. resv[x].expires \in Nat /\ resv' = resv
      BY <1>0, <2>1 DEF Row, tables
    <3> QED BY <1>0, <2>2, <3>1 DEF StaleFor
  <2>8. \A x \in todo'[r] : x \in Requests /\ StaleFor(r, x)'
    BY <2>2, <2>7 DEF StaleHolders
  <2>9. ASSUME NEW x \in Requests, StaleFor(r, x)',
               NEW s \in req[r].seats, resv'[x].hold[s] = "reserved"
        PROVE  x \in StaleHolders(r)
    BY <2>1, <2>7, <2>9 DEF StaleHolders, tables
  <2>10. InOrder(r)'
    <3>1. SeatsInOrder(r)' /\ ParentsInOrder(r)'
      BY <2>2, <2>5, <2>8 DEF SeatsInOrder, ParentsInOrder
    <3>2. SeatsSecured(r)'
      BY <1>0, <2>2, <2>5, <2>6, <2>9 DEF SeatsSecured
    <3> QED BY <3>1, <3>2 DEF InOrder
  <2> QED BY <1>0, <2>2, <2>3, <2>4, <2>10, OwnStepKeeps DEF OwnStep
<1>2. CASE SeatsLockParent(r)
  <2>1. PICK x \in todo[r] :
          /\ InIdOrder(todo[r], x) /\ Free(resvLock[x], r)
          /\ resvLock' = [resvLock EXCEPT ![x] = r]
          /\ todo' = [todo EXCEPT ![r] = @ \ {x}]
    BY <1>2 DEF SeatsLockParent
  <2>2. /\ pc[r] = "s_parents" /\ pc' = pc
        /\ UNCHANGED <<resv, resvW, seatLock, ticketLock, stamp>>
    BY <1>2 DEF SeatsLockParent
  <2>3. /\ Alone(r) /\ todo'[r] = todo[r] \ {x} /\ x \in Requests
        /\ resv[x].status # Absent
    BY <1>0, <2>1, <2>2 DEF Alone, RowInv, StaleParents, OverdueHold
  <2>4. OwnLocks(r)
    BY <1>0, <2>2 DEF OwnLocks, LockPlaces, SeatHolders, StockHolders
  <2>5. OthersRows(r)
    BY <1>0, <2>1, <2>2, StoreAssumption DEF OthersRows, Free, Process
  <2>6. resvW[x] = resv[x]
    <3>1. CASE resvLock[x] = None
      BY <2>3, <3>1 DEF Inv, StockInv, UnlockedIsCommitted
    <3>2. CASE resvLock[x] = r
      BY <1>0, <2>2, <2>3, <3>2 DEF InOrder, ParentsInOrder
    <3> QED BY <2>1, <3>1, <3>2 DEF Free
  <2>7. ParentsInOrder(r)'
    <3>1. ASSUME NEW y \in Requests, resvLock'[y] = r
          PROVE  resvW'[y] = resv'[y] /\ \A z \in todo'[r] : y < z
      <4>1. CASE y = x
        <5>1. \A z \in todo'[r] : x < z
          BY <1>0, <2>1, <2>3 DEF InIdOrder
        <5> QED BY <2>2, <2>6, <4>1, <5>1
      <4>2. CASE y # x
        BY <1>0, <2>1, <2>2, <2>3, <3>1, <4>2 DEF InOrder, ParentsInOrder
      <4> QED BY <4>1, <4>2
    <3>2. \A z \in todo'[r] : StaleFor(r, z)'
      BY <1>0, <2>2, <2>3 DEF InOrder, ParentsInOrder, StaleFor
    <3> QED BY <3>1, <3>2 DEF ParentsInOrder
  <2>8. SeatsSecured(r)'
    <3>0. \A y \in Requests : StaleFor(r, y)' <=> StaleFor(r, y)
      BY <2>2 DEF StaleFor
    <3>1. \A s \in req[r].seats : seatLock'[s] = r
      BY <1>0, <2>2 DEF InOrder, SeatsSecured, SeatHolders
    <3>2. ASSUME NEW y \in Requests \ {r}, resvLock'[y] = r PROVE StaleFor(r, y)'
      <4>1. CASE y = x
        BY <1>0, <2>2, <3>0, <4>1, <2>1 DEF InOrder, ParentsInOrder
      <4>2. CASE y # x
        BY <1>0, <2>1, <2>2, <3>0, <3>2, <4>2 DEF InOrder, SeatsSecured, SeatHolders
      <4> QED BY <4>1, <4>2
    <3>3. ASSUME NEW y \in Requests \ {r}, StaleFor(r, y)',
                 NEW s \in req[r].seats, resv'[y].hold[s] = "reserved"
          PROVE  resvLock'[y] = r \/ y \in todo'[r]
      <4>1. resvLock[y] = r \/ y \in todo[r]
        BY <1>0, <2>2, <3>0, <3>3 DEF InOrder, SeatsSecured, SeatHolders
      <4> QED BY <1>0, <2>1, <2>3, <4>1
    <3> QED BY <1>0, <2>2, <3>1, <3>2, <3>3 DEF SeatsSecured
  <2>9. InOrder(r)'
    BY <2>2, <2>7, <2>8 DEF InOrder, SeatsInOrder
  <2> QED BY <1>0, <2>3, <2>4, <2>5, <2>9, OwnStepKeeps DEF OwnStep
<1>3. CASE SeatsExpire(r)
  <2>1. /\ pc[r] = "s_parents" /\ todo[r] = {} /\ pc'[r] = "s_insert" /\ Alone(r)
        /\ UNCHANGED <<resv, resvLock, seatLock, ticketLock, stamp>>
        /\ \A x \in Requests : resvLock[x] # r => resvW'[x] = resvW[x]
    BY <1>0, <1>3 DEF SeatsExpire, Goto, Alone
  <2>2. OwnLocks(r)
    BY <1>0, <2>1 DEF OwnLocks, LockPlaces, SeatHolders, StockHolders
  <2>3. OthersRows(r)
    BY <1>0, <2>1 DEF OthersRows
  <2>4. SeatsSecured(r)'
    BY <1>0, <2>1 DEF InOrder, SeatsSecured, SeatHolders, StaleFor
  <2>5. InOrder(r)'
    BY <2>1, <2>4 DEF InOrder, SeatsInOrder, ParentsInOrder
  <2> QED BY <1>0, <2>1, <2>2, <2>3, <2>5, OwnStepKeeps DEF OwnStep
<1> QED
  BY <1>1, <1>2, <1>3

\* All the statements of a seat reservation.
LEMMA SeatsKeepOrder ==
  ASSUME Inv, RowInv, WaitInv, [Next]_vars, NEW r \in Requests, SeatsReserve(r)
  PROVE  WaitInv'
<1>0. /\ r \in Process /\ r # None /\ r \notin Workers /\ pc \in [Process -> Label]
      /\ LockPlaces /\ InOrder(r) /\ req' = req /\ todo \in [Process -> SUBSET Nat]
      /\ resvLock \in [Requests -> Process \cup {None}] /\ resvW \in [Requests -> Row]
  BY StoreAssumption, ClockAndPayloads
  DEF Process, Inv, TypeOK, LocalsOK, TablesOK, WaitInv
<1> USE DEF WorkerLabels
<1>1. CASE SeatsLookup(r) \/ SeatsLock(r)
  BY <1>1, SeatLockInOrder
<1>2. CASE SeatsStale(r) \/ SeatsLockParent(r) \/ SeatsExpire(r)
  BY <1>2, SweepInOrder
<1>3. CASE SeatsMissing(r) \/ SeatsCommit(r)
  <2>1. UNCHANGED stamp /\ pc'[r] = "done" /\ Alone(r) /\ (Commit(r) \/ Rollback(r))
    BY <1>0, <1>3 DEF SeatsMissing, SeatsCommit, Done, Alone
  <2>2. OwnStep(r)
    BY <1>0, <2>1, EndOfTransaction
  <2> QED BY <1>0, <2>1, <2>2, OwnStepKeeps, ElsewhereInOrder DEF SeatHolders
<1>4. CASE SeatsResolve(r)
  <2>1. /\ pc[r] = "s_resolve" /\ UNCHANGED <<tables, stamp>>
        /\ pc'[r] = "done" /\ Alone(r)
    BY <1>0, <1>4 DEF SeatsResolve, Done, Alone
  <2>2. OwnStep(r)
    BY <1>0, <2>1, QuietStatement DEF StockHolders, SeatHolders
  <2> QED BY <1>0, <2>1, <2>2, OwnStepKeeps, ElsewhereInOrder DEF SeatHolders
<1>5. CASE Rollback(r) /\ (SeatsInsert(r) \/ SeatsHold(r)) /\ pc'[r] = "s_resolve"
  <2>1. UNCHANGED stamp /\ Alone(r)
    BY <1>0, <1>5 DEF SeatsInsert, SeatsHold, Goto, Alone
  <2>2. OwnStep(r)
    BY <1>0, <1>5, <2>1, EndOfTransaction
  <2> QED BY <1>0, <1>5, <2>1, <2>2, OwnStepKeeps, ElsewhereInOrder DEF SeatHolders
<1>6. CASE /\ SeatsInsert(r) /\ InsertReservation(r, Absent) /\ Goto(r, "s_holds")
           /\ UNCHANGED <<tickets, ticketsW, ticketLock, resv, seatLock>>
  <2>1. /\ pc[r] = "s_insert" /\ pc'[r] = "s_holds" /\ Alone(r) /\ UNCHANGED stamp
        /\ resvLock' = [resvLock EXCEPT ![r] = r]
        /\ \A x \in Requests : x # r => resvW'[x] = resvW[x]
    BY <1>0, <1>6 DEF SeatsInsert, InsertReservation, Goto, Alone
  <2>2. resvLock[r] = None
    BY <2>1, NoRowYet DEF BeforeInsert
  <2>3. OwnLocks(r)
    BY <1>0, <1>6, <2>1 DEF OwnLocks, LockPlaces, SeatHolders, StockHolders
  <2>4. OthersRows(r)
    BY <1>0, <1>6, <2>1, <2>2, StoreAssumption DEF OthersRows, Process
  <2>5. SeatsSecured(r)'
    BY <1>0, <1>6, <2>1 DEF InOrder, SeatsSecured, SeatHolders, StaleFor
  <2>6. InOrder(r)'
    BY <2>1, <2>5 DEF InOrder, SeatsInOrder, ParentsInOrder
  <2> QED BY <1>0, <2>1, <2>3, <2>4, <2>6, OwnStepKeeps DEF OwnStep
<1>7. CASE /\ SeatsHold(r) /\ UNCHANGED <<tickets, ticketsW, ticketLock, resv, resvLock, seatLock>>
           /\ \E s \in todo[r] : resvW' = [resvW EXCEPT ![r].hold[s] = "reserved"]
           /\ pc'[r] \in {"s_commit", "s_holds"}
  <2>1. /\ pc[r] = "s_holds" /\ Alone(r) /\ UNCHANGED stamp
        /\ \A x \in Requests : x # r => resvW'[x] = resvW[x]
    BY <1>0, <1>7 DEF SeatsHold, Goto, Alone
  <2>2. resvLock[r] = r
    BY <2>1 DEF Inv, StockInv, LocksHeld
  <2>3. OwnLocks(r)
    BY <1>0, <1>7, <2>1 DEF OwnLocks, LockPlaces, SeatHolders, StockHolders
  <2>4. OthersRows(r)
    BY <1>0, <1>7, <2>1, <2>2 DEF OthersRows
  <2>5. SeatsSecured(r)'
    BY <1>0, <1>7, <2>1 DEF InOrder, SeatsSecured, SeatHolders, StaleFor
  <2>6. InOrder(r)'
    BY <1>7, <2>5 DEF InOrder, SeatsInOrder, ParentsInOrder
  <2> QED BY <1>0, <2>1, <2>3, <2>4, <2>6, OwnStepKeeps DEF OwnStep
<1>8. CASE SeatsInsert(r)
  BY <1>0, <1>5, <1>6, <1>8 DEF SeatsInsert, Goto
<1>9. CASE SeatsHold(r)
  BY <1>0, <1>5, <1>7, <1>9 DEF SeatsHold, Goto
<1> QED
  BY <1>1, <1>2, <1>3, <1>4, <1>8, <1>9 DEF SeatsReserve

\* The statements of a worker.
LEMMA WorkerInOrder ==
  ASSUME Inv, RowInv, WaitInv, [Next]_vars, NEW w \in Workers, ExpireBatch(w)
  PROVE  WaitInv'
<1>0. /\ w \in Process /\ w # None /\ w \notin Requests /\ LockPlaces
      /\ pc \in [Process -> Label] /\ todo \in [Process -> SUBSET Nat]
      /\ todo[w] \subseteq Requests
      /\ resvLock \in [Requests -> Process \cup {None}]
      /\ ticketLock \in [TicketTypes -> Process \cup {None}]
  BY StoreAssumption DEF Process, Inv, TypeOK, LocalsOK, TablesOK, WaitInv
<1> USE DEF WorkerLabels
<1>1. CASE WorkerIdle(w)
  <2>1. UNCHANGED <<tables, stamp>> /\ pc'[w] = "w_sleep" /\ pc'[w] = pc[w] /\ Alone(w)
    BY <1>1 DEF WorkerIdle, locals, Alone
  <2>2. OwnStep(w)
    BY <1>0, <2>1, QuietStatement
  <2> QED BY <1>0, <2>2, OwnStepKeeps
<1>2. CASE WorkerLock(w)
  <2>1. /\ UNCHANGED <<resv, resvW, ticketLock, seatLock, stamp>>
        /\ pc[w] = "w_sleep" /\ pc'[w] = "w_move" /\ Alone(w)
        /\ resvLock' = [x \in Requests |-> IF x \in Batch THEN w ELSE resvLock[x]]
    BY <1>0, <1>2 DEF WorkerLock, Goto, Alone
  <2>2. \A x \in Batch : x \in Requests /\ resvLock[x] = None
    BY DEF Batch, Expirable
  <2>3. OwnLocks(w)
    BY <1>0, <2>1 DEF OwnLocks, LockPlaces, SeatHolders, StockHolders
  <2>4. OthersRows(w)
    BY <1>0, <2>1, <2>2, StoreAssumption DEF OthersRows, Process
  <2> QED BY <1>0, <2>1, <2>3, <2>4, OwnStepKeeps DEF OwnStep
<1>3. CASE WorkerMove(w)
  <2>1. /\ UNCHANGED <<resv, resvLock, seatLock, stamp>> /\ pc[w] = "w_move"
    BY <1>3 DEF WorkerMove
  <2>2. PICK x \in todo[w] :
          /\ \/ TransitionReserved(w, x, "expired")
             \/ UNCHANGED <<ticketLock, resvW>>
          /\ todo' = [todo EXCEPT ![w] = @ \ {x}]
          /\ pc' = [pc EXCEPT ![w] = IF todo[w] = {x} THEN "w_commit" ELSE "w_move"]
    BY <1>3 DEF WorkerMove, Goto
  <2>3. pc'[w] \in {"w_move", "w_commit"} /\ Alone(w)
    BY <1>0, <2>2 DEF Alone
  <2>4. x \in Requests /\ resvLock[x] = w
    BY <2>1 DEF Inv, StockInv, LocksHeld
  <2>5. /\ \A t \in TicketTypes : ticketLock'[t] \in {ticketLock[t], w}
        /\ \A y \in Requests : y # x => resvW'[y] = resvW[y]
    BY <1>0, <2>2 DEF TransitionReserved, TransitionQuantity, TransitionSeats, SetTicket,
       Inv, TypeOK, TablesOK
  <2>6. OwnLocks(w)
    BY <1>0, <2>1, <2>3, <2>5 DEF OwnLocks, LockPlaces, StockHolders, SeatHolders
  <2>7. OthersRows(w)
    BY <1>0, <2>1, <2>4, <2>5 DEF OthersRows
  <2> QED BY <1>0, <2>3, <2>6, <2>7, OwnStepKeeps DEF OwnStep
<1>4. CASE WorkerCommit(w)
  <2>1. UNCHANGED stamp /\ pc'[w] = "w_sleep" /\ Alone(w) /\ Commit(w)
    BY <1>0, <1>4 DEF WorkerCommit, Goto, Alone
  <2>2. OwnStep(w)
    BY <1>0, <2>1, EndOfTransaction
  <2> QED BY <1>0, <2>2, OwnStepKeeps
<1> QED
  BY <1>1, <1>2, <1>3, <1>4 DEF ExpireBatch

\* Every step keeps the order of the locks.
LEMMA NextKeepsOrder ==
  ASSUME Inv, RowInv, WaitInv, [Next]_vars
  PROVE  WaitInv'
<1>1. ASSUME NEW r \in Requests, Serve(r) PROVE WaitInv'
  BY <1>1, QuantityInOrder, SeatsKeepOrder, LifecycleInOrder DEF Serve
<1>2. ASSUME NEW w \in Workers, ExpireBatch(w) PROVE WaitInv'
  BY <1>2, WorkerInOrder
<1>3. ASSUME NEW p \in Process, Abort(p) PROVE WaitInv'
  <2>0. /\ pc \in [Process -> Label] /\ todo \in [Process -> SUBSET Nat]
        /\ Workers \cap Requests = {}
    BY StoreAssumption DEF Inv, TypeOK, LocalsOK
  <2>1. /\ UNCHANGED stamp /\ Rollback(p) /\ Alone(p)
        /\ pc'[p] = IF p \in Workers THEN "w_sleep" ELSE "done"
    BY <1>3, <2>0 DEF Abort, Goto, Alone
  <2>2. OwnStep(p)
    BY <2>0, <2>1, EndOfTransaction DEF WorkerLabels
  <2> QED BY <2>1, <2>2, OwnStepKeeps, ElsewhereInOrder DEF SeatHolders
<1>4. CASE UNCHANGED <<tables, locals, req>>
  <2>1. UNCHANGED <<req, resv, resvW, resvLock, ticketLock, seatLock, pc, todo, stamp>>
    BY <1>4 DEF tables, locals
  <2>2. LockPlaces'
    BY <2>1 DEF WaitInv, LockPlaces
  <2>3. \A r \in Requests : InOrder(r)'
    BY <2>1 DEF WaitInv, InOrder, SeatsInOrder, ParentsInOrder, SeatsSecured, StaleFor
  <2> QED BY <2>2, <2>3 DEF WaitInv
<1>5. CASE UNCHANGED vars
  BY <1>4, <1>5 DEF vars, env
<1>6. CASE Next
  BY <1>1, <1>2, <1>3, <1>4, <1>6 DEF Next, Crash, DeadlockVictim, Tick, AllAnswered, env
<1> QED
  BY <1>5, <1>6

\* Nothing is locked at the start.
LEMMA InitInOrder == Init => WaitInv
<1> SUFFICES ASSUME Init PROVE WaitInv
  OBVIOUS
<1>0. /\ \A t \in TicketTypes : ticketLock[t] = None
      /\ \A s \in Seats : seatLock[s] = None
      /\ \A w \in Workers : pc[w] = "w_sleep"
      /\ \A r \in Requests : pc[r] = Entry(req[r].op)
  BY StoreAssumption DEF Process, Init, InitWith, NoRow
<1>1. \A r \in Requests :
        req[r].op \in {"quantity", "seats", "get", "cancel", "confirm"}
  <2>1. \A r \in Requests : req[r] \in Payload
    BY StoreAssumption DEF Init, Payloads
  <2> QED BY <2>1 DEF Payload, QuantityPayload, SeatsPayload, LifecyclePayload
<1>2. \A r \in Requests : pc[r] \notin SeatHolders \cup {"s_lock"} \cup WorkerLabels
  BY <1>0, <1>1 DEF Entry, SeatHolders, WorkerLabels
<1> QED
  BY <1>0, <1>2 DEF WaitInv, LockPlaces, InOrder, SeatsInOrder, ParentsInOrder, SeatsSecured,
     SeatHolders, WorkerLabels

-----------------------------------------------------------------------------
(* Whom a process waits for *)

\* One key is used for one kind of reservation, and for seats in common when it
\* is used for seats, as a client that retries does.
RetriesAskAgain ==
  \A r \in Requests : req[r].op \in {"quantity", "seats"} =>
    \A x \in SameKey(r) :
      /\ req[x].op = req[r].op
      /\ req[r].op = "seats" => req[x].seats \cap req[r].seats # {}

RowHolders == {"s_parents", "s_insert", "s_holds", "s_commit", "q_commit",
               "l_move", "l_commit", "w_move", "w_commit"}

\* The waits lead from earlier statements to later ones, and at one statement to
\* higher seats, higher parents, younger deadlines; or from worker to worker.
LeadsOn(p, q) ==
  \/ pc[p] \in {"q_stock", "l_move", "w_move"} /\ pc[q] \in StockHolders
  \/ pc[p] = "q_insert" /\ pc[q] = "q_commit"
  \/ pc[p] = "l_lock" /\ pc[q] \in RowHolders
  \/ /\ pc[p] = "s_lock"
     /\ \/ pc[q] \in SeatHolders
        \/ /\ pc[q] = "s_lock"
           /\ \E s \in todo[p] : InIdOrder(todo[p], s) /\ \A u \in todo[q] : s < u
  \/ /\ pc[p] = "s_parents" /\ pc[q] \in RowHolders
     /\ pc[q] = "s_parents" =>
          \E x \in todo[p] : InIdOrder(todo[p], x) /\ \A y \in todo[q] : x < y
  \/ /\ pc[p] = "s_holds" /\ pc[q] \in RowHolders \ {"s_parents"}
     /\ pc[q] = "s_holds" => p \in Requests /\ q \in Requests /\ stamp[p] < stamp[q]

\* Who may hold the lock of a row.
LEMMA RowsHeldBy ==
  ASSUME Inv, RowInv, WaitInv, NEW x \in Requests, NEW q \in Process, resvLock[x] = q
  PROVE  pc[q] \in RowHolders
<1>1. Entitled(q, x)
  BY StoreAssumption DEF RowInv, RowLocks
<1> QED
  BY <1>1 DEF Entitled, Inserting, RowHolders

\* A pending key belongs to a request that is about to commit: its insert of holds
\* would have been kept out by the locks of the seats they share.
LEMMA KeyWaits ==
  ASSUME Inv, RowInv, WaitInv, RetriesAskAgain, NEW p \in Requests, NEW q \in Process,
         pc[p] \in {"q_insert", "s_insert"}, p # q,
         ~ KeyTaken(p), NEW x \in SameKey(p), resvLock[x] = q, resvW[x].status # Absent
  PROVE  pc[p] = "q_insert" /\ pc[q] = "q_commit"
<1>0. /\ x \in Requests /\ resv[x].status = Absent /\ req \in Payloads
  BY DEF SameKey, KeyTaken, Inv, TypeOK, EnvOK
<1>1. Inserted(x)
  BY <1>0 DEF RowInv, WrittenRows, MovedOut, Absent
<1>2. q = x /\ pc[q] \in Inserting
  BY <1>1 DEF Inserted
<1>3. /\ pc[p] = "q_insert" => req[p].op = "quantity"
      /\ pc[p] = "s_insert" => req[p].op = "seats"
      /\ pc[x] = "q_commit" => req[x].op = "quantity"
      /\ pc[x] \in {"s_holds", "s_commit"} => req[x].op = "seats"
  BY <1>0 DEF Inv, StockInv, HandlerMatches, QuantityLabels, SeatsLabels
<1>4. /\ req[x].op = req[p].op
      /\ req[p].op = "seats" => req[x].seats \cap req[p].seats # {}
  BY <1>3 DEF RetriesAskAgain
<1>5. CASE pc[p] = "q_insert"
  BY <1>2, <1>3, <1>4, <1>5 DEF Inserting
<1>6. CASE pc[p] = "s_insert"
  <2>1. pc[x] \in {"s_holds", "s_commit"}
    BY <1>2, <1>3, <1>4, <1>6 DEF Inserting
  <2>2. PICK s \in req[x].seats : s \in req[p].seats
    BY <1>3, <1>4, <1>6
  <2>3. seatLock[s] = p /\ seatLock[s] = x
    BY <1>0, <1>6, <2>1, <2>2 DEF WaitInv, InOrder, SeatsSecured, SeatHolders
  <2> QED BY <1>2, <2>3
<1> QED
  BY <1>5, <1>6

\* The insert of a hold waits only for one that expires a reservation that was not
\* yet overdue when p looked.
LEMMA HoldWaits ==
  ASSUME Inv, RowInv, WaitInv, NEW p \in Requests, NEW q \in Process, p # q,
         pc[p] = "s_holds", NEW s \in todo[p], NEW x \in Requests, resvLock[x] = q,
         resvW[x].hold[s] # resv[x].hold[s]
  PROVE  /\ pc[q] \in RowHolders \ {"s_parents"}
         /\ pc[q] = "s_holds" => q \in Requests /\ stamp[p] < stamp[q]
<1>0. /\ req \in Payloads /\ resv \in [Requests -> Row] /\ stamp \in [Requests -> Nat]
      /\ InOrder(p) /\ TTL \in Nat /\ Workers \cap Requests = {}
      /\ \A w \in Workers : pc[w] \in WorkerLabels
  BY StoreAssumption
  DEF WaitInv, LockPlaces, Inv, TypeOK, EnvOK, TablesOK, LocalsOK
<1>1. pc[q] \in RowHolders /\ Entitled(q, x)
  BY RowsHeldBy, StoreAssumption DEF RowInv, RowLocks
<1>2. s \in req[p].seats /\ s \in Seats /\ seatLock[s] = p /\ resvLock[p] = p /\ x # p
  <2>1. s \in req[p].seats /\ req[p].op = "seats"
    BY DEF RowInv, WrittenAgreement, Inv, StockInv, HandlerMatches, SeatsLabels
  <2>2. resvLock[p] = p
    BY DEF Inv, StockInv, LocksHeld
  <2> QED BY <1>0, <2>1, <2>2, PayloadFields DEF InOrder, SeatsSecured, SeatHolders
<1>3. resvW[x] # resv[x]
  OBVIOUS
<1>4. Agrees(x, resv[x], {}) /\ Agrees(x, resvW[x], Owed(x))
  BY DEF RowInv, ParentChildAgreement, WrittenAgreement
<1>5. ~ Inserted(x)
  <2> SUFFICES ASSUME Inserted(x) PROVE FALSE
    OBVIOUS
  <2>1. /\ q = x /\ pc[x] \in Inserting /\ resv[x] = NoRow /\ resvW[x].status = "reserved"
    BY DEF Inserted
  <2>2. resvW[x].hold[s] # Absent
    BY <1>2, <2>1 DEF NoRow, NoHold
  <2>3. req[x].op = "seats" /\ s \in req[x].seats
    BY <1>2, <1>4, <2>1, <2>2 DEF Agrees, NoHold, Absent
  <2>4. pc[x] \in SeatHolders
    BY <2>1, <2>3 DEF Inserting, SeatHolders, Inv, StockInv, HandlerMatches, QuantityLabels
  <2>5. seatLock[s] = x
    BY <2>3, <2>4 DEF WaitInv, InOrder, SeatsSecured
  <2> QED BY <1>2, <2>1, <2>5
<1>6. MovedOut(x)
  BY <1>3, <1>5 DEF RowInv, WrittenRows
<1>7. resv[x].hold[s] = "reserved"
  <2>1. resv[x].status = "reserved" /\ resvW[x].status # Absent
    BY <1>6, DestinationSettled DEF MovedOut, Absent, RowInv
  <2>2. /\ req[x].op = "seats"
        /\ resv[x].hold[s] = IF s \in req[x].seats THEN "reserved" ELSE Absent
        /\ s \notin req[x].seats => resvW[x].hold[s] = Absent
    BY <1>2, <1>4, <2>1 DEF Agrees, NoHold, Absent
  <2> QED BY <2>2
<1>8. ~ StaleFor(p, x)
  BY <1>0, <1>2, <1>7 DEF InOrder, SeatsSecured, SeatHolders
<1>9. pc[q] # "s_parents"
  <2> SUFFICES ASSUME pc[q] = "s_parents" PROVE FALSE
    OBVIOUS
  <2>1. q \in Requests
    BY <1>0 DEF Process, WorkerLabels
  <2> QED BY <1>3, <2>1 DEF WaitInv, InOrder, ParentsInOrder
<1>10. ASSUME pc[q] = "s_holds" PROVE q \in Requests /\ stamp[p] < stamp[q]
  <2>1. q \in Requests
    BY <1>0, <1>10 DEF Process, WorkerLabels
  <2>2. x # q
    <3>1. pc[q] \in Inserting
      BY <1>10 DEF Inserting
    <3> QED BY <1>5, <2>1, <3>1 DEF RowInv, InsertedRows
  <2>3. StaleFor(q, x)
    BY <1>10, <2>1, <2>2 DEF WaitInv, InOrder, SeatsSecured, SeatHolders
  <2>4. resv[x].expires \in Nat /\ stamp[p] \in Nat /\ stamp[q] \in Nat
    BY <1>0, <2>1 DEF Row
  <2> QED BY <1>0, <1>8, <2>1, <2>3, <2>4 DEF StaleFor
<1> QED
  BY <1>1, <1>9, <1>10

\* Every wait leads on.
LEMMA WaitsLeadOn ==
  ASSUME Inv, RowInv, WaitInv, RetriesAskAgain,
         NEW p \in Process, NEW q \in Process, WaitsFor(p, q)
  PROVE  LeadsOn(p, q)
<1>0. /\ p # q /\ q # None /\ Workers \cap Requests = {} /\ req \in Payloads
      /\ pc[p] \notin WorkerLabels => p \in Requests
      /\ pc[q] \notin WorkerLabels => q \in Requests
      /\ \A r \in Requests : pc[r] \notin WorkerLabels
      /\ todo \in [Process -> SUBSET Nat]
  BY StoreAssumption
  DEF WaitsFor, WaitInv, LockPlaces, Process, Inv, TypeOK, EnvOK, LocalsOK
<1>a. ASSUME NEW x \in Requests, NEW target, WaitsForTicket(p, q, x, target)
      PROVE  pc[q] \in StockHolders
  <2>1. req[x].ticket \in TicketTypes /\ ticketLock[req[x].ticket] = q
    BY <1>0, <1>a, PayloadFields DEF WaitsForTicket
  <2> QED BY <1>0, <2>1 DEF WaitInv, LockPlaces
<1>1. CASE /\ pc[p] = "q_stock"
           /\ ticketLock[req[p].ticket] = q
  <2>1. p \in Requests /\ req[p].op = "quantity"
    BY <1>0, <1>1 DEF WorkerLabels, Inv, StockInv, HandlerMatches, QuantityLabels
  <2>2. pc[q] \in StockHolders
    BY <1>0, <1>1, <2>1, PayloadFields DEF WaitInv, LockPlaces
  <2> QED BY <1>1, <2>2 DEF LeadsOn
<1>2. CASE /\ pc[p] \in {"q_insert", "s_insert"} /\ ~ KeyTaken(p)
           /\ \E x \in SameKey(p) : resvLock[x] = q /\ resvW[x].status # Absent
  <2>1. p \in Requests
    BY <1>0, <1>2 DEF WorkerLabels
  <2> QED BY <1>0, <1>2, <2>1, KeyWaits DEF LeadsOn
<1>3. CASE /\ pc[p] = "s_lock"
           /\ \E s \in todo[p] : InIdOrder(todo[p], s) /\ seatLock[s] = q
  <2>1. p \in Requests /\ q \in Process
    BY <1>0, <1>3 DEF WorkerLabels
  <2>2. PICK s \in todo[p] : InIdOrder(todo[p], s) /\ seatLock[s] = q
    BY <1>3
  <2>3. s \in Seats
    <3>1. s \in req[p].seats
      BY <1>3, <2>1 DEF WaitInv, InOrder, SeatsInOrder
    <3>2. req[p].op = "seats"
      BY <1>3, <2>1 DEF Inv, StockInv, HandlerMatches, SeatsLabels
    <3> QED BY <1>0, <2>1, <3>1, <3>2, PayloadFields
  <2>4. q \in Requests /\ pc[q] \in SeatHolders \cup {"s_lock"}
    BY <1>0, <2>2, <2>3 DEF WaitInv, LockPlaces
  <2>5. pc[q] = "s_lock" => \A u \in todo[q] : s < u
    BY <2>2, <2>3, <2>4 DEF WaitInv, InOrder, SeatsInOrder
  <2> QED BY <1>3, <2>2, <2>4, <2>5 DEF LeadsOn
<1>4. CASE /\ pc[p] = "s_parents"
           /\ \E x \in todo[p] : InIdOrder(todo[p], x) /\ resvLock[x] = q
  <2>1. p \in Requests
    BY <1>0, <1>4 DEF WorkerLabels
  <2>2. PICK x \in todo[p] : InIdOrder(todo[p], x) /\ resvLock[x] = q
    BY <1>4
  <2>3. x \in Requests
    BY <1>4, <2>1 DEF RowInv, StaleParents
  <2>4. pc[q] \in RowHolders
    BY <2>2, <2>3, RowsHeldBy
  <2>5. ASSUME pc[q] = "s_parents" PROVE \A y \in todo[q] : x < y
    <3>1. q \in Requests
      BY <1>0, <2>5 DEF WorkerLabels
    <3> QED BY <2>2, <2>3, <2>5, <3>1 DEF WaitInv, InOrder, ParentsInOrder
  <2> QED BY <1>4, <2>2, <2>4, <2>5 DEF LeadsOn
<1>5. CASE /\ pc[p] = "s_holds"
           /\ \E s \in todo[p], x \in Requests :
                 resvLock[x] = q /\ resvW[x].hold[s] # resv[x].hold[s]
  <2>1. p \in Requests
    BY <1>0, <1>5 DEF WorkerLabels
  <2> QED BY <1>0, <1>5, <2>1, HoldWaits DEF LeadsOn
<1>6. CASE pc[p] = "l_lock" /\ resvLock[req[p].target] = q
  <2>1. p \in Requests /\ req[p].target \in Requests
    BY <1>0, <1>6, PayloadFields DEF WorkerLabels, Inv, StockInv, HandlerMatches, LifecycleLabels
  <2> QED BY <1>6, <2>1, RowsHeldBy DEF LeadsOn
<1>7. CASE pc[p] = "l_move" /\ WaitsForTicket(p, q, req[p].target, goal[p])
  <2>1. p \in Requests /\ req[p].target \in Requests
    BY <1>0, <1>7, PayloadFields DEF WorkerLabels, Inv, StockInv, HandlerMatches, LifecycleLabels
  <2> QED BY <1>a, <1>7, <2>1 DEF LeadsOn
<1>8. CASE pc[p] = "w_move" /\ \E x \in todo[p] : WaitsForTicket(p, q, x, "expired")
  <2>1. p \in Workers
    BY <1>0, <1>8 DEF WorkerLabels, Process
  <2>2. todo[p] \subseteq Requests
    BY <2>1 DEF Inv, TypeOK, LocalsOK
  <2> QED BY <1>a, <1>8, <2>2 DEF LeadsOn
<1> QED
  BY <1>1, <1>2, <1>3, <1>4, <1>5, <1>6, <1>7, <1>8 DEF WaitsFor

-----------------------------------------------------------------------------
(* No cycle *)

\* A function to the natural numbers is greatest somewhere on a finite set.
LEMMA GreatestOf ==
  ASSUME NEW S, IsFiniteSet(S), S # {}, NEW f \in [S -> Nat]
  PROVE  \E m \in S : \A x \in S : f[x] <= f[m]
<1> DEFINE Above(m) == {x \in S : f[x] > f[m]}
           T == {Above(m) : m \in S}
<1>1. IsWellFoundedOn(StrictSubsetOrdering(S), FiniteSubsetsOf(S))
  BY FS_StrictSubsetOrderingWellFounded
<1>2. T \subseteq FiniteSubsetsOf(S)
  <2>1. FiniteSubsetsOf(S) = SUBSET S
    BY FS_FiniteSubsetsOfFinite
  <2>2. \A m \in S : Above(m) \in SUBSET S
    OBVIOUS
  <2> QED BY <2>1, <2>2
<1>3. T # {}
  <2>1. PICK m \in S : TRUE
    OBVIOUS
  <2>2. Above(m) \in T
    OBVIOUS
  <2> QED BY <2>2
<1>4. \E A \in T : \A B \in T : ~ (<<B, A>> \in StrictSubsetOrdering(S))
  <2> HIDE DEF T
  <2> QED BY <1>1, <1>2, <1>3, WFMin
<1>5. PICK m \in S : \A B \in T : ~ (<<B, Above(m)>> \in StrictSubsetOrdering(S))
  BY <1>4
<1>6. ASSUME NEW x \in S, ~ (f[x] <= f[m]) PROVE FALSE
  <2>1. f[x] \in Nat /\ f[m] \in Nat /\ f[x] > f[m]
    BY <1>6
  <2>2. Above(x) \subseteq Above(m)
    BY <2>1
  <2>3. x \in Above(m) /\ x \notin Above(x)
    BY <2>1
  <2>4. <<Above(x), Above(m)>> \in StrictSubsetOrdering(S)
    BY <2>2, <2>3 DEF StrictSubsetOrdering
  <2> QED BY <1>5, <2>4
<1> QED
  BY <1>6

\* Among requests that wait for one another, the waits cannot go up for ever.
LEMMA NoEndlessRise ==
  ASSUME NEW S \in SUBSET Requests, NEW f \in [S -> Nat],
         \A p \in S : \E q \in S : f[p] < f[q]
  PROVE  S = {}
<1> SUFFICES ASSUME S # {} PROVE FALSE
  OBVIOUS
<1>1. IsFiniteSet(S)
  BY StoreAssumption, FS_Subset
<1>2. PICK m \in S : \A x \in S : f[x] <= f[m]
  BY <1>1, GreatestOf
<1>3. \E q \in S : f[m] < f[q]
  BY <1>2
<1>4. \A q \in S : f[m] \in Nat /\ f[q] \in Nat /\ f[q] <= f[m]
  BY <1>2
<1> QED
  BY <1>3, <1>4

\* The first row a request has still to lock.
First(p) == CHOOSE s \in todo[p] : InIdOrder(todo[p], s)

\* ... is the least.
LEMMA FirstRow ==
  ASSUME Inv, NEW p \in Process, NEW s \in todo[p], InIdOrder(todo[p], s)
  PROVE  First(p) = s /\ First(p) \in Nat
<1>1. todo[p] \subseteq Nat
  BY DEF Inv, TypeOK, LocalsOK
<1>2. \A u \in todo[p] : InIdOrder(todo[p], u) => u = s
  BY <1>1 DEF InIdOrder
<1> QED
  BY <1>1, <1>2 DEF First

\* Processes that wait for one another: since every wait leads on, they can only
\* be workers that wait for stock rows of each other.
LEMMA StuckAreWorkers ==
  ASSUME Inv, RowInv, WaitInv, RetriesAskAgain, WorkersNeverDeadlock
  PROVE  NoWaitCycle
<1> SUFFICES ASSUME NEW D \in SUBSET Waiting, Stuck(D) PROVE FALSE
  BY DEF NoWaitCycle
<1> DEFINE At(l) == {p \in D : pc[p] = l}
<1>0. /\ D \subseteq Process /\ D # {} /\ Workers \cap Requests = {}
      /\ \A p \in D : p \in Requests \/ pc[p] \in WorkerLabels
      /\ \A r \in Requests : pc[r] \notin WorkerLabels
      /\ stamp \in [Requests -> Nat]
  BY StoreAssumption
  DEF Waiting, Stuck, Process, WaitInv, LockPlaces, Inv, TypeOK, LocalsOK
<1>1. \A p \in D : \E q \in D : WaitsFor(p, q) /\ LeadsOn(p, q)
  BY <1>0, WaitsLeadOn DEF Stuck
<1> DEFINE Waits == {"q_stock", "q_insert", "l_lock", "l_move", "w_move",
                     "s_lock", "s_parents", "s_holds"}
<1>2. \A p \in D : pc[p] \in Waits
  BY <1>1 DEF LeadsOn
<1>3. \A p \in D : pc[p] # "q_insert"
  BY <1>1, <1>2 DEF LeadsOn
<1>4. At("w_move") = {}
  <2>1. At("w_move") \subseteq Workers \cap Waiting
    BY <1>0 DEF WorkerLabels, Process
  <2>2. ASSUME NEW p \in At("w_move") PROVE \E q \in At("w_move") : WaitsFor(p, q)
    <3>1. PICK q \in D : WaitsFor(p, q) /\ LeadsOn(p, q)
      BY <1>1
    <3>2. pc[q] \in StockHolders
      BY <3>1 DEF LeadsOn
    <3>3. pc[q] = "w_move"
      BY <1>2, <1>3, <3>2 DEF StockHolders
    <3> QED BY <3>1, <3>3
  <2>3. ~ Stuck(At("w_move"))
    BY <2>1 DEF WorkersNeverDeadlock
  <2> QED BY <2>2, <2>3 DEF Stuck
<1>5. \A p \in D : pc[p] \notin {"q_stock", "l_move", "w_move"}
  BY <1>1, <1>2, <1>3, <1>4 DEF LeadsOn, StockHolders
<1>6. At("s_holds") = {}
  <2> DEFINE S == At("s_holds")
  <2>1. S \in SUBSET Requests
    BY <1>0 DEF WorkerLabels
  <2>2. [p \in S |-> stamp[p]] \in [S -> Nat]
    BY <1>0, <2>1
  <2>3. ASSUME NEW p \in S PROVE \E q \in S : stamp[p] < stamp[q]
    <3>1. PICK q \in D : LeadsOn(p, q)
      BY <1>1
    <3>2. pc[q] \in RowHolders \ {"s_parents"} /\ (pc[q] = "s_holds" => stamp[p] < stamp[q])
      BY <3>1 DEF LeadsOn
    <3>3. pc[q] = "s_holds"
      BY <1>2, <1>5, <3>2 DEF RowHolders
    <3> QED BY <3>2, <3>3
  <2>4. \A p \in S : \E q \in S : [r \in S |-> stamp[r]][p] < [r \in S |-> stamp[r]][q]
    BY <2>3
  <2> HIDE DEF S
  <2>5. S = {}
    BY <2>1, <2>2, <2>4, NoEndlessRise
  <2> QED BY <2>5 DEF S
<1>7. At("s_parents") = {}
  <2> DEFINE S == At("s_parents")
  <2>1. S \in SUBSET Requests
    BY <1>0 DEF WorkerLabels
  <2>2. ASSUME NEW p \in S
        PROVE  \E x \in todo[p], q \in S :
                 InIdOrder(todo[p], x) /\ \A y \in todo[q] : x < y
    <3>1. PICK q \in D : LeadsOn(p, q)
      BY <1>1
    <3>2. /\ pc[q] \in RowHolders
          /\ pc[q] = "s_parents" =>
               \E x \in todo[p] : InIdOrder(todo[p], x) /\ \A y \in todo[q] : x < y
      BY <3>1 DEF LeadsOn
    <3>3. pc[q] = "s_parents"
      BY <1>2, <1>5, <1>6, <3>2 DEF RowHolders
    <3> QED BY <3>2, <3>3
  <2>3. \A p \in S : First(p) \in Nat /\ First(p) \in todo[p]
    BY <1>0, <2>2, FirstRow
  <2>4. ASSUME NEW p \in S PROVE \E q \in S : First(p) < First(q)
    <3>1. PICK x \in todo[p], q \in S :
            InIdOrder(todo[p], x) /\ \A y \in todo[q] : x < y
      BY <2>2
    <3>2. First(p) = x
      BY <1>0, <3>1, FirstRow
    <3> QED BY <2>3, <3>1, <3>2
  <2>5. \A p \in S : \E q \in S : [r \in S |-> First(r)][p] < [r \in S |-> First(r)][q]
    BY <2>4
  <2>6. [r \in S |-> First(r)] \in [S -> Nat]
    BY <2>3
  <2> HIDE DEF S
  <2>7. S = {}
    BY <2>1, <2>5, <2>6, NoEndlessRise
  <2> QED BY <2>7 DEF S
<1>8. At("s_lock") = {}
  <2> DEFINE S == At("s_lock")
  <2>1. S \in SUBSET Requests
    BY <1>0 DEF WorkerLabels
  <2>2. ASSUME NEW p \in S
        PROVE  \E s \in todo[p], q \in S :
                 InIdOrder(todo[p], s) /\ \A u \in todo[q] : s < u
    <3>1. PICK q \in D : LeadsOn(p, q)
      BY <1>1
    <3>2. \/ pc[q] \in SeatHolders
          \/ /\ pc[q] = "s_lock"
             /\ \E s \in todo[p] : InIdOrder(todo[p], s) /\ \A u \in todo[q] : s < u
      BY <3>1 DEF LeadsOn
    <3>3. pc[q] = "s_lock"
      BY <1>2, <1>6, <1>7, <3>2 DEF SeatHolders
    <3>4. PICK s \in todo[p] : InIdOrder(todo[p], s) /\ \A u \in todo[q] : s < u
      BY <3>2, <3>3 DEF SeatHolders
    <3>5. q \in S
      BY <3>3
    <3> QED BY <3>4, <3>5
  <2>3. \A p \in S : First(p) \in Nat /\ First(p) \in todo[p]
    BY <1>0, <2>2, FirstRow
  <2>4. ASSUME NEW p \in S PROVE \E q \in S : First(p) < First(q)
    <3>1. PICK s \in todo[p], q \in S :
            InIdOrder(todo[p], s) /\ \A u \in todo[q] : s < u
      BY <2>2
    <3>2. First(p) = s
      BY <1>0, <3>1, FirstRow
    <3> QED BY <2>3, <3>1, <3>2
  <2>5. \A p \in S : \E q \in S : [r \in S |-> First(r)][p] < [r \in S |-> First(r)][q]
    BY <2>4
  <2>6. [r \in S |-> First(r)] \in [S -> Nat]
    BY <2>3
  <2> HIDE DEF S
  <2>7. S = {}
    BY <2>1, <2>5, <2>6, NoEndlessRise
  <2> QED BY <2>7 DEF S
<1>9. \A p \in D : pc[p] = "l_lock"
  BY <1>2, <1>3, <1>5, <1>6, <1>7, <1>8
<1> QED
  BY <1>0, <1>1, <1>9 DEF LeadsOn, RowHolders

\* Workers apart, the handlers never wait in a cycle: whenever no set of workers
\* is deadlocked, nobody is, whatever cancels, confirms, reserves, sweeps of
\* stale holds and batches contend for the same rows.
THEOREM OnlyWorkersDeadlock ==
  RetriesAskAgain /\ Spec => [](WorkersNeverDeadlock => NoWaitCycle)
<1>1. Init => WaitInv
  BY InitInOrder
<1>2. Inv /\ RowInv /\ WaitInv /\ RetriesAskAgain /\ [Next]_vars =>
        WaitInv' /\ RetriesAskAgain'
  <2> SUFFICES ASSUME Inv, RowInv, WaitInv, RetriesAskAgain, [Next]_vars
               PROVE  WaitInv' /\ RetriesAskAgain'
    OBVIOUS
  <2>1. req' = req
    BY ClockAndPayloads
  <2>2. RetriesAskAgain'
    BY <2>1 DEF RetriesAskAgain, SameKey
  <2> QED BY <2>2, NextKeepsOrder
<1>3. Inv /\ RowInv /\ WaitInv /\ RetriesAskAgain => (WorkersNeverDeadlock => NoWaitCycle)
  BY StuckAreWorkers
<1> QED
  BY <1>1, <1>2, <1>3, RowInvariant, PTL DEF Spec

OneWorker == \A v, w \in Workers : v = w

\* One expiration worker does not wait for itself, so with one no wait for a row
\* lock ever closes a cycle and PostgreSQL's detector never has a victim.
THEOREM OneWorkerNoDeadlock ==
  OneWorker /\ RetriesAskAgain /\ Spec => []NoWaitCycle
<1>1. OneWorker => WorkersNeverDeadlock
  BY DEF OneWorker, WorkersNeverDeadlock, Stuck, WaitsFor
<1>2. OneWorker => OneWorker'
  BY DEF OneWorker
<1> QED
  BY <1>1, <1>2, OnlyWorkersDeadlock, PTL

=============================================================================
