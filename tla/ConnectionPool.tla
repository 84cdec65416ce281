--------------------------- MODULE ConnectionPool ---------------------------
(***************************************************************************)
(* The API process gives each request a session, and a session takes a     *)
(* connection from the engine's pool with its first statement and keeps it *)
(* to the commit, rollback or close: while it waits for row locks as well. *)
(* A request that finds no connection waits in the pool's queue, and fails *)
(* when pool_timeout has passed.  The workers have engines of their own.   *)
(***************************************************************************)
EXTENDS ReservationSystem

CONSTANTS
  PoolSize,      \* pool_size + max_overflow, for each workload
  MaxTimeouts    \* bound: how many requests give up in the pool's queue

ASSUME PoolAssumption == PoolSize \in [Workloads -> Nat \ {0}] /\ MaxTimeouts \in Nat

VARIABLES
  conn,      \* the requests whose session has a connection
  timeouts

pooledVars == <<vars, conn, timeouts>>

EmptyPool == conn = {} /\ timeouts = 0

Queued(r) == pc[r] # "done" /\ r \notin conn

\* The next statement of r begins a transaction, and a connection is free.
Checkout(r) ==
  /\ Queued(r)
  /\ Cardinality(conn) < PoolSize[req]
  /\ conn' = conn \cup {r}
  /\ UNCHANGED <<vars, timeouts>>

\* Nobody has given a connection back for pool_timeout seconds.
PoolTimeout(r) ==
  /\ Queued(r)
  /\ Cardinality(conn) = PoolSize[req]
  /\ timeouts < MaxTimeouts
  /\ Abort(r)
  /\ timeouts' = timeouts + 1
  /\ UNCHANGED <<crashes, conn>>

\* A handler that is over, or has rolled back and will look for the reservation
\* it lost to in a new transaction.
BetweenTransactions == {"q_resolve", "s_resolve", "done"}

\* Mutant of Returned: a session that ends by an exception is not closed.
ReturnedAfterSuccess(r) ==
  /\ pc'[r] # pc[r] /\ pc'[r] \in BetweenTransactions
  /\ reply'[r].code # "ERROR"

\* This step of the services gives the connection of r back.
Returned(r) == pc'[r] # pc[r] /\ pc'[r] \in BetweenTransactions

GiveBack == conn' = {r \in conn : ~ Returned(r)} /\ UNCHANGED timeouts

\* The steps of the services: of requests that have a connection, and of workers.
PooledServe(r) == r \in conn /\ Serve(r) /\ GiveBack
PooledBatch(w) == ExpireBatch(w) /\ GiveBack
PooledCrash(p) == p \in conn \cup Workers /\ Crash(p) /\ GiveBack
PooledVictim(p) == DeadlockVictim(p) /\ GiveBack
PooledTick == Tick /\ GiveBack
PooledEnd == AllAnswered /\ GiveBack

PooledNext ==
  \/ \E r \in Requests : Checkout(r) \/ PoolTimeout(r) \/ PooledServe(r)
  \/ \E w \in Workers : PooledBatch(w)
  \/ \E p \in Process : PooledCrash(p) \/ PooledVictim(p)
  \/ PooledTick \/ PooledEnd

\* The pool's queue is served in order, so a request that waits gets one of the
\* connections that come back.  That requests give up is not assumed.
PoolFairness ==
  /\ \A r \in Requests : SF_pooledVars(Checkout(r)) /\ SF_pooledVars(PooledServe(r))
  /\ \A w \in Workers : WF_pooledVars(PooledBatch(w))
  /\ WF_pooledVars(\E p \in Process : PooledVictim(p))
  /\ WF_pooledVars(PooledTick)

-----------------------------------------------------------------------------
\* A request that holds a row lock has a connection: a lock is never left on a
\* connection that went back to the pool, and nobody queues for a connection
\* while others wait for his locks.
LocksHaveConnections ==
  \A r \in Requests : r \notin conn =>
    /\ \A t \in TicketTypes : ticketLock[t] # r
    /\ \A x \in Requests : resvLock[x] # r
    /\ \A s \in Seats : seatLock[s] # r
=============================================================================
