------------------------------- MODULE MCPool -------------------------------
(***************************************************************************)
(* Fewer connections than requests, on a database that holds two           *)
(* reservations, 1 and 2, with the deadline 1.                             *)
(***************************************************************************)
EXTENDS ConnectionPool, MCWorkers

Held(item, seats) ==
  [status |-> "reserved", expires |-> 1, item |-> item,
   hold |-> [s \in Seats |-> IF s \in seats THEN "reserved" ELSE Absent]]

\* 3 takes stock, 4 a seat with the same key, while the worker expires both.
OneKeyTwoKinds ==
  <<SeatSet(V1, "a", {1}), Tickets(V1, "b", "t", 1),
    Tickets(V1, "k", "t", 1), SeatSet(V1, "k", {1})>>

\* A seat and a ticket are held: confirmed, cancelled, swept, sold to others.
HeldSeatAndTicket ==
  {OneKeyTwoKinds} \cup
  {<<SeatSet(V1, "a", {1}), Tickets(V1, "b", "t", 1), c, d>> :
     c \in {On("confirm", V1, 2)}, d \in {SeatSet(V2, "k", {1}), On("cancel", V1, 2)}}

\* Reservation 1 has lost its item row; 2 is sound.
BrokenAndSound ==
  {<<Tickets(V1, "a", "t", 1), Tickets(V1, "b", "t", 1),
     c, Tickets(V2, "a", "t", 1)>> :
     c \in {On("cancel", V1, 1), On("confirm", V1, 2)}}

Start(r) ==
  CASE r > 2 -> NoRow
    [] req \in HeldSeatAndTicket -> IF r = 1 THEN Held(Absent, {1}) ELSE Held("reserved", {})
    [] OTHER -> IF r = 1 THEN Held(Absent, {}) ELSE Held("reserved", {})

PooledInit ==
  /\ req \in Workloads
  /\ InitWith([r \in Requests |-> Start(r)], [t \in TicketTypes |-> [reserved |-> 1, sold |-> 0]])
  /\ EmptyPool

PooledSpec == PooledInit /\ [][PooledNext]_pooledVars /\ PoolFairness

PoolWorkloads == HeldSeatAndTicket \cup BrokenAndSound

\* One connection for two requests, except where both must be under way.
MCPoolSize == [q \in PoolWorkloads |-> IF q = OneKeyTwoKinds THEN 2 ELSE 1]
=============================================================================
