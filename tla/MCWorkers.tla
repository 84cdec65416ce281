----------------------------- MODULE MCWorkers ------------------------------
(***************************************************************************)
(* The expiration workers on a database that already holds reservations    *)
(* about to fall due (their deadline is 0, the clock starts there).        *)
(***************************************************************************)
EXTENDS MCReservation

Due(item) == [status |-> "reserved", expires |-> 0, item |-> item, hold |-> NoHold]

\* A worker that waits for a stock row, here that of the second reservation of
\* its batch, is queued there: it gets the row when the deadlock's victim gives
\* it up, before the victim tries again.
ExpiresLast(w) == WorkerMove(w) /\ pc'[w] = "w_commit"
QueuedFairness == Fairness /\ \A w \in Workers : SF_vars(ExpiresLast(w))

\* Four held tickets, two of each type: the batches {1, 2} and {3, 4} take the
\* two stock rows in opposite orders.  A fifth request meddles.
TwoBatches ==
  {<<Tickets(V1, "a", "t", 1), Tickets(V1, "b", "v", 1),
     Tickets(V2, "a", "v", 1), Tickets(V2, "b", "t", 1), e>> :
     e \in {On("confirm", V1, 1), Tickets(V1, "c", "v", 1), On("cancel", V2, 4)}}

\* Reservation 4 may have lost its item row.
TwoBatchesInit ==
  /\ req \in Workloads
  /\ \E item \in {"reserved", Absent} :
       InitWith([x \in Requests |-> CASE x = 5 -> NoRow
                                     [] x = 4 -> Due(item)
                                     [] OTHER -> Due("reserved")],
                [t \in TicketTypes |->
                   [reserved |-> IF t = "t" /\ item = Absent THEN 1 ELSE 2, sold |-> 0]])
TwoBatchesSpec == TwoBatchesInit /\ [][Next]_vars /\ QueuedFairness

\* Reservation 1 is a historically inconsistent one that has lost its item row;
\* 2 is sound.
BadRow == {<<Tickets(V1, "a", "t", 1), Tickets(V1, "b", "t", 1), c>> :
             c \in {Tickets(V2, "a", "t", 1), On("cancel", V1, 1),
                    On("confirm", V1, 2)}}

BadRowInit ==
  /\ req \in Workloads
  /\ InitWith([x \in Requests |-> CASE x = 1 -> Due(Absent)
                                    [] x = 2 -> Due("reserved")
                                    [] x = 3 -> NoRow],
              [t \in TicketTypes |-> [reserved |-> 1, sold |-> 0]])
BadRowSpec == BadRowInit /\ [][Next]_vars /\ Fairness
=============================================================================
