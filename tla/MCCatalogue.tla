----------------------------- MODULE MCCatalogue -----------------------------
(***************************************************************************)
(* A seeded event with one seat and a reservation of a ticket or of that   *)
(* seat, an ordinary event with a reservation of its own, and three calls  *)
(* that run against each other.                                            *)
(***************************************************************************)
EXTENDS EventCatalogue

SeedA == [op |-> "seed", seats |-> {"A"}]
Event(stress) == [op |-> "event", stress |-> stress]
Ticket(e) == [op |-> "ticket", event |-> e]
SeatBatch(e, seats) == [op |-> "seats", event |-> e, seats |-> seats]
Reserve(c, stock) == [op |-> "reserve", stock |-> <<c, stock>>]
Settle(x) == [op |-> "settle", target |-> x]
Reset == [op |-> "reset"]

Past == {1, 2, 7, 8, 9}

\* 1 seeds, 2 reserves from it; 7, 8 and 9 are the ordinary event.
Against(stock, calls) ==
  [c \in Calls |->
     CASE c = 1 -> SeedA
       [] c = 2 -> Reserve(1, stock)
       [] c = 7 -> Event(FALSE)
       [] c = 8 -> Ticket(7)
       [] c = 9 -> Reserve(8, "ticket")
       [] OTHER -> calls[c - 2]]

\* Resets against reservations, another reset, a seed, and what is added to
\* the event; two batches of seats against each other.
CatalogueWorkloads ==
  {Against(stock, <<Reset, x, Settle(2)>>) :
     stock \in {"ticket", "A"}, x \in {Reserve(1, "ticket"), Reserve(1, "A"), Reset}}
  \cup {Against("ticket", calls) : calls \in
          {<<Reset, SeedA, Reserve(4, "ticket")>>,
           <<Reset, Event(TRUE), Ticket(4)>>,
           <<Event(FALSE), SeatBatch(3, <<"B">>), Settle(2)>>,
           <<Settle(2), Settle(2), Ticket(1)>>,
           <<Reset, SeatBatch(1, <<"B", "A">>), Ticket(1)>>,
           <<Reset, SeatBatch(1, <<"B", "C">>), SeatBatch(1, <<"C", "B">>)>>}}

\* Seats are added to an event while it is reset; nobody else adds any.
LateSeats ==
  {Against("ticket", <<Reset, SeatBatch(1, <<"B", "C">>), Reserve(1, "ticket")>>)}
=============================================================================
