--------------------------- MODULE MCReservation ----------------------------
(***************************************************************************)
(* Small workloads for ReservationSystem: two visitor sessions (v1 belongs *)
(* to user u, v2 is anonymous), one event with the seats 1..3 and one      *)
(* ticket type, and the requests that contend for them.                    *)
(***************************************************************************)
EXTENDS ReservationSystem

V1 == [session |-> "v1", user |-> "u"]
V2 == [session |-> "v2", user |-> None]
U2 == [session |-> "v2", user |-> "u"]    \* u, signed in elsewhere

MCTicketEvent == [t \in TicketTypes |-> "e"]
MCSeatEvent == [s \in Seats |-> IF s = 9 THEN "other" ELSE "e"]
MCTotal == [t \in TicketTypes |-> 2]

Tickets(by, key, t, q) ==
  [op |-> "quantity", by |-> by, key |-> key, event |-> "e",
   ticket |-> t, quantity |-> q]
SeatSet(by, key, seats) ==
  [op |-> "seats", by |-> by, key |-> key, event |-> "e", seats |-> seats]
On(op, by, x) == [op |-> op, by |-> by, target |-> x]

\* Two tickets left; two submissions with one key, perhaps for different
\* quantities, another visitor, and what happens to the first reservation.
QuantityWorkloads ==
  {<<a, b, c>> :
     a \in {Tickets(V1, "k", "t", 1)},
     b \in {Tickets(V1, "k", "t", q) : q \in 1..2},
     c \in {Tickets(V2, "k", "t", 2), On("confirm", V1, 1), On("get", V1, 1),
            On("cancel", V2, 1)}}

\* Overlapping sets of seats, retries, a seat of another event.
SeatWorkloads ==
  {<<a, b, c>> :
     a \in {SeatSet(V1, "k", {1, 2})},
     b \in {SeatSet(V1, "k", {1, 2}), SeatSet(V2, "k", {2, 3})},
     c \in {SeatSet(V2, "j", {1, 3}), SeatSet(V2, "j", {1, 9}),
            On("confirm", V1, 1), On("cancel", V1, 1), On("get", V1, 1)}}

\* One reservation that is cancelled, confirmed and read at once while the
\* worker and a competitor look at it.
LifecycleWorkloads ==
  {<<a, On("cancel", by, 1), On("confirm", V1, 1), d>> :
     by \in {V1, V2, U2},
     <<a, d>> \in {<<Tickets(V1, "k", "t", 2), On("get", V1, 1)>>,
                   <<Tickets(V1, "k", "t", 2), Tickets(V2, "k", "t", 1)>>,
                   <<SeatSet(V1, "k", {1, 2}), On("get", V1, 1)>>,
                   <<SeatSet(V1, "k", {1, 2}), SeatSet(V2, "k", {2})>>}}

\* Tickets and seats at once, with keys of their own or with one key for both.
MixedWorkloads ==
  {<<Tickets(V1, "k", "t", 2), SeatSet(V1, j, {1, 2}), c>> :
     j \in {"j", "k"},
     c \in {SeatSet(V2, "k", {2}), Tickets(V2, "k", "t", 1),
            On("cancel", V1, 2)}}

ReserveWorkloads == QuantityWorkloads \cup SeatWorkloads \cup MixedWorkloads
=============================================================================
