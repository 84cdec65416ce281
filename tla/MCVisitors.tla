----------------------------- MODULE MCVisitors ------------------------------
(***************************************************************************)
(* Two accounts, registered before.  Browser b gets an anonymous session,  *)
(* logs in and out and in again, perhaps to the other account, with two    *)
(* requests at a time; browser c waits for each answer.  They reserve      *)
(* tickets and settle what they reserved.                                  *)
(***************************************************************************)
EXTENDS VisitorReservations

Account == 90    \* the registrations of the accounts
Other == 91
Plain(op, b) == [op |-> op, by |-> b]
With(op, b, a) == [op |-> op, by |-> b, address |-> a, password |-> "w"]
Login(b) == With("login", b, "a@x")

Nobody == [session |-> None, user |-> None]
Book(key) == [op |-> "quantity", by |-> Nobody, key |-> key, event |-> "e",
              ticket |-> "t", quantity |-> 1]
On(op, x) == [op |-> op, by |-> Nobody, target |-> x]

MCTicketEvent == [t \in TicketTypes |-> "e"]
MCSeatEvent == [s \in Seats |-> "e"]
MCTotal == [t \in TicketTypes |-> 2]
MCNormal == [a \in Addresses |-> a]
MCInFlight == [b \in Browsers |-> IF b = "b" THEN 2 ELSE 1]

MCWorkloads == {<<Book("k"), On(op, 1)>> : op \in {"cancel", "get"}}

\* b books before or after y; by2 settles, c with a session from z.
Sent(y, z, by2) ==
  [v \in Requests \cup Visits |->
     CASE v = 1 -> Plain("me", "b")
       [] v = 2 -> Plain("me", by2)
       [] v = 11 -> Plain("anonymous", "b")
       [] v = 12 -> Login("b")
       [] v = 13 -> y
       [] v = 14 -> z
       [] v = Account -> With("register", "b", "a@x")
       [] v = Other -> With("register", "b", "c@x")]

MCVisitWorkloads ==
  {Sent(y, Login("c"), "b") :
     y \in {Plain("logout", "b"), Login("b"), With("login", "b", "c@x")}}
    \cup {Sent(Plain("logout", "b"), z, "c") : z \in {Login("c"), Plain("anonymous", "c")}}

\* What is over before the run starts, or never sent.
Over == {Account, Other, IF visit[2].by = "c" THEN 13 ELSE 14}

VisitorsInit == StartWith(Over, [a \in Addresses |-> IF a = "a@x" THEN Account ELSE Other])

VisitorsSpec == VisitorsInit /\ [][VisitorsNext]_allVars
=============================================================================
