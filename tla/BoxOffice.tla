------------------------------ MODULE BoxOffice -----------------------------
(***************************************************************************)
(* What the reservation services promise, without transactions, locks or   *)
(* retries: a book of reservations in which one step reserves, confirms,   *)
(* cancels or expires.  Each step is what one committed transaction does.  *)
(***************************************************************************)
EXTENDS Integers, FiniteSets

CONSTANTS Requests, Total, TTL, MaxQuantity, MaxTime, None

VARIABLES
  req,      \* what each request asks for
  status,   \* the status of the reservation each request created, if any
  expires,  \* its deadline
  now

vars == <<req, status, expires, now>>

Active == {"reserved", "confirmed"}

Takes(x) == req[x].op \in {"quantity", "seats"}

\* The tickets of type t in active reservations, one unit each.
Allotted(st, t) ==
  {u \in Requests \X (1..MaxQuantity) :
     /\ req[u[1]].op = "quantity" /\ req[u[1]].ticket = t
     /\ u[2] <= req[u[1]].quantity
     /\ st[u[1]] \in Active}

HasRoom(st, r) ==
  \/ /\ req[r].op = "quantity"
     /\ LET t == req[r].ticket
        IN Cardinality(Allotted(st, t)) + req[r].quantity <= Total[t]
  \/ /\ req[r].op = "seats"
     /\ \A x \in Requests \ {r} :
          req[x].op = "seats" /\ st[x] \in Active =>
            req[x].seats \cap req[r].seats = {}

KeyUnused(r) ==
  \A x \in Requests \ {r} :
    Takes(x) /\ status[x] # "absent" =>
      <<req[x].by.session, req[x].key>> # <<req[r].by.session, req[r].key>>

Init == /\ \A x \in Requests : status[x] = "absent"
        /\ now = 0

Expired(S) == [x \in Requests |-> IF x \in S THEN "expired" ELSE status[x]]

Overdue(S) == \A x \in S : status[x] = "reserved" /\ expires[x] <= now

\* A new reservation, which may sweep overdue ones out of its way.
Reserve(r) ==
  /\ Takes(r) /\ status[r] = "absent" /\ KeyUnused(r)
  /\ \E S \in SUBSET (Requests \ {r}) :
       /\ Overdue(S)
       /\ HasRoom(Expired(S), r)
       /\ status' = [Expired(S) EXCEPT ![r] = "reserved"]
  /\ \E e \in TTL..(now + TTL) : expires' = [expires EXCEPT ![r] = e]
  /\ UNCHANGED <<req, now>>

Settle(x, st) ==
  /\ status[x] = "reserved"
  /\ status' = [status EXCEPT ![x] = st]
  /\ UNCHANGED <<req, expires, now>>

\* Somebody who owns the reservation asked for it.
Settled(r) ==
  /\ req[r].op \in {"cancel", "confirm"}
  /\ LET x == req[r].target
     IN /\ \/ req[x].by.session = req[r].by.session
           \/ req[r].by.user # None /\ req[x].by.user = req[r].by.user
        /\ Settle(x, IF req[r].op = "cancel" THEN "cancelled" ELSE "confirmed")

Expire ==
  \E S \in (SUBSET Requests) \ {{}} :
    /\ Overdue(S)
    /\ status' = Expired(S)
    /\ UNCHANGED <<req, expires, now>>

Tick == now < MaxTime /\ now' = now + 1 /\ UNCHANGED <<req, status, expires>>

Next == \/ \E r \in Requests : Reserve(r) \/ Settled(r)
        \/ Expire \/ Tick

Spec == Init /\ [][Next]_vars
=============================================================================
