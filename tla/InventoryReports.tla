-------------------------- MODULE InventoryReports ---------------------------
(***************************************************************************)
(* What is read beside the reservation services, without locks: the public *)
(* inventory of an event, by a statement for its ticket types and one for  *)
(* its seats, and the consistency audit of the stress administration, by   *)
(* six statements.  Either is asked for once, and the workload says which: *)
(* they only read, so neither would notice the other.                      *)
(***************************************************************************)
EXTENDS ReservationSystem

CONSTANTS
  Shown,            \* the event whose inventory is asked for
  StaleTolerance,   \* STALE_RESERVATION_TOLERANCE, in clock ticks
  Audited,          \* bound: the workloads with an audit, not an inventory request
  AuditFrom         \* bound: the earliest clock at which an audit is asked for

ASSUME ReportAssumption == StaleTolerance \in Nat

VARIABLES
  report,   \* the inventory request: where it is and what it has read
  sold,     \* the reservations that were confirmed when it began
  audit,    \* the audit: its next statement, expired_before, and what it lists
  inHand    \* the reservations a visitor was settling when the audit listed them

reportVars == <<vars, report, sold, audit, inHand>>

NewReport == [at |-> "new", tickets |-> <<>>, seats |-> {}]
NewAudit == [at |-> 0, before |-> 0, failed |-> {}, stale |-> {}]

InitReport == report = NewReport /\ sold = {} /\ audit = NewAudit /\ inHand = {}

\* get_event: the event is there; it is never changed.
InventoryEvent ==
  /\ report.at = "new" /\ req \notin Audited
  /\ report' = [report EXCEPT !.at = "tickets"]
  /\ sold' = {x \in Requests : resv[x].status = "confirmed"}
  /\ UNCHANGED <<vars, audit, inHand>>

\* list_ticket_types: total, sold, reserved, and what is left of the total.
TicketInventory ==
  [t \in {t \in TicketTypes : TicketEvent[t] = Shown} |->
     [sold |-> tickets[t].sold, reserved |-> tickets[t].reserved,
      available |-> Total[t] - tickets[t].sold - tickets[t].reserved]]

InventoryTickets ==
  /\ report.at = "tickets"
  /\ report' = [report EXCEPT !.at = "seats", !.tickets = TicketInventory]
  /\ UNCHANGED <<vars, sold, audit, inHand>>

\* Mutants of Joined: any hold is joined; only one that may still be released.
JoinedToAny(s, x) == resv[x].hold[s] # Absent
JoinedToReserved(s, x) == resv[x].hold[s] = "reserved"

\* The condition of the outer join.
Joined(s, x) == resv[x].hold[s] \in Active

\* list_seat_inventory: a record for each seat and joined hold, or for the seat
\* alone; _seat_status.
SeatInventory ==
  LET shown == {s \in Seats : SeatEvent[s] = Shown}
  IN {[seat |-> p[1], hold |-> p[2], status |-> resv[p[2]].hold[p[1]]] :
        p \in {p \in shown \X Requests : Joined(p[1], p[2])}}
     \cup {[seat |-> s, hold |-> None, status |-> "available"] :
             s \in {s \in shown : \A x \in Requests : ~ Joined(s, x)}}

InventorySeats ==
  /\ report.at = "seats"
  /\ report' = [report EXCEPT !.at = "done", !.seats = SeatInventory]
  /\ UNCHANGED <<vars, sold, audit, inHand>>

\* The answer has been read.
InventoryRead ==
  /\ report.at = "done"
  /\ report' = [NewReport EXCEPT !.at = "read"] /\ sold' = {}
  /\ UNCHANGED <<vars, audit, inHand>>

Inventory == InventoryEvent \/ InventoryTickets \/ InventorySeats \/ InventoryRead

-----------------------------------------------------------------------------
(* assert_consistency: each query is one snapshot *)

NegativeTickets ==
  {t \in TicketTypes : tickets[t].sold < 0 \/ tickets[t].reserved < 0 \/ Total[t] < 0}

OversoldTickets ==
  {t \in TicketTypes : tickets[t].sold + tickets[t].reserved > Total[t]}

DuplicateActiveSeats ==
  {s \in Seats : Cardinality({x \in Requests : resv[x].hold[s] \in Active}) > 1}

OrphanItems == {x \in Requests : resv[x].status = Absent /\ resv[x].item # Absent}

OrphanSeats ==
  {p \in Requests \X Seats : /\ resv[p[1]].status = Absent
                             /\ resv[p[1]].hold[p[2]] # Absent}

\* The lists that must be empty whatever the time, in the order of the queries.
Violations ==
  <<NegativeTickets, OversoldTickets, DuplicateActiveSeats, OrphanItems, OrphanSeats>>

\* The statement after those, and the answer after that.
StaleQuery == 6
Answered == 7

\* The clock is read before the first statement; ok = all(...) of the last.
AuditBegin ==
  /\ audit.at = 0 /\ req \in Audited /\ now >= AuditFrom
  /\ audit' = [audit EXCEPT !.at = 1, !.before = now - StaleTolerance]
  /\ UNCHANGED <<vars, report, sold, inHand>>

AuditQuery ==
  /\ audit.at \in 1..5
  /\ audit' = [audit EXCEPT !.at = @ + 1,
                            !.failed = @ \cup {v \in {audit.at} : Violations[v] # {}}]
  /\ UNCHANGED <<vars, report, sold, inHand>>

\* A cancel or confirm has found x in time under its lock and not committed yet.
BeingSettled(x) ==
  \E r \in Requests : /\ pc[r] \in {"l_move", "l_commit"}
                      /\ req[r].target = x /\ goal[r] # "expired"

\* list_stale_active_reservations.
StaleReservations(before) ==
  {x \in Requests : resv[x].status = "reserved" /\ resv[x].expires < before}

AuditStale ==
  /\ audit.at = StaleQuery
  /\ audit' = [audit EXCEPT !.at = Answered, !.stale = StaleReservations(audit.before)]
  /\ inHand' = {x \in Requests : BeingSettled(x)}
  /\ UNCHANGED <<vars, report, sold>>

AuditOk == audit.failed = {} /\ audit.stale = {}

Audit == AuditBegin \/ AuditQuery \/ AuditStale

ReportedNext ==
  Inventory \/ Audit \/ (Next /\ UNCHANGED <<report, sold, audit, inHand>>)

ReportedSpec == Init /\ InitReport /\ [][ReportedNext]_reportVars

-----------------------------------------------------------------------------
(* Properties of the inventory *)

\* Tickets and seats are read at different moments, but an answer never offers
\* again what was sold when its request came in, and never offers less than
\* nothing: sales committed before are counted, their seats shown as confirmed.
InventoryShowsSales ==
  report.at = "done" =>
    /\ \A t \in DOMAIN report.tickets :
         /\ report.tickets[t].available >= 0
         /\ report.tickets[t].sold >=
              Cardinality(sold \X (1..MaxQuantity) \cap Units(resv, t, "confirmed"))
    /\ \A i \in report.seats : \A x \in sold :
         req[x].op = "seats" /\ i.seat \in req[x].seats => i.status = "confirmed"

\* Every seat of the event is listed exactly once, whatever its history: the
\* outer join finds at most one active hold.
SeatsListedOnce ==
  report.at = "done" =>
    \A s \in Seats : SeatEvent[s] = Shown =>
      Cardinality({i \in report.seats : i.seat = s}) = 1

-----------------------------------------------------------------------------
(* Properties of the audit *)

\* An audit of a database in use, six snapshots against a clock read before them,
\* fails over nothing but reservations that have been overdue for longer than the
\* tolerance; and those can only expire, however late the worker is, unless a
\* cancel or confirm had compared the deadline with the clock in time, and was on
\* its way to the commit when the audit listed the row.
AuditBlamesTheLost ==
  audit.at = Answered =>
    /\ AuditOk <=> audit.stale = {}
    /\ \A x \in audit.stale \ inHand : resv[x].status \in {"reserved", "expired"}

-----------------------------------------------------------------------------
(* The inductive invariant behind AuditBlamesTheLost *)

AuditShape ==
  /\ audit = [at |-> audit.at, before |-> audit.before,
              failed |-> audit.failed, stale |-> audit.stale]
  /\ audit.at \in 0..Answered

\* What is listed is overdue, and settled by nobody who was not about to then.
ListedAreLost ==
  \A x \in audit.stale :
    /\ x \in Requests /\ resv[x].status # Absent
    /\ resv[x].expires < now
    /\ x \notin inHand =>
         resv[x].status \in {"reserved", "expired"} /\ ~ BeingSettled(x)

AuditInv ==
  /\ AuditShape /\ audit.failed = {} /\ ListedAreLost
  /\ audit.before \in Int
  /\ audit.at # 0 => audit.before <= now
=============================================================================
