------------------------ MODULE InventoryReports_proofs -----------------------
(***************************************************************************)
(* What is read without locks beside the services is never worse than      *)
(* late: an audit fails over overdue reservations only, which nobody will  *)
(* settle any more, and an inventory lists every seat once and everything  *)
(* that was sold before it was asked for.                                  *)
(***************************************************************************)
EXTENDS InventoryReports, ReservationAnswers_proofs

\* The services do not notice who reads.
LEMMA ReadersOnlyRead == ReportedSpec => Spec
<1>1. [ReportedNext]_reportVars => [Next]_vars
  BY DEF ReportedNext, Inventory, InventoryEvent, InventoryTickets, InventorySeats,
     InventoryRead, Audit, AuditBegin, AuditQuery, AuditStale, reportVars
<1> QED
  BY <1>1, PTL DEF ReportedSpec, Spec

-----------------------------------------------------------------------------
(* The audit *)

\* A set with no two members has at most one.
LEMMA AtMostOne ==
  ASSUME NEW S, \A x, y \in S : x = y
  PROVE  IsFiniteSet(S) /\ Cardinality(S) <= 1
<1>1. CASE S = {}
  BY <1>1, FS_EmptySet
<1>2. CASE S # {}
  <2>1. PICK x \in S : TRUE
    BY <1>2
  <2>2. S = {x}
    BY <2>1
  <2>3. IsFiniteSet({x}) /\ Cardinality({x}) = 1
    BY FS_Singleton
  <2> QED BY <2>2, <2>3
<1> QED
  BY <1>1, <1>2

\* The queries but the last find nothing where the rows and the stock are in order.
LEMMA QueriesFindNothing ==
  ASSUME Inv, RowInv, NeverOversold, NEW v \in 1..5
  PROVE  Violations[v] = {}
<1>1. OversoldTickets = {}
  <2>1. TypeOK
    BY DEF Inv
  <2>2. ASSUME NEW t \in TicketTypes
        PROVE  ~ (tickets[t].sold + tickets[t].reserved > Total[t])
    <3>1. tickets[t].sold + tickets[t].reserved <= Total[t]
      BY DEF NeverOversold
    <3>2. tickets[t] \in TicketRow /\ Total[t] \in Nat
      BY <2>1, StoreAssumption DEF TypeOK, TablesOK
    <3> QED BY <3>1, <3>2 DEF TicketRow
  <2> QED BY <2>2 DEF OversoldTickets
<1>2. NegativeTickets = {}
  <2>1. \A t \in TicketTypes : tickets[t] \in TicketRow /\ Total[t] \in Nat
    BY StoreAssumption DEF Inv, TypeOK, TablesOK
  <2> QED BY <2>1 DEF NegativeTickets, TicketRow
<1>3. DuplicateActiveSeats = {}
  <2>1. ASSUME NEW s \in Seats
        PROVE  ~ Cardinality({x \in Requests : resv[x].hold[s] \in Active}) > 1
    <3> DEFINE H == {x \in Requests : resv[x].hold[s] \in Active}
    <3>1. \A x, y \in H : x = y
      BY DEF RowInv, NoDoubleSeat
    <3>2. IsFiniteSet(H) /\ Cardinality(H) <= 1
      BY <3>1, AtMostOne
    <3>3. Cardinality(H) \in Nat
      BY <3>2, FS_CardinalityType
    <3> HIDE DEF H
    <3>4. ~ Cardinality(H) > 1
      BY <3>2, <3>3
    <3> QED BY <3>4 DEF H
  <2> QED BY <2>1 DEF DuplicateActiveSeats
<1>4. OrphanItems = {} /\ OrphanSeats = {}
  <2>1. ASSUME NEW x \in Requests, resv[x].status = Absent
        PROVE  resv[x] = NoRow
    BY <2>1 DEF RowInv, ParentChildAgreement, Agrees
  <2>2. OrphanItems = {}
    BY <2>1 DEF OrphanItems, NoRow
  <2>3. OrphanSeats = {}
    BY <2>1 DEF OrphanSeats, NoRow, NoHold
  <2> QED BY <2>2, <2>3
<1>5. v = 1 \/ v = 2 \/ v = 3 \/ v = 4 \/ v = 5
  OBVIOUS
<1> QED
  BY <1>1, <1>2, <1>3, <1>4, <1>5 DEF Violations

\* Which requests are about to settle a reservation: those that were, and one that
\* has found it in time.
LEMMA WhoSettles ==
  ASSUME Inv, [Next]_vars, NEW r \in Requests, pc'[r] \in {"l_move", "l_commit"}
  PROVE  \/ pc[r] \in {"l_move", "l_commit"} /\ goal'[r] = goal[r]
         \/ LifecycleLock(r)
<1>0. /\ pc \in [Process -> Label] /\ goal \in [Requests -> Status]
      /\ Requests \subseteq Process /\ \A w \in Workers : w # r
  BY StoreAssumption DEF Inv, TypeOK, LocalsOK, Process
<1>1. ASSUME NEW q \in Requests, QuantityReserve(q)
      PROVE  goal' = goal /\ (q # r => pc'[r] = pc[r]) /\ q # r
  BY <1>0, <1>1 DEF QuantityReserve, QuantityLookup, QuantityStock, QuantityNoStock,
     QuantityInsert, QuantityCommit, QuantityResolve, Done, Goto
<1>2. ASSUME NEW q \in Requests, SeatsReserve(q)
      PROVE  goal' = goal /\ (q # r => pc'[r] = pc[r]) /\ q # r
  BY <1>0, <1>2 DEF SeatsReserve, SeatsLookup, SeatsLock, SeatsMissing, SeatsStale,
     SeatsLockParent, SeatsExpire, SeatsInsert, SeatsHold, SeatsCommit, SeatsResolve,
     Done, Goto
<1>3. ASSUME NEW q \in Requests, Lifecycle(q), ~ LifecycleLock(r)
      PROVE  goal'[r] = goal[r] /\ pc[r] \in {"l_move", "l_commit"}
  BY <1>0, <1>3 DEF Lifecycle, NotFound, LifecycleSettled, LifecycleLock, LifecycleMove,
     LifecycleConflict, LifecycleCommit, GetParent, GetChildren, Done, Goto
<1>4. ASSUME NEW w \in Workers, ExpireBatch(w)
      PROVE  goal' = goal /\ pc'[r] = pc[r]
  BY <1>0, <1>4 DEF ExpireBatch, WorkerIdle, WorkerLock, WorkerMove, WorkerCommit, Goto,
     locals
<1>5. ASSUME NEW p \in Process, Abort(p)
      PROVE  goal' = goal /\ pc'[r] = pc[r]
  BY <1>0, <1>5 DEF Abort, Goto
<1>6. CASE UNCHANGED vars \/ Tick \/ AllAnswered
  BY <1>6 DEF vars, locals, Tick, AllAnswered
<1>7. CASE Next
  BY <1>1, <1>2, <1>3, <1>4, <1>5, <1>6, <1>7
  DEF Next, Serve, Crash, DeadlockVictim
<1> QED
  BY <1>6, <1>7

\* After the deadline nobody sets out to settle a reservation.
LEMMA TooLateToSettle ==
  ASSUME Inv, [Next]_vars, NEW x \in Requests, resv[x].expires < now, BeingSettled(x)'
  PROVE  BeingSettled(x)
<1>1. PICK r \in Requests : /\ pc'[r] \in {"l_move", "l_commit"}
                            /\ req'[r].target = x /\ goal'[r] # "expired"
  BY DEF BeingSettled
<1>2. req'[r].target = req[r].target
  BY ClockAndPayloads
<1>3. CASE LifecycleLock(r)
  <2>1. goal'[r] = "expired"
    BY <1>1, <1>2, <1>3 DEF LifecycleLock, Aim, Inv, TypeOK, LocalsOK
  <2> QED BY <1>1, <2>1
<1> QED
  BY <1>1, <1>2, <1>3, WhoSettles DEF BeingSettled

\* A reservation that is not being settled stays reserved or expires.
LEMMA OnlyExpires ==
  ASSUME Inv, RowInv, [Next]_vars, NEW x \in Requests, ~ BeingSettled(x),
         resv[x].status \in {"reserved", "expired"}
  PROVE  resv'[x].status \in {"reserved", "expired"}
<1>1. CASE resv'[x] = resv[x]
  BY <1>1
<1>2. CASE resv'[x] # resv[x]
  <2>1. resv'[x] = resvW[x] /\ MovedOut(x)
    BY <1>2, RowChanges DEF Inserted, NoRow, Absent
  <2>2. resvW[x] # resv[x] /\ resvLock[x] # None
    BY <1>2, <2>1, TwoVersionsLocked DEF Inv, StockInv
  <2>3. Entitled(resvLock[x], x)
    BY <2>2 DEF RowInv, RowLocks
  <2>4. ASSUME resvLock[x] \in Requests, pc[resvLock[x]] = "l_commit"
        PROVE  goal[resvLock[x]] = "expired"
    <3>1. req[resvLock[x]].target = x
      BY <2>3, <2>4, WorkersApart DEF Entitled, Inserting
    <3> QED BY <2>4, <3>1 DEF BeingSettled
  <2>5. Destination(resvLock[x]) = "expired"
    BY <2>4 DEF Destination
  <2> QED BY <2>1, <2>5 DEF MovedOut
<1> QED
  BY <1>1, <1>2

\* A committed row keeps its deadline.
LEMMA DeadlinesStay ==
  ASSUME Inv, RowInv, [Next]_vars, NEW x \in Requests, resv[x].status # Absent
  PROVE  resv'[x].expires = resv[x].expires
<1>1. CASE resv'[x] = resv[x]
  BY <1>1
<1>2. CASE resv'[x] # resv[x]
  BY <1>2, RowChanges DEF Inserted, NoRow, MovedOut
<1> QED
  BY <1>1, <1>2

\* The clock does not go back.
LEMMA ClockGoesOn ==
  ASSUME Inv, [Next]_vars
  PROVE  now \in Int /\ now' \in Int /\ now <= now'
BY ClockAndPayloads, StoreAssumption DEF Tick, Inv, TypeOK, EnvOK

\* While the services go on, what the audit has listed stays lost.
LEMMA ServicesKeepAudit ==
  ASSUME Inv, RowInv, [Next]_vars, AuditInv, UNCHANGED <<audit, inHand>>
  PROVE  AuditInv'
<1>1. now \in Int /\ now' \in Int /\ now <= now'
  BY ClockGoesOn
<1>2. ListedAreLost'
  <2> SUFFICES ASSUME NEW x \in audit.stale
               PROVE  /\ x \in Requests /\ resv'[x].status # Absent
                      /\ resv'[x].expires < now'
                      /\ x \notin inHand => /\ resv'[x].status \in {"reserved", "expired"}
                                           /\ ~ BeingSettled(x)'
    BY DEF ListedAreLost
  <2>1. /\ x \in Requests /\ resv[x].status # Absent /\ resv[x].expires < now
        /\ x \notin inHand => resv[x].status \in {"reserved", "expired"} /\ ~ BeingSettled(x)
    BY DEF AuditInv, ListedAreLost
  <2>2. resv'[x].status # Absent
    BY <2>1, RowsAge
  <2>3. resv'[x].expires < now'
    <3>1. resv'[x].expires = resv[x].expires /\ resv[x].expires \in Int
      BY <2>1, DeadlinesStay DEF Inv, TypeOK, TablesOK, Row
    <3> QED BY <1>1, <2>1, <3>1
  <2>4. x \notin inHand => resv'[x].status \in {"reserved", "expired"} /\ ~ BeingSettled(x)'
    BY <2>1, OnlyExpires, TooLateToSettle
  <2> QED BY <2>1, <2>2, <2>3, <2>4
<1> QED
  BY <1>1, <1>2 DEF AuditInv, AuditShape

\* The audit's own statements: the clock, five empty lists, and the stale rows.
LEMMA AuditKeepsAudit ==
  ASSUME Inv, RowInv, NeverOversold, AuditInv, Audit
  PROVE  AuditInv'
<1>0. /\ UNCHANGED <<resv, pc, req, goal, now>> /\ now \in Int
      /\ audit = [at |-> audit.at, before |-> audit.before,
                  failed |-> audit.failed, stale |-> audit.stale]
      /\ audit.failed = {} /\ audit.before \in Int
  BY StoreAssumption DEF Audit, AuditBegin, AuditQuery, AuditStale, vars, tables, locals, env,
     AuditInv, AuditShape, Inv, TypeOK, EnvOK
<1>1. CASE AuditBegin
  <2>1. /\ audit' = [at |-> 1, before |-> now - StaleTolerance,
                     failed |-> {}, stale |-> audit.stale]
        /\ inHand' = inHand
    BY <1>0, <1>1 DEF AuditBegin
  <2>2. ListedAreLost'
    BY <1>0, <2>1 DEF AuditInv, ListedAreLost, BeingSettled
  <2> QED BY <1>0, <2>1, <2>2, ReportAssumption DEF AuditInv, AuditShape, Answered
<1>2. CASE AuditQuery
  <2>1. {v \in {audit.at} : Violations[v] # {}} = {}
    BY <1>2, QueriesFindNothing DEF AuditQuery
  <2>2. /\ audit' = [at |-> audit.at + 1, before |-> audit.before,
                     failed |-> {}, stale |-> audit.stale]
        /\ audit.at \in 1..5 /\ inHand' = inHand
    BY <1>0, <1>2, <2>1 DEF AuditQuery
  <2>3. ListedAreLost'
    BY <1>0, <2>2 DEF AuditInv, ListedAreLost, BeingSettled
  <2> QED BY <1>0, <2>2, <2>3 DEF AuditInv, AuditShape, Answered
<1>3. CASE AuditStale
  <2>0. audit.before <= now
    BY <1>3 DEF AuditStale, AuditInv, StaleQuery
  <2>1. /\ audit' = [at |-> 7, before |-> audit.before,
                     failed |-> {}, stale |-> StaleReservations(audit.before)]
        /\ inHand' = {x \in Requests : BeingSettled(x)}
    <3>1. /\ audit' = [audit EXCEPT !.at = 7, !.stale = StaleReservations(audit.before)]
          /\ inHand' = {x \in Requests : BeingSettled(x)}
      BY <1>3 DEF AuditStale, Answered
    <3> QED BY <1>0, <3>1
  <2>2. ASSUME NEW x \in StaleReservations(audit.before)
        PROVE  /\ x \in Requests /\ resv[x].status = "reserved" /\ resv[x].expires < now
               /\ x \notin inHand' => ~ BeingSettled(x)
    <3>1. x \in Requests /\ resv[x].status = "reserved" /\ resv[x].expires < audit.before
      BY DEF StaleReservations
    <3>2. resv[x].expires \in Int
      BY <3>1 DEF Inv, TypeOK, TablesOK, Row
    <3> QED BY <1>0, <2>0, <2>1, <3>1, <3>2
  <2>3. ListedAreLost'
    BY <1>0, <2>1, <2>2 DEF ListedAreLost, BeingSettled, Absent
  <2> QED BY <1>0, <2>0, <2>1, <2>3 DEF AuditInv, AuditShape, Answered
<1> QED
  BY <1>1, <1>2, <1>3 DEF Audit

\* Audits keep their invariant beside the services.
THEOREM AuditInvariant == ReportedSpec => []AuditInv
<1>1. Init /\ InitReport => AuditInv
  BY DEF InitReport, NewAudit, AuditInv, AuditShape, ListedAreLost, Answered
<1>2. Inv /\ RowInv /\ NeverOversold /\ AuditInv /\ [ReportedNext]_reportVars => AuditInv'
  <2> SUFFICES ASSUME Inv, RowInv, NeverOversold, AuditInv, [ReportedNext]_reportVars
               PROVE  AuditInv'
    OBVIOUS
  <2>1. CASE Audit
    BY <2>1, AuditKeepsAudit
  <2>2. CASE [Next]_vars /\ UNCHANGED <<audit, inHand>>
    BY <2>2, ServicesKeepAudit
  <2>3. CASE Inventory
    BY <2>3, <2>2 DEF Inventory, InventoryEvent, InventoryTickets, InventorySeats,
       InventoryRead
  <2> QED BY <2>1, <2>2, <2>3 DEF ReportedNext, reportVars
<1> QED
  BY <1>1, <1>2, ReadersOnlyRead, RowInvariant, NoOversell, PTL DEF ReportedSpec

\* With all requests, workers and crashes under way, assert_consistency reports
\* nothing but overdue reservations, and what it reports can only expire, save what
\* a cancel or confirm had locked in time.
THEOREM AuditsBlameTheLost == ReportedSpec => []AuditBlamesTheLost
<1>1. AuditInv => AuditBlamesTheLost
  BY DEF AuditInv, ListedAreLost, AuditBlamesTheLost, AuditOk
<1> QED
  BY <1>1, AuditInvariant, PTL

-----------------------------------------------------------------------------
(* The inventory *)

\* The sales a report began with have stayed, and the counters it has read cover
\* them.
SalesStay == sold \subseteq Requests /\ \A x \in sold : resv[x].status = "confirmed"

Counted(t) ==
  /\ report.tickets[t].available >= 0
  /\ report.tickets[t].sold >=
       Cardinality(sold \X (1..MaxQuantity) \cap Units(resv, t, "confirmed"))

TicketsCounted ==
  report.at \in {"seats", "done"} => \A t \in DOMAIN report.tickets : Counted(t)

SeatsShown ==
  report.at = "done" =>
    \A i \in report.seats : \A x \in sold :
      req[x].op = "seats" /\ i.seat \in req[x].seats => i.status = "confirmed"

ReportShape ==
  report = [at |-> report.at, tickets |-> report.tickets, seats |-> report.seats]

ReportInv ==
  ReportShape /\ SalesStay /\ TicketsCounted /\ SeatsShown /\ SeatsListedOnce

\* The units sold to a set of confirmed reservations are sold for good.
LEMMA SoldUnitsStay ==
  ASSUME Inv, RowInv, [Next]_vars, SalesStay, NEW t
  PROVE  /\ \A x \in sold : resv'[x] = resv[x]
         /\ sold \X (1..MaxQuantity) \cap Units(resv', t, "confirmed")
              = sold \X (1..MaxQuantity) \cap Units(resv, t, "confirmed")
<1>1. \A x \in sold : x \in Requests /\ resv'[x] = resv[x]
  BY RowsAge DEF SalesStay, Status
<1> QED
  BY <1>1 DEF Units

\* The units sold to a set of reservations are as many, or fewer, than all.
LEMMA SoldUnits ==
  ASSUME NEW S, NEW t
  PROVE  LET U == S \X (1..MaxQuantity) \cap Units(resv, t, "confirmed")
         IN Cardinality(U) \in Nat /\ Cardinality(U) <= Cardinality(Units(resv, t, "confirmed"))
<1> DEFINE All == Units(resv, t, "confirmed")
           U == S \X (1..MaxQuantity) \cap All
<1>1. IsFiniteSet(All) /\ Cardinality(All) \in Nat
  BY UnitsFinite
<1>2. U \in SUBSET All
  OBVIOUS
<1> HIDE DEF All
<1>3. IsFiniteSet(U) /\ Cardinality(U) <= Cardinality(All)
  BY <1>1, <1>2, FS_Subset
<1>4. Cardinality(U) \in Nat
  BY <1>3, FS_CardinalityType
<1> QED
  BY <1>3, <1>4 DEF All

\* While the services go on, what has been read stays true.
LEMMA ServicesKeepReports ==
  ASSUME Inv, RowInv, [Next]_vars, ReportInv, UNCHANGED <<report, sold>>
  PROVE  ReportInv'
<1>0. req' = req
  BY ClockAndPayloads
<1>1. SalesStay'
  BY SoldUnitsStay DEF ReportInv, SalesStay
<1>2. ASSUME NEW t, Counted(t) PROVE Counted(t)'
  <2>1. (sold \X (1..MaxQuantity) \cap Units(resv, t, "confirmed"))'
          = sold \X (1..MaxQuantity) \cap Units(resv, t, "confirmed")
    <3>1. Units(resv, t, "confirmed")' = Units(resv', t, "confirmed")
      BY <1>0 DEF Units
    <3> QED BY <3>1, SoldUnitsStay DEF ReportInv
  <2> QED BY <1>2, <2>1 DEF Counted
<1>3. TicketsCounted'
  BY <1>2 DEF ReportInv, TicketsCounted
<1>4. SeatsShown' /\ SeatsListedOnce' /\ ReportShape'
  BY <1>0 DEF ReportInv, SeatsShown, SeatsListedOnce, ReportShape
<1> QED
  BY <1>1, <1>3, <1>4 DEF ReportInv

\* The request for the event notes which reservations are sold.
LEMMA EventKeepsReports ==
  ASSUME ReportInv, InventoryEvent
  PROVE  ReportInv'
<1>1. /\ report' = [at |-> "tickets", tickets |-> report.tickets, seats |-> report.seats]
      /\ sold' = {x \in Requests : resv[x].status = "confirmed"}
      /\ resv' = resv
  BY DEF InventoryEvent, ReportInv, ReportShape, vars, tables
<1> QED
  BY <1>1 DEF ReportInv, ReportShape, SalesStay, TicketsCounted, SeatsShown, SeatsListedOnce

\* The counters cover the sales, because the stock adds up.
LEMMA TicketsKeepReports ==
  ASSUME Inv, NeverOversold, ReportInv, InventoryTickets
  PROVE  ReportInv'
<1>1. /\ report' = [at |-> "seats", tickets |-> TicketInventory, seats |-> report.seats]
      /\ UNCHANGED <<sold, resv, req>>
  BY DEF InventoryTickets, ReportInv, ReportShape, vars, tables, env
<1>2. ASSUME NEW t \in DOMAIN TicketInventory PROVE Counted(t)'
  <2>1. t \in TicketTypes
    BY DEF TicketInventory
  <2>2. tickets[t] \in TicketRow /\ Total[t] \in Nat
    BY <2>1, StoreAssumption DEF Inv, TypeOK, TablesOK
  <2>3. TicketInventory[t] = [sold |-> tickets[t].sold, reserved |-> tickets[t].reserved,
           available |-> Total[t] - tickets[t].sold - tickets[t].reserved]
    BY DEF TicketInventory
  <2>4. tickets[t].sold + tickets[t].reserved <= Total[t]
    BY <2>1 DEF NeverOversold
  <2>5. tickets[t].sold = Cardinality(Units(resv, t, "confirmed"))
    BY <2>1 DEF Inv, StockInv, StockAccounting
  <2>6. report'.tickets[t].available >= 0 /\ report'.tickets[t].sold = tickets[t].sold
    BY <1>1, <2>2, <2>3, <2>4 DEF TicketRow
  <2>7. Units(resv, t, "confirmed")' = Units(resv, t, "confirmed")
    BY <1>1 DEF Units
  <2> DEFINE U == sold \X (1..MaxQuantity) \cap Units(resv, t, "confirmed")
  <2>8. Cardinality(U) \in Nat /\ Cardinality(U) <= tickets[t].sold
    BY <2>5, SoldUnits
  <2>9. U' = U
    BY <1>1, <2>7
  <2> HIDE DEF U
  <2>10. report'.tickets[t].sold >= Cardinality(U)'
    BY <2>2, <2>6, <2>8, <2>9 DEF TicketRow
  <2> QED BY <2>6, <2>10 DEF Counted, U
<1>3. TicketsCounted'
  BY <1>1, <1>2 DEF TicketsCounted
<1> QED
  BY <1>1, <1>3 DEF ReportInv, ReportShape, SalesStay, SeatsShown, SeatsListedOnce

\* The outer join finds one record for every seat, and that of a sale for its seats.
LEMMA SeatsKeepReports ==
  ASSUME Inv, RowInv, ReportInv, InventorySeats
  PROVE  ReportInv'
<1>1. /\ report' = [at |-> "done", tickets |-> report.tickets, seats |-> SeatInventory]
      /\ UNCHANGED <<sold, resv, req>>
  BY DEF InventorySeats, ReportInv, ReportShape, vars, tables, env
<1>2. report.at = "seats"
  BY DEF InventorySeats
<1>3. ASSUME NEW t \in DOMAIN report.tickets PROVE Counted(t)'
  <2>1. Counted(t)
    BY <1>2, <1>3 DEF ReportInv, TicketsCounted
  <2>2. Units(resv, t, "confirmed")' = Units(resv, t, "confirmed")
    BY <1>1 DEF Units
  <2> QED BY <1>1, <2>1, <2>2 DEF Counted
<1>4. TicketsCounted'
  BY <1>1, <1>3 DEF TicketsCounted
<1>5. ASSUME NEW s \in Seats, SeatEvent[s] = Shown
      PROVE  \E i : {j \in SeatInventory : j.seat = s} = {i}
  <2>1. CASE \E x \in Requests : Joined(s, x)
    <3>1. PICK x \in Requests : Joined(s, x)
      BY <2>1
    <3>2. \A y \in Requests : Joined(s, y) => y = x
      BY <3>1 DEF Joined, RowInv, NoDoubleSeat
    <3> DEFINE i == [seat |-> s, hold |-> x, status |-> resv[x].hold[s]]
    <3>3. i \in SeatInventory
      <4> DEFINE P == {p \in {z \in Seats : SeatEvent[z] = Shown} \X Requests :
                         Joined(p[1], p[2])}
      <4>1. <<s, x>> \in P
        BY <1>5, <3>1
      <4>2. i = [seat |-> <<s, x>>[1], hold |-> <<s, x>>[2],
                 status |-> resv[<<s, x>>[2]].hold[<<s, x>>[1]]]
        OBVIOUS
      <4> QED BY <4>1, <4>2 DEF SeatInventory
    <3>4. ASSUME NEW j \in SeatInventory, j.seat = s PROVE j = i
      BY <3>1, <3>2, <3>4 DEF SeatInventory
    <3>5. {j \in SeatInventory : j.seat = s} = {i}
      BY <3>3, <3>4
    <3> QED BY <3>5
  <2>2. CASE \A x \in Requests : ~ Joined(s, x)
    <3> DEFINE i == [seat |-> s, hold |-> None, status |-> "available"]
    <3>1. i \in SeatInventory
      BY <1>5, <2>2 DEF SeatInventory
    <3>2. ASSUME NEW j \in SeatInventory, j.seat = s PROVE j = i
      BY <2>2, <3>2 DEF SeatInventory
    <3>3. {j \in SeatInventory : j.seat = s} = {i}
      BY <3>1, <3>2
    <3> QED BY <3>3
  <2> QED BY <2>1, <2>2
<1>6. SeatsListedOnce'
  <2>1. ASSUME NEW s \in Seats, SeatEvent[s] = Shown
        PROVE  Cardinality({j \in SeatInventory : j.seat = s}) = 1
    <3>1. PICK i : {j \in SeatInventory : j.seat = s} = {i}
      BY <1>5, <2>1
    <3> QED BY <3>1, FS_Singleton
  <2> QED BY <1>1, <2>1 DEF SeatsListedOnce
<1>7. SeatsShown'
  <2> SUFFICES ASSUME NEW i \in SeatInventory, NEW x \in sold,
                      req[x].op = "seats", i.seat \in req[x].seats
               PROVE  i.status = "confirmed"
    BY <1>1 DEF SeatsShown
  <2>1. x \in Requests /\ resv[x].status = "confirmed"
    BY DEF ReportInv, SalesStay
  <2>2. i.seat \in Seats /\ (\/ \E y \in Requests : Joined(i.seat, y) /\ i.status = resv[y].hold[i.seat]
                             \/ \A y \in Requests : ~ Joined(i.seat, y))
    BY DEF SeatInventory
  <2>3. resv[x].hold[i.seat] = "confirmed"
    BY <2>1, <2>2 DEF RowInv, ParentChildAgreement, Agrees, Absent
  <2> QED BY <2>1, <2>2, <2>3 DEF Joined, Active, RowInv, NoDoubleSeat
<1> QED
  BY <1>1, <1>4, <1>6, <1>7 DEF ReportInv, ReportShape, SalesStay

\* A new report knows nothing.
LEMMA ReadKeepsReports ==
  ASSUME InventoryRead
  PROVE  ReportInv'
<1>1. report' = [at |-> "read", tickets |-> <<>>, seats |-> {}] /\ sold' = {}
  BY DEF InventoryRead, NewReport
<1> QED
  BY <1>1 DEF ReportInv, ReportShape, SalesStay, TicketsCounted, SeatsShown, SeatsListedOnce

\* Reports keep their invariant beside the services.
THEOREM ReportInvariant == ReportedSpec => []ReportInv
<1>1. Init /\ InitReport => ReportInv
  BY DEF InitReport, NewReport, ReportInv, ReportShape, SalesStay, TicketsCounted,
     SeatsShown, SeatsListedOnce
<1>2. Inv /\ RowInv /\ NeverOversold /\ ReportInv /\ [ReportedNext]_reportVars => ReportInv'
  <2> SUFFICES ASSUME Inv, RowInv, NeverOversold, ReportInv, [ReportedNext]_reportVars
               PROVE  ReportInv'
    OBVIOUS
  <2>0. CASE [Next]_vars /\ UNCHANGED <<report, sold>>
    BY <2>0, ServicesKeepReports
  <2>1. CASE Inventory
    BY <2>1, EventKeepsReports, TicketsKeepReports, SeatsKeepReports, ReadKeepsReports
    DEF Inventory
  <2>2. CASE Audit
    BY <2>0, <2>2 DEF Audit, AuditBegin, AuditQuery, AuditStale
  <2> QED BY <2>0, <2>1, <2>2 DEF ReportedNext, reportVars
<1> QED
  BY <1>1, <1>2, ReadersOnlyRead, RowInvariant, NoOversell, PTL DEF ReportedSpec

\* An inventory offers no ticket and no seat that was sold when it was asked for,
\* and never less than nothing, although its statements read at different moments.
THEOREM InventoryNeverResells == ReportedSpec => []InventoryShowsSales
<1>1. ReportInv => InventoryShowsSales
  BY DEF ReportInv, TicketsCounted, Counted, SeatsShown, InventoryShowsSales
<1> QED
  BY <1>1, ReportInvariant, PTL

\* Every seat of the event is in the answer once: the join never finds two holds.
THEOREM InventoryListsSeatsOnce == ReportedSpec => []SeatsListedOnce
<1>1. ReportInv => SeatsListedOnce
  BY DEF ReportInv
<1> QED
  BY <1>1, ReportInvariant, PTL
=============================================================================
