----------------------- MODULE ReservationSystem_proofs ---------------------
(***************************************************************************)
(* ReservationSystem keeps its types, and no unit of stock is lost,        *)
(* counted twice or oversold, for every set of requests, workers, seats    *)
(* and ticket types and every value of the other constants.                *)
(***************************************************************************)
EXTENDS ReservationSystem, FiniteSetTheorems, TLAPS

\* The payloads of a workload have the fields of their kind.
LEMMA PayloadFields ==
  ASSUME req \in Payloads, NEW x \in Requests
  PROVE  /\ req[x].op = "quantity" => /\ req[x].ticket \in TicketTypes
                                      /\ req[x].quantity \in Nat
                                      /\ req[x].quantity \in 1..MaxQuantity
         /\ req[x].op = "seats" => req[x].seats \in SUBSET Seats
         /\ req[x].op \in {"get", "cancel", "confirm"} => req[x].target \in Requests
<1>1. req[x] \in Payload
  BY DEF Payloads
<1>2. MaxQuantity \in Nat
  BY StoreAssumption
<1> QED
  BY <1>1, <1>2 DEF Payload, QuantityPayload, SeatsPayload, LifecyclePayload

\* No worker is a request.
LEMMA WorkersApart == \A w \in Workers, r \in Requests : w # r /\ w \in Process /\ r \in Process
BY StoreAssumption DEF Process

\* Commit and Rollback choose, row by row, between two well-typed versions.
LEMMA CommitTypes ==
  ASSUME TablesOK, NEW p, Commit(p)
  PROVE  TablesOK'
BY DEF TablesOK, Commit, Unlock

\* A rollback returns to committed rows, which are well-typed.
LEMMA RollbackTypes ==
  ASSUME TablesOK, NEW p, Rollback(p)
  PROVE  TablesOK'
BY DEF TablesOK, Rollback, Unlock

\* A replayed reservation is an answer.
LEMMA ReplayTypes ==
  ASSUME TypeOK, NEW r \in Requests, Replays(r) # {}
  PROVE  Replay(r) \in Reply
<1>1. PICK x : x = (CHOOSE y \in Replays(r) : TRUE) /\ x \in Replays(r)
  OBVIOUS
<1>2. x \in Requests
  BY <1>1 DEF Replays, SameKey
<1> QED
  BY <1>1, <1>2 DEF Replay, Reply, TypeOK, TablesOK, Row, Code

\* An error code alone is an answer.
LEMMA AnswerTypes == \A c \in Code : Answer(c) \in Reply
BY DEF Answer, Reply

\* The 201 of a new reservation is an answer.
LEMMA CreatedTypes == \A r \in Requests : Created(r) \in Reply
BY DEF Created, Reply, Status, Code

\* An answered request.
LEMMA DoneTypes ==
  ASSUME LocalsOK, HandlerMatches, UNCHANGED req,
         NEW r \in Requests, NEW a \in Reply, Done(r, a)
  PROVE  LocalsOK' /\ HandlerMatches'
BY DEF LocalsOK, HandlerMatches, Done, Process, QuantityLabels, SeatsLabels,
       LifecycleLabels, GetLabels, Label

\* The inserted header and item make a well-typed row.
LEMMA InsertTypes ==
  ASSUME TypeOK, NEW r \in Requests, NEW item \in Status \cup {Absent},
         InsertReservation(r, item),
         UNCHANGED <<tickets, ticketsW, ticketLock, resv, seatLock>>
  PROVE  TablesOK'
<1>1. NoHold \in [Seats -> Status \cup {Absent}]
  BY DEF NoHold
<1> QED
  BY <1>1 DEF TypeOK, TablesOK, LocalsOK, InsertReservation, Row, Status, Process

\* QuantityReservationService.reserve keeps the types, statement by statement.
LEMMA QuantityTypes ==
  ASSUME TypeOK, HandlerMatches, NEW r \in Requests, QuantityReserve(r)
  PROVE  TypeOK' /\ HandlerMatches'
<1>0. EnvOK' /\ UNCHANGED req
  BY DEF QuantityReserve, QuantityLookup, QuantityStock, QuantityNoStock,
         QuantityInsert, QuantityCommit, QuantityResolve, env, EnvOK, TypeOK
<1> USE DEF TypeOK
<1>1. CASE QuantityLookup(r)
  <2>1. TablesOK'
    BY <1>1 DEF QuantityLookup, tables, TablesOK
  <2>2. LocalsOK' /\ HandlerMatches'
    <3>1. CASE Replays(r) # {} /\ Done(r, Replay(r))
      BY <1>0, <3>1, ReplayTypes, DoneTypes
    <3>2. CASE Goto(r, "q_stock") /\ UNCHANGED <<todo, goal, stamp, reply>>
      BY <1>0, <1>1, <3>2 DEF QuantityLookup, Goto, LocalsOK, HandlerMatches, Process,
         QuantityLabels, SeatsLabels, LifecycleLabels, GetLabels, Label
    <3> QED BY <1>1, <3>1, <3>2 DEF QuantityLookup
  <2> QED BY <1>0, <2>1, <2>2
<1>2. CASE QuantityStock(r)
  <2> DEFINE t == req[r].ticket  q == req[r].quantity
  <2>1. req[r].op = "quantity"
    BY <1>2 DEF QuantityStock, HandlerMatches, QuantityLabels
  <2>2. t \in TicketTypes /\ q \in Nat
    BY <2>1, PayloadFields DEF EnvOK
  <2>3. AddReserved(ticketsW[t], q) \in TicketRow
    BY <2>2 DEF TablesOK, TicketRow, AddReserved
  <2>4. TablesOK'
    BY <1>2, <2>2, <2>3 DEF QuantityStock, SetTicket, TablesOK, Process
  <2>5. now + TTL \in Nat
    BY StoreAssumption DEF EnvOK
  <2>6. LocalsOK'
    BY <1>2, <2>5 DEF QuantityStock, Goto, LocalsOK, Process, Label, QuantityLabels
  <2>7. HandlerMatches'
    BY <1>0, <1>2, <2>1 DEF QuantityStock, Goto, LocalsOK, HandlerMatches, Process,
       QuantityLabels, SeatsLabels, LifecycleLabels, GetLabels, Label
  <2> QED BY <1>0, <2>4, <2>6, <2>7
<1>3. CASE QuantityNoStock(r)
  <2>1. TablesOK'
    BY <1>3 DEF QuantityNoStock, tables, TablesOK
  <2>2. LocalsOK' /\ HandlerMatches'
    BY <1>0, <1>3 DEF QuantityNoStock, Goto, LocalsOK, HandlerMatches, Process,
       QuantityLabels, SeatsLabels, LifecycleLabels, GetLabels, Label
  <2> QED BY <1>0, <2>1, <2>2
<1>4. CASE QuantityInsert(r)
  <2>1. TablesOK'
    BY <1>4, InsertTypes, RollbackTypes DEF QuantityInsert, Status
  <2>2. LocalsOK' /\ HandlerMatches'
    BY <1>0, <1>4 DEF QuantityInsert, Goto, LocalsOK, HandlerMatches, Process,
       QuantityLabels, SeatsLabels, LifecycleLabels, GetLabels, Label
  <2> QED BY <1>0, <2>1, <2>2
<1>5. CASE QuantityCommit(r)
  <2>1. Created(r) \in Reply
    BY CreatedTypes
  <2> QED BY <1>0, <1>5, <2>1, CommitTypes, DoneTypes DEF QuantityCommit
<1>6. CASE QuantityResolve(r)
  <2>1. (IF Replays(r) # {} THEN Replay(r) ELSE Answer("INSUFFICIENT_STOCK")) \in Reply
    BY ReplayTypes, AnswerTypes DEF Code
  <2>2. TablesOK'
    BY <1>6 DEF QuantityResolve, tables, TablesOK
  <2> QED BY <1>0, <1>6, <2>1, <2>2, DoneTypes DEF QuantityResolve
<1> QED
  BY <1>1, <1>2, <1>3, <1>4, <1>5, <1>6 DEF QuantityReserve

\* SeatReservationService.reserve keeps the types, statement by statement.
LEMMA SeatsTypes ==
  ASSUME TypeOK, HandlerMatches, NEW r \in Requests, SeatsReserve(r)
  PROVE  TypeOK' /\ HandlerMatches'
<1>0. EnvOK' /\ UNCHANGED req
  BY DEF SeatsReserve, SeatsLookup, SeatsLock, SeatsMissing, SeatsStale,
         SeatsLockParent, SeatsExpire, SeatsInsert, SeatsHold, SeatsCommit,
         SeatsResolve, env, EnvOK, TypeOK
<1> USE DEF TypeOK
<1>1. CASE SeatsLookup(r)
  <2>1. TablesOK'
    BY <1>1 DEF SeatsLookup, tables, TablesOK
  <2>2. CASE Replays(r) # {} /\ Done(r, Replay(r))
    BY <1>0, <2>1, <2>2, ReplayTypes, DoneTypes
  <2>3. CASE /\ Goto(r, "s_lock")
             /\ todo' = [todo EXCEPT ![r] =
                           {s \in req[r].seats : SeatEvent[s] = req[r].event}]
             /\ UNCHANGED <<goal, stamp, reply>>
    <3>1. req[r].op = "seats"
      BY <1>1 DEF SeatsLookup, HandlerMatches, SeatsLabels
    <3>2. {s \in req[r].seats : SeatEvent[s] = req[r].event} \in SUBSET Nat
      BY <3>1, PayloadFields, StoreAssumption DEF EnvOK
    <3>3. LocalsOK'
      BY <2>3, <3>2, WorkersApart DEF Goto, LocalsOK, Process, Label, SeatsLabels
    <3>4. HandlerMatches'
      BY <1>0, <2>3, <3>1 DEF Goto, LocalsOK, HandlerMatches, Process,
         QuantityLabels, SeatsLabels, LifecycleLabels, GetLabels
    <3> QED BY <1>0, <2>1, <3>3, <3>4
  <2> QED BY <1>1, <2>2, <2>3 DEF SeatsLookup
<1>2. CASE SeatsLock(r)
  <2>1. TablesOK'
    BY <1>2 DEF SeatsLock, TablesOK, Process
  <2>2. PICK y \in todo[r] : todo' = [todo EXCEPT ![r] = @ \ {y}]
    BY <1>2 DEF SeatsLock
  <2>3. todo' \in [Process -> SUBSET Nat] /\ \A w \in Workers : todo'[w] = todo[w]
    BY <2>2, WorkersApart DEF LocalsOK
  <2>4. LocalsOK' /\ HandlerMatches'
    BY <1>0, <1>2, <2>3 DEF SeatsLock, LocalsOK, HandlerMatches
  <2> QED BY <1>0, <2>1, <2>4
<1>3. CASE SeatsMissing(r)
  BY <1>0, <1>3, RollbackTypes, AnswerTypes, DoneTypes DEF SeatsMissing, Code
<1>4. CASE SeatsStale(r)
  <2>1. TablesOK'
    BY <1>4 DEF SeatsStale, tables, TablesOK
  <2>2. StaleHolders(r) \in SUBSET Nat
    BY StoreAssumption DEF StaleHolders
  <2>3. now + TTL \in Nat
    BY StoreAssumption DEF EnvOK
  <2>4. LocalsOK'
    BY <1>4, <2>2, <2>3, WorkersApart DEF SeatsStale, Goto, LocalsOK, Process, Label, SeatsLabels
  <2>5. HandlerMatches'
    BY <1>0, <1>4 DEF SeatsStale, Goto, LocalsOK, HandlerMatches, Process,
       QuantityLabels, SeatsLabels, LifecycleLabels, GetLabels
  <2> QED BY <1>0, <2>1, <2>4, <2>5
<1>5. CASE SeatsLockParent(r)
  <2>1. TablesOK'
    BY <1>5 DEF SeatsLockParent, TablesOK, Process
  <2>2. PICK y \in todo[r] : todo' = [todo EXCEPT ![r] = @ \ {y}]
    BY <1>5 DEF SeatsLockParent
  <2>3. todo' \in [Process -> SUBSET Nat] /\ \A w \in Workers : todo'[w] = todo[w]
    BY <2>2, WorkersApart DEF LocalsOK
  <2>4. LocalsOK' /\ HandlerMatches'
    BY <1>0, <1>5, <2>3 DEF SeatsLockParent, LocalsOK, HandlerMatches
  <2> QED BY <1>0, <2>1, <2>4
<1>6. CASE SeatsExpire(r)
  <2>1. ASSUME NEW x \in Requests
        PROVE  ExpiredRow(resvW[x]) \in Row
    <3>1. \A st \in Status \cup {Absent} : ExpireStatus(st) \in Status \cup {Absent}
      BY DEF ExpireStatus, Status
    <3>2. resvW[x] \in Row
      BY DEF TablesOK
    <3>3. [s \in Seats |-> ExpireStatus(resvW[x].hold[s])]
            \in [Seats -> Status \cup {Absent}]
      BY <3>1, <3>2 DEF Row
    <3>4. ExpireStatus(resvW[x].status) \in Status \cup {Absent}
      BY <3>1, <3>2 DEF Row
    <3> QED BY <3>2, <3>3, <3>4 DEF Row, ExpiredRow
  <2>2. TablesOK'
    BY <1>6, <2>1 DEF SeatsExpire, TablesOK
  <2>3. LocalsOK'
    BY <1>6 DEF SeatsExpire, Goto, LocalsOK, Process, Label, SeatsLabels
  <2>4. HandlerMatches'
    BY <1>0, <1>6 DEF SeatsExpire, Goto, LocalsOK, HandlerMatches, Process,
       QuantityLabels, SeatsLabels, LifecycleLabels, GetLabels
  <2> QED BY <1>0, <2>2, <2>3, <2>4
<1>7. CASE SeatsInsert(r)
  <2>1. TablesOK'
    BY <1>7, InsertTypes, RollbackTypes DEF SeatsInsert
  <2>2. req[r].op = "seats"
    BY <1>7 DEF SeatsInsert, HandlerMatches, SeatsLabels
  <2>3. req[r].seats \in SUBSET Nat
    BY <2>2, PayloadFields, StoreAssumption DEF EnvOK
  <2>4. LocalsOK'
    BY <1>7, <2>3, WorkersApart DEF SeatsInsert, Goto, LocalsOK, Process, Label, SeatsLabels
  <2>5. HandlerMatches'
    BY <1>0, <1>7 DEF SeatsInsert, Goto, LocalsOK, HandlerMatches, Process,
       QuantityLabels, SeatsLabels, LifecycleLabels, GetLabels
  <2> QED BY <1>0, <2>1, <2>4, <2>5
<1>8. CASE SeatsHold(r)
  <2>1. TablesOK'
    <3>1. CASE Rollback(r)
      BY <3>1, RollbackTypes
    <3>2. CASE /\ \E s \in todo[r] : resvW' = [resvW EXCEPT ![r].hold[s] = "reserved"]
               /\ UNCHANGED <<tickets, ticketsW, ticketLock, resv, resvLock, seatLock>>
      <4>1. PICK s : resvW' = [resvW EXCEPT ![r].hold[s] = "reserved"]
        BY <3>2
      <4>2. resvW' \in [Requests -> Row]
        BY <4>1 DEF TablesOK, Row, Status
      <4> QED BY <3>2, <4>2 DEF TablesOK
    <3> QED BY <1>8, <3>1, <3>2 DEF SeatsHold
  <2>2. LocalsOK'
    BY <1>8, WorkersApart DEF SeatsHold, Goto, LocalsOK, Process, Label, SeatsLabels
  <2>3. HandlerMatches'
    BY <1>0, <1>8 DEF SeatsHold, Goto, LocalsOK, HandlerMatches, Process,
       QuantityLabels, SeatsLabels, LifecycleLabels, GetLabels
  <2> QED BY <1>0, <2>1, <2>2, <2>3
<1>9. CASE SeatsCommit(r)
  BY <1>0, <1>9, CreatedTypes, CommitTypes, DoneTypes DEF SeatsCommit
<1>10. CASE SeatsResolve(r)
  <2>1. (IF Replays(r) # {} THEN Replay(r) ELSE Answer("SEAT_UNAVAILABLE")) \in Reply
    BY ReplayTypes, AnswerTypes DEF Code
  <2>2. TablesOK'
    BY <1>10 DEF SeatsResolve, tables, TablesOK
  <2> QED BY <1>0, <1>10, <2>1, <2>2, DoneTypes DEF SeatsResolve
<1> QED
  BY <1>1, <1>2, <1>3, <1>4, <1>5, <1>6, <1>7, <1>8, <1>9, <1>10 DEF SeatsReserve

-----------------------------------------------------------------------------
\* A transition writes a well-typed stock row and a well-typed reservation.
LEMMA TransitionTypes ==
  ASSUME TypeOK, NEW p \in Process, NEW x \in Requests, NEW target \in Status,
         TransitionReserved(p, x, target),
         UNCHANGED <<tickets, resv, resvLock, seatLock>>
  PROVE  TablesOK'
<1> USE DEF TypeOK
<1>1. CASE TransitionQuantity(p, x, target)
  <2> DEFINE t == req[x].ticket  q == req[x].quantity
  <2>1. t \in TicketTypes /\ q \in Nat
    BY <1>1, PayloadFields DEF TransitionQuantity, EnvOK
  <2>2. ticketsW[t] \in TicketRow
    BY <2>1 DEF TablesOK
  <2>3. MoveReserved(ticketsW[t], q, target) \in TicketRow
    BY <1>1, <2>1, <2>2 DEF TransitionQuantity, CanMove, MoveReserved, TicketRow
  <2>4. ticketsW' \in [TicketTypes -> TicketRow]
        /\ ticketLock' \in [TicketTypes -> Process \cup {None}]
    BY <1>1, <2>1, <2>3 DEF TransitionQuantity, SetTicket, TablesOK
  <2>5. resvW' \in [Requests -> Row]
    <3> DEFINE moved == [resvW[x] EXCEPT !.status = target, !.item = target]
    <3>1. resvW \in [Requests -> Row] /\ resvW[x] \in Row
      BY DEF TablesOK
    <3>2. moved \in Row
      BY <3>1 DEF Row
    <3>3. resvW' = [resvW EXCEPT ![x] = moved]
      BY <1>1, <3>1 DEF TransitionQuantity
    <3> HIDE DEF moved
    <3> QED BY <3>1, <3>2, <3>3
  <2>6. UNCHANGED <<tickets, resv, resvLock, seatLock>>
    OBVIOUS
  <2> HIDE DEF TypeOK
  <2>7. TablesOK
    BY DEF TypeOK
  <2> QED BY ONLY <2>4, <2>5, <2>6, <2>7 DEF TablesOK
<1>2. CASE TransitionSeats(x, target)
  <2> DEFINE hold == [s \in Seats |-> IF resvW[x].hold[s] = Absent THEN Absent ELSE target]
             moved == [resvW[x] EXCEPT !.status = target, !.hold = hold]
  <2>1. resvW \in [Requests -> Row] /\ resvW[x] \in Row
    BY DEF TablesOK
  <2>2. moved \in Row
    <3>1. hold \in [Seats -> Status \cup {Absent}]
      OBVIOUS
    <3> HIDE DEF hold
    <3> QED BY <2>1, <3>1 DEF Row
  <2>3. resvW' = [resvW EXCEPT ![x] = moved]
    BY <1>2, <2>1 DEF TransitionSeats
  <2>4. resvW' \in [Requests -> Row]
    <3> HIDE DEF moved
    <3> QED BY <2>1, <2>2, <2>3
  <2> QED BY <1>2, <2>4 DEF TransitionSeats, TablesOK
<1> QED
  BY <1>1, <1>2 DEF TransitionReserved

\* The detail response of a well-typed row is an answer.
LEMMA DetailTypes ==
  ASSUME NEW x \in Requests, NEW row \in Row
  PROVE  Detail(x, row) \in Reply
BY DEF Detail, Reply, Code, Row, Children

\* get, cancel and confirm keep the types.
LEMMA LifecycleTypes ==
  ASSUME TypeOK, HandlerMatches, NEW r \in Requests, Lifecycle(r)
  PROVE  TypeOK' /\ HandlerMatches'
<1>0. EnvOK' /\ UNCHANGED req
  BY DEF Lifecycle, NotFound, LifecycleSettled, LifecycleLock, LifecycleMove,
         LifecycleConflict, LifecycleCommit, GetParent, GetChildren,
         env, EnvOK, TypeOK
<1> USE DEF TypeOK
<1> DEFINE x == req[r].target
<1>a. pc[r] \in LifecycleLabels \cup GetLabels => x \in Requests
  BY PayloadFields DEF HandlerMatches, EnvOK
<1>b. Refused(r) \in Reply /\ Wanted(r) \in Status
  BY AnswerTypes DEF Refused, Wanted, Status, Code
<1>1. CASE NotFound(r)
  <2>1. TablesOK'
    BY <1>1 DEF NotFound, tables, TablesOK
  <2> QED BY <1>0, <1>1, <2>1, AnswerTypes, DoneTypes DEF NotFound, Code
<1>2. CASE LifecycleSettled(r)
  <2>1. TablesOK'
    BY <1>2 DEF LifecycleSettled, tables, TablesOK
  <2>2. x \in Requests /\ resv[x] \in Row
    BY <1>a, <1>2 DEF LifecycleSettled, LifecycleLabels, TablesOK
  <2>3. (IF resv[x].status = Wanted(r) THEN Detail(x, resv[x]) ELSE Refused(r)) \in Reply
    BY <1>b, <2>2, DetailTypes
  <2> QED BY <1>0, <1>2, <2>1, <2>3, DoneTypes DEF LifecycleSettled
<1>3. CASE LifecycleLock(r)
  <2>1. TablesOK'
    BY <1>3 DEF LifecycleLock, TablesOK, Process
  <2>2. LocalsOK'
    BY <1>3, <1>b DEF LifecycleLock, Aim, Goto, LocalsOK, Process, Label,
       LifecycleLabels, Status
  <2>3. HandlerMatches'
    BY <1>0, <1>3 DEF LifecycleLock, Goto, LocalsOK, HandlerMatches, Process,
       QuantityLabels, SeatsLabels, LifecycleLabels, GetLabels
  <2> QED BY <1>0, <2>1, <2>2, <2>3
<1>4. CASE LifecycleMove(r)
  <2>1. x \in Requests /\ goal[r] \in Status /\ r \in Process
    BY <1>a, <1>4 DEF LifecycleMove, LifecycleLabels, LocalsOK, Process
  <2>2. TablesOK'
    BY <1>4, <2>1, TransitionTypes DEF LifecycleMove
  <2>3. LocalsOK'
    BY <1>4 DEF LifecycleMove, Goto, LocalsOK, Process, Label, LifecycleLabels
  <2>4. HandlerMatches'
    BY <1>0, <1>4 DEF LifecycleMove, Goto, LocalsOK, HandlerMatches, Process,
       QuantityLabels, SeatsLabels, LifecycleLabels, GetLabels
  <2> QED BY <1>0, <2>2, <2>3, <2>4
<1>5. CASE LifecycleConflict(r)
  BY <1>0, <1>5, <1>b, RollbackTypes, DoneTypes DEF LifecycleConflict
<1>6. CASE LifecycleCommit(r)
  <2>1. x \in Requests /\ resvW[x] \in Row
    BY <1>a, <1>6 DEF LifecycleCommit, LifecycleLabels, TablesOK
  <2>2. (IF goal[r] = "expired" THEN Refused(r) ELSE Detail(x, resvW[x])) \in Reply
    BY <1>b, <2>1, DetailTypes
  <2> QED BY <1>0, <1>6, <2>2, CommitTypes, DoneTypes DEF LifecycleCommit
<1>7. CASE GetParent(r)
  <2>1. TablesOK'
    BY <1>7 DEF GetParent, tables, TablesOK
  <2>2. x \in Requests /\ resv[x] \in Row
    BY <1>a, <1>7 DEF GetParent, GetLabels, TablesOK
  <2>3. LocalsOK'
    <3>1. reply' \in [Requests -> Reply]
      <4>1. [reply[r] EXCEPT !.id = x, !.status = resv[x].status] \in Reply
        <5>1. reply[r] \in Reply
          BY DEF LocalsOK
        <5>2. resv[x].status \in Status \cup {Absent, None}
          BY <2>2 DEF Row
        <5> HIDE DEF x
        <5> QED BY <2>2, <5>1, <5>2 DEF Reply
      <4>2. reply' = [reply EXCEPT ![r] =
                        [reply[r] EXCEPT !.id = x, !.status = resv[x].status]]
        BY <1>7 DEF GetParent, LocalsOK
      <4> QED BY <4>1, <4>2 DEF LocalsOK
    <3>2. pc' \in [Process -> Label]
      BY <1>7 DEF GetParent, Goto, LocalsOK, Process, Label, GetLabels
    <3> QED BY <1>7, <3>1, <3>2 DEF GetParent, LocalsOK
  <2>4. HandlerMatches'
    BY <1>0, <1>7 DEF GetParent, Goto, LocalsOK, HandlerMatches, Process,
       QuantityLabels, SeatsLabels, LifecycleLabels, GetLabels
  <2> QED BY <1>0, <2>1, <2>3, <2>4
<1>8. CASE GetChildren(r)
  <2>1. TablesOK'
    BY <1>8 DEF GetChildren, tables, TablesOK
  <2>2. x \in Requests /\ resv[x] \in Row
    BY <1>a, <1>8 DEF GetChildren, GetLabels, TablesOK
  <2>3. Children(resv[x]) \in SUBSET Status
    BY <2>2 DEF Children, Row
  <2>4. [reply[r] EXCEPT !.code = "OK", !.children = Children(resv[x])] \in Reply
    BY <2>3 DEF LocalsOK, Reply, Code
  <2> QED BY <1>0, <1>8, <2>1, <2>4, DoneTypes DEF GetChildren
<1> QED
  BY <1>1, <1>2, <1>3, <1>4, <1>5, <1>6, <1>7, <1>8 DEF Lifecycle

-----------------------------------------------------------------------------
\* expire_batch keeps the types, and its batch is a set of reservations.
LEMMA WorkerTypes ==
  ASSUME TypeOK, HandlerMatches, NEW w \in Workers, ExpireBatch(w)
  PROVE  TypeOK' /\ HandlerMatches'
<1>0. EnvOK' /\ UNCHANGED req
  BY DEF ExpireBatch, WorkerIdle, WorkerLock, WorkerMove, WorkerCommit,
         env, EnvOK, TypeOK
<1>a. w \in Process /\ w \notin Requests
  BY StoreAssumption DEF Process
<1> USE DEF TypeOK
<1>1. CASE WorkerIdle(w)
  BY <1>0, <1>1 DEF WorkerIdle, tables, locals, TablesOK, LocalsOK, HandlerMatches
<1>2. CASE WorkerLock(w)
  <2>1. TablesOK'
    BY <1>2, <1>a DEF WorkerLock, TablesOK
  <2>2. Batch \in SUBSET Nat /\ Batch \in SUBSET Requests
    BY StoreAssumption DEF Batch, Expirable
  <2>3. LocalsOK'
    BY <1>2, <1>a, <2>2 DEF WorkerLock, Goto, LocalsOK, Label, WorkerLabels
  <2>4. HandlerMatches'
    BY <1>0, <1>2, <1>a DEF WorkerLock, Goto, LocalsOK, HandlerMatches
  <2> QED BY <1>0, <2>1, <2>3, <2>4
<1>3. CASE WorkerMove(w)
  <2>1. PICK x \in todo[w] :
               /\ NextUp(w, x)
               /\ \/ TransitionReserved(w, x, "expired")
                  \/ /\ InventoryConflict(w, x, "expired")
                     /\ UNCHANGED <<ticketsW, ticketLock, resvW>>
               /\ todo' = [todo EXCEPT ![w] = @ \ {x}]
               /\ Goto(w, IF todo[w] = {x} THEN "w_commit" ELSE "w_move")
    BY <1>3 DEF WorkerMove
  <2>2. LocalsOK'
    <3>1. \A v \in Workers : todo'[v] \subseteq todo[v]
      BY <1>a, <2>1, WorkersApart DEF LocalsOK
    <3>2. todo' \in [Process -> SUBSET Nat]
      BY <1>a, <2>1 DEF LocalsOK
    <3>3. \A v \in Workers : todo'[v] \in SUBSET Requests
      BY <3>1 DEF LocalsOK
    <3> QED
      BY <1>3, <1>a, <2>1, <3>2, <3>3 DEF WorkerMove, Goto, LocalsOK, Label, WorkerLabels
  <2>3. HandlerMatches'
    BY <1>0, <1>a, <2>1 DEF Goto, LocalsOK, HandlerMatches
  <2>4. TablesOK'
    <3>1. CASE UNCHANGED <<ticketsW, ticketLock, resvW>>
      BY <1>3, <3>1 DEF WorkerMove, TablesOK
    <3>2. CASE TransitionReserved(w, x, "expired")
      <4>1. x \in Requests
        BY <2>1 DEF LocalsOK
      <4> QED BY <4>1, <1>3, <1>a, <3>2, TransitionTypes DEF WorkerMove, Status
    <3> QED BY <2>1, <3>1, <3>2
  <2> QED BY <1>0, <2>2, <2>3, <2>4
<1>4. CASE WorkerCommit(w)
  <2>1. LocalsOK'
    BY <1>4, <1>a DEF WorkerCommit, Goto, LocalsOK, Label, WorkerLabels
  <2>2. HandlerMatches'
    BY <1>0, <1>4, <1>a DEF WorkerCommit, Goto, LocalsOK, HandlerMatches
  <2> QED BY <1>0, <1>4, <2>1, <2>2, CommitTypes DEF WorkerCommit
<1> QED
  BY <1>1, <1>2, <1>3, <1>4 DEF ExpireBatch

\* A crash or a deadlock failure keeps the types.
LEMMA AbortTypes ==
  ASSUME TablesOK, LocalsOK, HandlerMatches, NEW p \in Process, Abort(p)
  PROVE  TablesOK' /\ LocalsOK' /\ HandlerMatches'
<1>1. TablesOK'
  BY RollbackTypes DEF Abort
<1>2. Answer("ERROR") \in Reply
  BY AnswerTypes DEF Code
<1>3. LocalsOK'
  BY <1>2 DEF Abort, Goto, LocalsOK, Process, Label, WorkerLabels
<1>4. HandlerMatches'
  BY DEF Abort, Goto, LocalsOK, HandlerMatches, Process,
     QuantityLabels, SeatsLabels, LifecycleLabels, GetLabels
<1> QED BY <1>1, <1>3, <1>4

\* An empty database and unanswered requests are well-typed.
LEMMA InitTypes == Init => TypeOK /\ HandlerMatches
<1> SUFFICES ASSUME Init PROVE TypeOK /\ HandlerMatches
  OBVIOUS
<1> DEFINE rows == [x \in Requests |-> NoRow]
           stock == [t \in TicketTypes |-> [reserved |-> 0, sold |-> 0]]
<1>1. req \in Workloads /\ InitWith(rows, stock)
  BY DEF Init
<1>2. rows \in [Requests -> Row] /\ stock \in [TicketTypes -> TicketRow]
  BY DEF NoRow, NoHold, Row, TicketRow
<1>3. TablesOK
  BY <1>1, <1>2 DEF InitWith, TablesOK
<1>4. ASSUME NEW r \in Requests
      PROVE  /\ pc[r] = Entry(req[r].op) /\ pc[r] \in Label
             /\ pc[r] \in QuantityLabels => req[r].op = "quantity"
             /\ pc[r] \in SeatsLabels => req[r].op = "seats"
             /\ pc[r] \in LifecycleLabels => req[r].op \in {"cancel", "confirm"}
             /\ pc[r] \in GetLabels => req[r].op = "get"
  <2>1. r \notin Workers /\ r \in Process
    BY StoreAssumption DEF Process
  <2>2. req[r] \in Payload
    BY <1>1, StoreAssumption DEF Payloads
  <2>3. req[r].op \in {"quantity", "seats", "get", "cancel", "confirm"}
    BY <2>2 DEF Payload, QuantityPayload, SeatsPayload, LifecyclePayload
  <2>4. pc[r] = Entry(req[r].op)
    BY <1>1, <2>1 DEF InitWith, NoRow, Status
  <2> QED
    BY <2>3, <2>4 DEF Entry, Label, QuantityLabels, SeatsLabels,
       LifecycleLabels, GetLabels
<1>5. pc \in [Process -> Label]
  BY <1>1, <1>4 DEF InitWith, Process, Label, WorkerLabels
<1>6. Answer("PENDING") \in Reply
  BY AnswerTypes DEF Code
<1>7. LocalsOK
  BY <1>1, <1>5, <1>6 DEF InitWith, LocalsOK, Status, Process
<1>8. EnvOK
  BY <1>1, StoreAssumption DEF InitWith, EnvOK
<1> QED
  BY <1>3, <1>4, <1>7, <1>8 DEF TypeOK, HandlerMatches

\* Every step of the system keeps the types.
LEMMA NextTypes ==
  ASSUME TypeOK, HandlerMatches, [Next]_vars
  PROVE  TypeOK' /\ HandlerMatches'
<1> USE DEF TypeOK
<1>1. ASSUME NEW r \in Requests, Serve(r)
      PROVE  TypeOK' /\ HandlerMatches'
  BY <1>1, QuantityTypes, SeatsTypes, LifecycleTypes DEF Serve
<1>2. ASSUME NEW w \in Workers, ExpireBatch(w)
      PROVE  TypeOK' /\ HandlerMatches'
  BY <1>2, WorkerTypes
<1>3. ASSUME NEW p \in Process, Crash(p)
      PROVE  TypeOK' /\ HandlerMatches'
  <2>1. EnvOK'
    BY <1>3, StoreAssumption DEF Crash, Abort, EnvOK
  <2> QED BY <1>3, <2>1, AbortTypes DEF Crash
<1>4. ASSUME NEW p \in Process, DeadlockVictim(p)
      PROVE  TypeOK' /\ HandlerMatches'
  <2>1. EnvOK'
    BY <1>4 DEF DeadlockVictim, Abort, EnvOK
  <2> QED BY <1>4, <2>1, AbortTypes DEF DeadlockVictim
<1>5. CASE Tick
  <2>1. EnvOK'
    BY <1>5, StoreAssumption DEF Tick, EnvOK
  <2> QED
    BY <1>5, <2>1 DEF Tick, tables, locals, TablesOK, LocalsOK, HandlerMatches
<1>6. CASE UNCHANGED vars
  BY <1>6 DEF vars, env, tables, locals, TablesOK, LocalsOK, EnvOK, HandlerMatches
<1>7. CASE AllAnswered
  BY <1>6, <1>7 DEF AllAnswered, vars
<1> QED
  BY <1>1, <1>2, <1>3, <1>4, <1>5, <1>6, <1>7 DEF Next

\* Every variable keeps its type, and every request runs the handler of its
\* payload, in every behaviour of the system.
THEOREM TypeInvariant == Spec => [](TypeOK /\ HandlerMatches)
<1>1. TypeOK /\ HandlerMatches /\ [Next]_vars => (TypeOK /\ HandlerMatches)'
  BY NextTypes
<1> QED
  BY <1>1, InitTypes, PTL DEF Spec

\* Tables, handler states and answers stay within the values the code gives
\* them: stock counters are naturals, statuses those of the enum.
THEOREM TypeCorrect == Spec => []TypeOK
BY TypeInvariant, PTL

-----------------------------------------------------------------------------
(* Counting the units of item rows *)

\* Finitely many units are held or sold.
LEMMA UnitsFinite ==
  ASSUME NEW rows, NEW t, NEW st
  PROVE  IsFiniteSet(Units(rows, t, st)) /\ Cardinality(Units(rows, t, st)) \in Nat
<1>1. IsFiniteSet(Requests) /\ MaxQuantity \in Nat
  BY StoreAssumption
<1>2. IsFiniteSet(1..MaxQuantity)
  BY <1>1, FS_Interval
<1>3. IsFiniteSet(Requests \X (1..MaxQuantity))
  BY <1>1, <1>2, FS_Product
<1>4. Units(rows, t, st) \subseteq Requests \X (1..MaxQuantity)
  BY DEF Units
<1> QED
  BY <1>3, <1>4, FS_Subset, FS_CardinalityType

\* Units sees nothing of the rows but which items have the status.
LEMMA UnitsEqual ==
  ASSUME NEW A, NEW B, NEW t, NEW st,
         \A y \in Requests : req[y].op = "quantity" /\ req[y].ticket = t =>
                               (A[y].item = st <=> B[y].item = st)
  PROVE  Units(A, t, st) = Units(B, t, st)
BY DEF Units

Enters(A, B, x, st) ==
  /\ A[x].item # st /\ B[x].item = st
  /\ \A y \in Requests \ {x} : A[y].item = B[y].item

\* An item that enters a status brings its quantity.
LEMMA OneItem ==
  ASSUME req \in Payloads, NEW x \in Requests, req[x].op = "quantity",
         NEW A, NEW B, NEW st, Enters(A, B, x, st)
  PROVE  Cardinality(Units(B, req[x].ticket, st))
           = Cardinality(Units(A, req[x].ticket, st)) + req[x].quantity
<1> DEFINE t == req[x].ticket
           q == req[x].quantity
           I == {x} \X (1..q)
<1> USE DEF Enters
<1>1. q \in Nat /\ q \in 1..MaxQuantity /\ MaxQuantity \in Nat
  BY PayloadFields, StoreAssumption
<1>2. IsFiniteSet({x}) /\ Cardinality({x}) = 1
  BY FS_Singleton
<1>3. IsFiniteSet(1..q) /\ Cardinality(1..q) = q
  <2>1. 1 \in Int /\ q \in Int
    BY <1>1
  <2>2. IsFiniteSet(1..q) /\ Cardinality(1..q) = IF 1 > q THEN 0 ELSE q - 1 + 1
    BY <2>1, FS_Interval
  <2>3. (IF 1 > q THEN 0 ELSE q - 1 + 1) = q
    BY <1>1
  <2> QED BY <2>2, <2>3
<1>4. IsFiniteSet(I) /\ Cardinality(I) = q
  <2>1. ASSUME NEW S, IsFiniteSet(S), NEW T, IsFiniteSet(T)
        PROVE  /\ IsFiniteSet(S \X T)
               /\ Cardinality(S \X T) = Cardinality(S) * Cardinality(T)
    BY ONLY <2>1, FS_Product
  <2>2. IsFiniteSet(I) /\ Cardinality(I) = Cardinality({x}) * Cardinality(1..q)
    BY ONLY <1>2, <1>3, <2>1, Zenon
  <2>3. Cardinality(I) = 1 * q
    BY ONLY <1>2, <1>3, <2>2, Zenon
  <2>4. 1 * q = q
    BY ONLY <1>1
  <2> QED BY ONLY <2>2, <2>3, <2>4, Zenon
<1>5. Units(B, t, st) = Units(A, t, st) \cup I
  <2>1. ASSUME NEW u \in Units(B, t, st) PROVE u \in Units(A, t, st) \cup I
    BY <1>1, <2>1 DEF Units
  <2>2. ASSUME NEW u \in Units(A, t, st) PROVE u \in Units(B, t, st)
    BY <2>2 DEF Units
  <2>3. ASSUME NEW u \in I PROVE u \in Units(B, t, st)
    BY <1>1, <2>3 DEF Units
  <2> QED BY <2>1, <2>2, <2>3
<1>6. Units(A, t, st) \cap I = {}
  BY DEF Units
<1>7. IsFiniteSet(Units(A, t, st)) /\ Cardinality(Units(A, t, st)) \in Nat
  BY UnitsFinite
<1>8. Cardinality(Units(A, t, st) \cap I) = 0
  BY <1>6, FS_EmptySet
<1>9. Cardinality(Units(A, t, st) \cup I) = Cardinality(Units(A, t, st)) + q - 0
  <2> HIDE DEF I, q, t
  <2> QED BY <1>4, <1>7, <1>8, FS_Union
<1> QED
  BY <1>1, <1>5, <1>7, <1>9

-----------------------------------------------------------------------------
(* What each kind of step does to the inductive invariant *)

Inv == TypeOK /\ StockInv

\* The processes other than p stay where they are.
Alone(p) == \A q \in Process \ {p} : pc'[q] = pc[q] /\ todo'[q] = todo[q]

\* p is not about to insert an item into stock it has taken, and does not go
\* back to before its insert.
Moves(p) == /\ pc[p] # "q_insert" /\ pc'[p] # "q_insert"
            /\ pc'[p] \in BeforeInsert => pc[p] \in BeforeInsert

\* Where p is allowed to arrive.
Arrives(p) ==
  /\ p \in Requests /\ pc'[p] = "s_holds" => resvLock'[p] = p
  /\ p \in Requests /\ pc'[p] = "l_move" =>
       /\ resvLock'[req[p].target] = p
       /\ resv[req[p].target].status = "reserved" /\ goal'[p] # "reserved"
  /\ p \in Workers /\ pc'[p] = "w_move" => \A x \in todo'[p] :
       x \in Requests /\ resvLock'[x] = p /\ resv[x].status = "reserved"

OthersGoal(p) == \A r \in Requests \ {p} : goal'[r] = goal[r]

\* Row locks that matter to somebody stay where they are.
KeepsLocks(p) ==
  \A x \in Requests :
    /\ resvW[x].item # resv[x].item => resvLock'[x] = resvLock[x]
    /\ (x # p \/ resv[x].status = "reserved") /\ resvLock[x] \notin {None, p}
         => resvLock'[x] = resvLock[x]
    /\ resvLock'[x] = None => resvLock[x] = None /\ resvW'[x] = resvW[x]

\* A step of p that leaves stock and items alone.
LEMMA FrameStep ==
  ASSUME Inv, HandlerMatches', UNCHANGED req, NEW p \in Process,
         UNCHANGED <<tickets, ticketsW, ticketLock, resv>>,
         \A x \in Requests : /\ resvW'[x].item = resvW[x].item
                             /\ \/ resvW'[x].status = resvW[x].status
                                \/ pc'[x] \notin BeforeInsert,
         Alone(p), Moves(p), Arrives(p), OthersGoal(p), KeepsLocks(p)
  PROVE  StockInv'
<1> USE DEF Inv, StockInv
<1>1. UnlockedIsCommitted'
  BY DEF UnlockedIsCommitted, KeepsLocks
<1>2. NotYetInserted'
  BY DEF NotYetInserted, Alone, Moves, Process
<1>3. LocksHeld'
  <2>1. ASSUME NEW r \in Requests, pc'[r] = "q_insert"
        PROVE  ticketLock'[req'[r].ticket] = r
    BY <2>1 DEF LocksHeld, Alone, Moves, Process
  <2>2. ASSUME NEW r \in Requests, pc'[r] = "l_move"
        PROVE  /\ resvLock'[req'[r].target] = r
               /\ resv'[req'[r].target].status = "reserved" /\ goal'[r] # "reserved"
    <3>1. CASE r = p
      BY <2>2, <3>1 DEF Arrives
    <3>2. CASE r # p
      <4>1. pc[r] = "l_move" /\ goal'[r] = goal[r]
        BY <2>2, <3>2 DEF Alone, OthersGoal, Process
      <4>2. req[r].op \in {"cancel", "confirm"} /\ req \in Payloads
        BY <4>1 DEF HandlerMatches, LifecycleLabels, TypeOK, EnvOK
      <4>3. req[r].target \in Requests
        BY <4>2, PayloadFields
      <4>4. None # r
        BY StoreAssumption DEF Process
      <4> QED BY <3>2, <4>1, <4>3, <4>4 DEF LocksHeld, KeepsLocks
    <3> QED BY <3>1, <3>2
  <2>3. ASSUME NEW w \in Workers, pc'[w] = "w_move", NEW x \in todo'[w]
        PROVE  x \in Requests /\ resvLock'[x] = w /\ resv'[x].status = "reserved"
    <3>1. CASE w = p
      BY <2>3, <3>1 DEF Arrives
    <3>2. CASE w # p
      <4>1. pc[w] = "w_move" /\ x \in todo[w] /\ w # None
        BY <2>3, <3>2, StoreAssumption DEF Alone, Process
      <4> QED BY <3>2, <4>1 DEF LocksHeld, KeepsLocks
    <3> QED BY <3>1, <3>2
  <2>4. ASSUME NEW r \in Requests, pc'[r] = "s_holds" PROVE resvLock'[r] = r
    BY <2>4, StoreAssumption DEF LocksHeld, Arrives, Alone, KeepsLocks, Process
  <2> QED BY <2>1, <2>2, <2>3, <2>4 DEF LocksHeld
<1>4. OneWriter'
  BY DEF OneWriter, KeepsLocks
<1>5. \A t \in TicketTypes : Uninserted(t)' = Uninserted(t)
  BY DEF Uninserted, Alone, Moves, Process
<1>6. \A t, st : Units(resvW, t, st)' = Units(resvW, t, st)
  <2>1. \A t, st : Units(resvW', t, st) = Units(resvW, t, st)
    BY DEF Units
  <2> QED BY <2>1 DEF Units
<1>7. WorkAccounting'
  BY <1>5, <1>6 DEF WorkAccounting
<1>8. StockAccounting'
  <2>1. \A t, st : Units(resv, t, st)' = Units(resv, t, st)
    BY DEF Units
  <2> QED BY <2>1 DEF StockAccounting
<1> QED
  BY <1>1, <1>2, <1>3, <1>4, <1>7, <1>8

\* What p has written is published: stock and items of one ticket type are
\* locked by p together or not at all.
LEMMA CommitStep ==
  ASSUME Inv, HandlerMatches', UNCHANGED req, NEW p \in Process,
         Commit(p), Alone(p), OthersGoal(p), pc[p] # "q_insert",
         pc'[p] \notin BeforeInsert \cup {"s_holds", "l_move", "w_move"}
  PROVE  StockInv'
<1> USE DEF Inv, StockInv
<1>0. p # None /\ "q_insert" \in BeforeInsert
  BY StoreAssumption DEF BeforeInsert
<1>1. UnlockedIsCommitted'
  BY DEF UnlockedIsCommitted, Commit, Unlock
<1>2. NotYetInserted'
  BY DEF NotYetInserted, Commit, Alone, Process, TypeOK, TablesOK
<1>3. LocksHeld'
  <2>1. ASSUME NEW r \in Requests, pc'[r] = "q_insert"
        PROVE  ticketLock'[req'[r].ticket] = r
    <3>1. r # p /\ pc[r] = "q_insert"
      BY <1>0, <2>1 DEF Alone, Process
    <3>2. req[r].op = "quantity" /\ req \in Payloads
      BY <3>1 DEF HandlerMatches, QuantityLabels, TypeOK, EnvOK
    <3>3. req[r].ticket \in TicketTypes
      BY <3>2, PayloadFields
    <3> QED BY <3>1, <3>3 DEF LocksHeld, Commit, Unlock
  <2>2. ASSUME NEW r \in Requests, pc'[r] = "l_move"
        PROVE  /\ resvLock'[req'[r].target] = r
               /\ resv'[req'[r].target].status = "reserved" /\ goal'[r] # "reserved"
    <3>1. r # p /\ pc[r] = "l_move" /\ goal'[r] = goal[r]
      BY <2>2 DEF Alone, OthersGoal, Process
    <3>2. req[r].op \in {"cancel", "confirm"} /\ req \in Payloads
      BY <3>1 DEF HandlerMatches, LifecycleLabels, TypeOK, EnvOK
    <3>3. req[r].target \in Requests
      BY <3>2, PayloadFields
    <3> QED BY <3>1, <3>3 DEF LocksHeld, Commit, Unlock
  <2>3. ASSUME NEW w \in Workers, pc'[w] = "w_move", NEW x \in todo'[w]
        PROVE  x \in Requests /\ resvLock'[x] = w /\ resv'[x].status = "reserved"
    <3>1. w # p /\ pc[w] = "w_move" /\ x \in todo[w]
      BY <2>3 DEF Alone, Process
    <3> QED BY <3>1 DEF LocksHeld, Commit, Unlock
  <2>4. ASSUME NEW r \in Requests, pc'[r] = "s_holds" PROVE resvLock'[r] = r
    BY <2>4 DEF LocksHeld, Alone, Process, Commit, Unlock
  <2> QED BY <2>1, <2>2, <2>3, <2>4 DEF LocksHeld
<1>4. OneWriter'
  <2>1. ASSUME NEW x \in Requests, req[x].op = "quantity", resvW'[x].item # resv'[x].item
        PROVE  ticketLock'[req[x].ticket] = resvLock'[x]
    <3>1. req[x].ticket \in TicketTypes
      BY <2>1, PayloadFields DEF TypeOK, EnvOK
    <3>2. resvLock[x] # p /\ resvW[x].item # resv[x].item
      BY <2>1 DEF Commit
    <3> QED BY <2>1, <3>1, <3>2 DEF OneWriter, Commit, Unlock
  <2> QED BY <2>1 DEF OneWriter
<1>5. \A t \in TicketTypes : Uninserted(t)' = Uninserted(t)
  BY <1>0, StoreAssumption DEF Uninserted, Alone, Process, Commit, Unlock
<1>6. \A t, st : Units(resvW, t, st)' = Units(resvW, t, st)
  BY DEF Units, Commit
<1>7. WorkAccounting'
  BY <1>5, <1>6 DEF WorkAccounting, Commit
<1>8. StockAccounting'
  <2> SUFFICES ASSUME NEW t \in TicketTypes
               PROVE  /\ tickets'[t].reserved = Cardinality(Units(resv', t, "reserved"))
                      /\ tickets'[t].sold = Cardinality(Units(resv', t, "confirmed"))
    BY DEF StockAccounting, Units
  <2>1. CASE ticketLock[t] = p
    <3>1. \A y \in Requests : req[y].op = "quantity" /\ req[y].ticket = t =>
                                resv'[y].item = resvW[y].item
      BY <2>1 DEF OneWriter, Commit
    <3>2. \A st : Units(resv', t, st) = Units(resvW, t, st)
      BY <3>1, UnitsEqual
    <3>3. Uninserted(t) = 0 /\ tickets'[t] = ticketsW[t]
      BY <2>1 DEF Uninserted, Commit
    <3>4. Cardinality(Units(resvW, t, "reserved")) \in Nat
      BY UnitsFinite
    <3> QED BY <3>2, <3>3, <3>4 DEF WorkAccounting
  <2>2. CASE ticketLock[t] # p
    <3>1. \A y \in Requests : req[y].op = "quantity" /\ req[y].ticket = t =>
                                resv'[y].item = resv[y].item
      BY <2>2 DEF OneWriter, Commit
    <3>2. \A st : Units(resv', t, st) = Units(resv, t, st)
      BY <3>1, UnitsEqual
    <3>3. tickets'[t] = tickets[t]
      BY <2>2 DEF Commit
    <3> QED BY <3>2, <3>3 DEF StockAccounting
  <2> QED BY <2>1, <2>2
<1> QED
  BY <1>1, <1>2, <1>3, <1>4, <1>7, <1>8

\* What p has written is forgotten.
LEMMA RollbackStep ==
  ASSUME Inv, HandlerMatches', UNCHANGED req, NEW p \in Process,
         Rollback(p), Alone(p), OthersGoal(p),
         pc'[p] \notin BeforeInsert \cup {"s_holds", "l_move", "w_move"}
  PROVE  StockInv'
<1> USE DEF Inv, StockInv
<1>0. p # None /\ "q_insert" \in BeforeInsert
  BY StoreAssumption DEF BeforeInsert
<1>1. UnlockedIsCommitted'
  BY DEF UnlockedIsCommitted, Rollback, Unlock
<1>2. NotYetInserted'
  BY DEF NotYetInserted, Rollback, Alone, Process, TypeOK, TablesOK
<1>3. LocksHeld'
  <2>1. ASSUME NEW r \in Requests, pc'[r] = "q_insert"
        PROVE  ticketLock'[req'[r].ticket] = r
    <3>1. r # p /\ pc[r] = "q_insert"
      BY <1>0, <2>1 DEF Alone, Process
    <3>2. req[r].op = "quantity" /\ req \in Payloads
      BY <3>1 DEF HandlerMatches, QuantityLabels, TypeOK, EnvOK
    <3>3. req[r].ticket \in TicketTypes
      BY <3>2, PayloadFields
    <3> QED BY <3>1, <3>3 DEF LocksHeld, Rollback, Unlock
  <2>2. ASSUME NEW r \in Requests, pc'[r] = "l_move"
        PROVE  /\ resvLock'[req'[r].target] = r
               /\ resv'[req'[r].target].status = "reserved" /\ goal'[r] # "reserved"
    <3>1. r # p /\ pc[r] = "l_move" /\ goal'[r] = goal[r]
      BY <2>2 DEF Alone, OthersGoal, Process
    <3>2. req[r].op \in {"cancel", "confirm"} /\ req \in Payloads
      BY <3>1 DEF HandlerMatches, LifecycleLabels, TypeOK, EnvOK
    <3>3. req[r].target \in Requests
      BY <3>2, PayloadFields
    <3> QED BY <3>1, <3>3 DEF LocksHeld, Rollback, Unlock
  <2>3. ASSUME NEW w \in Workers, pc'[w] = "w_move", NEW x \in todo'[w]
        PROVE  x \in Requests /\ resvLock'[x] = w /\ resv'[x].status = "reserved"
    <3>1. w # p /\ pc[w] = "w_move" /\ x \in todo[w]
      BY <2>3 DEF Alone, Process
    <3> QED BY <3>1 DEF LocksHeld, Rollback, Unlock
  <2>4. ASSUME NEW r \in Requests, pc'[r] = "s_holds" PROVE resvLock'[r] = r
    BY <2>4 DEF LocksHeld, Alone, Process, Rollback, Unlock
  <2> QED BY <2>1, <2>2, <2>3, <2>4 DEF LocksHeld
<1>4. OneWriter'
  <2>1. ASSUME NEW x \in Requests, req[x].op = "quantity", resvW'[x].item # resv'[x].item
        PROVE  ticketLock'[req[x].ticket] = resvLock'[x]
    <3>1. req[x].ticket \in TicketTypes
      BY <2>1, PayloadFields DEF TypeOK, EnvOK
    <3>2. resvLock[x] # p /\ resvW[x].item # resv[x].item
      BY <2>1 DEF Rollback
    <3> QED BY <2>1, <3>1, <3>2 DEF OneWriter, Rollback, Unlock
  <2> QED BY <2>1 DEF OneWriter
<1>5. WorkAccounting'
  <2> SUFFICES ASSUME NEW t \in TicketTypes
               PROVE  /\ ticketsW'[t].reserved
                           = Cardinality(Units(resvW', t, "reserved")) + Uninserted(t)'
                      /\ ticketsW'[t].sold = Cardinality(Units(resvW', t, "confirmed"))
    <3>1. \A t, st : Units(resvW, t, st)' = Units(resvW', t, st)
      BY DEF Units
    <3> QED BY <3>1 DEF WorkAccounting
  <2>1. CASE ticketLock[t] = p
    <3>1. \A y \in Requests : req[y].op = "quantity" /\ req[y].ticket = t =>
                                resvW'[y].item = resv[y].item
      BY <2>1 DEF OneWriter, Rollback
    <3>2. \A st : Units(resvW', t, st) = Units(resv, t, st)
      BY <3>1, UnitsEqual
    <3>3. Uninserted(t)' = 0 /\ ticketsW'[t] = tickets[t]
      BY <2>1, StoreAssumption DEF Uninserted, Rollback, Unlock, Process
    <3>4. Cardinality(Units(resv, t, "reserved")) \in Nat
      BY UnitsFinite
    <3> QED BY <3>2, <3>3, <3>4 DEF StockAccounting
  <2>2. CASE ticketLock[t] # p
    <3>1. \A y \in Requests : req[y].op = "quantity" /\ req[y].ticket = t =>
                                resvW'[y].item = resvW[y].item
      BY <2>2 DEF OneWriter, Rollback
    <3>2. \A st : Units(resvW', t, st) = Units(resvW, t, st)
      BY <3>1, UnitsEqual
    <3>3. Uninserted(t)' = Uninserted(t) /\ ticketsW'[t] = ticketsW[t]
      BY <2>2 DEF Uninserted, Rollback, Unlock, Alone, Process
    <3> QED BY <3>2, <3>3 DEF WorkAccounting
  <2> QED BY <2>1, <2>2
<1>6. StockAccounting'
  <2>1. \A t, st : Units(resv, t, st)' = Units(resv, t, st)
    BY DEF Units, Rollback
  <2> QED BY <2>1 DEF StockAccounting, Rollback
<1> QED
  BY <1>1, <1>2, <1>3, <1>4, <1>5, <1>6

\* The guarded UPDATE counts units whose item is inserted next.
LEMMA StockStep ==
  ASSUME Inv, HandlerMatches', NEW r \in Requests, QuantityStock(r)
  PROVE  StockInv'
<1> USE DEF Inv, StockInv
<1> DEFINE t == req[r].ticket
           q == req[r].quantity
<1>0. UNCHANGED req /\ r # None /\ r \in Process
  BY StoreAssumption DEF QuantityStock, env, Process
<1>1. t \in TicketTypes /\ q \in Nat /\ pc[r] = "q_stock"
  BY PayloadFields DEF QuantityStock, HandlerMatches, QuantityLabels, TypeOK, EnvOK
<1>2. pc' = [pc EXCEPT ![r] = "q_insert"] /\ pc \in [Process -> Label]
  BY DEF QuantityStock, Goto, TypeOK, LocalsOK
<1>3. /\ ticketsW[t] \in TicketRow
      /\ ticketsW' = [ticketsW EXCEPT ![t] = AddReserved(ticketsW[t], q)]
      /\ ticketLock' = [ticketLock EXCEPT ![t] = r]
      /\ ticketsW \in [TicketTypes -> TicketRow]
      /\ DOMAIN ticketLock = TicketTypes
      /\ ticketLock[t] \in {None, r}
  BY <1>1 DEF QuantityStock, SetTicket, Free, TypeOK, TablesOK
<1>4. UNCHANGED <<tickets, resv, resvW, resvLock, todo, goal>>
  BY DEF QuantityStock
<1>5. UnlockedIsCommitted'
  BY <1>0, <1>1, <1>3, <1>4 DEF UnlockedIsCommitted
<1>6. NotYetInserted'
  BY <1>0, <1>1, <1>2, <1>4 DEF NotYetInserted, BeforeInsert, Process
<1>7. LocksHeld'
  <2>1. ASSUME NEW z \in Requests, pc'[z] = "q_insert"
        PROVE  ticketLock'[req'[z].ticket] = z
    <3>1. CASE z = r
      BY <1>0, <1>1, <1>3, <3>1
    <3>2. CASE z # r
      <4>1. pc[z] = "q_insert" /\ z # None
        BY <1>2, <2>1, <3>2, StoreAssumption DEF Process
      <4>2. ticketLock[req[z].ticket] = z
        BY <4>1 DEF LocksHeld
      <4> QED BY <1>0, <1>3, <3>2, <4>1, <4>2
    <3> QED BY <3>1, <3>2
  <2>2. \A z \in Requests : pc'[z] = "l_move" => pc[z] = "l_move"
    BY <1>2 DEF Process
  <2>3. \A w \in Workers : pc'[w] = "w_move" => pc[w] = "w_move"
    BY <1>2 DEF Process
  <2>4. \A z \in Requests : pc'[z] = "s_holds" => pc[z] = "s_holds"
    BY <1>2 DEF Process
  <2> QED BY <1>0, <1>4, <2>1, <2>2, <2>3, <2>4 DEF LocksHeld
<1>8. OneWriter'
  <2>1. ASSUME NEW x \in Requests, req[x].op = "quantity", resvW[x].item # resv[x].item
        PROVE  ticketLock'[req[x].ticket] = resvLock[x]
    <3>1. ticketLock[req[x].ticket] = resvLock[x] /\ resvLock[x] # None
      BY <2>1 DEF OneWriter, UnlockedIsCommitted
    <3> QED BY <1>3, <3>1
  <2> QED BY <1>0, <1>4, <2>1 DEF OneWriter
<1>9. WorkAccounting'
  <2>1. \A u, st : Units(resvW, u, st)' = Units(resvW, u, st)
    BY <1>0, <1>4 DEF Units
  <2>2. Uninserted(t) = 0
    BY <1>1, <1>3, StoreAssumption DEF Uninserted, Process
  <2>3. ASSUME NEW u \in TicketTypes, u = t PROVE Uninserted(u)' = q
    BY <1>0, <1>1, <1>2, <1>3, <2>3 DEF Uninserted
  <2>4. ASSUME NEW u \in TicketTypes \ {t} PROVE Uninserted(u)' = Uninserted(u)
    <3>1. ticketLock'[u] = ticketLock[u]
      BY <1>3, <2>4
    <3>2. CASE ticketLock[u] = r
      BY <1>0, <1>1, <2>4, <3>1, <3>2 DEF Uninserted
    <3>3. CASE ticketLock[u] # r
      BY <1>0, <1>2, <3>1, <3>3 DEF Uninserted, Process
    <3> QED BY <3>2, <3>3
  <2>5. /\ ticketsW'[t].reserved = ticketsW[t].reserved + q
        /\ ticketsW'[t].sold = ticketsW[t].sold
    BY <1>1, <1>3 DEF AddReserved, TicketRow
  <2>6. \A u \in TicketTypes \ {t} : ticketsW'[u] = ticketsW[u]
    BY <1>3
  <2>7. /\ ticketsW'[t].reserved = Cardinality(Units(resvW, t, "reserved")) + q
        /\ ticketsW'[t].sold = Cardinality(Units(resvW, t, "confirmed"))
    BY <1>1, <2>2, <2>5, UnitsFinite DEF WorkAccounting
  <2>8. ASSUME NEW u \in TicketTypes
        PROVE  /\ ticketsW'[u].reserved
                    = Cardinality(Units(resvW, u, "reserved")) + Uninserted(u)'
               /\ ticketsW'[u].sold = Cardinality(Units(resvW, u, "confirmed"))
    <3>1. CASE u = t
      BY <2>3, <2>7, <3>1
    <3>2. CASE u # t
      BY <2>4, <2>6, <3>2 DEF WorkAccounting
    <3> QED BY <3>1, <3>2
  <2> QED BY <2>1, <2>8 DEF WorkAccounting
<1>10. StockAccounting'
  <2>1. \A u, st : Units(resv, u, st)' = Units(resv, u, st)
    BY <1>0, <1>4 DEF Units
  <2> QED BY <1>4, <2>1 DEF StockAccounting
<1> QED
  BY <1>5, <1>6, <1>7, <1>8, <1>9, <1>10

\* The insert that follows turns the counted units into a reserved item.
LEMMA InsertStep ==
  ASSUME Inv, HandlerMatches', NEW r \in Requests, QuantityInsert(r), ~ Rollback(r)
  PROVE  StockInv'
<1> USE DEF Inv, StockInv
<1> DEFINE t == req[r].ticket
           q == req[r].quantity
<1>0. UNCHANGED req /\ r # None /\ r \in Process
  BY StoreAssumption DEF QuantityInsert, env, Process
<1>1. /\ req[r].op = "quantity" /\ req \in Payloads
      /\ t \in TicketTypes /\ q \in Nat /\ pc[r] = "q_insert"
  BY PayloadFields DEF QuantityInsert, HandlerMatches, QuantityLabels, TypeOK, EnvOK
<1>2. pc' = [pc EXCEPT ![r] = "q_commit"] /\ pc \in [Process -> Label]
  BY DEF QuantityInsert, Goto, TypeOK, LocalsOK
<1>3. /\ \A x \in Requests \ {r} : resvW'[x] = resvW[x] /\ resvLock'[x] = resvLock[x]
      /\ resvW'[r].item = "reserved" /\ resvLock'[r] = r
  BY DEF QuantityInsert, InsertReservation, TypeOK, TablesOK
<1>4. UNCHANGED <<tickets, ticketsW, ticketLock, resv, todo, goal>>
  BY DEF QuantityInsert
<1>5. resvW[r].item = Absent /\ resv[r].item = Absent /\ resv[r].status = Absent
  BY <1>1 DEF NotYetInserted, BeforeInsert
<1>6. ticketLock[t] = r
  BY <1>1 DEF LocksHeld
<1>7. UnlockedIsCommitted'
  BY <1>0, <1>3, <1>4 DEF UnlockedIsCommitted
<1>8. NotYetInserted'
  BY <1>2, <1>3, <1>4 DEF NotYetInserted, BeforeInsert, Process
<1>9. LocksHeld'
  <2>1. ASSUME NEW z \in Requests
        PROVE  /\ pc'[z] = "q_insert" => pc[z] = "q_insert"
               /\ pc'[z] = "l_move" => pc[z] = "l_move"
               /\ pc'[z] = "s_holds" => pc[z] = "s_holds" /\ z # r
    BY <1>1, <1>2 DEF Process
  <2>2. \A w \in Workers : pc'[w] = "w_move" => pc[w] = "w_move"
    BY <1>2 DEF Process
  <2>3. \A x \in Requests : resv[x].status = "reserved" => resvLock'[x] = resvLock[x]
    BY <1>3, <1>5 DEF Absent
  <2>4. \A z \in Requests : pc[z] = "l_move" => req[z].target \in Requests
    BY PayloadFields DEF HandlerMatches, LifecycleLabels, TypeOK, EnvOK
  <2> QED BY <1>0, <1>3, <1>4, <2>1, <2>2, <2>3, <2>4 DEF LocksHeld
<1>10. OneWriter'
  BY <1>0, <1>3, <1>4, <1>6 DEF OneWriter
<1>11. WorkAccounting'
  <2>1. \A u, st : Units(resvW, u, st)' = Units(resvW', u, st)
    BY <1>0 DEF Units
  <2>2. Uninserted(t) = q
    BY <1>1, <1>6 DEF Uninserted
  <2>3. ASSUME NEW u \in TicketTypes, u = t PROVE Uninserted(u)' = 0
    BY <1>0, <1>2, <1>4, <1>6, <2>3 DEF Uninserted
  <2>4. ASSUME NEW u \in TicketTypes \ {t} PROVE Uninserted(u)' = Uninserted(u)
    <3>1. CASE ticketLock[u] = r
      BY <1>0, <1>4, <3>1, <2>4 DEF Uninserted
    <3>2. CASE ticketLock[u] # r
      BY <1>0, <1>2, <1>4, <3>2 DEF Uninserted, Process
    <3> QED BY <3>1, <3>2
  <2>5. Cardinality(Units(resvW', t, "reserved"))
          = Cardinality(Units(resvW, t, "reserved")) + q
    <3>1. Enters(resvW, resvW', r, "reserved")
      BY <1>1, <1>3, <1>5 DEF Enters, Absent
    <3> QED BY <1>1, <3>1, OneItem
  <2>6. Units(resvW', t, "confirmed") = Units(resvW, t, "confirmed")
    BY <1>3, <1>5, UnitsEqual DEF Absent
  <2>7. ASSUME NEW u \in TicketTypes \ {t}, NEW st
        PROVE  Units(resvW', u, st) = Units(resvW, u, st)
    BY <1>3, <2>7, UnitsEqual
  <2>8. /\ ticketsW[t].reserved = Cardinality(Units(resvW', t, "reserved")) + 0
        /\ ticketsW[t].sold = Cardinality(Units(resvW', t, "confirmed"))
    BY <1>1, <2>2, <2>5, <2>6, UnitsFinite DEF WorkAccounting
  <2>9. ASSUME NEW u \in TicketTypes
        PROVE  /\ ticketsW[u].reserved
                    = Cardinality(Units(resvW', u, "reserved")) + Uninserted(u)'
               /\ ticketsW[u].sold = Cardinality(Units(resvW', u, "confirmed"))
    <3>1. CASE u = t
      BY <2>3, <2>8, <3>1
    <3>2. CASE u # t
      BY <2>4, <2>7, <3>2 DEF WorkAccounting
    <3> QED BY <3>1, <3>2
  <2> QED BY <1>4, <2>1, <2>9 DEF WorkAccounting
<1>12. StockAccounting'
  <2>1. \A u, st : Units(resv, u, st)' = Units(resv, u, st)
    BY <1>0, <1>4 DEF Units
  <2> QED BY <1>4, <2>1 DEF StockAccounting
<1> QED
  BY <1>7, <1>8, <1>9, <1>10, <1>11, <1>12

\* Cancelling, confirming or expiring an item moves its units out of reserved
\* in the stock row and in the item row at once.
LEMMA TransitionStep ==
  ASSUME Inv, HandlerMatches', UNCHANGED <<req, tickets, resv, resvLock>>,
         NEW p \in Process, NEW x \in Requests, NEW target \in Status \ {"reserved"},
         TransitionQuantity(p, x, target),
         resvLock[x] = p, resv[x].status = "reserved",
         Alone(p), OthersGoal(p), Arrives(p),
         pc[p] # "q_insert", pc'[p] \notin BeforeInsert
  PROVE  StockInv'
<1> USE DEF Inv, StockInv
<1> DEFINE t == req[x].ticket
           q == req[x].quantity
<1>0. p # None /\ "q_insert" \in BeforeInsert
  BY StoreAssumption DEF BeforeInsert
<1>1. /\ req[x].op = "quantity" /\ req \in Payloads
      /\ t \in TicketTypes /\ q \in Nat
      /\ resvW[x].item = "reserved" /\ ticketLock[t] \in {None, p}
  BY PayloadFields DEF TransitionQuantity, Free, TypeOK, EnvOK
<1>2. /\ ticketsW[t] \in TicketRow /\ ticketsW[t].reserved >= q
      /\ ticketsW' = [ticketsW EXCEPT ![t] = MoveReserved(ticketsW[t], q, target)]
      /\ ticketLock' = [ticketLock EXCEPT ![t] = p]
      /\ ticketsW \in [TicketTypes -> TicketRow]
      /\ DOMAIN ticketLock = TicketTypes
  BY <1>1 DEF TransitionQuantity, SetTicket, CanMove, TypeOK, TablesOK
<1>3. /\ \A y \in Requests \ {x} : resvW'[y] = resvW[y]
      /\ resvW'[x].item = target /\ resvW'[x].status = target
  BY DEF TransitionQuantity, TypeOK, TablesOK, Row
<1>4. pc[x] \notin BeforeInsert /\ pc'[x] \notin BeforeInsert
  BY DEF NotYetInserted, Alone, Process, Absent
<1>5. UnlockedIsCommitted'
  BY <1>0, <1>2, <1>3 DEF UnlockedIsCommitted
<1>6. NotYetInserted'
  BY <1>3, <1>4 DEF NotYetInserted, Alone, Process
<1>7. LocksHeld'
  <2>1. ASSUME NEW z \in Requests, pc'[z] = "q_insert"
        PROVE  ticketLock'[req'[z].ticket] = z
    <3>1. z # p /\ pc[z] = "q_insert"
      BY <1>0, <2>1 DEF Alone, Process
    <3>2. ticketLock[req[z].ticket] = z /\ z # None
      BY <3>1, StoreAssumption DEF LocksHeld, Process
    <3> QED BY <1>1, <1>2, <3>1, <3>2
  <2>2. ASSUME NEW z \in Requests, pc'[z] = "l_move"
        PROVE  /\ resvLock'[req'[z].target] = z
               /\ resv'[req'[z].target].status = "reserved" /\ goal'[z] # "reserved"
    BY <2>2 DEF LocksHeld, Arrives, Alone, OthersGoal, Process
  <2>3. ASSUME NEW w \in Workers, pc'[w] = "w_move", NEW y \in todo'[w]
        PROVE  y \in Requests /\ resvLock'[y] = w /\ resv'[y].status = "reserved"
    BY <2>3 DEF LocksHeld, Arrives, Alone, Process
  <2>4. ASSUME NEW r \in Requests, pc'[r] = "s_holds" PROVE resvLock'[r] = r
    BY <2>4 DEF LocksHeld, Arrives, Alone, Process
  <2> QED BY <2>1, <2>2, <2>3, <2>4 DEF LocksHeld
<1>8. OneWriter'
  <2>1. ASSUME NEW y \in Requests, req[y].op = "quantity", resvW'[y].item # resv[y].item
        PROVE  ticketLock'[req[y].ticket] = resvLock[y]
    <3>1. CASE y = x
      BY <1>1, <1>2, <3>1
    <3>2. CASE y # x
      <4>1. resvW[y].item # resv[y].item
        BY <1>3, <2>1, <3>2
      <4>2. ticketLock[req[y].ticket] = resvLock[y] /\ resvLock[y] # None
        BY <2>1, <4>1 DEF OneWriter, UnlockedIsCommitted
      <4> QED BY <1>1, <1>2, <4>2
    <3> QED BY <3>1, <3>2
  <2> QED BY <2>1 DEF OneWriter
<1>9. WorkAccounting'
  <2>1. \A u, st : Units(resvW, u, st)' = Units(resvW', u, st)
    BY DEF Units
  <2>2. ASSUME NEW u \in TicketTypes, u = t
        PROVE  Uninserted(u) = 0 /\ Uninserted(u)' = 0
    BY <1>0, <1>1, <1>2, <2>2, StoreAssumption DEF Uninserted, Process, BeforeInsert
  <2>3. ASSUME NEW u \in TicketTypes \ {t} PROVE Uninserted(u)' = Uninserted(u)
    <3>1. ticketLock'[u] = ticketLock[u]
      BY <1>2, <2>3
    <3> QED BY <1>0, <3>1 DEF Uninserted, Alone, Process
  <2>4. Cardinality(Units(resvW, t, "reserved"))
          = Cardinality(Units(resvW', t, "reserved")) + q
    <3>1. Enters(resvW', resvW, x, "reserved")
      BY <1>1, <1>3 DEF Enters
    <3> QED BY <1>1, <3>1, OneItem
  <2>5. /\ ticketsW'[t].reserved = Cardinality(Units(resvW', t, "reserved")) + 0
        /\ ticketsW'[t].sold = Cardinality(Units(resvW', t, "confirmed"))
    <3>1. CASE target = "confirmed"
      <4>1. Cardinality(Units(resvW', t, "confirmed"))
              = Cardinality(Units(resvW, t, "confirmed")) + q
        <5>1. Enters(resvW, resvW', x, "confirmed")
          BY <1>1, <1>3, <3>1 DEF Enters
        <5> QED BY <1>1, <5>1, OneItem
      <4>2. /\ ticketsW'[t].reserved = ticketsW[t].reserved - q
            /\ ticketsW'[t].sold = ticketsW[t].sold + q
        BY <1>1, <1>2, <3>1 DEF MoveReserved
      <4> QED BY <1>1, <2>2, <2>4, <4>1, <4>2, UnitsFinite DEF WorkAccounting
    <3>2. CASE target # "confirmed"
      <4>1. Units(resvW', t, "confirmed") = Units(resvW, t, "confirmed")
        BY <1>1, <1>3, <3>2, UnitsEqual
      <4>2. /\ ticketsW'[t].reserved = ticketsW[t].reserved - q
            /\ ticketsW'[t].sold = ticketsW[t].sold
        BY <1>1, <1>2, <3>2 DEF MoveReserved
      <4> QED BY <1>1, <2>2, <2>4, <4>1, <4>2, UnitsFinite DEF WorkAccounting
    <3> QED BY <3>1, <3>2
  <2>6. \A u \in TicketTypes \ {t} : ticketsW'[u] = ticketsW[u]
    BY <1>2
  <2>7. ASSUME NEW u \in TicketTypes \ {t}, NEW st
        PROVE  Units(resvW', u, st) = Units(resvW, u, st)
    BY <1>3, <2>7, UnitsEqual
  <2>8. ASSUME NEW u \in TicketTypes
        PROVE  /\ ticketsW'[u].reserved
                    = Cardinality(Units(resvW', u, "reserved")) + Uninserted(u)'
               /\ ticketsW'[u].sold = Cardinality(Units(resvW', u, "confirmed"))
    <3>1. CASE u = t
      BY <2>2, <2>5, <3>1
    <3>2. CASE u # t
      BY <2>3, <2>6, <2>7, <3>2 DEF WorkAccounting
    <3> QED BY <3>1, <3>2
  <2> QED BY <2>1, <2>8 DEF WorkAccounting
<1>10. StockAccounting'
  <2>1. \A u, st : Units(resv, u, st)' = Units(resv, u, st)
    BY DEF Units
  <2> QED BY <2>1 DEF StockAccounting
<1> QED
  BY <1>5, <1>6, <1>7, <1>8, <1>9, <1>10

-----------------------------------------------------------------------------
(* Every step keeps the inductive invariant *)

\* Steps that read, or that only take a row lock of the seats table.
LEMMA QuietStep ==
  ASSUME Inv, HandlerMatches', NEW p \in Process,
         UNCHANGED <<req, tickets, ticketsW, ticketLock, resv, resvW, resvLock>>,
         Alone(p), OthersGoal(p), Moves(p),
         pc'[p] \notin {"s_holds", "l_move", "w_move"}
  PROVE  StockInv'
<1>1. Arrives(p)
  BY DEF Arrives
<1>2. KeepsLocks(p)
  BY DEF KeepsLocks, Inv, StockInv, UnlockedIsCommitted
<1> QED
  BY <1>1, <1>2, FrameStep

\* Every statement of a quantity reservation keeps the books.
LEMMA QuantityKeepsStock ==
  ASSUME Inv, HandlerMatches', NEW r \in Requests, QuantityReserve(r)
  PROVE  StockInv'
<1>0. r \in Process /\ pc \in [Process -> Label]
  BY DEF Process, Inv, TypeOK, LocalsOK
<1>1. CASE QuantityLookup(r)
  BY <1>0, <1>1, QuietStep DEF QuantityLookup, Done, Goto, tables, env,
     Alone, OthersGoal, Moves, BeforeInsert
<1>2. CASE QuantityStock(r)
  BY <1>2, StockStep
<1>3. CASE QuantityNoStock(r)
  BY <1>0, <1>3, QuietStep DEF QuantityNoStock, Goto, tables, env,
     Alone, OthersGoal, Moves, BeforeInsert
<1>4. CASE QuantityInsert(r)
  <2>1. CASE Rollback(r)
    <3>1. pc[r] = "q_insert" /\ pc'[r] \notin BeforeInsert \cup {"s_holds", "l_move", "w_move"}
      BY <1>0, <1>4 DEF QuantityInsert, Goto, BeforeInsert
    <3>2. Alone(r) /\ OthersGoal(r) /\ UNCHANGED req
      BY <1>0, <1>4 DEF QuantityInsert, Goto, Alone, OthersGoal, env
    <3> QED BY <1>0, <2>1, <3>1, <3>2, RollbackStep
  <2>2. CASE ~ Rollback(r)
    BY <1>4, <2>2, InsertStep
  <2> QED BY <2>1, <2>2
<1>5. CASE QuantityCommit(r)
  BY <1>0, <1>5, CommitStep DEF QuantityCommit, Done, env,
     Alone, OthersGoal, BeforeInsert
<1>6. CASE QuantityResolve(r)
  BY <1>0, <1>6, QuietStep DEF QuantityResolve, Done, tables, env,
     Alone, OthersGoal, Moves, BeforeInsert
<1> QED
  BY <1>1, <1>2, <1>3, <1>4, <1>5, <1>6 DEF QuantityReserve

\* A seat reservation touches no stock, also when it expires stale holds.
LEMMA SeatsKeepStock ==
  ASSUME Inv, HandlerMatches', NEW r \in Requests, SeatsReserve(r)
  PROVE  StockInv'
<1>0. r \in Process /\ r # None /\ pc \in [Process -> Label]
  BY StoreAssumption DEF Process, Inv, TypeOK, LocalsOK
<1>a. todo \in [Process -> SUBSET Nat] /\ resvLock \in [Requests -> Process \cup {None}]
  BY DEF Inv, TypeOK, LocalsOK, TablesOK
<1>1. CASE SeatsLookup(r)
  BY <1>0, <1>a, <1>1, QuietStep DEF SeatsLookup, Done, Goto, tables, env,
     Alone, OthersGoal, Moves, BeforeInsert
<1>2. CASE SeatsLock(r)
  BY <1>0, <1>a, <1>2, QuietStep DEF SeatsLock, env,
     Alone, OthersGoal, Moves, BeforeInsert
<1>3. CASE SeatsMissing(r)
  BY <1>0, <1>3, RollbackStep DEF SeatsMissing, Done, env,
     Alone, OthersGoal, BeforeInsert
<1>4. CASE SeatsStale(r)
  BY <1>0, <1>a, <1>4, QuietStep DEF SeatsStale, Goto, tables, env,
     Alone, OthersGoal, Moves, BeforeInsert
<1>5. CASE SeatsLockParent(r)
  <2>1. UNCHANGED <<req, tickets, ticketsW, ticketLock, resv, resvW, pc, goal>>
    BY <1>5 DEF SeatsLockParent, env
  <2>2. KeepsLocks(r)
    BY <1>0, <1>a, <1>5 DEF SeatsLockParent, Free, KeepsLocks, Inv, StockInv,
       UnlockedIsCommitted
  <2>3. pc[r] = "s_parents" /\ Alone(r)
    BY <1>0, <1>a, <1>5 DEF SeatsLockParent, Alone
  <2>4. Moves(r) /\ OthersGoal(r)
    BY <2>1, <2>3 DEF Moves, OthersGoal
  <2>5. Arrives(r)
    BY <2>1, <2>3 DEF Arrives
  <2> QED BY <1>0, <2>1, <2>2, <2>3, <2>4, <2>5, FrameStep
<1>6. CASE SeatsExpire(r)
  <2>1. UNCHANGED <<req, tickets, ticketsW, ticketLock, resv, resvLock, todo, goal>>
    BY <1>6 DEF SeatsExpire, env
  <2>2. pc' = [pc EXCEPT ![r] = "s_insert"] /\ pc[r] = "s_parents"
    BY <1>6 DEF SeatsExpire, Goto
  <2>3. ASSUME NEW x \in Requests
        PROVE  /\ resvW'[x].item = resvW[x].item
               /\ resvW[x].status = Absent => resvW'[x].status = Absent
               /\ resvLock[x] # r => resvW'[x] = resvW[x]
    <3>1. resvW[x] \in Row
      BY DEF Inv, TypeOK, TablesOK
    <3>2. CASE resvLock[x] # r
      BY <1>6, <3>2 DEF SeatsExpire
    <3>3. CASE resvLock[x] = r
      <4>1. resvW'[x] = ExpiredRow(resvW[x])
        BY <1>6, <3>3 DEF SeatsExpire
      <4> QED BY <3>1, <3>3, <4>1 DEF Row, ExpiredRow, ExpireStatus, Absent
    <3> QED BY <3>2, <3>3
  <2>4. Alone(r) /\ OthersGoal(r) /\ Moves(r) /\ Arrives(r)
    BY <1>0, <2>1, <2>2 DEF Alone, OthersGoal, Moves, Arrives, BeforeInsert
  <2>5. KeepsLocks(r)
    BY <1>0, <2>1, <2>3 DEF KeepsLocks, Inv, StockInv, UnlockedIsCommitted
  <2>6. \A x \in Requests : \/ resvW'[x].status = resvW[x].status
                            \/ pc'[x] \notin BeforeInsert
    <3>1. \A x \in Requests : pc'[x] \in BeforeInsert => pc[x] \in BeforeInsert
      BY <2>4 DEF Alone, Moves, Process
    <3> QED BY <2>3, <3>1 DEF Inv, StockInv, NotYetInserted
  <2> QED BY <1>0, <2>1, <2>3, <2>4, <2>5, <2>6, FrameStep
<1>7. CASE SeatsInsert(r)
  <2> DEFINE refused == Rollback(r) /\ Goto(r, "s_resolve") /\ UNCHANGED todo
  <2>1. CASE refused
    BY <1>0, <1>7, <2>1, RollbackStep DEF SeatsInsert, Goto, Alone, OthersGoal,
       BeforeInsert, env
  <2>2. CASE ~ refused
    <3>1. UNCHANGED <<req, tickets, ticketsW, ticketLock, resv, goal>>
      BY <1>7, <2>2 DEF SeatsInsert, env
    <3>2. pc' = [pc EXCEPT ![r] = "s_holds"] /\ pc[r] = "s_insert"
      BY <1>7, <2>2 DEF SeatsInsert, Goto
    <3>3. /\ \A x \in Requests \ {r} : resvW'[x] = resvW[x] /\ resvLock'[x] = resvLock[x]
          /\ resvW'[r].item = Absent /\ resvLock'[r] = r
      BY <1>7, <2>2 DEF SeatsInsert, InsertReservation, Inv, TypeOK, TablesOK
    <3>4. resvW[r].item = Absent /\ resv[r].item = Absent /\ resv[r].status = Absent
      BY <3>2 DEF Inv, StockInv, NotYetInserted, BeforeInsert
    <3>5. Alone(r) /\ OthersGoal(r) /\ Moves(r) /\ Arrives(r)
      BY <1>0, <1>a, <1>7, <2>2, <3>1, <3>2, <3>3
      DEF SeatsInsert, Alone, OthersGoal, Moves, Arrives, BeforeInsert
    <3>6. KeepsLocks(r)
      BY <1>0, <3>1, <3>3, <3>4 DEF KeepsLocks, Absent, Inv, StockInv, UnlockedIsCommitted
    <3>7. pc'[r] \notin BeforeInsert
      BY <1>0, <3>2 DEF BeforeInsert
    <3> QED BY <1>0, <3>1, <3>3, <3>4, <3>5, <3>6, <3>7, FrameStep
  <2> QED BY <2>1, <2>2
<1>8. CASE SeatsHold(r)
  <2> DEFINE refused == Rollback(r) /\ Goto(r, "s_resolve")
                          /\ todo' = [todo EXCEPT ![r] = {}]
  <2>1. CASE refused
    BY <1>0, <1>a, <1>8, <2>1, RollbackStep DEF SeatsHold, Goto, Alone, OthersGoal,
       BeforeInsert, env
  <2>2. CASE ~ refused
    <3>1. UNCHANGED <<req, tickets, ticketsW, ticketLock, resv, resvLock, goal>>
      BY <1>8, <2>2 DEF SeatsHold, env
    <3>2. pc[r] = "s_holds" /\ pc'[r] \in {"s_commit", "s_holds"} /\ Alone(r)
      BY <1>0, <1>a, <1>8, <2>2 DEF SeatsHold, Goto, Alone
    <3>3. \E s \in todo[r] : resvW' = [resvW EXCEPT ![r].hold[s] = "reserved"]
      BY <1>8, <2>2 DEF SeatsHold
    <3>4. \A x \in Requests : /\ resvW'[x].item = resvW[x].item
                              /\ resvW'[x].status = resvW[x].status
                              /\ x # r => resvW'[x] = resvW[x]
      BY <3>3 DEF Inv, TypeOK, TablesOK, Row
    <3>5. OthersGoal(r) /\ Moves(r) /\ Arrives(r)
      BY <3>1, <3>2 DEF OthersGoal, Moves, Arrives, BeforeInsert, LocksHeld, Inv, StockInv
    <3>6. KeepsLocks(r)
      BY <1>0, <3>1, <3>2, <3>4 DEF LocksHeld, KeepsLocks, Inv, StockInv, UnlockedIsCommitted
    <3> QED BY <1>0, <3>1, <3>2, <3>4, <3>5, <3>6, FrameStep
  <2> QED BY <2>1, <2>2
<1>9. CASE SeatsCommit(r)
  BY <1>0, <1>9, CommitStep DEF SeatsCommit, Done, env, Alone, OthersGoal, BeforeInsert
<1>10. CASE SeatsResolve(r)
  BY <1>0, <1>10, QuietStep DEF SeatsResolve, Done, tables, env,
     Alone, OthersGoal, Moves, BeforeInsert
<1> QED
  BY <1>1, <1>2, <1>3, <1>4, <1>5, <1>6, <1>7, <1>8, <1>9, <1>10 DEF SeatsReserve

\* A transition of either kind, of a reservation p has locked.
LEMMA MoveStep ==
  ASSUME Inv, HandlerMatches', UNCHANGED <<req, tickets, resv, resvLock>>,
         NEW p \in Process, NEW x \in Requests, NEW target \in Status \ {"reserved"},
         TransitionReserved(p, x, target),
         resvLock[x] = p, resv[x].status = "reserved",
         Alone(p), OthersGoal(p), Arrives(p), Moves(p),
         pc'[p] \notin BeforeInsert
  PROVE  StockInv'
<1>1. CASE TransitionQuantity(p, x, target)
  BY <1>1, TransitionStep DEF Moves
<1>2. CASE TransitionSeats(x, target)
  <2>1. UNCHANGED <<ticketsW, ticketLock>>
    BY <1>2 DEF TransitionSeats
  <2>2. /\ \A y \in Requests \ {x} : resvW'[y] = resvW[y]
        /\ resvW'[x].item = resvW[x].item
    BY <1>2 DEF TransitionSeats, Inv, TypeOK, TablesOK, Row
  <2>3. pc'[x] \notin BeforeInsert
    BY DEF Inv, StockInv, NotYetInserted, Alone, Process, Absent
  <2>4. KeepsLocks(p)
    BY <2>2, StoreAssumption DEF KeepsLocks, Inv, StockInv, UnlockedIsCommitted, Process
  <2> QED BY <2>1, <2>2, <2>3, <2>4, FrameStep
<1> QED
  BY <1>1, <1>2 DEF TransitionReserved

\* get, cancel and confirm keep the books, conflicts and late answers included.
LEMMA LifecycleKeepsStock ==
  ASSUME Inv, HandlerMatches', NEW r \in Requests, Lifecycle(r)
  PROVE  StockInv'
<1>0. r \in Process /\ r # None /\ pc \in [Process -> Label]
      /\ todo \in [Process -> SUBSET Nat] /\ goal \in [Requests -> Status]
      /\ resvLock \in [Requests -> Process \cup {None}]
  BY StoreAssumption DEF Process, Inv, TypeOK, LocalsOK, TablesOK
<1>a. pc[r] \in LifecycleLabels => req[r].target \in Requests
  BY PayloadFields DEF Inv, StockInv, HandlerMatches, TypeOK, EnvOK
<1>1. CASE NotFound(r)
  BY <1>0, <1>1, QuietStep DEF NotFound, Done, tables, env,
     Alone, OthersGoal, Moves, BeforeInsert
<1>2. CASE LifecycleSettled(r)
  BY <1>0, <1>2, QuietStep DEF LifecycleSettled, Done, tables, env,
     Alone, OthersGoal, Moves, BeforeInsert
<1>3. CASE LifecycleLock(r)
  <2> DEFINE x == req[r].target
  <2>1. UNCHANGED <<req, tickets, ticketsW, ticketLock, resv, resvW, todo>>
    BY <1>3 DEF LifecycleLock, env
  <2>2. pc' = [pc EXCEPT ![r] = "l_move"] /\ pc[r] = "l_lock"
    BY <1>3 DEF LifecycleLock, Goto
  <2>3. /\ x \in Requests /\ resvLock[x] \in {None, r}
        /\ resv[x].status = "reserved"
        /\ resvLock' = [resvLock EXCEPT ![x] = r]
    BY <1>a, <1>3, <2>2 DEF LifecycleLock, Free, LifecycleLabels
  <2>4. goal'[r] # "reserved" /\ OthersGoal(r)
    BY <1>0, <1>3 DEF LifecycleLock, Aim, Wanted, OthersGoal
  <2>5. Alone(r) /\ Moves(r)
    BY <1>0, <2>1, <2>2 DEF Alone, Moves, BeforeInsert
  <2>6. Arrives(r)
    BY <1>0, <2>2, <2>3, <2>4, StoreAssumption DEF Arrives
  <2>7. KeepsLocks(r)
    BY <1>0, <2>1, <2>3 DEF KeepsLocks, Inv, StockInv, UnlockedIsCommitted
  <2> QED BY <1>0, <2>1, <2>4, <2>5, <2>6, <2>7, FrameStep
<1>4. CASE LifecycleMove(r)
  <2> DEFINE x == req[r].target
  <2>1. UNCHANGED <<req, tickets, resv, resvLock, todo, goal>>
    BY <1>4 DEF LifecycleMove, env
  <2>2. pc' = [pc EXCEPT ![r] = "l_commit"] /\ pc[r] = "l_move"
    BY <1>4 DEF LifecycleMove, Goto
  <2>3. /\ x \in Requests /\ resvLock[x] = r
        /\ resv[x].status = "reserved" /\ goal[r] \in Status \ {"reserved"}
    BY <1>0, <1>a, <2>2 DEF LifecycleLabels, Inv, StockInv, LocksHeld
  <2>4. /\ Alone(r) /\ OthersGoal(r) /\ Arrives(r) /\ Moves(r)
        /\ pc'[r] \notin BeforeInsert
    BY <1>0, <2>1, <2>2, StoreAssumption
    DEF Alone, OthersGoal, Arrives, Moves, BeforeInsert
  <2>5. TransitionReserved(r, x, goal[r])
    BY <1>4 DEF LifecycleMove
  <2> HIDE DEF x
  <2> QED BY <1>0, <2>1, <2>3, <2>4, <2>5, MoveStep
<1>5. CASE LifecycleConflict(r)
  BY <1>0, <1>5, RollbackStep DEF LifecycleConflict, Done, env,
     Alone, OthersGoal, BeforeInsert
<1>6. CASE LifecycleCommit(r)
  BY <1>0, <1>6, CommitStep DEF LifecycleCommit, Done, env,
     Alone, OthersGoal, BeforeInsert
<1>7. CASE GetParent(r)
  BY <1>0, <1>7, QuietStep DEF GetParent, Goto, tables, env,
     Alone, OthersGoal, Moves, BeforeInsert
<1>8. CASE GetChildren(r)
  BY <1>0, <1>8, QuietStep DEF GetChildren, Done, tables, env,
     Alone, OthersGoal, Moves, BeforeInsert
<1> QED
  BY <1>1, <1>2, <1>3, <1>4, <1>5, <1>6, <1>7, <1>8 DEF Lifecycle

\* expire_batch keeps the books, whichever rows it skips.
LEMMA WorkerKeepsStock ==
  ASSUME Inv, HandlerMatches', NEW w \in Workers, ExpireBatch(w)
  PROVE  StockInv'
<1>0. w \in Process /\ w # None /\ w \notin Requests /\ pc \in [Process -> Label]
      /\ todo \in [Process -> SUBSET Nat]
      /\ resvLock \in [Requests -> Process \cup {None}]
  BY StoreAssumption DEF Process, Inv, TypeOK, LocalsOK, TablesOK
<1>1. CASE WorkerIdle(w)
  BY <1>0, <1>1, QuietStep DEF WorkerIdle, tables, locals, env,
     Alone, OthersGoal, Moves, BeforeInsert
<1>2. CASE WorkerLock(w)
  <2>1. UNCHANGED <<req, tickets, ticketsW, ticketLock, resv, resvW, goal>>
    BY <1>2 DEF WorkerLock, env
  <2>2. pc' = [pc EXCEPT ![w] = "w_move"] /\ pc[w] = "w_sleep"
        /\ todo' = [todo EXCEPT ![w] = Batch]
    BY <1>2 DEF WorkerLock, Goto
  <2>3. ASSUME NEW x \in Requests
        PROVE  resvLock'[x] = IF x \in Batch THEN w ELSE resvLock[x]
    BY <1>2 DEF WorkerLock
  <2>4. \A x \in Batch : /\ x \in Requests /\ resv[x].status = "reserved"
                         /\ resvLock[x] = None
    BY DEF Batch, Expirable
  <2>5. Alone(w) /\ Moves(w) /\ OthersGoal(w)
    BY <1>0, <2>1, <2>2 DEF Alone, Moves, BeforeInsert, OthersGoal
  <2>6. Arrives(w)
    BY <1>0, <2>2, <2>3, <2>4 DEF Arrives
  <2>7. KeepsLocks(w)
    BY <1>0, <2>1, <2>3, <2>4 DEF KeepsLocks, Inv, StockInv, UnlockedIsCommitted
  <2> QED BY <1>0, <2>1, <2>5, <2>6, <2>7, FrameStep
<1>3. CASE WorkerMove(w)
  <2>1. PICK x \in todo[w] :
               /\ \/ TransitionReserved(w, x, "expired")
                  \/ UNCHANGED <<ticketsW, ticketLock, resvW>>
               /\ todo' = [todo EXCEPT ![w] = @ \ {x}]
               /\ Goto(w, IF todo[w] = {x} THEN "w_commit" ELSE "w_move")
    BY <1>3 DEF WorkerMove
  <2>2. UNCHANGED <<req, tickets, resv, resvLock, goal>> /\ pc[w] = "w_move"
    BY <1>3 DEF WorkerMove, env
  <2>3. \A y \in todo[w] : y \in Requests /\ resvLock[y] = w /\ resv[y].status = "reserved"
    BY <2>2 DEF Inv, StockInv, LocksHeld
  <2>4. pc'[w] \in {"w_commit", "w_move"} /\ todo'[w] \subseteq todo[w]
    BY <1>0, <2>1 DEF Goto
  <2>5. Alone(w) /\ OthersGoal(w)
    BY <1>0, <2>1, <2>2 DEF Goto, Alone, OthersGoal
  <2>6. Moves(w) /\ pc'[w] \notin BeforeInsert
    BY <2>2, <2>4 DEF Moves, BeforeInsert
  <2>7. Arrives(w)
    BY <1>0, <2>2, <2>3, <2>4 DEF Arrives
  <2>8. CASE TransitionReserved(w, x, "expired")
    <3>1. "expired" \in Status \ {"reserved"}
      BY DEF Status
    <3> QED BY <1>0, <2>2, <2>3, <2>5, <2>6, <2>7, <2>8, <3>1, MoveStep
  <2>9. CASE UNCHANGED <<ticketsW, ticketLock, resvW>>
    <3>1. KeepsLocks(w)
      BY <2>2, <2>9 DEF KeepsLocks
    <3> QED BY <1>0, <2>2, <2>5, <2>6, <2>7, <2>9, <3>1, FrameStep
  <2> QED BY <2>1, <2>8, <2>9
<1>4. CASE WorkerCommit(w)
  BY <1>0, <1>4, CommitStep DEF WorkerCommit, Goto, env,
     Alone, OthersGoal, BeforeInsert
<1> QED
  BY <1>1, <1>2, <1>3, <1>4 DEF ExpireBatch

\* A crash or a deadlock failure at any statement keeps the books.
LEMMA AbortKeepsStock ==
  ASSUME Inv, HandlerMatches', NEW p \in Process, Abort(p)
  PROVE  StockInv'
<1>0. pc \in [Process -> Label] /\ todo \in [Process -> SUBSET Nat]
  BY DEF Inv, TypeOK, LocalsOK
<1>1. pc'[p] \in {"w_sleep", "done"} /\ Alone(p)
  BY <1>0 DEF Abort, Goto, Alone
<1>2. OthersGoal(p) /\ UNCHANGED req /\ Rollback(p)
  BY DEF Abort, OthersGoal
<1> QED
  BY <1>1, <1>2, RollbackStep DEF BeforeInsert

\* An empty database adds up.
LEMMA InitStock == Init => StockInv
<1> SUFFICES ASSUME Init PROVE StockInv
  OBVIOUS
<1>1. /\ \A x \in Requests : resv[x] = NoRow /\ resvW[x] = NoRow /\ resvLock[x] = None
      /\ \A t \in TicketTypes : /\ tickets[t] = [reserved |-> 0, sold |-> 0]
                               /\ ticketsW[t] = tickets[t] /\ ticketLock[t] = None
  BY DEF Init, InitWith
<1>2. TypeOK /\ HandlerMatches
  BY InitTypes
<1>3. \A r \in Requests : pc[r] \notin {"q_insert", "s_holds", "l_move"}
  <2> SUFFICES ASSUME NEW r \in Requests
               PROVE  pc[r] \notin {"q_insert", "s_holds", "l_move"}
    OBVIOUS
  <2>1. r \notin Workers /\ r \in Process
    BY StoreAssumption DEF Process
  <2>2. req[r] \in Payload
    BY <1>2, StoreAssumption DEF TypeOK, EnvOK, Payloads
  <2>3. req[r].op \in {"quantity", "seats", "get", "cancel", "confirm"}
    BY <2>2 DEF Payload, QuantityPayload, SeatsPayload, LifecyclePayload
  <2>4. pc[r] = Entry(req[r].op)
    BY <2>1 DEF Init, InitWith, NoRow, Status
  <2> QED BY <2>3, <2>4 DEF Entry
<1>4. \A w \in Workers : pc[w] # "w_move"
  BY DEF Init, InitWith, Process
<1>5. \A t, st : st # Absent => Units(resv, t, st) = {} /\ Units(resvW, t, st) = {}
  BY <1>1 DEF Units, NoRow
<1>6. \A t \in TicketTypes : Uninserted(t) = 0
  BY <1>3 DEF Uninserted
<1>7. UnlockedIsCommitted /\ NotYetInserted
  BY <1>1 DEF UnlockedIsCommitted, NotYetInserted, NoRow
<1>8. LocksHeld
  BY <1>3, <1>4 DEF LocksHeld
<1>9. OneWriter
  BY <1>1 DEF OneWriter
<1>10. \A t \in TicketTypes, st \in {"reserved", "confirmed"} :
         /\ Cardinality(Units(resv, t, st)) = 0
         /\ Cardinality(Units(resvW, t, st)) = 0
  BY <1>5, FS_EmptySet DEF Absent
<1>11. WorkAccounting
  BY <1>1, <1>6, <1>10 DEF WorkAccounting
<1>12. StockAccounting
  BY <1>1, <1>10 DEF StockAccounting
<1> QED
  BY <1>2, <1>7, <1>8, <1>9, <1>11, <1>12 DEF StockInv

\* Every step of the system keeps the books.
LEMMA NextKeepsStock ==
  ASSUME Inv, [Next]_vars
  PROVE  Inv'
<1>0. TypeOK' /\ HandlerMatches'
  BY NextTypes DEF Inv, StockInv
<1> SUFFICES StockInv'
  BY <1>0 DEF Inv
<1>1. ASSUME NEW r \in Requests, Serve(r) PROVE StockInv'
  BY <1>0, <1>1, QuantityKeepsStock, SeatsKeepStock, LifecycleKeepsStock DEF Serve
<1>2. ASSUME NEW w \in Workers, ExpireBatch(w) PROVE StockInv'
  BY <1>0, <1>2, WorkerKeepsStock
<1>3. ASSUME NEW p \in Process, Abort(p) PROVE StockInv'
  BY <1>0, <1>3, AbortKeepsStock
<1>4. CASE UNCHANGED <<tables, locals, req>>
  <2>1. UNCHANGED <<tickets, ticketsW, ticketLock, resv, resvW, resvLock, pc, todo, goal, req>>
    BY <1>4 DEF tables, locals
  <2>2. StockAccounting'
    <3>1. \A t, st : Units(resv, t, st)' = Units(resv, t, st)
      BY <2>1 DEF Units
    <3> QED BY <2>1, <3>1 DEF Inv, StockInv, StockAccounting
  <2>3. WorkAccounting'
    <3>1. \A t, st : Units(resvW, t, st)' = Units(resvW, t, st)
      BY <2>1 DEF Units
    <3>2. \A t \in TicketTypes : Uninserted(t)' = Uninserted(t)
      BY <2>1 DEF Uninserted
    <3> QED BY <2>1, <3>1, <3>2 DEF Inv, StockInv, WorkAccounting
  <2>4. (UnlockedIsCommitted /\ NotYetInserted /\ LocksHeld /\ OneWriter)'
    BY <2>1 DEF Inv, StockInv, UnlockedIsCommitted, NotYetInserted, LocksHeld, OneWriter
  <2> QED BY <1>0, <2>2, <2>3, <2>4 DEF StockInv
<1>5. CASE UNCHANGED vars
  BY <1>4, <1>5 DEF vars, env
<1>6. CASE Next
  BY <1>1, <1>2, <1>3, <1>4, <1>6 DEF Next, Crash, DeadlockVictim, Tick, AllAnswered, env
<1> QED
  BY <1>5, <1>6

\* The inductive invariant holds in every behaviour.
THEOREM StockInvariant == Spec => []StockInv
<1>1. Init => Inv
  BY InitTypes, InitStock DEF Inv
<1>2. Inv /\ [Next]_vars => Inv'
  BY NextKeepsStock
<1>3. Inv => StockInv
  BY DEF Inv
<1> QED
  BY <1>1, <1>2, <1>3, PTL DEF Spec

\* ticket_types.reserved_quantity and sold_quantity are always the sums of the
\* quantities of the reserved and of the confirmed items: reserve, confirm,
\* cancel, expiry, retries, crashes and rollbacks lose and double-count nothing.
THEOREM StockAddsUp == Spec => []StockAccounting
<1>1. StockInv => StockAccounting
  BY DEF StockInv
<1> QED
  BY <1>1, StockInvariant, PTL

-----------------------------------------------------------------------------
(* Overselling: every step that writes a stock row tests it first *)

\* A step that leaves the counters alone oversells nothing.
LEMMA QuietOversold ==
  ASSUME NeverOversold, UNCHANGED <<tickets, ticketsW>>
  PROVE  NeverOversold'
BY DEF NeverOversold

\* Neither does a commit or a rollback: each picks one of two sound versions.
LEMMA EndOversold ==
  ASSUME NeverOversold, TypeOK, NEW p, Commit(p) \/ Rollback(p)
  PROVE  NeverOversold'
BY DEF NeverOversold, Commit, Rollback

\* A guarded UPDATE of one stock row.
LEMMA WriteOversold ==
  ASSUME NeverOversold, TypeOK, UNCHANGED tickets, NEW p, NEW t \in TicketTypes,
         NEW row, row.sold + row.reserved <= Total[t], SetTicket(p, t, row)
  PROVE  NeverOversold'
BY DEF NeverOversold, TypeOK, TablesOK, SetTicket

\* A release or a confirmation never raises sold + reserved.
LEMMA TransitionOversold ==
  ASSUME NeverOversold, TypeOK, UNCHANGED tickets,
         NEW p, NEW x \in Requests, NEW target, TransitionReserved(p, x, target)
  PROVE  NeverOversold'
<1>1. CASE TransitionQuantity(p, x, target)
  <2> DEFINE t == req[x].ticket
             q == req[x].quantity
             row == MoveReserved(ticketsW[t], q, target)
  <2>1. /\ t \in TicketTypes /\ q \in Nat
        /\ CanMove(ticketsW[t], t, q, target) /\ SetTicket(p, t, row)
    BY <1>1, PayloadFields DEF TransitionQuantity, TypeOK, EnvOK
  <2>2. /\ ticketsW[t].sold \in Nat /\ ticketsW[t].reserved \in Nat /\ Total[t] \in Nat
        /\ ticketsW[t].sold + ticketsW[t].reserved <= Total[t]
    BY <2>1, StoreAssumption DEF TypeOK, TablesOK, TicketRow, NeverOversold
  <2>3. row.sold + row.reserved <= Total[t]
    BY <2>1, <2>2 DEF MoveReserved, CanMove
  <2> HIDE DEF t, row
  <2> QED BY <2>1, <2>3, WriteOversold
<1>2. CASE TransitionSeats(x, target)
  BY <1>2, QuietOversold DEF TransitionSeats
<1> QED
  BY <1>1, <1>2 DEF TransitionReserved

\* No statement of a request oversells.
LEMMA ServeOversold ==
  ASSUME NeverOversold, TypeOK, HandlerMatches, NEW r \in Requests, Serve(r)
  PROVE  NeverOversold'
<1>1. CASE QuantityStock(r)
  <2> DEFINE t == req[r].ticket
             q == req[r].quantity
             row == AddReserved(ticketsW[t], q)
  <2>1. t \in TicketTypes /\ q \in Nat
    BY <1>1, PayloadFields DEF QuantityStock, HandlerMatches, QuantityLabels, TypeOK, EnvOK
  <2>2. UNCHANGED tickets /\ Fits(ticketsW[t], t, q) /\ SetTicket(r, t, row)
    BY <1>1 DEF QuantityStock
  <2>3. ticketsW[t] \in TicketRow /\ Total[t] \in Nat
    BY <2>1, StoreAssumption DEF TypeOK, TablesOK
  <2>4. row.sold + row.reserved <= Total[t]
    BY <2>1, <2>2, <2>3 DEF Fits, AddReserved, TicketRow
  <2> HIDE DEF t, row
  <2> QED BY <2>1, <2>2, <2>4, WriteOversold
<1>2. CASE QuantityReserve(r) /\ ~ QuantityStock(r)
  BY <1>2, QuietOversold, EndOversold
  DEF QuantityReserve, QuantityLookup, QuantityNoStock, QuantityInsert,
      QuantityCommit, QuantityResolve, tables
<1>3. CASE SeatsReserve(r)
  BY <1>3, QuietOversold, EndOversold
  DEF SeatsReserve, SeatsLookup, SeatsLock, SeatsMissing, SeatsStale, SeatsLockParent,
      SeatsExpire, SeatsInsert, SeatsHold, SeatsCommit, SeatsResolve, tables
<1>4. CASE LifecycleMove(r)
  <2>1. req[r].target \in Requests
    BY <1>4, PayloadFields DEF LifecycleMove, HandlerMatches, LifecycleLabels, TypeOK, EnvOK
  <2> QED BY <1>4, <2>1, TransitionOversold DEF LifecycleMove
<1>5. CASE Lifecycle(r) /\ ~ LifecycleMove(r)
  BY <1>5, QuietOversold, EndOversold
  DEF Lifecycle, NotFound, LifecycleSettled, LifecycleLock, LifecycleConflict,
      LifecycleCommit, GetParent, GetChildren, tables
<1> QED
  BY <1>1, <1>2, <1>3, <1>4, <1>5 DEF Serve, Lifecycle

\* No step of a worker oversells.
LEMMA WorkerOversold ==
  ASSUME NeverOversold, TypeOK, NEW w \in Workers, ExpireBatch(w)
  PROVE  NeverOversold'
<1>1. CASE WorkerMove(w)
  <2>1. PICK x \in todo[w] : \/ TransitionReserved(w, x, "expired")
                            \/ UNCHANGED ticketsW
    BY <1>1 DEF WorkerMove
  <2>2. x \in Requests /\ UNCHANGED tickets
    BY <1>1, <2>1 DEF WorkerMove, TypeOK, LocalsOK
  <2> QED BY <2>1, <2>2, TransitionOversold, QuietOversold
<1>2. CASE ~ WorkerMove(w)
  BY <1>2, QuietOversold, EndOversold
  DEF ExpireBatch, WorkerIdle, WorkerLock, WorkerCommit, tables
<1> QED
  BY <1>1, <1>2

\* The guarded UPDATEs alone keep reserved + sold within total, in committed and
\* in uncommitted rows, whatever interleaves, fails or is retried: the CHECK
\* constraint of ticket_types is never what stops an oversell.
THEOREM NoOversell == Spec => []NeverOversold
<1>1. Init => NeverOversold
  BY StoreAssumption DEF Init, InitWith, NeverOversold
<1>2. TypeOK /\ HandlerMatches /\ NeverOversold /\ [Next]_vars => NeverOversold'
  <2> SUFFICES ASSUME TypeOK, HandlerMatches, NeverOversold, [Next]_vars
               PROVE  NeverOversold'
    OBVIOUS
  <2>1. CASE \E r \in Requests : Serve(r)
    BY <2>1, ServeOversold
  <2>2. CASE \E w \in Workers : ExpireBatch(w)
    BY <2>2, WorkerOversold
  <2>3. CASE \E p \in Process : Crash(p) \/ DeadlockVictim(p)
    BY <2>3, EndOversold DEF Crash, DeadlockVictim, Abort
  <2>4. CASE Tick \/ AllAnswered \/ UNCHANGED vars
    BY <2>4, QuietOversold DEF Tick, AllAnswered, vars, tables
  <2> QED BY <2>1, <2>2, <2>3, <2>4 DEF Next
<1> QED
  BY <1>1, <1>2, TypeInvariant, PTL DEF Spec
=============================================================================
