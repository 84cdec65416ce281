----------------------- MODULE ReservationAnswers_proofs ----------------------
(***************************************************************************)
(* What an HTTP answer promises stays true: settled reservations are final, *)
(* expiry is never early, every success names rows that bear it out, and   *)
(* all that the services commit are steps of the box office.               *)
(***************************************************************************)
EXTENDS ReservationRows_proofs

-----------------------------------------------------------------------------
(* Which steps publish rows *)

\* The handlers read the clock and their payload, and write neither.
LEMMA ServeLeaves ==
  ASSUME NEW r \in Requests, Serve(r)
  PROVE  UNCHANGED <<req, now>>
<1>1. CASE QuantityReserve(r)
  BY <1>1 DEF QuantityReserve, QuantityLookup, QuantityStock, QuantityNoStock,
     QuantityInsert, QuantityCommit, QuantityResolve, env
<1>2. CASE SeatsReserve(r)
  BY <1>2 DEF SeatsReserve, SeatsLookup, SeatsLock, SeatsMissing, SeatsStale,
     SeatsLockParent, SeatsExpire, SeatsInsert, SeatsHold, SeatsCommit, SeatsResolve, env
<1>3. CASE Lifecycle(r)
  BY <1>3 DEF Lifecycle, NotFound, LifecycleSettled, LifecycleLock, LifecycleMove,
     LifecycleConflict, LifecycleCommit, GetParent, GetChildren, env
<1> QED
  BY <1>1, <1>2, <1>3 DEF Serve

\* No statement but Tick moves the clock, and none changes the payloads.
LEMMA ClockAndPayloads ==
  ASSUME Inv, [Next]_vars
  PROVE  req' = req /\ (Tick \/ now' = now)
<1>1. ASSUME NEW r \in Requests, Serve(r) PROVE UNCHANGED <<req, now>>
  BY <1>1, ServeLeaves
<1>2. ASSUME NEW w \in Workers, ExpireBatch(w) PROVE UNCHANGED <<req, now>>
  BY <1>2 DEF ExpireBatch, WorkerIdle, WorkerLock, WorkerMove, WorkerCommit, env
<1>3. ASSUME NEW p \in Process, Abort(p) PROVE UNCHANGED <<req, now>>
  BY <1>3 DEF Abort
<1>4. CASE UNCHANGED vars \/ AllAnswered
  BY <1>4 DEF vars, env, AllAnswered
<1>5. CASE Next
  BY <1>1, <1>2, <1>3, <1>4, <1>5 DEF Next, Crash, DeadlockVictim, Tick
<1> QED
  BY <1>4, <1>5

\* Committed rows change only by the commits of the four writers, and then to
\* what the transaction that holds their lock has written.
LEMMA OnlyCommits ==
  ASSUME Inv, [Next]_vars
  PROVE  \/ UNCHANGED resv
         \/ /\ \/ \E r \in Requests :
                    QuantityCommit(r) \/ SeatsCommit(r) \/ LifecycleCommit(r)
               \/ \E w \in Workers : WorkerCommit(w)
            /\ UNCHANGED now
            /\ \E p \in Process : Commit(p)
<1>0. \A p \in Process : Rollback(p) => UNCHANGED resv
  BY DEF Rollback
<1>1. ASSUME NEW r \in Requests, QuantityReserve(r), ~ QuantityCommit(r)
      PROVE  UNCHANGED resv
  BY <1>0, <1>1 DEF QuantityReserve, QuantityLookup, QuantityStock, QuantityNoStock,
     QuantityInsert, QuantityResolve, tables, Process
<1>2. ASSUME NEW r \in Requests, SeatsReserve(r), ~ SeatsCommit(r)
      PROVE  UNCHANGED resv
  BY <1>0, <1>2 DEF SeatsReserve, SeatsLookup, SeatsLock, SeatsMissing, SeatsStale,
     SeatsLockParent, SeatsExpire, SeatsInsert, SeatsHold, SeatsResolve, tables, Process
<1>3. ASSUME NEW r \in Requests, Lifecycle(r), ~ LifecycleCommit(r)
      PROVE  UNCHANGED resv
  BY <1>0, <1>3 DEF Lifecycle, NotFound, LifecycleSettled, LifecycleLock, LifecycleMove,
     LifecycleConflict, GetParent, GetChildren, tables, Process
<1>4. ASSUME NEW w \in Workers, ExpireBatch(w), ~ WorkerCommit(w)
      PROVE  UNCHANGED resv
  BY <1>4 DEF ExpireBatch, WorkerIdle, WorkerLock, WorkerMove, tables
<1>5. ASSUME NEW p \in Process, Abort(p) PROVE UNCHANGED resv
  BY <1>0, <1>5 DEF Abort
<1>6. ASSUME NEW r \in Requests,
             QuantityCommit(r) \/ SeatsCommit(r) \/ LifecycleCommit(r)
      PROVE  UNCHANGED now /\ Commit(r) /\ r \in Process
  BY <1>6 DEF QuantityCommit, SeatsCommit, LifecycleCommit, env, Process
<1>7. ASSUME NEW w \in Workers, WorkerCommit(w)
      PROVE  UNCHANGED now /\ Commit(w) /\ w \in Process
  BY <1>7 DEF WorkerCommit, env, Process
<1>8. CASE UNCHANGED vars
  BY <1>8 DEF vars, tables
<1>9. CASE Tick \/ AllAnswered
  BY <1>9 DEF Tick, AllAnswered, tables
<1>10. CASE Next
  BY <1>1, <1>2, <1>3, <1>4, <1>5, <1>6, <1>7, <1>9, <1>10
  DEF Next, Serve, Crash, DeadlockVictim
<1> QED
  BY <1>8, <1>10

\* A committed row changes only by its insert or by a move out of reserved.
LEMMA RowChanges ==
  ASSUME Inv, RowInv, [Next]_vars, NEW x \in Requests, resv'[x] # resv[x]
  PROVE  resv'[x] = resvW[x] /\ now' = now /\ (Inserted(x) \/ MovedOut(x))
<1>1. PICK p \in Process : Commit(p) /\ UNCHANGED now
  BY OnlyCommits
<1>2. resv'[x] = resvW[x] /\ now' = now
  BY <1>1 DEF Commit
<1> QED
  BY <1>2 DEF RowInv, WrittenRows

\* A committed row is never deleted, a settled one never written again, and one
\* expires only out of reserved and after its deadline.
LEMMA RowsAge ==
  ASSUME Inv, RowInv, [Next]_vars, NEW x \in Requests
  PROVE  /\ resv[x].status # Absent => resv'[x].status # Absent
         /\ resv[x].status \in Status \ {"reserved"} => resv'[x] = resv[x]
         /\ resv'[x].status = "expired" /\ resv[x].status # "expired" =>
              resv[x].status = "reserved" /\ resv[x].expires <= now
<1>1. CASE resv'[x] = resv[x]
  BY <1>1
<1>2. CASE resv'[x] # resv[x]
  <2>1. resv'[x] = resvW[x] /\ (Inserted(x) \/ MovedOut(x))
    BY <1>2, RowChanges
  <2>2. CASE Inserted(x)
    BY <2>1, <2>2 DEF Inserted, NoRow, Status, Absent
  <2>3. CASE MovedOut(x)
    <3>1. resvW[x].status \in {"cancelled", "confirmed", "expired"}
      BY <2>3, DestinationSettled DEF MovedOut, RowInv
    <3> QED BY <2>1, <2>3, <3>1 DEF MovedOut, Absent
  <2> QED BY <2>1, <2>2, <2>3
<1> QED
  BY <1>1, <1>2

\* No step of any handler, worker, crash or rollback changes a reservation that
\* has been cancelled, expired or confirmed, or one of its children.
THEOREM SettledReservationsAreFinal == Spec => SettledIsFinal
<1>1. Inv /\ RowInv /\ [Next]_vars =>
        [\A x \in Requests :
           resv[x].status \in Status \ {"reserved"} => resv'[x] = resv[x]]_vars
  BY RowsAge
<1> QED
  BY <1>1, RowInvariant, PTL DEF Spec, SettledIsFinal

\* Whoever expires a reservation, cancel, confirm, a worker or another visitor's
\* reserve, its deadline has come when the change is committed.
THEOREM ExpiryIsNeverEarly == Spec => NoEarlyExpiry
<1>1. Inv /\ RowInv /\ [Next]_vars =>
        [\A x \in Requests :
           resv'[x].status = "expired" /\ resv[x].status # "expired" =>
             resv[x].status = "reserved" /\ resv[x].expires <= now]_vars
  BY RowsAge
<1> QED
  BY <1>1, RowInvariant, PTL DEF Spec, NoEarlyExpiry

-----------------------------------------------------------------------------
(* What an answer says of the rows *)

\* The children a detail response lists all have the status of their header.
LEMMA ChildrenOf ==
  ASSUME req \in Payloads, NEW x \in Requests, NEW row, row.status # Absent,
         Agrees(x, row, {})
  PROVE  Children(row) = {row.status}
<1>1. CASE req[x].op = "quantity"
  <2>1. row.item = row.status /\ \A s \in Seats : row.hold[s] = Absent
    BY <1>1 DEF Agrees, NoHold
  <2>2. {row.hold[s] : s \in Seats} \subseteq {Absent}
    BY <2>1
  <2> QED BY <2>1, <2>2 DEF Children
<1>2. CASE req[x].op # "quantity"
  <2>1. /\ req[x].op = "seats" /\ row.item = Absent
        /\ row.hold = [s \in Seats |-> IF s \in req[x].seats \ {}
                                      THEN row.status ELSE Absent]
    BY <1>2 DEF Agrees
  <2>2. PICK s0 \in req[x].seats : s0 \in Seats
    BY <2>1, SeatsAsked
  <2>3. \A s \in Seats : row.hold[s] = IF s \in req[x].seats THEN row.status ELSE Absent
    BY <2>1
  <2>4. row.status \in Children(row)
    BY <2>2, <2>3 DEF Children
  <2>5. \A st \in Children(row) : st = row.status
    BY <2>1, <2>3 DEF Children
  <2> QED BY <2>4, <2>5
<1> QED
  BY <1>1, <1>2

\* A reservation without children has no row at all.
LEMMA ChildrenShowRow ==
  ASSUME RowInv, NEW x \in Requests, Children(resv[x]) # {}
  PROVE  resv[x].status # Absent
<1>1. Children(NoRow) = {}
  BY DEF Children, NoRow, NoHold
<1>2. Agrees(x, resv[x], {})
  BY DEF RowInv, ParentChildAgreement
<1> QED
  BY <1>1, <1>2 DEF Agrees

\* A committed row of a request's own key is the only one.
OneRowPerKey ==
  \A r \in Requests : req[r].op \in {"quantity", "seats"} =>
    \A x \in SameKey(r) \cup {r} : resv[x].status # Absent =>
      {y \in SameKey(r) \cup {r} : resv[y].status # Absent} = {x}

\* The unique index on visitor session and key says so.
LEMMA KeysHaveOneRow == RowInv => OneRowPerKey
<1> SUFFICES ASSUME RowInv, NEW r \in Requests, req[r].op \in {"quantity", "seats"},
                    NEW x \in SameKey(r) \cup {r}, resv[x].status # Absent
             PROVE  {y \in SameKey(r) \cup {r} : resv[y].status # Absent} = {x}
  BY DEF OneRowPerKey
<1>1. \A y \in Requests : resv[y].status # Absent => resvW[y].status # Absent
  BY RowsStay DEF RowInv
<1>2. x \in Requests /\ resvW[x].status # Absent
  BY <1>1 DEF SameKey
<1>3. ASSUME NEW y \in SameKey(r) \cup {r}, y # x PROVE y \in SameKey(x)
  BY <1>2, <1>3 DEF SameKey
<1>4. ASSUME NEW y \in SameKey(r) \cup {r}, resv[y].status # Absent PROVE y = x
  BY <1>1, <1>2, <1>3, <1>4 DEF RowInv, KeysUnique, SameKey
<1> QED
  BY <1>4

\* What the three properties say of one request, and that a header a GET has read
\* as settled is settled still when it reads the children.
GoodAnswer(r) ==
  /\ pc[r] = "done" /\ reply[r].code = "OK" =>
       /\ req[r].op \in {"quantity", "seats"} =>
            LET x == reply[r].id
            IN /\ resv[x].status # Absent /\ req[x].op = req[r].op
               /\ {y \in SameKey(r) \cup {r} : resv[y].status # Absent} = {x}
       /\ req[r].op \in {"cancel", "confirm"} =>
            /\ reply[r].children = {Wanted(r)}
            /\ resv[req[r].target].status = Wanted(r)
            /\ Children(resv[req[r].target]) = {Wanted(r)}
       /\ req[r].op = "get" =>
            /\ Cardinality(reply[r].children) = 1
            /\ reply[r].status # "reserved" => reply[r].children = {reply[r].status}
  /\ pc[r] = "g_children" =>
       LET x == req[r].target
       IN /\ resv[x].status # Absent
          /\ reply[r].status # "reserved" => resv[x].status = reply[r].status

AnswerInv == \A r \in Requests : GoodAnswer(r)

\* An answer that was right stays right, whatever the others do.
LEMMA AnswerStands ==
  ASSUME Inv, RowInv, RowInv', [Next]_vars, NEW r \in Requests, GoodAnswer(r),
         req' = req, pc'[r] = pc[r], reply'[r] = reply[r]
  PROVE  GoodAnswer(r)'
<1>0. req \in Payloads /\ resv \in [Requests -> Row]
  BY DEF Inv, TypeOK, EnvOK, TablesOK
<1>1. CASE pc[r] = "done" /\ reply[r].code = "OK" /\ req[r].op \in {"quantity", "seats"}
  <2> DEFINE x == reply[r].id
  <2>1. /\ resv[x].status # Absent /\ req[x].op = req[r].op
        /\ {y \in SameKey(r) \cup {r} : resv[y].status # Absent} = {x}
    BY <1>1 DEF GoodAnswer
  <2>2. x \in SameKey(r) \cup {r}
    BY <2>1
  <2>3. x \in Requests
    BY <2>2 DEF SameKey
  <2>4. resv'[x].status # Absent
    BY <2>1, <2>3, RowsAge
  <2>5. SameKey(r)' = SameKey(r)
    BY DEF SameKey
  <2>6. {y \in SameKey(r) \cup {r} : resv[y].status # Absent}' = {x}
    <3>1. OneRowPerKey'
      BY KeysHaveOneRow, PTL
    <3> QED BY <1>1, <2>2, <2>4, <2>5, <3>1 DEF OneRowPerKey
  <2> QED BY <1>1, <2>1, <2>4, <2>6 DEF GoodAnswer
<1>2. CASE pc[r] = "done" /\ reply[r].code = "OK" /\ req[r].op \in {"cancel", "confirm"}
  <2>1. req[r].target \in Requests
    BY <1>0, <1>2, PayloadFields
  <2>2. resv[req[r].target].status = Wanted(r) /\ Wanted(r) \in Status \ {"reserved"}
    BY <1>2 DEF GoodAnswer, Wanted, Status
  <2>3. resv'[req[r].target] = resv[req[r].target]
    BY <2>1, <2>2, RowsAge
  <2> QED BY <1>2, <2>3 DEF GoodAnswer, Wanted
<1>3. CASE pc[r] = "done" /\ reply[r].code = "OK" /\ req[r].op = "get"
  BY <1>3 DEF GoodAnswer
<1>4. CASE pc[r] = "g_children"
  <2>1. req[r].target \in Requests
    BY <1>0, <1>4, PayloadFields DEF Inv, StockInv, HandlerMatches, GetLabels
  <2>2. /\ resv[req[r].target].status # Absent
        /\ reply[r].status # "reserved" => resv[req[r].target].status = reply[r].status
    BY <1>4 DEF GoodAnswer
  <2>3. resv[req[r].target].status \in Status
    BY <1>0, <2>1, <2>2 DEF Row
  <2>4. /\ resv'[req[r].target].status # Absent
        /\ reply[r].status # "reserved" => resv'[req[r].target] = resv[req[r].target]
    BY <2>1, <2>2, <2>3, RowsAge
  <2> QED BY <1>4, <2>2, <2>4 DEF GoodAnswer
<1>5. req[r].op \in {"quantity", "seats", "get", "cancel", "confirm"}
  <2>1. req[r] \in Payload
    BY <1>0 DEF Payloads
  <2> QED BY <2>1 DEF Payload, QuantityPayload, SeatsPayload, LifecyclePayload
<1> QED
  BY <1>1, <1>2, <1>3, <1>4, <1>5 DEF GoodAnswer

\* What the reserve handlers answer with success.
LEMMA ReserveAnswers ==
  ASSUME RowInv, OneRowPerKey', NEW r \in Requests, req[r].op \in {"quantity", "seats"},
         req' = req, pc'[r] # "g_children",
         \/ pc'[r] # "done"
         \/ reply'[r].code # "OK"
         \/ reply'[r] = Replay(r) /\ Replays(r) # {} /\ resv' = resv
         \/ reply'[r] = Created(r) /\ resv'[r].status = "reserved"
  PROVE  GoodAnswer(r)'
<1> SUFFICES ASSUME pc'[r] = "done", reply'[r].code = "OK"
             PROVE  LET x == reply'[r].id
                    IN /\ resv'[x].status # Absent /\ req[x].op = req[r].op
                       /\ {y \in SameKey(r) \cup {r} : resv'[y].status # Absent} = {x}
  BY DEF GoodAnswer, SameKey
<1>0. SameKey(r)' = SameKey(r)
  BY DEF SameKey
<1>1. \A x \in SameKey(r) \cup {r} : resv'[x].status # Absent =>
        {y \in SameKey(r) \cup {r} : resv'[y].status # Absent} = {x}
  BY <1>0 DEF OneRowPerKey
<1>2. CASE reply'[r] = Replay(r) /\ Replays(r) # {} /\ resv' = resv
  <2>1. (CHOOSE x \in Replays(r) : TRUE) \in Replays(r)
    BY <1>2
  <2>2. reply'[r].id \in Replays(r)
    BY <1>2, <2>1 DEF Replay
  <2>3. /\ reply'[r].id \in SameKey(r) /\ req[reply'[r].id].op = req[r].op
        /\ Children(resv[reply'[r].id]) # {}
    BY <2>2 DEF Replays
  <2>4. resv'[reply'[r].id].status # Absent
    BY <1>2, <2>3, ChildrenShowRow DEF SameKey
  <2> QED BY <1>1, <2>3, <2>4
<1>3. CASE reply'[r] = Created(r) /\ resv'[r].status = "reserved"
  <2>1. reply'[r].id = r /\ resv'[r].status # Absent
    BY <1>3 DEF Created, Absent
  <2> QED BY <1>1, <2>1
<1> QED
  BY <1>2, <1>3

\* The commit of a reserve publishes the row it has inserted.
LEMMA CommitPublishes ==
  ASSUME RowInv, NEW r \in Requests, pc[r] \in Inserting, Commit(r)
  PROVE  resv'[r].status = "reserved"
BY DEF RowInv, InsertedRows, Inserted, Commit

\* A reserve of either kind answers with the one row of its key.
LEMMA QuantityAnswers ==
  ASSUME Inv, RowInv, RowInv', NEW r \in Requests, QuantityReserve(r)
  PROVE  GoodAnswer(r)'
<1>0. /\ pc \in [Process -> Label] /\ reply \in [Requests -> Reply] /\ r \in Process
      /\ req' = req
  BY DEF Inv, TypeOK, LocalsOK, Process, QuantityReserve, QuantityLookup, QuantityStock,
     QuantityNoStock, QuantityInsert, QuantityCommit, QuantityResolve, env
<1>1. OneRowPerKey'
  BY KeysHaveOneRow, PTL
<1>2. req[r].op = "quantity"
  BY DEF Inv, StockInv, HandlerMatches, QuantityLabels, QuantityReserve, QuantityLookup,
     QuantityStock, QuantityNoStock, QuantityInsert, QuantityCommit, QuantityResolve
<1>3. CASE QuantityStock(r) \/ QuantityNoStock(r) \/ QuantityInsert(r)
  <2>1. pc'[r] \in {"q_insert", "q_resolve", "q_commit"}
    BY <1>0, <1>3 DEF QuantityStock, QuantityNoStock, QuantityInsert, Goto
  <2> QED BY <1>0, <1>1, <1>2, <2>1, ReserveAnswers
<1>4. CASE QuantityLookup(r)
  <2>1. \/ pc'[r] = "q_stock"
        \/ pc'[r] = "done" /\ reply'[r] = Replay(r) /\ Replays(r) # {} /\ resv' = resv
    BY <1>0, <1>4 DEF QuantityLookup, Done, Goto, tables
  <2> QED BY <1>0, <1>1, <1>2, <2>1, ReserveAnswers
<1>5. CASE QuantityCommit(r)
  <2>1. pc'[r] = "done" /\ reply'[r] = Created(r) /\ resv'[r].status = "reserved"
    BY <1>0, <1>5, CommitPublishes DEF QuantityCommit, Done, Inserting
  <2> QED BY <1>0, <1>1, <1>2, <2>1, ReserveAnswers
<1>6. CASE QuantityResolve(r)
  <2>1. /\ pc'[r] = "done" /\ resv' = resv
        /\ \/ reply'[r] = Replay(r) /\ Replays(r) # {}
           \/ reply'[r].code # "OK"
    BY <1>0, <1>6 DEF QuantityResolve, Done, tables, Answer
  <2> QED BY <1>0, <1>1, <1>2, <2>1, ReserveAnswers
<1> QED
  BY <1>3, <1>4, <1>5, <1>6 DEF QuantityReserve

\* The same for seats.
LEMMA SeatsAnswers ==
  ASSUME Inv, RowInv, RowInv', NEW r \in Requests, SeatsReserve(r)
  PROVE  GoodAnswer(r)'
<1>0. /\ pc \in [Process -> Label] /\ reply \in [Requests -> Reply] /\ r \in Process
      /\ req' = req
  BY DEF Inv, TypeOK, LocalsOK, Process, SeatsReserve, SeatsLookup, SeatsLock, SeatsMissing,
     SeatsStale, SeatsLockParent, SeatsExpire, SeatsInsert, SeatsHold, SeatsCommit,
     SeatsResolve, env
<1>1. OneRowPerKey'
  BY KeysHaveOneRow, PTL
<1>2. req[r].op = "seats"
  BY DEF Inv, StockInv, HandlerMatches, SeatsLabels, SeatsReserve, SeatsLookup, SeatsLock,
     SeatsMissing, SeatsStale, SeatsLockParent, SeatsExpire, SeatsInsert, SeatsHold,
     SeatsCommit, SeatsResolve
<1>3. CASE \/ SeatsLock(r) \/ SeatsStale(r) \/ SeatsLockParent(r) \/ SeatsExpire(r)
           \/ SeatsInsert(r) \/ SeatsHold(r)
  <2>1. pc'[r] \notin {"done", "g_children"}
    BY <1>0, <1>3 DEF SeatsLock, SeatsStale, SeatsLockParent, SeatsExpire, SeatsInsert,
       SeatsHold, Goto
  <2> QED BY <1>0, <1>1, <1>2, <2>1, ReserveAnswers
<1>4. CASE SeatsLookup(r)
  <2>1. \/ pc'[r] = "s_lock"
        \/ pc'[r] = "done" /\ reply'[r] = Replay(r) /\ Replays(r) # {} /\ resv' = resv
    BY <1>0, <1>4 DEF SeatsLookup, Done, Goto, tables
  <2> QED BY <1>0, <1>1, <1>2, <2>1, ReserveAnswers
<1>5. CASE SeatsCommit(r)
  <2>1. pc'[r] = "done" /\ reply'[r] = Created(r) /\ resv'[r].status = "reserved"
    BY <1>0, <1>5, CommitPublishes DEF SeatsCommit, Done, Inserting
  <2> QED BY <1>0, <1>1, <1>2, <2>1, ReserveAnswers
<1>6. CASE SeatsResolve(r) \/ SeatsMissing(r)
  <2>1. /\ pc'[r] = "done" /\ resv' = resv
        /\ \/ reply'[r] = Replay(r) /\ Replays(r) # {}
           \/ reply'[r].code # "OK"
    BY <1>0, <1>6 DEF SeatsResolve, SeatsMissing, Rollback, Done, tables, Answer
  <2> QED BY <1>0, <1>1, <1>2, <2>1, ReserveAnswers
<1> QED
  BY <1>3, <1>4, <1>5, <1>6 DEF SeatsReserve

\* Cancel and confirm answer with the settled row and its children; get with
\* children that agree with each other and with a settled header.
LEMMA LifecycleAnswers ==
  ASSUME Inv, RowInv, NEW r \in Requests, GoodAnswer(r), Lifecycle(r)
  PROVE  GoodAnswer(r)'
<1> DEFINE x == req[r].target
<1>0. /\ pc \in [Process -> Label] /\ reply \in [Requests -> Reply] /\ r \in Process
      /\ req' = req /\ req \in Payloads /\ resv \in [Requests -> Row]
  BY DEF Inv, TypeOK, LocalsOK, EnvOK, TablesOK, Process, Lifecycle, NotFound,
     LifecycleSettled, LifecycleLock, LifecycleMove, LifecycleConflict, LifecycleCommit,
     GetParent, GetChildren, env
<1>a. /\ pc[r] \in LifecycleLabels => req[r].op \in {"cancel", "confirm"}
      /\ pc[r] \in GetLabels => req[r].op = "get"
  BY DEF Inv, StockInv, HandlerMatches
<1>b. pc[r] \in LifecycleLabels \cup GetLabels => x \in Requests
  BY <1>0, <1>a, PayloadFields
<1>c. \A y \in Requests : resv[y].status # Absent => Children(resv[y]) = {resv[y].status}
  BY <1>0, ChildrenOf DEF RowInv, ParentChildAgreement
<1>1. CASE NotFound(r) \/ LifecycleConflict(r)
  <2>1. pc'[r] = "done" /\ reply'[r].code # "OK"
    BY <1>0, <1>1 DEF NotFound, LifecycleConflict, Done, Refused, Answer
  <2> QED BY <2>1 DEF GoodAnswer
<1>2. CASE LifecycleSettled(r)
  <2>1. /\ pc[r] = "l_lock" /\ pc'[r] = "done" /\ resv' = resv /\ resv[x].status # Absent
        /\ reply'[r] = IF resv[x].status = Wanted(r) THEN Detail(x, resv[x]) ELSE Refused(r)
    BY <1>0, <1>2 DEF LifecycleSettled, Done, tables, Owned
  <2>2. x \in Requests /\ req[r].op \in {"cancel", "confirm"}
    BY <1>a, <1>b, <2>1 DEF LifecycleLabels
  <2>3. CASE resv[x].status = Wanted(r)
    <3>1. reply'[r].children = {Wanted(r)} /\ Children(resv[x]) = {Wanted(r)}
      BY <1>c, <2>1, <2>2, <2>3 DEF Detail
    <3> QED BY <1>0, <2>1, <2>2, <2>3, <3>1 DEF GoodAnswer, Wanted
  <2>4. CASE resv[x].status # Wanted(r)
    BY <2>1, <2>4 DEF GoodAnswer, Refused, Answer
  <2> QED BY <2>3, <2>4
<1>3. CASE LifecycleLock(r) \/ LifecycleMove(r)
  <2>1. pc'[r] \in {"l_move", "l_commit"}
    BY <1>0, <1>3 DEF LifecycleLock, LifecycleMove, Goto
  <2> QED BY <2>1 DEF GoodAnswer
<1>4. CASE LifecycleCommit(r)
  <2>1. /\ pc[r] = "l_commit" /\ pc'[r] = "done" /\ Commit(r)
        /\ reply'[r] = IF goal[r] = "expired" THEN Refused(r) ELSE Detail(x, resvW[x])
    BY <1>0, <1>4 DEF LifecycleCommit, Done
  <2>2. x \in Requests /\ req[r].op \in {"cancel", "confirm"}
    BY <1>a, <1>b, <2>1 DEF LifecycleLabels
  <2>3. CASE goal[r] = "expired"
    BY <2>1, <2>3 DEF GoodAnswer, Refused, Answer
  <2>4. CASE goal[r] # "expired"
    <3>1. resvLock[x] = r /\ resv[x].status = "reserved" /\ resvW[x].status = Wanted(r)
      BY <2>1, <2>4 DEF RowInv, Intents
    <3>2. resv'[x] = resvW[x] /\ Agrees(x, resvW[x], {})
      BY <2>1, <2>2, <3>1, ReservedIsSettledIn DEF Commit
    <3>3. resvW[x].status # Absent
      BY <3>1 DEF Wanted, Absent
    <3>4. Children(resvW[x]) = {Wanted(r)}
      BY <1>0, <2>2, <3>1, <3>2, <3>3, ChildrenOf
    <3>5. reply'[r].children = {Wanted(r)}
      BY <2>1, <2>4, <3>4 DEF Detail
    <3> QED BY <1>0, <2>1, <2>2, <3>1, <3>2, <3>4, <3>5 DEF GoodAnswer, Wanted
  <2> QED BY <2>3, <2>4
<1>5. CASE GetParent(r)
  <2>1. /\ pc'[r] = "g_children" /\ resv' = resv /\ resv[x].status # Absent
        /\ reply'[r].status = resv[x].status
    BY <1>0, <1>5 DEF GetParent, Goto, tables, Owned, Reply
  <2> QED BY <1>0, <2>1 DEF GoodAnswer
<1>6. CASE GetChildren(r)
  <2>1. /\ pc[r] = "g_children" /\ pc'[r] = "done" /\ resv' = resv
        /\ reply'[r].status = reply[r].status
        /\ reply'[r].children = Children(resv[x])
    BY <1>0, <1>6 DEF GetChildren, Done, tables, Reply
  <2>2. x \in Requests /\ req[r].op = "get"
    BY <1>a, <1>b, <2>1 DEF GetLabels
  <2>3. /\ resv[x].status # Absent
        /\ reply[r].status # "reserved" => resv[x].status = reply[r].status
    BY <2>1 DEF GoodAnswer
  <2>4. reply'[r].children = {resv[x].status}
    BY <1>c, <2>1, <2>2, <2>3
  <2>5. Cardinality(reply'[r].children) = 1
    BY <2>4, FS_Singleton
  <2> QED BY <1>0, <2>1, <2>2, <2>3, <2>4, <2>5 DEF GoodAnswer
<1> QED
  BY <1>1, <1>2, <1>3, <1>4, <1>5, <1>6 DEF Lifecycle

\* A step of p answers nobody else and asks nothing new.
LEMMA OneAnswer ==
  ASSUME Inv, NEW p \in Process,
         \/ p \in Requests /\ Serve(p)
         \/ p \in Workers /\ ExpireBatch(p)
         \/ Abort(p)
  PROVE  req' = req /\ \A r \in Requests \ {p} : pc'[r] = pc[r] /\ reply'[r] = reply[r]
<1>0. pc \in [Process -> Label] /\ reply \in [Requests -> Reply] /\ Requests \subseteq Process
  BY DEF Inv, TypeOK, LocalsOK, Process
<1>1. CASE p \in Requests /\ QuantityReserve(p)
  BY <1>0, <1>1 DEF QuantityReserve, QuantityLookup, QuantityStock, QuantityNoStock,
     QuantityInsert, QuantityCommit, QuantityResolve, Done, Goto, env
<1>2. CASE p \in Requests /\ SeatsReserve(p)
  BY <1>0, <1>2 DEF SeatsReserve, SeatsLookup, SeatsLock, SeatsMissing, SeatsStale,
     SeatsLockParent, SeatsExpire, SeatsInsert, SeatsHold, SeatsCommit, SeatsResolve,
     Done, Goto, env
<1>3. CASE p \in Requests /\ Lifecycle(p)
  BY <1>0, <1>3 DEF Lifecycle, NotFound, LifecycleSettled, LifecycleLock, LifecycleMove,
     LifecycleConflict, LifecycleCommit, GetParent, GetChildren, Done, Goto, env
<1>4. CASE p \in Workers /\ ExpireBatch(p)
  BY <1>0, <1>4 DEF ExpireBatch, WorkerIdle, WorkerLock, WorkerMove, WorkerCommit, Goto,
     locals, env
<1>5. CASE Abort(p)
  BY <1>0, <1>5 DEF Abort, Goto
<1> QED
  BY <1>1, <1>2, <1>3, <1>4, <1>5 DEF Serve

\* Every step keeps every answer right.
LEMMA NextKeepsAnswers ==
  ASSUME Inv, RowInv, RowInv', AnswerInv, [Next]_vars
  PROVE  AnswerInv'
<1>0. Requests \subseteq Process /\ \A w \in Workers, r \in Requests : w # r
  BY StoreAssumption DEF Process
<1>a. \A r \in Requests : GoodAnswer(r)
  BY DEF AnswerInv
<1>1. ASSUME NEW r \in Requests, req' = req, pc'[r] = pc[r], reply'[r] = reply[r]
      PROVE  GoodAnswer(r)'
  BY <1>a, <1>1, AnswerStands
<1>2. ASSUME NEW p \in Requests, Serve(p) PROVE AnswerInv'
  <2>1. GoodAnswer(p)'
    BY <1>2, <1>a, QuantityAnswers, SeatsAnswers, LifecycleAnswers DEF Serve
  <2>2. req' = req /\ \A r \in Requests \ {p} : pc'[r] = pc[r] /\ reply'[r] = reply[r]
    BY <1>0, <1>2, OneAnswer
  <2> QED BY <1>1, <2>1, <2>2 DEF AnswerInv
<1>3. ASSUME NEW w \in Workers, ExpireBatch(w) PROVE AnswerInv'
  <2>1. req' = req /\ \A r \in Requests \ {w} : pc'[r] = pc[r] /\ reply'[r] = reply[r]
    BY <1>3, OneAnswer DEF Process
  <2> QED BY <1>0, <1>1, <2>1 DEF AnswerInv
<1>4. ASSUME NEW p \in Process, Abort(p) PROVE AnswerInv'
  <2>1. req' = req /\ \A r \in Requests \ {p} : pc'[r] = pc[r] /\ reply'[r] = reply[r]
    BY <1>4, OneAnswer
  <2>2. ASSUME p \in Requests PROVE GoodAnswer(p)'
    <3>1. pc'[p] = "done" /\ reply'[p].code # "OK"
      BY <1>0, <1>4, <2>2, StoreAssumption
      DEF Abort, Goto, Answer, Inv, TypeOK, LocalsOK, Process
    <3> QED BY <3>1 DEF GoodAnswer
  <2> QED BY <1>1, <2>1, <2>2 DEF AnswerInv
<1>5. CASE UNCHANGED <<locals, req>>
  BY <1>1, <1>5 DEF locals, AnswerInv
<1>6. CASE UNCHANGED vars \/ Tick \/ AllAnswered
  BY <1>5, <1>6 DEF vars, env, Tick, AllAnswered
<1>7. CASE Next
  BY <1>2, <1>3, <1>4, <1>6, <1>7 DEF Next, Crash, DeadlockVictim
<1> QED
  BY <1>6, <1>7

\* The invariant of the answers, on top of those of stock and rows.
THEOREM AnswerInvariant == Spec => []AnswerInv
<1>1. Init => AnswerInv
  <2>1. Init => \A r \in Requests : reply[r].code # "OK" /\ pc[r] # "g_children"
    <3> SUFFICES ASSUME Init, NEW r \in Requests
                 PROVE  reply[r].code # "OK" /\ pc[r] # "g_children"
      OBVIOUS
    <3>1. req[r] \in Payload
      BY StoreAssumption DEF Init, Payloads
    <3>2. req[r].op \in {"quantity", "seats", "get", "cancel", "confirm"}
      BY <3>1 DEF Payload, QuantityPayload, SeatsPayload, LifecyclePayload
    <3>3. pc[r] \in {"done", Entry(req[r].op)}
      BY StoreAssumption DEF Init, InitWith, Process
    <3>4. pc[r] # "g_children"
      BY <3>2, <3>3 DEF Entry
    <3>5. reply[r] = Answer("PENDING")
      BY DEF Init, InitWith
    <3>6. reply[r].code # "OK"
      BY <3>5 DEF Answer
    <3> QED BY <3>4, <3>6
  <2> QED BY <2>1 DEF AnswerInv, GoodAnswer
<1>2. (Inv /\ RowInv) /\ (Inv /\ RowInv)' /\ AnswerInv /\ [Next]_vars => AnswerInv'
  BY NextKeepsAnswers
<1> QED
  BY <1>1, <1>2, RowInvariant, PTL DEF Spec

\* However many requests with one key of one visitor session race, fail or are
\* retried, each that is answered with success is told of the only reservation
\* committed under that key, and it is of the kind it asked for.
THEOREM OneReservationPerKey == Spec => []IdempotentReplies
<1>1. AnswerInv => IdempotentReplies
  BY DEF AnswerInv, GoodAnswer, IdempotentReplies
<1> QED
  BY <1>1, AnswerInvariant, PTL

\* A cancel or confirm that was answered with success is in the committed rows,
\* header and children, and stays there.
THEOREM AcknowledgedStays == Spec => []AcknowledgedIsDurable
<1>1. AnswerInv => AcknowledgedIsDurable
  BY DEF AnswerInv, GoodAnswer, AcknowledgedIsDurable
<1> QED
  BY <1>1, AnswerInvariant, PTL

\* Although GET reads the header and the children in two statements, the detail
\* it answers never mixes statuses, unless the header was still reserved.
THEOREM GetShowsOneStatus == Spec => []GetIsCoherent
<1>1. AnswerInv => GetIsCoherent
  BY DEF AnswerInv, GoodAnswer, GetIsCoherent
<1> QED
  BY <1>1, AnswerInvariant, PTL

-----------------------------------------------------------------------------
(* The reservation services implement the box office: each commit is one of  *)
(* its steps, every other statement none, for every set of requests, workers, *)
(* seats and ticket types and every value of the other constants.             *)

\* The book the box office would see.
Booked == [x \in Requests |-> resv[x].status]
Due == [x \in Requests |-> resv[x].expires]

\* The reservations other than r that a commit changes.
Swept(r) == {x \in Requests \ {r} : resv'[x] # resv[x]}

\* A transaction that expires reservations sweeps overdue ones only.
LEMMA SweptAreOverdue ==
  ASSUME Inv, RowInv, NEW p \in Process, Commit(p), Destination(p) = "expired",
         NEW x \in Requests, x # p, resv'[x] # resv[x]
  PROVE  /\ resv[x].status = "reserved" /\ resv[x].expires <= now
         /\ resv'[x].status = "expired" /\ resv'[x].expires = resv[x].expires
<1>1. resvLock[x] = p /\ resv'[x] = resvW[x]
  BY DEF Commit
<1>2. MovedOut(x)
  BY <1>1 DEF RowInv, WrittenRows, Inserted
<1> QED
  BY <1>1, <1>2 DEF MovedOut

\* Both modules count alike.
LEMMA SameCount == \A S : Office!Cardinality(S) = Cardinality(S)
BY DEF Office!Cardinality, Cardinality, Office!IsFiniteSet, IsFiniteSet

\* An item has the status of its header.
LEMMA ItemFollows ==
  ASSUME NEW x \in Requests, req[x].op = "quantity", NEW row, Agrees(x, row, {})
  PROVE  row.item = row.status
<1>1. CASE row.status = Absent
  <2>1. row = NoRow
    BY <1>1 DEF Agrees
  <2> QED BY <2>1 DEF NoRow
<1>2. CASE row.status # Absent
  BY <1>2 DEF Agrees
<1> QED
  BY <1>1, <1>2

\* The units of reserved and confirmed items are those of active reservations.
LEMMA AllottedUnits ==
  ASSUME req \in Payloads, NEW rows, NEW t,
         \A x \in Requests : Agrees(x, rows[x], {})
  PROVE  Cardinality(Office!Allotted([x \in Requests |-> rows[x].status], t))
           = Cardinality(Units(rows, t, "reserved")) + Cardinality(Units(rows, t, "confirmed"))
<1> DEFINE R == Units(rows, t, "reserved")
           C == Units(rows, t, "confirmed")
<1>1. IsFiniteSet(R) /\ IsFiniteSet(C) /\ Cardinality(R) \in Nat /\ Cardinality(C) \in Nat
  BY UnitsFinite
<1>2. R \cap C = {}
  BY DEF Units
<1>3. \A x \in Requests : req[x].op = "quantity" => rows[x].item = rows[x].status
  BY ItemFollows
<1>4. Office!Allotted([x \in Requests |-> rows[x].status], t) = R \cup C
  BY <1>3 DEF Office!Allotted, Office!Active, Units
<1>5. Cardinality(R \cup C) = Cardinality(R) + Cardinality(C) - Cardinality(R \cap C)
  BY <1>1, FS_Union
<1>6. Cardinality(R \cap C) = 0
  BY <1>2, FS_EmptySet
<1>7. \A a, b \in Nat : a + b - 0 = a + b
  OBVIOUS
<1>8. Cardinality(R \cup C) = Cardinality(R) + Cardinality(C) - 0
  BY <1>5, <1>6, Zenon
<1>9. Cardinality(R) + Cardinality(C) - 0 = Cardinality(R) + Cardinality(C)
  BY <1>1, <1>7, Zenon
<1> QED
  BY <1>4, <1>8, <1>9, Zenon

\* The insert of a reservation under a key that has none.
LEMMA KeyIsUnused ==
  ASSUME Inv, RowInv, NEW r \in Requests, pc[r] \in Inserting
  PROVE  Office!KeyUnused(r)
<1>1. resvW[r].status # Absent
  BY DEF RowInv, InsertedRows, Inserted, Absent
<1>2. \A x \in SameKey(r) : resvW[x].status = Absent
  BY <1>1 DEF RowInv, KeysUnique
<1>3. \A x \in SameKey(r) : resv[x].status = Absent
  BY <1>2, RowsStay DEF RowInv, SameKey
<1> QED
  BY <1>3 DEF Office!KeyUnused, Office!Takes, SameKey, Absent

\* What the commit of a reserve writes, in the terms of the box office.
LEMMA ReserveMaps ==
  ASSUME Inv, RowInv, NEW r \in Requests, pc[r] \in Inserting,
         req[r].op \in {"quantity", "seats"}, Commit(r), UNCHANGED <<req, now>>
  PROVE  /\ Office!Takes(r) /\ Booked[r] = "absent" /\ Office!KeyUnused(r)
         /\ Swept(r) \in SUBSET (Requests \ {r}) /\ Office!Overdue(Swept(r))
         /\ Booked' = [Office!Expired(Swept(r)) EXCEPT ![r] = "reserved"]
         /\ \E e \in TTL..(now + TTL) : Due' = [Due EXCEPT ![r] = e]
         /\ \A x \in Requests \ {r} : Office!Expired(Swept(r))[x] = resv'[x].status
<1>0. r \in Process /\ Destination(r) = "expired"
  BY DEF Process, Destination, Inserting
<1>1. /\ resv[r] = NoRow /\ resv'[r] = resvW[r] /\ resvW[r].status = "reserved"
      /\ resvW[r].expires = stamp[r]
      /\ TTL <= stamp[r] /\ stamp[r] <= now + TTL
  BY DEF RowInv, InsertedRows, Inserted, Commit
<1>2. \A x \in Swept(r) : /\ resv[x].status = "reserved" /\ resv[x].expires <= now
                          /\ resv'[x].status = "expired" /\ resv'[x].expires = resv[x].expires
  BY <1>0, SweptAreOverdue DEF Swept
<1>3. Office!Overdue(Swept(r))
  BY <1>2 DEF Office!Overdue, Swept
<1>4. \A x \in Requests \ {r} : Office!Expired(Swept(r))[x] = resv'[x].status
  BY <1>2 DEF Office!Expired, Swept
<1>5. Booked' = [Office!Expired(Swept(r)) EXCEPT ![r] = "reserved"]
  BY <1>1, <1>4 DEF Booked, Office!Expired
<1>6. Due' = [Due EXCEPT ![r] = stamp[r]]
  BY <1>1, <1>2 DEF Due, Swept
<1>7. stamp[r] \in TTL..(now + TTL)
  BY <1>1, StoreAssumption DEF Inv, TypeOK, LocalsOK, EnvOK
<1>8. Booked[r] = "absent" /\ Office!Takes(r)
  BY <1>1 DEF Booked, NoRow, Absent, Office!Takes
<1> QED
  BY <1>3, <1>4, <1>5, <1>6, <1>7, <1>8, KeyIsUnused DEF Swept

\* The commit of a quantity reservation is a Reserve that finds room.
LEMMA QuantityReserves ==
  ASSUME Inv, RowInv, (Inv /\ RowInv)', NeverOversold', NEW r \in Requests, QuantityCommit(r)
  PROVE  Office!Reserve(r)
<1> DEFINE t == req[r].ticket
           st == Office!Expired(Swept(r))
<1>0. /\ pc[r] = "q_commit" /\ Commit(r) /\ UNCHANGED <<req, now>> /\ req \in Payloads
      /\ r \in Process /\ r \notin Workers /\ r # None
  BY StoreAssumption DEF QuantityCommit, env, Inv, TypeOK, EnvOK, Process
<1>1. req[r].op = "quantity"
  BY <1>0 DEF Inv, StockInv, HandlerMatches, QuantityLabels
<1>2. t \in TicketTypes /\ req[r].quantity \in Nat
  BY <1>0, <1>1, PayloadFields
<1>3. ASSUME NEW x \in Requests \ {r} PROVE resv'[x] = resv[x]
  <2>1. resvLock[x] # r
    BY <1>0 DEF RowInv, RowLocks, Entitled
  <2> QED BY <1>0, <2>1 DEF Commit
<1>4. Swept(r) = {}
  BY <1>3 DEF Swept
<1>5. resv[r] = NoRow /\ resv'[r] = resvW[r] /\ resvW[r].status = "reserved"
  BY <1>0 DEF RowInv, InsertedRows, Inserted, Commit, Inserting
<1>6. \A x \in Requests : Agrees(x, resv[x], {}) /\ Agrees(x, resv'[x], {})
  BY <1>0 DEF RowInv, ParentChildAgreement, Agrees
<1>7. resv[r].item = Absent /\ resv'[r].item = "reserved"
  BY <1>1, <1>5, <1>6, ItemFollows DEF NoRow
<1>8. Cardinality(Units(resv', t, "reserved"))
        = Cardinality(Units(resv, t, "reserved")) + req[r].quantity
  <2>1. Enters(resv, resv', r, "reserved")
    BY <1>3, <1>7 DEF Enters, Absent
  <2> QED BY <1>0, <1>1, <2>1, OneItem
<1>9. Units(resv', t, "confirmed") = Units(resv, t, "confirmed")
  BY <1>3, <1>7, UnitsEqual DEF Absent
<1>10. /\ tickets'[t].reserved = Cardinality(Units(resv', t, "reserved"))
       /\ tickets'[t].sold = Cardinality(Units(resv', t, "confirmed"))
       /\ tickets'[t].sold + tickets'[t].reserved <= Total[t]
  <2>1. \A y, st0 : Units(resv, y, st0)' = Units(resv', y, st0)
    BY <1>0 DEF Units
  <2>2. StockAccounting'
    BY DEF Inv, StockInv
  <2> QED BY <1>2, <2>1, <2>2 DEF StockAccounting, NeverOversold
<1>11. st = [x \in Requests |-> resv[x].status]
  BY <1>4 DEF Office!Expired
<1>12. Cardinality(Office!Allotted(st, t))
         = Cardinality(Units(resv, t, "reserved")) + Cardinality(Units(resv, t, "confirmed"))
  BY <1>0, <1>6, <1>11, AllottedUnits
<1>13. Cardinality(Office!Allotted(st, t)) + req[r].quantity <= Total[t]
  <2>1. /\ Cardinality(Units(resv, t, "reserved")) \in Nat
        /\ Cardinality(Units(resv, t, "confirmed")) \in Nat
        /\ Total[t] \in Nat
    BY <1>2, UnitsFinite, StoreAssumption
  <2> QED BY <1>2, <1>8, <1>9, <1>10, <1>12, <2>1
<1>14. Office!HasRoom(st, r)
  <2>1. Office!Cardinality(Office!Allotted(st, t)) = Cardinality(Office!Allotted(st, t))
    BY SameCount
  <2> QED BY <1>1, <1>13, <2>1 DEF Office!HasRoom
<1> QED
  BY <1>0, <1>1, <1>14, ReserveMaps DEF Office!Reserve, Inserting, Booked, Due

\* The commit of a seat reservation is a Reserve that sweeps the overdue ones out
\* of its way and then finds its seats free.
LEMMA SeatsReserves ==
  ASSUME Inv, RowInv, (Inv /\ RowInv)', NEW r \in Requests, SeatsCommit(r)
  PROVE  Office!Reserve(r)
<1> DEFINE st == Office!Expired(Swept(r))
<1>0. pc[r] = "s_commit" /\ Commit(r) /\ UNCHANGED <<req, now>> /\ req \in Payloads
  BY DEF SeatsCommit, env, Inv, TypeOK, EnvOK
<1>1. req[r].op = "seats"
  BY <1>0 DEF Inv, StockInv, HandlerMatches, SeatsLabels
<1>2. resv'[r].status = "reserved"
  BY <1>0, CommitPublishes DEF Inserting
<1>3. \A x \in Requests \ {r} : st[x] = resv'[x].status
  BY <1>0, <1>1, ReserveMaps DEF Inserting
<1>4. \A x \in Requests : Agrees(x, resv'[x], {})
  BY <1>0 DEF RowInv, ParentChildAgreement, Agrees
<1>5. ASSUME NEW x \in Requests, req[x].op = "seats", resv'[x].status \in Active,
             NEW s \in req[x].seats
      PROVE  s \in Seats /\ resv'[x].hold[s] \in Active
  <2>1. s \in Seats
    BY <1>0, <1>5, SeatsAsked
  <2>2. resv'[x].hold = [z \in Seats |-> IF z \in req[x].seats \ {}
                                         THEN resv'[x].status ELSE Absent]
    BY <1>4, <1>5 DEF Agrees, Active, Absent
  <2> QED BY <1>5, <2>1, <2>2
<1>6. ASSUME NEW x \in Requests \ {r}, req[x].op = "seats", st[x] \in Active
      PROVE  req[x].seats \cap req[r].seats = {}
  <2> SUFFICES ASSUME NEW s \in req[x].seats, s \in req[r].seats PROVE FALSE
    OBVIOUS
  <2>1. s \in Seats /\ resv'[x].hold[s] \in Active /\ resv'[r].hold[s] \in Active
    BY <1>1, <1>2, <1>3, <1>5, <1>6 DEF Active
  <2> QED BY <2>1 DEF RowInv, NoDoubleSeat
<1>7. Office!HasRoom(st, r)
  BY <1>1, <1>6 DEF Office!HasRoom, Office!Active, Active
<1> QED
  BY <1>0, <1>1, <1>7, ReserveMaps DEF Office!Reserve, Inserting, Booked, Due

\* The commit of a cancel or confirm settles its target for its owner, or expires
\* it when the deadline had passed.
LEMMA LifecycleSettles ==
  ASSUME Inv, RowInv, NEW r \in Requests, LifecycleCommit(r)
  PROVE  Office!Settled(r) \/ Office!Expire
<1> DEFINE x == req[r].target
<1>0. /\ pc[r] = "l_commit" /\ Commit(r) /\ UNCHANGED <<req, now>> /\ req \in Payloads
      /\ r \in Process /\ r \notin Workers /\ r # None
      /\ resv \in [Requests -> Row] /\ now \in Nat
  BY StoreAssumption DEF LifecycleCommit, env, Inv, TypeOK, EnvOK, TablesOK, Process
<1>1. req[r].op \in {"cancel", "confirm"} /\ x \in Requests
  BY <1>0, PayloadFields DEF Inv, StockInv, HandlerMatches, LifecycleLabels
<1>2. /\ resvLock[x] = r /\ resv[x].status = "reserved" /\ Owned(r, x)
      /\ goal[r] \in {"expired", Wanted(r)} /\ resvW[x].status = goal[r]
      /\ goal[r] = "expired" => resv[x].expires < now
  BY <1>0 DEF RowInv, Intents
<1>3. ASSUME NEW y \in Requests \ {x} PROVE resv'[y] = resv[y]
  <2>1. resvLock[y] # r
    BY <1>0, <1>3 DEF RowInv, RowLocks, Entitled, Inserting
  <2> QED BY <1>0, <2>1 DEF Commit
<1>4. resv'[x] = resvW[x] /\ resvW[x].expires = resv[x].expires
  BY <1>0, <1>1, <1>2, RowsStay DEF Commit, RowInv, Absent
<1>5. Booked' = [Booked EXCEPT ![x] = goal[r]]
  BY <1>1, <1>2, <1>3, <1>4 DEF Booked
<1>6. Due' = Due
  BY <1>1, <1>3, <1>4 DEF Due
<1>7. Booked[x] = "reserved" /\ Due[x] = resv[x].expires
  BY <1>1, <1>2 DEF Booked, Due
<1>8. CASE goal[r] = Wanted(r)
  BY <1>0, <1>1, <1>2, <1>5, <1>6, <1>7, <1>8
  DEF Office!Settled, Office!Settle, Owned, Wanted, Booked, Due
<1>9. CASE goal[r] = "expired"
  <2>1. {x} \in (SUBSET Requests) \ {{}}
    BY <1>1
  <2>2. resv[x].expires \in Nat
    BY <1>0, <1>1 DEF Row
  <2>3. Office!Overdue({x})
    BY <1>0, <1>1, <1>2, <1>9, <2>2 DEF Office!Overdue
  <2>4. Booked' = Office!Expired({x})
    BY <1>1, <1>5, <1>9 DEF Office!Expired, Booked
  <2> QED BY <1>0, <1>6, <2>1, <2>3, <2>4 DEF Office!Expire, Booked, Due
<1> QED
  BY <1>2, <1>8, <1>9

\* The commit of a batch expires the overdue reservations it has moved, if any.
LEMMA WorkerExpires ==
  ASSUME Inv, RowInv, NEW w \in Workers, WorkerCommit(w)
  PROVE  Office!Expire \/ UNCHANGED Office!vars
<1> DEFINE S == Swept(w)
<1>0. /\ Commit(w) /\ UNCHANGED <<req, now>> /\ w \in Process /\ w \notin Requests
      /\ Destination(w) = "expired"
  BY StoreAssumption DEF WorkerCommit, env, Process, Destination
<1>1. \A x \in S : /\ resv[x].status = "reserved" /\ resv[x].expires <= now
                   /\ resv'[x].status = "expired" /\ resv'[x].expires = resv[x].expires
  BY <1>0, SweptAreOverdue DEF Swept
<1>2. \A x \in Requests \ S : resv'[x] = resv[x]
  BY <1>0 DEF Swept
<1>3. S \subseteq Requests
  BY DEF Swept
<1>4. Office!Overdue(S)
  BY <1>1, <1>3 DEF Office!Overdue
<1>5. Booked' = Office!Expired(S)
  BY <1>1, <1>2 DEF Booked, Office!Expired
<1>6. Due' = Due
  BY <1>1, <1>2 DEF Due
<1>7. CASE S = {}
  <2>1. Booked' = Booked
    BY <1>2, <1>7 DEF Booked
  <2> QED BY <1>0, <1>6, <2>1 DEF Office!vars, Booked, Due
<1>8. CASE S # {}
  <2>1. S \in (SUBSET Requests) \ {{}}
    BY <1>3, <1>8
  <2> QED BY <1>0, <1>4, <1>5, <1>6, <2>1 DEF Office!Expire, Booked, Due
<1> QED
  BY <1>7, <1>8

\* Every step of the services is a step of the box office or none.
LEMMA NextMaps ==
  ASSUME Inv, RowInv, (Inv /\ RowInv)', NeverOversold', [Next]_vars
  PROVE  [Office!Next]_(Office!vars)
<1>0. req' = req /\ (Tick \/ now' = now)
  BY ClockAndPayloads
<1>1. ASSUME NEW r \in Requests, QuantityCommit(r) \/ SeatsCommit(r) PROVE Office!Next
  BY <1>1, QuantityReserves, SeatsReserves DEF Office!Next
<1>2. ASSUME NEW r \in Requests, LifecycleCommit(r) PROVE Office!Next
  BY <1>2, LifecycleSettles DEF Office!Next
<1>3. ASSUME NEW w \in Workers, WorkerCommit(w) PROVE [Office!Next]_(Office!vars)
  BY <1>3, WorkerExpires DEF Office!Next
<1>4. CASE UNCHANGED resv
  <2>1. Booked' = Booked /\ Due' = Due
    BY <1>4 DEF Booked, Due
  <2>2. CASE Tick
    BY <1>0, <2>1, <2>2 DEF Tick, Office!Next, Office!Tick, Booked, Due
  <2>3. CASE now' = now
    BY <1>0, <2>1, <2>3 DEF Office!vars, Booked, Due
  <2> QED BY <1>0, <2>2, <2>3
<1> QED
  BY <1>1, <1>2, <1>3, <1>4, OnlyCommits

\* The four services and the workers, with their locks, retries, rollbacks,
\* crashes and deadlocks, do what a box office does that reserves, confirms,
\* cancels and expires in one step each and never sells what it does not have.
THEOREM ServicesImplementBoxOffice == Spec => ImplementsBoxOffice
<1>1. Init => Office!Init
  BY DEF Init, InitWith, NoRow, Absent, Office!Init
<1>2. (Inv /\ RowInv) /\ (Inv /\ RowInv)' /\ NeverOversold' /\ [Next]_vars
        => [Office!Next]_(Office!vars)
  BY NextMaps
<1> QED
  BY <1>1, <1>2, RowInvariant, NoOversell, PTL DEF Spec, ImplementsBoxOffice, Office!Spec

=============================================================================
