------------------------ MODULE ReservationRows_proofs ------------------------
(***************************************************************************)
(* Reservations settle once, whole and in time, and share neither a seat   *)
(* nor a key, for every set of requests, workers and seats and every value *)
(* of the constants.                                                       *)
(***************************************************************************)
EXTENDS ReservationSystem_proofs

-----------------------------------------------------------------------------
(* What the invariant says of one row *)

\* The other requests' goals and deadlines stay what they are.
OthersLocals(p) ==
  \A r \in Requests \ {p} : goal'[r] = goal[r] /\ stamp'[r] = stamp[r]

\* A transaction moves reservations to a settled status only.
LEMMA DestinationSettled ==
  ASSUME Intents, NEW p
  PROVE  Destination(p) \in {"cancelled", "confirmed", "expired"}
BY DEF Intents, Destination, Wanted

\* The destination of a transaction that does not move is the same.
LEMMA DestinationKept ==
  ASSUME NEW p \in Process, Alone(p), OthersLocals(p), NEW q, q # p
  PROVE  Destination(q)' = Destination(q)
BY DEF Destination, Alone, OthersLocals, Process

\* A row that was committed stays there, written or not, with its deadline.
LEMMA RowsStay ==
  ASSUME WrittenRows, Intents, NEW x \in Requests, resv[x].status # Absent
  PROVE  resvW[x].status # Absent /\ resvW[x].expires = resv[x].expires
<1>1. ~ Inserted(x)
  BY DEF Inserted, NoRow
<1>2. MovedOut(x) => resvW[x].status # Absent /\ resvW[x].expires = resv[x].expires
  BY DestinationSettled DEF MovedOut, Absent
<1> QED
  BY <1>1, <1>2 DEF WrittenRows

\* Only an open transaction has two versions of a row.
LEMMA TwoVersionsLocked ==
  ASSUME UnlockedIsCommitted, NEW x \in Requests, resvW[x] # resv[x]
  PROVE  resvLock[x] # None
BY DEF UnlockedIsCommitted

-----------------------------------------------------------------------------
(* What each kind of step does to the rows *)

\* What p has written is published.
LEMMA CommitRows ==
  ASSUME Inv, RowInv, NEW p \in Process, Commit(p), Alone(p),
         UNCHANGED <<req, goal, stamp, now>>,
         pc[p] # "s_holds", pc'[p] \in {"done", "w_sleep"}
  PROVE  RowInv'
<1> USE DEF RowInv
<1>0. /\ p # None
      /\ \A x \in Requests :
           /\ resvW'[x] = resvW[x]
           /\ resvLock[x] = p => resv'[x] = resvW[x] /\ resvLock'[x] = None
           /\ resvLock[x] # p => resv'[x] = resv[x] /\ resvLock'[x] = resvLock[x]
  BY StoreAssumption DEF Commit, Unlock
<1>a. OthersLocals(p) /\ \A q \in Process \ {p} : pc'[q] = pc[q] /\ todo'[q] = todo[q]
  BY DEF OthersLocals, Alone
<1>b. \A x \in Requests : pc[x] \in Inserting => resvLock[x] = x
  BY DEF InsertedRows, Inserted
<1>c. UnlockedIsCommitted
  BY DEF Inv, StockInv
<1>1. WrittenRows'
  <2> SUFFICES ASSUME NEW x \in Requests, resvLock[x] # p
               PROVE  (resvW[x] = resv[x] \/ Inserted(x) \/ MovedOut(x))'
    BY <1>0 DEF WrittenRows
  <2>1. CASE resvW[x] = resv[x]
    BY <1>0, <2>1
  <2>2. CASE Inserted(x)
    <3>1. x # p /\ x \in Process
      BY <2>2 DEF Inserted, Process
    <3> QED BY <1>0, <1>a, <2>2, <3>1 DEF Inserted
  <2>3. CASE MovedOut(x)
    <3>1. Destination(resvLock[x])' = Destination(resvLock[x])
      BY <1>0, <1>a, DestinationKept DEF Destination
    <3> QED BY <1>0, <2>3, <3>1 DEF MovedOut
  <2> QED BY <2>1, <2>2, <2>3 DEF WrittenRows
<1>2. InsertedRows'
  <2>1. ASSUME NEW r \in Requests,
               pc'[r] \in Inserting \cup {"q_insert", "s_parents", "s_insert"}
        PROVE  r # p /\ pc'[r] = pc[r]
    BY <1>a, <2>1 DEF Process, Inserting
  <2> QED BY <1>0, <1>b, <2>1 DEF InsertedRows, Inserted
<1>3. WrittenAgreement'
  <2>1. ASSUME NEW x \in Requests
        PROVE  Owed(x)' = Owed(x) /\ (pc'[x] = "s_holds" => pc[x] = "s_holds")
    BY <1>a DEF Owed, Process
  <2> QED BY <1>0, <1>a, <2>1 DEF WrittenAgreement, Agrees, Process
<1>4. ParentChildAgreement'
  <2>1. ASSUME NEW x \in Requests, resvLock[x] = p PROVE Owed(x) = {}
    BY <1>b, <2>1 DEF Owed, Inserting
  <2> QED BY <1>0, <2>1 DEF ParentChildAgreement, WrittenAgreement, Agrees
<1>5. RowLocks'
  <2> SUFFICES ASSUME NEW x \in Requests, resvLock'[x] # None
               PROVE  Entitled(resvLock[x], x)'
    BY <1>0 DEF RowLocks
  <2>1. resvLock[x] # p /\ resvLock[x] # None /\ Entitled(resvLock[x], x)
    BY <1>0 DEF RowLocks
  <2>2. resvLock[x] \in Process /\ resv'[x] = resv[x]
    BY <1>0, <2>1 DEF Inv, TypeOK, TablesOK
  <2>3. pc'[resvLock[x]] = pc[resvLock[x]] /\ resvLock'[x] = resvLock[x]
    BY <1>0, <1>a, <2>1, <2>2
  <2> QED BY <2>1, <2>2, <2>3 DEF Entitled, OverdueHold
<1>d. ASSUME NEW x \in Requests, OverdueHold(x) PROVE OverdueHold(x)'
  BY <1>0, <1>d, RowsStay DEF OverdueHold
<1>6. StaleParents'
  BY <1>a, <1>d DEF StaleParents, Process
<1>7. Intents'
  <2> SUFFICES ASSUME NEW r \in Requests, pc'[r] \in {"l_move", "l_commit"}
               PROVE  LET x == req[r].target
                      IN /\ resvLock'[x] = r /\ resv'[x].status = "reserved" /\ Owned(r, x)'
                         /\ goal'[r] \in {"expired", Wanted(r)'}
                         /\ goal'[r] = "expired" => resv'[x].expires < now'
                         /\ pc'[r] = "l_commit" => resvW'[x].status = goal'[r]
    BY DEF Intents
  <2>1. r # p /\ pc[r] = pc'[r]
    BY <1>a DEF Process
  <2>2. req[r].target \in Requests
    BY <2>1, PayloadFields DEF Inv, StockInv, HandlerMatches, LifecycleLabels, TypeOK, EnvOK
  <2> QED BY <1>0, <2>1, <2>2 DEF Intents, Owned, Wanted
<1>8. KeysUnique'
  BY <1>0 DEF KeysUnique, SameKey
<1>9. NoDoubleSeat'
  BY <1>0 DEF NoDoubleSeat, HoldsApart
<1>10. HoldsApart'
  BY <1>0 DEF NoDoubleSeat, HoldsApart
<1> QED
  BY <1>1, <1>2, <1>3, <1>4, <1>5, <1>6, <1>7, <1>8, <1>9, <1>10

\* What p has written is forgotten.
LEMMA RollbackRows ==
  ASSUME Inv, RowInv, NEW p \in Process, Rollback(p), Alone(p),
         UNCHANGED <<req, goal, stamp, now>>,
         pc'[p] \in {"done", "w_sleep", "q_resolve", "s_resolve"}
  PROVE  RowInv'
<1> USE DEF RowInv
<1>0. /\ p # None
      /\ \A x \in Requests :
           /\ resv'[x] = resv[x]
           /\ resvLock[x] = p => resvW'[x] = resv[x] /\ resvLock'[x] = None
           /\ resvLock[x] # p => resvW'[x] = resvW[x] /\ resvLock'[x] = resvLock[x]
  BY StoreAssumption DEF Rollback, Unlock
<1>a. OthersLocals(p) /\ \A q \in Process \ {p} : pc'[q] = pc[q] /\ todo'[q] = todo[q]
  BY DEF OthersLocals, Alone
<1>b. \A x \in Requests : pc[x] \in Inserting => resvLock[x] = x
  BY DEF InsertedRows, Inserted
<1>1. WrittenRows'
  <2> SUFFICES ASSUME NEW x \in Requests, resvLock[x] # p
               PROVE  (resvW[x] = resv[x] \/ Inserted(x) \/ MovedOut(x))'
    BY <1>0 DEF WrittenRows
  <2>1. CASE resvW[x] = resv[x]
    BY <1>0, <2>1
  <2>2. CASE Inserted(x)
    <3>1. x # p /\ x \in Process
      BY <2>2 DEF Inserted, Process
    <3> QED BY <1>0, <1>a, <2>2, <3>1 DEF Inserted
  <2>3. CASE MovedOut(x)
    <3>1. Destination(resvLock[x])' = Destination(resvLock[x])
      BY <1>0, <1>a, DestinationKept DEF Destination
    <3> QED BY <1>0, <2>3, <3>1 DEF MovedOut
  <2> QED BY <2>1, <2>2, <2>3 DEF WrittenRows
<1>2. InsertedRows'
  <2>1. ASSUME NEW r \in Requests,
               pc'[r] \in Inserting \cup {"q_insert", "s_parents", "s_insert"}
        PROVE  r # p /\ pc'[r] = pc[r]
    BY <1>a, <2>1 DEF Process, Inserting
  <2> QED BY <1>0, <1>b, <2>1 DEF InsertedRows, Inserted
<1>3. WrittenAgreement'
  <2> SUFFICES ASSUME NEW x \in Requests
               PROVE  /\ Agrees(x, resvW[x], Owed(x))'
                      /\ pc'[x] = "s_holds" => todo'[x] \subseteq req[x].seats
    BY DEF WrittenAgreement
  <2>1. x # p => Owed(x)' = Owed(x) /\ pc'[x] = pc[x] /\ todo'[x] = todo[x]
    BY <1>a DEF Owed, Process
  <2>2. CASE resvLock[x] = p
    <3>1. Owed(x)' = {}
      BY <1>b, <2>1, <2>2 DEF Owed, Inserting
    <3> QED BY <1>0, <1>b, <2>1, <2>2, <3>1 DEF ParentChildAgreement, Agrees, Inserting
  <2>3. CASE resvLock[x] # p
    <3>1. Owed(x)' = Owed(x) /\ (pc'[x] = "s_holds" => x # p)
      BY <1>b, <2>1, <2>3 DEF Owed, Inserting
    <3> QED BY <1>0, <2>1, <2>3, <3>1 DEF WrittenAgreement, Agrees
  <2> QED BY <2>2, <2>3
<1>4. ParentChildAgreement'
  BY <1>0 DEF ParentChildAgreement, Agrees
<1>5. RowLocks'
  <2> SUFFICES ASSUME NEW x \in Requests, resvLock'[x] # None
               PROVE  Entitled(resvLock[x], x)'
    BY <1>0 DEF RowLocks
  <2>1. resvLock[x] # p /\ resvLock[x] # None /\ Entitled(resvLock[x], x)
    BY <1>0 DEF RowLocks
  <2>2. resvLock[x] \in Process /\ resv'[x] = resv[x]
    BY <1>0, <2>1 DEF Inv, TypeOK, TablesOK
  <2>3. pc'[resvLock[x]] = pc[resvLock[x]] /\ resvLock'[x] = resvLock[x]
    BY <1>0, <1>a, <2>1, <2>2
  <2> QED BY <2>1, <2>2, <2>3 DEF Entitled, OverdueHold
<1>6. StaleParents'
  BY <1>0, <1>a DEF StaleParents, OverdueHold, Process
<1>7. Intents'
  <2> SUFFICES ASSUME NEW r \in Requests, pc'[r] \in {"l_move", "l_commit"}
               PROVE  LET x == req[r].target
                      IN /\ resvLock'[x] = r /\ resv'[x].status = "reserved" /\ Owned(r, x)'
                         /\ goal'[r] \in {"expired", Wanted(r)'}
                         /\ goal'[r] = "expired" => resv'[x].expires < now'
                         /\ pc'[r] = "l_commit" => resvW'[x].status = goal'[r]
    BY DEF Intents
  <2>1. r # p /\ pc[r] = pc'[r]
    BY <1>a DEF Process
  <2>2. req[r].target \in Requests
    BY <2>1, PayloadFields DEF Inv, StockInv, HandlerMatches, LifecycleLabels, TypeOK, EnvOK
  <2> QED BY <1>0, <2>1, <2>2 DEF Intents, Owned, Wanted
<1>8. KeysUnique'
  <2>1. \A x \in Requests : resvW'[x].status # Absent => resvW[x].status # Absent
    BY <1>0, RowsStay
  <2> QED BY <2>1 DEF KeysUnique, SameKey
<1>9. NoDoubleSeat'
  BY <1>0 DEF NoDoubleSeat, HoldsApart
<1>10. HoldsApart'
  BY <1>0 DEF NoDoubleSeat, HoldsApart
<1> QED
  BY <1>1, <1>2, <1>3, <1>4, <1>5, <1>6, <1>7, <1>8, <1>9, <1>10

\* Where a step that writes no row leaves p.
Settles(p) ==
  /\ {pc[p], pc'[p]} \cap (Inserting \cup {"l_commit"}) = {}
  /\ p \in Requests /\ pc'[p] \in {"q_insert", "s_parents", "s_insert"} =>
       TTL <= stamp'[p] /\ stamp'[p] <= now + TTL
  /\ p \in Requests /\ pc'[p] = "s_parents" =>
       \A x \in todo'[p] : x \in Requests /\ OverdueHold(x)
  /\ p \in Requests /\ pc'[p] = "l_move" =>
       LET x == req[p].target
       IN /\ resvLock'[x] = p /\ resv[x].status = "reserved" /\ Owned(p, x)
          /\ goal'[p] \in {"expired", Wanted(p)}
          /\ goal'[p] = "expired" => resv[x].expires < now

\* The row locks p takes are free, and it is entitled to those it has.
TakesLocks(p) ==
  \A x \in Requests :
    /\ \/ resvLock'[x] = resvLock[x]
       \/ resvLock[x] = None /\ resvLock'[x] = p
    /\ resvLock'[x] = p => Entitled(p, x)'

\* A step of p that writes no row.
LEMMA FrameRows ==
  ASSUME Inv, RowInv, NEW p \in Process, UNCHANGED <<req, resv, resvW, now>>,
         Alone(p), OthersLocals(p), Settles(p), TakesLocks(p)
  PROVE  RowInv'
<1> USE DEF RowInv
<1>0. p # None
  BY StoreAssumption
<1>a. \A q \in Process \ {p} : pc'[q] = pc[q] /\ todo'[q] = todo[q]
  BY DEF Alone
<1>b. pc[p] \notin Inserting \cup {"l_commit"} /\ pc'[p] \notin Inserting \cup {"l_commit"}
  BY DEF Settles
<1>c. \A x \in Requests : resvW[x] # resv[x] => resvLock'[x] = resvLock[x]
  BY TwoVersionsLocked DEF Inv, StockInv, TakesLocks
<1>1. WrittenRows'
  <2> SUFFICES ASSUME NEW x \in Requests, resvW[x] # resv[x]
               PROVE  (Inserted(x) \/ MovedOut(x))'
    BY DEF WrittenRows
  <2>0. resvLock'[x] = resvLock[x]
    BY <1>c
  <2>2. CASE Inserted(x)
    <3>1. x # p /\ x \in Process
      BY <1>b, <2>2 DEF Inserted, Process
    <3> QED BY <1>a, <2>0, <2>2, <3>1 DEF Inserted, OthersLocals
  <2>3. CASE MovedOut(x)
    <3>1. CASE resvLock[x] = p
      <4>1. Destination(p) = "expired" /\ Destination(p)' = "expired"
        BY <1>b DEF Destination
      <4> QED BY <2>0, <2>3, <3>1, <4>1 DEF MovedOut
    <3>2. CASE resvLock[x] # p
      <4>1. Destination(resvLock[x])' = Destination(resvLock[x])
        BY <2>0, <3>2, DestinationKept DEF Destination
      <4> QED BY <2>0, <2>3, <4>1 DEF MovedOut
    <3> QED BY <3>1, <3>2
  <2> QED BY <2>2, <2>3 DEF WrittenRows
<1>2. InsertedRows'
  <2>1. \A r \in Requests : pc[r] \in Inserting => resvW[r] # resv[r]
    BY DEF InsertedRows, Inserted, NoRow, Absent
  <2> QED BY <1>a, <1>b, <1>c, <2>1 DEF InsertedRows, Inserted, OthersLocals, Settles, Process
<1>3. WrittenAgreement'
  <2>1. ASSUME NEW x \in Requests
        PROVE  Owed(x)' = Owed(x) /\ (pc'[x] = "s_holds" => x # p /\ pc[x] = "s_holds")
    BY <1>a, <1>b DEF Owed, Process, Inserting
  <2> QED BY <1>a, <2>1 DEF WrittenAgreement, Agrees, Process
<1>4. ParentChildAgreement'
  BY DEF ParentChildAgreement, Agrees
<1>5. RowLocks'
  <2> SUFFICES ASSUME NEW x \in Requests, resvLock'[x] # None, resvLock'[x] # p
               PROVE  Entitled(resvLock[x], x)'
    BY DEF RowLocks, TakesLocks
  <2>1. resvLock'[x] = resvLock[x] /\ resvLock[x] # None /\ Entitled(resvLock[x], x)
    BY DEF RowLocks, TakesLocks
  <2>2. resvLock[x] \in Process /\ resvLock[x] # p
    BY <2>1 DEF Inv, TypeOK, TablesOK
  <2>3. pc'[resvLock[x]] = pc[resvLock[x]]
    BY <1>a, <2>2
  <2> QED BY <2>1, <2>3 DEF Entitled, OverdueHold
<1>6. StaleParents'
  BY <1>a DEF StaleParents, OverdueHold, Settles, Process
<1>7. Intents'
  <2> SUFFICES ASSUME NEW r \in Requests, r # p, pc'[r] \in {"l_move", "l_commit"}
               PROVE  LET x == req[r].target
                      IN /\ resvLock'[x] = r /\ resv'[x].status = "reserved" /\ Owned(r, x)'
                         /\ goal'[r] \in {"expired", Wanted(r)'}
                         /\ goal'[r] = "expired" => resv'[x].expires < now'
                         /\ pc'[r] = "l_commit" => resvW'[x].status = goal'[r]
    BY <1>b DEF Intents, Settles, Owned, Wanted
  <2>1. pc[r] = pc'[r] /\ r # None
    BY <1>a, StoreAssumption DEF Process
  <2>2. req[r].target \in Requests
    BY <2>1, PayloadFields DEF Inv, StockInv, HandlerMatches, LifecycleLabels, TypeOK, EnvOK
  <2> QED BY <2>1, <2>2 DEF Intents, Owned, Wanted, OthersLocals, TakesLocks
<1>8. KeysUnique'
  BY DEF KeysUnique, SameKey
<1>9. NoDoubleSeat'
  BY DEF NoDoubleSeat
<1>10. HoldsApart'
  BY <1>c DEF NoDoubleSeat, HoldsApart
<1> QED
  BY <1>1, <1>2, <1>3, <1>4, <1>5, <1>6, <1>7, <1>8, <1>9, <1>10

\* Row x, reserved and locked by p, is written with the status p moves it to,
\* children included.
Rewritten(p, x) ==
  /\ resvLock[x] = p /\ resv[x].status = "reserved" /\ resvW[x] = resv[x]
  /\ resvW'[x].status = Destination(p)' /\ resvW'[x].expires = resv[x].expires
  /\ resvW'[x].status = "expired" => resv[x].expires <= now
  /\ Agrees(x, resvW'[x], {})
  /\ \A s \in Seats : resvW'[x].hold[s] \in Active => resv[x].hold[s] \in Active

\* Where a step that moves reservations out of reserved leaves p.
Moved(p) ==
  /\ {pc[p], pc'[p]} \cap (Inserting \cup {"q_insert", "s_holds"}) = {}
  /\ pc[p] # "l_commit" /\ pc'[p] \notin {"s_parents", "l_move"}
  /\ p \in Requests /\ pc'[p] = "s_insert" =>
       TTL <= stamp[p] /\ stamp[p] <= now + TTL
  /\ p \in Requests /\ pc'[p] = "l_commit" =>
       LET x == req[p].target
       IN /\ resvLock[x] = p /\ resv[x].status = "reserved" /\ Owned(p, x)
          /\ goal[p] \in {"expired", Wanted(p)}
          /\ goal[p] = "expired" => resv[x].expires < now
          /\ resvW'[x].status = goal[p]
  /\ \A x \in Requests : resvLock[x] = p => Entitled(p, x)'

\* A step of p that moves reservations out of reserved.
LEMMA RewriteRows ==
  ASSUME Inv, RowInv, NEW p \in Process, Alone(p), Moved(p),
         UNCHANGED <<req, resv, resvLock, goal, stamp, now>>,
         \A x \in Requests : resvW'[x] = resvW[x] \/ Rewritten(p, x),
         \A x \in Requests : resvLock[x] = p =>
           Destination(p)' = Destination(p) \/ Rewritten(p, x)
  PROVE  RowInv'
<1> USE DEF RowInv
<1>0. p # None
  BY StoreAssumption
<1>a. \A q \in Process \ {p} : pc'[q] = pc[q] /\ todo'[q] = todo[q]
  BY DEF Alone
<1>b. /\ pc[p] \notin Inserting /\ pc'[p] \notin Inserting
      /\ OthersLocals(p)
  BY DEF Moved, OthersLocals
<1>1. WrittenRows'
  <2> SUFFICES ASSUME NEW x \in Requests
               PROVE  (resvW[x] = resv[x] \/ Inserted(x) \/ MovedOut(x))'
    BY DEF WrittenRows
  <2>1. CASE Rewritten(p, x)
    BY <2>1 DEF Rewritten, MovedOut
  <2>2. CASE resvW'[x] = resvW[x] /\ Inserted(x)
    <3>1. x # p /\ x \in Process
      BY <1>b, <2>2 DEF Inserted, Process
    <3> QED BY <1>a, <2>2, <3>1 DEF Inserted
  <2>3. CASE resvW'[x] = resvW[x] /\ MovedOut(x) /\ ~ Rewritten(p, x)
    <3>1. Destination(resvLock[x])' = Destination(resvLock[x])
      <4>1. CASE resvLock[x] = p
        <5>1. Destination(p)' = Destination(p)
          BY <2>3, <4>1
        <5> QED BY <4>1, <5>1 DEF Destination
      <4>2. CASE resvLock[x] # p
        BY <1>b, <4>2, DestinationKept DEF Destination
      <4> QED BY <4>1, <4>2
    <3> QED BY <2>3, <3>1 DEF MovedOut
  <2> QED BY <2>1, <2>2, <2>3 DEF WrittenRows
<1>c. \A x \in Requests : pc[x] \in Inserting => x # p /\ resvW'[x] = resvW[x]
  BY <1>b DEF InsertedRows, Inserted, NoRow, Absent, Rewritten
<1>2. InsertedRows'
  <2>1. ASSUME NEW r \in Requests \ {p} PROVE pc'[r] = pc[r]
    BY <1>a DEF Process
  <2> QED BY <1>b, <1>c, <2>1 DEF InsertedRows, Inserted, Moved
<1>3. WrittenAgreement'
  <2>1. ASSUME NEW x \in Requests
        PROVE  Owed(x)' = Owed(x) /\ (pc'[x] = "s_holds" => x # p /\ pc[x] = "s_holds")
    BY <1>a, <1>b DEF Owed, Process, Inserting
  <2>2. ASSUME NEW x \in Requests, Rewritten(p, x) PROVE Owed(x) = {}
    BY <2>2, <1>b DEF Rewritten, InsertedRows, Inserted, NoRow, Absent, Inserting, Owed
  <2>3. ASSUME NEW x \in Requests PROVE Agrees(x, resvW'[x], Owed(x))
    BY <2>2 DEF WrittenAgreement, Rewritten
  <2>4. ASSUME NEW x \in Requests PROVE Agrees(x, resvW[x], Owed(x))'
    BY <2>1, <2>3 DEF Agrees
  <2> QED BY <1>a, <2>1, <2>4 DEF WrittenAgreement, Process
<1>4. ParentChildAgreement'
  BY DEF ParentChildAgreement, Agrees
<1>5. RowLocks'
  <2> SUFFICES ASSUME NEW x \in Requests, resvLock[x] # None, resvLock[x] # p
               PROVE  Entitled(resvLock[x], x)'
    BY DEF RowLocks, Moved
  <2>1. Entitled(resvLock[x], x) /\ resvLock[x] \in Process
    BY DEF RowLocks, Inv, TypeOK, TablesOK
  <2>2. pc'[resvLock[x]] = pc[resvLock[x]]
    BY <1>a, <2>1
  <2> QED BY <2>1, <2>2 DEF Entitled, OverdueHold
<1>6. StaleParents'
  BY <1>a DEF StaleParents, OverdueHold, Moved, Process
<1>7. Intents'
  <2> SUFFICES ASSUME NEW r \in Requests, r # p, pc'[r] \in {"l_move", "l_commit"}
               PROVE  LET x == req[r].target
                      IN /\ resvLock'[x] = r /\ resv'[x].status = "reserved" /\ Owned(r, x)'
                         /\ goal'[r] \in {"expired", Wanted(r)'}
                         /\ goal'[r] = "expired" => resv'[x].expires < now'
                         /\ pc'[r] = "l_commit" => resvW'[x].status = goal'[r]
    BY DEF Intents, Moved, Owned, Wanted
  <2>1. pc[r] = pc'[r]
    BY <1>a DEF Process
  <2>2. req[r].target \in Requests
    BY <2>1, PayloadFields DEF Inv, StockInv, HandlerMatches, LifecycleLabels, TypeOK, EnvOK
  <2>3. resvLock[req[r].target] = r
    BY <2>1 DEF Intents
  <2>4. resvW'[req[r].target] = resvW[req[r].target]
    BY <2>2, <2>3 DEF Rewritten
  <2> QED BY <2>1, <2>4 DEF Intents, Owned, Wanted
<1>8. KeysUnique'
  <2>1. \A x \in Requests : resvW'[x].status # Absent => resvW[x].status # Absent
    BY DEF Rewritten, Absent
  <2> QED BY <2>1 DEF KeysUnique, SameKey
<1>d. \A s \in Seats : \A x \in Requests :
        resvW'[x].hold[s] \in Active => resvW[x].hold[s] \in Active
  BY DEF Rewritten
<1>9. NoDoubleSeat'
  BY <1>d DEF NoDoubleSeat
<1>10. HoldsApart'
  BY <1>d DEF HoldsApart
<1> QED
  BY <1>1, <1>2, <1>3, <1>4, <1>5, <1>6, <1>7, <1>8, <1>9, <1>10

\* Before its insert a request has no row, and nobody has locked one.
LEMMA NoRowYet ==
  ASSUME Inv, RowInv, NEW r \in Requests, pc[r] \in BeforeInsert
  PROVE  resv[r] = NoRow /\ resvW[r] = NoRow /\ resvLock[r] = None /\ Owed(r) = {}
<1>1. resv[r].status = Absent /\ resvW[r].status = Absent
  BY DEF Inv, StockInv, NotYetInserted
<1>2. resv[r] = NoRow /\ resvW[r] = NoRow
  BY <1>1 DEF RowInv, WrittenAgreement, ParentChildAgreement, Agrees
<1>3. Owed(r) = {}
  BY DEF Owed, BeforeInsert
<1>4. resvLock[r] = None
  BY <1>1 DEF RowInv, RowLocks, Entitled, OverdueHold, Absent, Inserting, BeforeInsert
<1> QED
  BY <1>2, <1>3, <1>4

\* The header is inserted where no other row, committed or not, has its key.
LEMMA InsertRows ==
  ASSUME Inv, RowInv, NEW r \in Requests, NEW item, ~ KeyTaken(r), ~ KeyPending(r),
         InsertReservation(r, item), Alone(r),
         UNCHANGED <<req, resv, goal, stamp, now>>,
         \/ /\ pc[r] = "q_insert" /\ pc'[r] = "q_commit" /\ item = "reserved"
         \/ /\ pc[r] = "s_insert" /\ pc'[r] = "s_holds" /\ item = Absent
            /\ todo'[r] = req[r].seats
  PROVE  RowInv'
<1> USE DEF RowInv
<1>0. r # None /\ r \in Process /\ pc[r] \in BeforeInsert /\ pc'[r] \in Inserting
  BY StoreAssumption DEF Process, BeforeInsert, Inserting
<1>a. \A q \in Process \ {r} : pc'[q] = pc[q] /\ todo'[q] = todo[q]
  BY DEF Alone
<1>b. resv[r] = NoRow /\ resvW[r] = NoRow /\ resvLock[r] = None /\ pc[r] \notin Inserting
  BY <1>0, NoRowYet DEF BeforeInsert, Inserting
<1>c. /\ resvW'[r] = [status |-> "reserved", expires |-> stamp[r],
                      item |-> item, hold |-> NoHold]
      /\ resvLock'[r] = r
      /\ \A x \in Requests \ {r} : resvW'[x] = resvW[x] /\ resvLock'[x] = resvLock[x]
  BY DEF InsertReservation, Inv, TypeOK, TablesOK
<1>1. WrittenRows'
  <2> SUFFICES ASSUME NEW x \in Requests \ {r}
               PROVE  (resvW[x] = resv[x] \/ Inserted(x) \/ MovedOut(x))'
    BY <1>0, <1>b, <1>c DEF WrittenRows, Inserted
  <2>1. CASE resvW[x] = resv[x]
    BY <1>c, <2>1
  <2>2. CASE Inserted(x)
    BY <1>a, <1>c, <2>2 DEF Inserted, Process
  <2>3. CASE MovedOut(x)
    <3>1. Destination(resvLock[x])' = Destination(resvLock[x])
      <4>1. CASE resvLock[x] = r
        BY <1>c, <4>1 DEF Destination
      <4>2. CASE resvLock[x] # r
        BY <1>0, <1>c, <4>2, DestinationKept DEF Destination, OthersLocals
      <4> QED BY <4>1, <4>2
    <3> QED BY <1>c, <2>3, <3>1 DEF MovedOut
  <2> QED BY <2>1, <2>2, <2>3 DEF WrittenRows
<1>2. InsertedRows'
  <2>1. ASSUME NEW q \in Requests \ {r} PROVE pc'[q] = pc[q]
    BY <1>a DEF Process
  <2>2. Inserted(r)'
    BY <1>0, <1>b, <1>c DEF Inserted
  <2>3. TTL <= stamp[r] /\ stamp[r] <= now + TTL
    BY DEF InsertedRows
  <2> QED BY <1>c, <2>1, <2>2, <2>3 DEF InsertedRows, Inserted
<1>3. WrittenAgreement'
  <2>1. ASSUME NEW x \in Requests \ {r}
        PROVE  /\ Agrees(x, resvW[x], Owed(x))'
               /\ pc'[x] = "s_holds" => todo'[x] \subseteq req'[x].seats
    <3>1. Owed(x)' = Owed(x) /\ pc'[x] = pc[x] /\ todo'[x] = todo[x]
      BY <1>a DEF Owed, Process
    <3> QED BY <1>c, <3>1 DEF WrittenAgreement, Agrees
  <2>2. CASE pc[r] = "q_insert"
    <3>1. req[r].op = "quantity" /\ pc'[r] = "q_commit" /\ item = "reserved"
      BY <2>2 DEF Inv, StockInv, HandlerMatches, QuantityLabels
    <3> QED BY <1>c, <2>1, <3>1 DEF WrittenAgreement, Agrees, Absent
  <2>3. CASE pc[r] = "s_insert"
    <3>1. req[r].op = "seats" /\ pc'[r] = "s_holds" /\ item = Absent
      BY <2>3 DEF Inv, StockInv, HandlerMatches, SeatsLabels
    <3>2. Owed(r)' = req[r].seats /\ todo'[r] = req[r].seats
      BY <2>3 DEF Owed
    <3>3. NoHold = [s \in Seats |-> IF s \in req[r].seats \ req[r].seats
                                    THEN "reserved" ELSE Absent]
      BY DEF NoHold
    <3>4. Agrees(r, resvW[r], Owed(r))'
      BY <1>c, <3>1, <3>2, <3>3 DEF Agrees, Absent
    <3> QED BY <2>1, <3>2, <3>4 DEF WrittenAgreement
  <2> QED BY <2>2, <2>3
<1>4. ParentChildAgreement'
  BY DEF ParentChildAgreement, Agrees
<1>5. RowLocks'
  <2> SUFFICES ASSUME NEW x \in Requests \ {r}, resvLock[x] # None
               PROVE  Entitled(resvLock[x], x)'
    BY <1>0, <1>c DEF RowLocks, Entitled
  <2>1. Entitled(resvLock[x], x) /\ resvLock[x] \in Process /\ resvLock'[x] = resvLock[x]
    BY <1>c DEF RowLocks, Inv, TypeOK, TablesOK
  <2>2. CASE resvLock[x] = r
    <3>1. r \notin Workers
      BY StoreAssumption
    <3>2. pc[r] = "s_insert" /\ pc'[r] = "s_holds" /\ OverdueHold(x)
      BY <2>1, <2>2, <3>1, <1>b DEF Entitled
    <3> QED BY <2>1, <2>2, <3>2 DEF Entitled, OverdueHold
  <2>3. CASE resvLock[x] # r
    <3>1. pc'[resvLock[x]] = pc[resvLock[x]]
      BY <1>a, <2>1, <2>3
    <3> QED BY <2>1, <3>1 DEF Entitled, OverdueHold
  <2> QED BY <2>2, <2>3
<1>6. StaleParents'
  <2>1. \A q \in Requests : pc'[q] = "s_parents" => pc[q] = "s_parents" /\ todo'[q] = todo[q]
    BY <1>a DEF Process
  <2> QED BY <2>1 DEF StaleParents, OverdueHold
<1>7. Intents'
  <2> SUFFICES ASSUME NEW q \in Requests, pc'[q] \in {"l_move", "l_commit"}
               PROVE  LET x == req[q].target
                      IN /\ resvLock'[x] = q /\ resv'[x].status = "reserved" /\ Owned(q, x)'
                         /\ goal'[q] \in {"expired", Wanted(q)'}
                         /\ goal'[q] = "expired" => resv'[x].expires < now'
                         /\ pc'[q] = "l_commit" => resvW'[x].status = goal'[q]
    BY DEF Intents
  <2>1. pc[q] = pc'[q]
    BY <1>a DEF Process
  <2>2. req[q].target \in Requests
    BY <2>1, PayloadFields DEF Inv, StockInv, HandlerMatches, LifecycleLabels, TypeOK, EnvOK
  <2>3. req[q].target # r
    BY <1>b, <2>1 DEF Intents, NoRow, Absent
  <2> QED BY <1>c, <2>1, <2>2, <2>3 DEF Intents, Owned, Wanted
<1>8. KeysUnique'
  <2>1. \A x \in SameKey(r) : x \in Requests \ {r} /\ resvW'[x].status = Absent
    BY <1>c DEF SameKey, KeyTaken, KeyPending
  <2>2. req[r].op \in {"quantity", "seats"}
    BY DEF Inv, StockInv, HandlerMatches, QuantityLabels, SeatsLabels
  <2>3. ASSUME NEW q \in Requests, resvW'[q].status # Absent, NEW x \in SameKey(q)
        PROVE  resvW'[x].status = Absent
    <3>1. CASE q = r
      BY <2>1, <3>1
    <3>2. CASE q # r /\ x = r
      <4>1. req[q].op \in {"quantity", "seats"}
        BY <1>c, <2>3, <3>2 DEF WrittenAgreement, Agrees
      <4>2. q \in SameKey(r)
        BY <2>3, <3>2, <4>1 DEF SameKey
      <4> QED BY <2>1, <2>3, <4>2
    <3>3. CASE q # r /\ x # r
      BY <1>c, <2>3, <3>3 DEF KeysUnique, SameKey
    <3> QED BY <3>1, <3>2, <3>3
  <2>4. \A q \in Requests : SameKey(q)' = SameKey(q)
    BY DEF SameKey
  <2> QED BY <2>3, <2>4 DEF KeysUnique
<1>d. \A s \in Seats : resvW'[r].hold[s] \notin Active /\ resv[r].hold[s] \notin Active
  BY <1>b, <1>c DEF NoRow, NoHold, Active, Absent
<1>9. NoDoubleSeat'
  BY <1>c, <1>d DEF NoDoubleSeat
<1>10. HoldsApart'
  BY <1>c, <1>d DEF HoldsApart
<1> QED
  BY <1>1, <1>2, <1>3, <1>4, <1>5, <1>6, <1>7, <1>8, <1>9, <1>10

\* A hold is inserted for a seat that neither the committed rows nor those of
\* other transactions hold.
LEMMA HoldRows ==
  ASSUME Inv, RowInv, NEW r \in Requests, pc[r] = "s_holds", NEW s \in todo[r],
         ~ HoldInFlux(r, s), ~ HoldTaken(r, s),
         resvW' = [resvW EXCEPT ![r].hold[s] = "reserved"],
         todo' = [todo EXCEPT ![r] = @ \ {s}],
         pc' = [pc EXCEPT ![r] = IF todo[r] = {s} THEN "s_commit" ELSE "s_holds"],
         UNCHANGED <<req, resv, resvLock, goal, stamp, now>>
  PROVE  RowInv'
<1> USE DEF RowInv
<1>0. /\ r # None /\ r \in Process /\ Inserted(r) /\ resvLock[r] = r
      /\ req[r].op = "seats" /\ todo[r] \subseteq req[r].seats
  BY StoreAssumption DEF Process, InsertedRows, Inserting, Inserted, WrittenAgreement,
     Inv, StockInv, HandlerMatches, SeatsLabels
<1>a. /\ pc'[r] \in {"s_holds", "s_commit"} /\ todo'[r] = todo[r] \ {s}
      /\ \A q \in Process \ {r} : pc'[q] = pc[q] /\ todo'[q] = todo[q]
  BY <1>0 DEF Inv, TypeOK, LocalsOK
<1>b. s \in Seats /\ s \in req[r].seats
  BY <1>0, PayloadFields DEF Inv, TypeOK, EnvOK
<1>c. /\ \A x \in Requests \ {r} : resvW'[x] = resvW[x]
      /\ resvW'[r].status = resvW[r].status /\ resvW'[r].expires = resvW[r].expires
      /\ resvW'[r].item = resvW[r].item
      /\ resvW'[r].hold = [resvW[r].hold EXCEPT ![s] = "reserved"]
      /\ resvW'[r].hold[s] = "reserved"
      /\ \A u \in Seats \ {s} : resvW'[r].hold[u] = resvW[r].hold[u]
  BY <1>b DEF Inv, TypeOK, TablesOK, Row
<1>1. WrittenRows'
  <2> SUFFICES ASSUME NEW x \in Requests
               PROVE  (resvW[x] = resv[x] \/ Inserted(x) \/ MovedOut(x))'
    BY DEF WrittenRows
  <2>1. CASE x = r
    BY <1>0, <1>a, <1>c, <2>1 DEF Inserted, Inserting
  <2>2. CASE x # r /\ resvW[x] = resv[x]
    BY <1>c, <2>2
  <2>3. CASE x # r /\ Inserted(x)
    BY <1>a, <1>c, <2>3 DEF Inserted, Process
  <2>4. CASE x # r /\ MovedOut(x)
    <3>1. Destination(resvLock[x])' = Destination(resvLock[x])
      BY <1>a DEF Destination, Process
    <3> QED BY <1>c, <2>4, <3>1 DEF MovedOut
  <2> QED BY <2>1, <2>2, <2>3, <2>4 DEF WrittenRows
<1>2. InsertedRows'
  <2>1. ASSUME NEW q \in Requests \ {r} PROVE pc'[q] = pc[q]
    BY <1>a DEF Process
  <2>2. Inserted(r)'
    BY <1>0, <1>a, <1>c DEF Inserted, Inserting
  <2>3. TTL <= stamp[r] /\ stamp[r] <= now + TTL
    BY DEF InsertedRows, Inserting
  <2> QED BY <1>c, <2>1, <2>2, <2>3 DEF InsertedRows, Inserted
<1>3. WrittenAgreement'
  <2>1. ASSUME NEW x \in Requests \ {r}
        PROVE  /\ Agrees(x, resvW[x], Owed(x))'
               /\ pc'[x] = "s_holds" => todo'[x] \subseteq req'[x].seats
    <3>1. Owed(x)' = Owed(x) /\ pc'[x] = pc[x] /\ todo'[x] = todo[x]
      BY <1>a DEF Owed, Process
    <3> QED BY <1>c, <3>1 DEF WrittenAgreement, Agrees
  <2>2. Owed(r) = todo[r] /\ Owed(r)' = todo[r] \ {s}
    BY <1>0, <1>a DEF Owed, Inv, TypeOK, LocalsOK
  <2>3. /\ resvW[r].status = "reserved" /\ resvW[r].item = Absent
        /\ resvW[r].hold = [u \in Seats |-> IF u \in req[r].seats \ todo[r]
                                            THEN "reserved" ELSE Absent]
    BY <1>0, <2>2 DEF WrittenAgreement, Agrees, Inserted, Absent
  <2>4. resvW'[r].hold = [u \in Seats |-> IF u \in req[r].seats \ (todo[r] \ {s})
                                          THEN "reserved" ELSE Absent]
    <3> DEFINE before == [u \in Seats |-> IF u \in req[r].seats \ todo[r]
                                          THEN "reserved" ELSE Absent]
               after == [u \in Seats |-> IF u \in req[r].seats \ (todo[r] \ {s})
                                         THEN "reserved" ELSE Absent]
    <3>1. [before EXCEPT ![s] = "reserved"] = after
      BY <1>b
    <3> QED BY <1>c, <2>3, <3>1
  <2>5. Agrees(r, resvW[r], Owed(r))'
    BY <1>0, <1>c, <2>2, <2>3, <2>4 DEF Agrees, Absent
  <2>6. todo'[r] \subseteq req'[r].seats
    BY <1>0, <1>a
  <2> QED BY <2>1, <2>5, <2>6 DEF WrittenAgreement
<1>4. ParentChildAgreement'
  BY DEF ParentChildAgreement, Agrees
<1>5. RowLocks'
  <2> SUFFICES ASSUME NEW x \in Requests, resvLock[x] # None
               PROVE  Entitled(resvLock[x], x)'
    BY DEF RowLocks
  <2>1. Entitled(resvLock[x], x) /\ resvLock[x] \in Process
    BY DEF RowLocks, Inv, TypeOK, TablesOK
  <2>2. CASE resvLock[x] = r
    <3>1. r \notin Workers
      BY StoreAssumption
    <3> QED BY <1>a, <2>1, <2>2, <3>1 DEF Entitled, OverdueHold, Inserting
  <2>3. CASE resvLock[x] # r
    <3>1. pc'[resvLock[x]] = pc[resvLock[x]]
      BY <1>a, <2>1, <2>3
    <3> QED BY <2>1, <3>1 DEF Entitled, OverdueHold
  <2> QED BY <2>2, <2>3
<1>6. StaleParents'
  <2>1. \A q \in Requests : pc'[q] = "s_parents" => pc[q] = "s_parents" /\ todo'[q] = todo[q]
    BY <1>a DEF Process
  <2> QED BY <2>1 DEF StaleParents, OverdueHold
<1>7. Intents'
  <2> SUFFICES ASSUME NEW q \in Requests, pc'[q] \in {"l_move", "l_commit"}
               PROVE  LET x == req[q].target
                      IN /\ resvLock'[x] = q /\ resv'[x].status = "reserved" /\ Owned(q, x)'
                         /\ goal'[q] \in {"expired", Wanted(q)'}
                         /\ goal'[q] = "expired" => resv'[x].expires < now'
                         /\ pc'[q] = "l_commit" => resvW'[x].status = goal'[q]
    BY DEF Intents
  <2>1. pc[q] = pc'[q] /\ q # r
    BY <1>a DEF Process
  <2>2. req[q].target \in Requests
    BY <2>1, PayloadFields DEF Inv, StockInv, HandlerMatches, LifecycleLabels, TypeOK, EnvOK
  <2>3. req[q].target # r
    BY <1>0, <2>1 DEF Intents
  <2> QED BY <1>c, <2>1, <2>2, <2>3 DEF Intents, Owned, Wanted
<1>8. KeysUnique'
  <2>1. \A x \in Requests : resvW'[x].status = resvW[x].status
    BY <1>c
  <2> QED BY <2>1 DEF KeysUnique, SameKey
<1>d. ASSUME NEW x \in Requests \ {r}
      PROVE  /\ resvW[x].hold[s] \notin Active
             /\ resv[x].hold[s] \in Active => resvLock[x] = r
  <2>1. resvW[x].hold[s] # resv[x].hold[s] => resvLock[x] # None
    BY TwoVersionsLocked DEF Inv, StockInv
  <2> QED BY <2>1 DEF HoldInFlux, HoldTaken
<1>9. NoDoubleSeat'
  BY <1>b, <1>c, <1>d DEF NoDoubleSeat
<1>10. HoldsApart'
  BY <1>0, <1>b, <1>c, <1>d DEF HoldsApart
<1> QED
  BY <1>1, <1>2, <1>3, <1>4, <1>5, <1>6, <1>7, <1>8, <1>9, <1>10

\* A deadline that has passed stays passed.
LEMMA TickRows ==
  ASSUME Inv, RowInv, UNCHANGED <<req, resv, resvW, resvLock, pc, todo, goal, stamp>>,
         now' = now + 1
  PROVE  RowInv'
<1> USE DEF RowInv
<1>0. /\ now \in Nat /\ TTL \in Nat
      /\ \A x \in Requests : resv[x].expires \in Nat /\ stamp[x] \in Nat
  BY StoreAssumption DEF Inv, TypeOK, TablesOK, LocalsOK, EnvOK, Row
<1>a. \A x \in Requests : resv[x].expires <= now => resv[x].expires <= now'
  BY <1>0
<1>b. \A x \in Requests : resv[x].expires < now => resv[x].expires < now'
  BY <1>0
<1>1. WrittenRows'
  <2> SUFFICES ASSUME NEW x \in Requests
               PROVE  (resvW[x] = resv[x] \/ Inserted(x) \/ MovedOut(x))'
    BY DEF WrittenRows
  <2>1. Destination(resvLock[x])' = Destination(resvLock[x])
    BY DEF Destination
  <2> QED BY <1>a, <2>1 DEF WrittenRows, Inserted, MovedOut
<1>2. InsertedRows'
  <2>1. \A r \in Requests : stamp[r] <= now + TTL => stamp[r] <= now' + TTL
    BY <1>0
  <2> QED BY <2>1 DEF InsertedRows, Inserted
<1>3. WrittenAgreement' /\ ParentChildAgreement'
  BY DEF WrittenAgreement, ParentChildAgreement, Agrees, Owed
<1>4. RowLocks' /\ StaleParents'
  BY <1>a, <1>b DEF RowLocks, StaleParents, Entitled, OverdueHold
<1>5. Intents'
  <2> SUFFICES ASSUME NEW q \in Requests, pc[q] \in {"l_move", "l_commit"}
               PROVE  LET x == req[q].target
                      IN /\ resvLock[x] = q /\ resv[x].status = "reserved" /\ Owned(q, x)'
                         /\ goal[q] \in {"expired", Wanted(q)'}
                         /\ goal[q] = "expired" => resv[x].expires < now'
                         /\ pc[q] = "l_commit" => resvW[x].status = goal[q]
    BY DEF Intents
  <2>1. req[q].target \in Requests
    BY PayloadFields DEF Inv, StockInv, HandlerMatches, LifecycleLabels, TypeOK, EnvOK
  <2> QED BY <1>b, <2>1 DEF Intents, Owned, Wanted
<1>6. KeysUnique' /\ NoDoubleSeat' /\ HoldsApart'
  BY DEF KeysUnique, SameKey, NoDoubleSeat, HoldsApart
<1> QED
  BY <1>1, <1>2, <1>3, <1>4, <1>5, <1>6

-----------------------------------------------------------------------------
(* Every handler keeps the invariant of the rows *)

\* The statements of a transaction that may have locked rows of reservations.
Holding == Inserting \cup {"s_parents", "s_insert", "l_move", "l_commit",
                           "w_move", "w_commit"}

\* Elsewhere it has locked none.
LEMMA NoRowLocked ==
  ASSUME RowInv, NEW p \in Process, pc[p] \notin Holding, NEW x \in Requests
  PROVE  resvLock[x] # p
BY StoreAssumption DEF RowInv, RowLocks, Entitled, Holding, Inserting

\* Steps that touch no row of reservations and hold no lock of one.
LEMMA QuietRows ==
  ASSUME Inv, RowInv, NEW p \in Process,
         UNCHANGED <<req, resv, resvW, resvLock, now>>,
         Alone(p), OthersLocals(p), pc[p] \notin Holding,
         pc'[p] \notin Holding \cup {"q_insert"}
  PROVE  RowInv'
<1>1. Settles(p)
  BY DEF Settles, Holding
<1>2. \A x \in Requests : resvLock[x] # p
  BY NoRowLocked
<1>3. TakesLocks(p)
  BY <1>2 DEF TakesLocks
<1> QED
  BY <1>1, <1>3, FrameRows

\* A deadline computed now is one TTL away.
LEMMA StampNow ==
  ASSUME Inv
  PROVE  TTL <= now + TTL /\ now + TTL <= now + TTL
BY StoreAssumption DEF Inv, TypeOK, EnvOK

\* Every statement of a quantity reservation.
LEMMA QuantityKeepsRows ==
  ASSUME Inv, RowInv, NEW r \in Requests, QuantityReserve(r)
  PROVE  RowInv'
<1>0. r \in Process /\ pc \in [Process -> Label] /\ stamp \in [Requests -> Nat]
  BY DEF Process, Inv, TypeOK, LocalsOK
<1> USE DEF Alone, OthersLocals
<1>1. CASE QuantityLookup(r)
  BY <1>0, <1>1, QuietRows DEF QuantityLookup, Done, Goto, tables, env, Holding, Inserting
<1>2. CASE QuantityStock(r)
  <2>1. /\ UNCHANGED <<req, resv, resvW, resvLock, now, todo, goal>>
        /\ pc[r] = "q_stock" /\ pc' = [pc EXCEPT ![r] = "q_insert"]
        /\ stamp' = [stamp EXCEPT ![r] = now + TTL]
    BY <1>2 DEF QuantityStock, Goto, env
  <2>2. Settles(r)
    BY <1>0, <2>1, StampNow DEF Settles, Inserting
  <2>a. \A x \in Requests : resvLock[x] # r
    BY <1>0, <2>1, NoRowLocked DEF Holding, Inserting
  <2>3. TakesLocks(r)
    BY <2>1, <2>a DEF TakesLocks
  <2> QED BY <1>0, <2>1, <2>2, <2>3, FrameRows
<1>3. CASE QuantityNoStock(r)
  BY <1>0, <1>3, QuietRows DEF QuantityNoStock, Goto, tables, env, Holding, Inserting
<1>4. CASE QuantityInsert(r)
  <2>0. UNCHANGED <<req, goal, stamp, now, todo>> /\ pc[r] = "q_insert"
    BY <1>4 DEF QuantityInsert, env
  <2>1. CASE Rollback(r) /\ Goto(r, "q_resolve")
    BY <1>0, <2>0, <2>1, RollbackRows DEF Goto
  <2>2. CASE /\ ~ KeyTaken(r) /\ ~ KeyPending(r)
             /\ InsertReservation(r, "reserved") /\ Goto(r, "q_commit")
             /\ UNCHANGED <<tickets, ticketsW, ticketLock, resv, seatLock>>
    BY <1>0, <2>0, <2>2, InsertRows DEF Goto
  <2> QED BY <1>4, <2>1, <2>2 DEF QuantityInsert
<1>5. CASE QuantityCommit(r)
  BY <1>0, <1>5, CommitRows DEF QuantityCommit, Done, env
<1>6. CASE QuantityResolve(r)
  BY <1>0, <1>6, QuietRows DEF QuantityResolve, Done, tables, env, Holding, Inserting
<1> QED
  BY <1>1, <1>2, <1>3, <1>4, <1>5, <1>6 DEF QuantityReserve

\* A hold that is due is a seat reservation's, and its row is reserved.
LEMMA StaleIsOverdue ==
  ASSUME Inv, RowInv, NEW r \in Requests, req[r].op = "seats", NEW x \in StaleHolders(r)
  PROVE  x \in Requests /\ OverdueHold(x)
<1>1. PICK s \in req[r].seats : resv[x].hold[s] = "reserved" /\ resv[x].expires <= now
  BY DEF StaleHolders
<1>2. x \in Requests /\ s \in Seats
  BY PayloadFields DEF StaleHolders, Inv, TypeOK, EnvOK
<1>3. Agrees(x, resv[x], {})
  BY <1>2 DEF RowInv, ParentChildAgreement
<1>4. resv[x].hold # NoHold
  BY <1>1, <1>2 DEF NoHold, Absent
<1>5. resv[x] # NoRow
  BY <1>4 DEF NoRow
<1> QED
  BY <1>1, <1>2, <1>3, <1>4, <1>5 DEF Agrees, OverdueHold

\* The two UPDATEs of expire_reservations_for_seats leave settled rows alone
\* and turn a reserved row and its holds into expired ones.
LEMMA ExpiredRowAgrees ==
  ASSUME NEW x \in Requests, NEW row \in Row, row.status # Absent,
         req[x].op = "seats", Agrees(x, row, {})
  PROVE  /\ row.status # "reserved" => ExpiredRow(row) = row
         /\ row.status = "reserved" =>
              /\ ExpiredRow(row).status = "expired" /\ ExpiredRow(row).expires = row.expires
              /\ Agrees(x, ExpiredRow(row), {})
              /\ \A s \in Seats : ExpiredRow(row).hold[s] \notin Active
<1>1. /\ row.item = Absent
      /\ row.hold = [s \in Seats |-> IF s \in req[x].seats \ {} THEN row.status ELSE Absent]
  BY DEF Agrees
<1>2. /\ ExpiredRow(row).status = ExpireStatus(row.status)
      /\ ExpiredRow(row).expires = row.expires /\ ExpiredRow(row).item = row.item
      /\ ExpiredRow(row).hold = [s \in Seats |-> ExpireStatus(row.hold[s])]
  BY DEF ExpiredRow, Row
<1>3. ASSUME row.status # "reserved" PROVE ExpiredRow(row) = row
  <2>1. [s \in Seats |-> ExpireStatus(row.hold[s])] = row.hold
    BY <1>1, <1>3 DEF ExpireStatus, Absent
  <2>2. ExpireStatus(row.status) = row.status
    BY <1>3 DEF ExpireStatus
  <2>3. ExpiredRow(row) = [row EXCEPT !.status = row.status, !.hold = row.hold]
    BY <2>1, <2>2 DEF ExpiredRow
  <2> QED BY <2>3 DEF Row
<1>4. ASSUME row.status = "reserved"
      PROVE  /\ ExpiredRow(row).status = "expired"
             /\ ExpiredRow(row).hold = [s \in Seats |-> IF s \in req[x].seats \ {}
                                                        THEN "expired" ELSE Absent]
             /\ \A s \in Seats : ExpiredRow(row).hold[s] \notin Active
  <2>1. ExpiredRow(row).status = "expired"
    BY <1>2, <1>4 DEF ExpireStatus
  <2>2. [s \in Seats |-> ExpireStatus(row.hold[s])]
          = [s \in Seats |-> IF s \in req[x].seats \ {} THEN "expired" ELSE Absent]
    BY <1>1, <1>4 DEF ExpireStatus, Absent
  <2> QED BY <1>2, <2>1, <2>2 DEF Active, Absent
<1>5. ASSUME row.status = "reserved" PROVE Agrees(x, ExpiredRow(row), {})
  BY <1>1, <1>2, <1>4, <1>5 DEF Agrees, Absent
<1> QED
  BY <1>2, <1>3, <1>4, <1>5

\* Every statement of a seat reservation.
LEMMA SeatsKeepRows ==
  ASSUME Inv, RowInv, NEW r \in Requests, SeatsReserve(r)
  PROVE  RowInv'
<1>0. /\ r \in Process /\ r # None /\ r \notin Workers
      /\ pc \in [Process -> Label] /\ stamp \in [Requests -> Nat]
      /\ todo \in [Process -> SUBSET Nat] /\ resvLock \in [Requests -> Process \cup {None}]
      /\ resvW \in [Requests -> Row]
  BY StoreAssumption DEF Process, Inv, TypeOK, LocalsOK, TablesOK
<1>a. pc[r] \in SeatsLabels => req[r].op = "seats"
  BY DEF Inv, StockInv, HandlerMatches
<1> USE DEF Alone, OthersLocals
<1>1. CASE SeatsLookup(r)
  BY <1>0, <1>1, QuietRows DEF SeatsLookup, Done, Goto, tables, env, Holding, Inserting
<1>2. CASE SeatsLock(r)
  BY <1>0, <1>2, QuietRows DEF SeatsLock, env, Holding, Inserting
<1>3. CASE SeatsMissing(r)
  BY <1>0, <1>3, RollbackRows DEF SeatsMissing, Done, env
<1>4. CASE SeatsStale(r)
  <2>1. /\ UNCHANGED <<req, resv, resvW, resvLock, now, goal>> /\ pc[r] = "s_lock"
        /\ pc' = [pc EXCEPT ![r] = IF StaleHolders(r) = {} THEN "s_insert" ELSE "s_parents"]
        /\ stamp' = [stamp EXCEPT ![r] = now + TTL]
        /\ todo' = [todo EXCEPT ![r] = StaleHolders(r)]
    BY <1>4 DEF SeatsStale, Goto, tables, env
  <2>2. Settles(r)
    BY <1>0, <1>a, <2>1, StampNow, StaleIsOverdue DEF Settles, SeatsLabels, Inserting
  <2>a. \A x \in Requests : resvLock[x] # r
    BY <1>0, <2>1, NoRowLocked DEF Holding, Inserting
  <2>3. TakesLocks(r)
    BY <2>1, <2>a DEF TakesLocks
  <2> QED BY <1>0, <2>1, <2>2, <2>3, FrameRows
<1>5. CASE SeatsLockParent(r)
  <2>1. PICK x \in todo[r] :
          /\ Free(resvLock[x], r)
          /\ resvLock' = [resvLock EXCEPT ![x] = r]
          /\ todo' = [todo EXCEPT ![r] = @ \ {x}]
    BY <1>5 DEF SeatsLockParent
  <2>2. UNCHANGED <<req, resv, resvW, now, goal, pc, stamp>> /\ pc[r] = "s_parents"
    BY <1>5 DEF SeatsLockParent, env
  <2>3. \A y \in todo[r] : y \in Requests /\ OverdueHold(y)
    BY <2>2 DEF RowInv, StaleParents
  <2>4. Settles(r)
    BY <1>0, <2>1, <2>2, <2>3 DEF Settles, RowInv, InsertedRows, Inserting
  <2>5. TakesLocks(r)
    <3>1. ASSUME NEW y \in Requests
          PROVE  resvLock'[y] = IF y = x THEN r ELSE resvLock[y]
      BY <1>0, <2>1
    <3>2. ASSUME NEW y \in Requests, resvLock'[y] = r PROVE OverdueHold(y)
      <4>1. CASE y = x
        BY <2>3, <4>1
      <4>2. CASE y # x
        BY <1>0, <2>2, <3>1, <3>2, <4>2 DEF RowInv, RowLocks, Entitled, Inserting
      <4> QED BY <4>1, <4>2
    <3>3. ASSUME NEW y \in Requests, resvLock'[y] = r PROVE Entitled(r, y)'
      BY <2>2, <3>2, <3>3 DEF Entitled, OverdueHold
    <3> QED BY <2>1, <3>1, <3>3 DEF TakesLocks, Free
  <2> QED BY <1>0, <2>1, <2>2, <2>4, <2>5, FrameRows
<1>6. CASE SeatsExpire(r)
  <2>1. /\ UNCHANGED <<req, resv, resvLock, todo, goal, stamp, now>>
        /\ pc[r] = "s_parents" /\ pc' = [pc EXCEPT ![r] = "s_insert"]
    BY <1>6 DEF SeatsExpire, Goto, env
  <2>2. ASSUME NEW x \in Requests, resvLock[x] = r
        PROVE  OverdueHold(x) /\ resvW[x].status # Absent /\ Agrees(x, resvW[x], {})
    <3>1. OverdueHold(x)
      BY <1>0, <2>1, <2>2 DEF RowInv, RowLocks, Entitled, Inserting
    <3>2. resvW[x].status # Absent
      BY <3>1, RowsStay DEF RowInv, OverdueHold
    <3>3. pc[x] # "s_holds"
      BY <3>1 DEF RowInv, InsertedRows, Inserting, Inserted, OverdueHold, NoRow
    <3> QED BY <3>1, <3>2, <3>3 DEF RowInv, WrittenAgreement, Owed
  <2>3. Destination(r) = "expired" /\ Destination(r)' = "expired"
    BY <1>0, <2>1 DEF Destination
  <2>4. ASSUME NEW x \in Requests PROVE resvW'[x] = resvW[x] \/ Rewritten(r, x)
    <3>1. CASE resvLock[x] # r
      BY <1>6, <3>1 DEF SeatsExpire
    <3>2. CASE resvLock[x] = r
      <4>1. resvW'[x] = ExpiredRow(resvW[x]) /\ resvW[x] \in Row
        BY <1>0, <1>6, <3>2 DEF SeatsExpire
      <4>2. CASE resvW[x].status # "reserved"
        BY <2>2, <3>2, <4>1, <4>2, ExpiredRowAgrees DEF OverdueHold
      <4>3. CASE resvW[x].status = "reserved"
        <5>1. ~ Inserted(x) /\ ~ MovedOut(x)
          BY <2>2, <2>3, <3>2, <4>3 DEF Inserted, MovedOut, OverdueHold, NoRow
        <5>2. resvW[x] = resv[x]
          BY <5>1 DEF RowInv, WrittenRows
        <5>3. /\ resvW'[x].status = "expired" /\ resvW'[x].expires = resvW[x].expires
              /\ Agrees(x, resvW'[x], {})
              /\ \A s \in Seats : resvW'[x].hold[s] \notin Active
          BY <2>2, <3>2, <4>1, <4>3, ExpiredRowAgrees DEF OverdueHold
        <5>4. resv[x].expires <= now
          BY <2>2, <3>2 DEF OverdueHold
        <5> QED
          BY <2>3, <3>2, <4>3, <5>2, <5>3, <5>4 DEF Rewritten
      <4> QED BY <4>2, <4>3
    <3> QED BY <3>1, <3>2
  <2>5. Moved(r)
    <3>1. \A x \in Requests : resvLock[x] = r => Entitled(r, x)'
      BY <1>0, <2>1, <2>2 DEF Entitled, OverdueHold
    <3>2. TTL <= stamp[r] /\ stamp[r] <= now + TTL
      BY <2>1 DEF RowInv, InsertedRows
    <3> QED BY <1>0, <2>1, <3>1, <3>2 DEF Moved, Inserting
  <2> QED BY <1>0, <2>1, <2>3, <2>4, <2>5, RewriteRows
<1>7. CASE SeatsInsert(r)
  <2>0. UNCHANGED <<req, goal, stamp, now>> /\ pc[r] = "s_insert"
    BY <1>7 DEF SeatsInsert, env
  <2>1. CASE Rollback(r) /\ Goto(r, "s_resolve") /\ UNCHANGED todo
    BY <1>0, <2>0, <2>1, RollbackRows DEF Goto
  <2>2. CASE /\ ~ KeyTaken(r) /\ ~ KeyPending(r)
             /\ InsertReservation(r, Absent)
             /\ todo' = [todo EXCEPT ![r] = req[r].seats] /\ Goto(r, "s_holds")
             /\ UNCHANGED <<tickets, ticketsW, ticketLock, resv, seatLock>>
    BY <1>0, <2>0, <2>2, InsertRows DEF Goto
  <2> QED BY <1>7, <2>1, <2>2 DEF SeatsInsert
<1>8. CASE SeatsHold(r)
  <2>0. UNCHANGED <<req, goal, stamp, now>> /\ pc[r] = "s_holds"
    BY <1>8 DEF SeatsHold, env
  <2>1. CASE Rollback(r) /\ Goto(r, "s_resolve") /\ todo' = [todo EXCEPT ![r] = {}]
    BY <1>0, <2>0, <2>1, RollbackRows DEF Goto
  <2>2. CASE \E s \in todo[r] :
               /\ ~ HoldInFlux(r, s) /\ ~ HoldTaken(r, s)
               /\ resvW' = [resvW EXCEPT ![r].hold[s] = "reserved"]
               /\ todo' = [todo EXCEPT ![r] = @ \ {s}]
               /\ Goto(r, IF todo[r] = {s} THEN "s_commit" ELSE "s_holds")
               /\ UNCHANGED <<tickets, ticketsW, ticketLock, resv, resvLock, seatLock>>
    BY <2>0, <2>2, HoldRows DEF Goto
  <2> QED BY <1>8, <2>1, <2>2 DEF SeatsHold
<1>9. CASE SeatsCommit(r)
  BY <1>0, <1>9, CommitRows DEF SeatsCommit, Done, env
<1>10. CASE SeatsResolve(r)
  BY <1>0, <1>10, QuietRows DEF SeatsResolve, Done, tables, env, Holding, Inserting
<1> QED
  BY <1>1, <1>2, <1>3, <1>4, <1>5, <1>6, <1>7, <1>8, <1>9, <1>10 DEF SeatsReserve

\* A row that is reserved has been committed, so its request has no holds to add.
LEMMA ReservedIsSettledIn ==
  ASSUME RowInv, NEW x \in Requests, resv[x].status = "reserved"
  PROVE  /\ pc[x] \notin Inserting /\ Owed(x) = {}
         /\ Agrees(x, resvW[x], {})
         /\ resvW[x] = resv[x] \/ MovedOut(x)
<1>1. pc[x] \notin Inserting
  BY DEF RowInv, InsertedRows, Inserted, NoRow, Absent
<1>2. Owed(x) = {}
  BY <1>1 DEF Owed, Inserting
<1> QED
  BY <1>1, <1>2 DEF RowInv, WrittenAgreement, WrittenRows, Inserted, NoRow, Absent

\* A seat reservation asks for seats, at least one.
LEMMA SeatsAsked ==
  ASSUME req \in Payloads, NEW x \in Requests, req[x].op = "seats"
  PROVE  req[x].seats \subseteq Seats /\ \E s \in req[x].seats : s \in Seats
<1>1. req[x] \in Payload
  BY DEF Payloads
<1>2. req[x] \in SeatsPayload
  BY <1>1 DEF Payload, QuantityPayload, LifecyclePayload
<1>3. \A e \in SeatsPayload : e.seats \in (SUBSET Seats) \ {{}}
  BY DEF SeatsPayload
<1>4. /\ req[x].seats \subseteq Seats
      /\ req[x].seats # {}
  <2>1. req[x].seats \in (SUBSET Seats) \ {{}}
    BY <1>2, <1>3, Zenon
  <2> QED BY <2>1, Zenon
<1>5. \E s : s \in req[x].seats
  BY <1>4
<1> QED
  BY <1>4, <1>5

\* _transition_reserved rewrites one row whole, and no other.
LEMMA TransitionRewrites ==
  ASSUME Inv, RowInv, NEW p \in Process, NEW x \in Requests, resvLock[x] = p,
         resv[x].status = "reserved", NEW target \in {"cancelled", "confirmed", "expired"},
         Destination(p) # "reserved", Destination(p)' = target,
         target = "expired" => resv[x].expires <= now,
         TransitionReserved(p, x, target)
  PROVE  /\ Rewritten(p, x)
         /\ \A y \in Requests \ {x} : resvW'[y] = resvW[y]
<1>0. resvW \in [Requests -> Row] /\ resvW[x] \in Row
  BY DEF Inv, TypeOK, TablesOK
<1>a. Agrees(x, resvW[x], {}) /\ (resvW[x] = resv[x] \/ MovedOut(x))
  BY ReservedIsSettledIn
<1>b. resvW[x].status # Absent
  BY RowsStay DEF RowInv, Absent
<1>1. CASE TransitionQuantity(p, x, target)
  <2>1. req[x].op = "quantity" /\ resvW[x].item = "reserved"
    BY <1>1 DEF TransitionQuantity
  <2>2. resvW[x].status = "reserved" /\ resvW[x].hold = NoHold
    BY <1>a, <1>b, <2>1 DEF Agrees
  <2>3. resvW[x] = resv[x]
    BY <1>a, <2>2 DEF MovedOut
  <2>4. resvW' = [resvW EXCEPT ![x].status = target, ![x].item = target]
    BY <1>1 DEF TransitionQuantity
  <2>5. /\ resvW'[x].status = target /\ resvW'[x].item = target
        /\ resvW'[x].hold = NoHold /\ resvW'[x].expires = resvW[x].expires
        /\ \A y \in Requests \ {x} : resvW'[y] = resvW[y]
    BY <1>0, <2>2, <2>4 DEF Row
  <2>6. Agrees(x, resvW'[x], {})
    BY <2>1, <2>5 DEF Agrees, Absent
  <2>7. \A s \in Seats : resvW'[x].hold[s] \notin Active
    BY <2>5 DEF NoHold, Active, Absent
  <2> QED BY <2>3, <2>5, <2>6, <2>7 DEF Rewritten
<1>2. CASE TransitionSeats(x, target)
  <2>1. req[x].op = "seats" /\ Children(resvW[x]) = {"reserved"}
    BY <1>2 DEF TransitionSeats, SeatsMovable
  <2>2. /\ resvW[x].item = Absent
        /\ resvW[x].hold = [s \in Seats |-> IF s \in req[x].seats \ {}
                                           THEN resvW[x].status ELSE Absent]
    BY <1>a, <1>b, <2>1 DEF Agrees
  <2>3. PICK s0 \in req[x].seats : s0 \in Seats
    BY <2>1, SeatsAsked DEF Inv, TypeOK, EnvOK
  <2>4. resvW[x].hold[s0] = resvW[x].status
    BY <2>2, <2>3
  <2>5. resvW[x].hold[s0] \in Children(resvW[x])
    BY <1>b, <2>3, <2>4 DEF Children
  <2>6. resvW[x].status = "reserved"
    BY <2>1, <2>4, <2>5
  <2>7. resvW[x] = resv[x]
    BY <1>a, <2>6 DEF MovedOut
  <2>8. resvW' = [resvW EXCEPT
                    ![x].status = target,
                    ![x].hold = [s \in Seats |-> IF @[s] = Absent THEN Absent ELSE target]]
    BY <1>2 DEF TransitionSeats
  <2>9. /\ resvW'[x].status = target /\ resvW'[x].item = Absent
        /\ resvW'[x].hold = [s \in Seats |-> IF resvW[x].hold[s] = Absent
                                            THEN Absent ELSE target]
        /\ resvW'[x].expires = resvW[x].expires
        /\ \A y \in Requests \ {x} : resvW'[y] = resvW[y]
    BY <1>0, <2>2, <2>8 DEF Row
  <2>10. resvW'[x].hold = [s \in Seats |-> IF s \in req[x].seats \ {}
                                          THEN target ELSE Absent]
    BY <2>2, <2>6, <2>9 DEF Absent
  <2>11. Agrees(x, resvW'[x], {})
    BY <2>1, <2>9, <2>10 DEF Agrees, Absent
  <2>12. \A s \in Seats : resvW'[x].hold[s] \in Active => resv[x].hold[s] \in Active
    BY <2>2, <2>6, <2>7, <2>10 DEF Active, Absent
  <2> QED BY <2>7, <2>9, <2>11, <2>12 DEF Rewritten
<1> QED
  BY <1>1, <1>2 DEF TransitionReserved

\* Every statement of cancel, confirm and get.
LEMMA LifecycleKeepsRows ==
  ASSUME Inv, RowInv, NEW r \in Requests, Lifecycle(r)
  PROVE  RowInv'
<1>0. /\ r \in Process /\ r # None /\ r \notin Workers
      /\ pc \in [Process -> Label] /\ goal \in [Requests -> Status]
      /\ resvLock \in [Requests -> Process \cup {None}]
  BY StoreAssumption DEF Process, Inv, TypeOK, LocalsOK, TablesOK
<1>a. pc[r] \in LifecycleLabels => req[r].target \in Requests
  BY PayloadFields DEF Inv, StockInv, HandlerMatches, LifecycleLabels, TypeOK, EnvOK
<1> DEFINE x == req[r].target
<1> USE DEF Alone, OthersLocals
<1>1. CASE NotFound(r)
  BY <1>0, <1>1, QuietRows DEF NotFound, Done, tables, env, Holding, Inserting
<1>2. CASE LifecycleSettled(r)
  BY <1>0, <1>2, QuietRows DEF LifecycleSettled, Done, tables, env, Holding, Inserting
<1>3. CASE LifecycleLock(r)
  <2>1. /\ UNCHANGED <<req, resv, resvW, now, todo, stamp>>
        /\ pc[r] = "l_lock" /\ pc' = [pc EXCEPT ![r] = "l_move"]
        /\ resvLock' = [resvLock EXCEPT ![x] = r] /\ Free(resvLock[x], r)
        /\ Owned(r, x) /\ resv[x].status = "reserved"
        /\ goal' = [goal EXCEPT ![r] = IF resv[x].expires < now THEN "expired" ELSE Wanted(r)]
    BY <1>3 DEF LifecycleLock, Aim, Goto, env
  <2>0. x \in Requests
    BY <1>a, <2>1 DEF LifecycleLabels
  <2>2. Settles(r)
    BY <1>0, <2>0, <2>1 DEF Settles, Inserting, Wanted
  <2>3. \A y \in Requests : resvLock[y] # r
    BY <1>0, <2>1, NoRowLocked DEF Holding, Inserting
  <2>4. Entitled(r, x)'
    BY <1>0, <2>1 DEF Entitled
  <2>5. TakesLocks(r)
    BY <1>0, <2>0, <2>1, <2>3, <2>4 DEF TakesLocks, Free
  <2> QED BY <1>0, <2>1, <2>2, <2>5, FrameRows
<1>4. CASE LifecycleMove(r)
  <2>1. /\ UNCHANGED <<req, resv, resvLock, goal, stamp, now, todo>>
        /\ pc[r] = "l_move" /\ pc' = [pc EXCEPT ![r] = "l_commit"]
        /\ TransitionReserved(r, x, goal[r])
    BY <1>4 DEF LifecycleMove, Goto, env
  <2>2. /\ x \in Requests /\ resvLock[x] = r /\ resv[x].status = "reserved"
        /\ Owned(r, x) /\ goal[r] \in {"expired", Wanted(r)}
        /\ goal[r] = "expired" => resv[x].expires < now
    BY <1>a, <2>1 DEF RowInv, Intents, LifecycleLabels
  <2>3. goal[r] \in {"cancelled", "confirmed", "expired"}
    BY <2>2 DEF Wanted
  <2>4. Destination(r) = "expired" /\ Destination(r)' = goal[r]
    BY <1>0, <2>1 DEF Destination
  <2>5. goal[r] = "expired" => resv[x].expires <= now
    BY <2>2 DEF Inv, TypeOK, TablesOK, EnvOK, Row
  <2>6. Rewritten(r, x) /\ \A y \in Requests \ {x} : resvW'[y] = resvW[y]
    BY <1>0, <2>1, <2>2, <2>3, <2>4, <2>5, TransitionRewrites
  <2>7. \A y \in Requests : resvLock[y] = r => y = x
    BY <1>0, <2>1 DEF RowInv, RowLocks, Entitled, Inserting
  <2>8. Moved(r)
    <3>1. resvW'[x].status = goal[r]
      BY <2>4, <2>6 DEF Rewritten
    <3>2. \A y \in Requests : resvLock[y] = r => Entitled(r, y)'
      BY <1>0, <2>1, <2>2, <2>7 DEF Entitled
    <3> QED BY <1>0, <2>1, <2>2, <3>1, <3>2 DEF Moved, Inserting
  <2> QED BY <1>0, <2>1, <2>6, <2>7, <2>8, RewriteRows
<1>5. CASE LifecycleConflict(r)
  BY <1>0, <1>5, RollbackRows DEF LifecycleConflict, Done, env
<1>6. CASE LifecycleCommit(r)
  BY <1>0, <1>6, CommitRows DEF LifecycleCommit, Done, env
<1>7. CASE GetParent(r)
  BY <1>0, <1>7, QuietRows DEF GetParent, Goto, tables, env, Holding, Inserting
<1>8. CASE GetChildren(r)
  BY <1>0, <1>8, QuietRows DEF GetChildren, Done, tables, env, Holding, Inserting
<1> QED
  BY <1>1, <1>2, <1>3, <1>4, <1>5, <1>6, <1>7, <1>8 DEF Lifecycle

\* Every step of an expiration worker.
LEMMA WorkerKeepsRows ==
  ASSUME Inv, RowInv, NEW w \in Workers, ExpireBatch(w)
  PROVE  RowInv'
<1>0. /\ w \in Process /\ w # None /\ w \notin Requests
      /\ pc \in [Process -> Label] /\ todo \in [Process -> SUBSET Nat]
      /\ todo[w] \subseteq Requests
      /\ resvLock \in [Requests -> Process \cup {None}]
  BY StoreAssumption DEF Process, Inv, TypeOK, LocalsOK, TablesOK
<1> USE DEF Alone, OthersLocals
<1>1. CASE WorkerIdle(w)
  BY <1>0, <1>1, QuietRows DEF WorkerIdle, tables, locals, env, Holding, Inserting
<1>2. CASE WorkerLock(w)
  <2>1. /\ UNCHANGED <<req, resv, resvW, now, goal, stamp>>
        /\ pc[w] = "w_sleep" /\ pc' = [pc EXCEPT ![w] = "w_move"]
        /\ resvLock' = [x \in Requests |-> IF x \in Batch THEN w ELSE resvLock[x]]
        /\ todo' = [todo EXCEPT ![w] = Batch]
    BY <1>2 DEF WorkerLock, Goto, env
  <2>2. Settles(w)
    BY <1>0, <2>1 DEF Settles, Inserting
  <2>3. \A x \in Requests : resvLock[x] # w
    BY <1>0, <2>1, NoRowLocked DEF Holding, Inserting
  <2>4. \A x \in Batch : /\ x \in Requests /\ resv[x].status = "reserved"
                         /\ resv[x].expires < now /\ resvLock[x] = None
    BY DEF Batch, Expirable
  <2>5. TakesLocks(w)
    BY <1>0, <2>1, <2>3, <2>4 DEF TakesLocks, Entitled
  <2> QED BY <1>0, <2>1, <2>2, <2>5, FrameRows
<1>3. CASE WorkerMove(w)
  <2>1. /\ UNCHANGED <<req, resv, resvLock, goal, stamp, now>> /\ pc[w] = "w_move"
    BY <1>3 DEF WorkerMove, env
  <2>2. PICK x \in todo[w] :
          /\ TransitionReserved(w, x, "expired") \/ UNCHANGED resvW
          /\ todo' = [todo EXCEPT ![w] = @ \ {x}]
          /\ pc' = [pc EXCEPT ![w] = IF todo[w] = {x} THEN "w_commit" ELSE "w_move"]
    BY <1>3 DEF WorkerMove, Goto
  <2>3. pc'[w] \in {"w_move", "w_commit"} /\ Alone(w)
    BY <1>0, <2>2
  <2>4. Destination(w) = "expired" /\ Destination(w)' = "expired"
    BY <1>0 DEF Destination
  <2>5. \A y \in Requests : resvLock[y] = w => Entitled(w, y) /\ Entitled(w, y)'
    BY <1>0, <2>1, <2>3 DEF RowInv, RowLocks, Entitled
  <2>6. x \in Requests /\ resvLock[x] = w /\ resv[x].status = "reserved"
    BY <2>1 DEF Inv, StockInv, LocksHeld
  <2>7. resv[x].expires <= now
    BY <1>0, <2>5, <2>6 DEF Entitled, Inv, TypeOK, TablesOK, EnvOK, Row
  <2>8. CASE TransitionReserved(w, x, "expired")
    <3>1. Rewritten(w, x) /\ \A y \in Requests \ {x} : resvW'[y] = resvW[y]
      BY <1>0, <2>4, <2>6, <2>7, <2>8, TransitionRewrites
    <3>2. Moved(w)
      BY <1>0, <2>1, <2>3, <2>5 DEF Moved, Inserting
    <3> QED BY <1>0, <2>1, <2>3, <2>4, <3>1, <3>2, RewriteRows
  <2>9. CASE UNCHANGED resvW
    <3>1. Settles(w)
      BY <1>0, <2>1, <2>3 DEF Settles, Inserting
    <3>2. TakesLocks(w)
      BY <2>1, <2>5 DEF TakesLocks
    <3> QED BY <1>0, <2>1, <2>3, <2>9, <3>1, <3>2, FrameRows
  <2> QED BY <2>2, <2>8, <2>9
<1>4. CASE WorkerCommit(w)
  BY <1>0, <1>4, CommitRows DEF WorkerCommit, Goto, env
<1> QED
  BY <1>1, <1>2, <1>3, <1>4 DEF ExpireBatch

\* A session that ends without a commit.
LEMMA AbortKeepsRows ==
  ASSUME Inv, RowInv, NEW p \in Process, Abort(p)
  PROVE  RowInv'
<1>0. pc \in [Process -> Label] /\ Rollback(p) /\ UNCHANGED <<req, goal, stamp, now>>
  BY DEF Inv, TypeOK, LocalsOK, Abort
<1>1. Alone(p) /\ pc'[p] \in {"done", "w_sleep"}
  BY <1>0 DEF Abort, Goto, Alone
<1> QED
  BY <1>0, <1>1, RollbackRows

\* The empty tables of the initial states.
LEMMA InitRows == Init => RowInv
<1> SUFFICES ASSUME Init PROVE RowInv
  OBVIOUS
<1>0. /\ \A x \in Requests : resv[x] = NoRow /\ resvW[x] = NoRow /\ resvLock[x] = None
      /\ \A r \in Requests : pc[r] = "done" \/ pc[r] = Entry(req[r].op)
  BY StoreAssumption DEF Process, Init, InitWith
<1>a. \A r \in Requests :
        req[r].op \in {"quantity", "seats", "get", "cancel", "confirm"}
  <2>1. \A r \in Requests : req[r] \in Payload
    BY StoreAssumption DEF Init, Payloads
  <2> QED BY <2>1 DEF Payload, QuantityPayload, SeatsPayload, LifecyclePayload
<1>b. \A r \in Requests :
        pc[r] \notin Inserting \cup {"q_insert", "s_parents", "s_insert", "l_move", "l_commit"}
  BY <1>0, <1>a DEF Entry, Inserting
<1>1. WrittenRows /\ InsertedRows /\ StaleParents /\ Intents
  BY <1>0, <1>b DEF WrittenRows, InsertedRows, StaleParents, Intents
<1>2. WrittenAgreement /\ ParentChildAgreement
  <2>1. \A x \in Requests : \A owed : Agrees(x, NoRow, owed)
    BY DEF Agrees, NoRow
  <2> QED BY <1>0, <1>b, <2>1 DEF WrittenAgreement, ParentChildAgreement, Inserting
<1>3. RowLocks /\ KeysUnique
  BY <1>0 DEF RowLocks, KeysUnique, NoRow
<1>4. NoDoubleSeat /\ HoldsApart
  BY <1>0 DEF NoDoubleSeat, HoldsApart, NoRow, NoHold, Active, Absent
<1> QED
  BY <1>1, <1>2, <1>3, <1>4 DEF RowInv

\* Every step keeps the invariant of the rows.
LEMMA NextKeepsRows ==
  ASSUME Inv, RowInv, [Next]_vars
  PROVE  RowInv'
<1>1. ASSUME NEW r \in Requests, Serve(r) PROVE RowInv'
  BY <1>1, QuantityKeepsRows, SeatsKeepRows, LifecycleKeepsRows DEF Serve
<1>2. ASSUME NEW w \in Workers, ExpireBatch(w) PROVE RowInv'
  BY <1>2, WorkerKeepsRows
<1>3. ASSUME NEW p \in Process, Abort(p) PROVE RowInv'
  BY <1>3, AbortKeepsRows
<1>4. CASE Tick
  BY <1>4, TickRows DEF Tick, tables, locals
<1>5. CASE UNCHANGED vars
  <2>1. UNCHANGED <<req, resv, resvW, resvLock, pc, todo, goal, stamp, now>>
    BY <1>5 DEF vars, tables, locals, env
  <2>2. (WrittenRows /\ InsertedRows /\ WrittenAgreement /\ ParentChildAgreement)'
    BY <2>1 DEF RowInv, WrittenRows, InsertedRows, WrittenAgreement, ParentChildAgreement,
       Inserted, MovedOut, Destination, Agrees, Owed
  <2>3. (RowLocks /\ StaleParents /\ Intents)'
    BY <2>1 DEF RowInv, RowLocks, StaleParents, Intents, Entitled, OverdueHold, Owned, Wanted
  <2>4. (KeysUnique /\ NoDoubleSeat /\ HoldsApart)'
    BY <2>1 DEF RowInv, KeysUnique, SameKey, NoDoubleSeat, HoldsApart
  <2> QED BY <2>2, <2>3, <2>4 DEF RowInv
<1>6. CASE AllAnswered
  BY <1>5, <1>6 DEF AllAnswered, vars
<1>7. CASE Next
  BY <1>1, <1>2, <1>3, <1>4, <1>6, <1>7 DEF Next, Crash, DeadlockVictim
<1> QED
  BY <1>5, <1>7

-----------------------------------------------------------------------------
(* What every behaviour of the system does *)

\* The invariants of the stock and of the rows hold in every behaviour.
THEOREM RowInvariant == Spec => [](Inv /\ RowInv)
<1>1. Init => Inv /\ RowInv
  BY InitTypes, InitStock, InitRows DEF Inv
<1>2. Inv /\ RowInv /\ [Next]_vars => (Inv /\ RowInv)'
  BY NextKeepsStock, NextKeepsRows
<1> QED
  BY <1>1, <1>2, PTL DEF Spec

\* A seat never has two active holds, committed or written: the unique index,
\* the waits it imposes and the expiry of stale holds before the insert are
\* enough, however reserve, cancel, confirm and the workers interleave.
THEOREM SeatsHeldOnce == Spec => []NoDoubleSeat
<1>1. Inv /\ RowInv => NoDoubleSeat
  BY DEF RowInv
<1> QED
  BY <1>1, RowInvariant, PTL

\* A committed reservation and its children always have the same status, and
\* the children are those its request asked for, whichever of reserve, cancel,
\* confirm, the workers and the sweep of stale holds wrote them.
THEOREM ChildrenFollowParents == Spec => []ParentChildAgreement
<1>1. Inv /\ RowInv => ParentChildAgreement
  BY DEF RowInv
<1> QED
  BY <1>1, RowInvariant, PTL

=============================================================================
