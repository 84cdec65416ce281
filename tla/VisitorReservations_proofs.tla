---------------------- MODULE VisitorReservations_proofs ----------------------
(***************************************************************************)
(* Whom a reservation is booked for and who may settle it, for every set   *)
(* of browsers, accounts, requests and visits, whatever logins and logouts *)
(* overlap the reservations.                                               *)
(***************************************************************************)
EXTENDS VisitorReservations, ReservationAnswers_proofs

VP == INSTANCE VisitorSessions_proofs WITH
        Requests <- Requests \cup Visits, Workloads <- VisitWorkloads,
        req <- visit, pc <- at, reply <- answer

-----------------------------------------------------------------------------
(* The invariant *)

Authenticated(r) == at[r] \in {"answer", "done"} /\ answer[r].code = "OK"

\* Whom a request acts for once it is authenticated.
Acts(r) ==
  /\ req[r].by.session = token[r] /\ token[r] \in created
  /\ req[r].by.user # None => /\ req[r].by.user \in Requests \cup Visits
                              /\ VP!LoggedIn(req[r].by.user, token[r])
  /\ as[r] # Unsure => req[r].by.user = as[r]

\* Before that, and without a session, its handler has done nothing.
Idle(r) ==
  /\ resv[r] = NoRow /\ resvW[r] = NoRow /\ reply[r] = Answer("PENDING")
  /\ as[r] = Unsure
  /\ pc[r] = IF at[r] \in {"answer", "done"} THEN "done" ELSE Entry(req[r].op)

Asked(r) ==
  /\ at[r] \in {"new", "me", "answer", "done"}
  /\ IF Authenticated(r) THEN Acts(r) ELSE Idle(r)

RequestsInv == \A r \in Requests : Asked(r)

\* Who settled a reservation owned it, and still does.
SettledOwned ==
  \A r \in Requests :
    reply[r].code = "OK" /\ req[r].op \in {"cancel", "confirm"} =>
      Owned(r, req[r].target)

\* The session an answer names acts for the user it names.
AnswersAs(v) ==
  answer[v].session # None =>
    sessions[answer[v].session].user =
      IF visit[v].op = "login" THEN answer[v].user ELSE None

\* Nothing overlaps a session change that is alone: what it has read of its
\* session is what the session still says, and so is what it is answered.
AloneInv ==
  \A v \in alone :
    /\ v \in Visits /\ visit[v].op \in SessionChange /\ at[v] # "new"
    /\ v \in Changing(visit[v].by) => Changing(visit[v].by) = {v}
    /\ at[v] = "l_link" => seen[v] = sessions[token[v]].user
    /\ at[v] = "answer" /\ answer[v].code = "OK" => AnswersAs(v)

\* A browser that knows whom it acts for has a cookie that says so.
WhoInv ==
  \A b \in Browsers :
    who[b] # Unsure => /\ Changing(b) = {}
                       /\ cookie[b] # None => sessions[cookie[b]].user = who[b]

VisitorTypes ==
  /\ who \in [Browsers -> Requests \cup Visits \cup {None, Unsure}]
  /\ as \in [Requests -> Requests \cup Visits \cup {None, Unsure}]

VisitorInv ==
  /\ Inv /\ RowInv /\ VP!WaitingInv /\ VisitorTypes
  /\ RequestsInv /\ SettledOwned /\ AloneInv /\ WhoInv

-----------------------------------------------------------------------------
(* The sessions of VisitorSessions, with the reservation requests among them *)

Sent == Requests \cup Visits

\* The constants satisfy the assumption of VisitorSessions.
LEMMA VisitsAssumed ==
  /\ Requests \cup Visits \subseteq Nat /\ None \notin Requests \cup Visits
  /\ Normal \in [Addresses -> Addresses]
  /\ SessionTTL \in Nat \ {0} /\ InFlight \in [Browsers -> Nat \ {0}]
  /\ MaxTime \in Nat /\ MaxCrashes \in Nat
  /\ VisitWorkloads \subseteq [Requests \cup Visits -> VP!Anonymous \cup VP!Credentials]
BY StoreAssumption, VisitorsAssumption
   DEF Process, Visitor!Anonymous, Visitor!Credentials, VP!Anonymous, VP!Credentials

\* The same definitions, with their proofs.
LEMMA SameActions ==
  ASSUME NEW v
  PROVE  /\ Visitor!Send(v) <=> VP!Send(v)
         /\ Visitor!Receive(v) <=> VP!Receive(v)
         /\ Visitor!Handle(v) <=> VP!Handle(v)
<1>1. \A S : Visitor!Cardinality(S) = VP!Cardinality(S)
  BY DEF Visitor!Cardinality, VP!Cardinality
<1>2. Visitor!Send(v) <=> VP!Send(v)
  BY <1>1 DEF Visitor!Send, VP!Send, Visitor!Underway, VP!Underway, Visitor!rows, VP!rows
<1>3. Visitor!Receive(v) <=> VP!Receive(v)
  BY DEF Visitor!Receive, VP!Receive, Visitor!rows, VP!rows, Visitor!locals, VP!locals
<1>4. Visitor!Handle(v) <=> VP!Handle(v)
  BY DEF Visitor!Handle, VP!Handle,
     Visitor!CreateAnonymous, VP!CreateAnonymous, Visitor!ReadCurrent, VP!ReadCurrent,
     Visitor!LogoutRead, VP!LogoutRead, Visitor!LogoutWrite, VP!LogoutWrite,
     Visitor!RegisterLookup, VP!RegisterLookup, Visitor!RegisterInsert, VP!RegisterInsert,
     Visitor!LoginLookup, VP!LoginLookup, Visitor!LoginVerify, VP!LoginVerify,
     Visitor!LoginSession, VP!LoginSession, Visitor!LoginCreate, VP!LoginCreate,
     Visitor!LoginLink, VP!LoginLink, Visitor!CreateSession, VP!CreateSession,
     Visitor!Replied, VP!Replied, Visitor!Reached, VP!Reached, Visitor!Active, VP!Active,
     Visitor!Answer, VP!Answer, Visitor!Address, VP!Address,
     Visitor!PasswordMatches, VP!PasswordMatches,
     Visitor!InvalidatedSession, VP!InvalidatedSession,
     Visitor!LinkedSession, VP!LinkedSession, Visitor!WrittenUser, VP!WrittenUser,
     Visitor!rows, VP!rows, Visitor!locals, VP!locals
<1> QED BY <1>2, <1>3, <1>4

\* Every step of the visitors is one of VisitorSessions.
LEMMA WaitingStays ==
  ASSUME VP!WaitingInv, [VP!Next]_(VP!vars)
  PROVE  VP!WaitingInv'
BY VisitsAssumed, VP!NextWaiting

\* What a visit asks for; a reservation request asks for its session.
LEMMA VisitFields ==
  ASSUME visit \in VisitWorkloads, NEW v \in Requests \cup Visits
  PROVE  /\ visit[v].by \in Browsers
         /\ visit[v].op \in {"anonymous", "me", "logout", "register", "login"}
         /\ v \in Requests => visit[v].op = "me" /\ v \notin Visits
<1>1. v \in Requests => visit[v].op = "me" /\ v \notin Visits
  BY VisitorsAssumption
<1> QED BY <1>1, VisitsAssumed, VP!PayloadFields

\* What follows from the invariant of the sessions, in one place.
LEMMA SessionFacts ==
  ASSUME VP!WaitingInv
  PROVE  /\ VP!TypeOK /\ VP!HandlerMatches /\ VP!CookiesOwn /\ VP!AnswersOwn
         /\ VP!SessionActsFor /\ visit \in VisitWorkloads
         /\ created \subseteq Requests \cup Visits
BY DEF VP!WaitingInv, VP!SessionInv, VP!TypeOK

\* The death of a request's process touches no session.
LEMMA CrashWaiting ==
  ASSUME VP!WaitingInv, crashes' \in 0..MaxCrashes,
         UNCHANGED <<visits, browsers, now>>
  PROVE  VP!WaitingInv'
<1> USE DEF visits, visitRows, browsers
<1>1. VP!TypeOK'
  BY DEF VP!WaitingInv, VP!SessionInv, VP!TypeOK, VP!Session, VP!Reply
<1>2. VP!HandlerMatches' /\ VP!HoldersRegistered' /\ VP!RegistrationReplies'
      /\ VP!LoginsVerified'
  BY DEF VP!WaitingInv, VP!SessionInv, VP!HandlerMatches, VP!HoldersRegistered,
         VP!RegistrationReplies, VP!LoginsVerified, VP!Address
<1>3. VP!SessionActsFor'
  BY DEF VP!WaitingInv, VP!SessionInv, VP!SessionActsFor, VP!LoggedIn, VP!Address
<1>4. VP!CookiesOwn' /\ VP!AnswersOwn' /\ VP!OneAtATime'
  BY DEF VP!WaitingInv, VP!CookiesOwn, VP!AnswersOwn, VP!OneAtATime, VP!Held, VP!Underway
<1>5. VP!LogoutsOver' /\ VP!LinksCurrent'
  BY DEF VP!WaitingInv, VP!LogoutsOver, VP!LinksCurrent, VP!GivenUp, VP!Active
<1> QED
  BY <1>1, <1>2, <1>3, <1>4, <1>5 DEF VP!WaitingInv, VP!SessionInv

\* Accounts of visits that are over: whoever registered an address holds it.
VisitorsStart ==
  \E over \in SUBSET Visits : \E holders \in [Addresses -> over \cup {None}] :
    /\ \A a \in Addresses :
         holders[a] # None => /\ visit[holders[a]].op = "register"
                              /\ Normal[visit[holders[a]].address] = a
    /\ StartWith(over, holders)

\* Nobody has a cookie, a session or a request under way at the start.
LEMMA StartWaiting == VisitorsStart => VP!WaitingInv
<1> SUFFICES ASSUME NEW over \in SUBSET Visits,
                    NEW holders \in [Addresses -> over \cup {None}],
                    \A a \in Addresses :
                      holders[a] # None => /\ visit[holders[a]].op = "register"
                                           /\ Normal[visit[holders[a]].address] = a,
                    StartWith(over, holders)
             PROVE  VP!WaitingInv
  BY DEF VisitorsStart
<1>1. /\ users = holders /\ created = {} /\ visit \in VisitWorkloads
      /\ sessions = [s \in Requests \cup Visits |-> [user |-> None, expires |-> 0]]
      /\ cookie = [b \in Browsers |-> None]
      /\ at = [v \in Requests \cup Visits |-> IF v \in over THEN "done" ELSE "new"]
      /\ token = [v \in Requests \cup Visits |-> None]
      /\ account = token /\ seen = token
      /\ answer = [v \in Requests \cup Visits |-> VP!Answer("PENDING")]
      /\ now = 0 /\ crashes = 0
  BY DEF StartWith, Init, InitWith, Visitor!Answer, VP!Answer
<1>2. VP!TypeOK
  BY <1>1, VisitsAssumed
     DEF VP!TypeOK, VP!Session, VP!Reply, VP!Code, VP!Labels, VP!Answer
<1>3. VP!HandlerMatches /\ VP!RegistrationReplies /\ VP!LoginsVerified
  BY <1>1 DEF VP!HandlerMatches, VP!RegistrationReplies, VP!LoginsVerified, VP!Answer
<1>4. VP!HoldersRegistered
  BY <1>1 DEF VP!HoldersRegistered, VP!Address
<1>5. VP!SessionActsFor
  BY <1>1 DEF VP!SessionActsFor, VP!Answer
<1>6. VP!CookiesOwn /\ VP!AnswersOwn
  BY <1>1 DEF VP!CookiesOwn, VP!AnswersOwn, VP!Answer
<1>7. VP!OneAtATime /\ VP!LogoutsOver /\ VP!LinksCurrent
  BY <1>1 DEF VP!OneAtATime, VP!Underway, VP!LogoutsOver, VP!LinksCurrent, VP!Answer
<1> QED
  BY <1>2, <1>3, <1>4, <1>5, <1>6, <1>7 DEF VP!WaitingInv, VP!SessionInv

-----------------------------------------------------------------------------
(* What authentication does to the reservations *)

\* The first statement of a handler.
LEMMA Entries ==
  ASSUME req \in Payloads, NEW r \in Requests
  PROVE  /\ req[r].op \in {"quantity", "seats", "get", "cancel", "confirm"}
         /\ Entry(req[r].op) \in {"q_lookup", "s_lookup", "g_parent", "l_lock"}
<1>1. req[r] \in Payload
  BY DEF Payloads
<1>2. req[r].op \in {"quantity", "seats", "get", "cancel", "confirm"}
  BY <1>1 DEF Payload, QuantityPayload, SeatsPayload, LifecyclePayload
<1> QED BY <1>2 DEF Entry

\* Request r is given an owner, before its first statement.
Rebooked(r, owner) ==
  /\ resv[r] = NoRow /\ resvW[r] = NoRow /\ pc[r] = Entry(req[r].op)
  /\ owner \in Owner /\ req' = [req EXCEPT ![r].by = owner]
  /\ UNCHANGED <<tables, locals, now, crashes>>

\* It asks for what it asked for.
LEMMA RebookedFields ==
  ASSUME req \in Payloads, NEW r \in Requests, NEW owner, Rebooked(r, owner)
  PROVE  /\ req' \in Payloads /\ req'[r].by = owner
         /\ \A x \in Requests :
              /\ req'[x].op = req[x].op /\ (x # r => req'[x] = req[x])
              /\ req[x].op = "quantity" => /\ req'[x].ticket = req[x].ticket
                                           /\ req'[x].quantity = req[x].quantity
              /\ req[x].op = "seats" => req'[x].seats = req[x].seats
              /\ req[x].op \in {"quantity", "seats"} => req'[x].key = req[x].key
              /\ req[x].op \in {"get", "cancel", "confirm"} => req'[x].target = req[x].target
<1> DEFINE new == [req[r] EXCEPT !.by = owner]
<1>1. req' = [req EXCEPT ![r] = new] /\ req[r] \in Payload /\ owner \in Owner
  BY DEF Rebooked, Payloads
<1>2. CASE req[r] \in QuantityPayload
  <2>1. /\ new \in QuantityPayload /\ new.by = owner /\ new.op = req[r].op
        /\ new.ticket = req[r].ticket /\ new.quantity = req[r].quantity
        /\ new.key = req[r].key /\ req[r].op = "quantity"
    BY <1>1, <1>2 DEF QuantityPayload
  <2> QED BY <1>1, <2>1 DEF Payloads, Payload
<1>3. CASE req[r] \in SeatsPayload
  <2>1. /\ new \in SeatsPayload /\ new.by = owner /\ new.op = req[r].op
        /\ new.seats = req[r].seats /\ new.key = req[r].key /\ req[r].op = "seats"
    BY <1>1, <1>3 DEF SeatsPayload
  <2> QED BY <1>1, <2>1 DEF Payloads, Payload
<1>4. CASE req[r] \in LifecyclePayload
  <2>1. /\ new \in LifecyclePayload /\ new.by = owner /\ new.op = req[r].op
        /\ new.target = req[r].target /\ req[r].op \in {"get", "cancel", "confirm"}
    BY <1>1, <1>4 DEF LifecyclePayload
  <2> QED BY <1>1, <2>1 DEF Payloads, Payload
<1> QED BY <1>1, <1>2, <1>3, <1>4 DEF Payload

\* The books do not name owners.
LEMMA RebookKeepsStock ==
  ASSUME Inv, NEW r \in Requests, NEW owner, Rebooked(r, owner)
  PROVE  Inv'
<1> USE DEF Inv, StockInv
<1>0. req \in Payloads /\ UNCHANGED <<tables, locals, now, crashes>>
  BY DEF TypeOK, EnvOK, Rebooked
<1>a. /\ req' \in Payloads
      /\ \A x \in Requests :
           /\ req'[x].op = req[x].op
           /\ req[x].op = "quantity" => /\ req'[x].ticket = req[x].ticket
                                        /\ req'[x].quantity = req[x].quantity
           /\ req[x].op \in {"get", "cancel", "confirm"} => req'[x].target = req[x].target
  BY <1>0, RebookedFields
<1>1. TypeOK'
  BY <1>0, <1>a DEF TypeOK, TablesOK, LocalsOK, EnvOK, tables, locals
<1>2. HandlerMatches'
  BY <1>0, <1>a DEF HandlerMatches, locals
<1>3. UnlockedIsCommitted' /\ NotYetInserted'
  BY <1>0 DEF UnlockedIsCommitted, NotYetInserted, tables, locals
<1>4. LocksHeld'
  BY <1>0, <1>a DEF LocksHeld, HandlerMatches, QuantityLabels, LifecycleLabels, tables, locals
<1>5. OneWriter'
  BY <1>0, <1>a DEF OneWriter, tables
<1>6. \A t, st : Units(resv, t, st)' = Units(resv, t, st) /\ Units(resvW, t, st)' = Units(resvW, t, st)
  BY <1>0, <1>a DEF Units, tables
<1>7. \A t \in TicketTypes : Uninserted(t)' = Uninserted(t)
  BY <1>0, <1>a DEF Uninserted, HandlerMatches, QuantityLabels, tables, locals
<1>8. WorkAccounting' /\ StockAccounting'
  BY <1>0, <1>6, <1>7 DEF WorkAccounting, StockAccounting, tables
<1> QED
  BY <1>1, <1>2, <1>3, <1>4, <1>5, <1>8

\* A request that has no row has no key taken and owns nothing that is locked.
LEMMA RebookKeepsRows ==
  ASSUME Inv, RowInv, NEW r \in Requests, NEW owner, Rebooked(r, owner)
  PROVE  RowInv'
<1> USE DEF RowInv
<1>0. /\ req \in Payloads /\ HandlerMatches
      /\ resv[r] = NoRow /\ resvW[r] = NoRow
      /\ UNCHANGED <<resv, resvW, resvLock, pc, todo, goal, stamp, now>>
  BY DEF Inv, StockInv, TypeOK, EnvOK, Rebooked, tables, locals
<1>a. \A x \in Requests :
           /\ req'[x].op = req[x].op /\ (x # r => req'[x] = req[x])
           /\ req[x].op = "seats" => req'[x].seats = req[x].seats
           /\ req[x].op \in {"quantity", "seats"} => req'[x].key = req[x].key
           /\ req[x].op \in {"get", "cancel", "confirm"} => req'[x].target = req[x].target
  BY <1>0, RebookedFields
<1>b. pc[r] \in {"q_lookup", "s_lookup", "g_parent", "l_lock"}
  BY <1>0, Entries DEF Rebooked
<1>1. WrittenRows' /\ InsertedRows'
  BY <1>0 DEF WrittenRows, InsertedRows, Inserted, MovedOut, Destination
<1>3. WrittenAgreement' /\ ParentChildAgreement'
  <2>1. ASSUME NEW x \in Requests
        PROVE  /\ Agrees(x, resv[x], {})'
               /\ Agrees(x, resvW[x], Owed(x))'
               /\ pc'[x] = "s_holds" => todo'[x] \subseteq req'[x].seats
    <3>1. Agrees(x, resv[x], {}) /\ Agrees(x, resvW[x], Owed(x))
      BY DEF WrittenAgreement, ParentChildAgreement
    <3>2. /\ resv'[x] = resv[x] /\ resvW'[x] = resvW[x] /\ Owed(x)' = Owed(x)
          /\ req'[x].op = req[x].op
          /\ req[x].op = "seats" => req'[x].seats = req[x].seats
      BY <1>0, <1>a DEF Owed
    <3>3. pc[x] = "s_holds" => req[x].op = "seats"
      BY <1>0 DEF HandlerMatches, SeatsLabels
    <3>4. Agrees(x, resv[x], {})' /\ Agrees(x, resvW[x], Owed(x))'
      BY <3>1, <3>2 DEF Agrees
    <3> QED BY <1>0, <3>2, <3>3, <3>4 DEF WrittenAgreement
  <2> QED BY <2>1 DEF WrittenAgreement, ParentChildAgreement
<1>4. \A x \in Requests : OverdueHold(x)' <=> OverdueHold(x)
  BY <1>0, <1>a DEF OverdueHold
<1>5. RowLocks'
  BY <1>0, <1>a, <1>4 DEF RowLocks, Entitled, HandlerMatches, LifecycleLabels
<1>6. StaleParents'
  BY <1>0, <1>4 DEF StaleParents
<1>7. Intents'
  <2> SUFFICES ASSUME NEW q \in Requests, pc'[q] \in {"l_move", "l_commit"}
               PROVE  LET x == req[q].target
                      IN /\ resvLock'[x] = q /\ resv'[x].status = "reserved" /\ Owned(q, x)'
                         /\ goal'[q] \in {"expired", Wanted(q)'}
                         /\ goal'[q] = "expired" => resv'[x].expires < now'
                         /\ pc'[q] = "l_commit" => resvW'[x].status = goal'[q]
    <3>1. \A q \in Requests : pc'[q] \in {"l_move", "l_commit"} => req'[q] = req[q]
      BY <1>0, <1>a, <1>b
    <3> QED BY <3>1 DEF Intents, Owned, Wanted
  <2>1. q # r /\ pc[q] \in {"l_move", "l_commit"} /\ req'[q] = req[q]
    BY <1>0, <1>a, <1>b
  <2>2. req[q].target \in Requests
    BY <1>0, <2>1, PayloadFields DEF HandlerMatches, LifecycleLabels
  <2>3. resv[req[q].target].status = "reserved"
    BY <2>1 DEF Intents
  <2>4. req'[req[q].target] = req[req[q].target]
    BY <1>0, <1>a, <2>2, <2>3 DEF NoRow, Absent
  <2> QED BY <1>0, <2>1, <2>4 DEF Intents, Owned, Wanted
<1>8. KeysUnique'
  <2> SUFFICES ASSUME NEW y \in Requests, resvW[y].status # Absent, NEW x \in SameKey(y)'
               PROVE  resvW[x].status = Absent
    BY <1>0 DEF KeysUnique
  <2>1. y # r /\ x \in Requests
    BY <1>0 DEF NoRow, SameKey
  <2>2. CASE x = r
    BY <1>0, <2>2 DEF NoRow
  <2>3. CASE x # r
    <3>1. x \in SameKey(y)
      BY <1>a, <2>1, <2>3 DEF SameKey
    <3> QED BY <3>1 DEF KeysUnique
  <2> QED BY <2>2, <2>3
<1>9. NoDoubleSeat' /\ HoldsApart'
  BY <1>0 DEF NoDoubleSeat, HoldsApart
<1> QED
  BY <1>1, <1>3, <1>5, <1>6, <1>7, <1>8, <1>9

\* A request without a session is over before its first statement.
LEMMA RefusedKeeps ==
  ASSUME Inv, RowInv, NEW r \in Requests, pc[r] = Entry(req[r].op),
         pc' = [pc EXCEPT ![r] = "done"],
         UNCHANGED <<tables, todo, goal, stamp, reply, req, now, crashes>>
  PROVE  (Inv /\ RowInv)'
<1>0. /\ r \in Process /\ pc \in [Process -> Label] /\ req \in Payloads
      /\ UNCHANGED <<tickets, ticketsW, ticketLock, resv, resvW, resvLock>>
  BY DEF Inv, TypeOK, LocalsOK, EnvOK, Process, tables
<1>1. pc[r] \in {"q_lookup", "s_lookup", "g_parent", "l_lock"} /\ pc'[r] = "done"
  BY <1>0, Entries
<1>2. TypeOK'
  BY <1>0 DEF Inv, TypeOK, TablesOK, LocalsOK, EnvOK, Label, tables
<1>3. HandlerMatches'
  BY <1>0, <1>1 DEF Inv, StockInv, HandlerMatches, QuantityLabels, SeatsLabels,
     LifecycleLabels, GetLabels
<1>4. Alone(r) /\ OthersGoal(r) /\ OthersLocals(r) /\ Moves(r)
  BY <1>0, <1>1 DEF Alone, OthersGoal, OthersLocals, Moves, BeforeInsert
<1>5. StockInv'
  BY <1>0, <1>1, <1>3, <1>4, QuietStep
<1>6. RowInv'
  BY <1>0, <1>1, <1>4, QuietRows DEF Holding, Inserting
<1> QED
  BY <1>2, <1>5, <1>6 DEF Inv

-----------------------------------------------------------------------------
(* What a browser knows of its session *)

\* A session is written by a login or logout that is under way in its browser.
LEMMA SessionWriter ==
  ASSUME VP!WaitingInv, NEW v \in Requests \cup Visits, VP!Handle(v),
         NEW s \in created, sessions'[s] # sessions[s]
  PROVE  /\ v \in Changing(visit[s].by) /\ token[v] = s
         /\ at[v] \in {"o_write", "l_link"}
<1>1. /\ VP!TypeOK /\ VP!HandlerMatches /\ VP!CookiesOwn /\ VP!AnswersOwn
      /\ visit \in VisitWorkloads /\ s \in Requests \cup Visits /\ s # None
  BY SessionFacts, VisitsAssumed
<1>2. at[s] \in {"answer", "done"}
  BY <1>1 DEF VP!AnswersOwn
<1>3. \/ VP!CreateAnonymous(v) \/ VP!LoginCreate(v)
      \/ VP!LogoutWrite(v) \/ VP!LoginLink(v)
  BY DEF VP!Handle, VP!ReadCurrent, VP!LogoutRead, VP!RegisterLookup, VP!RegisterInsert,
     VP!LoginLookup, VP!LoginVerify, VP!LoginSession, VP!rows
<1>4. ~ (VP!CreateAnonymous(v) \/ VP!LoginCreate(v))
  BY <1>1, <1>2 DEF VP!CreateAnonymous, VP!LoginCreate, VP!CreateSession, VP!TypeOK
<1>5. at[v] \in {"o_write", "l_link"} /\ token[v] = s
  BY <1>1, <1>3, <1>4 DEF VP!LogoutWrite, VP!LoginLink, VP!TypeOK
<1>6. visit[v].op \in {"logout", "login"} /\ v \in Visits
  BY <1>1, <1>5, VisitFields DEF VP!HandlerMatches
<1>7. visit[s].by = visit[v].by
  BY <1>1, <1>5 DEF VP!CookiesOwn, VP!Held
<1> QED
  BY <1>5, <1>6, <1>7 DEF Changing, SessionChange

\* What a session change that is alone has read, and what it is answered, is
\* what the session says: its own statements see to that.
LEMMA AloneHandles ==
  ASSUME VP!WaitingInv, AloneInv, NEW v \in alone, VP!Handle(v)
  PROVE  /\ at'[v] = "l_link" => seen'[v] = sessions'[token'[v]].user
         /\ at'[v] = "answer" /\ answer'[v].code = "OK" => AnswersAs(v)'
<1>0. /\ VP!TypeOK /\ VP!HandlerMatches /\ VP!AnswersOwn
      /\ v \in Requests \cup Visits /\ visit[v].op \in SessionChange
      /\ at[v] = "l_link" => seen[v] = sessions[token[v]].user
      /\ visit' = visit
  BY SessionFacts DEF AloneInv, VP!Handle
<1>1. CASE VP!CreateAnonymous(v)
  BY <1>0, <1>1 DEF VP!CreateAnonymous, VP!CreateSession, VP!Replied, VP!TypeOK, VP!locals,
     AnswersAs, VP!HandlerMatches
<1>2. CASE VP!ReadCurrent(v) \/ VP!RegisterLookup(v) \/ VP!RegisterInsert(v)
  BY <1>0, <1>2 DEF VP!ReadCurrent, VP!RegisterLookup, VP!RegisterInsert, VP!HandlerMatches,
     SessionChange
<1>3. CASE VP!LogoutRead(v)
  BY <1>0, <1>3 DEF VP!LogoutRead, VP!Replied, VP!Reached, VP!Answer, VP!TypeOK, AnswersAs
<1>4. CASE VP!LogoutWrite(v)
  BY <1>0, <1>4 DEF VP!LogoutWrite, VP!Replied, VP!Answer, VP!TypeOK, AnswersAs
<1>5. CASE VP!LoginLookup(v)
  BY <1>0, <1>5 DEF VP!LoginLookup, VP!Replied, VP!Reached, VP!Answer, VP!TypeOK, AnswersAs
<1>6. CASE VP!LoginVerify(v)
  BY <1>0, <1>6 DEF VP!LoginVerify, VP!Replied, VP!Reached, VP!Answer, VP!TypeOK, AnswersAs
<1>7. CASE VP!LoginSession(v)
  BY <1>0, <1>7 DEF VP!LoginSession, VP!Reached, VP!TypeOK, VP!rows
<1>8. CASE VP!LoginCreate(v)
  BY <1>0, <1>8 DEF VP!LoginCreate, VP!CreateSession, VP!Replied, VP!TypeOK, VP!locals,
     AnswersAs, VP!HandlerMatches
<1>9. CASE VP!LoginLink(v)
  <2>1. token[v] \in Requests \cup Visits /\ visit[v].op = "login"
    BY <1>0, <1>9 DEF VP!LoginLink, VP!HandlerMatches, VP!TypeOK
  <2>2. VP!LinkedSession(v, token[v], account[v]).user = account[v]
    BY <1>0, <1>9 DEF VP!LinkedSession, VP!WrittenUser, VP!LoginLink
  <2> QED
    BY <1>0, <1>9, <2>1, <2>2 DEF VP!LoginLink, VP!Replied, VP!TypeOK, AnswersAs
<1> QED
  BY <1>1, <1>2, <1>3, <1>4, <1>5, <1>6, <1>7, <1>8, <1>9 DEF VP!Handle

\* A statement of a visit disturbs no other browser, and not its own either
\* unless it overlaps something.
LEMMA HandleKeepsBrowsers ==
  ASSUME VP!WaitingInv, VP!WaitingInv', AloneInv, WhoInv, NEW v \in Requests \cup Visits,
         VP!Handle(v), UNCHANGED <<who, alone>>
  PROVE  (AloneInv /\ WhoInv)'
<1>0. /\ VP!TypeOK /\ VP!HandlerMatches /\ VP!CookiesOwn /\ VP!AnswersOwn
      /\ visit \in VisitWorkloads /\ created \subseteq Requests \cup Visits
      /\ None \notin Requests \cup Visits
  BY SessionFacts, VisitsAssumed
<1>1. /\ UNCHANGED <<cookie, visit, token>>
      /\ at[v] \notin {"new", "answer", "done"} /\ at'[v] \notin {"new", "done"}
      /\ \A x \in (Requests \cup Visits) \ {v} :
           at'[x] = at[x] /\ answer'[x] = answer[x] /\ seen'[x] = seen[x]
  BY <1>0, VisitsAssumed, VP!HandleEffect
<1>2. \A b : Changing(b)' = Changing(b)
  BY <1>1 DEF Changing
<1>3. ASSUME NEW s \in created, sessions'[s] # sessions[s]
      PROVE  v \in Changing(visit[s].by) /\ token[v] = s /\ at[v] \in {"o_write", "l_link"}
  BY <1>3, SessionWriter
<1>4. ASSUME NEW w \in alone
      PROVE  /\ w \in Visits /\ visit'[w].op \in SessionChange /\ at'[w] # "new"
             /\ w \in Changing(visit[w].by)' => Changing(visit[w].by)' = {w}
             /\ at'[w] = "l_link" => seen'[w] = sessions'[token'[w]].user
             /\ at'[w] = "answer" /\ answer'[w].code = "OK" => AnswersAs(w)'
  <2>1. /\ w \in Visits /\ visit[w].op \in SessionChange /\ at[w] # "new"
        /\ w \in Changing(visit[w].by) => Changing(visit[w].by) = {w}
        /\ at[w] = "l_link" => seen[w] = sessions[token[w]].user
        /\ at[w] = "answer" /\ answer[w].code = "OK" => AnswersAs(w)
    BY DEF AloneInv
  <2>2. CASE w = v
    BY <1>1, <1>2, <2>1, <2>2, AloneHandles
  <2>3. CASE w # v
    <3>1. at'[w] = at[w] /\ answer'[w] = answer[w] /\ seen'[w] = seen[w]
      BY <1>1, <2>1, <2>3
    <3>2. ASSUME at[w] = "l_link" PROVE seen'[w] = sessions'[token'[w]].user
      <4>1. token[w] \in created /\ visit[token[w]].by = visit[w].by
        BY <1>0, <2>1, <3>2 DEF VP!HandlerMatches, VP!CookiesOwn, VP!Held
      <4>2. w \in Changing(visit[w].by)
        BY <2>1, <3>2 DEF Changing
      <4> QED BY <1>1, <1>3, <2>1, <2>3, <3>1, <3>2, <4>1, <4>2
    <3>3. ASSUME at[w] = "answer", answer[w].code = "OK", answer[w].session # None
          PROVE  sessions'[answer[w].session] = sessions[answer[w].session]
      <4>1. answer[w].session \in created /\ answer[w].session \in {w, token[w]}
        BY <1>0, <2>1, <3>3 DEF VP!AnswersOwn
      <4>2. visit[answer[w].session].by = visit[w].by
        BY <1>0, <2>1, <3>3, <4>1 DEF VP!CookiesOwn, VP!Held
      <4>3. w \in Changing(visit[w].by)
        BY <2>1, <3>3 DEF Changing
      <4> QED BY <1>3, <2>1, <2>3, <4>1, <4>2, <4>3
    <3> QED BY <1>1, <1>2, <2>1, <3>1, <3>2, <3>3 DEF AnswersAs
  <2> QED BY <2>2, <2>3
<1>5. AloneInv'
  BY <1>4 DEF AloneInv
<1>6. ASSUME NEW b \in Browsers, who[b] # Unsure
      PROVE  Changing(b)' = {} /\ (cookie'[b] # None => sessions'[cookie'[b]].user = who[b])
  <2>1. Changing(b) = {} /\ (cookie[b] # None => sessions[cookie[b]].user = who[b])
    BY <1>6 DEF WhoInv
  <2>2. ASSUME cookie[b] # None PROVE sessions'[cookie[b]] = sessions[cookie[b]]
    <3>1. cookie[b] \in created /\ visit[cookie[b]].by = b
      BY <1>0, <2>2 DEF VP!CookiesOwn, VP!Held
    <3> QED BY <1>3, <2>1, <3>1
  <2> QED BY <1>1, <1>2, <2>1, <2>2
<1>7. WhoInv'
  BY <1>6 DEF WhoInv
<1> QED
  BY <1>5, <1>7

\* A browser that sends a session change no longer knows whom it acts for.
LEMMA SendKeepsBrowsers ==
  ASSUME VP!WaitingInv, VisitorTypes, AloneInv, WhoInv, NEW v \in Visits,
         VisitSend(v), as' = as
  PROVE  (VisitorTypes /\ AloneInv /\ WhoInv)'
<1> DEFINE b == visit[v].by
           change == visit[v].op \in SessionChange
<1>0. VP!TypeOK /\ visit \in VisitWorkloads
  BY SessionFacts
<1>1. /\ b \in Browsers /\ visit[v].op \notin {"new", "done", "l_link", "answer"}
  BY <1>0, VisitFields
<1>2. /\ at[v] = "new" /\ at' = [at EXCEPT ![v] = visit[v].op]
      /\ UNCHANGED <<sessions, cookie, visit, seen, answer, as>>
      /\ \A w \in (Requests \cup Visits) \ {v} : token'[w] = token[w]
      /\ who' = [who EXCEPT ![b] = Unsure] /\ alone' = AloneAfter(v)
  BY <1>0, SameActions DEF VisitSend, VP!Send, VP!rows, VP!TypeOK
<1>3. Changing(b)' = IF change THEN Changing(b) \cup {v} ELSE Changing(b)
  BY <1>0, <1>1, <1>2 DEF Changing, VP!TypeOK
<1>4. \A c : c # b => Changing(c)' = Changing(c)
  BY <1>0, <1>2 DEF Changing, VP!TypeOK
<1>5. ASSUME NEW w \in alone'
      PROVE  /\ w \in Visits /\ visit[w].op \in SessionChange /\ at'[w] # "new"
             /\ w \in Changing(visit[w].by)' => Changing(visit[w].by)' = {w}
             /\ at'[w] = "l_link" => seen'[w] = sessions'[token'[w]].user
             /\ at'[w] = "answer" /\ answer'[w].code = "OK" => AnswersAs(w)'
  <2>1. w = v \/ w \in alone
    BY <1>2, <1>5 DEF AloneAfter
  <2>2. CASE w = v
    <3>1. v \notin alone
      BY <1>2 DEF AloneInv
    <3>2. change /\ Changing(b) = {}
      BY <1>2, <1>5, <2>2, <3>1 DEF AloneAfter
    <3> QED BY <1>0, <1>1, <1>2, <1>3, <2>2, <3>2 DEF VP!TypeOK
  <2>3. CASE w \in alone
    <3>1. /\ w \in Visits /\ visit[w].op \in SessionChange /\ at[w] # "new" /\ w # v
          /\ w \in Changing(visit[w].by) => Changing(visit[w].by) = {w}
          /\ at[w] = "l_link" => seen[w] = sessions[token[w]].user
          /\ at[w] = "answer" /\ answer[w].code = "OK" => AnswersAs(w)
      BY <1>2, <2>3 DEF AloneInv
    <3>2. at'[w] = at[w] /\ token'[w] = token[w]
      BY <1>0, <1>2, <3>1 DEF VP!TypeOK
    <3>3. w \in Changing(visit[w].by)' => Changing(visit[w].by)' = {w}
      <4>1. CASE visit[w].by # b \/ ~ change
        <5>1. Changing(visit[w].by)' = Changing(visit[w].by)
          BY <1>2, <1>3, <1>4, <4>1
        <5> QED BY <3>1, <5>1
      <4>2. CASE visit[w].by = b /\ change
        <5>1. Changing(b) # {} => w \notin Changing(b)
          <6>1. alone' = IF Changing(b) = {} THEN alone \cup {v} ELSE alone \ Changing(b)
            BY <1>2, <4>2 DEF AloneAfter
          <6> QED BY <1>5, <3>1, <6>1
        <5>2. w \notin Changing(b)'
          BY <1>3, <3>1, <4>2, <5>1
        <5> QED BY <1>2, <4>2, <5>2
      <4> QED BY <4>1, <4>2
    <3> QED BY <1>2, <3>1, <3>2, <3>3 DEF AnswersAs
  <2> QED BY <2>1, <2>2, <2>3
<1>6. AloneInv'
  BY <1>2, <1>5 DEF AloneInv
<1>7. VisitorTypes'
  BY <1>1, <1>2 DEF VisitorTypes
<1>8. WhoInv'
  BY <1>1, <1>2, <1>4 DEF WhoInv, VisitorTypes
<1> QED
  BY <1>6, <1>7, <1>8

\* What a browser concludes from the answer to a change nothing has overlapped.
LEMMA ReceiveKeepsBrowsers ==
  ASSUME VP!WaitingInv, VisitorTypes, AloneInv, WhoInv, NEW v \in Visits,
         VisitReceive(v), as' = as
  PROVE  (VisitorTypes /\ AloneInv /\ WhoInv)'
<1> DEFINE b == visit[v].by
<1>0. VP!TypeOK /\ visit \in VisitWorkloads
  BY SessionFacts
<1>1. b \in Browsers
  BY <1>0, VisitFields
<1>2. /\ at[v] = "answer" /\ at' = [at EXCEPT ![v] = "done"]
      /\ cookie' = IF answer[v].code = "OK" /\ visit[v].op \in {"anonymous", "login", "logout"}
                   THEN [cookie EXCEPT ![b] = answer[v].session] ELSE cookie
      /\ UNCHANGED <<sessions, visit, seen, answer, token, alone>>
      /\ who' = [who EXCEPT ![b] = Told(v)]
  BY SameActions DEF VisitReceive, VP!Receive, VP!rows, VP!locals
<1>3. \A c : Changing(c)' = Changing(c) \ {v}
  BY <1>0, <1>2 DEF Changing, VP!TypeOK
<1>4. ASSUME NEW w \in alone
      PROVE  /\ w \in Visits /\ visit[w].op \in SessionChange /\ at'[w] # "new"
             /\ w \in Changing(visit[w].by)' => Changing(visit[w].by)' = {w}
             /\ at'[w] = "l_link" => seen'[w] = sessions'[token'[w]].user
             /\ at'[w] = "answer" /\ answer'[w].code = "OK" => AnswersAs(w)'
  <2>1. /\ w \in Visits /\ visit[w].op \in SessionChange /\ at[w] # "new"
        /\ w \in Changing(visit[w].by) => Changing(visit[w].by) = {w}
        /\ at[w] = "l_link" => seen[w] = sessions[token[w]].user
        /\ at[w] = "answer" /\ answer[w].code = "OK" => AnswersAs(w)
    BY DEF AloneInv
  <2>2. at'[w] = IF w = v THEN "done" ELSE at[w]
    BY <1>0, <1>2, <2>1 DEF VP!TypeOK
  <2> QED BY <1>2, <1>3, <2>1, <2>2 DEF AnswersAs
<1>5. AloneInv'
  BY <1>2, <1>4 DEF AloneInv
<1>6. Told(v) \in Requests \cup Visits \cup {None, Unsure}
  BY <1>0 DEF Told, VP!TypeOK, VP!Reply
<1>7. VisitorTypes'
  BY <1>1, <1>2, <1>6 DEF VisitorTypes
<1>8. ASSUME NEW c \in Browsers, who'[c] # Unsure
      PROVE  Changing(c)' = {} /\ (cookie'[c] # None => sessions'[cookie'[c]].user = who'[c])
  <2>1. CASE c = b
    <3>1. who'[c] = Told(v)
      BY <1>1, <1>2, <2>1 DEF VisitorTypes
    <3>2. v \in alone /\ answer[v].code = "OK"
      BY <1>8, <3>1 DEF Told
    <3>3. /\ visit[v].op \in SessionChange /\ AnswersAs(v)
          /\ v \in Changing(b) => Changing(b) = {v}
      BY <1>2, <3>2 DEF AloneInv
    <3>4. Changing(b) = {v}
      BY <1>2, <3>3 DEF Changing
    <3>5. cookie'[c] = answer[v].session
      BY <1>0, <1>1, <1>2, <2>1, <3>2, <3>3 DEF SessionChange, VP!TypeOK
    <3>6. Told(v) = IF visit[v].op = "login" THEN answer[v].user ELSE None
      BY <3>2 DEF Told
    <3> QED BY <1>2, <1>3, <2>1, <3>1, <3>3, <3>4, <3>5, <3>6 DEF AnswersAs
  <2>2. CASE c # b
    <3>1. who'[c] = who[c] /\ cookie'[c] = cookie[c]
      BY <1>0, <1>2, <2>2 DEF VisitorTypes, VP!TypeOK
    <3> QED BY <1>2, <1>3, <1>8, <3>1 DEF WhoInv
  <2> QED BY <2>1, <2>2
<1>9. WhoInv'
  BY <1>8 DEF WhoInv
<1> QED
  BY <1>5, <1>7, <1>9

\* Nothing a reservation request does is seen by its browser's session changes.
LEMMA BrowsersStay ==
  ASSUME AloneInv, WhoInv, UNCHANGED <<sessions, cookie, visit, who, alone>>,
         \A v \in Visits : /\ at'[v] = at[v] /\ token'[v] = token[v]
                           /\ seen'[v] = seen[v] /\ answer'[v] = answer[v]
  PROVE  (AloneInv /\ WhoInv)'
<1>1. \A b : Changing(b)' = Changing(b)
  BY DEF Changing
<1>2. \A v \in Visits : AnswersAs(v)' <=> AnswersAs(v)
  BY DEF AnswersAs
<1>3. AloneInv'
  BY <1>1, <1>2 DEF AloneInv
<1>4. WhoInv'
  BY <1>1 DEF WhoInv
<1> QED
  BY <1>3, <1>4

-----------------------------------------------------------------------------
(* Whom a request acts for *)

\* A request goes on acting for whom it was authenticated for.
LEMMA ActsStays ==
  ASSUME VP!WaitingInv, VP!WaitingInv', VP!Steady, NEW r \in Requests, Acts(r),
         token'[r] = token[r], req'[r] = req[r], as'[r] = as[r]
  PROVE  Acts(r)'
<1>0. /\ VP!TypeOK /\ VP!TypeOK' /\ VP!HandlerMatches /\ created \subseteq created'
      /\ token[r] \in Requests \cup Visits
  BY SessionFacts DEF VP!WaitingInv, VP!SessionInv, VP!Steady, Acts
<1>1. ASSUME req[r].by.user # None
      PROVE  VP!LoggedIn(req[r].by.user, token[r])'
  <2>1. /\ req[r].by.user \in Requests \cup Visits
        /\ VP!LoggedIn(req[r].by.user, token[r])
    BY <1>1 DEF Acts
  <2>2. \A u \in Requests \cup Visits, s \in Requests \cup Visits :
          VP!LoggedIn(u, s) => VP!LoggedIn(u, s)'
    BY <1>0, VisitsAssumed, VP!LoggedInStays
  <2> QED BY <1>0, <2>1, <2>2 DEF VP!LoggedIn
<1> QED
  BY <1>0, <1>1 DEF Acts

\* A step that is not about request r leaves it as it is.
LEMMA AskedStays ==
  ASSUME VP!WaitingInv, VP!WaitingInv', VP!Steady, NEW r \in Requests, Asked(r),
         at'[r] = at[r], answer'[r] = answer[r], token'[r] = token[r],
         req'[r] = req[r], as'[r] = as[r],
         Idle(r) => /\ resv'[r] = resv[r] /\ resvW'[r] = resvW[r]
                    /\ pc'[r] = pc[r] /\ reply'[r] = reply[r]
  PROVE  Asked(r)'
<1>1. Authenticated(r)' <=> Authenticated(r)
  BY DEF Authenticated
<1>2. CASE Authenticated(r)
  BY <1>1, <1>2, ActsStays DEF Asked
<1>3. CASE ~ Authenticated(r)
  <2>1. Idle(r)'
    BY <1>3 DEF Asked, Idle
  <2> QED BY <1>1, <1>3, <2>1 DEF Asked
<1> QED
  BY <1>2, <1>3

\* Steps of the sessions are steady.
LEMMA StepsAreSteady ==
  ASSUME VP!WaitingInv, [VP!Next]_(VP!vars)
  PROVE  VP!Steady
BY VisitsAssumed, VP!NextSteady, SessionFacts

\* A row and the answers about it stay with their owner.
LEMMA SettledStays ==
  ASSUME Inv, SettledOwned, UNCHANGED <<req, reply, resv>>
  PROVE  SettledOwned'
BY DEF SettledOwned, Owned

\* The reservations, when a step is not about them.
LEMMA ReservationsStay ==
  ASSUME Inv, RowInv, UNCHANGED <<reservationVars, now, crashes>>
  PROVE  (Inv /\ RowInv)'
<1>1. UNCHANGED vars
  BY DEF reservationVars, vars, env
<1> QED
  BY <1>1, NextKeepsStock, NextKeepsRows

\* What no visit and no request to the sessions touches.
LEMMA VisitFrame ==
  ASSUME VP!WaitingInv, NEW v \in Requests \cup Visits,
         VP!Send(v) \/ VP!Receive(v) \/ VP!Handle(v)
  PROVE  /\ [VP!Next]_(VP!vars) /\ UNCHANGED <<visit, now, crashes>>
         /\ \A x \in (Requests \cup Visits) \ {v} :
              at'[x] = at[x] /\ answer'[x] = answer[x] /\ token'[x] = token[x] /\ seen'[x] = seen[x]
<1>0. VP!TypeOK /\ VP!HandlerMatches
  BY SessionFacts
<1>1. CASE VP!Send(v)
  BY <1>0, <1>1 DEF VP!Send, VP!Next, VP!TypeOK
<1>2. CASE VP!Receive(v)
  BY <1>0, <1>2 DEF VP!Receive, VP!Next, VP!TypeOK, VP!locals
<1>3. CASE VP!Handle(v)
  <2>1. /\ UNCHANGED <<visit, now, token>>
        /\ \A x \in (Requests \cup Visits) \ {v} :
             at'[x] = at[x] /\ answer'[x] = answer[x] /\ seen'[x] = seen[x]
    BY <1>0, <1>3, VisitsAssumed, VP!HandleEffect
  <2>2. UNCHANGED crashes
    BY <1>3 DEF VP!Handle
  <2> QED BY <1>3, <2>1, <2>2 DEF VP!Next
<1> QED
  BY <1>1, <1>2, <1>3

\* A login, a logout or another visit: requests that were authenticated before
\* go on as they were.
LEMMA VisitKeeps ==
  ASSUME VisitorInv, NEW v \in Visits, Visit(v)
  PROVE  VisitorInv'
<1>0. /\ Inv /\ RowInv /\ VP!WaitingInv /\ VisitorTypes
      /\ RequestsInv /\ SettledOwned /\ AloneInv /\ WhoInv
      /\ UNCHANGED <<reservationVars, as>>
  BY DEF VisitorInv, Visit
<1>1. \/ VP!Send(v) \/ VP!Receive(v)
      \/ VP!Handle(v) /\ UNCHANGED <<who, alone>>
  BY SameActions DEF Visit, VisitSend, VisitReceive
<1>2. /\ [VP!Next]_(VP!vars) /\ UNCHANGED <<visit, now, crashes>>
      /\ \A x \in (Requests \cup Visits) \ {v} :
           at'[x] = at[x] /\ answer'[x] = answer[x] /\ token'[x] = token[x]
  BY <1>0, <1>1, VisitFrame
<1>3. VP!WaitingInv' /\ VP!Steady
  BY <1>0, <1>2, WaitingStays, StepsAreSteady
<1>4. (Inv /\ RowInv)'
  BY <1>0, <1>2, ReservationsStay
<1>5. RequestsInv'
  <2> SUFFICES ASSUME NEW r \in Requests PROVE Asked(r)'
    BY DEF RequestsInv
  <2>1. r # v
    BY VisitsAssumed, VisitorsAssumption
  <2>2. /\ at'[r] = at[r] /\ answer'[r] = answer[r] /\ token'[r] = token[r]
        /\ req'[r] = req[r] /\ as'[r] = as[r] /\ Asked(r)
        /\ resv'[r] = resv[r] /\ resvW'[r] = resvW[r]
        /\ pc'[r] = pc[r] /\ reply'[r] = reply[r]
    BY <1>0, <1>2, <2>1 DEF reservationVars, tables, locals, RequestsInv
  <2> QED BY <1>0, <1>3, <2>2, AskedStays
<1>6. SettledOwned'
  BY <1>0, SettledStays DEF reservationVars, tables, locals
<1>7. (VisitorTypes /\ AloneInv /\ WhoInv)'
  <2>1. CASE VisitSend(v)
    BY <1>0, <2>1, SendKeepsBrowsers
  <2>2. CASE VisitReceive(v)
    BY <1>0, <2>2, ReceiveKeepsBrowsers
  <2>3. CASE VP!Handle(v) /\ UNCHANGED <<who, alone>>
    BY <1>0, <1>3, <2>3, HandleKeepsBrowsers DEF VisitorTypes
  <2> QED BY <2>1, <2>2, <2>3, SameActions DEF Visit
<1> QED
  BY <1>3, <1>4, <1>5, <1>6, <1>7 DEF VisitorInv

\* A reservation request is sent with its browser's cookie.
LEMMA RequestSendKeeps ==
  ASSUME VisitorInv, NEW r \in Requests, RequestSend(r)
  PROVE  VisitorInv'
<1>0. /\ Inv /\ RowInv /\ VP!WaitingInv /\ VisitorTypes
      /\ RequestsInv /\ SettledOwned /\ AloneInv /\ WhoInv
      /\ UNCHANGED <<reservationVars, who, alone, as>>
  BY DEF VisitorInv, RequestSend
<1>1. VP!Send(r) /\ VP!TypeOK /\ visit[r].op = "me" /\ r \notin Visits
  BY <1>0, SameActions, SessionFacts, VisitFields DEF RequestSend
<1>2. /\ [VP!Next]_(VP!vars) /\ UNCHANGED <<visit, now, crashes>>
      /\ \A x \in (Requests \cup Visits) \ {r} :
           at'[x] = at[x] /\ answer'[x] = answer[x] /\ token'[x] = token[x] /\ seen'[x] = seen[x]
  BY <1>0, <1>1, VisitFrame
<1>3. VP!WaitingInv' /\ VP!Steady
  BY <1>0, <1>2, WaitingStays, StepsAreSteady
<1>4. (Inv /\ RowInv)'
  BY <1>0, <1>2, ReservationsStay
<1>a. at[r] = "new" /\ at'[r] = "me" /\ UNCHANGED <<sessions, cookie, answer>>
  BY <1>1 DEF VP!Send, VP!TypeOK, VP!rows
<1>b. UNCHANGED <<resv, resvW, pc, reply, req>>
  BY <1>0 DEF reservationVars, tables, locals
<1>5. RequestsInv'
  <2>1. Asked(r)'
    <3>1. Idle(r)
      BY <1>0, <1>a DEF RequestsInv, Asked, Authenticated
    <3>2. Idle(r)' /\ ~ Authenticated(r)'
      BY <1>0, <1>a, <1>b, <3>1 DEF Idle, Authenticated
    <3> QED BY <1>a, <3>2 DEF Asked
  <2>2. ASSUME NEW x \in Requests, x # r PROVE Asked(x)'
    <3>1. Asked(x) /\ at'[x] = at[x] /\ answer'[x] = answer[x] /\ token'[x] = token[x]
      BY <1>0, <1>2, <2>2 DEF RequestsInv
    <3> QED BY <1>0, <1>3, <1>b, <3>1, AskedStays
  <2> QED BY <2>1, <2>2 DEF RequestsInv
<1>6. SettledOwned'
  BY <1>0, <1>b, SettledStays
<1>7. (VisitorTypes /\ AloneInv /\ WhoInv)'
  BY <1>0, <1>1, <1>2, <1>a, BrowsersStay DEF VisitorTypes
<1> QED
  BY <1>3, <1>4, <1>5, <1>6, <1>7 DEF VisitorInv

\* Its answer sets no cookie.
LEMMA RequestReceiveKeeps ==
  ASSUME VisitorInv, NEW r \in Requests, RequestReceive(r)
  PROVE  VisitorInv'
<1>0. /\ Inv /\ RowInv /\ VP!WaitingInv /\ VisitorTypes
      /\ RequestsInv /\ SettledOwned /\ AloneInv /\ WhoInv
      /\ UNCHANGED <<reservationVars, who, alone, as>>
  BY DEF VisitorInv, RequestReceive
<1>1. VP!Receive(r) /\ VP!TypeOK /\ visit[r].op = "me" /\ r \notin Visits
  BY <1>0, SameActions, SessionFacts, VisitFields DEF RequestReceive
<1>2. /\ [VP!Next]_(VP!vars) /\ UNCHANGED <<visit, now, crashes>>
      /\ \A x \in (Requests \cup Visits) \ {r} :
           at'[x] = at[x] /\ answer'[x] = answer[x] /\ token'[x] = token[x] /\ seen'[x] = seen[x]
  BY <1>0, <1>1, VisitFrame
<1>3. VP!WaitingInv' /\ VP!Steady
  BY <1>0, <1>2, WaitingStays, StepsAreSteady
<1>4. (Inv /\ RowInv)'
  BY <1>0, <1>2, ReservationsStay
<1>a. at[r] = "answer" /\ at'[r] = "done" /\ UNCHANGED <<sessions, cookie, answer, token>>
  BY <1>1 DEF VP!Receive, VP!TypeOK, VP!rows, VP!locals
<1>b. UNCHANGED <<resv, resvW, pc, reply, req>>
  BY <1>0 DEF reservationVars, tables, locals
<1>5. RequestsInv'
  <2>1. Asked(r)'
    <3>1. Asked(r) /\ (Authenticated(r)' <=> Authenticated(r))
      BY <1>0, <1>a DEF RequestsInv, Authenticated
    <3>2. CASE Authenticated(r)
      BY <1>0, <1>3, <1>a, <1>b, <3>1, <3>2, ActsStays DEF Asked
    <3>3. CASE ~ Authenticated(r)
      <4>1. Idle(r)'
        BY <1>0, <1>a, <1>b, <3>1, <3>3 DEF Asked, Idle
      <4> QED BY <1>a, <3>1, <3>3, <4>1 DEF Asked
    <3> QED BY <3>2, <3>3
  <2>2. ASSUME NEW x \in Requests, x # r PROVE Asked(x)'
    <3>1. Asked(x) /\ at'[x] = at[x] /\ answer'[x] = answer[x] /\ token'[x] = token[x]
      BY <1>0, <1>2, <2>2 DEF RequestsInv
    <3> QED BY <1>0, <1>3, <1>b, <3>1, AskedStays
  <2> QED BY <2>1, <2>2 DEF RequestsInv
<1>6. SettledOwned'
  BY <1>0, <1>b, SettledStays
<1>7. (VisitorTypes /\ AloneInv /\ WhoInv)'
  BY <1>0, <1>1, <1>2, <1>a, BrowsersStay DEF VisitorTypes
<1> QED
  BY <1>3, <1>4, <1>5, <1>6, <1>7 DEF VisitorInv

\* get_current_session: the request acts for whom its session acts for now, and
\* that is whom a browser that knows has reason to expect.
LEMMA AuthenticateKeeps ==
  ASSUME VisitorInv, NEW r \in Requests, Authenticate(r)
  PROVE  VisitorInv'
<1>0. /\ Inv /\ RowInv /\ VP!WaitingInv /\ VisitorTypes
      /\ RequestsInv /\ SettledOwned /\ AloneInv /\ WhoInv
      /\ UNCHANGED <<tables, todo, goal, stamp, reply, who, alone>>
  BY DEF VisitorInv, Authenticate
<1>1. /\ VP!Handle(r) /\ VP!TypeOK /\ at[r] = "me" /\ visit \in VisitWorkloads
      /\ created \subseteq Requests \cup Visits /\ VP!SessionActsFor /\ VP!CookiesOwn
  BY <1>0, SameActions, SessionFacts DEF Authenticate
<1>2. visit[r].op = "me" /\ r \notin Visits /\ visit[r].by \in Browsers
  BY <1>1, VisitFields
<1>3. /\ VP!ReadCurrent(r) /\ UNCHANGED <<cookie, visit, now, crashes>>
  BY <1>1 DEF VP!Handle, VP!CreateAnonymous, VP!LogoutRead, VP!LogoutWrite,
     VP!RegisterLookup, VP!RegisterInsert, VP!LoginLookup, VP!LoginVerify,
     VP!LoginSession, VP!LoginCreate, VP!LoginLink
<1>4. /\ UNCHANGED <<created, sessions, token, seen>> /\ at'[r] = "answer"
      /\ answer'[r] = IF VP!Active(token[r])
                      THEN [code |-> "OK", user |-> sessions[token[r]].user,
                            session |-> token[r]]
                      ELSE VP!Answer("SESSION_REQUIRED")
      /\ \A x \in (Requests \cup Visits) \ {r} : at'[x] = at[x] /\ answer'[x] = answer[x]
  BY <1>1, <1>3 DEF VP!ReadCurrent, VP!Replied, VP!rows, VP!locals, VP!TypeOK
<1>5. [VP!Next]_(VP!vars)
  BY <1>0, <1>1, VisitFrame
<1>6. VP!WaitingInv' /\ VP!Steady
  BY <1>0, <1>5, WaitingStays, StepsAreSteady
<1>7. Idle(r) /\ pc[r] = Entry(req[r].op) /\ req \in Payloads
  BY <1>0, <1>1 DEF RequestsInv, Asked, Authenticated, Idle, Inv, TypeOK, EnvOK
<1>8. (AloneInv /\ WhoInv)'
  BY <1>0, <1>2, <1>3, <1>4, BrowsersStay
<1>9. \A x \in Requests : x # r => Asked(x) /\ at'[x] = at[x] /\ answer'[x] = answer[x]
  BY <1>0, <1>4 DEF RequestsInv
<1>10. CASE answer'[r].code = "OK"
  <2>1. /\ VP!Active(token[r]) /\ token[r] \in created
        /\ req' = [req EXCEPT ![r].by = BookedBy(r)] /\ pc' = pc
        /\ as' = [as EXCEPT ![r] = IF token[r] = cookie[visit[r].by]
                                   THEN who[visit[r].by] ELSE Unsure]
    <3>1. VP!Active(token[r])
      BY <1>4, <1>10 DEF VP!Answer
    <3>2. answer'[r].code # "SESSION_REQUIRED"
      BY <1>10
    <3> QED BY <3>1, <3>2 DEF Authenticate, VP!Active
  <2>2. BookedBy(r) \in Owner
    <3>1. /\ token[r] \in Requests \cup Visits
          /\ sessions[token[r]].user \in Requests \cup Visits \cup {None}
      BY <1>1, <2>1 DEF VP!TypeOK, VP!Session
    <3> QED BY <3>1, VisitorsAssumption DEF BookedBy, Owner
  <2>3. Rebooked(r, BookedBy(r))
    BY <1>0, <1>3, <1>7, <2>1, <2>2 DEF Rebooked, Idle, locals
  <2>4. (Inv /\ RowInv)'
    BY <1>0, <2>3, RebookKeepsStock, RebookKeepsRows
  <2>5. req'[r].by = BookedBy(r) /\ \A x \in Requests : x # r => req'[x] = req[x]
    BY <1>7, <2>3, RebookedFields
  <2>6. Asked(r)'
    <3>1. /\ req'[r].by.session = token[r] /\ req'[r].by.user = sessions[token[r]].user
      BY <2>5 DEF BookedBy
    <3>2. as'[r] # Unsure => sessions[token[r]].user = as'[r]
      BY <1>0, <1>1, <1>2, <2>1, VisitsAssumed DEF VisitorTypes, WhoInv
    <3>3. sessions[token[r]].user # None =>
            /\ sessions[token[r]].user \in Requests \cup Visits
            /\ VP!LoggedIn(sessions[token[r]].user, token[r])
      BY <1>1, <2>1 DEF VP!SessionActsFor, VP!TypeOK, VP!Session
    <3>4. sessions[token[r]].user # None =>
            VP!LoggedIn(sessions[token[r]].user, token[r])'
      <4>1. /\ VP!TypeOK' /\ VP!HandlerMatches /\ token[r] \in Requests \cup Visits
        BY <1>0, <1>1, <1>6, <2>1, SessionFacts DEF VP!WaitingInv, VP!SessionInv
      <4>2. \A u \in Requests \cup Visits, s \in Requests \cup Visits :
              VP!LoggedIn(u, s) => VP!LoggedIn(u, s)'
        BY <1>1, <1>6, <4>1, VisitsAssumed, VP!LoggedInStays
      <4> QED BY <1>4, <3>3, <4>1, <4>2
    <3>5. Acts(r)'
      BY <1>4, <2>1, <3>1, <3>2, <3>3, <3>4 DEF Acts
    <3> QED BY <1>4, <1>10, <3>5 DEF Asked, Authenticated
  <2>7. RequestsInv'
    <3> SUFFICES ASSUME NEW x \in Requests, x # r PROVE Asked(x)'
      BY <2>6 DEF RequestsInv
    <3>1. as'[x] = as[x]
      BY <1>0, <2>1 DEF VisitorTypes
    <3> QED BY <1>0, <1>4, <1>6, <1>9, <2>1, <2>5, <3>1, AskedStays DEF tables
  <2>8. SettledOwned'
    <3> SUFFICES ASSUME NEW q \in Requests, reply[q].code = "OK",
                        req'[q].op \in {"cancel", "confirm"}
                 PROVE  Owned(q, req[q].target)' /\ req'[q].target = req[q].target
      BY <1>0 DEF SettledOwned
    <3>1. q # r
      BY <1>7 DEF Idle, Answer
    <3>2. req'[q] = req[q] /\ Owned(q, req[q].target)
      BY <1>0, <2>5, <3>1 DEF SettledOwned
    <3>3. req[q].target \in Requests /\ req[q].target # r
      BY <1>7, <3>2, PayloadFields DEF Owned, Idle, NoRow
    <3> QED BY <1>0, <2>5, <3>2, <3>3 DEF Owned, tables
  <2>9. VisitorTypes'
    BY <1>0, <1>2, <2>1 DEF VisitorTypes
  <2> QED BY <1>6, <1>8, <2>4, <2>7, <2>8, <2>9 DEF VisitorInv
<1>11. CASE answer'[r].code = "SESSION_REQUIRED"
  <2>1. pc' = [pc EXCEPT ![r] = "done"] /\ UNCHANGED <<req, as>>
    BY <1>11 DEF Authenticate, Goto
  <2>2. (Inv /\ RowInv)'
    BY <1>0, <1>3, <1>7, <2>1, RefusedKeeps
  <2>3. r \in Process /\ pc \in [Process -> Label] /\ Requests \subseteq Process
    BY <1>0 DEF Inv, TypeOK, LocalsOK, Process
  <2>4. Asked(r)'
    <3>1. Idle(r)' /\ ~ Authenticated(r)'
      BY <1>0, <1>4, <1>7, <1>11, <2>1, <2>3 DEF Idle, Authenticated, tables
    <3> QED BY <1>4, <3>1 DEF Asked
  <2>5. RequestsInv'
    <3> SUFFICES ASSUME NEW x \in Requests, x # r PROVE Asked(x)'
      BY <2>4 DEF RequestsInv
    <3>1. pc'[x] = pc[x]
      BY <2>1, <2>3
    <3> QED BY <1>0, <1>4, <1>6, <1>9, <2>1, <3>1, AskedStays DEF tables
  <2>6. SettledOwned'
    BY <1>0, <2>1, SettledStays DEF tables
  <2>7. VisitorTypes'
    BY <1>0, <2>1 DEF VisitorTypes
  <2> QED BY <1>6, <1>8, <2>2, <2>5, <2>6, <2>7 DEF VisitorInv
<1> QED
  BY <1>10, <1>11 DEF Authenticate

\* A reservation that is owned stays owned.
LEMMA OwnedStays ==
  ASSUME Inv, RowInv, [Next]_vars, NEW r \in Requests, NEW x \in Requests, Owned(r, x)
  PROVE  Owned(r, x)'
<1>1. resv[x].status # Absent => resv'[x].status # Absent
  BY RowsAge
<1>2. req' = req
  BY ClockAndPayloads
<1> QED
  BY <1>1, <1>2 DEF Owned

\* A handler that confirms or cancels has found the reservation its visitor owns.
LEMMA SettlesOwned ==
  ASSUME Inv, RowInv, NEW r \in Requests, Serve(r), req[r].op \in {"cancel", "confirm"},
         reply'[r] # reply[r], reply'[r].code = "OK"
  PROVE  Owned(r, req[r].target)
<1>0. /\ HandlerMatches /\ reply \in [Requests -> Reply]
  BY DEF Inv, StockInv, TypeOK, LocalsOK
<1>1. pc[r] \notin QuantityLabels \cup SeatsLabels \cup GetLabels
  BY <1>0 DEF HandlerMatches
<1>2. Lifecycle(r)
  BY <1>1 DEF Serve, QuantityReserve, QuantityLookup, QuantityStock, QuantityNoStock,
     QuantityInsert, QuantityCommit, QuantityResolve, SeatsReserve, SeatsLookup, SeatsLock,
     SeatsMissing, SeatsStale, SeatsLockParent, SeatsExpire, SeatsInsert, SeatsHold,
     SeatsCommit, SeatsResolve, QuantityLabels, SeatsLabels
<1>3. LifecycleSettled(r) \/ LifecycleCommit(r)
  BY <1>0, <1>1, <1>2 DEF Lifecycle, NotFound, LifecycleLock, LifecycleMove,
     LifecycleConflict, GetParent, GetChildren, GetLabels, Done, Answer, Refused
<1> QED
  BY <1>3 DEF LifecycleSettled, LifecycleCommit, RowInv, Intents

\* A row another request has not inserted stays unwritten.
LEMMA NoRowStays ==
  ASSUME Inv, RowInv, RowInv', [Next]_vars, NEW x \in Requests, resv[x] = NoRow,
         pc'[x] = pc[x], pc[x] \notin Inserting
  PROVE  resv'[x] = NoRow /\ resvW'[x] = NoRow
<1>1. resv'[x] = NoRow
  BY RowChanges DEF Inserted, MovedOut, NoRow, Absent
<1>2. ~ Inserted(x)' /\ ~ MovedOut(x)'
  BY <1>1 DEF Inserted, MovedOut, NoRow, Absent
<1>3. resvW'[x] = resv'[x] \/ Inserted(x)' \/ MovedOut(x)'
  BY DEF RowInv, WrittenRows
<1> QED
  BY <1>1, <1>2, <1>3

\* A statement of the handler of a request, or the death of its process: it has
\* been authenticated, and goes on acting for whom it was.
LEMMA HandlerKeeps ==
  ASSUME VisitorInv, NEW p \in Requests, at[p] = "answer", pc[p] # "done",
         Serve(p) \/ Abort(p), [Next]_vars, crashes' \in 0..MaxCrashes,
         UNCHANGED <<visits, browsers, as, now>>
  PROVE  VisitorInv'
<1>0. /\ Inv /\ RowInv /\ VP!WaitingInv /\ VisitorTypes
      /\ RequestsInv /\ SettledOwned /\ AloneInv /\ WhoInv
  BY DEF VisitorInv
<1>1. (Inv /\ RowInv)'
  BY <1>0, NextKeepsStock, NextKeepsRows
<1>2. VP!WaitingInv' /\ VP!Steady
  <2>1. VP!WaitingInv'
    BY <1>0, CrashWaiting
  <2> QED BY <2>1 DEF VP!Steady, visits, visitRows
<1>3. p \in Process /\ req \in Payloads
  BY <1>0 DEF Process, Inv, TypeOK, EnvOK
<1>4. req' = req /\ \A x \in Requests \ {p} : pc'[x] = pc[x] /\ reply'[x] = reply[x]
  BY <1>0, <1>3, OneAnswer
<1>5. /\ UNCHANGED <<at, answer, token, seen, sessions, cookie, visit, who, alone, as>>
  BY DEF visits, visitRows, browsers
<1>6. ASSUME NEW x \in Requests PROVE Asked(x)'
  <2>1. Asked(x)
    BY <1>0 DEF RequestsInv
  <2>2. CASE Idle(x)
    <3>1. x # p \/ Authenticated(x)
      BY <2>1, <2>2 DEF Asked, Authenticated, Idle
    <3>2. CASE Authenticated(x)
      BY <1>0, <1>2, <1>4, <1>5, <2>1, <3>2, ActsStays DEF Asked, Authenticated
    <3>3. CASE x # p
      <4>1. pc[x] \notin Inserting
        BY <1>3, <2>2, Entries DEF Idle, Inserting
      <4>2. resv'[x] = resv[x] /\ resvW'[x] = resvW[x]
        BY <1>0, <1>1, <1>4, <2>2, <3>3, <4>1, NoRowStays DEF Idle
      <4> QED BY <1>0, <1>2, <1>4, <1>5, <2>1, <3>3, <4>2, AskedStays
    <3> QED BY <3>1, <3>2, <3>3
  <2>3. CASE ~ Idle(x)
    BY <1>0, <1>2, <1>4, <1>5, <2>1, <2>3, AskedStays
  <2> QED BY <2>2, <2>3
<1>7. SettledOwned'
  <2> SUFFICES ASSUME NEW q \in Requests, reply'[q].code = "OK",
                      req[q].op \in {"cancel", "confirm"}
               PROVE  Owned(q, req[q].target)'
    BY <1>4 DEF SettledOwned
  <2>1. req[q].target \in Requests
    BY <1>3, PayloadFields
  <2>2. CASE reply'[q] = reply[q]
    <3>1. Owned(q, req[q].target)
      BY <1>0, <2>2 DEF SettledOwned
    <3> QED BY <1>0, <1>4, <2>1, <3>1, OwnedStays DEF Owned
  <2>3. CASE reply'[q] # reply[q]
    <3>1. q = p
      BY <1>4, <2>3
    <3>2. ~ Abort(p)
      <4>1. p \notin Workers
        BY WorkersApart
      <4>2. reply \in [Requests -> Reply]
        BY <1>0 DEF Inv, TypeOK, LocalsOK
      <4> QED BY <3>1, <4>1, <4>2 DEF Abort, Answer
    <3>3. Owned(q, req[q].target)
      BY <1>0, <2>3, <3>1, <3>2, SettlesOwned
    <3> QED BY <1>0, <1>4, <2>1, <3>3, OwnedStays DEF Owned
  <2> QED BY <2>2, <2>3
<1>8. (VisitorTypes /\ AloneInv /\ WhoInv)'
  BY <1>0, <1>5, BrowsersStay DEF VisitorTypes
<1> QED
  BY <1>1, <1>2, <1>6, <1>7, <1>8 DEF VisitorInv, RequestsInv

\* Time passes for the reservations and the sessions alike.
LEMMA TickKeeps ==
  ASSUME VisitorInv, Tick, UNCHANGED <<visits, browsers, as>>
  PROVE  VisitorInv'
<1>0. /\ Inv /\ RowInv /\ VP!WaitingInv /\ VisitorTypes
      /\ RequestsInv /\ SettledOwned /\ AloneInv /\ WhoInv
  BY DEF VisitorInv
<1>1. (Inv /\ RowInv)'
  BY <1>0, NextKeepsStock, NextKeepsRows DEF Next
<1>2. [VP!Next]_(VP!vars)
  BY DEF Tick, VP!Next, VP!Tick, VP!rows, VP!locals, visits, visitRows, browsers
<1>3. VP!WaitingInv' /\ VP!Steady
  BY <1>0, <1>2, WaitingStays, StepsAreSteady
<1>4. /\ UNCHANGED <<at, answer, token, seen, sessions, cookie, visit, who, alone, as>>
      /\ UNCHANGED <<resv, resvW, pc, reply, req>>
  BY DEF Tick, tables, locals, visits, visitRows, browsers
<1>5. RequestsInv'
  <2> SUFFICES ASSUME NEW x \in Requests PROVE Asked(x)'
    BY DEF RequestsInv
  <2>1. Asked(x)
    BY <1>0 DEF RequestsInv
  <2> QED BY <1>0, <1>3, <1>4, <2>1, AskedStays
<1>6. SettledOwned'
  BY <1>0, <1>4, SettledStays
<1>7. (VisitorTypes /\ AloneInv /\ WhoInv)'
  BY <1>0, <1>4, BrowsersStay DEF VisitorTypes
<1> QED
  BY <1>1, <1>3, <1>5, <1>6, <1>7 DEF VisitorInv

-----------------------------------------------------------------------------
(* The theorems *)

VisitorsBehave == VisitorsStart /\ [][VisitorsNext]_allVars

\* No request is under way and nobody has been told anything.
LEMMA StartVisitors == VisitorsStart => VisitorInv
<1> SUFFICES ASSUME VisitorsStart PROVE VisitorInv
  OBVIOUS
<1>1. PICK over \in SUBSET Visits : \E holders \in [Addresses -> over \cup {None}] :
                                      StartWith(over, holders)
  BY DEF VisitorsStart
<1>2. /\ Init
      /\ at = [v \in Requests \cup Visits |-> IF v \in over THEN "done" ELSE "new"]
      /\ who = [b \in Browsers |-> Unsure] /\ alone = {}
      /\ as = [r \in Requests |-> Unsure]
  BY <1>1 DEF StartWith
<1>3. Inv /\ RowInv
  BY <1>2, InitTypes, InitStock, InitRows DEF Inv
<1>4. VP!WaitingInv
  BY StartWaiting
<1>5. VisitorTypes /\ AloneInv /\ WhoInv
  BY <1>2 DEF VisitorTypes, AloneInv, WhoInv
<1>6. ASSUME NEW r \in Requests PROVE Idle(r) /\ at[r] = "new"
  <2>1. r \notin over
    <3>1. r \notin Visits
      BY VisitorsAssumption
    <3> QED BY <3>1
  <2>2. r \in Process /\ r \notin Workers
    BY WorkersApart DEF Process
  <2>3. NoRow.status = Absent
    BY DEF NoRow
  <2> QED BY <1>2, <2>1, <2>2, <2>3 DEF Init, InitWith, Idle
<1>7. RequestsInv
  BY <1>6 DEF RequestsInv, Asked, Authenticated
<1>8. SettledOwned
  <2>1. ASSUME NEW r \in Requests PROVE reply[r].code = "PENDING"
    <3>1. reply[r] = Answer("PENDING")
      BY <1>6 DEF Idle
    <3> QED BY <3>1 DEF Answer
  <2> QED BY <2>1 DEF SettledOwned
<1> QED
  BY <1>3, <1>4, <1>5, <1>7, <1>8 DEF VisitorInv

\* A handler that is over makes no step.
LEMMA DoneServesNothing ==
  ASSUME NEW r, pc[r] = "done"
  PROVE  ~ Serve(r)
BY DEF Serve, QuantityReserve, QuantityLookup, QuantityStock, QuantityNoStock,
   QuantityInsert, QuantityCommit, QuantityResolve, SeatsReserve, SeatsLookup, SeatsLock,
   SeatsMissing, SeatsStale, SeatsLockParent, SeatsExpire, SeatsInsert, SeatsHold,
   SeatsCommit, SeatsResolve, Lifecycle, NotFound, LifecycleSettled, LifecycleLock,
   LifecycleMove, LifecycleConflict, LifecycleCommit, GetParent, GetChildren

\* Every step keeps the invariant.
LEMMA VisitorsKeep ==
  ASSUME VisitorInv, [VisitorsNext]_allVars
  PROVE  VisitorInv'
<1>0. Inv /\ VP!WaitingInv /\ crashes \in 0..MaxCrashes /\ MaxCrashes \in Nat
  BY StoreAssumption DEF VisitorInv, Inv, TypeOK, EnvOK
<1>1. ASSUME NEW v \in Visits, Visit(v) PROVE VisitorInv'
  BY <1>1, VisitKeeps
<1>2. ASSUME NEW r \in Requests, RequestSend(r) \/ Authenticate(r) \/ RequestReceive(r)
      PROVE  VisitorInv'
  BY <1>2, RequestSendKeeps, AuthenticateKeeps, RequestReceiveKeeps
<1>3. ASSUME NEW r \in Requests, AuthenticatedServe(r) PROVE VisitorInv'
  <2>1. /\ Serve(r) /\ at[r] = "answer" /\ UNCHANGED <<visits, browsers, as>>
    BY <1>3 DEF AuthenticatedServe
  <2>2. pc[r] # "done" /\ now' = now /\ [Next]_vars
    BY <2>1, DoneServesNothing, ServeLeaves DEF Next
  <2>3. Inv'
    BY <1>0, <2>2, NextKeepsStock
  <2>4. crashes' \in 0..MaxCrashes
    BY <2>3 DEF Inv, TypeOK, EnvOK
  <2> QED BY <2>1, <2>2, <2>4, HandlerKeeps
<1>4. ASSUME NEW p \in Requests, at[p] = "answer", Crash(p),
             UNCHANGED <<visits, browsers, as>>
      PROVE  VisitorInv'
  <2>1. p \in Process /\ pc[p] # "done" /\ Abort(p) /\ now' = now /\ [Next]_vars
    BY <1>4, WorkersApart DEF Crash, Abort, Next, Process
  <2>2. crashes' \in 0..MaxCrashes
    BY <1>0, <1>4 DEF Crash
  <2> QED BY <1>4, <2>1, <2>2, HandlerKeeps
<1>5. CASE Tick /\ UNCHANGED <<visits, browsers, as>>
  BY <1>5, TickKeeps
<1>6. CASE UNCHANGED allVars
  <2>1. /\ UNCHANGED vars /\ UNCHANGED <<visits, browsers, as>>
    BY <1>6 DEF allVars
  <2>2. UNCHANGED <<reservationVars, now, crashes>>
    BY <2>1 DEF vars, env, reservationVars
  <2>3. (Inv /\ RowInv)'
    BY <2>2, ReservationsStay DEF VisitorInv
  <2>4. VP!WaitingInv'
    BY <1>0, <2>1, <2>2, CrashWaiting
  <2>5. (VisitorTypes /\ RequestsInv /\ SettledOwned /\ AloneInv /\ WhoInv)'
    <3>1. UNCHANGED <<at, answer, token, seen, sessions, created, users, cookie, visit,
                      who, alone, as, resv, resvW, pc, reply, req>>
      BY <2>1 DEF visits, visitRows, browsers, vars, tables, locals, env
    <3>2. VisitorTypes' /\ SettledOwned' /\ (AloneInv /\ WhoInv)'
      BY <3>1, SettledStays, BrowsersStay DEF VisitorInv, VisitorTypes
    <3>3. VP!Steady
      BY <2>4, <3>1 DEF VP!Steady
    <3>4. RequestsInv'
      BY <1>0, <2>4, <3>1, <3>3, AskedStays DEF VisitorInv, RequestsInv
    <3> QED BY <3>2, <3>4
  <2> QED BY <2>3, <2>4, <2>5 DEF VisitorInv
<1> QED
  BY <1>1, <1>2, <1>3, <1>4, <1>5, <1>6 DEF VisitorsNext

\* The invariant holds in every behaviour of visitors who reserve.
THEOREM VisitorsInvariant == VisitorsBehave => []VisitorInv
<1>1. VisitorInv /\ [VisitorsNext]_allVars => VisitorInv'
  BY VisitorsKeep
<1> QED
  BY <1>1, StartVisitors, PTL DEF VisitorsBehave

\* A request sent with the cookie of a browser that was told of a login, and has
\* sent no login, logout or request for a session since, books for that user;
\* after an anonymous session or a logout it books for nobody.  Whatever the
\* other browsers and accounts do between the request's arrival, the read of its
\* session in get_current_session and the commit of its reservation.
THEOREM BooksForTheLogin == VisitorsBehave => []BooksForWhoLoggedIn
<1>1. VisitorInv => BooksForWhoLoggedIn
  <2> SUFFICES ASSUME VisitorInv, NEW r \in Requests, as[r] # Unsure
               PROVE  req[r].by.user = as[r]
    BY DEF BooksForWhoLoggedIn
  <2> QED BY DEF VisitorInv, RequestsInv, Asked, Acts, Idle
<1> QED
  BY <1>1, VisitorsInvariant, PTL

\* Who has a reservation has been authenticated.
LEMMA RowsAreBooked ==
  ASSUME VisitorInv, NEW x \in Requests, resv[x].status # Absent \/ reply[x].code # "PENDING"
  PROVE  Authenticated(x) /\ Acts(x)
<1>0. NoRow.status = Absent /\ Answer("PENDING").code = "PENDING"
  BY DEF NoRow, Answer
<1>1. ~ Idle(x)
  BY <1>0 DEF Idle
<1> QED
  BY <1>1 DEF VisitorInv, RequestsInv, Asked

\* A user who has logged in has an account.
LEMMA LoginsHaveAccounts ==
  ASSUME VP!WaitingInv, NEW u \in Requests \cup Visits, NEW s, NEW t,
         VP!LoggedIn(u, s), VP!LoggedIn(u, t)
  PROVE  \E a \in Addresses : /\ users[a] # None
                              /\ Visitor!LoggedIn(users[a], s)
                              /\ Visitor!LoggedIn(users[a], t)
<1>1. PICK l \in Requests \cup Visits : visit[l].op = "login" /\ users[VP!Address(l)] = u
  BY DEF VP!LoggedIn
<1>2. VP!Address(l) \in Addresses
  BY <1>1, SessionFacts, VisitsAssumed, VP!PayloadFields
<1>3. Visitor!LoggedIn(u, s) /\ Visitor!LoggedIn(u, t)
  BY DEF VP!LoggedIn, Visitor!LoggedIn, VP!Address, Visitor!Address
<1>4. u # None
  BY VisitsAssumed
<1> QED
  BY <1>1, <1>2, <1>3, <1>4

\* Only who has the session a reservation was booked with, or has logged in as
\* the user it was booked for, confirms or cancels it.
THEOREM SettledByOwner == VisitorsBehave => []SettledByItsVisitor
<1>1. VisitorInv => SettledByItsVisitor
  <2> SUFFICES ASSUME VisitorInv, NEW r \in Requests, reply[r].code = "OK",
                      req[r].op \in {"cancel", "confirm"},
                      token[r] # token[req[r].target]
               PROVE  \E a \in Addresses :
                        /\ users[a] # None
                        /\ Visitor!LoggedIn(users[a], token[r])
                        /\ Visitor!LoggedIn(users[a], token[req[r].target])
    BY DEF SettledByItsVisitor
  <2> DEFINE x == req[r].target
  <2>1. Owned(r, x) /\ x \in Requests
    BY PayloadFields DEF VisitorInv, SettledOwned, Inv, TypeOK, EnvOK
  <2>2. Acts(r) /\ Acts(x)
    BY <2>1, RowsAreBooked DEF Owned
  <2>3. /\ req[r].by.user # None /\ req[x].by.user = req[r].by.user
    BY <2>1, <2>2 DEF Owned, Acts
  <2>4. /\ req[r].by.user \in Requests \cup Visits
        /\ VP!LoggedIn(req[r].by.user, token[r]) /\ VP!LoggedIn(req[r].by.user, token[x])
    BY <2>2, <2>3 DEF Acts
  <2> QED BY <2>4, LoginsHaveAccounts DEF VisitorInv
<1> QED
  BY <1>1, VisitorsInvariant, PTL

\* Only get, cancel and confirm of what is not owned answer that nothing was found.
LEMMA OnlyNotFound ==
  ASSUME Inv, NEW r \in Requests, Serve(r),
         reply[r].code # "RESERVATION_NOT_FOUND", reply'[r].code = "RESERVATION_NOT_FOUND"
  PROVE  ~ Owned(r, req[r].target) /\ req[r].target \in Requests
<1>0. /\ HandlerMatches /\ reply \in [Requests -> Reply] /\ req \in Payloads
  BY DEF Inv, StockInv, TypeOK, LocalsOK, EnvOK
<1>1. ~ QuantityReserve(r)
  BY <1>0 DEF QuantityReserve, QuantityLookup, QuantityStock, QuantityNoStock, Done, Answer,
     QuantityInsert, QuantityCommit, QuantityResolve, Replay, Created, Reply
<1>2. ~ SeatsReserve(r)
  BY <1>0 DEF SeatsReserve, SeatsLookup, SeatsLock, SeatsMissing, SeatsStale, SeatsLockParent,
     SeatsExpire, SeatsInsert, SeatsHold, SeatsCommit, SeatsResolve, Done, Answer,
     Replay, Created, Reply
<1>a. Lifecycle(r) /\ reply'[r] # reply[r]
  BY <1>1, <1>2 DEF Serve
<1>b. \A c : Answer(c).code = c
  BY DEF Answer
<1>c. ~ (LifecycleSettled(r) \/ LifecycleConflict(r) \/ LifecycleCommit(r))
  <2>1. Refused(r).code # "RESERVATION_NOT_FOUND"
    BY <1>b DEF Refused
  <2>2. \A x, row : Detail(x, row).code = "OK"
    BY DEF Detail
  <2> QED
    BY <1>0, <2>1, <2>2 DEF LifecycleSettled, LifecycleConflict, LifecycleCommit, Done
<1>d. ~ (LifecycleLock(r) \/ LifecycleMove(r))
  BY <1>a DEF LifecycleLock, LifecycleMove
<1>e. ~ (GetParent(r) \/ GetChildren(r))
  BY <1>0 DEF GetParent, GetChildren, Done, Reply
<1>3. NotFound(r)
  BY <1>a, <1>c, <1>d, <1>e DEF Lifecycle
<1>4. req[r].op \in {"get", "cancel", "confirm"}
  BY <1>0, <1>3 DEF NotFound, HandlerMatches, LifecycleLabels, GetLabels
<1> QED
  BY <1>0, <1>3, <1>4, PayloadFields DEF NotFound

\* Who booked a reservation after a login finds it again after another login of
\* the same account, in another browser or with another session: 404 is for a
\* reservation that is not there, or is someone else's.
THEOREM LoginsFindTheirs == VisitorsBehave => VisitorsFindTheirs
<1>1. VisitorInv /\ [VisitorsNext]_allVars =>
        [\A r \in Requests :
           reply[r].code # "RESERVATION_NOT_FOUND"
             /\ reply'[r].code = "RESERVATION_NOT_FOUND" =>
           LET x == req[r].target
           IN \/ resv[x].status = Absent
              \/ token[r] # token[x] /\ (as[r] \in {None, Unsure} \/ as[r] # as[x])]_allVars
  <2> SUFFICES ASSUME VisitorInv, [VisitorsNext]_allVars, NEW r \in Requests,
                      reply[r].code # "RESERVATION_NOT_FOUND",
                      reply'[r].code = "RESERVATION_NOT_FOUND",
                      resv[req[r].target].status # Absent
               PROVE  /\ token[r] # token[req[r].target]
                      /\ as[r] \in {None, Unsure} \/ as[r] # as[req[r].target]
    OBVIOUS
  <2> DEFINE x == req[r].target
  <2>0. Inv /\ r \in Process /\ reply'[r] # reply[r]
    BY DEF VisitorInv, Process
  <2>1. reply' # reply
    BY <2>0
  <2>2. PICK p \in Requests : AuthenticatedServe(p) \/ Crash(p)
    BY <2>1 DEF VisitorsNext, allVars, vars, locals, Visit, reservationVars, RequestSend,
       Authenticate, RequestReceive, Tick
  <2>3. p \in Process
    BY <2>2 DEF Process
  <2>4. p = r
    BY <2>0, <2>2, <2>3, OneAnswer DEF AuthenticatedServe, Crash
  <2>5. AuthenticatedServe(r)
    <3>1. r \notin Workers /\ reply \in [Requests -> Reply]
      BY <2>0, WorkersApart DEF Inv, TypeOK, LocalsOK
    <3> QED BY <2>2, <2>4, <3>1 DEF Crash, Abort, Answer
  <2>6. ~ Owned(r, x) /\ x \in Requests /\ pc[r] # "done"
    BY <2>0, <2>5, OnlyNotFound, DoneServesNothing DEF AuthenticatedServe
  <2>7. Acts(r) /\ Acts(x)
    <3>1. Authenticated(r) \/ Idle(r)
      BY DEF VisitorInv, RequestsInv, Asked
    <3>2. Authenticated(r)
      BY <2>5, <2>6, <3>1 DEF AuthenticatedServe, Idle
    <3> QED BY <2>6, <3>2, RowsAreBooked DEF VisitorInv, RequestsInv, Asked
  <2>8. /\ req[x].by.session # req[r].by.session
        /\ req[r].by.user # None => req[x].by.user # req[r].by.user
    BY <2>6 DEF Owned
  <2> QED BY <2>7, <2>8 DEF Acts
<1> QED
  BY <1>1, VisitorsInvariant, PTL DEF VisitorsBehave, VisitorsFindTheirs

\* Whom the reservations are booked for is decided after they were sent, and
\* changes neither the stock nor the seats: the counters of a ticket type still
\* are the units of its reserved and confirmed items, no seat is held twice and
\* a reservation has the status of its children.
THEOREM VisitorsKeepTheBooks ==
  VisitorsBehave => [](StockAccounting /\ NoDoubleSeat /\ ParentChildAgreement)
<1>1. VisitorInv => StockAccounting /\ NoDoubleSeat /\ ParentChildAgreement
  BY DEF VisitorInv, Inv, StockInv, RowInv
<1> QED
  BY <1>1, VisitorsInvariant, PTL
=============================================================================
