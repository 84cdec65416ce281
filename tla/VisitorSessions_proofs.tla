------------------------ MODULE VisitorSessions_proofs ------------------------
(***************************************************************************)
(* One account per address, and no session acts for a user without a       *)
(* login, for every set of requests, browsers, addresses and passwords.    *)
(***************************************************************************)
EXTENDS VisitorSessions, FiniteSetTheorems, TLAPS

\* Registrations and logins carry an address, which has a normal form.
LEMMA PayloadFields ==
  ASSUME req \in Workloads, NEW r \in Requests
  PROVE  /\ req[r] \in Anonymous \cup Credentials
         /\ req[r].by \in Browsers
         /\ req[r].op \in {"anonymous", "me", "logout", "register", "login"}
         /\ req[r].op \in {"register", "login"} => Address(r) \in Addresses
<1>1. req[r] \in Anonymous \cup Credentials
  BY SessionAssumption
<1> QED
  BY <1>1, SessionAssumption DEF Anonymous, Credentials, Address

\* The empty tables and the unsent requests are well-typed.
LEMMA InitTypes == Init => TypeOK
BY SessionAssumption DEF Init, TypeOK, Session, Reply, Code, Labels, Answer

\* An answer without a user or a session is an answer.
LEMMA AnswerTypes == \A c \in Code : Answer(c) \in Reply
BY DEF Answer, Reply

\* Every statement of a handler keeps the types.
LEMMA HandleTypes ==
  ASSUME TypeOK, HandlerMatches, NEW r \in Requests, Handle(r)
  PROVE  TypeOK'
<1> USE DEF TypeOK
<1>0. /\ req[r].op \in {"register", "login"} => Address(r) \in Addresses
      /\ SessionTTL \in Nat /\ now \in Nat /\ UNCHANGED <<cookie, req, now, crashes>>
  BY PayloadFields, SessionAssumption DEF Handle
<1>1. CASE CreateAnonymous(r)
  BY <1>0, <1>1 DEF CreateAnonymous, CreateSession, Replied, Session, Reply, Code, Labels, locals
<1>2. CASE ReadCurrent(r)
  <2>1. reply' \in [Requests -> Reply]
    BY <1>0, <1>2, AnswerTypes
       DEF ReadCurrent, Replied, Active, Session, Reply, Code
  <2> QED
    BY <1>0, <1>2, <2>1 DEF ReadCurrent, Replied, Labels, rows, locals
<1>3. CASE LogoutRead(r)
  BY <1>0, <1>3, AnswerTypes DEF LogoutRead, Replied, Reached, Session, Code, Labels, rows
<1>4. CASE LogoutWrite(r)
  <2>1. token[r] \in Requests
    BY <1>4 DEF LogoutWrite, HandlerMatches
  <2>2. InvalidatedSession(r, token[r]) \in Session
    BY <1>0, <2>1 DEF InvalidatedSession, WrittenUser, Session
  <2> QED
    BY <1>0, <1>4, <2>2, AnswerTypes DEF LogoutWrite, Replied, Code, Labels, locals
<1>5. CASE RegisterLookup(r)
  BY <1>0, <1>5, AnswerTypes DEF RegisterLookup, Replied, Reached, Code, Labels, rows, locals
<1>6. CASE RegisterInsert(r)
  <2>1. reply' \in [Requests -> Reply] /\ pc' \in [Requests -> Labels]
    BY <1>6, AnswerTypes DEF RegisterInsert, Replied, Reply, Code, Labels
  <2> QED
    BY <1>0, <1>6, <2>1 DEF RegisterInsert, locals
<1>7. CASE LoginLookup(r)
  <2>1. Address(r) \in Addresses
    BY <1>0, <1>7 DEF LoginLookup, HandlerMatches
  <2> QED
    BY <1>0, <1>7, <2>1, AnswerTypes DEF LoginLookup, Replied, Reached, Code, Labels, rows
<1>8. CASE LoginVerify(r)
  BY <1>0, <1>8, AnswerTypes DEF LoginVerify, Replied, Reached, Code, Labels, rows, locals
<1>9. CASE LoginSession(r)
  BY <1>0, <1>9 DEF LoginSession, Reached, Active, Session, Labels, rows
<1>10. CASE LoginCreate(r)
  BY <1>0, <1>10 DEF LoginCreate, CreateSession, Replied, Session, Reply, Code, Labels, locals
<1>11. CASE LoginLink(r)
  <2>1. token[r] \in Requests
    BY <1>11 DEF LoginLink, HandlerMatches
  <2>2. LinkedSession(r, token[r], account[r]) \in Session
    BY <1>0, <2>1 DEF LinkedSession, WrittenUser, Session
  <2> QED
    BY <1>0, <1>11, <2>1, <2>2 DEF LoginLink, Replied, Reply, Code, Labels, locals
<1> QED
  BY <1>1, <1>2, <1>3, <1>4, <1>5, <1>6, <1>7, <1>8, <1>9, <1>10, <1>11 DEF Handle

\* So does every other step.
LEMMA NextTypes ==
  ASSUME TypeOK, HandlerMatches, [Next]_vars
  PROVE  TypeOK'
<1> USE DEF TypeOK
<1>1. ASSUME NEW r \in Requests, Send(r) PROVE TypeOK'
  BY <1>1, PayloadFields DEF Send, Labels, rows
<1>2. ASSUME NEW r \in Requests, Receive(r) PROVE TypeOK'
  BY <1>2, PayloadFields DEF Receive, Labels, Reply, rows, locals
<1>3. ASSUME NEW r \in Requests, Crash(r) PROVE TypeOK'
  BY <1>3, AnswerTypes, SessionAssumption DEF Crash, Replied, Labels, Code, rows, locals
<1>4. CASE Tick
  BY <1>4, SessionAssumption DEF Tick, rows, locals
<1>5. CASE UNCHANGED vars
  BY <1>5 DEF vars, rows, locals
<1> QED
  BY <1>1, <1>2, <1>3, <1>4, <1>5, HandleTypes DEF Next, AllDone

-----------------------------------------------------------------------------
(* What no step takes back *)

\* What every step leaves: requests, holders of addresses, rows of sessions,
\* the cookie of a request that was sent and an answer, unless it is lost.
Steady ==
  /\ req' = req /\ created \subseteq created'
  /\ \A a \in Addresses : users[a] # None => users'[a] = users[a]
  /\ \A l \in Requests : pc[l] # "new" => pc'[l] # "new" /\ token'[l] = token[l]
  /\ \A l \in Requests : pc[l] \in {"answer", "done"} =>
       /\ pc'[l] \in {"answer", "done"}
       /\ reply'[l] \in {reply[l], Answer("ERROR")}

\* A statement of a handler is steady.
LEMMA HandleSteady ==
  ASSUME TypeOK, HandlerMatches, NEW r \in Requests, Handle(r)
  PROVE  Steady
<1> USE DEF TypeOK, Steady
<1>0. /\ req[r].op \in {"register", "login"} => Address(r) \in Addresses
      /\ UNCHANGED <<cookie, req, now, crashes>>
  BY PayloadFields DEF Handle
<1>1. CASE CreateAnonymous(r)
  BY <1>0, <1>1 DEF CreateAnonymous, CreateSession, Replied, locals
<1>2. CASE ReadCurrent(r)
  BY <1>0, <1>2 DEF ReadCurrent, Replied, rows, locals
<1>3. CASE LogoutRead(r)
  BY <1>0, <1>3 DEF LogoutRead, Replied, Reached, rows
<1>4. CASE LogoutWrite(r)
  BY <1>0, <1>4 DEF LogoutWrite, Replied, locals
<1>5. CASE RegisterLookup(r)
  BY <1>0, <1>5 DEF RegisterLookup, Replied, Reached, rows, locals
<1>6. CASE RegisterInsert(r)
  BY <1>0, <1>6 DEF RegisterInsert, Replied, locals
<1>7. CASE LoginLookup(r)
  BY <1>0, <1>7 DEF LoginLookup, Replied, Reached, rows
<1>8. CASE LoginVerify(r)
  BY <1>0, <1>8 DEF LoginVerify, Replied, Reached, rows, locals
<1>9. CASE LoginSession(r)
  BY <1>0, <1>9 DEF LoginSession, Reached, rows
<1>10. CASE LoginCreate(r)
  BY <1>0, <1>10 DEF LoginCreate, CreateSession, Replied, locals
<1>11. CASE LoginLink(r)
  BY <1>0, <1>11 DEF LoginLink, Replied, locals
<1> QED
  BY <1>1, <1>2, <1>3, <1>4, <1>5, <1>6, <1>7, <1>8, <1>9, <1>10, <1>11 DEF Handle

\* So is every other step.
LEMMA NextSteady ==
  ASSUME TypeOK, HandlerMatches, [Next]_vars
  PROVE  Steady
<1> USE DEF TypeOK, Steady
<1>1. ASSUME NEW r \in Requests, Send(r) PROVE Steady
  BY <1>1, PayloadFields DEF Send, rows
<1>2. ASSUME NEW r \in Requests, Receive(r) PROVE Steady
  BY <1>2 DEF Receive, rows, locals
<1>3. ASSUME NEW r \in Requests, Crash(r) PROVE Steady
  BY <1>3 DEF Crash, Replied, rows, locals
<1>4. CASE Tick
  BY <1>4 DEF Tick, rows, locals
<1>5. CASE UNCHANGED vars
  BY <1>5 DEF vars, rows, locals
<1> QED
  BY <1>1, <1>2, <1>3, <1>4, <1>5, HandleSteady DEF Next, AllDone

\* A login with a session stays one.
LEMMA LoggedInStays ==
  ASSUME TypeOK, TypeOK', HandlerMatches, Steady,
         NEW u \in Requests, NEW s \in Requests, LoggedIn(u, s)
  PROVE  LoggedIn(u, s)'
<1>1. PICK l \in Requests :
        /\ req[l].op = "login" /\ users[Address(l)] = u
        /\ req[l].password = req[u].password
        /\ l = s \/ token[l] = s
  BY DEF LoggedIn
<1>2. Address(l) \in Addresses
  BY <1>1, PayloadFields DEF TypeOK
<1>3. Address(l)' = Address(l) /\ users'[Address(l)] = u
  BY <1>1, <1>2, SessionAssumption DEF Steady, Address
<1>4. l = s \/ token'[l] = s
  BY <1>1, SessionAssumption DEF HandlerMatches, Steady
<1> QED
  BY <1>1, <1>3, <1>4 DEF LoggedIn, Steady

-----------------------------------------------------------------------------
(* The parts of the invariant, one lemma each *)

\* A handler's next statement is the handler's, and a session that is used or
\* shown has a row.
LEMMA HandlerMatchesKept ==
  ASSUME TypeOK, HandlerMatches, [Next]_vars
  PROVE  HandlerMatches'
<1> USE DEF TypeOK, HandlerMatches
<1>0. ASSUME NEW r \in Requests, Handle(r) PROVE HandlerMatches'
  <2>0. UNCHANGED <<cookie, req, now, crashes>>
    BY <1>0 DEF Handle
  <2>1. CASE CreateAnonymous(r)
    BY <2>0, <2>1 DEF CreateAnonymous, CreateSession, Replied, locals
  <2>2. CASE ReadCurrent(r)
    BY <2>0, <2>2 DEF ReadCurrent, Replied, Active, Answer, rows, locals
  <2>3. CASE LogoutRead(r)
    BY <2>0, <2>3 DEF LogoutRead, Replied, Reached, Answer, rows
  <2>4. CASE LogoutWrite(r)
    BY <2>0, <2>4 DEF LogoutWrite, Replied, Answer, locals
  <2>5. CASE RegisterLookup(r)
    BY <2>0, <2>5 DEF RegisterLookup, Replied, Reached, Answer, rows, locals
  <2>6. CASE RegisterInsert(r)
    BY <2>0, <2>6 DEF RegisterInsert, Replied, Answer, locals
  <2>7. CASE LoginLookup(r)
    BY <2>0, <2>7 DEF LoginLookup, Replied, Reached, Answer, rows
  <2>8. CASE LoginVerify(r)
    BY <2>0, <2>8 DEF LoginVerify, Replied, Reached, Answer, rows, locals
  <2>9. CASE LoginSession(r)
    BY <2>0, <2>9 DEF LoginSession, Reached, Active, rows
  <2>10. CASE LoginCreate(r)
    BY <2>0, <2>10 DEF LoginCreate, CreateSession, Replied, locals
  <2>11. CASE LoginLink(r)
    BY <2>0, <2>11 DEF LoginLink, Replied, locals
  <2> QED
    BY <1>0, <2>1, <2>2, <2>3, <2>4, <2>5, <2>6, <2>7, <2>8, <2>9, <2>10, <2>11 DEF Handle
<1>1. ASSUME NEW r \in Requests, Send(r) PROVE HandlerMatches'
  <2>1. /\ pc'[r] = req[r].op /\ \A q \in Requests \ {r} : pc'[q] = pc[q]
        /\ \A q \in Requests \ {r} : token'[q] = token[q]
        /\ UNCHANGED <<created, req, reply>>
    BY <1>1 DEF Send, rows
  <2>2. req[r].op \in {"anonymous", "me", "logout", "register", "login"}
    BY PayloadFields
  <2>3. token[r] \notin created
    BY <1>1, SessionAssumption DEF Send
  <2>4. ~ (req[r].op = "me" /\ reply[r].user # None)
    BY <2>3
  <2>5. ASSUME NEW q \in Requests
        PROVE  /\ pc'[q] \in {"register", "r_insert"} => req[q].op = "register"
               /\ pc'[q] \in {"login", "l_verify", "l_session", "l_create", "l_link"} =>
                    req[q].op = "login"
               /\ pc'[q] \in {"anonymous", "me", "logout"} => req[q].op = pc'[q]
               /\ pc'[q] = "o_write" => req[q].op = "logout"
               /\ pc'[q] = "new" => token'[q] = None
               /\ pc'[q] \in {"o_write", "l_link"} => token'[q] \in created
               /\ req[q].op = "me" /\ reply[q].user # None => token'[q] \in created
    <3>1. CASE q = r
      BY <2>1, <2>2, <2>4, <3>1
    <3>2. CASE q # r
      <4>1. pc'[q] = pc[q] /\ token'[q] = token[q]
        BY <2>1, <3>2
      <4> QED BY <4>1
    <3> QED BY <3>1, <3>2
  <2> HIDE DEF TypeOK
  <2> QED BY <2>1, <2>5
<1>2. ASSUME NEW r \in Requests, Receive(r) PROVE HandlerMatches'
  BY <1>2 DEF Receive, rows, locals
<1>3. ASSUME NEW r \in Requests, Crash(r) PROVE HandlerMatches'
  BY <1>3 DEF Crash, Replied, Answer, rows, locals
<1>4. CASE Tick
  BY <1>4 DEF Tick, rows, locals
<1>5. CASE UNCHANGED vars
  BY <1>5 DEF vars, rows, locals
<1> QED
  BY <1>0, <1>1, <1>2, <1>3, <1>4, <1>5 DEF Next, AllDone

\* The table of users changes only in RegisterInsert.
LEMMA UsersChange ==
  ASSUME [Next]_vars
  PROVE  \/ users' = users
         \/ \E r \in Requests : RegisterInsert(r) /\ users' = [users EXCEPT ![Address(r)] = r]
BY DEF Next, AllDone, vars, rows, Send, Receive, Crash, Tick, Handle,
       CreateAnonymous, ReadCurrent, LogoutRead, LogoutWrite, RegisterLookup, RegisterInsert,
       LoginLookup, LoginVerify, LoginSession, LoginCreate, LoginLink

\* A new holder has just been answered, and holders are never replaced.
LEMMA HoldersKept ==
  ASSUME TypeOK, HandlerMatches, HoldersRegistered, [Next]_vars
  PROVE  HoldersRegistered'
<1> USE DEF TypeOK
<1>1. Steady
  BY NextSteady
<1>2. SUFFICES ASSUME NEW a \in Addresses, users'[a] # None
               PROVE  /\ req[users'[a]].op = "register"
                      /\ Address(users'[a]) = a
                      /\ pc'[users'[a]] \in {"answer", "done"}
  BY <1>1 DEF HoldersRegistered, Steady, Address
<1>3. CASE users'[a] = users[a]
  BY <1>1, <1>2, <1>3 DEF HoldersRegistered, Steady
<1>4. CASE users'[a] # users[a]
  <2>1. PICK r \in Requests : RegisterInsert(r) /\ users' = [users EXCEPT ![Address(r)] = r]
    BY <1>4, UsersChange
  <2>2. a = Address(r) /\ users'[a] = r
    BY <1>4, <2>1
  <2>3. req[r].op = "register" /\ pc'[r] = "answer"
    BY <1>4, <2>1 DEF RegisterInsert, HandlerMatches, Replied
  <2> QED
    BY <2>2, <2>3
<1> QED
  BY <1>3, <1>4

\* Only the unique index answers "registered", and only the table refuses.
LEMMA RegistrationRepliesKept ==
  ASSUME TypeOK, HandlerMatches, HoldersRegistered, RegistrationReplies, [Next]_vars
  PROVE  RegistrationReplies'
<1> USE DEF TypeOK
<1>1. Steady
  BY NextSteady
<1>2. SUFFICES ASSUME NEW q \in Requests, pc'[q] \in {"answer", "done"},
                      req[q].op = "register"
               PROVE  /\ reply'[q].code = "OK" => users'[Address(q)] = q
                      /\ reply'[q].code = "EMAIL_ALREADY_REGISTERED" =>
                           users'[Address(q)] \notin {None, q}
  BY <1>1 DEF RegistrationReplies, Steady, Address
<1>3. Address(q) \in Addresses
  BY <1>2, PayloadFields
<1>4. CASE pc[q] \in {"answer", "done"}
  BY <1>1, <1>2, <1>3, <1>4, SessionAssumption DEF Steady, RegistrationReplies, Answer
<1>5. CASE pc[q] \notin {"answer", "done"}
  <2>1. \/ reply'[q] = Answer("ERROR")
        \/ RegisterLookup(q)
        \/ RegisterInsert(q)
    <3>1. ASSUME NEW r \in Requests, Handle(r)
          PROVE  r = q /\ (RegisterLookup(q) \/ RegisterInsert(q))
      <4>1. r = q
        BY <1>2, <1>5, <3>1
           DEF Handle, CreateAnonymous, ReadCurrent, LogoutRead, LogoutWrite, RegisterLookup,
               RegisterInsert, LoginLookup, LoginVerify, LoginSession, LoginCreate, LoginLink,
               Replied, Reached
      <4>2. pc[q] \notin {"anonymous", "me", "logout", "o_write"}
        BY <1>2, <1>5 DEF HandlerMatches
      <4> QED
        BY <1>2, <3>1, <4>1, <4>2
           DEF Handle, HandlerMatches, CreateAnonymous, ReadCurrent, LogoutRead, LogoutWrite,
               LoginLookup, LoginVerify, LoginSession, LoginCreate, LoginLink
    <3>2. ASSUME NEW r \in Requests, Send(r) PROVE FALSE
      BY <1>2, <1>5, <3>2, PayloadFields DEF Send
    <3>3. ASSUME NEW r \in Requests, Receive(r) PROVE FALSE
      BY <1>2, <1>5, <3>3 DEF Receive
    <3>4. ASSUME NEW r \in Requests, Crash(r) PROVE reply'[q] = Answer("ERROR")
      BY <1>2, <1>5, <3>4 DEF Crash, Replied
    <3>5. ~ Tick /\ ~ UNCHANGED vars
      BY <1>2, <1>5 DEF Tick, vars
    <3> QED
      BY <3>1, <3>2, <3>3, <3>4, <3>5 DEF Next, AllDone
  <2>2. CASE reply'[q] = Answer("ERROR")
    BY <2>2 DEF Answer
  <2>3. CASE RegisterLookup(q)
    <3>1. users[Address(q)] # None /\ users' = users
          /\ reply'[q] = Answer("EMAIL_ALREADY_REGISTERED")
      BY <1>2, <2>3 DEF RegisterLookup, Replied, Reached, rows
    <3>2. users[Address(q)] # q
      BY <1>3, <1>5, <3>1 DEF HoldersRegistered
    <3> QED
      BY <3>1, <3>2 DEF Answer
  <2>4. CASE RegisterInsert(q)
    <3>1. CASE users[Address(q)] = None
      BY <1>3, <2>4, <3>1 DEF RegisterInsert, Replied
    <3>2. CASE users[Address(q)] # None
      <4>1. users[Address(q)] # q
        BY <1>3, <1>5, <3>2 DEF HoldersRegistered
      <4> QED
        BY <2>4, <3>2, <4>1 DEF RegisterInsert, Replied, Answer
    <3> QED
      BY <3>1, <3>2
  <2> QED
    BY <2>1, <2>2, <2>3, <2>4
<1> QED
  BY <1>4, <1>5

\* A login keeps the holder it found, since holders are never replaced.
LEMMA LoginsVerifiedKept ==
  ASSUME TypeOK, HandlerMatches, LoginsVerified, [Next]_vars
  PROVE  LoginsVerified'
<1> USE DEF TypeOK
<1>1. Steady
  BY NextSteady
<1> DEFINE Going(p) == p \in {"l_verify", "l_session", "l_create", "l_link"}
           Verified(p) == p \in {"l_session", "l_create", "l_link"}
<1>2. SUFFICES ASSUME NEW q \in Requests, Going(pc'[q])
               PROVE  /\ account'[q] # None /\ account'[q] = users'[Address(q)]
                      /\ Verified(pc'[q]) => req[account'[q]].password = req[q].password
  BY <1>1 DEF LoginsVerified, Steady, Address
<1>3. \/ Going(pc[q]) /\ account'[q] = account[q] /\ (Verified(pc'[q]) => Verified(pc[q]))
      \/ LoginLookup(q) \/ LoginVerify(q)
  <2>1. ASSUME NEW r \in Requests, Handle(r), r # q
        PROVE  pc'[q] = pc[q] /\ account'[q] = account[q]
    BY <2>1
       DEF Handle, CreateAnonymous, ReadCurrent, LogoutRead, LogoutWrite, RegisterLookup,
           RegisterInsert, LoginLookup, LoginVerify, LoginSession, LoginCreate, LoginLink,
           Replied, Reached, locals
  <2>2. ASSUME Handle(q)
        PROVE  LoginLookup(q) \/ LoginVerify(q) \/ LoginSession(q)
    BY <1>2, <2>2
       DEF Handle, CreateAnonymous, ReadCurrent, LogoutRead, LogoutWrite, RegisterLookup,
           RegisterInsert, LoginCreate, LoginLink, Replied, Reached
  <2>3. ASSUME LoginSession(q)
        PROVE  pc[q] = "l_session" /\ account'[q] = account[q]
    BY <2>3 DEF LoginSession
  <2>4. ASSUME NEW r \in Requests, Send(r) \/ Receive(r) \/ Crash(r)
        PROVE  pc'[q] = pc[q] /\ account'[q] = account[q]
    BY <1>2, <2>4, PayloadFields DEF Send, Receive, Crash, Replied, locals
  <2>5. ASSUME Tick \/ UNCHANGED vars
        PROVE  pc'[q] = pc[q] /\ account'[q] = account[q]
    BY <2>5 DEF Tick, vars, locals
  <2> QED
    BY <1>2, <2>1, <2>2, <2>3, <2>4, <2>5 DEF Next, AllDone
<1>4. ASSUME req[q].op = "login" PROVE Address(q) \in Addresses
  BY <1>4, PayloadFields
<1>5. CASE Going(pc[q]) /\ account'[q] = account[q] /\ (Verified(pc'[q]) => Verified(pc[q]))
  BY <1>1, <1>4, <1>5 DEF Steady, LoginsVerified, HandlerMatches
<1>6. CASE LoginLookup(q)
  BY <1>2, <1>4, <1>6 DEF LoginLookup, Replied, Reached, rows, HandlerMatches
<1>7. CASE LoginVerify(q)
  BY <1>2, <1>7 DEF LoginVerify, PasswordMatches, Replied, Reached, rows, locals, LoginsVerified
<1> QED
  BY <1>3, <1>5, <1>6, <1>7

\* A login about to write its session is a login with it.
LEMMA VerifiedLogin ==
  ASSUME TypeOK, HandlerMatches, LoginsVerified,
         NEW r \in Requests, NEW s \in Requests,
         (pc[r] = "l_create" /\ s = r) \/ (pc[r] = "l_link" /\ s = token[r])
  PROVE  account[r] \in Requests /\ LoggedIn(account[r], s)
BY DEF TypeOK, HandlerMatches, LoginsVerified, LoggedIn

\* The user of a session is what it was, nobody, or the user of a login that
\* writes the session.
LEMMA SessionsChange ==
  ASSUME TypeOK, HandlerMatches, [Next]_vars,
         NEW s \in created', sessions'[s].user # None
  PROVE  \/ s \in created /\ sessions'[s].user = sessions[s].user
         \/ \E r \in Requests :
              /\ (pc[r] = "l_create" /\ s = r) \/ (pc[r] = "l_link" /\ s = token[r])
              /\ sessions'[s].user = account[r]
<1> USE DEF TypeOK
<1> DEFINE Login(r) == /\ (pc[r] = "l_create" /\ s = r) \/ (pc[r] = "l_link" /\ s = token[r])
                       /\ sessions'[s].user = account[r]
           Kept == s \in created /\ sessions'[s].user = sessions[s].user
<1>1. ASSUME NEW r \in Requests, Handle(r) PROVE Kept \/ Login(r)
  <2>1. CASE CreateAnonymous(r)
    BY <2>1 DEF CreateAnonymous, CreateSession
  <2>2. CASE LogoutWrite(r)
    BY <2>2 DEF LogoutWrite, HandlerMatches, InvalidatedSession, WrittenUser
  <2>3. CASE LoginCreate(r)
    BY <2>3 DEF LoginCreate, CreateSession
  <2>4. CASE LoginLink(r)
    BY <2>4 DEF LoginLink, HandlerMatches, LinkedSession, WrittenUser
  <2>5. CASE ReadCurrent(r) \/ LogoutRead(r) \/ RegisterLookup(r) \/ RegisterInsert(r)
             \/ LoginLookup(r) \/ LoginVerify(r) \/ LoginSession(r)
    BY <2>5 DEF ReadCurrent, LogoutRead, RegisterLookup, RegisterInsert,
                LoginLookup, LoginVerify, LoginSession, rows
  <2> QED
    BY <1>1, <2>1, <2>2, <2>3, <2>4, <2>5 DEF Handle
<1>2. ASSUME NEW r \in Requests, Send(r) \/ Receive(r) \/ Crash(r) PROVE Kept
  BY <1>2 DEF Send, Receive, Crash, rows
<1>3. ASSUME Tick \/ UNCHANGED vars PROVE Kept
  BY <1>3 DEF Tick, vars, rows
<1> QED
  BY <1>1, <1>2, <1>3 DEF Next, AllDone

\* What a request is told about its user is what it was told, nobody, or what
\* the row of its session says.
LEMMA RepliesChange ==
  ASSUME TypeOK, [Next]_vars, NEW q \in Requests, req[q].op = "me",
         HandlerMatches, reply'[q].user # None
  PROVE  \/ reply'[q] = reply[q]
         \/ /\ pc[q] = "me" /\ token[q] \in created
            /\ reply'[q].user = sessions[token[q]].user
<1> USE DEF TypeOK
<1>1. ASSUME NEW r \in Requests, Handle(r), r # q PROVE reply'[q] = reply[q]
  BY <1>1
     DEF Handle, CreateAnonymous, ReadCurrent, LogoutRead, LogoutWrite, RegisterLookup,
         RegisterInsert, LoginLookup, LoginVerify, LoginSession, LoginCreate, LoginLink,
         Replied, Reached
<1>2. ASSUME Handle(q) PROVE ReadCurrent(q)
  BY <1>2
     DEF Handle, CreateAnonymous, LogoutRead, LogoutWrite, RegisterLookup,
         RegisterInsert, LoginLookup, LoginVerify, LoginSession, LoginCreate, LoginLink,
         HandlerMatches
<1>3. ASSUME ReadCurrent(q)
      PROVE  pc[q] = "me" /\ token[q] \in created /\ reply'[q].user = sessions[token[q]].user
  BY <1>3 DEF ReadCurrent, Replied, Active, Answer
<1>4. ASSUME NEW r \in Requests, Send(r) \/ Receive(r) \/ Crash(r) PROVE reply'[q] = reply[q]
  BY <1>4 DEF Send, Receive, Crash, Replied, Answer
<1>5. ASSUME Tick \/ UNCHANGED vars PROVE reply'[q] = reply[q]
  BY <1>5 DEF Tick, vars
<1> QED
  BY <1>1, <1>2, <1>3, <1>4, <1>5 DEF Next, AllDone

\* A session is linked by a login only, and a request is told of the user its
\* session had when it was read.
LEMMA SessionActsForKept ==
  ASSUME SessionInv, TypeOK', [Next]_vars
  PROVE  SessionActsFor'
<1>1. TypeOK /\ HandlerMatches /\ LoginsVerified /\ SessionActsFor
  BY DEF SessionInv
<1>2. Steady
  BY <1>1, NextSteady
<1>3. ASSUME NEW s \in created', NEW u \in Requests, sessions'[s].user = u
      PROVE  LoggedIn(u, s)'
  <2>1. s \in Requests /\ u # None
    BY SessionAssumption DEF TypeOK
  <2>2. \/ s \in created /\ sessions'[s].user = sessions[s].user
        \/ \E r \in Requests :
             /\ (pc[r] = "l_create" /\ s = r) \/ (pc[r] = "l_link" /\ s = token[r])
             /\ sessions'[s].user = account[r]
    BY <1>1, <1>3, <2>1, SessionsChange
  <2>3. LoggedIn(u, s)
    BY <1>1, <1>3, <2>1, <2>2, VerifiedLogin DEF SessionActsFor
  <2> QED
    BY <1>1, <1>2, <2>1, <2>3, LoggedInStays
<1>4. ASSUME NEW q \in Requests, req[q].op = "me",
             NEW u \in Requests, reply'[q].user = u
      PROVE  \E s \in Requests : token'[q] = s /\ LoggedIn(u, s)'
  <2>1. u # None
    BY SessionAssumption
  <2>2. PICK s \in Requests : token[q] = s /\ LoggedIn(u, s)
    <3>1. CASE reply'[q] = reply[q]
      <4>1. token[q] \in Requests /\ LoggedIn(u, token[q])
        BY <1>1, <1>4, <2>1, <3>1 DEF HandlerMatches, SessionActsFor, TypeOK
      <4> QED
        BY <4>1
    <3>2. CASE token[q] \in created /\ reply'[q].user = sessions[token[q]].user
      <4>1. token[q] \in Requests /\ LoggedIn(u, token[q])
        BY <1>1, <1>4, <2>1, <3>2 DEF SessionActsFor, TypeOK
      <4> QED
        BY <4>1
    <3> QED
      BY <1>1, <1>4, <2>1, <3>1, <3>2, RepliesChange
  <2>3. token'[q] = s
    BY <1>1, <1>2, <2>2, SessionAssumption DEF HandlerMatches, Steady
  <2>4. LoggedIn(u, s)'
    BY <1>1, <1>2, <2>2, LoggedInStays
  <2> QED
    BY <2>3, <2>4
<1>5. ASSUME NEW s \in created', sessions'[s].user # None
      PROVE  \E l \in Requests :
               /\ req'[l].op = "login" /\ users'[Address(l)'] = sessions'[s].user
               /\ req'[l].password = req'[sessions'[s].user].password
               /\ l = s \/ token'[l] = s
  <2>1. sessions'[s].user \in Requests
    BY <1>5 DEF TypeOK, Session
  <2> QED
    BY <1>3, <2>1 DEF LoggedIn
<1>6. ASSUME NEW q \in Requests, req'[q].op = "me", reply'[q].user # None
      PROVE  \E l \in Requests :
               /\ req'[l].op = "login" /\ users'[Address(l)'] = reply'[q].user
               /\ req'[l].password = req'[reply'[q].user].password
               /\ l = token'[q] \/ token'[l] = token'[q]
  <2>1. reply'[q].user \in Requests /\ req[q].op = "me"
    BY <1>2, <1>6 DEF TypeOK, Reply, Steady
  <2> QED
    BY <1>4, <2>1 DEF LoggedIn
<1> QED
  BY <1>5, <1>6 DEF SessionActsFor, LoggedIn

-----------------------------------------------------------------------------
(* The invariant *)

\* Nobody is registered and nothing is answered at the start.
LEMMA InitSessionInv == Init => SessionInv
<1> SUFFICES ASSUME Init PROVE SessionInv
  OBVIOUS
<1>1. TypeOK
  BY InitTypes
<1>2. \A a \in Addresses : users[a] = None
  BY DEF Init
<1>3. \A r \in Requests : pc[r] = "new" /\ token[r] = None /\ reply[r] = Answer("PENDING")
  BY DEF Init
<1>4. HandlerMatches /\ LoginsVerified /\ RegistrationReplies
  BY <1>3 DEF HandlerMatches, LoginsVerified, RegistrationReplies, Answer
<1>5. HoldersRegistered
  BY <1>2 DEF HoldersRegistered
<1>6. SessionActsFor
  BY <1>3 DEF Init, SessionActsFor, Answer
<1> QED
  BY <1>1, <1>4, <1>5, <1>6 DEF SessionInv

\* The invariant is inductive: types and control points, holders and answers of
\* registrations, accounts of logins, and the logins behind every session.
LEMMA NextSessionInv == SessionInv /\ [Next]_vars => SessionInv'
<1> SUFFICES ASSUME SessionInv, [Next]_vars PROVE SessionInv'
  OBVIOUS
<1>1. /\ TypeOK /\ HandlerMatches /\ HoldersRegistered
      /\ RegistrationReplies /\ LoginsVerified
  BY DEF SessionInv
<1>2. TypeOK'
  BY <1>1, NextTypes
<1>3. HandlerMatches' /\ HoldersRegistered'
  BY <1>1, HandlerMatchesKept, HoldersKept
<1>4. RegistrationReplies' /\ LoginsVerified'
  BY <1>1, RegistrationRepliesKept, LoginsVerifiedKept
<1>5. SessionActsFor'
  BY <1>2, SessionActsForKept
<1> QED
  BY <1>2, <1>3, <1>4, <1>5 DEF SessionInv

\* Every reachable state satisfies the inductive invariant, its types included.
THEOREM SessionInvariant == Spec => []SessionInv
<1>1. Init => SessionInv
  BY InitSessionInv
<1>2. SessionInv /\ [Next]_vars => SessionInv'
  BY NextSessionInv
<1> QED
  BY <1>1, <1>2, PTL DEF Spec

\* The users, sessions, cookies and requests stay well-typed.
THEOREM SessionTypes == Spec => []TypeOK
<1>1. SessionInv => TypeOK
  BY DEF SessionInv
<1> QED
  BY <1>1, SessionInvariant, PTL

\* AuthService.register: of any number of registrations of one address, the one
\* that is told 201 holds the row, and a refused one lost to another request.
THEOREM OneAccountPerAddress == Spec => []RegistrationAnswers
<1>1. SessionInv => RegistrationAnswers
  BY DEF SessionInv, RegistrationReplies, RegistrationAnswers
<1> QED
  BY <1>1, SessionInvariant, PTL

\* VisitorSessionService and AuthService.login: a session, and the user a request
\* acts for, go back to a login of that user, with the password, on that session.
THEOREM SessionsActForLogins == Spec => []SessionActsFor
<1>1. SessionInv => SessionActsFor
  BY DEF SessionInv
<1> QED
  BY <1>1, SessionInvariant, PTL

-----------------------------------------------------------------------------
(* Browsers that wait for their answers *)

Waits(b) == InFlight[b] = 1

\* The session a cookie names is one of this browser, by a request it has an answer to.
Held(s, b) == s \in created /\ req[s].by = b /\ pc[s] = "done"

CookiesOwn ==
  /\ \A b \in Browsers : cookie[b] # None => Held(cookie[b], b)
  /\ \A r \in Requests : token[r] # None => Held(token[r], req[r].by)

\* An answer sets the cookie to the session of its request or to a new one; a
\* session is answered for in the step that creates it.
AnswersOwn ==
  /\ \A r \in Requests :
       /\ reply[r].session # None =>
            reply[r].session \in created /\ reply[r].session \in {r, token[r]}
       /\ req[r].op = "logout" => reply[r].session = None
  /\ \A s \in created : pc[s] \in {"answer", "done"}

OneAtATime == \A b \in Browsers : Waits(b) => \A x, y \in Underway(b) : x = y

\* Nobody comes back to the session that a browser has given up.
GivenUp(r) ==
  token[r] # None =>
    /\ cookie[req[r].by] # token[r]
    /\ \A x \in Requests : pc[x] # "done" => token[x] # token[r]

LogoutsOver ==
  \A r \in Requests :
    /\ req[r].op = "logout" /\ Waits(req[r].by)
    /\ reply[r].code = "OK" /\ pc[r] \in {"answer", "done"}
    => /\ ~ Active(token[r])
       /\ pc[r] = "done" => GivenUp(r)

\* What a login has read of its session is what the session still says.
LinksCurrent ==
  \A r \in Requests :
    pc[r] = "l_link" /\ Waits(req[r].by) => seen[r] = sessions[token[r]].user

WaitingInv ==
  SessionInv /\ CookiesOwn /\ AnswersOwn /\ OneAtATime /\ LogoutsOver /\ LinksCurrent

\* What a statement of a handler does to its request, and to no other.
LEMMA HandleEffect ==
  ASSUME TypeOK, HandlerMatches, NEW r \in Requests, Handle(r)
  PROVE  /\ UNCHANGED <<cookie, req, now, token>>
         /\ pc[r] \notin {"new", "answer", "done"} /\ pc'[r] \notin {"new", "done"}
         /\ \A x \in Requests \ {r} : pc'[x] = pc[x] /\ reply'[x] = reply[x] /\ seen'[x] = seen[x]
         /\ created' = created \/ (created' = created \cup {r} /\ pc'[r] = "answer")
         /\ reply'[r].session # reply[r].session /\ reply'[r].session # None =>
              reply'[r].session \in created' /\ reply'[r].session \in {r, token[r]}
         /\ req[r].op = "logout" => reply'[r].session \in {reply[r].session, None}
<1> USE DEF TypeOK
<1>0. UNCHANGED <<cookie, req, now>>
  BY DEF Handle
<1>1. CASE CreateAnonymous(r)
  BY <1>0, <1>1 DEF CreateAnonymous, CreateSession, Replied, locals, HandlerMatches
<1>2. CASE ReadCurrent(r)
  BY <1>0, <1>2 DEF ReadCurrent, Replied, Active, Answer, rows, locals, HandlerMatches
<1>3. CASE LogoutRead(r)
  BY <1>0, <1>3 DEF LogoutRead, Replied, Reached, Answer, rows
<1>4. CASE LogoutWrite(r)
  BY <1>0, <1>4 DEF LogoutWrite, Replied, Answer, locals
<1>5. CASE RegisterLookup(r)
  BY <1>0, <1>5 DEF RegisterLookup, Replied, Reached, Answer, rows, locals
<1>6. CASE RegisterInsert(r)
  BY <1>0, <1>6 DEF RegisterInsert, Replied, Answer, locals, HandlerMatches
<1>7. CASE LoginLookup(r)
  BY <1>0, <1>7 DEF LoginLookup, Replied, Reached, Answer, rows
<1>8. CASE LoginVerify(r)
  BY <1>0, <1>8 DEF LoginVerify, Replied, Reached, Answer, rows, locals
<1>9. CASE LoginSession(r)
  BY <1>0, <1>9 DEF LoginSession, Reached, rows
<1>10. CASE LoginCreate(r)
  BY <1>0, <1>10 DEF LoginCreate, CreateSession, Replied, locals, HandlerMatches
<1>11. CASE LoginLink(r)
  BY <1>0, <1>11 DEF LoginLink, Replied, locals, HandlerMatches
<1> QED
  BY <1>1, <1>2, <1>3, <1>4, <1>5, <1>6, <1>7, <1>8, <1>9, <1>10, <1>11 DEF Handle

\* Who writes a session: the request that creates it, or one sent with its cookie.
LEMMA SessionWrites ==
  ASSUME TypeOK, HandlerMatches, [Next]_vars, NEW s \in Requests, sessions'[s] # sessions[s]
  PROVE  \/ pc[s] \in {"anonymous", "l_create"} /\ now' = now
         \/ \E x \in Requests : pc[x] \in {"o_write", "l_link"} /\ token[x] = s /\ Handle(x)
<1>1. PICK x \in Requests : Handle(x)
  BY DEF Next, AllDone, vars, rows, Send, Receive, Crash, Tick
<1>2. CreateAnonymous(x) \/ LoginCreate(x) \/ LogoutWrite(x) \/ LoginLink(x)
  BY <1>1 DEF Handle, ReadCurrent, LogoutRead, RegisterLookup, RegisterInsert, LoginLookup,
     LoginVerify, LoginSession, rows
<1>3. CASE CreateAnonymous(x) \/ LoginCreate(x)
  <2>1. s = x /\ pc[x] \in {"anonymous", "l_create"}
    BY <1>3 DEF CreateAnonymous, LoginCreate, CreateSession, TypeOK
  <2> QED BY <1>1, <2>1 DEF Handle
<1>4. CASE LogoutWrite(x) \/ LoginLink(x)
  <2>1. s = token[x] /\ pc[x] \in {"o_write", "l_link"}
    BY <1>4 DEF LogoutWrite, LoginLink, TypeOK
  <2> QED BY <1>1, <2>1
<1> QED
  BY <1>2, <1>3, <1>4

\* A browser that waits sends its next request when none is under way.
LEMMA SendsAlone ==
  ASSUME OneAtATime, NEW r \in Requests, Send(r), req[r].by \in Browsers, Waits(req[r].by)
  PROVE  Underway(req[r].by) = {}
<1> SUFFICES ASSUME NEW x \in Underway(req[r].by) PROVE FALSE
  OBVIOUS
<1>1. Underway(req[r].by) = {x}
  BY DEF OneAtATime
<1>2. Cardinality({x}) = 1
  BY FS_Singleton
<1> QED
  BY <1>1, <1>2 DEF Send, Waits

\* A session a browser was told of stays its own.
LEMMA HeldStays ==
  ASSUME TypeOK, HandlerMatches, Steady, [Next]_vars, NEW s, NEW b, Held(s, b)
  PROVE  Held(s, b)'
<1>1. s \in Requests /\ pc[s] = "done"
  BY DEF Held, TypeOK
<1>2. pc'[s] = "done"
  <2>1. ASSUME NEW r \in Requests, Handle(r) PROVE pc'[s] = "done"
    BY <1>1, <2>1, HandleEffect
  <2>2. ASSUME NEW r \in Requests, Send(r) \/ Receive(r) \/ Crash(r) PROVE pc'[s] = "done"
    BY <1>1, <2>2 DEF Send, Receive, Crash, Replied, TypeOK
  <2> QED BY <1>1, <2>1, <2>2 DEF Next, AllDone, Tick, vars
<1> QED
  BY <1>2 DEF Held, Steady

\* Cookies, and the tokens sent with them, are the browser's own.
LEMMA CookiesOwnKept ==
  ASSUME WaitingInv, Steady, [Next]_vars
  PROVE  CookiesOwn'
<1>1. TypeOK /\ HandlerMatches /\ CookiesOwn /\ AnswersOwn
  BY DEF WaitingInv, SessionInv
<1>2. req' = req /\ \A r \in Requests : req[r].by \in Browsers
  BY <1>1, PayloadFields DEF Steady, TypeOK
<1> DEFINE HeldNow(s, b) == s \in created' /\ req[s].by = b /\ pc'[s] = "done"
<1>3. \A s, b : Held(s, b) => HeldNow(s, b)
  BY <1>1, <1>2, HeldStays DEF Held
<1>a. ASSUME \A b \in Browsers : cookie'[b] # None => HeldNow(cookie'[b], b),
             \A r \in Requests : token'[r] # None => HeldNow(token'[r], req[r].by)
      PROVE  CookiesOwn'
  BY <1>2, <1>a DEF CookiesOwn, Held
<1> HIDE DEF HeldNow
<1>4. ASSUME UNCHANGED <<cookie, token>> PROVE CookiesOwn'
  BY <1>1, <1>3, <1>4, <1>a DEF CookiesOwn
<1>5. ASSUME NEW r \in Requests, Send(r) PROVE CookiesOwn'
  <2>1. UNCHANGED cookie /\ token' = [token EXCEPT ![r] = cookie[req[r].by]]
    BY <1>5 DEF Send
  <2>2. ASSUME NEW x \in Requests, token'[x] # None PROVE Held(token'[x], req[x].by)
    BY <1>1, <1>2, <1>5, <2>1, <2>2 DEF CookiesOwn, TypeOK
  <2> QED BY <1>1, <1>3, <1>a, <2>1, <2>2 DEF CookiesOwn
<1>6. ASSUME NEW r \in Requests, Receive(r) PROVE CookiesOwn'
  <2>1. /\ UNCHANGED <<token, created>> /\ pc[r] = "answer" /\ pc' = [pc EXCEPT ![r] = "done"]
        /\ cookie' = cookie \/ cookie' = [cookie EXCEPT ![req[r].by] = reply[r].session]
    BY <1>6 DEF Receive, locals, rows
  <2>2. reply[r].session # None => HeldNow(reply[r].session, req[r].by)
    <3>1. r \in created => HeldNow(r, req[r].by)
      BY <1>1, <1>6, <2>1 DEF HeldNow, TypeOK
    <3>2. token[r] # None => HeldNow(token[r], req[r].by)
      BY <1>1, <1>3, <1>6 DEF CookiesOwn
    <3> QED BY <1>1, <1>6, <3>1, <3>2 DEF AnswersOwn
  <2>3. ASSUME NEW b \in Browsers, cookie'[b] # None PROVE HeldNow(cookie'[b], b)
    <3>1. CASE cookie'[b] = cookie[b]
      BY <1>1, <1>3, <2>3, <3>1 DEF CookiesOwn
    <3>2. CASE cookie'[b] # cookie[b]
      <4>1. b = req[r].by /\ cookie'[b] = reply[r].session
        BY <1>1, <1>2, <2>1, <3>2 DEF TypeOK
      <4> QED BY <2>2, <2>3, <4>1
    <3> QED BY <3>1, <3>2
  <2> QED BY <1>1, <1>3, <1>a, <2>1, <2>3 DEF CookiesOwn
<1>7. ASSUME NEW r \in Requests, Handle(r) PROVE CookiesOwn'
  BY <1>1, <1>4, <1>7, HandleEffect
<1>8. ASSUME NEW r \in Requests, Crash(r) PROVE CookiesOwn'
  BY <1>4, <1>8 DEF Crash, locals
<1>9. CASE Tick \/ UNCHANGED vars
  BY <1>4, <1>9 DEF Tick, vars, locals
<1> QED
  BY <1>5, <1>6, <1>7, <1>8, <1>9 DEF Next, AllDone

\* Answers name sessions that are there, the request's own or the one it was sent with.
LEMMA AnswersOwnKept ==
  ASSUME WaitingInv, Steady, [Next]_vars
  PROVE  AnswersOwn'
<1>1. TypeOK /\ HandlerMatches /\ AnswersOwn
  BY DEF WaitingInv, SessionInv
<1>2. req' = req /\ created \subseteq created'
  BY DEF Steady
<1>3. \A s \in created : s \in Requests /\ pc'[s] \in {"answer", "done"}
  BY <1>1 DEF AnswersOwn, Steady, TypeOK
<1>4. ASSUME NEW r \in Requests, Handle(r) PROVE AnswersOwn'
  <2>1. token' = token
    BY <1>1, <1>4, HandleEffect
  <2>2. ASSUME NEW x \in Requests
        PROVE  /\ reply'[x].session # None =>
                    reply'[x].session \in created' /\ reply'[x].session \in {x, token[x]}
               /\ req[x].op = "logout" => reply'[x].session = None
    <3>1. CASE x = r
      BY <1>1, <1>2, <1>4, <3>1, HandleEffect DEF AnswersOwn
    <3>2. CASE x # r
      BY <1>1, <1>2, <1>4, <3>2, HandleEffect DEF AnswersOwn
    <3> QED BY <3>1, <3>2
  <2>3. \A s \in created' : pc'[s] \in {"answer", "done"}
    BY <1>1, <1>3, <1>4, HandleEffect
  <2> QED BY <1>2, <2>1, <2>2, <2>3 DEF AnswersOwn
<1>5. ASSUME created' = created,
             \A x \in Requests : reply'[x] = reply[x] \/ reply'[x].session = None,
             \A x \in Requests : token'[x] = token[x] \/ reply'[x].session = None
      PROVE  AnswersOwn'
  BY <1>1, <1>2, <1>3, <1>5 DEF AnswersOwn
<1>6. ASSUME NEW r \in Requests, Send(r) PROVE AnswersOwn'
  <2>1. created' = created /\ reply' = reply /\ \A x \in Requests \ {r} : token'[x] = token[x]
    BY <1>1, <1>6 DEF Send, rows, TypeOK
  <2>2. reply[r].session = None
    <3>1. pc[r] = "new" /\ token[r] = None
      BY <1>1, <1>6 DEF Send, HandlerMatches
    <3>2. r \notin created
      BY <1>1, <3>1 DEF AnswersOwn
    <3> QED BY <1>1, <3>1, <3>2 DEF AnswersOwn
  <2> QED BY <1>5, <2>1, <2>2
<1>7. ASSUME NEW r \in Requests, Receive(r) PROVE AnswersOwn'
  BY <1>5, <1>7 DEF Receive, rows, locals
<1>8. ASSUME NEW r \in Requests, Crash(r) PROVE AnswersOwn'
  <2>1. /\ created' = created /\ token' = token
        /\ \A x \in Requests : reply'[x] = reply[x] \/ reply'[x].session = None
    BY <1>1, <1>8 DEF Crash, Replied, Answer, rows, locals, TypeOK
  <2> QED BY <1>5, <2>1
<1>9. CASE Tick \/ UNCHANGED vars
  BY <1>5, <1>9 DEF Tick, vars, rows, locals
<1> QED
  BY <1>4, <1>6, <1>7, <1>8, <1>9 DEF Next, AllDone

\* A browser that waits has one request under way.
LEMMA OneAtATimeKept ==
  ASSUME WaitingInv, Steady, [Next]_vars
  PROVE  OneAtATime'
<1>1. TypeOK /\ HandlerMatches /\ OneAtATime
  BY DEF WaitingInv, SessionInv
<1>2. req' = req /\ \A r \in Requests : req[r].by \in Browsers
  BY <1>1, PayloadFields DEF Steady, TypeOK
<1>3. ASSUME NEW r \in Requests, Send(r) PROVE OneAtATime'
  <2> SUFFICES ASSUME NEW b \in Browsers, Waits(b), NEW x \in Underway(b)', NEW y \in Underway(b)'
               PROVE  x = y
    BY DEF OneAtATime, Waits
  <2>1. \A z \in Requests : z \in Underway(b)' => z \in Underway(b) \/ z = r
    BY <1>1, <1>2, <1>3 DEF Send, Underway, TypeOK
  <2>2. x \in Requests /\ y \in Requests
    BY DEF Underway
  <2>3. CASE req[r].by = b
    <3>1. Underway(b) = {}
      BY <1>1, <1>3, <2>3, SendsAlone
    <3> QED BY <2>1, <2>2, <3>1
  <2>4. CASE req[r].by # b
    <3>1. r \notin Underway(b)'
      BY <1>2, <2>4 DEF Underway
    <3> QED BY <1>1, <2>1, <2>2, <3>1 DEF OneAtATime
  <2> QED BY <2>3, <2>4
<1>4. ASSUME \A z \in Requests : pc'[z] \notin {"new", "done"} => pc[z] \notin {"new", "done"}
      PROVE  OneAtATime'
  BY <1>1, <1>2, <1>4 DEF OneAtATime, Underway, Waits
<1>5. ASSUME NEW r \in Requests, Handle(r) PROVE OneAtATime'
  BY <1>1, <1>4, <1>5, HandleEffect
<1>6. ASSUME NEW r \in Requests, Receive(r) \/ Crash(r) PROVE OneAtATime'
  BY <1>1, <1>4, <1>6 DEF Receive, Crash, Replied, TypeOK
<1>7. CASE Tick \/ UNCHANGED vars
  BY <1>4, <1>7 DEF Tick, vars
<1> QED
  BY <1>3, <1>5, <1>6, <1>7 DEF Next, AllDone

\* While a request of a browser that waits is under way, nobody else writes the
\* session it was sent with.
LEMMA NobodyElseWrites ==
  ASSUME WaitingInv, [Next]_vars, NEW r \in Requests, Waits(req[r].by),
         pc[r] \notin {"new", "done"}, token[r] # None
  PROVE  sessions'[token[r]] = sessions[token[r]] \/ Handle(r)
<1>1. /\ TypeOK /\ HandlerMatches /\ CookiesOwn /\ AnswersOwn /\ OneAtATime
      /\ req[r].by \in Browsers
  BY PayloadFields DEF WaitingInv, SessionInv, TypeOK
<1> SUFFICES ASSUME sessions'[token[r]] # sessions[token[r]] PROVE Handle(r)
  OBVIOUS
<1>2. token[r] \in Requests /\ pc[token[r]] = "done" /\ req[token[r]].by = req[r].by
  BY <1>1 DEF CookiesOwn, Held, TypeOK
<1>3. PICK x \in Requests : pc[x] \in {"o_write", "l_link"} /\ token[x] = token[r] /\ Handle(x)
  BY <1>1, <1>2, SessionWrites
<1>4. req[x].by = req[r].by
  BY <1>1, <1>2, <1>3 DEF CookiesOwn, Held
<1>5. x = r
  BY <1>1, <1>3, <1>4 DEF OneAtATime, Underway
<1> QED
  BY <1>3, <1>5

\* A logout that is about to be answered has invalidated the session, if there is one.
LEMMA LogoutAnswers ==
  ASSUME TypeOK, HandlerMatches, NEW r \in Requests, Handle(r), req[r].op = "logout",
         pc'[r] = "answer"
  PROVE  ~ Active(token[r])'
<1>1. LogoutRead(r) \/ LogoutWrite(r)
  BY DEF Handle, HandlerMatches, CreateAnonymous, ReadCurrent, RegisterLookup, RegisterInsert,
     LoginLookup, LoginVerify, LoginSession, LoginCreate, LoginLink
<1>2. CASE LogoutRead(r)
  BY <1>2 DEF LogoutRead, Reached, Active, rows, TypeOK
<1>3. CASE LogoutWrite(r)
  <2>1. token[r] \in Requests /\ now' = now /\ token' = token
    BY <1>3 DEF LogoutWrite, HandlerMatches, TypeOK, Handle, locals
  <2>2. sessions'[token[r]].expires = now
    BY <1>3, <2>1 DEF LogoutWrite, InvalidatedSession, TypeOK
  <2> QED BY <2>1, <2>2 DEF Active, TypeOK
<1> QED
  BY <1>1, <1>2, <1>3

\* A session that is over is over for good unless somebody writes it.
LEMMA StaysOver ==
  ASSUME TypeOK, HandlerMatches, Steady, [Next]_vars, NEW s, ~ Active(s),
         s = None \/ (s \in created /\ sessions'[s] = sessions[s])
  PROVE  ~ Active(s)'
<1>1. created' \subseteq Requests
  BY NextTypes DEF TypeOK
<1>2. now' \in Nat /\ now \in Nat /\ now' >= now
  BY DEF TypeOK, Next, AllDone, vars, Send, Receive, Crash, Tick, Handle
<1>3. s \in created => sessions[s].expires \in Nat
  BY DEF TypeOK, Session
<1>4. CASE s = None
  BY <1>1, <1>4, SessionAssumption DEF Active
<1>5. CASE s \in created /\ sessions'[s] = sessions[s]
  <2>1. ~ (now < sessions[s].expires)
    BY <1>5 DEF Active
  <2>2. ~ (now' < sessions'[s].expires)
    BY <1>2, <1>3, <1>5, <2>1
  <2> QED BY <2>2 DEF Active
<1> QED
  BY <1>4, <1>5

\* A session a browser has given up stays given up.
LEMMA GivenUpKept ==
  ASSUME WaitingInv, Steady, [Next]_vars, NEW r \in Requests, pc[r] = "done", GivenUp(r),
         token[r] # None
  PROVE  /\ cookie'[req[r].by] # token[r]
         /\ \A x \in Requests : pc'[x] # "done" => token'[x] # token[r]
<1>1. /\ TypeOK /\ HandlerMatches /\ CookiesOwn /\ AnswersOwn
      /\ \A x \in Requests : req[x].by \in Browsers
  BY PayloadFields DEF WaitingInv, SessionInv, TypeOK
<1>2. /\ cookie[req[r].by] # token[r]
      /\ \A x \in Requests : pc[x] # "done" => token[x] # token[r]
      /\ pc[token[r]] = "done" /\ req[token[r]].by = req[r].by
  BY <1>1 DEF GivenUp, CookiesOwn, Held
<1>3. \A x \in Requests : pc'[x] # "done" => pc[x] # "done"
  <2>1. ASSUME NEW x \in Requests, Handle(x) PROVE \A y \in Requests : pc'[y] # "done" => pc[y] # "done"
    BY <1>1, <2>1, HandleEffect
  <2>2. ASSUME NEW x \in Requests, Send(x) \/ Receive(x) \/ Crash(x)
        PROVE  \A y \in Requests : pc'[y] # "done" => pc[y] # "done"
    BY <1>1, <2>2 DEF Send, Receive, Crash, Replied, TypeOK
  <2> QED BY <2>1, <2>2 DEF Next, AllDone, Tick, vars
<1>4. ASSUME UNCHANGED <<cookie, token>>
      PROVE  /\ cookie'[req[r].by] # token[r]
             /\ \A x \in Requests : pc'[x] # "done" => token'[x] # token[r]
  BY <1>2, <1>3, <1>4
<1>5. ASSUME NEW y \in Requests, Send(y)
      PROVE  /\ cookie'[req[r].by] # token[r]
             /\ \A x \in Requests : pc'[x] # "done" => token'[x] # token[r]
  <2>1. UNCHANGED cookie /\ token' = [token EXCEPT ![y] = cookie[req[y].by]]
    BY <1>5 DEF Send
  <2>2. cookie[req[y].by] # token[r]
    BY <1>1, <1>2 DEF CookiesOwn, Held
  <2> QED BY <1>1, <1>2, <1>3, <2>1, <2>2 DEF TypeOK
<1>6. ASSUME NEW y \in Requests, Receive(y)
      PROVE  /\ cookie'[req[r].by] # token[r]
             /\ \A x \in Requests : pc'[x] # "done" => token'[x] # token[r]
  <2>1. /\ token' = token /\ pc[y] = "answer"
        /\ cookie' = cookie \/ cookie' = [cookie EXCEPT ![req[y].by] = reply[y].session]
    BY <1>6 DEF Receive, locals
  <2>2. reply[y].session # token[r]
    <3>1. y # token[r] /\ token[y] # token[r]
      BY <1>2, <2>1
    <3> QED BY <1>1, <3>1 DEF AnswersOwn
  <2> QED BY <1>1, <1>2, <1>3, <2>1, <2>2 DEF TypeOK
<1>7. ASSUME NEW y \in Requests, Handle(y) PROVE UNCHANGED <<cookie, token>>
  BY <1>1, <1>7, HandleEffect
<1>8. ASSUME NEW y \in Requests, Crash(y) PROVE UNCHANGED <<cookie, token>>
  BY <1>8 DEF Crash, locals
<1>9. CASE Tick \/ UNCHANGED vars
  BY <1>4, <1>9 DEF Tick, vars, locals
<1> QED
  BY <1>4, <1>5, <1>6, <1>7, <1>8, <1>9 DEF Next, AllDone

\* A logout, from its answer on.
LEMMA LogoutsOverKept ==
  ASSUME WaitingInv, Steady, [Next]_vars
  PROVE  LogoutsOver'
<1>1. /\ TypeOK /\ HandlerMatches /\ CookiesOwn /\ AnswersOwn /\ OneAtATime /\ LogoutsOver
      /\ \A x \in Requests : req[x].by \in Browsers
  BY PayloadFields DEF WaitingInv, SessionInv, TypeOK
<1>2. req' = req
  BY DEF Steady
<1> SUFFICES ASSUME NEW r \in Requests, req[r].op = "logout", Waits(req[r].by),
                    reply'[r].code = "OK", pc'[r] \in {"answer", "done"}
             PROVE  ~ Active(token[r])' /\ (pc'[r] = "done" => GivenUp(r)')
  BY <1>2 DEF LogoutsOver, Waits
<1>3. CASE Handle(r)
  BY <1>1, <1>3, LogoutAnswers, HandleEffect
<1>4. CASE ~ Handle(r)
  <2>1. /\ pc[r] \in {"answer", "done"} /\ reply[r].code = "OK"
        /\ pc'[r] # pc[r] => Receive(r)
    <3>1. ASSUME NEW x \in Requests, Handle(x) PROVE pc'[r] = pc[r] /\ reply'[r] = reply[r]
      BY <1>1, <1>4, <3>1, HandleEffect
    <3>2. ASSUME NEW x \in Requests, Send(x) PROVE pc'[r] = pc[r] /\ reply'[r] = reply[r]
      BY <1>1, <3>2 DEF Send, TypeOK
    <3>3. ASSUME NEW x \in Requests, Crash(x) PROVE pc'[r] = pc[r] /\ reply'[r] = reply[r]
      BY <1>1, <3>3 DEF Crash, Replied, Answer, TypeOK
    <3>4. ASSUME NEW x \in Requests, Receive(x)
          PROVE  /\ reply'[r] = reply[r] /\ pc[r] \in {"answer", "done"}
                 /\ pc'[r] # pc[r] => Receive(r)
      BY <1>1, <3>4 DEF Receive, TypeOK
    <3> QED BY <3>1, <3>2, <3>3, <3>4 DEF Next, AllDone, Tick, vars
  <2>2. ~ Active(token[r]) /\ (pc[r] = "done" => GivenUp(r)) /\ token'[r] = token[r]
    BY <1>1, <2>1 DEF LogoutsOver, Steady
  <2>3. token[r] # None => token[r] \in created /\ sessions'[token[r]] = sessions[token[r]]
    <3> SUFFICES ASSUME token[r] # None
                 PROVE  token[r] \in created /\ sessions'[token[r]] = sessions[token[r]]
      OBVIOUS
    <3>1. token[r] \in created /\ token[r] \in Requests /\ pc[token[r]] = "done"
      BY <1>1 DEF CookiesOwn, Held, TypeOK
    <3>2. CASE pc[r] = "answer"
      BY <1>4, <3>1, <3>2, NobodyElseWrites
    <3>3. CASE pc[r] = "done"
      <4>1. \A x \in Requests : pc[x] # "done" => token[x] # token[r]
        BY <2>2, <3>3 DEF GivenUp
      <4> QED BY <1>1, <3>1, <4>1, SessionWrites
    <3> QED BY <2>1, <3>1, <3>2, <3>3
  <2>4. ~ Active(token[r])'
    BY <1>1, <2>2, <2>3, StaysOver
  <2>5. ASSUME pc'[r] = "done", token[r] # None
        PROVE  /\ cookie'[req[r].by] # token[r]
               /\ \A x \in Requests : pc'[x] # "done" => token'[x] # token[r]
    <3>1. CASE pc[r] = "done"
      BY <2>2, <2>5, <3>1, GivenUpKept
    <3>2. CASE pc[r] = "answer"
      <4>1. Receive(r)
        BY <2>1, <2>5, <3>2
      <4>2. /\ cookie' = [cookie EXCEPT ![req[r].by] = reply[r].session]
            /\ token' = token /\ pc' = [pc EXCEPT ![r] = "done"]
        BY <2>1, <4>1 DEF Receive, locals
      <4>3. cookie'[req[r].by] = None
        BY <1>1, <4>2 DEF AnswersOwn, TypeOK
      <4>4. ASSUME NEW x \in Requests, pc'[x] # "done", token[x] = token[r] PROVE FALSE
        <5>1. x # r /\ pc[x] \notin {"new", "done"}
          BY <1>1, <2>5, <4>2, <4>4 DEF TypeOK, HandlerMatches
        <5>2. req[x].by = req[r].by
          BY <1>1, <2>5, <4>4 DEF CookiesOwn, Held
        <5> QED BY <1>1, <3>2, <5>1, <5>2 DEF OneAtATime, Underway
      <4> QED BY <2>5, <4>2, <4>3, <4>4
    <3> QED BY <2>1, <3>1, <3>2
  <2> QED BY <1>2, <2>2, <2>4, <2>5 DEF GivenUp
<1> QED
  BY <1>3, <1>4

\* A login that has found its session, until it links it.
LEMMA LinksCurrentKept ==
  ASSUME WaitingInv, Steady, [Next]_vars
  PROVE  LinksCurrent'
<1>1. /\ TypeOK /\ HandlerMatches /\ LinksCurrent /\ CookiesOwn
      /\ \A x \in Requests : req[x].by \in Browsers
  BY PayloadFields DEF WaitingInv, SessionInv, TypeOK
<1>2. req' = req
  BY DEF Steady
<1> SUFFICES ASSUME NEW r \in Requests, Waits(req[r].by), pc'[r] = "l_link"
             PROVE  seen'[r] = sessions'[token'[r]].user
  BY <1>2 DEF LinksCurrent, Waits
<1>3. CASE Handle(r)
  <2>1. LoginSession(r)
    BY <1>1, <1>3 DEF Handle, CreateAnonymous, ReadCurrent, LogoutRead, LogoutWrite,
       RegisterLookup, RegisterInsert, LoginLookup, LoginVerify, LoginCreate, LoginLink,
       Replied, Reached, TypeOK
  <2> QED BY <1>1, <2>1 DEF LoginSession, Reached, rows, TypeOK
<1>4. CASE ~ Handle(r)
  <2>1. pc[r] = "l_link" /\ seen'[r] = seen[r]
    <3>1. ASSUME NEW x \in Requests, Handle(x) PROVE pc'[r] = pc[r] /\ seen'[r] = seen[r]
      BY <1>1, <1>4, <3>1, HandleEffect
    <3>2. ASSUME NEW x \in Requests, Send(x) \/ Receive(x) \/ Crash(x)
          PROVE  pc[r] = "l_link" /\ seen'[r] = seen[r]
      BY <1>1, <3>2, PayloadFields DEF Send, Receive, Crash, Replied, locals, TypeOK
    <3> QED BY <3>1, <3>2 DEF Next, AllDone, Tick, vars, locals
  <2>2. token'[r] = token[r] /\ token[r] \in created
    BY <1>1, <2>1 DEF Steady, HandlerMatches
  <2>3. token[r] # None
    BY <1>1, <2>2, SessionAssumption DEF TypeOK
  <2>4. sessions'[token[r]] = sessions[token[r]]
    BY <1>4, <2>1, <2>3, NobodyElseWrites
  <2> QED BY <1>1, <2>1, <2>2, <2>4 DEF LinksCurrent
<1> QED
  BY <1>3, <1>4

\* Nobody has a cookie, a session or a request under way at the start.
LEMMA InitWaiting == Init => WaitingInv
<1> SUFFICES ASSUME Init PROVE WaitingInv
  OBVIOUS
<1>1. /\ created = {} /\ \A b \in Browsers : cookie[b] = None
      /\ \A r \in Requests : pc[r] = "new" /\ token[r] = None /\ reply[r] = Answer("PENDING")
  BY DEF Init
<1>2. CookiesOwn /\ AnswersOwn
  BY <1>1 DEF CookiesOwn, AnswersOwn, Answer
<1>3. OneAtATime /\ LogoutsOver /\ LinksCurrent
  BY <1>1 DEF OneAtATime, Underway, LogoutsOver, LinksCurrent
<1> QED
  BY <1>2, <1>3, InitSessionInv DEF WaitingInv

\* The invariant of browsers that wait is inductive.
LEMMA NextWaiting == WaitingInv /\ [Next]_vars => WaitingInv'
<1> SUFFICES ASSUME WaitingInv, [Next]_vars PROVE WaitingInv'
  OBVIOUS
<1>1. SessionInv' /\ Steady
  BY NextSessionInv, NextSteady DEF WaitingInv, SessionInv
<1> QED
  BY <1>1, CookiesOwnKept, AnswersOwnKept, OneAtATimeKept, LogoutsOverKept, LinksCurrentKept
     DEF WaitingInv

\* Whoever sends requests of this kind waits for each answer.
PatientWith(op) == \A r \in Requests : req[r].op = op => Waits(req[r].by)

\* VisitorSessionService.invalidate: when the browsers that log out wait for each
\* answer, an acknowledged logout ends the session for good, whatever the other
\* browsers, the clock and failures do.
THEOREM PatientLogoutsAreFinal == PatientWith("logout") /\ Spec => []LogoutIsFinal
<1>1. PatientWith("logout") /\ [Next]_vars /\ WaitingInv => PatientWith("logout")'
  BY NextSteady DEF PatientWith, Waits, WaitingInv, SessionInv, Steady
<1>2. PatientWith("logout") /\ WaitingInv => LogoutIsFinal
  BY DEF PatientWith, WaitingInv, LogoutsOver, LogoutIsFinal
<1> QED
  BY <1>1, <1>2, InitWaiting, NextWaiting, PTL DEF Spec

\* What a successful login leaves, when nobody else has used its session meanwhile.
LEMMA LoginLeaves ==
  ASSUME WaitingInv, PatientWith("login"), [Next]_vars, NEW r \in Requests,
         req[r].op = "login", reply[r].code # "OK", reply'[r].code = "OK"
  PROVE  LET s == reply'[r].session
         IN s \in created' /\ sessions'[s].user = reply'[r].user /\ now < sessions'[s].expires
<1>1. TypeOK /\ HandlerMatches /\ Waits(req[r].by)
  BY DEF WaitingInv, SessionInv, PatientWith
<1>2. LoginCreate(r) \/ LoginLink(r)
  <2>1. Handle(r)
    <3>1. ASSUME NEW x \in Requests, Handle(x) PROVE x = r
      BY <1>1, <3>1, HandleEffect
    <3>2. ASSUME NEW x \in Requests, Send(x) \/ Receive(x) \/ Crash(x) PROVE reply'[r].code # "OK"
      BY <1>1, <3>2 DEF Send, Receive, Crash, Replied, Answer, TypeOK
    <3> QED BY <3>1, <3>2 DEF Next, AllDone, Tick, vars
  <2>2. ~ LoginLookup(r) /\ ~ LoginVerify(r) /\ ~ LoginSession(r)
    BY <1>1 DEF LoginLookup, LoginVerify, LoginSession, Reached, Replied, Answer, TypeOK
  <2> QED BY <1>1, <2>1, <2>2 DEF Handle, HandlerMatches, CreateAnonymous, ReadCurrent,
             LogoutRead, LogoutWrite, RegisterLookup, RegisterInsert
<1>3. now \in Nat /\ now < now + SessionTTL
  BY <1>1, SessionAssumption DEF TypeOK
<1>4. CASE LoginCreate(r)
  BY <1>1, <1>3, <1>4 DEF LoginCreate, CreateSession, Replied, TypeOK
<1>5. CASE LoginLink(r)
  <2>1. token[r] \in created /\ token[r] \in Requests /\ created' = created
    BY <1>1, <1>5 DEF LoginLink, HandlerMatches, TypeOK
  <2>2. seen[r] = sessions[token[r]].user
    BY <1>1, <1>5 DEF LoginLink, WaitingInv, LinksCurrent
  <2>3. sessions'[token[r]] = [user |-> account[r], expires |-> now + SessionTTL]
    BY <1>1, <1>5, <2>1, <2>2 DEF LoginLink, LinkedSession, WrittenUser, TypeOK
  <2>4. reply'[r].session = token[r] /\ reply'[r].user = account[r]
    BY <1>1, <1>5 DEF LoginLink, Replied, TypeOK
  <2> QED BY <1>3, <2>1, <2>3, <2>4
<1> QED
  BY <1>2, <1>4, <1>5

\* AuthService.login, link_user: when the browsers that log in wait for each answer,
\* a login that is answered with success leaves its session active and linked.
THEOREM PatientLoginsLink == PatientWith("login") /\ Spec => LoginLinks
<1>1. PatientWith("login") /\ [Next]_vars /\ WaitingInv => PatientWith("login")'
  BY NextSteady DEF PatientWith, Waits, WaitingInv, SessionInv, Steady
<1> DEFINE Links == \A r \in Requests :
             req[r].op = "login" /\ reply[r].code # "OK" /\ reply'[r].code = "OK" =>
               LET s == reply'[r].session
               IN s \in created' /\ sessions'[s].user = reply'[r].user
                    /\ now < sessions'[s].expires
<1>2. PatientWith("login") /\ WaitingInv /\ [Next]_vars => [Links]_vars
  BY LoginLeaves
<1>3. LoginLinks <=> [][Links]_vars
  BY DEF LoginLinks
<1> QED
  BY <1>1, <1>2, <1>3, InitWaiting, NextWaiting, PTL DEF Spec
=============================================================================
