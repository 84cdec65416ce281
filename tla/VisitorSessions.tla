--------------------------- MODULE VisitorSessions ---------------------------
(***************************************************************************)
(* Visitor sessions and users: registration, login, logout, anonymous      *)
(* sessions and the session every other endpoint authenticates with.  The  *)
(* rows of users and visitor_sessions are read without locks and written   *)
(* by later statements, from what was read.                                *)
(*                                                                         *)
(* A user is named by the registration that inserted it, a session by the  *)
(* request that created it; a cookie holds the token of one session.       *)
(* Users and sessions are never deleted.  An INSERT or UPDATE is followed  *)
(* by its COMMIT at once: the two are one step, since nobody else can see  *)
(* or write the row in between.                                            *)
(***************************************************************************)
EXTENDS Integers, FiniteSets

CONSTANTS
  Requests, Browsers, Addresses, Passwords,
  Normal,       \* strip().lower() on the addresses as they are typed
  SessionTTL,   \* visitor_session_ttl_seconds, in clock ticks
  InFlight,     \* how many requests each browser has under way at a time
  MaxTime,      \* bound: the last value of the clock
  MaxCrashes,   \* bound: how many requests may fail midway
  Workloads,    \* the requests to check, one function per workload
  None

Anonymous == [op : {"anonymous", "me", "logout"}, by : Browsers]
Credentials ==
  [op : {"register", "login"}, by : Browsers,
   address : Addresses, password : Passwords]

ASSUME SessionAssumption ==
  /\ Requests \subseteq Nat /\ None \notin Requests
  /\ Normal \in [Addresses -> Addresses]
  /\ SessionTTL \in Nat \ {0} /\ InFlight \in [Browsers -> Nat \ {0}]
  /\ MaxTime \in Nat /\ MaxCrashes \in Nat
  /\ Workloads \subseteq [Requests -> Anonymous \cup Credentials]

VARIABLES
  users,      \* users: who holds each normal address
  created,    \* visitor_sessions: the rows there are
  sessions,   \* ... and what they say
  cookie,     \* the session each browser's cookie names
  req, pc,
  token,      \* the cookie a request was sent with
  account,    \* the user a login has found
  seen,       \* the user_id a request has read with its session
  reply, now, crashes

rows == <<users, created, sessions>>
locals == <<token, account, seen>>
vars == <<rows, cookie, req, pc, locals, reply, now, crashes>>

Session == [user : Requests \cup {None}, expires : Nat]
Code == {"PENDING", "OK", "ERROR", "INVALID_CREDENTIALS",
         "EMAIL_ALREADY_REGISTERED", "SESSION_REQUIRED"}
Reply == [code : Code, user : Requests \cup {None}, session : Requests \cup {None}]
Labels == {"new", "anonymous", "me", "logout", "o_write", "register", "r_insert",
           "login", "l_verify", "l_session", "l_create", "l_link", "answer", "done"}

TypeOK ==
  /\ users \in [Addresses -> Requests \cup {None}]
  /\ created \subseteq Requests
  /\ sessions \in [Requests -> Session]
  /\ cookie \in [Browsers -> Requests \cup {None}]
  /\ req \in Workloads
  /\ pc \in [Requests -> Labels]
  /\ token \in [Requests -> Requests \cup {None}]
  /\ account \in [Requests -> Requests \cup {None}]
  /\ seen \in [Requests -> Requests \cup {None}]
  /\ reply \in [Requests -> Reply]
  /\ now \in 0..MaxTime /\ crashes \in 0..MaxCrashes

Answer(code) == [code |-> code, user |-> None, session |-> None]

Init ==
  /\ users = [a \in Addresses |-> None]
  /\ created = {} /\ sessions = [s \in Requests |-> [user |-> None, expires |-> 0]]
  /\ cookie = [b \in Browsers |-> None]
  /\ req \in Workloads
  /\ pc = [r \in Requests |-> "new"]
  /\ token = [r \in Requests |-> None]
  /\ account = [r \in Requests |-> None]
  /\ seen = [r \in Requests |-> None]
  /\ reply = [r \in Requests |-> Answer("PENDING")]
  /\ now = 0 /\ crashes = 0

-----------------------------------------------------------------------------
(* Browsers *)

Underway(b) == {r \in Requests : req[r].by = b /\ pc[r] \notin {"new", "done"}}

\* The browser sends its cookie along.
Send(r) ==
  /\ pc[r] = "new"
  /\ Cardinality(Underway(req[r].by)) < InFlight[req[r].by]
  /\ token' = [token EXCEPT ![r] = cookie[req[r].by]]
  /\ pc' = [pc EXCEPT ![r] = req[r].op]
  /\ UNCHANGED <<rows, cookie, req, account, seen, reply, now, crashes>>

\* Set-Cookie of an anonymous session or a login, deletion by a logout.
Receive(r) ==
  /\ pc[r] = "answer"
  /\ cookie' = IF reply[r].code = "OK" /\ req[r].op \in {"anonymous", "login", "logout"}
               THEN [cookie EXCEPT ![req[r].by] = reply[r].session] ELSE cookie
  /\ pc' = [pc EXCEPT ![r] = "done"]
  /\ UNCHANGED <<rows, req, locals, reply, now, crashes>>

-----------------------------------------------------------------------------
(* VisitorSessionService *)

Reached(r, label) == pc' = [pc EXCEPT ![r] = label] /\ UNCHANGED reply

Replied(r, answer) ==
  /\ reply' = [reply EXCEPT ![r] = answer]
  /\ pc' = [pc EXCEPT ![r] = "answer"]

Active(s) == s \in created /\ now < sessions[s].expires

\* create.
CreateSession(r, u) ==
  /\ created' = created \cup {r}
  /\ sessions' = [sessions EXCEPT ![r] = [user |-> u, expires |-> now + SessionTTL]]

\* The ORM writes only the columns that differ from what was read.
WrittenUser(r, s, u) == IF seen[r] = u THEN sessions[s].user ELSE u

\* Mutant of LinkedSession: the deadline is not extended.
LinkedOnly(r, s, u) == [sessions[s] EXCEPT !.user = WrittenUser(r, s, u)]

\* link_user and invalidate.
LinkedSession(r, s, u) == [user |-> WrittenUser(r, s, u), expires |-> now + SessionTTL]

\* Mutants of InvalidatedSession: the deadline is left alone, or put before now.
UnlinkedSession(r, s) == [sessions[s] EXCEPT !.user = WrittenUser(r, s, None)]
BackdatedSession(r, s) ==
  [user |-> WrittenUser(r, s, None), expires |-> now - SessionTTL]

InvalidatedSession(r, s) == [user |-> WrittenUser(r, s, None), expires |-> now]

CreateAnonymous(r) ==
  /\ pc[r] = "anonymous"
  /\ CreateSession(r, None)
  /\ Replied(r, [code |-> "OK", user |-> None, session |-> r])
  /\ UNCHANGED <<users, locals>>

\* get_current_session, the dependency of every other endpoint.
ReadCurrent(r) ==
  /\ pc[r] = "me"
  /\ Replied(r, IF Active(token[r])
                THEN [code |-> "OK", user |-> sessions[token[r]].user, session |-> token[r]]
                ELSE Answer("SESSION_REQUIRED"))
  /\ UNCHANGED <<rows, locals>>

\* invalidate: read the row, whatever its deadline; nothing to do without one.
LogoutRead(r) ==
  /\ pc[r] = "logout"
  /\ \/ /\ token[r] \in created
        /\ seen' = [seen EXCEPT ![r] = sessions[token[r]].user]
        /\ Reached(r, "o_write")
     \/ /\ token[r] \notin created
        /\ Replied(r, Answer("OK"))
        /\ UNCHANGED seen
  /\ UNCHANGED <<rows, token, account>>

LogoutWrite(r) ==
  /\ pc[r] = "o_write"
  /\ sessions' = [sessions EXCEPT ![token[r]] = InvalidatedSession(r, token[r])]
  /\ Replied(r, Answer("OK"))
  /\ UNCHANGED <<users, created, locals>>

-----------------------------------------------------------------------------
(* AuthService *)

Address(r) == Normal[req[r].address]

RegisterLookup(r) ==
  /\ pc[r] = "register"
  /\ \/ users[Address(r)] = None /\ Reached(r, "r_insert")
     \/ users[Address(r)] # None /\ Replied(r, Answer("EMAIL_ALREADY_REGISTERED"))
  /\ UNCHANGED <<rows, locals>>

\* Mutant of RegisterInsert: no unique index on users.email.
RegisterUnchecked(r) ==
  /\ pc[r] = "r_insert"
  /\ users' = [users EXCEPT ![Address(r)] = r]
  /\ Replied(r, [code |-> "OK", user |-> r, session |-> None])
  /\ UNCHANGED <<created, sessions, locals>>

\* The unique index on users.email decides.
RegisterInsert(r) ==
  /\ pc[r] = "r_insert"
  /\ \/ /\ users[Address(r)] = None
        /\ users' = [users EXCEPT ![Address(r)] = r]
        /\ Replied(r, [code |-> "OK", user |-> r, session |-> None])
     \/ /\ users[Address(r)] # None
        /\ Replied(r, Answer("EMAIL_ALREADY_REGISTERED"))
        /\ UNCHANGED users
  /\ UNCHANGED <<created, sessions, locals>>

LoginLookup(r) ==
  /\ pc[r] = "login"
  /\ account' = [account EXCEPT ![r] = users[Address(r)]]
  /\ \/ users[Address(r)] # None /\ Reached(r, "l_verify")
     \/ users[Address(r)] = None /\ Replied(r, Answer("INVALID_CREDENTIALS"))
  /\ UNCHANGED <<rows, token, seen>>

AnyPassword(r) == TRUE    \* mutant of PasswordMatches
PasswordMatches(r) == req[account[r]].password = req[r].password

\* verify_password in a thread, then the user row again (it cannot be gone).
LoginVerify(r) ==
  /\ pc[r] = "l_verify"
  /\ \/ PasswordMatches(r) /\ Reached(r, "l_session")
     \/ ~ PasswordMatches(r) /\ Replied(r, Answer("INVALID_CREDENTIALS"))
  /\ UNCHANGED <<rows, locals>>

\* get_active.
LoginSession(r) ==
  /\ pc[r] = "l_session"
  /\ \/ /\ Active(token[r])
        /\ seen' = [seen EXCEPT ![r] = sessions[token[r]].user]
        /\ Reached(r, "l_link")
     \/ ~ Active(token[r]) /\ Reached(r, "l_create") /\ UNCHANGED seen
  /\ UNCHANGED <<rows, token, account>>

LoginCreate(r) ==
  /\ pc[r] = "l_create"
  /\ CreateSession(r, account[r])
  /\ Replied(r, [code |-> "OK", user |-> account[r], session |-> r])
  /\ UNCHANGED <<users, locals>>

LoginLink(r) ==
  /\ pc[r] = "l_link"
  /\ sessions' = [sessions EXCEPT ![token[r]] = LinkedSession(r, token[r], account[r])]
  /\ Replied(r, [code |-> "OK", user |-> account[r], session |-> token[r]])
  /\ UNCHANGED <<users, created, locals>>

-----------------------------------------------------------------------------
Handle(r) ==
  /\ \/ CreateAnonymous(r) \/ ReadCurrent(r) \/ LogoutRead(r) \/ LogoutWrite(r)
     \/ RegisterLookup(r) \/ RegisterInsert(r)
     \/ LoginLookup(r) \/ LoginVerify(r) \/ LoginSession(r)
     \/ LoginCreate(r) \/ LoginLink(r)
  /\ UNCHANGED <<cookie, req, now, crashes>>

\* The process dies before the next statement, or its answer is lost.
Crash(r) ==
  /\ crashes < MaxCrashes
  /\ pc[r] \notin {"new", "done"}
  /\ Replied(r, Answer("ERROR"))
  /\ crashes' = crashes + 1
  /\ UNCHANGED <<rows, cookie, req, locals, now>>

Tick == now < MaxTime /\ now' = now + 1
        /\ UNCHANGED <<rows, cookie, req, pc, locals, reply, crashes>>

AllDone == (\A r \in Requests : pc[r] = "done") /\ UNCHANGED vars

Next == \/ \E r \in Requests : Send(r) \/ Handle(r) \/ Receive(r) \/ Crash(r)
        \/ Tick \/ AllDone

Spec == Init /\ [][Next]_vars

-----------------------------------------------------------------------------
(* Properties *)

\* Two registrations of one address, however it is typed: the one that is told
\* 201 has the row, one that is refused was refused because of another.
RegistrationAnswers ==
  \A r \in Requests :
    pc[r] = "done" /\ req[r].op = "register" =>
      /\ reply[r].code = "OK" => users[Address(r)] = r
      /\ reply[r].code = "EMAIL_ALREADY_REGISTERED" => users[Address(r)] \notin {None, r}

\* Somebody with the password of user u has logged in with session s.
LoggedIn(u, s) ==
  \E l \in Requests :
    /\ req[l].op = "login" /\ users[Address(l)] = u
    /\ req[l].password = req[u].password
    /\ l = s \/ token[l] = s

\* A session acts for a user only after a login of that user with it, whatever
\* logins, logouts, retries and failures overlap.
SessionActsFor ==
  /\ \A s \in created : sessions[s].user # None => LoggedIn(sessions[s].user, s)
  /\ \A r \in Requests : req[r].op = "me" /\ reply[r].user # None =>
                           LoggedIn(reply[r].user, token[r])

\* After an acknowledged logout the session is never active again.
LogoutIsFinal ==
  \A r \in Requests :
    pc[r] = "done" /\ req[r].op = "logout" /\ reply[r].code = "OK" =>
      ~ Active(token[r])

\* The step in which a login succeeds leaves its session active and linked to
\* the user who logged in.
LoginLinks ==
  [][\A r \in Requests :
       req[r].op = "login" /\ reply[r].code # "OK" /\ reply'[r].code = "OK" =>
         LET s == reply'[r].session
         IN s \in created' /\ sessions'[s].user = reply'[r].user
              /\ now < sessions'[s].expires]_vars

-----------------------------------------------------------------------------
(* The inductive invariant behind RegistrationAnswers and SessionActsFor *)

\* A request runs its own handler, with the cookie it was sent with.
HandlerMatches ==
  \A r \in Requests :
    /\ pc[r] \in {"register", "r_insert"} => req[r].op = "register"
    /\ pc[r] \in {"login", "l_verify", "l_session", "l_create", "l_link"} =>
         req[r].op = "login"
    /\ pc[r] \in {"anonymous", "me", "logout"} => req[r].op = pc[r]
    /\ pc[r] = "o_write" => req[r].op = "logout"
    /\ pc[r] = "new" => token[r] = None
    /\ pc[r] \in {"o_write", "l_link"} => token[r] \in created
    /\ req[r].op = "me" /\ reply[r].user # None => token[r] \in created

\* The holder of an address registered it and was answered, or died after that.
HoldersRegistered ==
  \A a \in Addresses :
    users[a] # None => /\ req[users[a]].op = "register"
                       /\ Address(users[a]) = a
                       /\ pc[users[a]] \in {"answer", "done"}

\* What a registration is about to be told agrees with the table already.
RegistrationReplies ==
  \A r \in Requests :
    pc[r] \in {"answer", "done"} /\ req[r].op = "register" =>
      /\ reply[r].code = "OK" => users[Address(r)] = r
      /\ reply[r].code = "EMAIL_ALREADY_REGISTERED" => users[Address(r)] \notin {None, r}

\* A login goes on with the holder of its address, and past the verification
\* only with that holder's password.
LoginsVerified ==
  \A r \in Requests :
    /\ pc[r] \in {"l_verify", "l_session", "l_create", "l_link"} =>
         account[r] # None /\ account[r] = users[Address(r)]
    /\ pc[r] \in {"l_session", "l_create", "l_link"} =>
         req[account[r]].password = req[r].password

SessionInv ==
  /\ TypeOK /\ HandlerMatches /\ HoldersRegistered /\ RegistrationReplies
  /\ LoginsVerified /\ SessionActsFor
=============================================================================
