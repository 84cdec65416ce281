------------------------ MODULE VisitorReservations -------------------------
(***************************************************************************)
(* Visitors who reserve: the reservation requests of ReservationSystem are *)
(* sent by the browsers of VisitorSessions, beside their logins and        *)
(* logouts.  A request is authenticated once, before its handler, in       *)
(* get_current_session: whom it books for, and what it may touch, is what  *)
(* the session row said at that moment.                                    *)
(***************************************************************************)
EXTENDS ReservationSystem

CONSTANTS
  Visits,           \* the requests to the session and user endpoints; they name users
  Browsers, Addresses, Passwords, Normal, SessionTTL, InFlight,
  VisitWorkloads,   \* who sends what; a reservation request is a "me" there
  Unsure

VARIABLES
  users, created, sessions, cookie, visit, at, token, account, seen, answer,
  who,      \* whom each browser has reason to think it acts for
  alone,    \* the logins, logouts and requests for a session nothing overlaps
  as        \* who[b] when each reservation request of b was authenticated

Visitor == INSTANCE VisitorSessions WITH
             Requests <- Requests \cup Visits, Workloads <- VisitWorkloads,
             req <- visit, pc <- at, reply <- answer

ASSUME VisitorsAssumption ==
  /\ Visits \subseteq Nat /\ Visits \cap Requests = {} /\ None \notin Visits
  /\ Requests \cup Visits \subseteq Sessions \cap Users
  /\ Normal \in [Addresses -> Addresses]
  /\ SessionTTL \in Nat \ {0} /\ InFlight \in [Browsers -> Nat \ {0}]
  /\ VisitWorkloads \subseteq
       [Requests \cup Visits -> Visitor!Anonymous \cup Visitor!Credentials]
  /\ \A load \in VisitWorkloads : \A r \in Requests : load[r].op = "me"

visitRows == <<users, created, sessions>>
browsers == <<cookie, who, alone>>
visits == <<visitRows, visit, at, token, account, seen, answer>>
reservationVars == <<tables, locals, req>>
allVars == <<vars, visits, browsers, as>>

-----------------------------------------------------------------------------
(* What a browser may conclude from the answers it gets *)

SessionChange == {"anonymous", "login", "logout"}

Changing(b) ==
  {v \in Visits : visit[v].by = b /\ visit[v].op \in SessionChange
                                  /\ at[v] \notin {"new", "done"}}

\* After a login nothing has overlapped it acts for that user, after such a
\* logout or with a new anonymous session for nobody.
Told(v) ==
  IF v \in alone /\ answer[v].code = "OK"
  THEN IF visit[v].op = "login" THEN answer[v].user ELSE None
  ELSE Unsure

AloneAfter(v) ==
  LET others == Changing(visit[v].by)
  IN IF visit[v].op \notin SessionChange THEN alone
     ELSE IF others = {} THEN alone \cup {v} ELSE alone \ others

VisitSend(v) ==
  /\ Visitor!Send(v)
  /\ who' = [who EXCEPT ![visit[v].by] = Unsure]
  /\ alone' = AloneAfter(v)

VisitReceive(v) ==
  /\ Visitor!Receive(v)
  /\ who' = [who EXCEPT ![visit[v].by] = Told(v)]
  /\ UNCHANGED alone

Visit(v) ==
  /\ \/ VisitSend(v) \/ VisitReceive(v)
     \/ Visitor!Handle(v) /\ UNCHANGED <<who, alone>>
  /\ UNCHANGED <<reservationVars, as>>

-----------------------------------------------------------------------------
(* Reservation requests *)

RequestSend(r) ==
  /\ Visitor!Send(r)
  /\ UNCHANGED <<reservationVars, who, alone, as>>

\* Mutant of BookedBy: the reservation is booked for the session only.
BookedByNobody(r) == [session |-> token[r], user |-> None]

BookedBy(r) == [session |-> token[r], user |-> sessions[token[r]].user]

\* get_current_session: without an active session the handler does not run.
Authenticate(r) ==
  /\ at[r] = "me"
  /\ Visitor!Handle(r)
  /\ \/ /\ answer'[r].code = "OK"
        /\ req' = [req EXCEPT ![r].by = BookedBy(r)]
        /\ as' = [as EXCEPT ![r] = IF token[r] = cookie[visit[r].by]
                                   THEN who[visit[r].by] ELSE Unsure]
        /\ UNCHANGED pc
     \/ /\ answer'[r].code = "SESSION_REQUIRED"
        /\ Goto(r, "done")
        /\ UNCHANGED <<req, as>>
  /\ UNCHANGED <<tables, todo, goal, stamp, reply, who, alone>>

\* The handler, once its request is authenticated.
AuthenticatedServe(r) ==
  /\ at[r] = "answer"
  /\ Serve(r)
  /\ UNCHANGED <<visits, browsers, as>>

RequestReceive(r) ==
  /\ pc[r] = "done"
  /\ Visitor!Receive(r)
  /\ UNCHANGED <<reservationVars, who, alone, as>>

\* A database with the accounts of some visits that are over.
StartWith(over, holders) ==
  /\ Init
  /\ visit \in VisitWorkloads
  /\ users = holders /\ created = {}
  /\ sessions = [s \in Requests \cup Visits |-> [user |-> None, expires |-> 0]]
  /\ cookie = [b \in Browsers |-> None]
  /\ at = [v \in Requests \cup Visits |-> IF v \in over THEN "done" ELSE "new"]
  /\ token = [v \in Requests \cup Visits |-> None]
  /\ account = token /\ seen = token
  /\ answer = [v \in Requests \cup Visits |-> Visitor!Answer("PENDING")]
  /\ who = [b \in Browsers |-> Unsure]
  /\ alone = {}
  /\ as = [r \in Requests |-> Unsure]

\* No worker runs here: it looks at neither sessions nor owners.
VisitorsNext ==
  \/ \E v \in Visits : Visit(v)
  \/ \E r \in Requests : \/ RequestSend(r) \/ Authenticate(r)
                         \/ AuthenticatedServe(r) \/ RequestReceive(r)
  \/ \E p \in Requests : at[p] = "answer" /\ Crash(p) /\ UNCHANGED <<visits, browsers, as>>
  \/ Tick /\ UNCHANGED <<visits, browsers, as>>
  \/ (\A v \in Requests \cup Visits : at[v] = "done") /\ UNCHANGED allVars

-----------------------------------------------------------------------------
(* Properties *)

\* A browser that was told of a login, and has sent no login, logout or request
\* for a session since, books for that user with the cookie it got; one that
\* was given an anonymous session books for nobody.  It overlaps requests as it
\* likes, other browsers and the clock do what they like.
BooksForWhoLoggedIn ==
  \A r \in Requests :
    as[r] # Unsure /\ resv[r].status # Absent => req[r].by.user = as[r]

\* A reservation is confirmed or cancelled only with the session it was booked
\* with, or for a user who has logged in with that session as well as with the
\* session of the request: two anonymous visitors are never the same visitor.
SettledByItsVisitor ==
  \A r \in Requests :
    reply[r].code = "OK" /\ req[r].op \in {"cancel", "confirm"} =>
      LET x == req[r].target
      IN \/ token[r] = token[x]
         \/ \E a \in Addresses : /\ users[a] # None
                                 /\ Visitor!LoggedIn(users[a], token[r])
                                 /\ Visitor!LoggedIn(users[a], token[x])

\* Who booked a reservation after a login finds it again after another login,
\* with another session or in another browser.
VisitorsFindTheirs ==
  [][\A r \in Requests :
       reply[r].code # "RESERVATION_NOT_FOUND"
         /\ reply'[r].code = "RESERVATION_NOT_FOUND" =>
       LET x == req[r].target
       IN \/ resv[x].status = Absent
          \/ token[r] # token[x] /\ (as[r] \in {None, Unsure} \/ as[r] # as[x])]_allVars
=============================================================================
