----------------------------- MODULE MCSessions ------------------------------
(***************************************************************************)
(* Small workloads for VisitorSessions: requests of one browser with one   *)
(* account, of one with two accounts, and of two browsers that register    *)
(* one address typed in two ways.  A browser sends them in any order.      *)
(***************************************************************************)
EXTENDS VisitorSessions

Plain(op, b) == [op |-> op, by |-> b]
With(op, b, a, w) == [op |-> op, by |-> b, address |-> a, password |-> w]

MCNormal == [a \in Addresses |-> IF a = "A@x" THEN "a@x" ELSE a]

\* Register, log in twice, log out and look; a second account of the browser.
OneBrowser ==
  {<<With("register", "b", "a@x", "w"), With("login", "b", "a@x", "w"), d, e, f>> :
     d \in {With("login", "b", "A@x", "w"), Plain("anonymous", "b")},
     e \in {Plain("logout", "b"), With("register", "b", "c@x", "v")},
     f \in {Plain("me", "b"), With("login", "b", "c@x", "v")}}

\* Two other browsers, one address, different passwords; they overlap requests.
TwoBrowsers ==
  {<<With("register", "c", "a@x", "w"), With("register", "d", "A@x", "v"),
     With("login", "c", "a@x", "w"), y, z>> :
     y \in {With("login", "d", "a@x", "v"), Plain("anonymous", "c")},
     z \in {Plain("me", "c"), With("login", "c", "A@x", "v")}}

SessionWorkloads == OneBrowser \cup TwoBrowsers

\* b waits for each answer, the others have two requests under way.
MCInFlight == [x \in Browsers |-> IF x = "b" THEN 1 ELSE 2]

\* The workloads of b, with two requests under way.
Overlapped == [x \in Browsers |-> 2]
=============================================================================
