# A TLA+ model of the ticket reservation service

The repository is a FastAPI service over PostgreSQL that reserves tickets by
quantity and seats by id, for a limited time, with an expiration worker that
gives back what is not confirmed. Its point is concurrency: no oversell, no seat
twice, retries that do not reserve twice. Around that core stand anonymous
sessions and logins, which decide whose a reservation is, and a stress administration
that seeds and deletes whole events. This directory models them as TLA+ modules, checks
them with TLC on small instances and proves with TLAPS, for all instances, nearly every safety
property the runs check: stock, seats, keys and finality of reservations, the refinement of
an abstract box office, the pool, the inventory and the audit, the catalogue's references,
batches and resets, the sessions, and whose a reservation is.

Paths below are relative to the repository's `src/app/`.

## 1. Inventory

| component | state | operations | correct when |
|---|---|---|---|
| Reservation tables, `modules/reservations/models.py`, `repository.py` | `reservations`, `reservation_items`, `reservation_seats`; row locks; two unique indexes | guarded UPDATEs, `FOR UPDATE` and `SKIP LOCKED` selects, inserts | parent and children agree; at most one active hold per seat; one reservation per (session, key) |
| Inventory rows, `modules/events/models.py` | `ticket_types.reserved_quantity`, `sold_quantity`; `seats` (only their locks matter) | changed by the repository's UPDATEs | `sold + reserved <= total`; the counters are the sums over the items |
| `QuantityReservationService` | none of its own | `reserve`, `_resolve_conflict_or_replay` | success means exactly one committed reservation with this key; failure leaves nothing |
| `SeatReservationService` | none of its own | `reserve`, `_resolve_conflict_or_replay` | the same, and stale holds in the way are expired, fresh ones never |
| `ReservationLifecycleService` | none of its own | `get`, `cancel`, `confirm`, `expire_batch` | a reservation leaves `reserved` once; acknowledged outcomes are final |
| Expiration worker, `workers/expiration.py` | the loop; any number of processes | a batch every few seconds | every overdue reservation is released, once |
| Reservation router and schemas | none | maps payloads to handlers, exceptions to error codes | the code says what happened |
| Visitor sessions, `modules/sessions/` | `visitor_sessions` (token hash, user, deadline) | `create`, `get_active`, `link_user`, `invalidate` | an invalidated session stays invalid; a request acts for who it authenticated |
| Users, `modules/users/` | `users` | `register`, `login`, `logout` | one user per address; logout wins over an earlier login |
| Event catalogue, `modules/events/` | `events`, `ticket_types`, `seats`; foreign keys, unique positions | `create_event`, `create_ticket_type`, `create_seats`, the inventory | a batch of seats is all or nothing; what is sold is not offered again |
| Stress administration, `modules/stress_admin/` | seeded events | `seed`, `reset`, consistency audits | an audit fails over nothing but overdue reservations that can only expire; a reset takes whole seeded events and nothing else |
| Database engine, `db/session.py` | connection pool | a session per request or batch | a session that ends gives back its locks and its connection |
| Application shell, `core/`, `main.py`, `db/redis.py` | none that matters | error envelopes, request ids, logging, health | - |

How they interact: a request authenticates (one read of `visitor_sessions`), then
its service runs a few SQL statements in one transaction on one session. Services
never call each other; they meet in the database, in row locks and unique
indexes and, since the stress administration deletes rows, foreign keys. The worker runs `expire_batch` of the lifecycle service in a process of
its own. There are no messages and no callbacks.

What is hard:

- *Interleaving.* Between any two statements of a handler any other may run.
  Cancel, confirm, the worker and a seat request that sweeps stale holds all take
  a reservation out of `reserved`.
- *Blocked statements see newer data.* A guarded UPDATE chooses its row in a
  snapshot, waits for the lock and then evaluates its WHERE clause again.
- *Retries.* Two submissions with one idempotency key may pass the lookup together.
- *Failure.* A process or connection dies between two statements; PostgreSQL fails
  a deadlocked statement; one row of a batch is inconsistent.
- *Time.* The deadline is compared with `<` in two places and `<=` in a third.
- *Lock order.* Seats, stale parents, unique-index waits and stock rows are taken in
  different orders by different handlers; a reset deletes children before parents and
  events before stock, every other handler the other way round.
- *Stale identity.* The session a request acts with is read once, before its first
  statement; logins, logouts and deadlines that follow are not seen.
- *A bounded pool.* A request keeps its connection while it waits for row locks.
- *Rows that disappear.* A reset may delete an event that somebody has just looked up.

`PROJECT.json` lists every hazard at its line with the properties about it.

## 2. Modules

| module | what it is |
|---|---|
| `ReservationStore` | constants, payloads, tables, transactions, repository helpers, the type invariant |
| `QuantityReservationService` | `reserve` of tickets, one action per statement |
| `SeatReservationService` | `reserve` of seats, one action per statement or row lock |
| `ReservationLifecycleService` | `get`, `cancel`, `confirm`, `expire_batch` and the transitions they share |
| `ReservationSystem` | the composition: requests, workers, clock, crashes, deadlock detector; all properties; the inductive invariants of the stock and of the rows |
| `BoxOffice` | the abstract specification: a book of reservations, one step per committed transaction, no locks or keys in flight |
| `VisitorSessions` | anonymous sessions, registration, login, logout, the session a request authenticates with, and the browsers' cookies |
| `ConnectionPool` | `ReservationSystem` with a pool of connections, its queue and its time-out |
| `InventoryReports` | `ReservationSystem` with the public inventory, and with the consistency audit, both statement by statement |
| `VisitorReservations` | `ReservationSystem` composed with `VisitorSessions`: browsers that log in and out send the reservation requests |
| `EventCatalogue` | rows that come and go: events, ticket types, seats and reservations under creation, seed and reset, with foreign keys and row locks |
| `MCReservation`, `MCWorkers`, `MCReports`, `MCPool`, `MCSessions`, `MCVisitors`, `MCCatalogue` | workloads and initial states for TLC |
| `ReservationSystem_proofs` | proof of the type invariant, that stock adds up and that it is never oversold |
| `ReservationRows_proofs` | proof of the row invariant: no seat twice, children follow their parent, one row per key |
| `ReservationAnswers_proofs` | what is answered stays true, settled reservations are final, expiry is never early, and the services implement `BoxOffice` |
| `ReservationLocks_proofs` | proof that a row lock never stays behind on a connection that goes back, and that only workers can close a cycle of lock waits |
| `InventoryReports_proofs` | proof that the inventory never offers again what is sold, and that an audit blames only reservations that are lost |
| `EventCatalogue_proofs` | proof that the references and positions of the catalogue hold, that batches of seats are whole, and that resets take whole events |
| `VisitorSessions_proofs` | proof that an address has one account, that sessions act for logins only, and of logouts and logins of browsers that wait |
| `VisitorReservations_proofs` | proof that reservations are booked for, settled by and found by whom they should be, and that stock, seats and children stay right in the composition |

### State

A process is a request or a worker. `pc[p]` names the statement it runs next,
`todo[p]` the rows it has still to lock or write, `goal`, `stamp` and `reply` the
target status, the computed `expires_at` and the HTTP answer.

Each table has a committed version (`tickets`, `resv`), a version written by the
transaction that has the row locked (`ticketsW`, `resvW`) and the lock
(`ticketLock`, `resvLock`, `seatLock`). A statement of p reads the committed version
of rows p has not locked. `Commit` publishes the written versions of the rows p has
locked, `Rollback` forgets them, both unlock.

Reservation r is the one request r creates, so its immutable columns (owner, key,
event, ticket type, quantity, seats) are read from `req[r]`. `resv[r]` keeps the
mutable ones: `status`, `expires`, the status of the item row and that of the hold
on each seat. `reservation_seats.expires_at` is always its parent's and is not
kept twice. Request numbers and seat numbers stand for uuids and give the order
of `ORDER BY id`; the workloads therefore also fix that order.

`VisitorSessions` is a specification of its own. Users are named by the registration
that inserted them, sessions by the request that created them; `token[r]` is the session
whose cookie request r was sent with, `seen[r]` the `user_id` it has read, `account[r]` the
user its login has found. The browser is part of the model, since the cookie is state:
`Send` captures it, `Receive` sets or deletes it when the answer arrives, and `InFlight[b]`
bounds the requests browser b has under way.

`VisitorReservations` instantiates `VisitorSessions` with the union of both kinds of
requests. A reservation request is a `me` there: `Authenticate` reads the session, writes
the owner into the payload (`req[r].by`, a constant elsewhere) and lets the handler run,
and `RequestReceive` delivers its answer. `who[b]`, `alone` and `as[r]` are not state of the
program: `who[b]` is what the browser may conclude from the answers it got, `as[r]` what that
was when r was authenticated. `alone` has the logins, logouts and requests for a session that
no other of the same browser has overlapped; only from the answer to one of those does a
browser conclude anything (`Told`), otherwise `who[b]` is `Unsure`. The attempt to prove
`BooksForWhoLoggedIn` showed that it must: with a weaker `Told`, which asked only that nothing
was under way when the answer came, two overlapping logins to two accounts refute it, since
the login that links the session last need not be the one that is answered last.

`ConnectionPool` adds the set `conn` of requests with a connection. Every step of
`ReservationSystem` is conjoined with `GiveBack`: a connection comes back with the
statement that ends its transaction, and a request that goes on after a rollback
(`q_resolve`, `s_resolve`) queues again. `InventoryReports` adds a reader: an
inventory request, of which `report` is what it has read so far, or an audit, of which
`audit` has the next statement, the clock it compares deadlines with, and the lists that were
not empty. `sold` and `inHand` are not state of the program: they record what was confirmed
when the inventory was asked for, and which reservations a cancel or confirm had found in
time, and not yet committed, when the audit's last query looked.

In `EventCatalogue` a row is `<<c, kind>>`, the row of that kind inserted by call c, and
says nothing beyond its references, since only existence, references and locks matter to
creation and reset. `live` is the set of committed rows; `inserted`, `locked` and `shared`
belong to open transactions: rows inserted, rows locked (those of a reset are deleted),
and the event locked against deletion by a foreign-key check. `todo` is the order in
which a statement meets its rows.

### Actions and code

| actions | code |
|---|---|
| `QuantityLookup`, `QuantityStock`, `QuantityNoStock`, `QuantityInsert`, `QuantityCommit`, `QuantityResolve` | `QuantityReservationService.reserve`, service.py 82-157, and 159-177 |
| `SeatsLookup`, `SeatsLock`, `SeatsMissing` | `SeatReservationService.reserve` 224-247, `lock_event_seats` |
| `SeatsStale`, `SeatsLockParent`, `SeatsExpire` | 249-257, `expire_reservations_for_seats` |
| `SeatsInsert`, `SeatsHold`, `SeatsCommit`, `SeatsResolve` | 259-301 and 303-321 |
| `NotFound`, `LifecycleSettled`, `LifecycleLock` (with `Aim`), `LifecycleMove`, `LifecycleConflict`, `LifecycleCommit` | `cancel`, `confirm` 362-480, `_lock_owned`, `_transition_*` |
| `GetParent`, `GetChildren` | `get` 340-360, `_to_detail_response` |
| `WorkerIdle`, `WorkerLock`, `WorkerMove`, `WorkerCommit` | `expire_batch` 482-527, `run_expiration_worker` |
| `RegisterLookup`, `RegisterInsert` | `AuthService.register`, users/service.py 38-62 |
| `LoginLookup`, `LoginVerify`, `LoginSession`, `LoginCreate`, `LoginLink` | `AuthService.login` 64-119, `get_active`, `create`, `link_user` |
| `LogoutRead`, `LogoutWrite` | `logout` in users/router.py, `invalidate` |
| `CreateAnonymous`, `ReadCurrent` | sessions/router.py, `get_current_session` |
| `Checkout`, `PoolTimeout`, `GiveBack` | the engine and its pool, db/session.py 16-43 |
| `InventoryEvent`, `InventoryTickets`, `InventorySeats` | the inventory route and its two list queries, events/ |
| `AuditBegin`, `AuditQuery`, `AuditStale`, `AuditOk` | `assert_consistency`, stress_admin/service.py 114-217: the clock, its first five queries, that of stale reservations, and `ok` |
| `NegativeTickets`, `OversoldTickets`, `DuplicateActiveSeats`, `OrphanItems`, `OrphanSeats`, `StaleReservations` | those queries, stress_admin/repository.py |
| `Authenticate`, `AuthenticatedServe` | `get_current_session` before each reservation route |
| `CreateEvent`, `FindEvent`, `InsertSeat`, `CheckEvent`, `CommitCall`, `Refresh` | `EventService`, events/service.py, and events/repository.py |
| `Seed`, `Count`, `StartDelete`, `DeleteRow`, `FinishReset` | `StressAdminService.seed` and `reset`, stress_admin/repository.py |
| `LockStock`, `LockParent`, `LockNext` | the locks of `reserve`, `cancel` and `confirm` that a reset meets |
| `Crash`, `DeadlockVictim` | a session that ends without a commit; PostgreSQL's deadlock detector |

How a statement that waits is modelled: its action is enabled only when the lock is
free, and evaluates its condition on the version current at that moment. A guarded
UPDATE whose condition fails in the snapshot returns no row without waiting
(`QuantityNoStock`, `InventoryConflict`). An insert waits for an open transaction
that has inserted the same unique key (`KeyPending`, `HoldInFlux`).

A statement is one atomic step, except the two selects that lock several rows in
order, which take one lock per step. The worker's `SKIP LOCKED` select never waits
and is one step. The clock read at service.py:249 and the select of stale holds that
follows are one step: the clock read later finds every hold the earlier read finds.
Foreign-key checks take `FOR KEY SHARE` locks, which conflict with none of the
updates of these services (no key column changes and nothing is deleted), so
`ReservationSystem` leaves them out. They matter as soon as a reset deletes events, and
are part of `EventCatalogue`.

In `EventCatalogue` a DELETE meets its rows in any order (`Orders`), takes one lock per
step and passes over a row that somebody else has deleted. The cascades of a delete follow
it as statements of their own, and the RESTRICT checks of the three deletes are merged into
one step before the commit (`FinishReset`): whatever they find makes the reset fail, and
what they wait for is locked by others until then in any case. The insert of
a reservation's children is merged with that of its header, since both refer to rows its
transaction has locked or inserted. Stock is always found, and a cancel or confirm always
in time: the guards on quantities and deadlines are those of `ReservationSystem`. A `settle`
also stands for the worker's expiration of one reservation, which takes the same locks.

In `VisitorSessions` an INSERT or UPDATE and the COMMIT that follows at once are one
step: the row is invisible or locked in between. An UPDATE writes the columns that differ
from what the ORM has read (`WrittenUser`); the reread after a commit changes nothing.

## 3. Properties

Invariants of `ReservationSystem`:

- `StockAccounting`: the counters equal the quantities of the reserved and the
  confirmed items. Broken by a unit released twice, lost on a rollback or sold
  without being released.
- `NeverOversold`: `sold + reserved <= total` in committed and uncommitted rows: the
  guards alone prevent overselling.
- `NoDoubleSeat`: at most one active hold per seat, committed or written.
- `ParentChildAgreement`: header and children always have one status, and the
  children are those asked for.
- `IdempotentReplies`: success names the only committed reservation of that session
  and key, of the same type.
- `AcknowledgedIsDurable`: an acknowledged cancel or confirm stays done.
- `GetIsCoherent`: what a two-statement read may return. It may return a `reserved`
  header with settled children; the reverse, or mixed children, never.
- `NoWaitCycle`, `WorkersNeverDeadlock`: no cycle of lock waits, for a workload without the
  cycles that the code allows: two workers (finding 2), or one key for two different
  reservations (`liveness`, and section 6).
- `UnavailableMeansHeld`: the meaning the router gives `SEAT_UNAVAILABLE`.

`StockInv` and `RowInv`, the inductive invariants of the proofs (section 6), are checked too,
in `reserve`.

Action properties: `SettledIsFinal` (a settled reservation never changes again),
`NoEarlyExpiry` (only an overdue reservation expires, whoever expires it).

Refinement: `ImplementsBoxOffice`. `BoxOffice` knows only status and deadline of
each reservation; reserving needs room (counting *active* reservations, with overdue
ones swept in the same step), an unused key, and settling needs an owner and the
status `reserved`. The mapping reads the committed rows.

Liveness: `SoundEventuallyReleased` (whatever is overdue is released, if its children are
intact), `EveryRequestAnswered`.

`VisitorSessions`: `RegistrationAnswers` (who is told 201 has the address, however many
registrations race), `SessionActsFor` (a session acts for a user only after a login of that
user with it), `LogoutIsFinal` (after an acknowledged logout the session is not active
again; checked for a browser that waits for each answer, and refuted by finding 4 for one
that does not), `LoginLinks` (a successful login leaves its session active and linked; checked
for a browser that waits, too, and false for one that does not, see finding 4). For a browser
that waits these two are about the deadline of a session and the effect of one request, not
about overlapping requests of one browser.

`VisitorReservations`:

- `BooksForWhoLoggedIn`: a browser that was told of a login, and has sent nothing that
  changes its session since, books for that user, whatever other browsers and the clock do.
- `SettledByItsVisitor`: a reservation is settled only with its own session, or for a user
  who has logged in with that session and with the one that settles it. Two anonymous
  sessions never count as one owner.
- `VisitorsFindTheirs`: what was booked after a login is found after another login of that
  user, from another session or browser.

`InventoryReports`: `InventoryShowsSales` (an answer put together from two snapshots never
offers again what was sold when it was asked for, nor a negative quantity),
`SeatsListedOnce` (the outer join finds at most one active hold), `AuditBlamesTheLost` (an
audit of a database in use fails over nothing but reservations that are overdue for longer
than the tolerance, and each of those can only expire, unless a cancel or confirm had found it
in time and had still to commit). That an audit fails while the worker is late is right; that
what it lists could still be sold would not be. That the worker comes in the end is
`SoundEventuallyReleased`.

`ConnectionPool`: `LocksHaveConnections` (whoever holds a row lock has a connection, so
nobody queues for a connection while others wait for his locks), and with it
`EveryRequestAnswered` although there are fewer connections than requests.

`EventCatalogue`: `ReferencesHold` (no committed row refers to a deleted one; no two seats
in one place), `SeatBatchesWhole` (a batch is created, refused and deleted as a whole, and
the answer says which), `ResetsTakeWholeEvents` (a row disappears only with its event, only
seeded events do, and an acknowledged reset has removed every event it counted),
`EveryCallAnswered` (the deadlocks of resets and of batches of seats end), and
`ConflictMeansExists`, what the documented 409 says.

## 4. Runs

| run | result | states | question |
|---|---|---|---|
| `reserve` | pass | 246,715 | two submissions with one key (also with another quantity), another visitor, overlapping seat sets, retries, a seat of another event, tickets beside seats with one key or two, confirm, cancel, read, the worker and a crash: the inductive invariants of stock and rows, no seat twice, one reservation per key, no deadlock, the box office implemented |
| `lifecycle` | pass | 801,204 | cancel (by the session, by a stranger, by the user from another session) against confirm, read or competitor, and worker, while the inventory is read or an audit is run |
| `two_workers` | pass | 4,308 | two workers whose batches deadlock, with an inconsistent row, a confirm, a cancel and a crash: stock stays right, every sound overdue reservation is released, none twice |
| `liveness` | pass | 20,795 | releases and answers under fairness with one or two connections, time-outs of the pool and a crash; an inconsistent row is skipped and the others are released; the cycle of three (worker, ticket request, seat request with one key) ends |
| `sessions` | pass | 820,982 | a browser that waits for each answer, and two that overlap requests: one account per address, no session acts for a user without a login, logins link, the logouts of the former are final |
| `visitors` | pass | 2,192,232 | browsers log in to two accounts and out while they book and settle, with expiring sessions and a crash |
| `catalogue` | pass | 10,281 | resets against reservations made and settled, another reset, a seed, new events, ticket types and seats; two batches of seats against each other |
| `shared_key` | violation | | see finding 1 |
| `two_workers_deadlock` | violation | | see finding 2 |
| `poisoned_batch` | violation | | see finding 3 |
| `logout_overtaken` | violation | | see finding 4 |
| `late_seats` | violation | | see finding 5 |

### Bounds

Reservations: three to five requests, one or two workers, up to three seats and one seat of
another event, one or two ticket types with two tickets, quantities up to two, TTL of
one tick, three ticks, one crash. They are enough for the cases that matter: two
requests race and a third retries, settles or reads; stock runs out and comes back; a
reservation is younger than, at, and past its deadline, and there is time to reserve
again and expire again (`MaxTime` = 3); seat sets overlap pairwise, so locks chain;
two workers with batches of two lock two ticket types in both orders. Each workload
names the requests, not their order: TLC interleaves them freely, so the second
reserve of a workload may run first. `MaxTime`, `MaxCrashes` and `MaxTimeouts` bound the
clock and the failures; `MaxQuantity` the payloads.

An audit tolerates one tick in `lifecycle`, so that a reservation within the tolerance and one
beyond it both occur within three ticks; it is asked for at the second tick or later
(`AuditFrom`), since nothing is stale before. `Audited` names the workloads beside which there
is an audit: a user settles from another session, with a confirm, a competitor and the worker,
where every way out of `reserved` races. The other ten have an inventory request; the two are
not run beside each other, since neither writes or locks. The audit is that of the
whole database (`event_ids` absent), and its `LIMIT`s cannot empty a list.

The pool has one connection for two requests, except in the workload of the cycle of three,
which needs two requests under way. The session runs have five requests of one or two
browsers, so that a registration, two logins, a logout and a read can all happen, in
every order; a session lives one tick of two. In `visitors` two reservation requests and
three others of two browsers are under way, with two accounts registered before. In
`catalogue` three calls run against a seeded event with one seat and one reservation, made
before, beside an ordinary event that must stay untouched: a reset with two others is what
a cycle of locks, a count that is out of date or a row that slips in between needs. No
symmetry is used, since ids are ordered. Deadlock is checked in every run: a finished
system may only stutter (`AllAnswered`, and its like in the other modules).

Every property has a mutant: a plausible bug (a missing `FOR UPDATE`, a missing
`ORDER BY`, a guard that forgets `reserved`, one of two UPDATEs dropped, an owner check
dropped, no savepoint...) written next to the definition it replaces and named in
`PROJECT.json`; with it TLC finds the property violated.

### Fairness

Weak fairness of each worker's loop: it goes on when no lock stops it (`while True`,
exceptions caught). Weak fairness of the deadlock detector, which fires after
`deadlock_timeout`, and of the clock. Strong fairness of each request's next statement: a
request that waits for a row is queued by PostgreSQL, and gets the row when it is free
again and again. Only a worker that selects one inconsistent row batch after batch makes
the difference from weak fairness, and it sleeps between batches
(`expiration_worker_interval_seconds`). Crashes are not fair. That a lock is released at
all is not assumed: it is what `EveryRequestAnswered` checks.
The pool's queue is first in, first out, so a request that waits gets one of the connections
that come back (strong fairness of `Checkout`); nothing assumes that a request times out.
Calls of the catalogue are weakly fair one by one: each finds every lock it needs released
in the end, for good, because every other call ends, and the detector ends cycles.
`VisitorSessions` and `VisitorReservations` state no fairness; they have no liveness
property.
`two_workers` adds the same of the second row of a worker's batch (`QueuedFairness`): a worker
that waits there is queued before the deadlock's victim can come back, and without the
queue the two would collide for ever.

## 5. Findings

1. *A reused key is reported as a taken seat* (`shared_key`). Keys are unique per
   session across both kinds of reservation, lookups are per kind. A seat request whose
   key was used for tickets fails in the unique index, finds nothing to replay and
   answers `SEAT_UNAVAILABLE`, although no seat is held (service.py:288 against
   router.py:114). In the other order it is `INSUFFICIENT_STOCK`.
2. *Two workers can deadlock* (`two_workers_deadlock`). `SKIP LOCKED` separates the
   reservations, not the stock rows a batch updates one after the other
   (service.py:508 against workers/expiration.py:31). The victim's whole batch is
   rolled back and done by a later one; stock stays right.
3. *A batch full of inconsistent rows starves the rest* (`poisoned_batch`). Skipped rows
   stay reserved and overdue, and are the oldest of the next batch again
   (repository.py:115 against service.py:511).
4. *A logout can be undone* (`logout_overtaken`). A login that has found the session active
   extends it after a logout has invalidated it (users/service.py:96 against
   `tests/integration/test_sessions_auth.py:112`). With one request at a time per browser
   it cannot happen (`sessions`).
   When the session belonged to the user already, the login does not write the `user_id`
   it has read, and extends a session that is linked to nobody: `LoginLinks` is violated
   then, too.
5. *A seat is reported to exist in an event that does not* (`late_seats`). `create_seats`
   takes every IntegrityError for a taken position, also that of the foreign key when a
   reset has deleted the event since it was looked up (events/service.py:95 against
   events/router.py:105). Nothing is left behind (`ReferencesHold`); only the answer is wrong.

## 6. Proofs

All theorems about reservations are for arbitrary constants that satisfy
`StoreAssumption` (finite sets of requests and seats numbered by naturals, workers that
are not requests, natural bounds, workloads that are payloads), those about sessions for
constants that satisfy `SessionAssumption` (numbered requests, a normal form for every
address, a positive time to live), those about the catalogue for constants that satisfy
`CatalogueAssumption` (finite sets of calls and positions, workloads that are payloads), and
the pool's in addition for any sizes that satisfy `PoolAssumption`, those about reports for any
tolerance (`ReportAssumption`). Those about visitors
need `VisitorsAssumption` (visits are numbered apart from reservation requests, which are
`me` requests among the sessions' workloads) beside `StoreAssumption`, and use the theorems
about sessions as an instance, whose assumption they discharge (`VisitsAssumed`). TLC evaluates these
assumptions in every run of their modules.

| theorem | says |
|---|---|
| `TypeInvariant`, `TypeCorrect` | `Spec => [](TypeOK /\ HandlerMatches)`, `Spec => []TypeOK` |
| `StockInvariant` | `Spec => []StockInv` |
| `StockAddsUp` | `Spec => []StockAccounting` |
| `NoOversell` | `Spec => []NeverOversold` |
| `RowInvariant` | `Spec => [](Inv /\ RowInv)`, where `Inv` is types and `StockInv` |
| `SeatsHeldOnce` | `Spec => []NoDoubleSeat` |
| `ChildrenFollowParents` | `Spec => []ParentChildAgreement` |
| `AnswerInvariant` | `Spec => []AnswerInv` |
| `OneReservationPerKey` | `Spec => []IdempotentReplies` |
| `AcknowledgedStays` | `Spec => []AcknowledgedIsDurable` |
| `GetShowsOneStatus` | `Spec => []GetIsCoherent` |
| `SettledReservationsAreFinal` | `Spec => SettledIsFinal` |
| `ExpiryIsNeverEarly` | `Spec => NoEarlyExpiry` |
| `ServicesImplementBoxOffice` | `Spec => ImplementsBoxOffice` |
| `OnlyWorkersDeadlock` | `RetriesAskAgain /\ Spec => [](WorkersNeverDeadlock => NoWaitCycle)` |
| `OneWorkerNoDeadlock` | `OneWorker /\ RetriesAskAgain /\ Spec => []NoWaitCycle` |
| `LocksKeepConnections` | `PooledStart /\ [][PooledNext]_pooledVars => []LocksHaveConnections` |
| `AuditInvariant` | `ReportedSpec => []AuditInv` |
| `AuditsBlameTheLost` | `ReportedSpec => []AuditBlamesTheLost` |
| `ReportInvariant` | `ReportedSpec => []ReportInv` |
| `InventoryNeverResells` | `ReportedSpec => []InventoryShowsSales` |
| `InventoryListsSeatsOnce` | `ReportedSpec => []SeatsListedOnce` |
| `ReferencesAlwaysHold` | `ReferencesHold /\ Spec => []ReferencesHold` of `EventCatalogue` |
| `BatchesStayWhole` | `ReferencesHold /\ Spec => []SeatBatchesWhole` of `EventCatalogue` |
| `ResetsAreWhole` | `ReferencesHold /\ Spec => ResetsTakeWholeEvents` of `EventCatalogue` |
| `SessionInvariant`, `SessionTypes` | `Spec => []SessionInv`, `Spec => []TypeOK` of `VisitorSessions` |
| `OneAccountPerAddress` | `Spec => []RegistrationAnswers` |
| `SessionsActForLogins` | `Spec => []SessionActsFor` |
| `PatientLogoutsAreFinal` | `PatientWith("logout") /\ Spec => []LogoutIsFinal` |
| `PatientLoginsLink` | `PatientWith("login") /\ Spec => LoginLinks` |
| `VisitorsInvariant` | `VisitorsBehave => []VisitorInv` |
| `BooksForTheLogin` | `VisitorsBehave => []BooksForWhoLoggedIn` |
| `SettledByOwner` | `VisitorsBehave => []SettledByItsVisitor` |
| `LoginsFindTheirs` | `VisitorsBehave => VisitorsFindTheirs` |
| `VisitorsKeepTheBooks` | `VisitorsBehave => [](StockAccounting /\ NoDoubleSeat /\ ParentChildAgreement)` |

Five kinds of theorem have a hypothesis about the start. `RetriesAskAgain` is about the
payloads: two requests with one key of one session ask for the same kind of reservation, and
for seats in common when they ask for seats, as every client does that uses a key for a
retry (`OneWorker` is about the constants: there is at most one worker). `VisitorsBehave` is `VisitorsStart /\
[][VisitorsNext]_allVars`: empty tables, no session, and any accounts, each registered for its
address by a visit that is over; what `MCVisitors` starts from is such a state. `PooledStart` is any database at
rest (rows and counters of the right types, no transaction open) with an empty pool; what
`MCPool` starts from is such a state. In `EventCatalogue` the rows that are there at the
start are a parameter of the run; the theorem asks of them what it then says of every later
state, and the run's own rows satisfy it. `PatientWith(op)` says that the browsers which
send such a request wait for each answer (`InFlight[b] = 1`), as a browser with one tab does;
the others may overlap as they like. The `sessions` run has both kinds; finding 4 shows that
without it both properties are false.

### Types and stock

`TypeOK` is not inductive alone: that a counter stays natural after `MoveReserved` needs
the guard of the UPDATE and a payload with a quantity, hence `HandlerMatches` (a request
runs the handler of its payload).

`StockAccounting` speaks of committed rows only and is not inductive: a commit publishes
whatever was written. `StockInv` adds what makes every commit sound:

- `UnlockedIsCommitted`: a row nobody has locked has one version;
- `WorkAccounting`: the *written* versions add up as well, except for the units that a
  request between its stock UPDATE and its insert has counted already (`Uninserted`);
- `OneWriter`: whoever changed an item has its stock row locked too, so a commit
  publishes both or neither, and a rollback forgets both or neither;
- `NotYetInserted` and `LocksHeld`: a reservation that is inserted or moved is in the
  state the counting relies on. They are where the proof uses that cancel, confirm and
  the worker lock the parent before they look at it.

The proof has a lemma per kind of step (a frame step, a commit, a rollback, the stock
UPDATE, the insert, a transition), each of which keeps `StockInv`, then one lemma per
handler that sorts its actions into these kinds. Cardinalities are of sets of units, one
element per ticket, so that `OneItem` (an item that enters a status brings its quantity)
is a disjoint union. `NoOversell` needs no counting: each UPDATE is guarded, a commit or
rollback picks one of two sound versions, and a transition never raises
`sold + reserved`. It rests on types alone.

### Seats, children and keys

`RowInv` says what an uncommitted row may be, and why its writer may write it:

- `WrittenRows`: what is written differs from what is committed only if its transaction
  inserts it (`InsertedRows`) or moves it out of `reserved`, so a settled row has one version
  for good;
- `WrittenAgreement`: header and children agree in the written version too, short of the
  seats that a request has still to hold (`Owed`);
- `RowLocks`: everyone who has a reservation locked is entitled to it. A worker has selected it
  as overdue, a request has inserted it, a seat request has found it stale, or a cancel or
  confirm has found it `reserved`. `StaleParents` and `Intents` carry this from the statement
  that looked to the one that writes: what a handler has checked under the lock still holds;
- `KeysUnique`: one row, committed or not, per session and key;
- `HoldsApart`: a seat with a written active hold is actively held by another committed row
  only if the same transaction is about to release that row. Without it `NoDoubleSeat` is not
  inductive: a seat request expires the stale holder and inserts its own hold in one
  transaction, and a commit must publish both.

### Answers and finality

`OnlyCommits` is the lemma on which the rest of the reservations is built: a committed row
changes only by the commit of one of the four writers, to the version written by the
transaction that has it locked. With `RowInv` this gives `RowsAge` (a row once there stays,
a settled one does not change), `SettledIsFinal` and `NoEarlyExpiry`. `AnswerInv` says, of
each request that is answered OK, what its answer promises, and of a `get` between its two
statements that a header it has seen settled is settled still; an answer that was right stays
right because rows age, and one that is given is right because of the rows its handler
has locked.

The refinement maps the committed rows to the book of `BoxOffice`, and its clock to the
clock. Initial states map to the empty book; a `Tick` is the office's; the commit of a
`reserve` maps to the office's reserving step (`QuantityReserves`, `SeatsReserves`: room
is left because the written stock adds up and is not oversold, the key is unused by
`KeysUnique`, and what is swept on the way is overdue); the commit of a cancel or confirm to
its settling or, when it was late, to its expiry, that of a worker to the expiry of its
batch (`LifecycleSettles`, `WorkerExpires`); every other step publishes nothing and stutters
(`NextMaps`).

### Lock waits

`NoWaitCycle` says nothing of the states before a wait, so `WaitInv` records in what order
locks are taken: `LockPlaces` where each kind of lock may be held, `SeatsInOrder` and
`ParentsInOrder` that seats, then stale parents, are locked by increasing id and that no parent
is written before the last is locked, `SeatsSecured` that a seat request past its seats
has all of them locked, and exactly the stale parents, by the deadline it computed. TLC checked
it on the workloads of `reserve`, and on three more of overlapping seat sets, before it was
proved. A step need only keep its own process in order (`OwnStepKeeps`), since no step takes a
lock for somebody else or moves a row that somebody else has locked; a hold that appears is
of a request that had the seat locked (`NewHolds`).

`WaitsLeadOn` then says of every wait that it leads on in one order of the statements:

    q_stock, l_lock < s_lock < s_parents < s_holds < l_move < w_move < q_insert

and, from a statement to the same statement, to a higher seat id (`s_lock`), a higher parent
id (`s_parents`) or a later deadline (`s_holds`: who expires a hold that I wait for has seen
it overdue, and I had not). An insert of a header waits only for one that is about to commit.
`StuckAreWorkers` goes through the order backwards: nobody in a set of processes that wait for
each other is at the last statement, hence nobody at the one before, and at one statement
the ids or deadlines of finitely many requests cannot rise for ever (`NoEndlessRise`). What is
left is one worker at `w_move` that waits for another, which is finding 2.

Both hypotheses are needed. With two workers there is finding 2. With one key for tickets and
seats there is the cycle of three of `liveness`. With one key for two disjoint sets of seats
there is one of two: a stale reservation holds seats 1 and 2; A asks for 1, finds it stale
and expires it; B, with the same key, has asked for 2 a moment before the deadline, has
inserted its header and waits at its hold for A to commit, while A waits for B's key (TLC
finds this cycle too, on a workload of three seat requests). `deadlock_timeout` ends all
of them.

### Pool, inventory and audit

`ConnectionPool`'s invariant has no rows in it: each kind of lock is held only at the
labels between the statement that takes it and the end of the transaction (`LocksOf`), and
a request without a connection has no lock. The lemma per action shows that no way out of a
handler, a time-out, a crash or a deadlock included, leaves a lock with whoever gives his
connection back.

`InventoryReports` only adds steps that leave the variables of `ReservationSystem` alone
(`ReadersOnlyRead`), so its specification implies `Spec` and the theorems above carry over.
`ReportInv` says of the reader between its statements that what
was sold when it began is sold still, and that the counters it has read cover it.

Of the audit, the five queries that do not depend on time find nothing in any state
(`QueriesFindNothing`), because of `TypeOK`, `NeverOversold`, `NoDoubleSeat` and
`ParentChildAgreement`. The rest is about the sixth. `AuditInv` says of what it has listed that
it is overdue still (`ListedAreLost`: neither clock nor deadline goes back, `ClockGoesOn`,
`DeadlinesStay`), and of what nobody had in hand that it is reserved or expired and that nobody
is settling it now. This last part makes it inductive: a row can be settled only by a cancel or
confirm that has it locked (`WhoSettles`), and no cancel or confirm gets there any more, since
it compares the deadline with the clock after it has got the lock (`TooLateToSettle`, about
`Aim`). So the one way out of `reserved` that is left is to expire (`OnlyExpires`).

### The catalogue

`ReferencesHold` of committed rows needs to know what open transactions are about to do.
`CatalogueInv` adds that locked rows are live and have one holder (`OneHolder`), that an
event shared by a foreign-key check is nobody's to delete until the commit (`EventsShared`),
that a reservation about to be committed has its stock locked (`StockHeld`), that rows are
inserted by their own call and committed once (`RowsOfCalls`), that seats of open
transactions are at free positions (`PlacesApart`), and that a reset past the statement which
deletes a parent has locked, or has still in `todo`, every dependent row (`Cascades`). The
last is the heart of it: the RESTRICT checks of `FinishReset` let a reset commit only when
nothing that stays refers to what goes, and between its statements nobody can slip in a row,
since that would need the lock or the share that the reset has. TLC checked `CatalogueInv`
on the catalogue's workloads before it was proved.

`WholeInv` adds what batches and resets need, and was checked in the same way. Of a batch
(`BatchOf`): inserted and remaining seats are the batch until it is committed, and once
committed all its seats are there as long as their event is. Of a reset (`ResetOf`): what it
has locked or has still to delete belongs to seeded events; from `DELETE FROM events` on, it
includes the event of each such row and every event that was counted and is still there.
Three lemmas about a step of any call carry these over what the others do: `NothingReturns`
(a row whose call is past its commit comes back never, so a snapshot that is out of date
errs on one side only), `WholeEventsGo` (a row disappears with its event, in one step) and
`OneCommit` (what a step can publish at all). That a batch is deleted as a whole is then not
a fact about batches: its event goes, and `ReferencesHold` leaves no seat behind.

### Sessions

`RegistrationAnswers` speaks of finished requests and `SessionActsFor` of rows and
answers; neither says what a handler that is half done knows. `SessionInv` adds that:
`HoldersRegistered` (who holds an address has been answered, so a registration that is
refused did not lose to itself), `RegistrationReplies` (the answer agrees with the table
before it is delivered), `LoginsVerified` (a login goes on with the holder of its address,
after the verification only with that holder's password) and `HandlerMatches`. The proof
first shows what no step takes back (`Steady`: holders of addresses, rows of sessions,
cookies of requests that were sent, answers unless they are lost), from which a login with
a session stays one; then one lemma per part looks only at the statements that write it.
That a stale write keeps the column it has not changed (`WrittenUser`) is harmless here:
whichever of the two users remains had logged in with the session.

For browsers that wait, `WaitingInv` adds that a cookie, and the session a request was sent
with, is a session of that browser whose creator has been answered (`CookiesOwn`,
`AnswersOwn`), that one request at most is under way (`OneAtATime`), that after a logout
neither the cookie nor any request to come is of the old session (`LogoutsOver`), and that
a login about to link its session has read what the row still says (`LinksCurrent`). Since
sessions never change browsers, what other browsers do cannot reach the session.

### Visitors

`VisitorReservations` composes the two state machines, and its invariant is composed of
theirs. A step of a visit is one of `VisitorSessions` and leaves the tables alone; a step of
an authenticated handler is one of `ReservationSystem` and leaves the sessions alone. New is
`Authenticate`, which rewrites a payload, a constant in every theorem about
`ReservationSystem`. `RequestsInv` says why that is harmless: until it is authenticated, a
request has done nothing (`Idle`), so nothing any invariant says of it depends on its owner;
afterwards its owner is its session and a user who logged in with that session (`Acts`,
from `SessionActsFor`), and stays so. Hence `Inv` and `RowInv` are kept (`Rebooked`), and
`VisitorsKeepTheBooks` follows. `SettledOwned` says that whoever settled a reservation owned
it, from the row the handler had locked; with `Acts` of both requests this is
`SettledByItsVisitor`. `AloneInv` and `WhoInv` are about browsers: a session change that
nothing overlaps leaves the session as the answer says, and nothing of another browser
reaches the cookie or the session it names, so `who[b]` is right when a request is
authenticated with the browser's cookie, however late the request itself was sent.

### What is not proved

Checked by TLC only:

- liveness (`SoundEventuallyReleased`, `EveryRequestAnswered`, `EveryCallAnswered`): fairness
  and ENABLED are out of the prover's reach.

Every invariant and action property of the passing runs is stated by a theorem. Where that has a
hypothesis, the runs show what happens without it.

## 7. What is not modelled

- The application shell (`main.py`, `core/` but for `security.py`), redis, the load
  generators: no state the properties could be about. The tests are read as intent only.
- Migrations: the constraints they create are modelled (unique indexes, foreign keys with
  their delete rules, CHECK constraints as what `NeverOversold` shows to be redundant);
  running them is not.
- Resets beside the full reservation services: `EventCatalogue` keeps of a reservation its
  rows, references and locks. That a deleted reservation's stock goes with its ticket type,
  so that nothing is left to add up, is `ResetsTakeWholeEvents`.
- The number in a reset's answer. It is counted before the deletes and may be wrong when
  another reset or a seed comes in between; that what was counted is gone is checked.
- The worker in `VisitorReservations`: it looks at neither sessions nor owners.
- Pre-ping and recycling of connections; statement time-outs (none are configured).
- Field validation, HTTP, response formatting, logging.
- The answer lost after a commit: the client then retries with the same key, which is
  a second request of the workload; that the first one was answered plays no role.
- The width of integers: quantities beyond 32 bits fail in the statement, with no effect.
- `expire_batch`'s optional arguments, used by tests only.

## 8. Plan

Done: the reservation services and their composition, `BoxOffice`, `VisitorSessions`,
`ConnectionPool`, `InventoryReports`, `VisitorReservations` and `EventCatalogue`, with
their runs. Proved: types, stock, seats, children, keys, answers, finality, the refinement,
the pool's locks, the order of lock waits, the inventory and the audit, the catalogue's references, batches and
resets, sessions, and whom visitors book for.

Left: nothing of the plan. Liveness stays with TLC.
