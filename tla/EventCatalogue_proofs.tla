------------------------- MODULE EventCatalogue_proofs ------------------------
(***************************************************************************)
(* The foreign keys and the unique index of the catalogue hold while       *)
(* events are created, filled, reserved from and reset, for every set of   *)
(* calls, payloads and positions.                                          *)
(***************************************************************************)
EXTENDS EventCatalogue, FiniteSetTheorems, TLAPS

-----------------------------------------------------------------------------
(* The inductive invariant *)

Kinds == Positions \cup {"event", "ticket", "reservation", "child"}
Rows == Calls \X Kinds

ResetLabels == {"counted", "holds", "items", "reservations", "children", "events",
                "inventory", "check"}

\* The statements of each kind of call.
Labels(op) ==
  CASE op = "event" -> {"create", "refresh", "done"}
    [] op = "seed" -> {"seed", "done"}
    [] op = "ticket" -> {"find", "insert", "commit", "refresh", "done"}
    [] op = "seats" -> {"find", "seat", "insert", "commit", "refresh", "done"}
    [] op = "reserve" -> {"stock", "insert", "commit", "done"}
    [] op = "settle" -> {"parent", "counters", "child", "commit", "done"}
    [] op = "reset" -> {"count", "done"} \cup ResetLabels

\* What the statement of a call at a label has still to work through.
TodoKinds(label) ==
  CASE label = "seat" -> Positions
    [] label \in {"holds", "items"} -> {"child"}
    [] label = "reservations" -> {"reservation"}
    [] label \in {"children", "inventory"} -> {"child", "ticket"} \cup Positions
    [] label = "events" -> {"event"}
    [] OTHER -> {}

CallTypes ==
  /\ req \in Workloads
  /\ live \subseteq Rows
  /\ inserted \in [Calls -> SUBSET Rows]
  /\ locked \in [Calls -> SUBSET live]
  /\ shared \in [Calls -> Rows \cup {None}]
  /\ \A c \in Calls : pc[c] \in Labels(req[c].op)
  /\ pc = [c \in Calls |-> pc[c]]
  /\ todo \in [Calls -> Seq(Rows)]
  /\ \A c \in Calls : Range(todo[c]) \subseteq Calls \X TodoKinds(pc[c])

\* Rows are inserted by their call, in its transaction, and committed once.
Inserters == {"seat", "insert", "commit"}

RowsOfCalls ==
  /\ \A x \in live : x \in Own(x[1]) /\ pc[x[1]] \in {"refresh", "done"}
  /\ \A c \in Calls :
       /\ inserted[c] \subseteq Own(c)
       /\ req[c].op = "reserve" => inserted[c] \in {{}, Own(c)}
       /\ inserted[c] # {} => pc[c] \in Inserters
       /\ pc[c] = "seat" => todo[c] # <<>> /\ Range(todo[c]) \subseteq Own(c)

\* A call that is over, was over before the run, or only adds rows, locks nothing;
\* only resets lock events.
NothingHeld ==
  /\ \A c \in Before : pc[c] = "done"
  /\ \A c \in Calls :
       /\ pc[c] = "done" \/ req[c].op \notin {"reserve", "settle", "reset"} => locked[c] = {}
       /\ \A x \in locked[c] : x[2] = "event" => req[c].op = "reset"

\* A row is locked by one transaction.
OneHolder == \A c, d \in Calls : c # d => locked[c] \cap locked[d] = {}

\* The event a call inserts rows of.
EventNeeded(c) ==
  IF req[c].op = "reserve" THEN StockEvent(req[c].stock) ELSE EventRow(req[c].event)

\* It stays there and is nobody's to delete until the commit.
EventsShared ==
  \A c \in Calls :
    /\ shared[c] # None => pc[c] = "commit"
    /\ pc[c] = "commit" /\ req[c].op # "settle" =>
         /\ shared[c] = EventNeeded(c) /\ shared[c] \in live
         /\ \A d \in Calls : shared[c] \notin locked[d]

\* What is reserved stays locked.
StockHeld ==
  \A c \in Calls : req[c].op = "reserve" /\ pc[c] \in {"insert", "commit"} =>
    req[c].stock \in locked[c]

\* Who adds seats has found the event; who settles, a reservation.
Found ==
  \A c \in Calls :
    /\ req[c].op = "seats" /\ pc[c] \in Inserters =>
         req[c].event \in Calls /\ pc[req[c].event] \in {"refresh", "done"}
    /\ pc[c] \in {"counters", "child"} => req[req[c].target].op = "reserve"

\* Seats of open transactions are at free positions.
PlacesApart ==
  \A c \in Calls : \A x \in inserted[c] :
    /\ \A y \in live : ~ SamePlace(x, y)
    /\ \A d \in Calls \ {c} : \A y \in inserted[d] : ~ SamePlace(x, y)

\* The cascades of a reset have found, or will delete, what goes with a deleted row.
CascadesOf(c) ==
  pc[c] \in {"children", "events", "inventory", "check"} =>
    \A x \in live :
      /\ DeletedWith(x) \cap locked[c] # {}
      /\ x[2] = "child" \/ pc[c] \in {"inventory", "check"}
      => x \in locked[c] \cup Range(todo[c])

Cascades == \A c \in Calls : CascadesOf(c)

CatalogueInv ==
  /\ CallTypes /\ RowsOfCalls /\ NothingHeld /\ OneHolder /\ EventsShared /\ StockHeld
  /\ Found /\ PlacesApart /\ Cascades /\ ReferencesHold

-----------------------------------------------------------------------------
(* Payloads and rows *)

\* What a payload is made of.
LEMMA PayloadFields ==
  ASSUME req \in Workloads, NEW c \in Calls
  PROVE  /\ req[c].op \in {"event", "ticket", "seats", "seed", "reset", "reserve", "settle"}
         /\ req[c].op \in {"ticket", "seats"} => req[c].event \in Calls
         /\ req[c].op = "seats" => req[c].seats \in Seq(Positions) /\ req[c].seats # <<>>
         /\ req[c].op = "seed" => req[c].seats \subseteq Positions
         /\ req[c].op = "reserve" => req[c].stock \in Calls \X (Positions \cup {"ticket"})
         /\ req[c].op = "settle" => req[c].target \in Calls
<1>1. req[c] \in Payload
  BY CatalogueAssumption
<1> QED
  BY <1>1 DEF Payload, EventPayload, TicketPayload, SeatBatchPayload, StressPayload,
     ReservationPayload

\* The kinds of rows are different.
LEMMA KindsDiffer ==
  /\ "event" \notin Positions /\ "ticket" \notin Positions
  /\ "reservation" \notin Positions /\ "child" \notin Positions
BY CatalogueAssumption

\* The rows of a call.
LEMMA OwnRows ==
  ASSUME req \in Workloads, NEW c \in Calls, NEW x
  PROVE  x \in Own(c) <=>
           /\ x \in Rows /\ x[1] = c
           /\ \/ req[c].op \in {"event", "seed"} /\ x[2] = "event"
              \/ req[c].op \in {"ticket", "seed"} /\ x[2] = "ticket"
              \/ req[c].op \in {"seed", "seats"} /\ x[2] \in Positions
                   /\ x[2] \in (IF req[c].op = "seed" THEN req[c].seats ELSE Range(req[c].seats))
              \/ req[c].op = "reserve" /\ x[2] \in {"reservation", "child"}
<1>1. req[c].op = "seats" => Range(req[c].seats) \subseteq Positions
  BY PayloadFields DEF Range
<1>2. CASE req[c].op = "event"
  BY <1>2 DEF Own, Rows, Kinds
<1>3. CASE req[c].op = "ticket"
  BY <1>3 DEF Own, Rows, Kinds
<1>4. CASE req[c].op = "seats"
  BY <1>1, <1>4 DEF Own, Rows, Kinds
<1>5. CASE req[c].op = "seed"
  BY <1>5, PayloadFields, KindsDiffer DEF Own, Rows, Kinds
<1>6. CASE req[c].op = "reserve"
  BY <1>6 DEF Own, Rows, Kinds
<1>7. CASE req[c].op \in {"reset", "settle"}
  BY <1>7 DEF Own, Rows, Kinds
<1> QED
  BY <1>2, <1>3, <1>4, <1>5, <1>6, <1>7, PayloadFields

\* What the rows of a call refer to.
LEMMA References ==
  ASSUME req \in Workloads, NEW c \in Calls, NEW x \in Own(c)
  PROVE  /\ x[2] = "event" => DeletedWith(x) = {} /\ Restricts(x) = {}
         /\ x[2] \in Positions \cup {"ticket"} =>
              DeletedWith(x) = {StockEvent(x)} /\ Restricts(x) = {}
         /\ x[2] = "reservation" =>
              DeletedWith(x) = {} /\ Restricts(x) = {StockEvent(req[c].stock)}
         /\ x[2] = "child" =>
              DeletedWith(x) = {ReservationRow(c)} /\ Restricts(x) = {req[c].stock}
<1>1. x[1] = c /\ x[2] \in Kinds
  BY OwnRows DEF Rows
<1>2. x[2] \in Positions \cup {"ticket"} => EventOf(x) = StockEvent(x)
  BY KindsDiffer DEF EventOf
<1>3. x[2] = "reservation" => EventOf(x) = StockEvent(req[c].stock)
  BY <1>1 DEF EventOf
<1> QED
  BY <1>1, <1>2, <1>3, KindsDiffer DEF DeletedWith, Restricts, Kinds

\* References are to events, reservations and stock.
LEMMA EventKind == \A x : StockEvent(x)[2] = "event"
BY DEF StockEvent, EventRow

-----------------------------------------------------------------------------
(* What each kind of step does *)

\* A place is the same whoever asks.
LEMMA PlaceIsShared == \A x, y : SamePlace(x, y) => SamePlace(y, x)
BY DEF SamePlace

\* Payloads do not change, nor what depends on them alone.
LEMMA MeaningStays ==
  ASSUME UNCHANGED req
  PROVE  /\ \A c : Own(c)' = Own(c) /\ EventNeeded(c)' = EventNeeded(c)
         /\ \A x : DeletedWith(x)' = DeletedWith(x) /\ Restricts(x)' = Restricts(x)
         /\ \A x, y : SamePlace(x, y)' <=> SamePlace(x, y)
BY DEF Own, EventNeeded, DeletedWith, Restricts, SamePlace, EventOf, StockEvent, EventRow,
   ReservationRow

\* A committed row is one of a call that has committed.
LEMMA WhoCommitted ==
  ASSUME CatalogueInv, NEW x \in live
  PROVE  /\ x \in Rows /\ x[1] \in Calls /\ x \in Own(x[1])
         /\ pc[x[1]] \in {"refresh", "done"}
BY DEF CatalogueInv, CallTypes, RowsOfCalls, Rows

\* A statement that only moves its call on, or ends it.
LEMMA QuietKeeps ==
  ASSUME CatalogueInv, NEW c \in Running, UNCHANGED <<database, req>>,
         NEW l \in Labels(req[c].op), pc' = [pc EXCEPT ![c] = l],
         NEW s \in Seq(Rows), todo' = [todo EXCEPT ![c] = s],
         Range(s) \subseteq Calls \X TodoKinds(l),
         l = "seat" => s # <<>> /\ Range(s) \subseteq Own(c),
         pc[c] \notin Inserters \cup {"done"}, pc[c] = "refresh" => l = "done",
         l \notin {"commit", "counters", "child"},
         l = "done" => locked[c] = {},
         l \in Inserters =>
           /\ req[c].op # "reserve"
           /\ req[c].op = "seats" =>
                req[c].event \in Calls /\ pc[req[c].event] \in {"refresh", "done"},
         CascadesOf(c)'
  PROVE  CatalogueInv'
<1>0. c \in Calls /\ c \notin Before /\ CallTypes
  BY DEF Running, CatalogueInv
<1>1. CallTypes'
  BY <1>0 DEF CallTypes, database
<1>2. /\ pc'[c] = l /\ todo'[c] = s
      /\ \A d \in Calls \ {c} : pc'[d] = pc[d] /\ todo'[d] = todo[d]
  BY <1>0 DEF CallTypes
<1>3. RowsOfCalls'
  <2>1. ASSUME NEW x \in live PROVE x \in Own(x[1])' /\ pc'[x[1]] \in {"refresh", "done"}
    BY <1>2, <2>1, WhoCommitted, MeaningStays
  <2>2. ASSUME NEW d \in Calls
        PROVE  /\ inserted[d] \subseteq Own(d)'
               /\ req[d].op = "reserve" => inserted[d] \in {{}, Own(d)'}
               /\ (inserted[d] # {} => pc'[d] \in Inserters)
               /\ pc'[d] = "seat" => todo'[d] # <<>> /\ Range(todo'[d]) \subseteq Own(d)'
    BY <1>2, <2>2, MeaningStays DEF CatalogueInv, RowsOfCalls
  <2> QED BY <2>1, <2>2 DEF RowsOfCalls, database
<1>4. NothingHeld'
  BY <1>0, <1>2, CatalogueAssumption DEF CatalogueInv, NothingHeld, database
<1>5. OneHolder'
  BY DEF CatalogueInv, OneHolder, database
<1>6. EventsShared'
  <2>1. shared[c] = None
    BY <1>0 DEF CatalogueInv, EventsShared, Inserters
  <2> QED BY <1>2, <2>1, MeaningStays DEF CatalogueInv, EventsShared, database
<1>7. StockHeld'
  BY <1>2 DEF CatalogueInv, StockHeld, database, Inserters
<1>8. Found'
  BY <1>2 DEF CatalogueInv, Found
<1>9. PlacesApart'
  BY MeaningStays DEF CatalogueInv, PlacesApart, database
<1>10. Cascades'
  <2>1. ASSUME NEW d \in Calls \ {c} PROVE CascadesOf(d)'
    BY <1>2, <2>1, MeaningStays DEF CatalogueInv, Cascades, CascadesOf, database
  <2> QED BY <2>1 DEF Cascades
<1>11. ReferencesHold'
  BY MeaningStays DEF CatalogueInv, ReferencesHold, database
<1> QED
  BY <1>1, <1>3, <1>4, <1>5, <1>6, <1>7, <1>8, <1>9, <1>10, <1>11 DEF CatalogueInv

\* A statement that locks rows of its call for it.
LEMMA LockKeeps ==
  ASSUME CatalogueInv, NEW c \in Running, Ready(c), UNCHANGED <<live, inserted, shared, req>>,
         NEW l \in Labels(req[c].op), pc' = [pc EXCEPT ![c] = l],
         NEW s \in Seq(Rows), todo' = [todo EXCEPT ![c] = s],
         Range(s) \subseteq Calls \X TodoKinds(l),
         NEW S \in SUBSET live, S \subseteq Needs(c), Lock(c, S),
         \A x \in S : x[2] = "event" => pc[c] = "events",
         req[c].op \in {"reserve", "settle", "reset"},
         pc[c] \notin Inserters \cup {"refresh", "done"}, l \notin {"seat", "refresh", "done"},
         l = "commit" => req[c].op = "settle",
         req[c].op = "reserve" /\ l \in {"insert", "commit"} => req[c].stock \in S,
         l \in {"counters", "child"} => req[req[c].target].op = "reserve",
         CascadesOf(c)'
  PROVE  CatalogueInv'
<1>0. c \in Calls /\ c \notin Before /\ CallTypes
  BY DEF Running, CatalogueInv
<1>1. /\ locked' = [locked EXCEPT ![c] = @ \cup S]
      /\ locked[c] \cup S \in SUBSET live
  BY <1>0 DEF Lock, CallTypes
<1>2. CallTypes'
  BY <1>0, <1>1 DEF CallTypes
<1>3. /\ pc'[c] = l /\ todo'[c] = s /\ locked'[c] = locked[c] \cup S
      /\ \A d \in Calls \ {c} : pc'[d] = pc[d] /\ todo'[d] = todo[d] /\ locked'[d] = locked[d]
  BY <1>0, <1>1 DEF CallTypes
<1>4. RowsOfCalls'
  <2>1. ASSUME NEW x \in live PROVE x \in Own(x[1])' /\ pc'[x[1]] \in {"refresh", "done"}
    BY <1>0, <1>3, <2>1, WhoCommitted, MeaningStays
  <2>2. ASSUME NEW d \in Calls
        PROVE  /\ inserted[d] \subseteq Own(d)'
               /\ req[d].op = "reserve" => inserted[d] \in {{}, Own(d)'}
               /\ (inserted[d] # {} => pc'[d] \in Inserters)
               /\ pc'[d] = "seat" => todo'[d] # <<>> /\ Range(todo'[d]) \subseteq Own(d)'
    BY <1>3, <2>2, MeaningStays DEF CatalogueInv, RowsOfCalls
  <2> QED BY <2>1, <2>2 DEF RowsOfCalls
<1>5. NothingHeld'
  <2>1. pc[c] = "events" => req[c].op = "reset"
    BY <1>0, PayloadFields DEF CallTypes, Labels
  <2> QED BY <1>0, <1>3, <2>1, CatalogueAssumption DEF CatalogueInv, NothingHeld
<1>6. ASSUME NEW d \in Calls \ {c} PROVE S \cap locked[d] = {}
  <2>1. CASE d \in Running
    BY <1>6, <2>1 DEF Ready, WaitsFor
  <2>2. CASE d \in Before
    BY <1>6, <2>2 DEF CatalogueInv, NothingHeld
  <2> QED BY <2>1, <2>2 DEF Running
<1>7. OneHolder'
  BY <1>3, <1>6 DEF CatalogueInv, OneHolder
<1>8. EventsShared'
  <2>1. ASSUME NEW d \in Calls PROVE shared[d] # None => pc'[d] = "commit"
    BY <1>0, <1>3, <2>1 DEF CatalogueInv, EventsShared, Inserters
  <2>2. ASSUME NEW d \in Calls, pc'[d] = "commit", req[d].op # "settle"
        PROVE  /\ shared[d] = EventNeeded(d) /\ shared[d] \in live
               /\ \A e \in Calls : shared[d] \notin locked'[e]
    <3>1. d # c /\ pc[d] = "commit"
      BY <1>3, <2>2
    <3>2. /\ shared[d] = EventNeeded(d) /\ shared[d] \in live
          /\ \A e \in Calls : shared[d] \notin locked[e]
      BY <2>2, <3>1 DEF CatalogueInv, EventsShared
    <3>3. shared[d] \notin S
      <4>1. shared[d][2] = "event"
        BY <3>2, EventKind DEF EventNeeded, EventRow
      <4>2. d \in Running
        BY <2>2, <3>1 DEF Running, CatalogueInv, NothingHeld
      <4> QED BY <3>1, <4>1, <4>2 DEF Ready, WaitsFor
    <3> QED BY <1>3, <3>2, <3>3
  <2> QED BY <2>1, <2>2, MeaningStays DEF EventsShared
<1>9. StockHeld'
  BY <1>3 DEF CatalogueInv, StockHeld
<1>10. Found'
  BY <1>3 DEF CatalogueInv, Found, Inserters
<1>11. PlacesApart'
  BY MeaningStays DEF CatalogueInv, PlacesApart
<1>12. Cascades'
  <2>1. ASSUME NEW d \in Calls \ {c} PROVE CascadesOf(d)'
    BY <1>3, <2>1, MeaningStays DEF CatalogueInv, Cascades, CascadesOf
  <2> QED BY <2>1 DEF Cascades
<1>13. ReferencesHold'
  BY MeaningStays DEF CatalogueInv, ReferencesHold
<1> QED
  BY <1>2, <1>4, <1>5, <1>7, <1>8, <1>9, <1>10, <1>11, <1>12, <1>13 DEF CatalogueInv

\* A call that ends without a commit.
LEMMA RefuseKeeps ==
  ASSUME CatalogueInv, NEW c \in Running, NEW code, Refuse(c, code), UNCHANGED req
  PROVE  CatalogueInv'
<1>0. c \in Calls /\ c \notin Before /\ CallTypes
  BY DEF Running, CatalogueInv
<1>1. /\ live' = live /\ inserted' = [inserted EXCEPT ![c] = {}]
      /\ locked' = [locked EXCEPT ![c] = {}] /\ shared' = [shared EXCEPT ![c] = None]
      /\ pc' = [pc EXCEPT ![c] = "done"] /\ todo' = [todo EXCEPT ![c] = <<>>]
  BY DEF Refuse, Rollback, Release, Answer
<1>2. /\ pc'[c] = "done" /\ todo'[c] = <<>> /\ inserted'[c] = {} /\ locked'[c] = {}
      /\ shared'[c] = None /\ Range(<<>>) = {}
      /\ \A d \in Calls \ {c} : /\ pc'[d] = pc[d] /\ todo'[d] = todo[d]
                               /\ inserted'[d] = inserted[d] /\ locked'[d] = locked[d]
                               /\ shared'[d] = shared[d]
  BY <1>0, <1>1 DEF CallTypes, Range
<1>3. CallTypes'
  <2>1. "done" \in Labels(req[c].op)
    BY <1>0, PayloadFields DEF Labels, CallTypes
  <2>2. \A d \in Calls : pc'[d] \in Labels(req[d].op) /\ Range(todo'[d]) \subseteq Calls \X TodoKinds(pc'[d])
    BY <1>0, <1>2, <2>1 DEF CallTypes
  <2>3. <<>> \in Seq(Rows)
    OBVIOUS
  <2> QED BY <1>0, <1>1, <2>2, <2>3 DEF CallTypes
<1>4. RowsOfCalls'
  <2>1. ASSUME NEW x \in live PROVE x \in Own(x[1])' /\ pc'[x[1]] \in {"refresh", "done"}
    BY <1>0, <1>2, <2>1, WhoCommitted, MeaningStays
  <2>2. ASSUME NEW d \in Calls
        PROVE  /\ inserted'[d] \subseteq Own(d)'
               /\ req[d].op = "reserve" => inserted'[d] \in {{}, Own(d)'}
               /\ (inserted'[d] # {} => pc'[d] \in Inserters)
               /\ pc'[d] = "seat" => todo'[d] # <<>> /\ Range(todo'[d]) \subseteq Own(d)'
    BY <1>2, <2>2, MeaningStays DEF CatalogueInv, RowsOfCalls
  <2> QED BY <1>1, <2>1, <2>2 DEF RowsOfCalls
<1>5. NothingHeld'
  BY <1>0, <1>2, CatalogueAssumption DEF CatalogueInv, NothingHeld
<1>6. OneHolder'
  BY <1>2 DEF CatalogueInv, OneHolder
<1>7. EventsShared'
  BY <1>1, <1>2, MeaningStays DEF CatalogueInv, EventsShared
<1>8. StockHeld'
  BY <1>2 DEF CatalogueInv, StockHeld
<1>9. Found'
  BY <1>2 DEF CatalogueInv, Found, Inserters
<1>10. PlacesApart'
  BY <1>1, <1>2, MeaningStays DEF CatalogueInv, PlacesApart
<1>11. Cascades'
  <2>1. ASSUME NEW d \in Calls \ {c} PROVE CascadesOf(d)'
    BY <1>1, <1>2, <2>1, MeaningStays DEF CatalogueInv, Cascades, CascadesOf
  <2>2. CascadesOf(c)'
    BY <1>2 DEF CascadesOf
  <2> QED BY <2>1, <2>2 DEF Cascades
<1>12. ReferencesHold'
  BY <1>1, MeaningStays DEF CatalogueInv, ReferencesHold
<1> QED
  BY <1>3, <1>4, <1>5, <1>6, <1>7, <1>8, <1>9, <1>10, <1>11, <1>12 DEF CatalogueInv

\* A commit of new rows that refer to rows that stay, seats at free positions.
LEMMA PublishKeeps ==
  ASSUME CatalogueInv, NEW c \in Running, UNCHANGED req,
         NEW New \in SUBSET Own(c), live' = live \cup New,
         NEW l \in Labels(req[c].op) \cap {"refresh", "done"}, pc' = [pc EXCEPT ![c] = l],
         todo' = [todo EXCEPT ![c] = <<>>], Release(c),
         pc[c] \notin {"refresh", "done"},
         l = "refresh" => req[c].op \notin {"reserve", "settle", "reset"},
         \A x \in New : /\ DeletedWith(x) \cup Restricts(x) \subseteq live \cup New
                        /\ \A d \in Calls : DeletedWith(x) \cap locked[d] = {},
         \A x \in New : /\ \A y \in live : ~ SamePlace(x, y)
                        /\ \A d \in Calls \ {c} : \A y \in inserted[d] : ~ SamePlace(x, y)
  PROVE  CatalogueInv'
<1>0. c \in Calls /\ c \notin Before /\ CallTypes
  BY DEF Running, CatalogueInv
<1>1. /\ inserted' = [inserted EXCEPT ![c] = {}]
      /\ locked' = [locked EXCEPT ![c] = {}] /\ shared' = [shared EXCEPT ![c] = None]
  BY DEF Release
<1>2. /\ pc'[c] = l /\ todo'[c] = <<>> /\ inserted'[c] = {} /\ locked'[c] = {}
      /\ shared'[c] = None /\ Range(<<>>) = {}
      /\ \A d \in Calls \ {c} : /\ pc'[d] = pc[d] /\ todo'[d] = todo[d]
                               /\ inserted'[d] = inserted[d] /\ locked'[d] = locked[d]
                               /\ shared'[d] = shared[d]
  BY <1>0, <1>1 DEF CallTypes, Range
<1>a. \A x \in New : x \in Rows /\ x[1] = c
  BY <1>0, OwnRows DEF CallTypes
<1>3. CallTypes'
  <2>1. \A d \in Calls : pc'[d] \in Labels(req[d].op) /\ Range(todo'[d]) \subseteq Calls \X TodoKinds(pc'[d])
    BY <1>0, <1>2 DEF CallTypes
  <2>2. <<>> \in Seq(Rows)
    OBVIOUS
  <2>3. live' \subseteq Rows /\ locked' \in [Calls -> SUBSET live']
    BY <1>0, <1>1, <1>a DEF CallTypes
  <2> QED BY <1>0, <1>1, <2>1, <2>2, <2>3 DEF CallTypes
<1>4. RowsOfCalls'
  <2>1. ASSUME NEW x \in live PROVE x \in Own(x[1])' /\ pc'[x[1]] \in {"refresh", "done"}
    BY <1>0, <1>2, <2>1, WhoCommitted, MeaningStays
  <2>2. ASSUME NEW x \in New PROVE x \in Own(x[1])' /\ pc'[x[1]] \in {"refresh", "done"}
    BY <1>a, <1>2, <2>2, MeaningStays
  <2>3. ASSUME NEW d \in Calls
        PROVE  /\ inserted'[d] \subseteq Own(d)'
               /\ req[d].op = "reserve" => inserted'[d] \in {{}, Own(d)'}
               /\ (inserted'[d] # {} => pc'[d] \in Inserters)
               /\ pc'[d] = "seat" => todo'[d] # <<>> /\ Range(todo'[d]) \subseteq Own(d)'
    BY <1>2, <2>3, MeaningStays DEF CatalogueInv, RowsOfCalls
  <2> QED BY <2>1, <2>2, <2>3 DEF RowsOfCalls
<1>5. NothingHeld'
  BY <1>0, <1>2, CatalogueAssumption DEF CatalogueInv, NothingHeld
<1>6. OneHolder'
  BY <1>2 DEF CatalogueInv, OneHolder
<1>7. EventsShared'
  BY <1>2, MeaningStays DEF CatalogueInv, EventsShared
<1>8. StockHeld'
  BY <1>2 DEF CatalogueInv, StockHeld
<1>9. Found'
  BY <1>2 DEF CatalogueInv, Found, Inserters
<1>10. PlacesApart'
  <2>1. ASSUME NEW d \in Calls, NEW x \in inserted'[d], NEW y \in live'
        PROVE  ~ SamePlace(x, y)
    <3>1. d # c /\ x \in inserted[d]
      BY <1>2, <2>1
    <3>2. CASE y \in live
      BY <3>1, <3>2 DEF CatalogueInv, PlacesApart
    <3>3. CASE y \in New
      BY <3>1, <3>3, PlaceIsShared
    <3> QED BY <3>2, <3>3
  <2>2. ASSUME NEW d \in Calls, NEW x \in inserted'[d], NEW e \in Calls \ {d}, NEW y \in inserted'[e]
        PROVE  ~ SamePlace(x, y)
    BY <1>2, <2>2 DEF CatalogueInv, PlacesApart
  <2> QED BY <2>1, <2>2, MeaningStays DEF PlacesApart
<1>11. Cascades'
  <2>1. ASSUME NEW d \in Calls \ {c} PROVE CascadesOf(d)'
    <3>1. \A x \in New : DeletedWith(x) \cap locked[d] = {}
      OBVIOUS
    <3> QED BY <1>2, <2>1, <3>1, MeaningStays DEF CatalogueInv, Cascades, CascadesOf
  <2>2. CascadesOf(c)'
    BY <1>2 DEF CascadesOf
  <2> QED BY <2>1, <2>2 DEF Cascades
<1>12. ReferencesHold'
  <2>1. ASSUME NEW x \in live', NEW y \in live', SamePlace(x, y) PROVE x = y
    <3>1. CASE x \in live /\ y \in live
      BY <2>1, <3>1 DEF CatalogueInv, ReferencesHold
    <3>2. CASE x \in New /\ y \in New
      <4>1. x[1] = y[1] /\ x[2] = y[2] /\ x \in Calls \X Kinds /\ y \in Calls \X Kinds
        BY <1>a, <2>1, <3>2 DEF SamePlace, Rows
      <4> QED BY <4>1
    <3> QED BY <2>1, <3>1, <3>2, PlaceIsShared
  <2>2. ASSUME NEW x \in live' PROVE DeletedWith(x) \cup Restricts(x) \subseteq live'
    BY <2>2 DEF CatalogueInv, ReferencesHold
  <2> QED BY <2>1, <2>2, MeaningStays DEF ReferencesHold
<1> QED
  BY <1>3, <1>4, <1>5, <1>6, <1>7, <1>8, <1>9, <1>10, <1>11, <1>12 DEF CatalogueInv

\* A row that an unnamed lock would miss: what refers to a locked row that is
\* deleted when a reset has checked is itself deleted.
LEMMA NothingDangles ==
  ASSUME CatalogueInv, NEW c \in Calls, pc[c] = "check", Survivors(c) = {},
         NEW x \in live \ locked[c]
  PROVE  (DeletedWith(x) \cup Restricts(x)) \cap locked[c] = {}
<1>1. Range(todo[c]) = {}
  BY DEF CatalogueInv, CallTypes, TodoKinds
<1>2. DeletedWith(x) \cap locked[c] = {}
  BY <1>1 DEF CatalogueInv, Cascades, CascadesOf
<1>3. Restricts(x) \cap locked[c] = {}
  BY DEF Survivors
<1> QED
  BY <1>2, <1>3

\* The commit of a reset.
LEMMA ResetKeeps ==
  ASSUME CatalogueInv, NEW c \in Running, UNCHANGED req,
         pc[c] = "check", Survivors(c) = {}, Commit(c), Answer(c, "OK")
  PROVE  CatalogueInv'
<1>0. c \in Calls /\ c \notin Before /\ CallTypes
  BY DEF Running, CatalogueInv
<1>a. req[c].op = "reset"
  BY <1>0, PayloadFields DEF CallTypes, Labels
<1>1. /\ inserted' = [inserted EXCEPT ![c] = {}]
      /\ locked' = [locked EXCEPT ![c] = {}] /\ shared' = [shared EXCEPT ![c] = None]
      /\ pc' = [pc EXCEPT ![c] = "done"] /\ todo' = [todo EXCEPT ![c] = <<>>]
  BY DEF Commit, Release, Answer
<1>b. inserted[c] = {}
  BY <1>0 DEF CatalogueInv, RowsOfCalls, Inserters
<1>c. live' = live \ locked[c]
  BY <1>a, <1>b DEF Commit, Deleted
<1>2. /\ pc'[c] = "done" /\ todo'[c] = <<>> /\ inserted'[c] = {} /\ locked'[c] = {}
      /\ shared'[c] = None /\ Range(<<>>) = {}
      /\ \A d \in Calls \ {c} : /\ pc'[d] = pc[d] /\ todo'[d] = todo[d]
                               /\ inserted'[d] = inserted[d] /\ locked'[d] = locked[d]
                               /\ shared'[d] = shared[d]
  BY <1>0, <1>1 DEF CallTypes, Range
<1>3. CallTypes'
  <2>1. "done" \in Labels(req[c].op)
    BY <1>a DEF Labels
  <2>2. \A d \in Calls : pc'[d] \in Labels(req[d].op) /\ Range(todo'[d]) \subseteq Calls \X TodoKinds(pc'[d])
    BY <1>0, <1>2, <2>1 DEF CallTypes
  <2>3. <<>> \in Seq(Rows)
    OBVIOUS
  <2>4. \A d \in Calls : locked'[d] \subseteq live'
    BY <1>0, <1>2, <1>c DEF CatalogueInv, OneHolder, CallTypes
  <2>5. live' \subseteq Rows /\ locked' \in [Calls -> SUBSET live']
    BY <1>0, <1>1, <1>c, <2>4 DEF CallTypes
  <2> QED BY <1>0, <1>1, <2>2, <2>3, <2>5 DEF CallTypes
<1>4. RowsOfCalls'
  <2>1. ASSUME NEW x \in live PROVE x \in Own(x[1])' /\ pc'[x[1]] \in {"refresh", "done"}
    BY <1>0, <1>2, <2>1, WhoCommitted, MeaningStays
  <2>2. ASSUME NEW d \in Calls
        PROVE  /\ inserted'[d] \subseteq Own(d)'
               /\ req[d].op = "reserve" => inserted'[d] \in {{}, Own(d)'}
               /\ (inserted'[d] # {} => pc'[d] \in Inserters)
               /\ pc'[d] = "seat" => todo'[d] # <<>> /\ Range(todo'[d]) \subseteq Own(d)'
    BY <1>2, <2>2, MeaningStays DEF CatalogueInv, RowsOfCalls
  <2> QED BY <1>c, <2>1, <2>2 DEF RowsOfCalls
<1>5. NothingHeld'
  BY <1>0, <1>2, CatalogueAssumption DEF CatalogueInv, NothingHeld
<1>6. OneHolder'
  BY <1>2 DEF CatalogueInv, OneHolder
<1>7. EventsShared'
  BY <1>0, <1>c, <1>2, MeaningStays DEF CatalogueInv, EventsShared
<1>8. StockHeld'
  BY <1>2 DEF CatalogueInv, StockHeld
<1>9. Found'
  BY <1>2 DEF CatalogueInv, Found, Inserters
<1>10. PlacesApart'
  BY <1>c, <1>2, MeaningStays DEF CatalogueInv, PlacesApart
<1>11. Cascades'
  <2>1. ASSUME NEW d \in Calls \ {c} PROVE CascadesOf(d)'
    BY <1>c, <1>2, <2>1, MeaningStays DEF CatalogueInv, Cascades, CascadesOf
  <2>2. CascadesOf(c)'
    BY <1>2 DEF CascadesOf
  <2> QED BY <2>1, <2>2 DEF Cascades
<1>12. ReferencesHold'
  BY <1>0, <1>c, NothingDangles, MeaningStays DEF CatalogueInv, ReferencesHold
<1> QED
  BY <1>3, <1>4, <1>5, <1>6, <1>7, <1>8, <1>9, <1>10, <1>11, <1>12 DEF CatalogueInv

\* The first and the other elements of what is still to do.
LEMMA HeadAndTail ==
  ASSUME NEW S, NEW s \in Seq(S), s # <<>>
  PROVE  /\ Head(s) \in Range(s) /\ Tail(s) \in Seq(S)
         /\ Range(Tail(s)) \subseteq Range(s)
         /\ Range(s) \subseteq {Head(s)} \cup Range(Tail(s))
<1>1. Len(s) \in Nat \ {0} /\ DOMAIN s = 1..Len(s) /\ Head(s) = s[1]
  OBVIOUS
<1>2. /\ Tail(s) \in Seq(S) /\ DOMAIN Tail(s) = 1..(Len(s) - 1)
      /\ \A i \in 1..(Len(s) - 1) : Tail(s)[i] = s[i + 1]
  BY <1>1
<1>3. Head(s) \in Range(s)
  BY <1>1 DEF Range
<1>4. Range(Tail(s)) \subseteq Range(s)
  BY <1>1, <1>2 DEF Range
<1>5. ASSUME NEW i \in 1..Len(s) PROVE s[i] \in {Head(s)} \cup Range(Tail(s))
  <2>1. CASE i = 1
    BY <1>1, <2>1
  <2>2. CASE i # 1
    <3>1. i - 1 \in 1..(Len(s) - 1) /\ Tail(s)[i - 1] = s[i]
      BY <1>1, <1>2, <2>2
    <3> QED BY <1>2, <3>1 DEF Range
  <2> QED BY <2>1, <2>2
<1> QED
  BY <1>1, <1>2, <1>3, <1>4, <1>5 DEF Range

\* One seat of a batch goes in, at a position nobody has or is about to take.
LEMMA SeatKeeps ==
  ASSUME CatalogueInv, NEW c \in Running, UNCHANGED req, pc[c] = "seat", Ready(c),
         ~ Occupied(Head(todo[c])), Insert(c, Head(todo[c]))
  PROVE  CatalogueInv'
<1>0. c \in Calls /\ c \notin Before /\ CallTypes
  BY DEF Running, CatalogueInv
<1> DEFINE x == Head(todo[c])
           s == Tail(todo[c])
           l == IF s = <<>> THEN "insert" ELSE "seat"
<1>a. req[c].op = "seats"
  BY <1>0, PayloadFields DEF CallTypes, Labels, ResetLabels
<1>b. todo[c] \in Seq(Rows) /\ todo[c] # <<>> /\ Range(todo[c]) \subseteq Own(c)
  BY <1>0 DEF CatalogueInv, RowsOfCalls, CallTypes
<1>c. x \in Own(c) /\ s \in Seq(Rows) /\ Range(s) \subseteq Range(todo[c])
  BY <1>b, HeadAndTail
<1>d. x \in Rows /\ Range(s) \subseteq Calls \X Positions
  BY <1>0, <1>b, <1>c, OwnRows DEF CallTypes, TodoKinds
<1>1. /\ inserted' = [inserted EXCEPT ![c] = @ \cup {x}] /\ todo' = [todo EXCEPT ![c] = s]
      /\ pc' = [pc EXCEPT ![c] = l] /\ UNCHANGED <<live, locked, shared>>
  BY <1>0 DEF Insert, CallTypes
<1>e. s = <<>> => Range(s) = {}
  BY DEF Range
<1> HIDE DEF x, s
<1>2. /\ pc'[c] = l /\ todo'[c] = s /\ inserted'[c] = inserted[c] \cup {x}
      /\ \A d \in Calls \ {c} : /\ pc'[d] = pc[d] /\ todo'[d] = todo[d]
                               /\ inserted'[d] = inserted[d]
  BY <1>0, <1>1 DEF CallTypes
<1>3. CallTypes'
  <2>1. pc'[c] \in Labels(req[c].op) /\ Range(todo'[c]) \subseteq Calls \X TodoKinds(pc'[c])
    BY <1>a, <1>2, <1>d, <1>e DEF Labels, TodoKinds
  <2>2. \A d \in Calls : pc'[d] \in Labels(req[d].op) /\ Range(todo'[d]) \subseteq Calls \X TodoKinds(pc'[d])
    BY <1>0, <1>2, <2>1 DEF CallTypes
  <2>3. inserted' \in [Calls -> SUBSET Rows]
    BY <1>0, <1>1, <1>d DEF CallTypes
  <2> QED BY <1>0, <1>1, <1>c, <2>2, <2>3 DEF CallTypes
<1>4. RowsOfCalls'
  <2>1. ASSUME NEW y \in live PROVE y \in Own(y[1])' /\ pc'[y[1]] \in {"refresh", "done"}
    BY <1>0, <1>2, <2>1, WhoCommitted, MeaningStays
  <2>2. ASSUME NEW d \in Calls
        PROVE  /\ inserted'[d] \subseteq Own(d)'
               /\ req[d].op = "reserve" => inserted'[d] \in {{}, Own(d)'}
               /\ (inserted'[d] # {} => pc'[d] \in Inserters)
               /\ pc'[d] = "seat" => todo'[d] # <<>> /\ Range(todo'[d]) \subseteq Own(d)'
    BY <1>2, <1>a, <1>b, <1>c, <2>2, MeaningStays DEF CatalogueInv, RowsOfCalls, Inserters
  <2> QED BY <1>1, <2>1, <2>2 DEF RowsOfCalls
<1>5. NothingHeld'
  BY <1>0, <1>1, <1>2, CatalogueAssumption DEF CatalogueInv, NothingHeld
<1>6. OneHolder'
  BY <1>1 DEF CatalogueInv, OneHolder
<1>7. EventsShared'
  BY <1>1, <1>2, MeaningStays DEF CatalogueInv, EventsShared
<1>8. StockHeld'
  BY <1>a, <1>1, <1>2 DEF CatalogueInv, StockHeld
<1>9. Found'
  <2>1. req[c].event \in Calls /\ pc[req[c].event] \in {"refresh", "done"}
    BY <1>0, <1>a DEF CatalogueInv, Found, Inserters
  <2> QED BY <1>2, <2>1 DEF CatalogueInv, Found, Inserters
<1>10. PlacesApart'
  <2>1. Needs(c) = {x}
    BY <1>b DEF Needs, x
  <2>2. ASSUME NEW d \in Calls \ {c}, NEW y \in inserted[d] PROVE ~ SamePlace(y, x)
    <3>1. CASE d \in Running
      BY <2>1, <2>2, <3>1 DEF Ready, WaitsFor
    <3>2. CASE d \in Before
      BY <2>2, <3>2 DEF CatalogueInv, NothingHeld, RowsOfCalls, Inserters
    <3> QED BY <3>1, <3>2 DEF Running
  <2>3. \A y \in live : ~ SamePlace(x, y)
    BY DEF Occupied, x
  <2>4. ASSUME NEW d \in Calls, NEW z \in inserted'[d], NEW y \in live PROVE ~ SamePlace(z, y)
    BY <1>2, <2>3, <2>4 DEF CatalogueInv, PlacesApart
  <2>5. ASSUME NEW d \in Calls, NEW z \in inserted'[d], NEW e \in Calls \ {d}, NEW y \in inserted'[e]
        PROVE  ~ SamePlace(z, y)
    BY <1>2, <2>2, <2>5, PlaceIsShared DEF CatalogueInv, PlacesApart
  <2> QED BY <1>1, <2>4, <2>5, MeaningStays DEF PlacesApart
<1>11. Cascades'
  <2>1. ASSUME NEW d \in Calls \ {c} PROVE CascadesOf(d)'
    BY <1>1, <1>2, <2>1, MeaningStays DEF CatalogueInv, Cascades, CascadesOf
  <2>2. CascadesOf(c)'
    BY <1>2 DEF CascadesOf
  <2> QED BY <2>1, <2>2 DEF Cascades
<1>12. ReferencesHold'
  BY <1>1, MeaningStays DEF CatalogueInv, ReferencesHold
<1> QED
  BY <1>3, <1>4, <1>5, <1>6, <1>7, <1>8, <1>9, <1>10, <1>11, <1>12 DEF CatalogueInv

\* Whoever inserts waits for the event's row, and finds it there and unlocked.
LEMMA EventIsFree ==
  ASSUME CatalogueInv, NEW c \in Running, pc[c] = "insert", Ready(c)
  PROVE  /\ todo[c] = <<>> /\ req[c].op \in {"ticket", "seats", "reserve"}
         /\ Needs(c) = {EventNeeded(c)} /\ EventNeeded(c)[2] = "event"
         /\ \A d \in Calls : EventNeeded(c) \notin locked[d]
<1>0. c \in Calls /\ CallTypes
  BY DEF Running, CatalogueInv
<1>1. req[c].op \in {"ticket", "seats", "reserve"}
  BY <1>0, PayloadFields DEF CallTypes, Labels, ResetLabels
<1>2. todo[c] = <<>>
  <2>1. Range(todo[c]) = {} /\ todo[c] \in Seq(Rows)
    BY <1>0 DEF CallTypes, TodoKinds
  <2> QED BY <2>1, HeadAndTail
<1>3. Needs(c) = {EventNeeded(c)}
  BY <1>2 DEF Needs, EventNeeded
<1>4. EventNeeded(c)[2] = "event"
  BY EventKind DEF EventNeeded, EventRow
<1>5. ASSUME NEW d \in Calls \ {c} PROVE EventNeeded(c) \notin locked[d]
  <2>1. CASE d \in Running
    BY <1>3, <1>5, <2>1 DEF Ready, WaitsFor
  <2>2. CASE d \in Before
    BY <1>5, <2>2 DEF CatalogueInv, NothingHeld
  <2> QED BY <2>1, <2>2 DEF Running
<1>6. EventNeeded(c) \notin locked[c]
  BY <1>0, <1>1, <1>4 DEF CatalogueInv, NothingHeld
<1> QED
  BY <1>1, <1>2, <1>3, <1>4, <1>5, <1>6

\* The insert that refers to the event, which nobody may delete from then on.
LEMMA CheckKeeps ==
  ASSUME CatalogueInv, NEW c \in Running, UNCHANGED <<req, live, locked, todo>>,
         pc[c] = "insert", Ready(c), NEW e \in live, e = EventNeeded(c),
         NEW New \in SUBSET Own(c), req[c].op = "seats" => New = inserted[c],
         req[c].op = "reserve" => New = Own(c),
         shared' = [shared EXCEPT ![c] = e], inserted' = [inserted EXCEPT ![c] = New],
         pc' = [pc EXCEPT ![c] = "commit"]
  PROVE  CatalogueInv'
<1>0. c \in Calls /\ c \notin Before /\ CallTypes
  BY DEF Running, CatalogueInv
<1>a. req[c].op \in {"ticket", "seats", "reserve"} /\ todo[c] = <<>> /\ Range(<<>>) = {}
  BY EventIsFree DEF Range
<1>f. e \in Rows /\ \A d \in Calls : e \notin locked[d]
  BY <1>0, EventIsFree DEF CallTypes
<1>g. New \subseteq Rows
  BY <1>0, OwnRows DEF CallTypes
<1>2. /\ pc'[c] = "commit" /\ inserted'[c] = New /\ shared'[c] = e
      /\ \A d \in Calls \ {c} : /\ pc'[d] = pc[d] /\ shared'[d] = shared[d]
                               /\ inserted'[d] = inserted[d]
  BY <1>0 DEF CallTypes
<1>3. CallTypes'
  <2>1. pc'[c] \in Labels(req[c].op) /\ Range(todo'[c]) \subseteq Calls \X TodoKinds(pc'[c])
    BY <1>a, <1>2 DEF Labels, TodoKinds
  <2>2. \A d \in Calls : pc'[d] \in Labels(req[d].op) /\ Range(todo'[d]) \subseteq Calls \X TodoKinds(pc'[d])
    BY <1>0, <1>2, <2>1 DEF CallTypes
  <2>3. inserted' \in [Calls -> SUBSET Rows] /\ shared' \in [Calls -> Rows \cup {None}]
    BY <1>0, <1>f, <1>g DEF CallTypes
  <2> QED BY <1>0, <2>2, <2>3 DEF CallTypes
<1>4. RowsOfCalls'
  <2>1. ASSUME NEW y \in live PROVE y \in Own(y[1])' /\ pc'[y[1]] \in {"refresh", "done"}
    BY <1>0, <1>2, <2>1, WhoCommitted, MeaningStays
  <2>2. ASSUME NEW d \in Calls
        PROVE  /\ inserted'[d] \subseteq Own(d)'
               /\ req[d].op = "reserve" => inserted'[d] \in {{}, Own(d)'}
               /\ (inserted'[d] # {} => pc'[d] \in Inserters)
               /\ pc'[d] = "seat" => todo'[d] # <<>> /\ Range(todo'[d]) \subseteq Own(d)'
    BY <1>2, <1>g, <2>2, MeaningStays DEF CatalogueInv, RowsOfCalls, Inserters
  <2> QED BY <2>1, <2>2 DEF RowsOfCalls
<1>5. NothingHeld'
  BY <1>0, <1>2, CatalogueAssumption DEF CatalogueInv, NothingHeld
<1>6. OneHolder'
  BY DEF CatalogueInv, OneHolder
<1>7. EventsShared'
  BY <1>2, <1>f, MeaningStays DEF CatalogueInv, EventsShared
<1>8. StockHeld'
  BY <1>2 DEF CatalogueInv, StockHeld
<1>9. Found'
  <2>1. req[c].op = "seats" => req[c].event \in Calls /\ pc[req[c].event] \in {"refresh", "done"}
    BY <1>0 DEF CatalogueInv, Found, Inserters
  <2> QED BY <1>2, <2>1 DEF CatalogueInv, Found, Inserters
<1>10. PlacesApart'
  <2>1. ASSUME req[c].op # "seats", NEW x \in New, NEW y PROVE ~ SamePlace(x, y)
    <3>1. x[2] \in {"ticket", "reservation", "child"}
      BY <1>0, <1>a, <1>g, <2>1, OwnRows DEF CallTypes
    <3> QED BY <3>1, KindsDiffer DEF SamePlace
  <2>3. ASSUME NEW d \in Calls, NEW x \in inserted'[d], NEW y \in live PROVE ~ SamePlace(x, y)
    BY <1>2, <2>1, <2>3 DEF CatalogueInv, PlacesApart
  <2>4. ASSUME NEW d \in Calls, NEW x \in inserted'[d], NEW f \in Calls \ {d}, NEW y \in inserted'[f]
        PROVE  ~ SamePlace(x, y)
    BY <1>2, <2>1, <2>4, PlaceIsShared DEF CatalogueInv, PlacesApart
  <2> QED BY <2>3, <2>4, MeaningStays DEF PlacesApart
<1>11. Cascades'
  <2>1. ASSUME NEW d \in Calls \ {c} PROVE CascadesOf(d)'
    BY <1>2, <2>1, MeaningStays DEF CatalogueInv, Cascades, CascadesOf
  <2>2. CascadesOf(c)'
    BY <1>2 DEF CascadesOf
  <2> QED BY <2>1, <2>2 DEF Cascades
<1>12. ReferencesHold'
  BY MeaningStays DEF CatalogueInv, ReferencesHold
<1> QED
  BY <1>3, <1>4, <1>5, <1>6, <1>7, <1>8, <1>9, <1>10, <1>11, <1>12 DEF CatalogueInv

-----------------------------------------------------------------------------
(* Every action *)

\* The calls that are at a label.
LEMMA WhoIsThere ==
  ASSUME CatalogueInv, NEW c \in Calls
  PROVE  /\ pc[c] = "create" => req[c].op = "event"
         /\ pc[c] = "seed" => req[c].op = "seed"
         /\ pc[c] = "find" => req[c].op \in {"ticket", "seats"}
         /\ pc[c] = "refresh" => req[c].op \in {"event", "ticket", "seats"}
         /\ pc[c] = "commit" => req[c].op \in {"ticket", "seats", "reserve", "settle"}
         /\ pc[c] = "stock" => req[c].op = "reserve"
         /\ pc[c] \in {"parent", "counters", "child"} => req[c].op = "settle"
         /\ pc[c] \in {"count"} \cup ResetLabels => req[c].op = "reset"
BY PayloadFields DEF CatalogueInv, CallTypes, Labels, ResetLabels

\* Between its statements with several rows a call has nothing to work through.
LEMMA NothingToDo ==
  ASSUME CatalogueInv, NEW c \in Calls, TodoKinds(pc[c]) = {}
  PROVE  todo[c] = <<>>
<1>1. Range(todo[c]) = {} /\ todo[c] \in Seq(Rows)
  BY DEF CatalogueInv, CallTypes
<1> QED
  BY <1>1, HeadAndTail

\* A call that has only read holds nothing a commit would release.
LEMMA NothingToRelease ==
  ASSUME CatalogueInv, NEW c \in Calls, pc[c] \in {"create", "seed"},
         UNCHANGED <<inserted, locked, shared>>
  PROVE  Release(c)
<1>1. inserted[c] = {} /\ locked[c] = {} /\ shared[c] = None
  BY WhoIsThere DEF CatalogueInv, RowsOfCalls, NothingHeld, EventsShared, Inserters
<1> QED
  BY <1>1 DEF Release, CatalogueInv, CallTypes

\* create_event.
LEMMA CreateEventKeeps ==
  ASSUME CatalogueInv, NEW c \in Running, UNCHANGED req, CreateEvent(c)
  PROVE  CatalogueInv'
<1>0. c \in Calls /\ req \in Workloads /\ req[c].op = "event"
  BY WhoIsThere DEF Running, CatalogueInv, CallTypes, CreateEvent
<1>1. Release(c)
  BY <1>0, NothingToRelease DEF CreateEvent
<1>2. todo[c] = <<>> /\ pc[c] = "create"
  BY <1>0, NothingToDo DEF CreateEvent, TodoKinds
<1>3. todo' = [todo EXCEPT ![c] = <<>>] /\ pc' = [pc EXCEPT ![c] = "refresh"]
  BY <1>2 DEF CreateEvent, Goto, CatalogueInv, CallTypes
<1>4. \A x \in Own(c) : x[2] = "event"
  BY <1>0, OwnRows
<1>5. \A x \in Own(c) : DeletedWith(x) = {} /\ Restricts(x) = {} /\ \A y : ~ SamePlace(x, y)
  BY <1>0, <1>4, References, KindsDiffer DEF SamePlace
<1>6. "refresh" \in Labels(req[c].op)
  BY <1>0 DEF Labels
<1>7. live' = live \cup Own(c)
  BY DEF CreateEvent
<1> QED
  BY <1>0, <1>1, <1>2, <1>3, <1>5, <1>6, <1>7, PublishKeeps

\* The seats and tickets of a call refer to its event.
LEMMA EventOfStock ==
  ASSUME req \in Workloads, NEW c \in Calls, NEW x \in Own(c)
  PROVE  StockEvent(x) = EventRow(IF req[c].op = "seed" THEN c ELSE req[c].event)
BY OwnRows DEF StockEvent

\* The rows of a call that has not committed are not there.
LEMMA NotYetThere ==
  ASSUME CatalogueInv, NEW c \in Calls, pc[c] \notin {"refresh", "done"}, NEW k
  PROVE  <<c, k>> \notin live /\ \A d \in Calls : <<c, k>> \notin locked[d]
<1>1. <<c, k>> \notin live
  BY DEF CatalogueInv, RowsOfCalls
<1> QED
  BY <1>1 DEF CatalogueInv, CallTypes

\* seed.
LEMMA SeedKeeps ==
  ASSUME CatalogueInv, NEW c \in Running, UNCHANGED req, Seed(c)
  PROVE  CatalogueInv'
<1>0. c \in Calls /\ req \in Workloads /\ req[c].op = "seed" /\ pc[c] = "seed"
  BY WhoIsThere DEF Running, CatalogueInv, CallTypes, Seed
<1>1. Release(c)
  BY <1>0, NothingToRelease DEF Seed
<1>2. todo' = [todo EXCEPT ![c] = <<>>] /\ pc' = [pc EXCEPT ![c] = "done"]
  BY DEF Seed, Answer
<1>3. EventRow(c) \notin live /\ \A d \in Calls : EventRow(c) \notin locked[d]
  BY <1>0, NotYetThere DEF EventRow
<1>4. EventRow(c) \in Own(c)
  BY <1>0, OwnRows DEF EventRow, Rows, Kinds
<1>5. ASSUME NEW x \in Own(c)
      PROVE  DeletedWith(x) \subseteq {EventRow(c)} /\ Restricts(x) = {}
  <2>1. x[2] = "event" \/ x[2] \in Positions \cup {"ticket"}
    BY <1>0, OwnRows
  <2> QED BY <1>0, <2>1, References, EventOfStock
<1>6. ASSUME NEW x \in Own(c), NEW y \in live PROVE ~ SamePlace(x, y)
  <2> SUFFICES ASSUME SamePlace(x, y) PROVE FALSE
    OBVIOUS
  <2>1. StockEvent(y) = EventRow(c) /\ y[2] \in Positions
    BY <1>0, EventOfStock DEF SamePlace
  <2>2. y[1] \in Calls /\ y \in Own(y[1])
    BY DEF CatalogueInv, RowsOfCalls, CallTypes, Rows
  <2>3. DeletedWith(y) = {EventRow(c)}
    BY <1>0, <2>1, <2>2, References
  <2> QED BY <1>3, <2>3 DEF CatalogueInv, ReferencesHold
<1>7. ASSUME NEW x \in Own(c), NEW d \in Calls, NEW y \in inserted[d] PROVE ~ SamePlace(x, y)
  <2> SUFFICES ASSUME SamePlace(x, y) PROVE FALSE
    OBVIOUS
  <2>1. StockEvent(y) = EventRow(c) /\ y[2] \in Positions
    BY <1>0, EventOfStock DEF SamePlace
  <2>2. y \in Own(d) /\ pc[d] \in Inserters
    BY DEF CatalogueInv, RowsOfCalls
  <2>3. req[d].op = "seats"
    <3>1. req[d].op \in {"seed", "seats"}
      BY <1>0, <2>1, <2>2, OwnRows, KindsDiffer
    <3>2. pc[d] \in Labels(req[d].op)
      BY DEF CatalogueInv, CallTypes
    <3> QED BY <2>2, <3>1, <3>2 DEF Labels, Inserters
  <2>4. req[d].event = c
    BY <1>0, <2>1, <2>2, <2>3, EventOfStock DEF EventRow
  <2> QED BY <1>0, <2>2, <2>3, <2>4 DEF CatalogueInv, Found
<1>8. "done" \in Labels(req[c].op)
  BY <1>0 DEF Labels
<1>9. live' = live \cup Own(c)
  BY DEF Seed
<1>10. \A x \in Own(c) : /\ DeletedWith(x) \cup Restricts(x) \subseteq live \cup Own(c)
                         /\ \A d \in Calls : DeletedWith(x) \cap locked[d] = {}
  BY <1>3, <1>4, <1>5
<1>11. "done" \in Labels(req[c].op) \cap {"refresh", "done"}
  BY <1>8
<1> QED
  BY <1>0, <1>1, <1>2, <1>6, <1>7, <1>9, <1>10, <1>11, PublishKeeps

\* The commit of a ticket type, a batch of seats, a reservation or a settlement.
LEMMA CommitKeeps ==
  ASSUME CatalogueInv, NEW c \in Running, UNCHANGED req, CommitCall(c)
  PROVE  CatalogueInv'
<1>0. /\ c \in Calls /\ req \in Workloads /\ pc[c] = "commit"
      /\ req[c].op \in {"ticket", "seats", "reserve", "settle"}
  BY WhoIsThere DEF Running, CatalogueInv, CallTypes, CommitCall
<1> DEFINE New == inserted[c]
           l == IF req[c].op \in {"ticket", "seats"} THEN "refresh" ELSE "done"
<1>1. New \subseteq Own(c) /\ (req[c].op = "reserve" => New \in {{}, Own(c)})
  BY <1>0 DEF CatalogueInv, RowsOfCalls
<1>2. Release(c) /\ live' = live \cup New
  BY <1>0 DEF CommitCall, Commit, Deleted
<1>3. todo[c] = <<>>
  BY <1>0, NothingToDo DEF TodoKinds
<1>4. todo' = [todo EXCEPT ![c] = <<>>] /\ pc' = [pc EXCEPT ![c] = l]
  BY <1>3 DEF CommitCall, Goto, Answer, CatalogueInv, CallTypes
<1>5. l \in Labels(req[c].op) \cap {"refresh", "done"}
  BY <1>0 DEF Labels
<1>6. req[c].op # "settle" =>
        EventNeeded(c) \in live /\ \A d \in Calls : EventNeeded(c) \notin locked[d]
  BY <1>0 DEF CatalogueInv, EventsShared
<1>7. ASSUME NEW x \in New
      PROVE  /\ DeletedWith(x) \cup Restricts(x) \subseteq live \cup New
             /\ \A d \in Calls : DeletedWith(x) \cap locked[d] = {}
  <2>0. x \in Own(c)
    BY <1>1
  <2>1. CASE x[2] \in Positions \cup {"ticket"}
    <3>1. req[c].op \in {"ticket", "seats"}
      BY <1>0, <2>0, <2>1, OwnRows, KindsDiffer
    <3>2. DeletedWith(x) = {EventNeeded(c)} /\ Restricts(x) = {}
      BY <1>0, <2>0, <2>1, <3>1, References, EventOfStock DEF EventNeeded
    <3> QED BY <1>6, <3>1, <3>2
  <2>2. CASE x[2] = "reservation"
    <3>1. req[c].op = "reserve"
      BY <1>0, <2>0, <2>2, OwnRows, KindsDiffer
    <3>2. DeletedWith(x) = {} /\ Restricts(x) = {EventNeeded(c)}
      BY <1>0, <2>0, <2>2, <3>1, References DEF EventNeeded
    <3> QED BY <1>6, <3>1, <3>2
  <2>3. CASE x[2] = "child"
    <3>1. req[c].op = "reserve"
      BY <1>0, <2>0, <2>3, OwnRows, KindsDiffer
    <3>2. DeletedWith(x) = {ReservationRow(c)} /\ Restricts(x) = {req[c].stock}
      BY <1>0, <2>0, <2>3, References
    <3>3. ReservationRow(c) \in New
      BY <1>0, <1>1, <3>1, OwnRows DEF ReservationRow, Rows, Kinds
    <3>4. \A d \in Calls : ReservationRow(c) \notin locked[d]
      BY <1>0, NotYetThere DEF ReservationRow
    <3>5. req[c].stock \in live
      BY <1>0, <3>1 DEF CatalogueInv, StockHeld, CallTypes
    <3> QED BY <3>2, <3>3, <3>4, <3>5
  <2> QED BY <1>0, <2>0, <2>1, <2>2, <2>3, OwnRows
<1>8. \A x \in New : /\ \A y \in live : ~ SamePlace(x, y)
                     /\ \A d \in Calls \ {c} : \A y \in inserted[d] : ~ SamePlace(x, y)
  BY <1>0 DEF CatalogueInv, PlacesApart
<1>9. l = "refresh" => req[c].op \notin {"reserve", "settle", "reset"}
  OBVIOUS
<1> HIDE DEF New, l
<1> QED
  BY <1>0, <1>1, <1>2, <1>4, <1>5, <1>7, <1>8, <1>9, PublishKeeps

\* session.refresh.
LEMMA RefreshKeeps ==
  ASSUME CatalogueInv, NEW c \in Running, UNCHANGED req, Refresh(c)
  PROVE  CatalogueInv'
<1>0. /\ c \in Calls /\ pc[c] = "refresh" /\ req[c].op \in {"event", "ticket", "seats"}
  BY WhoIsThere DEF Running, Refresh
<1>1. /\ UNCHANGED database /\ pc' = [pc EXCEPT ![c] = "done"]
      /\ todo' = [todo EXCEPT ![c] = <<>>]
  BY DEF Refresh, Answer
<1>2. "done" \in Labels(req[c].op) /\ <<>> \in Seq(Rows) /\ Range(<<>>) = {}
  BY <1>0 DEF Labels, Range
<1>3. locked[c] = {}
  BY <1>0 DEF CatalogueInv, NothingHeld
<1>4. CascadesOf(c)'
  BY <1>0, <1>1 DEF CascadesOf, CatalogueInv, CallTypes
<1> QED
  BY <1>0, <1>1, <1>2, <1>3, <1>4, QuietKeeps DEF Inserters

\* get_event, before tickets or seats are added.
LEMMA FindKeeps ==
  ASSUME CatalogueInv, NEW c \in Running, UNCHANGED req, FindEvent(c)
  PROVE  CatalogueInv'
<1>0. /\ c \in Calls /\ pc[c] = "find" /\ req[c].op \in {"ticket", "seats"}
      /\ req \in Workloads /\ req[c].event \in Calls
  BY WhoIsThere, PayloadFields DEF Running, FindEvent, CatalogueInv, CallTypes
<1>1. UNCHANGED database /\ locked[c] = {} /\ Range(<<>>) = {} /\ <<>> \in Seq(Rows)
  BY <1>0 DEF FindEvent, CatalogueInv, NothingHeld, Range
<1>2. CASE EventRow(req[c].event) \notin live /\ Answer(c, "EVENT_NOT_FOUND")
  <2>1. pc' = [pc EXCEPT ![c] = "done"] /\ todo' = [todo EXCEPT ![c] = <<>>]
    BY <1>2 DEF Answer
  <2>2. "done" \in Labels(req[c].op)
    BY <1>0 DEF Labels
  <2>3. CascadesOf(c)'
    BY <1>0, <2>1 DEF CascadesOf, CatalogueInv, CallTypes
  <2> QED BY <1>0, <1>1, <2>1, <2>2, <2>3, QuietKeeps DEF Inserters
<1>3. ASSUME EventRow(req[c].event) \in live
      PROVE  pc[req[c].event] \in {"refresh", "done"}
  BY <1>3 DEF EventRow, CatalogueInv, RowsOfCalls
<1>4. CASE req[c].op = "ticket" /\ EventRow(req[c].event) \in live
           /\ pc' = [pc EXCEPT ![c] = "insert"] /\ todo' = [todo EXCEPT ![c] = <<>>]
  <2>1. "insert" \in Labels(req[c].op)
    BY <1>4 DEF Labels
  <2>2. CascadesOf(c)'
    BY <1>0, <1>4 DEF CascadesOf, CatalogueInv, CallTypes
  <2> QED BY <1>0, <1>1, <1>4, <2>1, <2>2, QuietKeeps DEF Inserters
<1>5. ASSUME req[c].op = "seats", EventRow(req[c].event) \in live,
             NEW s, s = [i \in DOMAIN req[c].seats |-> <<c, req[c].seats[i]>>],
             pc' = [pc EXCEPT ![c] = "seat"], todo' = [todo EXCEPT ![c] = s]
      PROVE  CatalogueInv'
  <2>1. req[c].seats \in Seq(Positions) /\ req[c].seats # <<>>
    BY <1>0, <1>5, PayloadFields
  <2>2. /\ Len(req[c].seats) \in Nat \ {0} /\ DOMAIN req[c].seats = 1..Len(req[c].seats)
        /\ \A i \in 1..Len(req[c].seats) : req[c].seats[i] \in Positions
    BY <2>1
  <2>3. s \in [1..Len(req[c].seats) -> Rows]
    BY <1>0, <1>5, <2>2 DEF Rows, Kinds
  <2>4. s \in Seq(Rows) /\ s # <<>>
    BY <2>2, <2>3
  <2>5. Range(s) \subseteq Own(c)
    <3>1. ASSUME NEW i \in 1..Len(req[c].seats) PROVE s[i] \in Own(c)
      <4>1. s[i] = <<c, req[c].seats[i]>> /\ req[c].seats[i] \in Range(req[c].seats)
        BY <1>5, <2>2, <3>1 DEF Range
      <4>2. s[i] \in Rows /\ s[i][1] = c /\ s[i][2] \in Positions
        BY <2>2, <2>3, <3>1, <4>1
      <4> QED BY <1>0, <1>5, <4>1, <4>2, OwnRows
    <3> QED BY <2>3, <3>1 DEF Range
  <2>6. Range(s) \subseteq Calls \X TodoKinds("seat")
    BY <1>0, <1>5, <2>2 DEF Range, TodoKinds
  <2>7. "seat" \in Labels(req[c].op)
    BY <1>5 DEF Labels
  <2>8. CascadesOf(c)'
    BY <1>0, <1>5 DEF CascadesOf, CatalogueInv, CallTypes
  <2> QED BY <1>0, <1>1, <1>3, <1>5, <2>4, <2>5, <2>6, <2>7, <2>8, QuietKeeps DEF Inserters
<1> QED
  BY <1>0, <1>2, <1>4, <1>5 DEF FindEvent

\* One row of the INSERT of create_seats.
LEMMA InsertSeatKeeps ==
  ASSUME CatalogueInv, NEW c \in Running, UNCHANGED req, InsertSeat(c)
  PROVE  CatalogueInv'
<1>1. CASE ~ Occupied(Head(todo[c])) /\ Insert(c, Head(todo[c]))
  BY <1>1, SeatKeeps DEF InsertSeat
<1>2. CASE Refuse(c, "SEAT_ALREADY_EXISTS")
  BY <1>2, RefuseKeeps
<1> QED
  BY <1>1, <1>2 DEF InsertSeat

\* The insert that refers to an event.
LEMMA CheckEventKeeps ==
  ASSUME CatalogueInv, NEW c \in Running, UNCHANGED req, CheckEvent(c)
  PROVE  CatalogueInv'
<1>0. c \in Calls /\ pc[c] = "insert" /\ Ready(c) /\ CallTypes
  BY DEF Running, CheckEvent, CatalogueInv
<1>1. CASE Refuse(c, RefusedInsert(c))
  BY <1>1, RefuseKeeps
<1>2. ASSUME EventThere(c), UNCHANGED <<live, locked>>, Goto(c, "commit"),
             shared' = [shared EXCEPT ![c] = CHOOSE e \in Needs(c) : TRUE],
             inserted' = [inserted EXCEPT ![c] = IF req[c].op = "seats" THEN @ ELSE Own(c)]
      PROVE  CatalogueInv'
  <2> DEFINE New == IF req[c].op = "seats" THEN inserted[c] ELSE Own(c)
  <2>1. Needs(c) = {EventNeeded(c)}
    BY <1>0, EventIsFree
  <2>2. EventNeeded(c) \in live
    BY <1>2, <2>1 DEF EventThere
  <2>3. (CHOOSE e \in Needs(c) : TRUE) = EventNeeded(c)
    BY <2>1
  <2>4. shared' = [shared EXCEPT ![c] = EventNeeded(c)]
    BY <1>2, <2>3
  <2>5. inserted' = [inserted EXCEPT ![c] = New]
    BY <1>0, <1>2 DEF CallTypes
  <2>6. New \in SUBSET Own(c)
    BY <1>0 DEF CatalogueInv, RowsOfCalls
  <2>7. UNCHANGED <<req, live, locked, todo>> /\ pc' = [pc EXCEPT ![c] = "commit"]
    BY <1>2 DEF Goto
  <2>8. /\ req[c].op = "seats" => New = inserted[c]
        /\ req[c].op = "reserve" => New = Own(c)
    OBVIOUS
  <2> HIDE DEF New
  <2> QED BY <1>0, <2>2, <2>4, <2>5, <2>6, <2>7, <2>8, CheckKeeps
<1> QED
  BY <1>1, <1>2 DEF CheckEvent

\* The UPDATE of the ticket type or the FOR UPDATE of the seat.
LEMMA LockStockKeeps ==
  ASSUME CatalogueInv, NEW c \in Running, UNCHANGED req, LockStock(c)
  PROVE  CatalogueInv'
<1>0. /\ c \in Calls /\ pc[c] = "stock" /\ Ready(c) /\ CallTypes /\ req[c].op = "reserve"
      /\ req \in Workloads
  BY WhoIsThere DEF Running, LockStock, CatalogueInv, CallTypes
<1>1. CASE Refuse(c, "UNAVAILABLE")
  BY <1>1, RefuseKeeps
<1>2. ASSUME req[c].stock \in live, Lock(c, Needs(c)), Goto(c, "insert"),
             UNCHANGED <<live, inserted, shared>>
      PROVE  CatalogueInv'
  <2>1. todo[c] = <<>>
    BY <1>0, NothingToDo DEF TodoKinds
  <2>2. Needs(c) = {req[c].stock}
    BY <1>0, <2>1 DEF Needs
  <2>3. req[c].stock[2] # "event"
    BY <1>0, PayloadFields, KindsDiffer
  <2>4. pc' = [pc EXCEPT ![c] = "insert"] /\ todo' = [todo EXCEPT ![c] = <<>>]
    BY <1>0, <1>2, <2>1 DEF Goto, CallTypes
  <2>5. <<>> \in Seq(Rows) /\ Range(<<>>) = {} /\ "insert" \in Labels(req[c].op)
    BY <1>0 DEF Labels, Range
  <2>6. CascadesOf(c)'
    BY <1>0, <2>4 DEF CascadesOf, CallTypes
  <2>7. /\ Needs(c) \in SUBSET live /\ req[c].stock \in Needs(c)
        /\ \A x \in Needs(c) : x[2] = "event" => pc[c] = "events"
    BY <1>2, <2>2, <2>3
  <2> HIDE DEF Needs
  <2> QED BY <1>0, <1>2, <2>4, <2>5, <2>6, <2>7, LockKeeps DEF Inserters
<1> QED
  BY <1>1, <1>2 DEF LockStock

\* get_owned_reservation ... FOR UPDATE.
LEMMA LockParentKeeps ==
  ASSUME CatalogueInv, NEW c \in Running, UNCHANGED req, LockParent(c)
  PROVE  CatalogueInv'
<1>0. /\ c \in Calls /\ pc[c] = "parent" /\ Ready(c) /\ CallTypes /\ req[c].op = "settle"
      /\ req \in Workloads /\ req[c].target \in Calls
  BY WhoIsThere, PayloadFields DEF Running, LockParent, CatalogueInv, CallTypes
<1>1. CASE Refuse(c, "SETTLED") \/ Refuse(c, "RESERVATION_NOT_FOUND")
  BY <1>1, RefuseKeeps
<1>2. ASSUME Needs(c) \subseteq live, Lock(c, Needs(c)), UNCHANGED <<live, inserted, shared>>,
             NEW l \in {"counters", "child"}, Goto(c, l)
      PROVE  CatalogueInv'
  <2>1. todo[c] = <<>>
    BY <1>0, NothingToDo DEF TodoKinds
  <2>2. Needs(c) = {ReservationRow(req[c].target)}
    BY <1>0, <2>1 DEF Needs
  <2>3. req[req[c].target].op = "reserve"
    <3>1. ReservationRow(req[c].target) \in Own(req[c].target)
      BY <1>2, <2>2 DEF CatalogueInv, RowsOfCalls, ReservationRow
    <3> QED BY <1>0, <3>1, OwnRows, KindsDiffer DEF ReservationRow
  <2>4. pc' = [pc EXCEPT ![c] = l] /\ todo' = [todo EXCEPT ![c] = <<>>]
    BY <1>0, <1>2, <2>1 DEF Goto, CallTypes
  <2>5. <<>> \in Seq(Rows) /\ Range(<<>>) = {} /\ l \in Labels(req[c].op)
    BY <1>0, <1>2 DEF Labels, Range
  <2>6. CascadesOf(c)'
    BY <1>0, <1>2, <2>4 DEF CascadesOf, CallTypes
  <2>7. Needs(c) \in SUBSET live /\ \A x \in Needs(c) : x[2] = "event" => pc[c] = "events"
    BY <1>2, <2>2 DEF ReservationRow
  <2> HIDE DEF Needs
  <2> QED BY <1>0, <1>2, <2>3, <2>4, <2>5, <2>6, <2>7, LockKeeps DEF Inserters
<1> QED
  BY <1>1, <1>2 DEF LockParent

\* The UPDATEs of the ticket type and of the child.
LEMMA LockNextKeeps ==
  ASSUME CatalogueInv, NEW c \in Running, UNCHANGED req, LockNext(c)
  PROVE  CatalogueInv'
<1>0. /\ c \in Calls /\ pc[c] \in {"counters", "child"} /\ Ready(c) /\ CallTypes
      /\ req[c].op = "settle" /\ req \in Workloads /\ req[c].target \in Calls
      /\ req[req[c].target].op = "reserve"
  BY WhoIsThere, PayloadFields DEF Running, LockNext, CatalogueInv, CallTypes, Found
<1> DEFINE l == IF pc[c] = "counters" THEN "child" ELSE "commit"
           S == Needs(c) \cap live
<1>1. todo[c] = <<>>
  BY <1>0, NothingToDo DEF TodoKinds
<1>2. Needs(c) \in {{req[req[c].target].stock}, {ChildRow(req[c].target)}}
  BY <1>0, <1>1 DEF Needs
<1>3. \A x \in S : x[2] # "event"
  BY <1>0, <1>2, PayloadFields, KindsDiffer DEF ChildRow
<1>4. /\ pc' = [pc EXCEPT ![c] = l] /\ todo' = [todo EXCEPT ![c] = <<>>]
      /\ Lock(c, S) /\ UNCHANGED <<live, inserted, shared>>
  BY <1>0, <1>1 DEF LockNext, Goto, CallTypes
<1>5. <<>> \in Seq(Rows) /\ Range(<<>>) = {} /\ l \in Labels(req[c].op) \cap {"child", "commit"}
  BY <1>0 DEF Labels, Range
<1>6. S \in SUBSET live /\ S \subseteq Needs(c)
  OBVIOUS
<1> HIDE DEF l, S
<1>7. CascadesOf(c)'
  BY <1>0, <1>4, <1>5 DEF CascadesOf, CallTypes
<1> QED
  BY <1>0, <1>3, <1>4, <1>5, <1>6, <1>7, LockKeeps DEF Inserters

\* The counting of a reset.
LEMMA CountKeeps ==
  ASSUME CatalogueInv, NEW c \in Running, UNCHANGED req, Count(c)
  PROVE  CatalogueInv'
<1>0. c \in Calls /\ pc[c] = "count" /\ CallTypes /\ req[c].op = "reset"
  BY WhoIsThere DEF Running, Count, CatalogueInv
<1>1. todo[c] = <<>>
  BY <1>0, NothingToDo DEF TodoKinds
<1>2. /\ pc' = [pc EXCEPT ![c] = "counted"] /\ todo' = [todo EXCEPT ![c] = <<>>]
      /\ UNCHANGED database
  BY <1>0, <1>1 DEF Count, CallTypes
<1>3. <<>> \in Seq(Rows) /\ Range(<<>>) = {} /\ "counted" \in Labels(req[c].op)
  BY <1>0 DEF Labels, ResetLabels, Range
<1>4. CascadesOf(c)'
  BY <1>0, <1>2 DEF CascadesOf, CallTypes
<1> QED
  BY <1>0, <1>2, <1>3, <1>4, QuietKeeps DEF Inserters

\* What a statement of a reset deletes is committed, not deleted yet, and of its kind.
LEMMA TargetKinds ==
  ASSUME CatalogueInv, NEW c \in Calls, NEW l
  PROVE  /\ Targets(c, l) \subseteq live \ locked[c]
         /\ Targets(c, l) \subseteq Calls \X TodoKinds(l)
<1>1. Targets(c, l) \subseteq live \ locked[c]
  BY DEF Targets
<1>2. ASSUME NEW x \in Targets(c, l) PROVE x[2] \in TodoKinds(l)
  <2>1. x \in live /\ x[1] \in Calls /\ x \in Own(x[1]) /\ req \in Workloads
    BY <1>1, <1>2 DEF CatalogueInv, RowsOfCalls, CallTypes, Rows
  <2>2. CASE l \in {"holds", "items"}
    BY <1>2, <2>2 DEF Targets, TodoKinds
  <2>3. CASE l = "reservations"
    BY <1>2, <2>3 DEF Targets, TodoKinds
  <2>4. CASE l = "events"
    BY <1>2, <2>4 DEF Targets, TodoKinds, DeletedEvents, StressEvents
  <2>5. CASE l \in {"children", "inventory"}
    <3>1. DeletedWith(x) # {}
      BY <1>2, <2>5 DEF Targets
    <3>2. x[2] = "child" \/ x[2] \in Positions \cup {"ticket"}
      BY <3>1 DEF DeletedWith
    <3> QED BY <2>5, <3>2 DEF TodoKinds
  <2>6. CASE l \notin {"holds", "items", "reservations", "events", "children", "inventory"}
    BY <1>2, <2>6 DEF Targets
  <2> QED BY <2>2, <2>3, <2>4, <2>5, <2>6
<1> QED
  BY <1>1, <1>2 DEF CatalogueInv, CallTypes, Rows

\* An order of rows is a sequence of all of them.
LEMMA OrderedRows ==
  ASSUME NEW T \in SUBSET Rows, NEW order \in Orders(T)
  PROVE  order \in Seq(Rows) /\ Range(order) = T
<1>1. IsFiniteSet(Kinds)
  <2>1. IsFiniteSet({"event", "ticket", "reservation", "child"})
    <3>1. \A x : IsFiniteSet({x})
      BY FS_Singleton
    <3>2. IsFiniteSet({"event"} \cup {"ticket"}) /\ IsFiniteSet({"reservation"} \cup {"child"})
      BY <3>1, FS_Union
    <3>3. IsFiniteSet(({"event"} \cup {"ticket"}) \cup ({"reservation"} \cup {"child"}))
      BY <3>2, FS_Union
    <3>4. ({"event"} \cup {"ticket"}) \cup ({"reservation"} \cup {"child"})
            = {"event", "ticket", "reservation", "child"}
      OBVIOUS
    <3> QED BY <3>3, <3>4
  <2> QED BY <2>1, CatalogueAssumption, FS_Union DEF Kinds
<1>2. IsFiniteSet(Rows)
  BY <1>1, CatalogueAssumption, FS_Product DEF Rows
<1>3. IsFiniteSet(T)
  BY <1>2, FS_Subset
<1>4. Cardinality(T) \in Nat
  BY <1>3, FS_CardinalityType
<1>5. order \in [1..Cardinality(T) -> T] /\ Range(order) = T
  BY DEF Orders
<1> QED
  BY <1>4, <1>5

\* The start of a statement of a reset.
LEMMA StartDeleteKeeps ==
  ASSUME CatalogueInv, NEW c \in Running, UNCHANGED req, StartDelete(c)
  PROVE  CatalogueInv'
<1> DEFINE l == Following[pc[c]]
           T == Targets(c, l)
<1>0. /\ c \in Calls /\ pc[c] \in ResetLabels \ {"check"} /\ CallTypes /\ req[c].op = "reset"
      /\ todo[c] = <<>> /\ UNCHANGED database
  BY WhoIsThere DEF Running, StartDelete, CatalogueInv, Following, ResetLabels
<1>1. PICK order \in Orders(T) : todo' = [todo EXCEPT ![c] = order]
  BY DEF StartDelete
<1>2. pc' = [pc EXCEPT ![c] = l] /\ pc'[c] = l /\ todo'[c] = order
  BY <1>0, <1>1 DEF StartDelete, CallTypes
<1>3. /\ l \in ResetLabels \ {"counted"}
      /\ l = "events" => pc[c] = "children"
      /\ l = "check" => pc[c] = "inventory"
  BY <1>0 DEF Following, ResetLabels
<1>4. T \subseteq live \ locked[c] /\ T \subseteq Calls \X TodoKinds(l)
  BY <1>0, TargetKinds
<1>5. order \in Seq(Rows) /\ Range(order) = T
  BY <1>0, <1>1, <1>4, OrderedRows DEF CallTypes
<1>6. l \in Labels(req[c].op)
  BY <1>0, <1>3 DEF Labels
<1>7. l \in {"children", "inventory"} =>
        T = {x \in live \ locked[c] : DeletedWith(x) \cap locked[c] # {}}
  BY DEF Targets
<1>8. Range(todo[c]) = {}
  BY <1>0 DEF Range
<1> HIDE DEF l, T
<1>9. CascadesOf(c)'
  <2>1. UNCHANGED <<live, locked>>
    BY <1>0 DEF database
  <2>2. CASE l \in {"children", "inventory"}
    BY <1>2, <1>5, <1>7, <2>1, <2>2, MeaningStays DEF CascadesOf
  <2>3. CASE l \in {"events", "check"}
    <3>1. CascadesOf(c)
      BY <1>0 DEF CatalogueInv, Cascades
    <3> QED BY <1>2, <1>3, <1>8, <2>1, <2>3, <3>1, MeaningStays DEF CascadesOf
  <2>4. CASE l \notin {"children", "inventory", "events", "check"}
    BY <1>2, <2>4 DEF CascadesOf
  <2> QED BY <2>2, <2>3, <2>4
<1> QED
  BY <1>0, <1>1, <1>2, <1>3, <1>4, <1>5, <1>6, <1>9, QuietKeeps DEF Inserters, ResetLabels

\* A row that a statement of a reset deletes, unless somebody else has.
LEMMA DeleteRowKeeps ==
  ASSUME CatalogueInv, NEW c \in Running, UNCHANGED req, DeleteRow(c)
  PROVE  CatalogueInv'
<1> DEFINE h == Head(todo[c])
           s == Tail(todo[c])
           S == {h} \cap live
<1>0. /\ c \in Calls /\ pc[c] \in ResetLabels \ {"check"} /\ CallTypes /\ req[c].op = "reset"
      /\ todo[c] # <<>> /\ todo[c] \in Seq(Rows) /\ Ready(c)
      /\ UNCHANGED <<live, inserted, shared>>
  BY WhoIsThere DEF Running, DeleteRow, CatalogueInv, CallTypes, Following, ResetLabels
<1>1. Lock(c, S) /\ todo' = [todo EXCEPT ![c] = s] /\ pc' = [pc EXCEPT ![c] = pc[c]]
  <2>1. UNCHANGED pc /\ pc = [pc EXCEPT ![c] = pc[c]]
    BY <1>0 DEF DeleteRow, CallTypes
  <2> QED BY <2>1 DEF DeleteRow
<1>2. Needs(c) = {h}
  BY <1>0 DEF Needs, ResetLabels
<1>3. /\ h \in Range(todo[c]) /\ s \in Seq(Rows) /\ Range(s) \subseteq Range(todo[c])
      /\ Range(todo[c]) \subseteq {h} \cup Range(s)
  BY <1>0, HeadAndTail
<1>4. Range(todo[c]) \subseteq Calls \X TodoKinds(pc[c])
  BY <1>0 DEF CallTypes
<1>5. h[2] \in TodoKinds(pc[c]) /\ Range(s) \subseteq Calls \X TodoKinds(pc[c])
  BY <1>3, <1>4
<1>6. h[2] = "event" => pc[c] = "events"
  BY <1>0, <1>5, KindsDiffer DEF TodoKinds, ResetLabels
<1>7. pc[c] \in Labels(req[c].op)
  BY <1>0 DEF CallTypes
<1>8. pc'[c] = pc[c] /\ todo'[c] = s /\ locked'[c] = locked[c] \cup S
  BY <1>0, <1>1 DEF CallTypes, Lock
<1>9. S \in SUBSET live /\ S \subseteq Needs(c) /\ (\A x \in S : x = h)
      /\ (h \in live => h \in S)
  BY <1>2
<1> HIDE DEF h, s, S
<1>10. CascadesOf(c)'
  <2> SUFFICES ASSUME pc[c] \in {"children", "events", "inventory"}, NEW x \in live,
                      DeletedWith(x) \cap (locked[c] \cup S) # {},
                      x[2] = "child" \/ pc[c] = "inventory"
               PROVE  x \in locked[c] \cup S \cup Range(s)
    BY <1>0, <1>8, MeaningStays DEF CascadesOf, ResetLabels
  <2>1. h \notin DeletedWith(x)
    <3>1. x[2] = "child" => DeletedWith(x) = {ReservationRow(x[1])}
      BY KindsDiffer DEF DeletedWith
    <3>2. CASE x[2] = "child"
      <4>1. h[2] # "reservation"
        BY <1>5, KindsDiffer DEF TodoKinds
      <4> QED BY <3>1, <3>2, <4>1 DEF ReservationRow
    <3>3. CASE x[2] # "child"
      <4>1. pc[c] = "inventory" /\ h[2] # "event"
        BY <1>6, <3>3
      <4>2. x \in Own(x[1]) /\ x[1] \in Calls /\ req \in Workloads
        BY DEF CatalogueInv, RowsOfCalls, CallTypes, Rows
      <4>3. DeletedWith(x) \subseteq {StockEvent(x)}
        BY <3>3, <4>2, References, OwnRows
      <4> QED BY <4>1, <4>3, EventKind
    <3> QED BY <3>2, <3>3
  <2>2. DeletedWith(x) \cap locked[c] # {}
    BY <1>9, <2>1
  <2>3. x \in locked[c] \cup Range(todo[c])
    BY <1>0, <2>2 DEF CatalogueInv, Cascades, CascadesOf
  <2> QED BY <1>3, <1>9, <2>3
<1>11. /\ pc[c] \notin Inserters \cup {"refresh", "done"}
       /\ pc[c] \notin {"seat", "refresh", "done", "commit", "counters", "child"}
  BY <1>0 DEF Inserters, ResetLabels
<1>12. \A x \in S : x[2] = "event" => pc[c] = "events"
  BY <1>6, <1>9
<1>13. UNCHANGED <<live, inserted, shared, req>> /\ Ready(c) /\ req[c].op = "reset"
  BY <1>0
<1> QED
  BY <1>1, <1>3, <1>5, <1>7, <1>9, <1>10, <1>11, <1>12, <1>13, LockKeeps

\* The checks and the commit of a reset.
LEMMA FinishResetKeeps ==
  ASSUME CatalogueInv, NEW c \in Running, UNCHANGED req, FinishReset(c)
  PROVE  CatalogueInv'
BY ResetKeeps, RefuseKeeps DEF FinishReset

\* Nothing happens any more.
LEMMA NothingKeeps ==
  ASSUME CatalogueInv, UNCHANGED vars
  PROVE  CatalogueInv'
<1>1. UNCHANGED <<live, inserted, locked, shared, req, pc, todo>>
  BY DEF vars, database
<1>2. \A c : CascadesOf(c)' = CascadesOf(c)
  BY <1>1, MeaningStays DEF CascadesOf
<1>3. CallTypes' /\ RowsOfCalls' /\ NothingHeld' /\ OneHolder'
  BY <1>1, MeaningStays DEF CatalogueInv, CallTypes, RowsOfCalls, NothingHeld, OneHolder
<1>4. EventsShared' /\ StockHeld' /\ Found'
  BY <1>1, MeaningStays DEF CatalogueInv, EventsShared, StockHeld, Found
<1>5. PlacesApart' /\ ReferencesHold'
  BY <1>1, MeaningStays DEF CatalogueInv, PlacesApart, ReferencesHold
<1> QED
  BY <1>2, <1>3, <1>4, <1>5 DEF CatalogueInv, Cascades

-----------------------------------------------------------------------------
(* The theorem *)

\* The rows a database holds at the start, if their references are right.
LEMMA CatalogueInit == Init /\ ReferencesHold => CatalogueInv
<1> SUFFICES ASSUME Init, ReferencesHold PROVE CatalogueInv
  OBVIOUS
<1>0. req \in Workloads /\ Before \subseteq Calls
  BY CatalogueAssumption DEF Init
<1>1. \A x \in live : x \in Rows /\ x[1] \in Before /\ x \in Own(x[1])
  BY <1>0, OwnRows DEF Init
<1>2. /\ \A c \in Calls : /\ inserted[c] = {} /\ locked[c] = {} /\ shared[c] = None
                          /\ todo[c] = <<>>
                          /\ pc[c] = IF c \in Before THEN "done" ELSE First(c)
      /\ Range(<<>>) = {}
  BY DEF Init, Range
<1>3. \A c \in Calls : /\ pc[c] \in Labels(req[c].op)
                       /\ pc[c] \notin {"seat", "insert", "commit", "counters", "child",
                                        "children", "events", "inventory", "check"}
  BY <1>0, <1>2, PayloadFields DEF First, Labels
<1>4. CallTypes
  <2>1. <<>> \in Seq(Rows)
    OBVIOUS
  <2>2. /\ inserted \in [Calls -> SUBSET Rows] /\ locked \in [Calls -> SUBSET live]
        /\ shared \in [Calls -> Rows \cup {None}] /\ todo \in [Calls -> Seq(Rows)]
        /\ pc = [c \in Calls |-> pc[c]]
    BY <2>1 DEF Init
  <2> QED BY <1>0, <1>1, <1>2, <1>3, <2>2 DEF CallTypes
<1>5. RowsOfCalls
  <2>1. ASSUME NEW x \in live PROVE x \in Own(x[1]) /\ pc[x[1]] = "done"
    BY <1>0, <1>1, <1>2, <2>1
  <2> QED BY <1>2, <1>3, <2>1 DEF RowsOfCalls
<1>6. NothingHeld /\ OneHolder
  BY <1>0, <1>2 DEF NothingHeld, OneHolder
<1>7. EventsShared /\ StockHeld /\ Found
  BY <1>2, <1>3 DEF EventsShared, StockHeld, Found, Inserters
<1>8. PlacesApart /\ Cascades
  BY <1>2, <1>3 DEF PlacesApart, Cascades, CascadesOf
<1> QED
  BY <1>4, <1>5, <1>6, <1>7, <1>8 DEF CatalogueInv

\* Every step.
LEMMA NextKeepsCatalogue == CatalogueInv /\ [Next]_vars => CatalogueInv'
<1> SUFFICES ASSUME CatalogueInv, [Next]_vars PROVE CatalogueInv'
  OBVIOUS
<1>1. ASSUME NEW c \in Running, Step(c) PROVE CatalogueInv'
  <2>1. UNCHANGED req
    BY <1>1 DEF Step
  <2>2. CASE CreateEvent(c)
    BY <2>1, <2>2, CreateEventKeeps
  <2>3. CASE Seed(c)
    BY <2>1, <2>3, SeedKeeps
  <2>4. CASE Refresh(c)
    BY <2>1, <2>4, RefreshKeeps
  <2>5. CASE FindEvent(c)
    BY <2>1, <2>5, FindKeeps
  <2>6. CASE InsertSeat(c)
    BY <2>1, <2>6, InsertSeatKeeps
  <2>7. CASE CheckEvent(c)
    BY <2>1, <2>7, CheckEventKeeps
  <2>8. CASE CommitCall(c)
    BY <2>1, <2>8, CommitKeeps
  <2>9. CASE LockStock(c)
    BY <2>1, <2>9, LockStockKeeps
  <2>10. CASE LockParent(c)
    BY <2>1, <2>10, LockParentKeeps
  <2>11. CASE LockNext(c)
    BY <2>1, <2>11, LockNextKeeps
  <2>12. CASE Count(c)
    BY <2>1, <2>12, CountKeeps
  <2>13. CASE StartDelete(c)
    BY <2>1, <2>13, StartDeleteKeeps
  <2>14. CASE DeleteRow(c)
    BY <2>1, <2>14, DeleteRowKeeps
  <2>15. CASE FinishReset(c)
    BY <2>1, <2>15, FinishResetKeeps
  <2> QED
    BY <1>1, <2>2, <2>3, <2>4, <2>5, <2>6, <2>7, <2>8, <2>9, <2>10, <2>11, <2>12, <2>13,
       <2>14, <2>15 DEF Step
<1>2. ASSUME NEW c \in Running, DeadlockVictim(c) \/ Crash(c) PROVE CatalogueInv'
  BY <1>2, RefuseKeeps DEF DeadlockVictim, Crash
<1>3. CASE UNCHANGED vars
  BY <1>3, NothingKeeps
<1> QED
  BY <1>1, <1>2, <1>3 DEF Next

\* If the rows that are there at the start refer to rows that are there, and no
\* two seats of an event have one position, it stays so: whatever is created,
\* reserved, settled and reset at the same time, refused, aborted or cut off.
THEOREM ReferencesAlwaysHold == ReferencesHold /\ Spec => []ReferencesHold
<1>1. CatalogueInv => ReferencesHold
  BY DEF CatalogueInv
<1> QED
  BY <1>1, CatalogueInit, NextKeepsCatalogue, PTL DEF Spec

-----------------------------------------------------------------------------
(* Whole batches and whole events: the invariant *)

WholeTypes ==
  counted = [c \in Calls |-> counted[c]] /\ reply = [c \in Calls |-> reply[c]]

\* A row whose call is past its commit: if it is not there it never will be.
Past(x) == x[1] \in Calls /\ pc[x[1]] \in {"refresh", "done"}

\* What a reset deletes, or is about to.
Seized(c) == locked[c] \cup Range(todo[c])

\* It takes rows of seeded events only, from DELETE FROM events on each together
\* with its event, and by then all events it has counted, if they are there.
ResetOf(c) ==
  /\ \A x \in Seized(c) : Past(x) /\ Stress(EventOf(x))
  /\ \A x \in counted[c] : Past(x) /\ x[2] = "event" /\ Stress(x)
  /\ pc[c] \in {"events", "inventory", "check"} =>
       /\ \A x \in Seized(c) \cap live : EventOf(x) \in Seized(c)
       /\ counted[c] \cap live \subseteq Seized(c)
  /\ reply[c] = "OK" => pc[c] = "done" /\ counted[c] \cap live = {}

\* The seats of a batch are those still to insert and those inserted; once they
\* are committed they are there as long as their event is.
BatchOf(c) ==
  /\ pc[c] = "seat" => inserted[c] \cup Range(todo[c]) = Own(c)
  /\ pc[c] \in {"insert", "commit"} => inserted[c] = Own(c)
  /\ Own(c) \cap live \in {{}, Own(c)}
  /\ reply[c] = "SEAT_ALREADY_EXISTS" => pc[c] = "done" /\ Own(c) \cap live = {}
  /\ reply[c] = "OK" \/ pc[c] = "refresh" =>
       /\ pc[c] \in {"refresh", "done"} /\ pc[req[c].event] \in {"refresh", "done"}
       /\ EventRow(req[c].event) \in live => Own(c) \subseteq live

WholeInv ==
  /\ CatalogueInv /\ WholeTypes
  /\ \A c \in Calls : /\ req[c].op = "reset" => ResetOf(c)
                      /\ req[c].op = "seats" => BatchOf(c)

\* What a call may do next, if nothing stops it.
Moves(c) == Step(c) \/ DeadlockVictim(c) \/ Crash(c)

-----------------------------------------------------------------------------
(* Which event a row belongs to *)

\* An event belongs to itself, a child to the event of its parent, stock to the
\* event it is deleted with.
LEMMA EventOfKinds ==
  ASSUME NEW x
  PROVE  /\ x[2] = "event" => EventOf(x) = x
         /\ x[2] = "child" => /\ DeletedWith(x) = {ReservationRow(x[1])}
                              /\ EventOf(ReservationRow(x[1])) = EventOf(x)
         /\ x[2] \in Positions \cup {"ticket"} =>
              DeletedWith(x) = {EventOf(x)} /\ EventOf(x) = StockEvent(x)
BY KindsDiffer DEF EventOf, DeletedWith, ReservationRow

\* Payloads do not change, nor which event a row belongs to.
LEMMA EventStays ==
  ASSUME UNCHANGED req
  PROVE  \A x : EventOf(x)' = EventOf(x) /\ (Stress(x)' <=> Stress(x))
BY DEF EventOf, StockEvent, EventRow, Stress

\* A row that is there has its event there.
LEMMA EventIsThere ==
  ASSUME CatalogueInv, NEW x \in live
  PROVE  EventOf(x) \in live /\ EventOf(x)[2] = "event"
<1>0. /\ x[1] \in Calls /\ x \in Own(x[1]) /\ x[2] \in Kinds /\ req \in Workloads
      /\ \A y \in live : DeletedWith(y) \cup Restricts(y) \subseteq live
  BY WhoCommitted DEF Rows, CatalogueInv, CallTypes, ReferencesHold
<1>1. CASE x[2] = "event"
  BY <1>1, EventOfKinds
<1>2. CASE x[2] \in Positions \cup {"ticket"}
  BY <1>0, <1>2, EventOfKinds, EventKind
<1>3. CASE x[2] = "reservation"
  <2>1. Restricts(x) = {StockEvent(req[x[1]].stock)} /\ EventOf(x) = StockEvent(req[x[1]].stock)
    BY <1>0, <1>3, References DEF EventOf
  <2> QED BY <1>0, <2>1, EventKind
<1>4. CASE x[2] = "child"
  <2> DEFINE s == req[x[1]].stock
  <2>1. Restricts(x) = {s} /\ EventOf(x) = StockEvent(s)
    BY <1>0, <1>4, References DEF EventOf
  <2>2. s \in live
    BY <1>0, <2>1
  <2>3. req[x[1]].op = "reserve"
    BY <1>0, <1>4, OwnRows, KindsDiffer
  <2>4. s[2] \in Positions \cup {"ticket"}
    BY <1>0, <2>3, PayloadFields
  <2>5. DeletedWith(s) = {StockEvent(s)}
    BY <2>4, EventOfKinds
  <2> QED BY <1>0, <2>1, <2>2, <2>5, EventKind
<1> QED
  BY <1>0, <1>1, <1>2, <1>3, <1>4 DEF Kinds

\* The seats of a batch belong to its event.
LEMMA EventOfBatch ==
  ASSUME req \in Workloads, NEW c \in Calls, req[c].op = "seats"
  PROVE  /\ req[c].event \in Calls /\ \E x \in Own(c) : TRUE
         /\ \A x \in Own(c) : /\ x[1] = c /\ EventOf(x) = EventRow(req[c].event)
                              /\ DeletedWith(x) = {EventRow(req[c].event)}
<1>1. req[c].event \in Calls /\ req[c].seats \in Seq(Positions) /\ req[c].seats # <<>>
  BY PayloadFields
<1>2. \E x \in Own(c) : TRUE
  <2>1. 1 \in DOMAIN req[c].seats
    BY <1>1
  <2>2. req[c].seats[1] \in Range(req[c].seats)
    BY <2>1 DEF Range
  <2>3. <<c, req[c].seats[1]>> \in Own(c)
    BY <2>2 DEF Own
  <2> QED BY <2>3
<1>3. ASSUME NEW x \in Own(c)
      PROVE  x[1] = c /\ EventOf(x) = EventRow(req[c].event)
             /\ DeletedWith(x) = {EventRow(req[c].event)}
  <2>1. x[1] = c /\ x[2] \in Positions
    BY OwnRows
  <2>2. StockEvent(x) = EventRow(req[c].event)
    BY EventOfStock
  <2> QED BY <2>1, <2>2, EventOfKinds
<1> QED
  BY <1>1, <1>2, <1>3

-----------------------------------------------------------------------------
(* What a step of one call does to the rest *)

\* The other calls stay where they are.
LEMMA OneCall ==
  ASSUME CatalogueInv, WholeTypes, NEW c \in Running, Moves(c)
  PROVE  /\ UNCHANGED req /\ WholeTypes'
         /\ \A d \in Calls \ {c} :
              /\ pc'[d] = pc[d] /\ todo'[d] = todo[d] /\ inserted'[d] = inserted[d]
              /\ locked'[d] = locked[d] /\ counted'[d] = counted[d] /\ reply'[d] = reply[d]
         /\ \A d \in Calls : counted'[d] = counted[d] \/ pc'[d] = "counted"
<1>0. /\ c \in Calls /\ CallTypes /\ counted = [d \in Calls |-> counted[d]]
      /\ reply = [d \in Calls |-> reply[d]]
  BY DEF Running, CatalogueInv, WholeTypes
<1>1. CASE CreateEvent(c) \/ Seed(c) \/ Refresh(c) \/ FindEvent(c)
  BY <1>0, <1>1 DEF Moves, Step, DeadlockVictim, Crash, Refuse, Answer,
     CreateEvent, Seed, Refresh, FindEvent, Goto, database, CallTypes, WholeTypes
<1>2. ASSUME NEW code, Refuse(c, code) PROVE /\ UNCHANGED counted
        /\ pc' = [pc EXCEPT ![c] = "done"] /\ todo' = [todo EXCEPT ![c] = <<>>]
        /\ reply' = [reply EXCEPT ![c] = code]
        /\ inserted' = [inserted EXCEPT ![c] = {}] /\ locked' = [locked EXCEPT ![c] = {}]
  BY <1>2 DEF Refuse, Answer, Rollback, Release
<1>3. UNCHANGED req
  BY DEF Moves, Step, DeadlockVictim, Crash
<1>4. ASSUME NEW code, Refuse(c, code) PROVE WholeTypes' /\ \A d \in Calls \ {c} :
              /\ pc'[d] = pc[d] /\ todo'[d] = todo[d] /\ inserted'[d] = inserted[d]
              /\ locked'[d] = locked[d] /\ counted'[d] = counted[d] /\ reply'[d] = reply[d]
  BY <1>0, <1>2, <1>4 DEF CallTypes, WholeTypes
<1>5. CASE InsertSeat(c)
  <2>1. CASE Insert(c, Head(todo[c]))
    BY <1>0, <1>3, <2>1 DEF Insert, CallTypes, WholeTypes
  <2>2. CASE Refuse(c, "SEAT_ALREADY_EXISTS")
    BY <1>2, <1>3, <1>4, <2>2
  <2> QED BY <1>5, <2>1, <2>2 DEF InsertSeat
<1>6. CASE CheckEvent(c)
  <2>1. CASE Refuse(c, RefusedInsert(c))
    BY <1>2, <1>3, <1>4, <2>1
  <2>2. CASE UNCHANGED <<live, locked>> /\ Goto(c, "commit")
               /\ inserted' = [inserted EXCEPT ![c] = IF req[c].op = "seats" THEN @ ELSE Own(c)]
    BY <1>0, <1>3, <2>2 DEF Goto, CallTypes, WholeTypes
  <2> QED BY <1>6, <2>1, <2>2 DEF CheckEvent
<1>7. ASSUME Commit(c), Goto(c, "refresh") \/ Answer(c, "OK")
      PROVE  /\ UNCHANGED counted /\ WholeTypes' /\ \A d \in Calls \ {c} :
              /\ pc'[d] = pc[d] /\ todo'[d] = todo[d] /\ inserted'[d] = inserted[d]
              /\ locked'[d] = locked[d] /\ reply'[d] = reply[d]
  BY <1>0, <1>7 DEF Commit, Release, Goto, Answer, CallTypes, WholeTypes
<1>8. CASE CommitCall(c)
  BY <1>3, <1>7, <1>8 DEF CommitCall
<1>9. ASSUME NEW S, NEW l, Lock(c, S), Goto(c, l), UNCHANGED inserted
      PROVE  /\ UNCHANGED counted /\ WholeTypes' /\ \A d \in Calls \ {c} :
              /\ pc'[d] = pc[d] /\ todo'[d] = todo[d] /\ inserted'[d] = inserted[d]
              /\ locked'[d] = locked[d] /\ reply'[d] = reply[d]
  BY <1>0, <1>9 DEF Lock, Goto, CallTypes, WholeTypes
<1>10. CASE LockStock(c)
  BY <1>2, <1>3, <1>4, <1>9, <1>10 DEF LockStock
<1>11. CASE LockParent(c)
  BY <1>2, <1>3, <1>4, <1>9, <1>11 DEF LockParent
<1>12. CASE LockNext(c)
  BY <1>3, <1>9, <1>12 DEF LockNext
<1>13. CASE Count(c)
  BY <1>0, <1>3, <1>13 DEF Count, database, CallTypes, WholeTypes
<1>14. CASE StartDelete(c)
  BY <1>0, <1>3, <1>14 DEF StartDelete, database, CallTypes, WholeTypes
<1>15. CASE DeleteRow(c)
  BY <1>0, <1>3, <1>15 DEF DeleteRow, Lock, CallTypes, WholeTypes
<1>16. CASE FinishReset(c)
  BY <1>2, <1>3, <1>4, <1>7, <1>16 DEF FinishReset
<1>17. CASE DeadlockVictim(c) \/ Crash(c)
  BY <1>2, <1>3, <1>4, <1>17 DEF DeadlockVictim, Crash
<1> QED
  BY <1>1, <1>5, <1>6, <1>8, <1>10, <1>11, <1>12, <1>13, <1>14, <1>15, <1>16, <1>17
     DEF Moves, Step

\* What a step commits: nothing, the rows of one call, once, or what a reset deletes.
LEMMA OneCommit ==
  ASSUME CatalogueInv, NEW c \in Running, Moves(c)
  PROVE  \/ live' = live
         \/ pc[c] \in {"create", "seed"} /\ live' = live \cup Own(c)
         \/ pc[c] = "commit" /\ live' = live \cup inserted[c]
         \/ pc[c] = "check" /\ pc'[c] = "done" /\ live' = live \ locked[c]
<1>0. c \in Calls /\ CallTypes
  BY DEF Running, CatalogueInv
<1>1. CASE CreateEvent(c) \/ Seed(c)
  BY <1>1 DEF CreateEvent, Seed
<1>2. CASE CommitCall(c)
  <2>1. pc[c] = "commit" /\ Deleted(c) = {}
    BY <1>0, <1>2, WhoIsThere DEF CommitCall, Deleted
  <2> QED BY <1>2, <2>1 DEF CommitCall, Commit
<1>3. CASE FinishReset(c)
  <2>1. pc[c] = "check" /\ Deleted(c) = locked[c] /\ inserted[c] = {}
    BY <1>0, <1>3, WhoIsThere DEF FinishReset, Deleted, ResetLabels, CatalogueInv,
       RowsOfCalls, Inserters
  <2>2. CASE Commit(c) /\ Answer(c, "OK")
    BY <1>0, <2>1, <2>2 DEF Commit, Answer, CallTypes
  <2>3. CASE Refuse(c, "ERROR")
    BY <2>3 DEF Refuse, Rollback
  <2> QED BY <1>3, <2>2, <2>3 DEF FinishReset
<1>4. CASE \/ Refresh(c) \/ FindEvent(c) \/ InsertSeat(c) \/ CheckEvent(c) \/ LockStock(c)
           \/ LockParent(c) \/ LockNext(c) \/ Count(c) \/ StartDelete(c) \/ DeleteRow(c)
  BY <1>4 DEF Refresh, FindEvent, InsertSeat, Insert, CheckEvent, LockStock, LockParent,
     LockNext, Count, StartDelete, DeleteRow, Refuse, Rollback, database
<1>5. CASE DeadlockVictim(c) \/ Crash(c)
  BY <1>5 DEF DeadlockVictim, Crash, Refuse, Rollback
<1> QED
  BY <1>1, <1>2, <1>3, <1>4, <1>5 DEF Moves, Step

\* A call that is past its commit ends, and changes nothing.
LEMMA AfterCommit ==
  ASSUME CatalogueInv, NEW c \in Running, Moves(c), pc[c] \in {"refresh", "done"}
  PROVE  pc'[c] = "done" /\ live' = live
<1>0. c \in Calls /\ CallTypes
  BY DEF Running, CatalogueInv
<1>1. CASE Step(c)
  <2>1. Refresh(c)
    BY <1>1 DEF Step, CreateEvent, Seed, FindEvent, InsertSeat, CheckEvent, CommitCall,
       LockStock, LockParent, LockNext, Count, StartDelete, DeleteRow, FinishReset, Following
  <2> QED BY <1>0, <2>1 DEF Refresh, Answer, database, CallTypes
<1>2. CASE DeadlockVictim(c) \/ Crash(c)
  BY <1>0, <1>2 DEF DeadlockVictim, Crash, Refuse, Rollback, Answer, CallTypes
<1> QED
  BY <1>1, <1>2 DEF Moves

\* A row that is gone, or that its call has given up, never comes back.
LEMMA NothingReturns ==
  ASSUME CatalogueInv, WholeTypes, NEW c \in Running, Moves(c), NEW x, Past(x)
  PROVE  Past(x)' /\ (x \in live' => x \in live)
<1>0. c \in Calls /\ x[1] \in Calls /\ req \in Workloads
  BY DEF Running, Past, CatalogueInv, CallTypes
<1>1. CASE x[1] = c
  BY <1>1, AfterCommit DEF Past
<1>2. CASE x[1] # c
  <2>1. pc'[x[1]] = pc[x[1]]
    BY <1>0, <1>2, OneCall
  <2>2. x \notin Own(c) /\ inserted[c] \subseteq Own(c)
    BY <1>0, <1>2, OwnRows DEF CatalogueInv, RowsOfCalls
  <2> QED BY <2>1, <2>2, OneCommit DEF Past
<1> QED
  BY <1>1, <1>2

\* A row disappears with its event, and that is a seeded one.
LEMMA WholeEventsGo ==
  ASSUME WholeInv, NEW c \in Running, Moves(c), NEW x \in live \ live'
  PROVE  EventOf(x) \in live \ live' /\ Stress(EventOf(x))
<1>0. c \in Calls /\ CatalogueInv /\ WholeTypes
  BY DEF Running, WholeInv
<1>1. pc[c] = "check" /\ live' = live \ locked[c]
  BY <1>0, OneCommit
<1>2. ResetOf(c)
  BY <1>0, <1>1, WhoIsThere DEF WholeInv, ResetLabels
<1>3. x \in Seized(c) \cap live
  BY <1>1 DEF Seized
<1>4. Seized(c) = locked[c]
  <2>1. todo[c] = <<>>
    BY <1>0, <1>1, NothingToDo DEF TodoKinds
  <2> QED BY <2>1 DEF Seized, Range
<1>5. EventOf(x) \in locked[c] /\ Stress(EventOf(x))
  BY <1>1, <1>2, <1>3, <1>4 DEF ResetOf
<1>6. EventOf(x) \in live
  BY <1>0, EventIsThere
<1> QED
  BY <1>1, <1>5, <1>6

-----------------------------------------------------------------------------
(* Resets *)

\* What the others do leaves a reset what it is.
LEMMA ResetStays ==
  ASSUME WholeInv, NEW c \in Running, Moves(c), NEW d \in Calls \ {c}, req[d].op = "reset"
  PROVE  ResetOf(d)'
<1>0. CatalogueInv /\ WholeTypes /\ ResetOf(d)
  BY DEF WholeInv
<1>1. /\ UNCHANGED req /\ pc'[d] = pc[d] /\ todo'[d] = todo[d] /\ locked'[d] = locked[d]
      /\ counted'[d] = counted[d] /\ reply'[d] = reply[d]
  BY <1>0, OneCall
<1>2. Seized(d)' = Seized(d)
  BY <1>1 DEF Seized
<1>3. \A x : Past(x) => Past(x)' /\ (x \in live' => x \in live)
  BY <1>0, NothingReturns
<1>4. \A x : EventOf(x)' = EventOf(x) /\ (Stress(x)' <=> Stress(x))
  BY <1>1, EventStays
<1>5. \A x : Stress(EventOf(x))' <=> Stress(EventOf(x))
  BY <1>1 DEF Stress, EventOf, StockEvent, EventRow
<1>6. /\ \A x \in Seized(d) : Past(x)' /\ Stress(EventOf(x))'
      /\ \A x \in counted[d] : Past(x)' /\ x[2] = "event" /\ Stress(x)'
      /\ Seized(d) \cap live' \subseteq live /\ counted[d] \cap live' \subseteq live
  BY <1>0, <1>3, <1>4, <1>5 DEF ResetOf
<1>7. pc[d] \in {"events", "inventory", "check"} =>
       /\ \A x \in Seized(d) \cap live' : EventOf(x)' \in Seized(d)
       /\ counted[d] \cap live' \subseteq Seized(d)
  BY <1>0, <1>4, <1>6 DEF ResetOf
<1>8. reply[d] = "OK" => pc[d] = "done" /\ counted[d] \cap live' = {}
  BY <1>0, <1>6 DEF ResetOf
<1> QED
  BY <1>1, <1>2, <1>6, <1>7, <1>8 DEF ResetOf

\* What a reset has seized and counted stays what it is while it goes on.
LEMMA SeizedStays ==
  ASSUME WholeInv, NEW c \in Running, Moves(c), req[c].op = "reset"
  PROVE  /\ \A x : EventOf(x)' = EventOf(x) /\ (Stress(x)' <=> Stress(x))
         /\ \A x : Stress(EventOf(x))' <=> Stress(EventOf(x))
         /\ \A x \in Seized(c) : Past(x)' /\ Stress(EventOf(x))
         /\ \A x \in counted[c] : Past(x)' /\ x[2] = "event" /\ Stress(x)
         /\ \A x \in live : Past(x)'
<1>0. CatalogueInv /\ WholeTypes /\ c \in Calls /\ ResetOf(c)
  BY DEF WholeInv, Running
<1>1. UNCHANGED req
  BY <1>0, OneCall
<1>2. \A x : Past(x) => Past(x)'
  BY <1>0, NothingReturns
<1>3. \A x \in live : Past(x)
  BY <1>0, WhoCommitted DEF Past
<1>4. \A x : EventOf(x)' = EventOf(x) /\ (Stress(x)' <=> Stress(x))
  BY <1>1, EventStays
<1>5. \A x : Stress(EventOf(x))' <=> Stress(EventOf(x))
  BY <1>1 DEF Stress, EventOf, StockEvent, EventRow
<1> QED
  BY <1>0, <1>2, <1>3, <1>4, <1>5 DEF ResetOf

\* A reset that is refused lets go of what it has seized.
LEMMA ResetRefused ==
  ASSUME WholeInv, NEW c \in Running, Moves(c), req[c].op = "reset",
         Refuse(c, "ERROR")
  PROVE  ResetOf(c)'
<1>0. CatalogueInv /\ WholeTypes /\ CallTypes /\ c \in Calls
  BY DEF WholeInv, Running, CatalogueInv
<1>1. /\ pc'[c] = "done" /\ todo'[c] = <<>> /\ locked'[c] = {} /\ reply'[c] = "ERROR"
      /\ counted'[c] = counted[c]
  BY <1>0 DEF Refuse, Answer, Rollback, Release, CallTypes, WholeTypes
<1>2. Seized(c)' = {}
  BY <1>1 DEF Seized, Range
<1> QED
  BY <1>1, <1>2, SeizedStays DEF ResetOf

\* Counting finds events that are there.
LEMMA CountResets ==
  ASSUME WholeInv, NEW c \in Running, Moves(c), req[c].op = "reset", Count(c)
  PROVE  ResetOf(c)'
<1>0. CatalogueInv /\ WholeTypes /\ CallTypes /\ c \in Calls /\ ResetOf(c) /\ pc[c] = "count"
  BY DEF WholeInv, Running, CatalogueInv, Count
<1>1. /\ pc'[c] = "counted" /\ todo'[c] = todo[c] /\ locked'[c] = locked[c]
      /\ reply'[c] = reply[c] /\ reply[c] # "OK" /\ counted'[c] = StressEvents
  BY <1>0 DEF Count, database, CallTypes, WholeTypes, ResetOf
<1>2. Seized(c)' = Seized(c)
  BY <1>1 DEF Seized
<1>3. \A x \in counted'[c] : x \in live /\ x[2] = "event" /\ Stress(x)
  BY <1>1 DEF StressEvents
<1> QED
  BY <1>1, <1>2, <1>3, SeizedStays DEF ResetOf

\* What a statement of a reset is to delete belongs to a seeded event, and from
\* DELETE FROM events on that event is deleted, too.
LEMMA TargetEvents ==
  ASSUME WholeInv, NEW c \in Calls, req[c].op = "reset", todo[c] = <<>>, NEW l,
         NEW x \in Targets(c, l)
  PROVE  /\ x \in live /\ Stress(EventOf(x))
         /\ l = "inventory" => \/ EventOf(x) \in locked[c]
                               \/ x[2] = "child" /\ ReservationRow(x[1]) \in locked[c]
<1>0. CatalogueInv /\ ResetOf(c) /\ x \in live \ locked[c]
  BY TargetKinds DEF WholeInv
<1>1. \A y \in locked[c] : Stress(EventOf(y))
  BY <1>0 DEF ResetOf, Seized
<1>2. CASE l \in {"holds", "items", "reservations"}
  BY <1>0, <1>2 DEF Targets
<1>3. CASE l = "events"
  <2>1. x[2] = "event" /\ Stress(x)
    BY <1>3 DEF Targets, DeletedEvents, StressEvents
  <2> QED BY <1>0, <1>3, <2>1, EventOfKinds
<1>4. CASE l \in {"children", "inventory"}
  <2>1. DeletedWith(x) \cap locked[c] # {}
    BY <1>4 DEF Targets
  <2>2. CASE x[2] = "child"
    BY <1>0, <1>1, <2>1, <2>2, EventOfKinds
  <2>3. CASE x[2] \in Positions \cup {"ticket"}
    <3>1. EventOf(x) \in locked[c] /\ EventOf(x)[2] = "event"
      BY <2>1, <2>3, EventOfKinds, EventKind
    <3> QED BY <1>0, <1>1, <3>1, EventOfKinds
  <2>4. x[2] = "child" \/ x[2] \in Positions \cup {"ticket"}
    BY <2>1 DEF DeletedWith
  <2> QED BY <2>2, <2>3, <2>4, <2>1, EventOfKinds
<1>5. CASE l \notin {"holds", "items", "reservations", "events", "children", "inventory"}
  BY <1>5 DEF Targets
<1> QED
  BY <1>2, <1>3, <1>4, <1>5

\* A statement of a reset finds its rows.
LEMMA StartDeleteResets ==
  ASSUME WholeInv, NEW c \in Running, Moves(c), req[c].op = "reset", StartDelete(c)
  PROVE  ResetOf(c)'
<1> DEFINE l == Following[pc[c]]
           T == Targets(c, l)
<1>0. /\ CatalogueInv /\ WholeTypes /\ CallTypes /\ c \in Calls /\ ResetOf(c)
      /\ pc[c] \in ResetLabels \ {"check"} /\ todo[c] = <<>>
  BY WhoIsThere DEF WholeInv, Running, CatalogueInv, StartDelete, Following, ResetLabels
<1>1. PICK order \in Orders(T) : todo' = [todo EXCEPT ![c] = order]
  BY DEF StartDelete
<1>2. /\ pc'[c] = l /\ todo'[c] = order /\ live' = live /\ locked'[c] = locked[c]
      /\ reply'[c] = reply[c] /\ reply[c] # "OK" /\ counted'[c] = counted[c]
  BY <1>0, <1>1 DEF StartDelete, database, CallTypes, WholeTypes, ResetOf, ResetLabels
<1>3. T \subseteq live \ locked[c] /\ Range(order) = T
  <2>1. T \subseteq live \ locked[c]
    BY <1>0, TargetKinds
  <2> QED BY <1>0, <1>1, <2>1, OrderedRows DEF CallTypes
<1>4. Seized(c) = locked[c] /\ Seized(c)' = locked[c] \cup T
  BY <1>0, <1>2, <1>3 DEF Seized, Range
<1>5. /\ l = "events" => T = {x \in live \ locked[c] : x \in StressEvents}
      /\ l = "inventory" => pc[c] = "events"
      /\ l = "check" => pc[c] = "inventory" /\ T = {}
  BY <1>0 DEF Targets, DeletedEvents, Following, ResetLabels
<1>6. \A x \in T : x \in live /\ Stress(EventOf(x))
  BY <1>0, TargetEvents
<1>7. \A x \in locked[c] \cap live : EventOf(x) \in live /\ EventOf(x)[2] = "event"
  BY <1>0, EventIsThere
<1>8. \A x \in T : EventOf(x) \in live /\ EventOf(x)[2] = "event"
  BY <1>0, <1>6, EventIsThere
<1>9. \A x \in locked[c] \cup counted[c] : Stress(EventOf(x))
  <2>1. \A x \in counted[c] : Stress(EventOf(x))
    BY <1>0, EventOfKinds DEF ResetOf
  <2> QED BY <1>0, <1>4, <2>1 DEF ResetOf
<1> HIDE DEF l, T
<1>10. l \in {"events", "inventory", "check"} =>
         /\ \A x \in (locked[c] \cup T) \cap live : EventOf(x) \in locked[c] \cup T
         /\ counted[c] \cap live \subseteq locked[c] \cup T
  <2>1. CASE l = "events"
    <3>1. \A x \in StressEvents : x \in locked[c] \cup T
      BY <1>5, <2>1 DEF StressEvents
    <3>2. \A x \in (locked[c] \cup T) \cap live : EventOf(x) \in StressEvents
      BY <1>6, <1>7, <1>8, <1>9 DEF StressEvents
    <3>3. \A x \in counted[c] \cap live : x \in StressEvents
      BY <1>0 DEF ResetOf, StressEvents
    <3> QED BY <3>1, <3>2, <3>3
  <2>2. CASE l = "inventory"
    <3>1. /\ \A x \in locked[c] \cap live : EventOf(x) \in locked[c]
          /\ counted[c] \cap live \subseteq locked[c]
      BY <1>0, <1>4, <1>5, <2>2 DEF ResetOf
    <3>2. ASSUME NEW x \in T PROVE EventOf(x) \in locked[c]
      <4>1. \/ EventOf(x) \in locked[c]
            \/ x[2] = "child" /\ ReservationRow(x[1]) \in locked[c]
        BY <1>0, <2>2, TargetEvents DEF T
      <4>2. CASE x[2] = "child" /\ ReservationRow(x[1]) \in locked[c]
        <5>1. ReservationRow(x[1]) \in live
          BY <1>0, <4>2 DEF CallTypes
        <5> QED BY <3>1, <4>2, <5>1, EventOfKinds
      <4> QED BY <4>1, <4>2
    <3> QED BY <3>1, <3>2
  <2>3. CASE l = "check"
    BY <1>0, <1>4, <1>5, <2>3 DEF ResetOf
  <2> QED BY <2>1, <2>2, <2>3
<1> QED
  BY <1>2, <1>4, <1>6, <1>10, SeizedStays DEF ResetOf

\* One row more is deleted, or somebody else has deleted it.
LEMMA DeleteRowResets ==
  ASSUME WholeInv, NEW c \in Running, Moves(c), req[c].op = "reset", DeleteRow(c)
  PROVE  ResetOf(c)'
<1> DEFINE h == Head(todo[c])
           s == Tail(todo[c])
<1>0. /\ CatalogueInv /\ WholeTypes /\ CallTypes /\ c \in Calls /\ ResetOf(c)
      /\ todo[c] # <<>> /\ todo[c] \in Seq(Rows) /\ pc[c] # "done"
  BY DEF WholeInv, Running, CatalogueInv, CallTypes, DeleteRow, Following
<1>1. /\ pc'[c] = pc[c] /\ todo'[c] = s /\ locked'[c] = locked[c] \cup ({h} \cap live)
      /\ live' = live /\ reply'[c] = reply[c] /\ reply[c] # "OK" /\ counted'[c] = counted[c]
  BY <1>0 DEF DeleteRow, Lock, CallTypes, WholeTypes, ResetOf
<1>2. h \in Range(todo[c]) /\ Range(s) \subseteq Range(todo[c])
      /\ Range(todo[c]) \subseteq {h} \cup Range(s)
  BY <1>0, HeadAndTail
<1> HIDE DEF h, s
<1>3. Seized(c)' = locked[c] \cup ({h} \cap live) \cup Range(s)
  BY <1>1 DEF Seized
<1>4. Seized(c)' \subseteq Seized(c) /\ Seized(c) \cap live \subseteq Seized(c)'
  BY <1>2, <1>3 DEF Seized
<1>5. \A x \in live : EventOf(x) \in live
  BY <1>0, EventIsThere
<1>6. pc[c] \in {"events", "inventory", "check"} =>
       /\ \A x \in Seized(c)' \cap live : EventOf(x) \in Seized(c)'
       /\ counted[c] \cap live \subseteq Seized(c)'
  BY <1>0, <1>4, <1>5 DEF ResetOf
<1> QED
  BY <1>1, <1>4, <1>6, SeizedStays DEF ResetOf

\* The commit: every event that was counted is gone.
LEMMA FinishResets ==
  ASSUME WholeInv, NEW c \in Running, Moves(c), req[c].op = "reset", FinishReset(c)
  PROVE  ResetOf(c)'
<1>0. /\ CatalogueInv /\ WholeTypes /\ CallTypes /\ c \in Calls /\ ResetOf(c)
      /\ pc[c] = "check" /\ inserted[c] = {}
  BY DEF WholeInv, Running, CatalogueInv, RowsOfCalls, FinishReset, Inserters
<1>1. CASE Commit(c) /\ Answer(c, "OK")
  <2>1. /\ pc'[c] = "done" /\ todo'[c] = <<>> /\ locked'[c] = {} /\ reply'[c] = "OK"
        /\ counted'[c] = counted[c] /\ live' = live \ locked[c]
    BY <1>0, <1>1 DEF Commit, Release, Answer, Deleted, CallTypes, WholeTypes
  <2>2. Seized(c)' = {}
    BY <2>1 DEF Seized, Range
  <2>3. Seized(c) = locked[c]
    <3>1. todo[c] = <<>>
      BY <1>0, NothingToDo DEF TodoKinds
    <3> QED BY <3>1 DEF Seized, Range
  <2>4. counted[c] \cap live' = {}
    BY <1>0, <2>1, <2>3 DEF ResetOf
  <2> QED
    BY <2>1, <2>2, <2>4, SeizedStays DEF ResetOf
<1>2. CASE Refuse(c, "ERROR")
  BY <1>2, ResetRefused
<1> QED
  BY <1>1, <1>2 DEF FinishReset

\* Whatever a reset does next.
LEMMA ResetGoesOn ==
  ASSUME WholeInv, NEW c \in Running, Moves(c), req[c].op = "reset"
  PROVE  ResetOf(c)'
<1>1. pc[c] \in {"count", "done"} \cup ResetLabels
  <2>1. c \in Calls /\ CallTypes
    BY DEF WholeInv, CatalogueInv, Running
  <2> QED BY <2>1 DEF CallTypes, Labels
<1>2. CASE Step(c)
  <2>1. Count(c) \/ StartDelete(c) \/ DeleteRow(c) \/ FinishReset(c)
    BY <1>1, <1>2 DEF Step, ResetLabels, CreateEvent, Seed, Refresh, FindEvent, InsertSeat,
       CheckEvent, CommitCall, LockStock, LockParent, LockNext
  <2> QED
    BY <2>1, CountResets, StartDeleteResets, DeleteRowResets, FinishResets
<1>3. CASE DeadlockVictim(c) \/ Crash(c)
  BY <1>3, ResetRefused DEF DeadlockVictim, Crash
<1> QED
  BY <1>2, <1>3 DEF Moves

-----------------------------------------------------------------------------
(* Batches of seats *)

\* The seats of a call that has not committed are not there.
LEMMA BatchNotThere ==
  ASSUME CatalogueInv, NEW c \in Calls, pc[c] \notin {"refresh", "done"}
  PROVE  Own(c) \cap live = {}
BY OwnRows DEF CatalogueInv, RowsOfCalls, CallTypes

\* What the others do leaves a batch whole, and takes it only with its event.
LEMMA BatchStays ==
  ASSUME WholeInv, NEW c \in Running, Moves(c), CatalogueInv',
         NEW d \in Calls \ {c}, req[d].op = "seats"
  PROVE  BatchOf(d)'
<1>0. CatalogueInv /\ WholeTypes /\ BatchOf(d) /\ req \in Workloads
  BY DEF WholeInv, CatalogueInv, CallTypes
<1>1. PICK e : e = EventRow(req[d].event)
  OBVIOUS
<1>2. /\ UNCHANGED req /\ pc'[d] = pc[d] /\ todo'[d] = todo[d]
      /\ inserted'[d] = inserted[d] /\ reply'[d] = reply[d]
  BY <1>0, OneCall
<1>3. Own(d)' = Own(d) /\ \A x : DeletedWith(x)' = DeletedWith(x)
  BY <1>2, MeaningStays
<1>4. /\ req[d].event \in Calls
      /\ \A x \in Own(d) : x[1] = d /\ EventOf(x) = e /\ DeletedWith(x) = {e}
  BY <1>1, <1>0, EventOfBatch
<1>5. e[1] = req[d].event
  BY <1>1 DEF EventRow
<1>6. \A x \in live' : DeletedWith(x) \subseteq live'
  BY <1>3 DEF CatalogueInv, ReferencesHold
<1>7. CASE pc[d] \notin {"refresh", "done"}
  <2>1. Own(d)' \cap live' = {}
    BY <1>2, <1>3, <1>4, <1>7 DEF CatalogueInv, RowsOfCalls
  <2> QED BY <1>0, <1>2, <1>3, <1>7, <2>1 DEF BatchOf
<1>8. CASE pc[d] \in {"refresh", "done"}
  <2>1. \A x \in Own(d) : x \in live' => x \in live
    BY <1>0, <1>4, <1>8, NothingReturns DEF Past
  <2>2. ASSUME NEW x \in Own(d), x \in live, x \notin live' PROVE e \notin live'
    BY <1>4, <2>2, WholeEventsGo
  <2>3. e \notin live' => Own(d) \cap live' = {}
    BY <1>4, <1>6
  <2>4. Own(d) \cap live' \in {{}, Own(d)}
    BY <1>0, <2>1, <2>2, <2>3 DEF BatchOf
  <2>5. reply[d] = "SEAT_ALREADY_EXISTS" => Own(d) \cap live' = {}
    BY <1>0, <2>1 DEF BatchOf
  <2>6. reply[d] = "OK" \/ pc[d] = "refresh" =>
          /\ pc'[req[d].event] \in {"refresh", "done"}
          /\ e \in live' => Own(d) \subseteq live'
    <3> SUFFICES ASSUME reply[d] = "OK" \/ pc[d] = "refresh"
                 PROVE  /\ pc'[req[d].event] \in {"refresh", "done"}
                        /\ e \in live' => Own(d) \subseteq live'
      OBVIOUS
    <3>1. pc[req[d].event] \in {"refresh", "done"} /\ (e \in live => Own(d) \subseteq live)
      BY <1>1, <1>0 DEF BatchOf
    <3>2. Past(e)
      BY <1>4, <1>5, <3>1 DEF Past
    <3>3. Past(e)' /\ (e \in live' => e \in live)
      BY <1>0, <3>2, NothingReturns
    <3> QED BY <1>5, <2>2, <3>1, <3>3 DEF Past
  <2>7. e = EventRow(req[d].event)'
    BY <1>1, <1>2 DEF EventRow
  <2>8. /\ pc'[d] \notin {"seat", "insert", "commit"} /\ pc'[d] \in {"refresh", "done"}
        /\ Own(d)' \cap live' \in {{}, Own(d)'}
        /\ reply'[d] = "SEAT_ALREADY_EXISTS" => pc'[d] = "done" /\ Own(d)' \cap live' = {}
    BY <1>0, <1>2, <1>3, <1>8, <2>4, <2>5 DEF BatchOf
  <2>9. reply'[d] = "OK" \/ pc'[d] = "refresh" =>
          /\ pc'[req'[d].event] \in {"refresh", "done"}
          /\ EventRow(req[d].event)' \in live' => Own(d)' \subseteq live'
    BY <1>2, <1>3, <2>6, <2>7
  <2> QED BY <2>8, <2>9 DEF BatchOf
<1> QED
  BY <1>7, <1>8

\* A batch that is refused or cut off leaves nothing, unless it is committed.
LEMMA BatchRefused ==
  ASSUME WholeInv, NEW c \in Running, req[c].op = "seats", UNCHANGED <<req, live>>,
         pc'[c] = "done", reply'[c] # "OK",
         reply'[c] = "SEAT_ALREADY_EXISTS" => pc[c] \notin {"refresh", "done"}
  PROVE  BatchOf(c)'
<1>0. CatalogueInv /\ c \in Calls /\ BatchOf(c)
  BY DEF WholeInv, Running
<1>1. Own(c)' = Own(c)
  BY MeaningStays
<1>2. reply'[c] = "SEAT_ALREADY_EXISTS" => Own(c) \cap live = {}
  BY <1>0, BatchNotThere
<1> QED
  BY <1>0, <1>1, <1>2 DEF BatchOf

\* The seats of a batch go in one by one ...
LEMMA BatchFills ==
  ASSUME WholeInv, NEW c \in Running, Moves(c), req[c].op = "seats",
         FindEvent(c) \/ InsertSeat(c) \/ CheckEvent(c)
  PROVE  BatchOf(c)'
<1>0. /\ CatalogueInv /\ WholeTypes /\ CallTypes /\ c \in Calls /\ BatchOf(c)
      /\ pc[c] \notin {"refresh", "done"} /\ req \in Workloads
  BY DEF WholeInv, Running, CatalogueInv, CallTypes, FindEvent, InsertSeat, CheckEvent
<1>1. UNCHANGED <<req, live>> /\ Own(c)' = Own(c) /\ Own(c) \cap live = {}
  <2>1. UNCHANGED req
    BY <1>0, OneCall
  <2> QED
    BY <1>0, <2>1, MeaningStays, BatchNotThere, OneCommit
       DEF FindEvent, InsertSeat, Insert, CheckEvent, Refuse, Rollback, database
<1>2. reply[c] \notin {"OK", "SEAT_ALREADY_EXISTS"}
  BY <1>0 DEF BatchOf
<1>3. ASSUME NEW code, reply' = [reply EXCEPT ![c] = code], code # "OK",
             pc' = [pc EXCEPT ![c] = "done"]
      PROVE  BatchOf(c)'
  BY <1>0, <1>1, <1>3, BatchRefused DEF WholeTypes, CallTypes
<1>4. ASSUME NEW l \in {"seat", "insert", "commit"}, pc'[c] = l, reply'[c] = reply[c],
             l = "seat" => inserted'[c] \cup Range(todo'[c]) = Own(c),
             l # "seat" => inserted'[c] = Own(c)
      PROVE  BatchOf(c)'
  BY <1>1, <1>2, <1>4 DEF BatchOf
<1>5. CASE FindEvent(c)
  <2>1. CASE Answer(c, "EVENT_NOT_FOUND")
    BY <1>3, <2>1 DEF Answer
  <2>2. CASE /\ pc' = [pc EXCEPT ![c] = "seat"]
             /\ todo' = [todo EXCEPT ![c] =
                           [i \in DOMAIN req[c].seats |-> <<c, req[c].seats[i]>>]]
             /\ UNCHANGED <<counted, reply>> /\ UNCHANGED database
    <3>1. /\ pc'[c] = "seat" /\ reply'[c] = reply[c] /\ inserted'[c] = inserted[c]
          /\ todo'[c] = [i \in DOMAIN req[c].seats |-> <<c, req[c].seats[i]>>]
      BY <1>0, <2>2 DEF database, CallTypes
    <3>2. Range(todo'[c]) = {c} \X Range(req[c].seats)
      BY <3>1 DEF Range
    <3>3. inserted[c] = {}
      BY <1>0, <1>5 DEF CatalogueInv, RowsOfCalls, Inserters, FindEvent
    <3>4. Own(c) = {c} \X Range(req[c].seats)
      BY DEF Own
    <3> QED BY <1>4, <3>1, <3>2, <3>3, <3>4
  <2> QED BY <1>5, <2>1, <2>2 DEF FindEvent
<1>6. CASE InsertSeat(c)
  <2>1. CASE Refuse(c, "SEAT_ALREADY_EXISTS")
    BY <1>3, <2>1 DEF Refuse, Answer
  <2>2. CASE Insert(c, Head(todo[c]))
    <3>1. todo[c] # <<>> /\ todo[c] \in Seq(Rows) /\ inserted[c] \cup Range(todo[c]) = Own(c)
      BY <1>0, <1>6 DEF CatalogueInv, RowsOfCalls, CallTypes, InsertSeat, BatchOf
    <3>2. inserted[c] \cup {Head(todo[c])} \cup Range(Tail(todo[c])) = Own(c)
      BY <3>1, HeadAndTail
    <3>3. /\ inserted'[c] = inserted[c] \cup {Head(todo[c])} /\ todo'[c] = Tail(todo[c])
          /\ pc'[c] = (IF Tail(todo[c]) = <<>> THEN "insert" ELSE "seat") /\ reply'[c] = reply[c]
      BY <1>0, <1>6, <2>2 DEF Insert, InsertSeat, CallTypes
    <3>4. Range(<<>>) = {}
      BY DEF Range
    <3> QED BY <1>4, <3>2, <3>3, <3>4
  <2> QED BY <1>6, <2>1, <2>2 DEF InsertSeat
<1>7. CASE CheckEvent(c)
  <2>1. CASE Refuse(c, RefusedInsert(c))
    <3>1. RefusedInsert(c) # "OK"
      BY DEF RefusedInsert
    <3> QED BY <1>3, <2>1, <3>1 DEF Refuse, Answer
  <2>2. CASE /\ inserted' = [inserted EXCEPT ![c] = IF req[c].op = "seats" THEN @ ELSE Own(c)]
             /\ Goto(c, "commit")
    <3>1. inserted'[c] = inserted[c] /\ pc'[c] = "commit" /\ reply'[c] = reply[c]
      BY <1>0, <2>2 DEF Goto, CallTypes
    <3>2. inserted[c] = Own(c)
      BY <1>0, <1>7 DEF CheckEvent, BatchOf
    <3> QED BY <1>4, <3>1, <3>2
  <2> QED BY <1>7, <2>1, <2>2 DEF CheckEvent
<1> QED
  BY <1>5, <1>6, <1>7

\* ... are committed together, and are there until a reset takes their event.
LEMMA BatchGoesOn ==
  ASSUME WholeInv, NEW c \in Running, Moves(c), req[c].op = "seats"
  PROVE  BatchOf(c)'
<1>0. /\ CatalogueInv /\ WholeTypes /\ CallTypes /\ c \in Calls /\ BatchOf(c)
      /\ req \in Workloads /\ pc[c] \in {"find", "seat", "insert", "commit", "refresh", "done"}
  <2>1. CatalogueInv /\ WholeTypes /\ CallTypes /\ c \in Calls /\ BatchOf(c) /\ req \in Workloads
    BY DEF WholeInv, Running, CatalogueInv, CallTypes
  <2> QED BY <2>1 DEF CallTypes, Labels
<1>1. UNCHANGED req /\ Own(c)' = Own(c)
  BY <1>0, OneCall, MeaningStays
<1>2. req[c].event \in Calls /\ EventRow(req[c].event)[1] = req[c].event
  BY <1>0, EventOfBatch DEF EventRow
<1>3. EventRow(req[c].event)' = EventRow(req[c].event)
  BY <1>1 DEF EventRow
<1>4. pc[req[c].event] \in {"refresh", "done"} => pc'[req[c].event] \in {"refresh", "done"}
  <2> SUFFICES ASSUME pc[req[c].event] \in {"refresh", "done"}
               PROVE  pc'[req[c].event] \in {"refresh", "done"}
    OBVIOUS
  <2>1. PICK e : e = EventRow(req[c].event)
    OBVIOUS
  <2>2. Past(e)'
    BY <1>0, <1>2, <2>1, NothingReturns DEF Past
  <2> QED BY <1>2, <2>1, <2>2 DEF Past
<1>5. CASE CommitCall(c)
  <2>1. /\ pc[c] = "commit" /\ pc'[c] = "refresh" /\ reply'[c] = reply[c]
    BY <1>0, <1>5 DEF CommitCall, Goto, CallTypes
  <2>2. live' = live \cup Own(c)
    <3>1. inserted[c] = Own(c)
      BY <1>0, <2>1 DEF BatchOf
    <3>2. Deleted(c) = {}
      BY DEF Deleted
    <3> QED
      BY <1>0, <1>1, <1>5, <3>1, <3>2, BatchNotThere, <2>1 DEF CommitCall, Commit
  <2>3. reply[c] # "SEAT_ALREADY_EXISTS"
    BY <1>0, <2>1 DEF BatchOf
  <2>4. pc[req[c].event] \in {"refresh", "done"}
    BY <1>0, <2>1 DEF CatalogueInv, Found, Inserters
  <2> QED BY <1>1, <1>3, <1>4, <2>1, <2>2, <2>3, <2>4 DEF BatchOf
<1>6. CASE Refresh(c)
  <2>1. /\ pc[c] = "refresh" /\ pc'[c] = "done" /\ UNCHANGED live
        /\ reply'[c] = IF Own(c) \subseteq live THEN "OK" ELSE "ERROR"
    BY <1>0, <1>6 DEF Refresh, Answer, database, CallTypes, WholeTypes
  <2> QED BY <1>0, <1>1, <1>3, <1>4, <2>1 DEF BatchOf
<1>7. CASE DeadlockVictim(c) \/ Crash(c)
  <2>1. Refuse(c, "ERROR")
    BY <1>7 DEF DeadlockVictim, Crash
  <2>2. pc'[c] = "done" /\ reply'[c] = "ERROR" /\ UNCHANGED live
    BY <1>0, <2>1 DEF Refuse, Answer, Rollback, CallTypes, WholeTypes
  <2> QED BY <1>1, <2>2, BatchRefused
<1>8. CASE Step(c) /\ ~ CommitCall(c) /\ ~ Refresh(c)
  <2>1. FindEvent(c) \/ InsertSeat(c) \/ CheckEvent(c)
    BY <1>0, <1>8 DEF Step, CreateEvent, Seed, LockStock, LockParent, LockNext, Count,
       StartDelete, DeleteRow, FinishReset, Following
  <2> QED BY <2>1, BatchFills
<1> QED
  BY <1>5, <1>6, <1>7, <1>8 DEF Moves

-----------------------------------------------------------------------------
(* The theorems *)

\* What is over before the run is whole.
LEMMA WholeInit == Init /\ ReferencesHold => WholeInv
<1> SUFFICES ASSUME Init, ReferencesHold PROVE WholeInv
  OBVIOUS
<1>1. CatalogueInv /\ req \in Workloads /\ Before \subseteq Calls
  BY CatalogueInit, CatalogueAssumption DEF Init
<1>2. WholeTypes
  BY DEF Init, WholeTypes
<1>3. /\ \A c \in Calls :
           /\ inserted[c] = {} /\ locked[c] = {} /\ todo[c] = <<>> /\ counted[c] = {}
           /\ pc[c] = IF c \in Before THEN "done" ELSE First(c)
           /\ reply[c] = IF c \in Before THEN "OK" ELSE "PENDING"
      /\ Range(<<>>) = {}
  BY DEF Init, Range
<1>4. ASSUME NEW c \in Calls, req[c].op = "reset" PROVE ResetOf(c)
  <2>1. pc[c] \in {"count", "done"}
    BY <1>3, <1>4 DEF First
  <2>2. Seized(c) = {}
    BY <1>3 DEF Seized
  <2> QED BY <1>3, <2>1, <2>2 DEF ResetOf
<1>5. ASSUME NEW c \in Calls, req[c].op = "seats" PROVE BatchOf(c)
  <2>1. pc[c] = IF c \in Before THEN "done" ELSE "find"
    BY <1>3, <1>5 DEF First
  <2>2. c \in Before => Own(c) \subseteq live
    BY DEF Init
  <2>3. c \notin Before => Own(c) \cap live = {}
    BY <1>1, <2>1, BatchNotThere
  <2>4. ASSUME c \in Before PROVE pc[req[c].event] = "done"
    <3>1. PICK x \in Own(c) : x \in live /\ DeletedWith(x) = {EventRow(req[c].event)}
      BY <1>1, <1>5, <2>2, <2>4, EventOfBatch
    <3>2. EventRow(req[c].event) \in live
      BY <3>1 DEF ReferencesHold
    <3>3. req[c].event \in Before
      <4>1. PICK d \in Before : EventRow(req[c].event) \in Own(d)
        BY <3>2 DEF Init
      <4> QED BY <1>1, <4>1, OwnRows DEF EventRow
    <3> QED BY <1>1, <1>3, <3>3
  <2> QED BY <1>3, <2>1, <2>2, <2>3, <2>4 DEF BatchOf
<1> QED
  BY <1>1, <1>2, <1>4, <1>5 DEF WholeInv

\* Every step, of whichever call.
LEMMA NextKeepsWhole == WholeInv /\ [Next]_vars => WholeInv'
<1> SUFFICES ASSUME WholeInv, [Next]_vars PROVE WholeInv'
  OBVIOUS
<1>1. CatalogueInv /\ WholeTypes /\ CatalogueInv'
  BY NextKeepsCatalogue DEF WholeInv
<1>2. ASSUME NEW c \in Running, Moves(c) PROVE WholeInv'
  <2>1. UNCHANGED req /\ WholeTypes'
    BY <1>1, <1>2, OneCall
  <2>2. ASSUME NEW d \in Calls, req[d].op = "reset" PROVE ResetOf(d)'
    BY <1>2, <2>2, ResetStays, ResetGoesOn
  <2>3. ASSUME NEW d \in Calls, req[d].op = "seats" PROVE BatchOf(d)'
    BY <1>1, <1>2, <2>3, BatchStays, BatchGoesOn
  <2> QED BY <1>1, <2>1, <2>2, <2>3 DEF WholeInv
<1>3. CASE UNCHANGED vars
  <2>1. UNCHANGED <<live, inserted, locked, req, pc, todo, counted, reply>>
    BY <1>3 DEF vars, database
  <2>2. /\ \A c : Own(c)' = Own(c) /\ Seized(c)' = Seized(c)
        /\ \A x : EventOf(x)' = EventOf(x) /\ (Stress(x)' <=> Stress(x))
        /\ \A x : (Past(x)' <=> Past(x)) /\ (Stress(EventOf(x))' <=> Stress(EventOf(x)))
        /\ \A c : EventRow(req[c].event)' = EventRow(req[c].event)
    BY <2>1, MeaningStays, EventStays
       DEF Seized, Past, Stress, EventOf, StockEvent, EventRow
  <2>3. \A c : ResetOf(c)' <=> ResetOf(c)
    BY <2>1, <2>2 DEF ResetOf
  <2>4. \A c : BatchOf(c)' <=> BatchOf(c)
    BY <2>1, <2>2 DEF BatchOf
  <2>5. WholeTypes'
    BY <1>1, <2>1 DEF WholeTypes
  <2> QED BY <1>1, <2>1, <2>3, <2>4, <2>5 DEF WholeInv
<1> QED
  BY <1>2, <1>3 DEF Next, Moves

\* create_seats adds all the seats of a batch or none; after SEAT_ALREADY_EXISTS
\* there is none of them, after a success all are there for as long as their
\* event is, however many batches, seeds and resets there are at the same time.
THEOREM BatchesStayWhole == ReferencesHold /\ Spec => []SeatBatchesWhole
<1>1. WholeInv => SeatBatchesWhole
  BY DEF WholeInv, BatchOf, SeatBatchesWhole
<1> QED
  BY <1>1, WholeInit, NextKeepsWhole, PTL DEF Spec

\* No step of any call makes a row disappear whose event stays, or an event that
\* was not seeded; and when a reset answers, no event it has counted is left.
THEOREM ResetsAreWhole == ReferencesHold /\ Spec => ResetsTakeWholeEvents
<1> DEFINE Whole == /\ \A x \in live \ live' : EventOf(x) \notin live' /\ Stress(EventOf(x))
                    /\ \A c \in Calls : req[c].op = "reset" /\ reply'[c] = "OK" =>
                                        counted[c] \cap live' = {}
<1>1. ASSUME WholeInv, [Next]_vars PROVE [Whole]_vars
  <2> SUFFICES ASSUME NEW c \in Running, Moves(c) PROVE Whole
    BY <1>1 DEF Next, Moves
  <2>1. \A x \in live \ live' : EventOf(x) \notin live' /\ Stress(EventOf(x))
    BY <1>1, WholeEventsGo
  <2>2. ASSUME NEW d \in Calls, req[d].op = "reset", reply'[d] = "OK"
        PROVE  counted[d] \cap live' = {}
    <3>1. UNCHANGED req /\ (counted'[d] = counted[d] \/ pc'[d] = "counted")
      BY <1>1, OneCall DEF WholeInv
    <3>2. ResetOf(d)'
      BY <1>1, <2>2, <3>1, NextKeepsWhole DEF WholeInv
    <3> QED BY <2>2, <3>1, <3>2 DEF ResetOf
  <2> QED BY <2>1, <2>2
<1> QED
  BY <1>1, WholeInit, NextKeepsWhole, PTL DEF Spec, ResetsTakeWholeEvents
=============================================================================
