-------------------------- MODULE AssignmentProofs --------------------------
(* Assignment for any number of users, tickets and handlers.                *)
EXTENDS Assignment, FiniteSetTheorems, TLAPS

USE CsvAssumption, AssignmentAssumption

----------------------------------------------------------------------------
(* Where a handler is, and what it holds.                                   *)
CountIsBounded(h) ==
    /\ h.stage = 1 => h.sum = 0
    /\ h.stage = 2 => h.sum <= Cardinality(Tickets)
    /\ h.stage = 3 => h.sum <= 2 * Cardinality(Tickets)
    /\ h.who = NoUser => h.stage = 1

HandlerIsPlaced(r) ==
    /\ CountIsBounded(req[r])
    /\ req[r].pc # "idle" /\ req[r].call = "patch" =>
         req[r].t \in Tickets /\ lock[req[r].t] = r /\ Active(req[r].t)
    /\ req[r].call = "delete" => ~req[r].auto
    /\ req[r].call = "patch" => ~req[r].auto /\ req[r].pc \in {"idle", "link", "unlinked", "ready"}
    /\ req[r].pc = "found" => req[r].t \in Tickets
    /\ req[r].pc \in {"link", "unlinked"} => req[r].u \in Users /\ ~req[r].auto
    /\ req[r].pc \in {"unlink", "drop"} => req[r].u \in Users
    /\ req[r].auto => /\ req[r].todo \subseteq req[r].pool
                      /\ req[r].u \in req[r].pool \cup {NoUser}
    /\ req[r].auto /\ req[r].pc = "ready" => req[r].todo = {}
    /\ req[r].pc = "count" => req[r].auto

(* Only rows that are there are locked.                                     *)
RowsArePlaced ==
    /\ member \subseteq Users
    /\ ticket \in [Tickets -> Ticket]
    /\ lock \in [Tickets -> Reqs \cup {Free}]
    /\ disturbed \subseteq Reqs
    /\ restored \subseteq Tickets
    /\ dropped \subseteq Users
    /\ \A t \in Tickets : lock[t] # Free => Active(t)

Placed == TypeOK /\ RowsArePlaced /\ \A r \in Reqs : HandlerIsPlaced(r)

(* A developer who may get a ticket: his membership is there, or it went by *)
(* one of the two ways out.                                                 *)
Assignable(u) == u \in Developers => u \in member \cup dropped

TicketIsRight(t) ==
    Active(t) => t \in restored \/ Assignable(ticket[t].assignee)

(* What the queries of an undisturbed choice have found.                    *)
Beats(u, v) == Load(u) < Load(v) \/ (Load(u) = Load(v) /\ u <= v)

Found(u, stage) == Cardinality(CountedTickets(u, Counted[stage]))

FoundBefore(u, stage) ==
    IF stage = 1 THEN 0 ELSE IF stage = 2 THEN Found(u, 1) ELSE Found(u, 1) + Found(u, 2)

ComparedBy(r) == req[r].pool \ req[r].todo

ChoiceIsRight(r) ==
    /\ req[r].who # NoUser => req[r].sum = FoundBefore(req[r].who, req[r].stage)
    /\ ComparedBy(r) = {} => req[r].best = Infinity
    /\ ComparedBy(r) # {} => /\ req[r].u \in ComparedBy(r)
                             /\ req[r].best = Load(req[r].u)
                             /\ \A v \in ComparedBy(r) : Beats(req[r].u, v)

HandlerIsRight(r) ==
    /\ req[r].pc = "ready" => \/ Assignable(req[r].u)
                              \/ req[r].call = "patch" /\ req[r].u = ticket[req[r].t].assignee
    /\ req[r].pc = "count" => \A u \in req[r].pool : Assignable(u)
    /\ req[r].pc = "drop" /\ r \notin disturbed => WorkOf(req[r].u) = {}
    /\ Choosing(r) /\ r \notin disturbed => ChoiceIsRight(r)

Inv ==
    /\ Placed
    /\ \A t \in Tickets : TicketIsRight(t)
    /\ \A r \in Reqs : HandlerIsRight(r)

----------------------------------------------------------------------------
(* What is counted is a number, and not more than there are tickets.        *)
LEMMA Counting ==
    /\ Cardinality(Tickets) \in Nat
    /\ \A S \in SUBSET Tickets :
         IsFiniteSet(S) /\ Cardinality(S) \in Nat /\ Cardinality(S) <= Cardinality(Tickets)
BY FS_CardinalityType, FS_Subset

LEMMA FoundIsCounted ==
    \A u, status :
        LET n == Cardinality(CountedTickets(u, status))
        IN  n \in Nat /\ n <= Cardinality(Tickets)
<1>1. \A u, status : CountedTickets(u, status) \in SUBSET Tickets
  BY DEF CountedTickets
<1> QED
  BY <1>1, Counting

(* A union of disjoint sets has the size of both.                           *)
LEMMA DisjointSizes ==
    ASSUME NEW S \in SUBSET Tickets, NEW T \in SUBSET Tickets, S \cap T = {}
    PROVE  Cardinality(S \cup T) = Cardinality(S) + Cardinality(T)
<1>1. IsFiniteSet(S) /\ IsFiniteSet(T) /\ Cardinality(S) \in Nat /\ Cardinality(T) \in Nat
  BY Counting
<1>2. Cardinality(S \cap T) = 0
  BY FS_EmptySet
<1>3. Cardinality(S \cup T) = Cardinality(S) + Cardinality(T) - Cardinality(S \cap T)
  BY <1>1, FS_Union
<1> QED
  BY <1>1, <1>2, <1>3

(* The three queries find exactly the open tickets.                         *)
LEMMA LoadIsTheSum ==
    ASSUME TypeOK, NEW u \in Users
    PROVE  /\ Load(u) \in Nat /\ Load(u) <= Cardinality(Tickets)
           /\ Load(u) = Found(u, 1) + Found(u, 2) + Found(u, 3)
<1> DEFINE A == CountedTickets(u, "TODO")
<1> DEFINE B == CountedTickets(u, "IN_PROGRESS")
<1> DEFINE C == CountedTickets(u, "IN_REVIEW")
<1>1. \A t \in Tickets : ticket[t].status \in Statuses
  BY DEF TypeOK, Ticket
<1>2. {t \in WorkOf(u) : ticket[t].status # "DONE"} = (A \cup B) \cup C
  BY <1>1 DEF WorkOf, CountedTickets, Statuses
<1>3. /\ A \in SUBSET Tickets /\ B \in SUBSET Tickets /\ C \in SUBSET Tickets
      /\ A \cap B = {} /\ (A \cup B) \cap C = {}
  BY DEF CountedTickets
<1> HIDE DEF A, B, C
<1>4. Cardinality((A \cup B) \cup C) = Cardinality(A) + Cardinality(B) + Cardinality(C)
  <2>1. Cardinality(A \cup B) = Cardinality(A) + Cardinality(B)
    BY <1>3, DisjointSizes
  <2>2. A \cup B \in SUBSET Tickets
    BY <1>3
  <2>3. Cardinality((A \cup B) \cup C) = Cardinality(A \cup B) + Cardinality(C)
    BY <1>3, <2>2, DisjointSizes
  <2> QED
    BY <2>1, <2>3
<1>5. Found(u, 1) = Cardinality(A) /\ Found(u, 2) = Cardinality(B) /\ Found(u, 3) = Cardinality(C)
  BY DEF Found, Counted, A, B, C
<1>6. /\ Cardinality((A \cup B) \cup C) \in Nat
      /\ Cardinality((A \cup B) \cup C) <= Cardinality(Tickets)
  BY <1>3, Counting
<1> QED
  BY <1>2, <1>4, <1>5, <1>6 DEF Load

LEMMA IdleTypes ==
    /\ Idle \in Handler /\ CountIsBounded(Idle)
    /\ Idle.pc = "idle" /\ Idle.call = "patch" /\ ~Idle.auto /\ Idle.u = NoUser
    /\ BetweenRows \in Handler /\ CountIsBounded(BetweenRows)
    /\ BetweenRows.pc = "row" /\ BetweenRows.call = "import" /\ ~BetweenRows.auto
    /\ BetweenRows.u = NoUser
<1>1. Idle \in Handler
  BY Counting DEF Idle, Handler, Places, MaybeUser, Counts, Infinity
<1>2. BetweenRows \in Handler
  BY <1>1 DEF BetweenRows, Handler, Places
<1> QED
  BY <1>1, <1>2 DEF Idle, BetweenRows, CountIsBounded

LEMMA InitInv == Init => Inv
<1> SUFFICES ASSUME Init PROVE Inv
  OBVIOUS
<1>1. \A r \in Reqs : req[r] = Idle
  BY DEF Init
<1>2. ticket \in [Tickets -> Ticket] /\ \A t \in Tickets : ~Active(t)
  BY DEF Init, Ticket, Statuses, MaybeUser, Active
<1>3. TypeOK
  BY <1>2, IdleTypes DEF Init, TypeOK
<1>4. \A r \in Reqs : HandlerIsPlaced(r)
  BY <1>1, IdleTypes DEF HandlerIsPlaced
<1>5. \A r \in Reqs : HandlerIsRight(r)
  BY <1>1, IdleTypes DEF HandlerIsRight, Choosing
<1> QED
  BY <1>2, <1>3, <1>4, <1>5 DEF Init, Inv, Placed, RowsArePlaced, TypeOK, TicketIsRight

----------------------------------------------------------------------------
(* A step of handler r, pointwise, and what it leaves to the others.        *)
LEMMA OneHandlerMoves ==
    ASSUME TypeOK, NEW r \in Reqs, NEW h \in Handler, Step(r, h)
    PROVE  /\ req' \in [Reqs -> Handler]
           /\ req'[r] = h
           /\ \A q \in Reqs : q # r => req'[q] = req[q]
BY DEF TypeOK, Step

(* The rows that others have locked stay as they are.                       *)
OthersKeepRows(r) ==
    \A t \in Tickets : lock[t] \notin {r, Free} => lock'[t] = lock[t] /\ ticket'[t] = ticket[t]

(* Handlers stay placed when one moves and is placed itself.                *)
LEMMA PlacedStep ==
    ASSUME Placed, NEW r \in Reqs, NEW h \in Handler, Step(r, h),
           RowsArePlaced', OthersKeepRows(r), HandlerIsPlaced(r)'
    PROVE  Placed'
<1>1. /\ req' \in [Reqs -> Handler]
      /\ \A q \in Reqs : q # r => req'[q] = req[q]
  BY OneHandlerMoves DEF Placed
<1>2. TypeOK'
  BY <1>1 DEF TypeOK, RowsArePlaced
<1>3. ASSUME NEW q \in Reqs PROVE HandlerIsPlaced(q)'
  <2>1. CASE q # r
    <3>1. HandlerIsPlaced(q) /\ req'[q] = req[q]
      BY <1>1, <2>1 DEF Placed
    <3>2. \A t \in Tickets : lock[t] = q /\ Active(t) => lock'[t] = q /\ Active(t)'
      BY <2>1 DEF OthersKeepRows, Active
    <3> QED
      BY <3>1, <3>2 DEF HandlerIsPlaced
  <2> QED
    BY <2>1
<1> QED
  BY <1>2, <1>3 DEF Placed

(* The handlers an action moves on, and their types.                        *)
LEMMA MoveTypes ==
    ASSUME NEW h \in Handler, NEW pc \in Places
    PROVE  LET g == [h EXCEPT !.pc = pc]
           IN  g \in Handler /\ (CountIsBounded(h) => CountIsBounded(g)) /\ g.pc = pc
               /\ g.call = h.call /\ g.t = h.t /\ g.u = h.u /\ g.auto = h.auto
               /\ g.pool = h.pool /\ g.todo = h.todo
BY DEF Handler, CountIsBounded

LEMMA BeginTypes ==
    ASSUME TypeOK, NEW r \in Reqs, NEW h \in {[Idle EXCEPT !.call = "create"], BetweenRows},
           NEW u \in MaybeUser, Begin(r, h, u)
    PROVE  \E g \in Handler :
             /\ Step(r, g) /\ CountIsBounded(g) /\ g.call \in {"create", "import"}
             /\ \/ g.pc = "link" /\ g.u = u /\ u \in Users /\ ~g.auto
                \/ /\ g.pc = IF DeveloperMembers = {} THEN "ready" ELSE "count"
                   /\ g.auto /\ g.pool = DeveloperMembers /\ g.todo = DeveloperMembers
                   /\ g.u = NoUser /\ g.who = NoUser /\ g.sum = 0 /\ g.best = Infinity
                   /\ g.stage = 1
<1>1. /\ h \in Handler /\ CountIsBounded(h) /\ h.call \in {"create", "import"}
      /\ ~h.auto /\ h.u = NoUser /\ h.who = NoUser /\ h.sum = 0 /\ h.best = Infinity
      /\ h.stage = 1
  <2>1. CASE h = BetweenRows
    BY <2>1, IdleTypes DEF Idle, BetweenRows
  <2>2. CASE h = [Idle EXCEPT !.call = "create"]
    <3>1. h \in Handler /\ h.call = "create"
      BY <2>2, IdleTypes DEF Handler
    <3>2. /\ ~h.auto /\ h.u = NoUser /\ h.who = NoUser /\ h.sum = 0
          /\ h.best = Infinity /\ h.stage = 1
      BY <2>2 DEF Idle
    <3> QED
      BY <3>1, <3>2 DEF CountIsBounded
  <2> QED
    BY <2>1, <2>2
<1>2. CASE u # NoUser /\ Step(r, [h EXCEPT !.pc = "link", !.u = u])
  <2> DEFINE g == [h EXCEPT !.pc = "link", !.u = u]
  <2>1. /\ g \in Handler /\ CountIsBounded(g) /\ g.call = h.call
        /\ g.pc = "link" /\ g.u = u /\ u \in Users /\ ~g.auto
    BY <1>1, <1>2 DEF Handler, CountIsBounded, Places, MaybeUser
  <2> QED
    BY <1>1, <1>2, <2>1
<1>3. CASE BeginChoice(r, h)
  <2> DEFINE D == DeveloperMembers
  <2> DEFINE g == [h EXCEPT !.pc = IF D = {} THEN "ready" ELSE "count",
                            !.auto = TRUE, !.pool = D, !.todo = D]
  <2>0. D \subseteq Users
    BY DEF DeveloperMembers
  <2>1. /\ g \in Handler /\ CountIsBounded(g) /\ g.call = h.call
        /\ g.pc = IF D = {} THEN "ready" ELSE "count"
        /\ g.auto /\ g.pool = D /\ g.todo = D
        /\ g.u = NoUser /\ g.who = NoUser /\ g.sum = 0 /\ g.best = Infinity /\ g.stage = 1
    BY <1>1, <2>0 DEF Handler, CountIsBounded, Places
  <2> QED
    BY <1>1, <1>3, <2>1 DEF BeginChoice
<1> QED
  BY <1>2, <1>3 DEF Begin

(* A query of the choice: the next status of the same member, or the        *)
(* comparison of a member whose statuses are all counted.                   *)
LEMMA CountTypes ==
    ASSUME Placed, NEW r \in Reqs, NEW u \in Users, Count(r, u)
    PROVE  LET h == req[r]
               sum == h.sum + Cardinality(CountedTickets(u, Counted[h.stage]))
               todo == h.todo \ {u}
           IN  \E g \in Handler :
                 /\ Step(r, g) /\ CountIsBounded(g)
                 /\ g.call = h.call /\ g.t = h.t /\ g.auto = h.auto /\ g.pool = h.pool
                 /\ \/ /\ h.stage \in 1 .. 2 /\ g.pc = "count"
                       /\ g.who = u /\ g.stage = h.stage + 1 /\ g.sum = sum
                       /\ g.todo = h.todo /\ g.u = h.u /\ g.best = h.best
                    \/ /\ h.stage = 3 /\ g.who = NoUser /\ g.stage = 1 /\ g.todo = todo
                       /\ g.pc = IF todo = {} THEN "ready" ELSE "count"
                       /\ \/ Better(u, sum, h) /\ g.u = u /\ g.best = sum
                          \/ ~Better(u, sum, h) /\ g.u = h.u /\ g.best = h.best
<1> DEFINE h == req[r]
<1> DEFINE n == Cardinality(CountedTickets(u, Counted[h.stage]))
<1> DEFINE sum == h.sum + n
<1>1. h \in Handler /\ CountIsBounded(h) /\ h.stage \in 1 .. 3 /\ h.sum \in Nat
  BY DEF Placed, TypeOK, HandlerIsPlaced, Handler, Counts
<1>2. n \in Nat /\ n <= Cardinality(Tickets) /\ Cardinality(Tickets) \in Nat
  BY FoundIsCounted, Counting
<1> HIDE DEF n
<1>3. /\ sum \in Counts
      /\ h.stage = 1 => sum <= Cardinality(Tickets)
      /\ h.stage = 2 => sum <= 2 * Cardinality(Tickets)
  BY <1>1, <1>2 DEF CountIsBounded, Counts
<1>4. /\ Count(r, u) /\ h.pc = "count" /\ sum = h.sum + Cardinality(CountedTickets(u, Counted[h.stage]))
      /\ Step(r, IF h.stage = 3 THEN Compared(u, sum, h)
                 ELSE [h EXCEPT !.who = u, !.stage = h.stage + 1, !.sum = sum])
  BY DEF Count, n
<1> HIDE DEF sum
<1>5. CASE h.stage # 3
  <2> DEFINE g == [h EXCEPT !.who = u, !.stage = h.stage + 1, !.sum = sum]
  <2>1. h.stage = 1 \/ h.stage = 2
    BY <1>1, <1>5
  <2>2. g \in Handler
    <3>1. h.stage + 1 \in 1 .. 3 /\ u \in MaybeUser
      BY <2>1 DEF MaybeUser
    <3> HIDE DEF h
    <3> QED
      BY <1>1, <1>3, <3>1 DEF Handler
  <2>3. /\ g.pc = "count" /\ g.call = h.call /\ g.t = h.t /\ g.auto = h.auto /\ g.pool = h.pool
        /\ g.who = u /\ g.stage = h.stage + 1 /\ g.sum = sum
        /\ g.todo = h.todo /\ g.u = h.u /\ g.best = h.best
    BY <1>1, <1>4 DEF Handler
  <2>4. CountIsBounded(g)
    BY <1>3, <2>1, <2>3, CsvAssumption DEF CountIsBounded
  <2>5. Step(r, g)
    BY <1>4, <1>5
  <2> HIDE DEF g
  <2> QED
    BY <1>4, <2>1, <2>2, <2>3, <2>4, <2>5
<1>6. CASE h.stage = 3
  <2> DEFINE todo == h.todo \ {u}
  <2> DEFINE wins == Better(u, sum, h)
  <2> DEFINE g == Compared(u, sum, h)
  <2>1. g = [h EXCEPT !.pc = IF todo = {} THEN "ready" ELSE "count",
                      !.todo = todo, !.who = NoUser, !.stage = 1, !.sum = 0,
                      !.u = IF wins THEN u ELSE h.u,
                      !.best = IF wins THEN sum ELSE h.best]
    BY DEF Compared
  <2> HIDE DEF wins
  <2>2. g \in Handler
    <3>1. /\ NoUser \in MaybeUser /\ u \in MaybeUser /\ 1 \in 1 .. 3 /\ 0 \in Counts
          /\ "ready" \in Places /\ "count" \in Places
      BY Counting DEF MaybeUser, Counts, Places
    <3> HIDE DEF h
    <3>2. /\ h.u \in MaybeUser /\ h.best \in Counts /\ todo \in SUBSET Users
      BY <1>1 DEF Handler
    <3> QED
      BY <1>1, <1>3, <2>1, <3>1, <3>2 DEF Handler
  <2>3. /\ g.call = h.call /\ g.t = h.t /\ g.auto = h.auto /\ g.pool = h.pool
        /\ g.who = NoUser /\ g.stage = 1 /\ g.sum = 0 /\ g.todo = todo
        /\ g.pc = IF todo = {} THEN "ready" ELSE "count"
        /\ \/ wins /\ g.u = u /\ g.best = sum
           \/ ~wins /\ g.u = h.u /\ g.best = h.best
    BY <1>1, <2>1 DEF Handler
  <2>4. CountIsBounded(g)
    BY <2>3 DEF CountIsBounded
  <2>5. Step(r, g)
    BY <1>4, <1>6
  <2> HIDE DEF g
  <2> QED
    BY <1>4, <1>6, <2>2, <2>3, <2>4, <2>5 DEF wins
<1> QED
  BY <1>5, <1>6

(* PATCH and DELETE of a ticket start with it in hand.                      *)
LEMMA PatchTypes ==
    ASSUME Placed, NEW r \in Reqs, NEW t \in Tickets, PatchLock(r, t)
    PROVE  \E g \in Handler :
             /\ Step(r, g) /\ CountIsBounded(g) /\ g.call = "patch" /\ ~g.auto /\ g.t = t
             /\ \/ g.pc = "ready" /\ g.u \in {NoUser, ticket[t].assignee}
                \/ g.pc = "link" /\ g.u \in Users
<1> DEFINE body == [Idle EXCEPT !.call = "patch", !.t = t]
<1>1. body \in Handler /\ CountIsBounded(body) /\ body.call = "patch" /\ ~body.auto /\ body.t = t
  BY IdleTypes DEF Idle, Handler, CountIsBounded
<1>2. ticket[t].assignee \in MaybeUser /\ NoUser \in MaybeUser /\ Users \subseteq MaybeUser
  BY DEF Placed, TypeOK, Ticket, MaybeUser
<1>3. PICK pc \in {"ready", "link"}, u \in MaybeUser :
        /\ Step(r, [body EXCEPT !.pc = pc, !.u = u])
        /\ pc = "ready" => u \in {NoUser, ticket[t].assignee}
        /\ pc = "link" => u \in Users
  BY <1>2 DEF PatchLock
<1> DEFINE g == [body EXCEPT !.pc = pc, !.u = u]
<1> HIDE DEF body
<1>4. /\ g \in Handler /\ CountIsBounded(g) /\ g.call = "patch" /\ ~g.auto /\ g.t = t
      /\ g.pc = pc /\ g.u = u
  BY <1>1 DEF Handler, CountIsBounded, Places
<1> QED
  BY <1>3, <1>4

LEMMA FindTypes ==
    ASSUME Placed, NEW r \in Reqs, NEW t \in Tickets, DeleteFind(r, t)
    PROVE  \E g \in Handler :
             /\ Step(r, g) /\ CountIsBounded(g)
             /\ g.call = "delete" /\ ~g.auto /\ g.t = t /\ g.pc = "found"
<1> DEFINE g == [Idle EXCEPT !.pc = "found", !.call = "delete", !.t = t, !.u = ticket[t].assignee]
<1>1. ticket[t].assignee \in MaybeUser
  BY DEF Placed, TypeOK, Ticket
<1>2. /\ g \in Handler /\ CountIsBounded(g)
      /\ g.call = "delete" /\ ~g.auto /\ g.t = t /\ g.pc = "found"
  BY <1>1, IdleTypes DEF Handler, CountIsBounded, Places
<1> QED
  BY <1>2 DEF DeleteFind

(* The membership is left to look at, or the call is over.                  *)
LEMMA UnlinkTypes ==
    ASSUME Placed, NEW r \in Reqs, DeleteCommit(r) \/ UnlinkCount(r)
    PROVE  \E g \in Handler :
             /\ Step(r, g) /\ CountIsBounded(g)
             /\ \/ g = Idle
                \/ /\ g.pc = IF req[r].pc = "found" THEN "unlink" ELSE "drop"
                   /\ g.call = "delete" /\ g.u = req[r].u /\ g.u \in Users /\ g.auto = req[r].auto
                   /\ req[r].pc # "found" => ~HasWork(g.u)
<1>1. req[r] \in Handler /\ HandlerIsPlaced(r) /\ req[r].call = "delete"
  BY DEF Placed, TypeOK, DeleteCommit, UnlinkCount, At
<1>2. CASE DeleteCommit(r)
  <2> DEFINE g == [req[r] EXCEPT !.pc = "unlink", !.t = NoTicket]
  <2>1. req[r].pc = "found"
    BY <1>2 DEF DeleteCommit, At
  <2>2. /\ g \in Handler /\ CountIsBounded(g) /\ g.pc = "unlink"
        /\ g.call = "delete" /\ g.u = req[r].u /\ g.auto = req[r].auto
    BY <1>1 DEF Handler, CountIsBounded, Places, HandlerIsPlaced
  <2>3. req[r].u # NoUser => req[r].u \in Users
    BY <1>1 DEF Handler, MaybeUser
  <2> QED
    BY <1>2, <2>1, <2>2, <2>3, IdleTypes DEF DeleteCommit
<1>3. CASE UnlinkCount(r)
  <2> DEFINE g == [req[r] EXCEPT !.pc = "drop"]
  <2>1. req[r].pc = "unlink"
    BY <1>3 DEF UnlinkCount, At
  <2>2. /\ g \in Handler /\ CountIsBounded(g) /\ g.pc = "drop"
        /\ g.call = "delete" /\ g.u = req[r].u /\ g.auto = req[r].auto
    BY <1>1 DEF Handler, CountIsBounded, Places, HandlerIsPlaced
  <2>3. req[r].u \in Users
    BY <1>1, <2>1 DEF HandlerIsPlaced
  <2> QED
    BY <1>3, <2>1, <2>2, <2>3, IdleTypes DEF UnlinkCount
<1> QED
  BY <1>2, <1>3

(* A call that ends, or an import that goes on to its next line.            *)
LEMMA PlacedEnd ==
    ASSUME Placed, NEW r \in Reqs, NEW h \in {Idle, BetweenRows}, Step(r, h),
           RowsArePlaced', OthersKeepRows(r)
    PROVE  Placed'
<1>1. req'[r] = h /\ h \in Handler
  BY IdleTypes, OneHandlerMoves DEF Placed
<1>2. CASE h = Idle
  BY <1>1, <1>2, IdleTypes, PlacedStep DEF HandlerIsPlaced
<1>3. CASE h = BetweenRows
  BY <1>1, <1>3, IdleTypes, PlacedStep DEF HandlerIsPlaced
<1> QED
  BY <1>2, <1>3

(* An auto-assignment starts with the members in hand, or with none.        *)
LEMMA PlacedBegin ==
    ASSUME Placed, NEW r \in Reqs, NEW h \in {[Idle EXCEPT !.call = "create"], BetweenRows},
           NEW u \in MaybeUser, Begin(r, h, u), NothingWritten, Quiet
    PROVE  Placed'
<1>1. PICK g \in Handler :
        /\ Step(r, g) /\ CountIsBounded(g) /\ g.call \in {"create", "import"}
        /\ \/ g.pc = "link" /\ g.u \in Users /\ ~g.auto
           \/ /\ g.pc = IF DeveloperMembers = {} THEN "ready" ELSE "count"
              /\ g.auto /\ g.pool = DeveloperMembers /\ g.todo = DeveloperMembers
              /\ g.u = NoUser
  BY BeginTypes DEF Placed
<1>2. req'[r] = g
  BY <1>1, OneHandlerMoves DEF Placed
<1>3. HandlerIsPlaced(r)'
  BY <1>1, <1>2 DEF HandlerIsPlaced
<1>4. RowsArePlaced' /\ OthersKeepRows(r)
  BY DEF Placed, TypeOK, RowsArePlaced, Active, OthersKeepRows, NothingWritten, Quiet
<1> QED
  BY <1>1, <1>3, <1>4, PlacedStep

LEMMA PlacedLink ==
    ASSUME Placed, NEW r \in Reqs, LinkLook(r) \/ LinkInsert(r)
    PROVE  Placed'
<1>0. req[r] \in Handler /\ HandlerIsPlaced(r) /\ req[r].pc \in {"link", "unlinked"}
  BY DEF LinkLook, LinkInsert, Placed, TypeOK
<1>1. PICK pc \in {"unlinked", "ready"} : Goes(r, pc)
  BY DEF LinkLook, LinkInsert
<1> DEFINE g == [req[r] EXCEPT !.pc = pc]
<1>2. /\ g \in Handler /\ CountIsBounded(g) /\ g.pc = pc
      /\ g.call = req[r].call /\ g.t = req[r].t /\ g.u = req[r].u /\ g.auto = req[r].auto
  <2>1. pc \in Places
    BY DEF Places
  <2> QED
    BY <1>0, <2>1, MoveTypes DEF HandlerIsPlaced
<1>3. Step(r, g)
  BY <1>1 DEF Goes
<1> HIDE DEF g
<1>4. req'[r] = g
  BY <1>2, <1>3, OneHandlerMoves DEF Placed
<1>5. UNCHANGED <<ticket, lock>>
  BY DEF LinkLook, LinkInsert, NothingWritten
<1>6. HandlerIsPlaced(r)'
  BY <1>0, <1>2, <1>4, <1>5 DEF HandlerIsPlaced, Active
<1>7. member' \subseteq Users /\ disturbed' = disturbed /\ restored' = restored /\ dropped' \subseteq dropped
  BY <1>0 DEF LinkLook, LinkInsert, NothingWritten, Quiet, HandlerIsPlaced, Placed, TypeOK
<1>8. RowsArePlaced' /\ OthersKeepRows(r)
  BY <1>5, <1>7 DEF Placed, TypeOK, RowsArePlaced, Active, OthersKeepRows
<1> QED
  BY <1>2, <1>3, <1>6, <1>8, PlacedStep

LEMMA PlacedCount ==
    ASSUME Placed, NEW r \in Reqs, NEW u \in Users, Count(r, u)
    PROVE  Placed'
<1>0. HandlerIsPlaced(r) /\ req[r].pc = "count" /\ u \in req[r].todo
  BY DEF Placed, Count
<1>1. PICK g \in Handler :
        /\ Step(r, g) /\ CountIsBounded(g)
        /\ g.call = req[r].call /\ g.t = req[r].t /\ g.auto = req[r].auto /\ g.pool = req[r].pool
        /\ g.todo \in {req[r].todo, req[r].todo \ {u}}
        /\ g.pc = "count" \/ (g.pc = "ready" /\ g.todo = {})
        /\ g.u \in {u, req[r].u}
  BY CountTypes
<1>2. req'[r] = g
  BY <1>1, OneHandlerMoves DEF Placed
<1>3. HandlerIsPlaced(r)'
  BY <1>0, <1>1, <1>2 DEF HandlerIsPlaced
<1>4. RowsArePlaced' /\ OthersKeepRows(r)
  BY DEF Count, Placed, TypeOK, RowsArePlaced, Active, OthersKeepRows, NothingWritten, Quiet
<1> QED
  BY <1>1, <1>3, <1>4, PlacedStep

LEMMA PlacedPatchLock ==
    ASSUME Placed, NEW r \in Reqs, NEW t \in Tickets, PatchLock(r, t)
    PROVE  Placed'
<1>1. PICK g \in Handler :
        /\ Step(r, g) /\ CountIsBounded(g) /\ g.call = "patch" /\ ~g.auto /\ g.t = t
        /\ g.pc = "ready" \/ (g.pc = "link" /\ g.u \in Users)
  BY PatchTypes
<1>2. req'[r] = g
  BY <1>1, OneHandlerMoves DEF Placed
<1>3. /\ lock[t] = Free /\ lock' = [lock EXCEPT ![t] = r]
      /\ Active(t) /\ UNCHANGED <<member, ticket>> /\ Quiet
  BY DEF PatchLock
<1>4. RowsArePlaced' /\ OthersKeepRows(r) /\ lock'[t] = r
  BY <1>3 DEF Quiet, Placed, TypeOK, RowsArePlaced, Active, OthersKeepRows
<1>5. HandlerIsPlaced(r)'
  BY <1>1, <1>2, <1>3, <1>4 DEF HandlerIsPlaced, Active
<1> QED
  BY <1>1, <1>4, <1>5, PlacedStep

LEMMA PlacedFind ==
    ASSUME Placed, NEW r \in Reqs, NEW t \in Tickets, DeleteFind(r, t)
    PROVE  Placed'
<1>1. PICK g \in Handler :
        /\ Step(r, g) /\ CountIsBounded(g)
        /\ g.call = "delete" /\ ~g.auto /\ g.t = t /\ g.pc = "found"
  BY FindTypes
<1>2. req'[r] = g
  BY <1>1, OneHandlerMoves DEF Placed
<1>3. HandlerIsPlaced(r)'
  BY <1>1, <1>2 DEF HandlerIsPlaced
<1>4. RowsArePlaced' /\ OthersKeepRows(r)
  BY DEF DeleteFind, Placed, TypeOK, RowsArePlaced, Active, OthersKeepRows, NothingWritten, Quiet
<1> QED
  BY <1>1, <1>3, <1>4, PlacedStep

LEMMA PlacedUnlink ==
    ASSUME Placed, NEW r \in Reqs, DeleteCommit(r) \/ UnlinkCount(r)
    PROVE  Placed'
<1>0. HandlerIsPlaced(r) /\ req[r].call = "delete"
  BY DEF Placed, DeleteCommit, UnlinkCount, At
<1>1. RowsArePlaced' /\ OthersKeepRows(r)
  <2>1. CASE DeleteCommit(r)
    <3>1. req[r].t \in Tickets /\ lock[req[r].t] = Free
      BY <1>0, <2>1 DEF DeleteCommit, At, HandlerIsPlaced
    <3>2. ticket' \in [Tickets -> Ticket]
      BY <2>1, <3>1 DEF DeleteCommit, Placed, TypeOK, Ticket
    <3>3. \A t \in Tickets : lock[t] # Free => ticket'[t] = ticket[t]
      BY <2>1, <3>1 DEF DeleteCommit, Placed, TypeOK
    <3> QED
      BY <2>1, <3>2, <3>3 DEF DeleteCommit, Disturb, Placed, TypeOK, RowsArePlaced, Active, OthersKeepRows
  <2>2. CASE UnlinkCount(r)
    BY <2>2 DEF UnlinkCount, NothingWritten, Quiet, Placed, TypeOK, RowsArePlaced, Active, OthersKeepRows
  <2> QED
    BY <2>1, <2>2
<1>2. PICK g \in Handler :
        /\ Step(r, g) /\ CountIsBounded(g)
        /\ \/ g = Idle
           \/ g.pc \in {"unlink", "drop"} /\ g.call = "delete" /\ g.u \in Users /\ g.auto = req[r].auto
  BY UnlinkTypes
<1>3. req'[r] = g
  BY <1>2, OneHandlerMoves DEF Placed
<1>4. CASE g = Idle
  BY <1>1, <1>2, <1>4, PlacedEnd
<1>5. CASE g # Idle
  <2>1. HandlerIsPlaced(r)'
    BY <1>0, <1>2, <1>3, <1>5 DEF HandlerIsPlaced
  <2> QED
    BY <1>1, <1>2, <2>1, PlacedStep
<1> QED
  BY <1>4, <1>5

LEMMA PlacedWrite ==
    ASSUME Placed, NEW r \in Reqs,
           PatchCommit(r) \/ UnlinkDrop(r) \/ GiveUp(r) \/ \E t \in Tickets : Insert(r, t)
    PROVE  Placed'
<1>0. HandlerIsPlaced(r) /\ req[r] \in Handler
  BY DEF Placed, TypeOK
<1>1. PICK h \in {Idle, BetweenRows} : Step(r, h)
  BY DEF PatchCommit, UnlinkDrop, GiveUp, Insert
<1>2. CASE PatchCommit(r)
  <2>1. /\ req[r].t \in Tickets /\ lock[req[r].t] = r /\ req[r].u \in MaybeUser
        /\ ticket[req[r].t].status \in Statuses
    BY <1>0, <1>2 DEF PatchCommit, At, HandlerIsPlaced, Handler, Placed, TypeOK, Ticket
  <2>2. PICK status \in Statuses :
          ticket' = [ticket EXCEPT ![req[r].t].status = status, ![req[r].t].assignee = req[r].u]
    BY <1>2, <2>1, AssignmentAssumption DEF PatchCommit
  <2>3. /\ ticket' \in [Tickets -> Ticket]
        /\ \A t \in Tickets : t # req[r].t => ticket'[t] = ticket[t]
    BY <2>1, <2>2 DEF Placed, TypeOK, Ticket
  <2>4. RowsArePlaced' /\ OthersKeepRows(r)
    BY <1>2, <2>1, <2>3 DEF PatchCommit, Disturb, Placed, TypeOK, RowsArePlaced, Active, OthersKeepRows
  <2> QED
    BY <1>1, <2>4, PlacedEnd
<1>3. CASE UnlinkDrop(r)
  <2>1. req[r].u \in Users
    BY <1>0, <1>3 DEF UnlinkDrop, HandlerIsPlaced
  <2>2. RowsArePlaced' /\ OthersKeepRows(r)
    BY <1>3, <2>1 DEF UnlinkDrop, Placed, TypeOK, RowsArePlaced, Active, OthersKeepRows
  <2> QED
    BY <1>1, <2>2, PlacedEnd
<1>4. CASE GiveUp(r)
  <2>1. RowsArePlaced' /\ OthersKeepRows(r)
    BY <1>4 DEF GiveUp, Placed, TypeOK, RowsArePlaced, Active, OthersKeepRows
  <2> QED
    BY <1>1, <2>1, PlacedEnd
<1>5. ASSUME NEW t \in Tickets, Insert(r, t) PROVE Placed'
  <2>1. PICK status \in Statuses :
          ticket' = [ticket EXCEPT ![t] = [life |-> "active", status |-> status,
                                           assignee |-> req[r].u]]
    BY <1>5, AssignmentAssumption DEF Insert
  <2>2. req[r].u \in MaybeUser
    BY <1>0 DEF Handler
  <2>3. ticket' \in [Tickets -> Ticket]
    BY <2>1, <2>2 DEF Placed, TypeOK, Ticket
  <2>4. lock[t] \in {r, Free}
    BY <1>5 DEF Insert, Active, Placed, RowsArePlaced
  <2>5. RowsArePlaced' /\ OthersKeepRows(r)
    BY <1>5, <2>1, <2>3, <2>4 DEF Insert, Disturb, Placed, TypeOK, RowsArePlaced, Active, OthersKeepRows
  <2> QED
    BY <1>1, <2>5, PlacedEnd
<1> QED
  BY <1>2, <1>3, <1>4, <1>5

LEMMA PlacedNext == Placed /\ [Next]_vars => Placed'
<1> SUFFICES ASSUME Placed, [Next]_vars PROVE Placed'
  OBVIOUS
<1>1. ASSUME NEW r \in Reqs, Create(r) PROVE Placed'
  BY <1>1, PlacedBegin DEF Create
<1>2. ASSUME NEW r \in Reqs, ImportRow(r) PROVE Placed'
  <2>1. PICK text \in {Plain(word) : word \in Words \cup {NoWord} \cup Users} :
          AssigneeAccepted(text, Users) /\ Begin(r, BetweenRows, AssigneeOf(text))
    BY <1>2 DEF ImportRow
  <2>2. AssigneeOf(text) \in MaybeUser
    BY <2>1 DEF AssigneeAccepted, AssigneeOf, MaybeUser
  <2> QED
    BY <1>2, <2>1, <2>2, PlacedBegin DEF ImportRow
<1>3. ASSUME NEW r \in Reqs, Import(r) \/ ImportAnswer(r) \/ ImportRowFails(r) PROVE Placed'
  <2>1. PICK h \in {Idle, BetweenRows} : Step(r, h)
    BY <1>3 DEF Import, ImportAnswer, ImportRowFails
  <2>2. RowsArePlaced' /\ OthersKeepRows(r)
    BY <1>3 DEF Import, ImportAnswer, ImportRowFails, NothingWritten, Quiet,
       Placed, RowsArePlaced, Active, OthersKeepRows
  <2> QED
    BY <2>1, <2>2, PlacedEnd
<1>4. ASSUME NEW r \in Reqs, NEW t \in Tickets, Restore(r, t) PROVE Placed'
  <2>1. /\ ticket' \in [Tickets -> Ticket] /\ ticket'[t].life = "active"
        /\ \A s \in Tickets : s # t => ticket'[s] = ticket[s]
    BY <1>4 DEF Restore, Placed, TypeOK, Ticket
  <2>2. RowsArePlaced' /\ OthersKeepRows(r)
    BY <1>4, <2>1 DEF Restore, Disturb, Placed, TypeOK, RowsArePlaced, Active, OthersKeepRows
  <2>3. Step(r, req[r]) /\ req[r] \in Handler
    BY <1>4 DEF Restore, Step, Placed, TypeOK
  <2>4. HandlerIsPlaced(r)'
    BY <1>4 DEF Restore, Placed, HandlerIsPlaced
  <2> QED
    BY <2>2, <2>3, <2>4, PlacedStep
<1>5. CASE UNCHANGED vars
  BY <1>5 DEF vars, Placed, TypeOK, RowsArePlaced, Active, HandlerIsPlaced
<1> QED
  BY <1>1, <1>2, <1>3, <1>4, <1>5, PlacedLink, PlacedCount, PlacedPatchLock, PlacedFind,
     PlacedUnlink, PlacedWrite DEF Next, HandlerStep

----------------------------------------------------------------------------
(* As long as no ticket is written, every count stays what it was.          *)
LEMMA SameTickets ==
    ASSUME ticket' = ticket
    PROVE  \A u : /\ WorkOf(u)' = WorkOf(u) /\ Load(u)' = Load(u)
                  /\ \A stage : Found(u, stage)' = Found(u, stage)
BY DEF WorkOf, Load, Found, CountedTickets, Active

(* Whom handler q may be about to assign a ticket to.                       *)
Promised(q) ==
    {u \in MaybeUser : \/ req[q].pc = "ready" /\ req[q].u = u
                       \/ req[q].pc = "count" /\ u \in req[q].pool}

LEMMA OtherIsRight ==
    ASSUME TypeOK, NEW q \in Reqs, req'[q] = req[q], ticket' = ticket,
           q \in disturbed' <=> q \in disturbed,
           \A u \in Promised(q) : Assignable(u) => Assignable(u)',
           HandlerIsRight(q)
    PROVE  HandlerIsRight(q)'
<1>1. req[q] \in Handler
  BY DEF TypeOK
<1>2. req[q].pc = "ready" => (Assignable(req[q].u) => Assignable(req[q].u)')
  BY <1>1 DEF Promised, Handler
<1>3. req[q].pc = "count" => \A u \in req[q].pool : Assignable(u) => Assignable(u)'
  BY <1>1 DEF Promised, Handler, MaybeUser
<1>4. ChoiceIsRight(q) => ChoiceIsRight(q)'
  <2>1. \A u : Load(u)' = Load(u) /\ \A stage : FoundBefore(u, stage)' = FoundBefore(u, stage)
    BY SameTickets DEF FoundBefore
  <2> QED
    BY <2>1 DEF ChoiceIsRight, ComparedBy, Beats
<1>5. WorkOf(req[q].u)' = WorkOf(req[q].u)
  BY SameTickets
<1> QED
  BY <1>2, <1>3, <1>4, <1>5 DEF HandlerIsRight, Choosing, Assignable

LEMMA QuietStep ==
    ASSUME Inv, Placed', NEW r \in Reqs,
           UNCHANGED <<member, ticket, restored, dropped>>,
           \A q \in Reqs : q # r => req'[q] = req[q] /\ (q \in disturbed' <=> q \in disturbed),
           HandlerIsRight(r)'
    PROVE  Inv'
<1>1. \A u : Assignable(u)' <=> Assignable(u)
  BY DEF Assignable
<1>2. ASSUME NEW q \in Reqs, q # r PROVE HandlerIsRight(q)'
  BY <1>1, <1>2, OtherIsRight DEF Inv, Placed
<1>3. \A t \in Tickets : TicketIsRight(t)'
  BY <1>1 DEF Inv, TicketIsRight, Active, Assignable
<1> QED
  BY <1>2, <1>3 DEF Inv

(* A write to a ticket takes the handlers that have counted by surprise, so *)
(* that they promise nothing any more.                                      *)
LEMMA LoudStep ==
    ASSUME Inv, Placed', NEW r \in Reqs, Disturb(r), UNCHANGED <<member, dropped>>,
           OthersKeepRows(r),
           \A q \in Reqs : q # r => req'[q] = req[q],
           req'[r].pc \notin {"count", "ready", "drop"},
           \A t \in Tickets : TicketIsRight(t)'
    PROVE  Inv'
<1>1. HandlerIsRight(r)'
  BY DEF HandlerIsRight, Choosing
<1>2. ASSUME NEW q \in Reqs, q # r PROVE HandlerIsRight(q)'
  <2>1. HandlerIsRight(q) /\ HandlerIsPlaced(q) /\ req'[q] = req[q]
    BY <1>2 DEF Inv, Placed
  <2>2. Choosing(q) \/ req[q].pc = "drop" => q \in disturbed'
    BY <1>2 DEF Disturb
  <2>3. \A u : Assignable(u)' <=> Assignable(u)
    BY DEF Assignable
  <2>4. req[q].pc = "ready" /\ req[q].call = "patch" =>
          ticket'[req[q].t].assignee = ticket[req[q].t].assignee
    BY <1>2, <2>1 DEF HandlerIsPlaced, OthersKeepRows
  <2> QED
    BY <2>1, <2>2, <2>3, <2>4 DEF HandlerIsRight, Choosing, Assignable
<1> QED
  BY <1>1, <1>2 DEF Inv

(* A handler that has nothing in hand is right.                             *)
LEMMA AtEaseIsRight ==
    ASSUME NEW r \in Reqs, req'[r].pc \notin {"count", "ready", "drop"}
    PROVE  HandlerIsRight(r)'
BY DEF HandlerIsRight, Choosing

LEMMA QuietEnd ==
    ASSUME Inv, Placed', NEW r \in Reqs, NEW h \in Handler, Step(r, h),
           h.pc \notin {"count", "ready", "drop"},
           UNCHANGED <<member, ticket, restored, dropped>>,
           disturbed' = disturbed \/ disturbed' = disturbed \ {r}
    PROVE  Inv'
<1>1. req'[r] = h /\ \A q \in Reqs : q # r => req'[q] = req[q]
  BY OneHandlerMoves DEF Inv, Placed
<1> QED
  BY <1>1, AtEaseIsRight, QuietStep

LEMMA BeginStep ==
    ASSUME Inv, Placed', NEW r \in Reqs,
           NEW h \in {[Idle EXCEPT !.call = "create"], BetweenRows},
           NEW u \in MaybeUser, Begin(r, h, u), NothingWritten, Quiet
    PROVE  Inv'
<1>1. PICK g \in Handler :
        /\ Step(r, g)
        /\ \/ g.pc = "link"
           \/ /\ g.pc \in {"count", "ready"} /\ g.pool = DeveloperMembers /\ g.todo = DeveloperMembers
              /\ g.u = NoUser /\ g.who = NoUser /\ g.best = Infinity
  BY BeginTypes DEF Inv, Placed
<1>2. req'[r] = g /\ \A q \in Reqs : q # r => req'[q] = req[q]
  BY <1>1, OneHandlerMoves DEF Inv, Placed
<1>3. CASE g.pc = "link"
  BY <1>1, <1>3, QuietEnd DEF NothingWritten, Quiet
<1>4. CASE g.pc # "link"
  <2>1. Assignable(NoUser)' /\ \A v \in DeveloperMembers : Assignable(v)'
    BY DEF Assignable, DeveloperMembers, NothingWritten
  <2>2. ChoiceIsRight(r)'
    BY <1>1, <1>2, <1>4 DEF ChoiceIsRight, ComparedBy, Infinity
  <2>3. HandlerIsRight(r)'
    BY <1>1, <1>2, <1>4, <2>1, <2>2 DEF HandlerIsRight
  <2> QED
    BY <1>2, <2>3, QuietStep DEF NothingWritten, Quiet
<1> QED
  BY <1>3, <1>4

LEMMA LinkStep ==
    ASSUME Inv, Placed', NEW r \in Reqs, LinkLook(r) \/ LinkInsert(r)
    PROVE  Inv'
<1>0. req[r] \in Handler /\ HandlerIsPlaced(r) /\ req[r].pc \in {"link", "unlinked"}
  BY DEF LinkLook, LinkInsert, Inv, Placed, TypeOK
<1>1. PICK pc \in {"unlinked", "ready"}, u \in Users :
        /\ Goes(r, pc) /\ u = req[r].u
        /\ LinkLook(r) => (pc = "ready" => u \notin Developers \ member)
        /\ LinkInsert(r) => pc = "ready" /\ member' = member \cup {u}
  BY <1>0 DEF LinkLook, LinkInsert, HandlerIsPlaced
<1> DEFINE g == [req[r] EXCEPT !.pc = pc]
<1>2. /\ g \in Handler /\ g.pc = pc /\ g.u = u /\ g.auto = req[r].auto /\ ~g.auto
  <2>1. pc \in Places
    BY DEF Places
  <2> QED
    BY <1>0, <1>1, <2>1, MoveTypes DEF HandlerIsPlaced
<1>3. Step(r, g)
  BY <1>1 DEF Goes
<1> HIDE DEF g
<1>4. req'[r] = g /\ \A q \in Reqs : q # r => req'[q] = req[q]
  BY <1>2, <1>3, OneHandlerMoves DEF Inv, Placed
<1>5. \A v \in Users : Assignable(v) => Assignable(v)'
  BY DEF Assignable, LinkLook, LinkInsert, NothingWritten, Quiet
<1>6. pc = "ready" => Assignable(u)'
  <2>1. CASE LinkLook(r)
    BY <1>1, <2>1 DEF Assignable, LinkLook, NothingWritten, Quiet
  <2>2. CASE LinkInsert(r)
    BY <1>1, <2>2 DEF Assignable
  <2> QED
    BY <2>1, <2>2
<1>7. HandlerIsRight(r)'
  BY <1>2, <1>4, <1>6 DEF HandlerIsRight, Choosing, Assignable
<1>8. ticket' = ticket /\ disturbed' = disturbed /\ restored' = restored
  BY DEF LinkLook, LinkInsert, NothingWritten, Quiet
<1>9. \A v \in MaybeUser : Assignable(v) => Assignable(v)'
  BY <1>5 DEF MaybeUser, Assignable
<1>10. ASSUME NEW q \in Reqs, q # r PROVE HandlerIsRight(q)'
  BY <1>4, <1>8, <1>9, <1>10, OtherIsRight DEF Inv, Placed, Promised
<1>11. ASSUME NEW t \in Tickets PROVE TicketIsRight(t)'
  <2>1. ticket[t].assignee \in MaybeUser /\ TicketIsRight(t)
    BY DEF Inv, Placed, TypeOK, Ticket
  <2> QED
    BY <1>8, <1>9, <2>1 DEF TicketIsRight, Active, Assignable
<1> QED
  BY <1>7, <1>10, <1>11 DEF Inv

(* One more status, or one more member compared, of an undisturbed choice.  *)
LEMMA ChoiceGoesOn ==
    ASSUME Inv, NEW r \in Reqs, NEW u \in Users, Count(r, u),
           ChoiceIsRight(r), ticket' = ticket
    PROVE  ChoiceIsRight(r)'
<1> DEFINE h == req[r]
<1> DEFINE sum == h.sum + Cardinality(CountedTickets(u, Counted[h.stage]))
<1>1. /\ h \in Handler /\ h.stage \in 1 .. 3 /\ h.who \in {u, NoUser}
      /\ u \in h.todo /\ h.todo \subseteq h.pool /\ h.pool \subseteq Users
      /\ HandlerIsPlaced(r) /\ TypeOK
  BY DEF Inv, Placed, TypeOK, HandlerIsPlaced, Count, Handler
<1>2. h.sum = FoundBefore(u, h.stage)
  <2>1. CASE h.who = NoUser
    BY <1>1, <2>1 DEF HandlerIsPlaced, CountIsBounded, FoundBefore
  <2>2. CASE h.who # NoUser
    BY <1>1, <2>2 DEF ChoiceIsRight
  <2> QED
    BY <2>1, <2>2
<1>3. \A v : /\ Load(v)' = Load(v)
             /\ \A stage : Found(v, stage)' = Found(v, stage)
                           /\ FoundBefore(v, stage)' = FoundBefore(v, stage)
  BY SameTickets DEF FoundBefore
<1>4. \A stage : Found(u, stage) \in Nat
  BY FoundIsCounted DEF Found
<1>5. PICK g \in Handler :
        /\ Step(r, g) /\ g.pool = h.pool
        /\ \/ /\ h.stage \in 1 .. 2 /\ g.who = u /\ g.stage = h.stage + 1 /\ g.sum = sum
              /\ g.todo = h.todo /\ g.u = h.u /\ g.best = h.best
           \/ /\ h.stage = 3 /\ g.who = NoUser /\ g.todo = h.todo \ {u}
              /\ \/ Better(u, sum, h) /\ g.u = u /\ g.best = sum
                 \/ ~Better(u, sum, h) /\ g.u = h.u /\ g.best = h.best
  BY CountTypes DEF Inv
<1>6. req'[r] = g
  BY <1>5, OneHandlerMoves DEF Inv, Placed
<1>7. CASE h.stage # 3
  <2>1. h.stage = 1 \/ h.stage = 2
    BY <1>1, <1>7
  <2>2. sum = FoundBefore(u, h.stage + 1)
    BY <1>2, <1>4, <2>1 DEF FoundBefore, Found
  <2>3. ComparedBy(r)' = ComparedBy(r)
    BY <1>5, <1>6, <1>7 DEF ComparedBy
  <2> HIDE DEF sum
  <2> QED
    BY <1>3, <1>5, <1>6, <1>7, <2>2, <2>3 DEF ChoiceIsRight, Beats
<1>8. CASE h.stage = 3
  <2>1. sum = Load(u) /\ Load(u) \in Nat /\ Load(u) < Infinity
    BY <1>1, <1>2, <1>4, <1>8, LoadIsTheSum, Counting DEF FoundBefore, Found, Infinity
  <2>2. /\ ComparedBy(r)' = ComparedBy(r) \cup {u} /\ u \notin ComparedBy(r)
        /\ ComparedBy(r) \subseteq Users
    BY <1>1, <1>5, <1>6, <1>8 DEF ComparedBy
  <2>3. \A v \in ComparedBy(r) : Load(v) \in Nat /\ v \in Nat
    BY <1>1, <2>2, LoadIsTheSum
  <2>4. u \in Nat
    OBVIOUS
  <2> HIDE DEF sum
  <2>5. CASE ComparedBy(r) = {}
    <3>1. h.best = Infinity
      BY <2>5 DEF ChoiceIsRight
    <3>2. g.u = u /\ g.best = Load(u)
      BY <1>5, <1>8, <2>1, <3>1 DEF Better
    <3> QED
      BY <1>3, <1>5, <1>6, <1>8, <2>1, <2>2, <2>4, <2>5, <3>2 DEF ChoiceIsRight, Beats
  <2>6. CASE ComparedBy(r) # {}
    <3>1. /\ h.u \in ComparedBy(r) /\ h.best = Load(h.u)
          /\ \A v \in ComparedBy(r) : Beats(h.u, v)
      BY <2>6 DEF ChoiceIsRight
    <3>2. CASE Better(u, sum, h)
      <4>1. g.u = u /\ g.best = Load(u)
        BY <1>5, <1>8, <2>1, <3>2
      <4>2. \A v \in ComparedBy(r) \cup {u} : Beats(u, v)
        BY <2>1, <2>2, <2>3, <2>4, <3>1, <3>2 DEF Better, Beats
      <4> QED
        BY <1>3, <1>5, <1>6, <1>8, <2>2, <4>1, <4>2 DEF ChoiceIsRight, Beats
    <3>3. CASE ~Better(u, sum, h)
      <4>1. g.u = h.u /\ g.best = h.best
        BY <1>5, <1>8, <3>3
      <4>2. Beats(h.u, u)
        BY <2>1, <2>2, <2>3, <2>4, <3>1, <3>3 DEF Better, Beats
      <4> QED
        BY <1>3, <1>5, <1>6, <1>8, <2>2, <3>1, <4>1, <4>2 DEF ChoiceIsRight, Beats
    <3> QED
      BY <3>2, <3>3
  <2> QED
    BY <2>5, <2>6
<1> QED
  BY <1>7, <1>8

LEMMA CountStep ==
    ASSUME Inv, Placed', NEW r \in Reqs, NEW u \in Users, Count(r, u)
    PROVE  Inv'
<1>0. /\ HandlerIsPlaced(r) /\ HandlerIsRight(r) /\ req[r].pc = "count" /\ u \in req[r].todo
      /\ UNCHANGED <<member, ticket, disturbed, restored, dropped>>
  BY DEF Inv, Placed, Count, NothingWritten, Quiet
<1>1. PICK g \in Handler :
        /\ Step(r, g) /\ g.auto = req[r].auto /\ g.pool = req[r].pool
        /\ g.pc \in {"count", "ready"} /\ g.u \in {u, req[r].u}
  BY CountTypes DEF Inv
<1>2. req'[r] = g /\ \A q \in Reqs : q # r => req'[q] = req[q]
  BY <1>1, OneHandlerMoves DEF Inv, Placed
<1>3. Assignable(g.u) /\ \A v \in g.pool : Assignable(v)
  BY <1>0, <1>1 DEF HandlerIsPlaced, HandlerIsRight, Assignable
<1>4. \A v : Assignable(v)' <=> Assignable(v)
  BY <1>0 DEF Assignable
<1>5. Choosing(r)' /\ r \notin disturbed' => ChoiceIsRight(r)'
  BY <1>0, ChoiceGoesOn DEF HandlerIsRight, HandlerIsPlaced, Choosing
<1>6. HandlerIsRight(r)'
  BY <1>1, <1>2, <1>3, <1>4, <1>5 DEF HandlerIsRight
<1> QED
  BY <1>0, <1>2, <1>6, QuietStep

LEMMA PatchStep ==
    ASSUME Inv, Placed', NEW r \in Reqs, NEW t \in Tickets, PatchLock(r, t)
    PROVE  Inv'
<1>1. PICK g \in Handler :
        /\ Step(r, g) /\ g.call = "patch" /\ ~g.auto /\ g.t = t
        /\ g.pc = "link" \/ (g.pc = "ready" /\ g.u \in {NoUser, ticket[t].assignee})
  BY PatchTypes DEF Inv
<1>2. req'[r] = g /\ \A q \in Reqs : q # r => req'[q] = req[q]
  BY <1>1, OneHandlerMoves DEF Inv, Placed
<1>3. UNCHANGED <<member, ticket, disturbed, restored, dropped>>
  BY DEF PatchLock, Quiet
<1>4. HandlerIsRight(r)'
  BY <1>1, <1>2, <1>3 DEF HandlerIsRight, Choosing, Assignable
<1> QED
  BY <1>2, <1>3, <1>4, QuietStep

LEMMA UnlinkCountStep ==
    ASSUME Inv, Placed', NEW r \in Reqs, UnlinkCount(r)
    PROVE  Inv'
<1>0. req[r].pc = "unlink" /\ UNCHANGED <<member, ticket, disturbed, restored, dropped>>
  BY DEF UnlinkCount, At, NothingWritten, Quiet
<1>1. PICK g \in Handler :
        Step(r, g) /\ (g = Idle \/ (g.pc = "drop" /\ ~HasWork(g.u)))
  BY <1>0, UnlinkTypes DEF Inv
<1>2. req'[r] = g /\ \A q \in Reqs : q # r => req'[q] = req[q]
  BY <1>1, OneHandlerMoves DEF Inv, Placed
<1>3. \A u : WorkOf(u)' = WorkOf(u)
  BY <1>0, SameTickets
<1>4. HandlerIsRight(r)'
  BY <1>1, <1>2, <1>3, IdleTypes DEF HandlerIsRight, Choosing, HasWork
<1> QED
  BY <1>0, <1>2, <1>4, QuietStep

(* The two ways out: the membership goes although its count was overtaken,  *)
(* or although somebody is about to assign a ticket to its user.            *)
LEMMA DropStep ==
    ASSUME Inv, Placed', NEW r \in Reqs, UnlinkDrop(r)
    PROVE  Inv'
<1>0. PICK u \in MaybeUser : u = req[r].u
  BY DEF Inv, Placed, TypeOK, Handler
<1>1. /\ req[r].pc = "drop" /\ HandlerIsPlaced(r) /\ HandlerIsRight(r)
      /\ UNCHANGED <<ticket, lock, restored>> /\ disturbed' = disturbed \ {r}
      /\ Step(r, Idle)
  BY DEF UnlinkDrop, Inv, Placed
<1>2. /\ member' = member \ {u}
      /\ dropped' = IF (r \in disturbed /\ WorkOf(u) # {}) \/ AboutToAssign(u)
                    THEN dropped \cup {u} ELSE dropped
  BY <1>0 DEF UnlinkDrop
<1>3. req'[r] = Idle /\ \A q \in Reqs : q # r => req'[q] = req[q]
  BY <1>1, IdleTypes, OneHandlerMoves DEF Inv, Placed
<1>4. \A v : v # u /\ Assignable(v) => Assignable(v)'
  BY <1>2 DEF Assignable
<1>5. AboutToAssign(u) => Assignable(u)'
  BY <1>2 DEF Assignable
<1>6. WorkOf(u) # {} => Assignable(u)'
  BY <1>0, <1>1, <1>2 DEF Assignable, HandlerIsRight
<1>7. ASSUME NEW q \in Reqs, q # r PROVE HandlerIsRight(q)'
  <2>1. u \in Promised(q) => AboutToAssign(u)
    BY DEF Promised, AboutToAssign
  <2>2. \A v \in Promised(q) : Assignable(v) => Assignable(v)'
    BY <1>4, <1>5, <2>1
  <2> QED
    BY <1>1, <1>3, <1>7, <2>2, OtherIsRight DEF Inv, Placed
<1>8. ASSUME NEW t \in Tickets PROVE TicketIsRight(t)'
  <2>1. TicketIsRight(t)
    BY DEF Inv
  <2>2. Active(t) /\ ticket[t].assignee = u => WorkOf(u) # {}
    BY DEF WorkOf
  <2> QED
    BY <1>1, <1>4, <1>6, <2>1, <2>2 DEF TicketIsRight, Active, Assignable
<1>9. HandlerIsRight(r)'
  BY <1>3, IdleTypes, AtEaseIsRight
<1> QED
  BY <1>7, <1>8, <1>9 DEF Inv

LEMMA InsertStep ==
    ASSUME Inv, Placed', NEW r \in Reqs, NEW t \in Tickets, Insert(r, t)
    PROVE  Inv'
<1>1. /\ At(r, "ready", {"create", "import"}) /\ ticket[t].life = "absent"
      /\ Disturb(r) /\ UNCHANGED <<member, lock, restored, dropped>>
  BY DEF Insert
<1>2. PICK status \in NewStatuses :
        ticket' = [ticket EXCEPT ![t] = [life |-> "active", status |-> status,
                                         assignee |-> req[r].u]]
  BY DEF Insert
<1>3. Assignable(req[r].u)
  BY <1>1 DEF Inv, HandlerIsRight, At
<1>4. /\ \A s \in Tickets : s # t => ticket'[s] = ticket[s]
      /\ ticket'[t].assignee = req[r].u
  BY <1>2 DEF Inv, Placed, TypeOK
<1>5. ASSUME NEW s \in Tickets PROVE TicketIsRight(s)'
  <2>1. TicketIsRight(s)
    BY DEF Inv
  <2> QED
    BY <1>1, <1>3, <1>4, <2>1 DEF TicketIsRight, Active, Assignable
<1>6. PICK h \in {Idle, BetweenRows} : Step(r, h)
  BY DEF Insert
<1>7. h \in Handler /\ h.pc \in {"idle", "row"}
  BY IdleTypes
<1>8. req'[r] = h /\ \A q \in Reqs : q # r => req'[q] = req[q]
  BY <1>6, <1>7, OneHandlerMoves DEF Inv, Placed
<1>9. OthersKeepRows(r)
  <2>1. lock[t] = Free
    BY <1>1 DEF Inv, Placed, RowsArePlaced, Active
  <2> QED
    BY <1>1, <1>4, <2>1 DEF OthersKeepRows
<1> QED
  BY <1>1, <1>5, <1>7, <1>8, <1>9, LoudStep

LEMMA PatchCommitStep ==
    ASSUME Inv, Placed', NEW r \in Reqs, PatchCommit(r)
    PROVE  Inv'
<1>1. PICK t \in Tickets : t = req[r].t /\ lock[t] = r /\ Active(t)
  BY DEF PatchCommit, At, Inv, Placed, HandlerIsPlaced
<1>2. /\ lock' = [lock EXCEPT ![t] = Free]
      /\ restored' = IF ticket[t].assignee = req[r].u THEN restored ELSE restored \ {t}
      /\ Step(r, Idle) /\ Disturb(r) /\ UNCHANGED <<member, dropped>>
  BY <1>1 DEF PatchCommit
<1>3. PICK status : ticket' = [ticket EXCEPT ![t].status = status, ![t].assignee = req[r].u]
  BY <1>1 DEF PatchCommit
<1>4. /\ \A s \in Tickets : s # t => ticket'[s] = ticket[s] /\ lock'[s] = lock[s]
      /\ ticket'[t].assignee = req[r].u
  BY <1>2, <1>3 DEF Inv, Placed, TypeOK, Ticket
<1>5. Assignable(req[r].u) \/ req[r].u = ticket[t].assignee
  BY <1>1 DEF Inv, HandlerIsRight, PatchCommit, At
<1>6. ASSUME NEW s \in Tickets PROVE TicketIsRight(s)'
  <2>1. TicketIsRight(s)
    BY DEF Inv
  <2> QED
    BY <1>1, <1>2, <1>4, <1>5, <2>1 DEF TicketIsRight, Active, Assignable
<1>7. req'[r] = Idle /\ \A q \in Reqs : q # r => req'[q] = req[q]
  BY <1>2, IdleTypes, OneHandlerMoves DEF Inv, Placed
<1>8. OthersKeepRows(r)
  BY <1>1, <1>4 DEF OthersKeepRows
<1> QED
  BY <1>2, <1>6, <1>7, <1>8, IdleTypes, LoudStep

LEMMA DeleteCommitStep ==
    ASSUME Inv, Placed', NEW r \in Reqs, DeleteCommit(r)
    PROVE  Inv'
<1>1. PICK t \in Tickets : t = req[r].t /\ lock[t] = Free
  BY DEF DeleteCommit, At, Inv, Placed, HandlerIsPlaced
<1>2. /\ ticket' = [ticket EXCEPT ![t].life = "deleted"]
      /\ restored' = restored \ {t}
      /\ Disturb(r) /\ UNCHANGED <<member, lock, dropped>>
  BY <1>1 DEF DeleteCommit
<1>3. (\A s \in Tickets : s # t => ticket'[s] = ticket[s]) /\ ~Active(t)'
  BY <1>2 DEF Inv, Placed, TypeOK, Ticket, Active
<1>4. ASSUME NEW s \in Tickets PROVE TicketIsRight(s)'
  <2>1. TicketIsRight(s)
    BY DEF Inv
  <2> QED
    BY <1>2, <1>3, <2>1 DEF TicketIsRight, Active, Assignable
<1>5. PICK g \in Handler : Step(r, g) /\ (g = Idle \/ g.pc = "unlink")
  BY UnlinkTypes DEF Inv, DeleteCommit, At
<1>6. req'[r] = g /\ \A q \in Reqs : q # r => req'[q] = req[q]
  BY <1>5, OneHandlerMoves DEF Inv, Placed
<1>7. OthersKeepRows(r)
  BY <1>1, <1>2, <1>3 DEF OthersKeepRows
<1> QED
  BY <1>2, <1>4, <1>5, <1>6, <1>7, IdleTypes, LoudStep

LEMMA RestoreStep ==
    ASSUME Inv, Placed', NEW r \in Reqs, NEW t \in Tickets, Restore(r, t)
    PROVE  Inv'
<1>1. /\ req[r].pc = "idle" /\ lock[t] = Free
      /\ ticket' = [ticket EXCEPT ![t].life = "active"]
      /\ restored' = restored \cup {t}
      /\ Disturb(r) /\ UNCHANGED <<member, lock, req, dropped>>
  BY DEF Restore
<1>2. \A s \in Tickets : s # t => ticket'[s] = ticket[s]
  BY <1>1 DEF Inv, Placed, TypeOK
<1>3. ASSUME NEW s \in Tickets PROVE TicketIsRight(s)'
  <2>1. TicketIsRight(s)
    BY DEF Inv
  <2> QED
    BY <1>1, <1>2, <2>1 DEF TicketIsRight, Active, Assignable
<1>4. OthersKeepRows(r)
  BY <1>1, <1>2 DEF OthersKeepRows
<1> QED
  BY <1>1, <1>3, <1>4, LoudStep

LEMMA StepInv == Inv /\ [Next]_vars => Inv'
<1> SUFFICES ASSUME Inv, [Next]_vars PROVE Inv'
  OBVIOUS
<1>0. Placed'
  BY PlacedNext DEF Inv
<1>1. ASSUME NEW r \in Reqs, Create(r) PROVE Inv'
  BY <1>0, <1>1, BeginStep DEF Create
<1>2. ASSUME NEW r \in Reqs, ImportRow(r) PROVE Inv'
  <2>1. PICK text \in {Plain(word) : word \in Words \cup {NoWord} \cup Users} :
          AssigneeAccepted(text, Users) /\ Begin(r, BetweenRows, AssigneeOf(text))
    BY <1>2 DEF ImportRow
  <2>2. AssigneeOf(text) \in MaybeUser
    BY <2>1 DEF AssigneeAccepted, AssigneeOf, MaybeUser
  <2> QED
    BY <1>0, <1>2, <2>1, <2>2, BeginStep DEF ImportRow
<1>3. ASSUME NEW r \in Reqs,
             Import(r) \/ ImportAnswer(r) \/ ImportRowFails(r) \/ GiveUp(r)
      PROVE  Inv'
  <2>1. PICK h \in {Idle, BetweenRows} : Step(r, h)
    BY <1>3 DEF Import, ImportAnswer, ImportRowFails, GiveUp
  <2>2. h \in Handler /\ h.pc \notin {"count", "ready", "drop"}
    BY IdleTypes
  <2>3. /\ UNCHANGED <<member, ticket, restored, dropped>>
        /\ disturbed' = disturbed \/ disturbed' = disturbed \ {r}
    BY <1>3 DEF Import, ImportAnswer, ImportRowFails, GiveUp, NothingWritten, Quiet
  <2> QED
    BY <1>0, <2>1, <2>2, <2>3, QuietEnd
<1>4. ASSUME NEW r \in Reqs, NEW t \in Tickets, DeleteFind(r, t) PROVE Inv'
  <2>1. PICK g \in Handler : Step(r, g) /\ g.pc = "found"
    BY <1>4, FindTypes DEF Inv
  <2> QED
    BY <1>0, <1>4, <2>1, QuietEnd DEF DeleteFind, NothingWritten, Quiet
<1>5. CASE UNCHANGED vars
  <2>1. /\ ticket' = ticket /\ disturbed' = disturbed /\ restored' = restored
        /\ \A q \in Reqs : req'[q] = req[q]
        /\ \A u : Assignable(u)' <=> Assignable(u)
    BY <1>5 DEF vars, Assignable
  <2>2. \A q \in Reqs : HandlerIsRight(q)'
    BY <2>1, OtherIsRight DEF Inv, Placed
  <2>3. \A t \in Tickets : TicketIsRight(t)'
    BY <2>1 DEF Inv, TicketIsRight, Active, Assignable
  <2> QED
    BY <1>0, <2>2, <2>3 DEF Inv
<1> QED
  BY <1>0, <1>1, <1>2, <1>3, <1>4, <1>5, LinkStep, CountStep, PatchStep, UnlinkCountStep,
     DropStep, InsertStep, PatchCommitStep, DeleteCommitStep, RestoreStep DEF Next, HandlerStep

LEMMA Invariance == Spec => []Inv
BY InitInv, StepInv, PTL DEF Spec

----------------------------------------------------------------------------
(* Every row, counter and handler keeps its type; no count of an assignee   *)
(* runs out of the bound that Infinity stands for.                          *)
THEOREM Typing == Spec => []TypeOK
<1>1. Inv => TypeOK
  BY DEF Inv, Placed
<1> QED
  BY <1>1, Invariance, PTL

(* IC-11: whichever calls overlap, a developer who is to work on a ticket is*)
(* a member, but for a restored ticket and an overtaken unlink.             *)
THEOREM Membership == Spec => []AssigneesAreMembers
<1>1. Inv => AssigneesAreMembers
  BY DEF Inv, TicketIsRight, Assignable, AssigneesAreMembers
<1> QED
  BY <1>1, Invariance, PTL

(* Only an insert ends a choice and writes a ticket.                        *)
LEMMA ChooserInserts ==
    ASSUME Inv, [Next]_vars, NEW r \in Reqs, Choosing(r), ticket' # ticket, req'[r] # req[r]
    PROVE  req[r].pc = "ready"
<1>1. PICK q \in Reqs : HandlerStep(q)
  BY DEF Next, vars
<1>2. q = r
  <2>1. (\E h : Step(q, h)) \/ req' = req
    BY <1>1 DEF HandlerStep, Create, Import, ImportRow, ImportRowFails, ImportAnswer, Begin,
       BeginChoice, LinkLook, LinkInsert, Goes, Count, Insert, PatchLock, DeleteFind, Restore,
       PatchCommit, DeleteCommit, UnlinkCount, UnlinkDrop, GiveUp
  <2>2. (\E h : Step(q, h)) => \A p \in Reqs : p # q => req'[p] = req[p]
    BY DEF Step, Inv, Placed, TypeOK
  <2> QED
    BY <2>1, <2>2
<1>3. CASE PatchCommit(r) \/ \E t \in Tickets : Insert(r, t)
  BY <1>3 DEF PatchCommit, Insert, At
<1>4. CASE DeleteCommit(r)
  BY <1>4 DEF DeleteCommit, At, Choosing
<1>5. ~\E t \in Tickets : Restore(r, t)
  BY DEF Restore
<1>6. CASE ticket' = ticket
  BY <1>6
<1> QED
  BY <1>1, <1>2, <1>3, <1>4, <1>5, <1>6 DEF HandlerStep, Create, Import, ImportRow,
     ImportRowFails, ImportAnswer, LinkLook, LinkInsert, Count, PatchLock, DeleteFind,
     UnlinkCount, UnlinkDrop, GiveUp, NothingWritten

(* BR-07: an auto-assignment that no other write overtakes gives the ticket *)
(* to the member with the fewest open tickets, the oldest on a tie.         *)
THEOREM Choice == Spec => ChoiceIsLeastLoaded
<1>1. Inv /\ [Next]_vars => [ChosenIsLeastLoaded]_vars
  <2> SUFFICES ASSUME Inv, [Next]_vars, NEW r \in Reqs,
                      Choosing(r), ticket' # ticket, req'[r] # req[r], r \notin disturbed,
                      NEW u \in req[r].pool
               PROVE  /\ Load(req[r].u) <= Load(u)
                      /\ Load(req[r].u) = Load(u) => req[r].u <= u
    BY DEF ChosenIsLeastLoaded
  <2>1. req[r].pc = "ready"
    BY ChooserInserts
  <2>2. HandlerIsPlaced(r) /\ HandlerIsRight(r) /\ req[r] \in Handler /\ TypeOK
    BY DEF Inv, Placed, TypeOK
  <2>3. ComparedBy(r) = req[r].pool /\ req[r].pool \subseteq Users
    BY <2>1, <2>2 DEF HandlerIsPlaced, Choosing, ComparedBy, Handler
  <2>4. req[r].u \in Users /\ Beats(req[r].u, u)
    BY <2>2, <2>3 DEF HandlerIsRight, ChoiceIsRight
  <2>5. Load(u) \in Nat /\ Load(req[r].u) \in Nat
    BY <2>2, <2>3, <2>4, LoadIsTheSum
  <2> QED
    BY <2>4, <2>5 DEF Beats
<1> QED
  BY <1>1, Invariance, PTL DEF Spec, ChoiceIsLeastLoaded

----------------------------------------------------------------------------
(* parseEnum leaves the values of its own column as they are, and none of   *)
(* them is mistaken for a blank cell.                                       *)
LEMMA ValuesAreParsed ==
    ASSUME NEW allowed, NEW value \in allowed, NoWord \notin allowed, NEW default
    PROVE  ParseEnum(Plain(value), allowed, default) = value
<1>1. ~Blank(Plain(value))
  BY DEF Blank, Trim, Plain
<1>2. Plain(value) \in [word : allowed, padded : BOOLEAN, lower : BOOLEAN]
  BY DEF Plain
<1>3. UpperCase(Trim(Plain(value))) = Plain(value)
  BY <1>2 DEF UpperCase, Trim, Plain
<1>4. Plain(value).word = value
  BY DEF Plain
<1> QED
  BY <1>1, <1>3, <1>4 DEF ParseEnum

(* csv-parse hands every cell of an exported line over as it was written.   *)
LEMMA ExportedIsParsed ==
    ASSUME NEW x
    PROVE  Parsed(Exported(x)) =
             [title |-> x.title, description |-> x.description,
              status |-> Plain(x.status), priority |-> Plain(x.priority),
              type |-> Plain(x.type),
              assigneeId |-> Plain(IF x.assigneeId = NoUser
                                   THEN NoWord ELSE x.assigneeId)]
  BY DEF Parsed, Exported, Quoted

LEMMA AssigneeIsParsed ==
    ASSUME NEW u \in MaybeUser, NEW known \in SUBSET Users
    PROVE  LET text == Plain(IF u = NoUser THEN NoWord ELSE u)
           IN  /\ AssigneeAccepted(text, known) <=> u \in known \cup {NoUser}
               /\ AssigneeOf(text) = u
<1>1. CASE u = NoUser
  BY <1>1 DEF AssigneeAccepted, AssigneeOf, Blank, Trim, Plain
<1>2. CASE u # NoUser
  BY <1>2, CsvAssumption
     DEF MaybeUser, AssigneeAccepted, AssigneeOf, Blank, Trim, Plain
<1> QED
  BY <1>1, <1>2

(* Import takes the header export writes, refuses of the exported lines     *)
(* exactly those with a blank title or an assignee who is no user any more, *)
(* and makes the exported ticket of the others, its title trimmed.          *)
THEOREM RoundTrip ==
    \A x \in StoredTicket, known \in SUBSET Users : ComesBack(x, known)
<1> SUFFICES ASSUME NEW x \in StoredTicket, NEW known \in SUBSET Users
             PROVE  ComesBack(x, known)
  OBVIOUS
<1> DEFINE row == Parsed(Exported(x))
<1>1. HeaderAccepted(ExportedColumns)
  BY DEF HeaderAccepted, ExportedColumns
<1>2. /\ row.title = x.title
      /\ row.description = x.description
      /\ row.status = Plain(x.status)
      /\ row.priority = Plain(x.priority)
      /\ row.type = Plain(x.type)
      /\ row.assigneeId = Plain(IF x.assigneeId = NoUser
                                THEN NoWord ELSE x.assigneeId)
  BY ExportedIsParsed
<1>3. /\ x.status \in Statuses
      /\ x.priority \in Priorities
      /\ x.type \in Types
      /\ x.assigneeId \in MaybeUser
  BY DEF StoredTicket
<1>4. /\ ParseEnum(row.status, Statuses, Default.status) = x.status
      /\ ParseEnum(row.priority, Priorities, Default.priority) = x.priority
      /\ ParseEnum(row.type, Types, Default.type) = x.type
  BY <1>2, <1>3, ValuesAreParsed, CsvAssumption
<1>5. /\ AssigneeAccepted(row.assigneeId, known) <=>
           x.assigneeId \in known \cup {NoUser}
      /\ AssigneeOf(row.assigneeId) = x.assigneeId
  BY <1>2, <1>3, AssigneeIsParsed
<1>6. /\ x.status # NoWord
      /\ x.priority # NoWord
      /\ x.type # NoWord
  BY <1>3, CsvAssumption
<1>7. Accepted(row, known) <=>
        ~Blank(x.title) /\ x.assigneeId \in known \cup {NoUser}
  BY <1>2, <1>4, <1>5, <1>6 DEF Accepted
<1>8. Imported(row) = [x EXCEPT !.title = Trim(@)]
  BY <1>2, <1>4, <1>5 DEF Imported, StoredTicket
<1> QED
  BY <1>1, <1>7, <1>8 DEF ComesBack

(* BR-16, BR-17: what holds of the columns of any ticket holds of those the *)
(* calls have made.                                                         *)
THEOREM ExportImport == Spec => []ExportIsImported
<1>1. TypeOK => ExportIsImported
  <2> SUFFICES ASSUME TypeOK, NEW t \in Tickets, NEW priority \in Priorities, NEW type \in Types,
                      NEW text \in {x \in Text(Words) : Postable(x)}, NEW known \in SUBSET Users
               PROVE  ComesBack(Columns(t, text, priority, type), known)
    BY DEF ExportIsImported
  <2>1. ticket[t] \in Ticket
    BY DEF TypeOK
  <2>2. Columns(t, text, priority, type) \in StoredTicket
    BY <2>1 DEF Columns, StoredTicket, Ticket
  <2> QED
    BY <2>2, RoundTrip
<1> QED
  BY <1>1, Typing, PTL
=============================================================================
