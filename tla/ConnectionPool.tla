--------------------------- MODULE ConnectionPool ---------------------------
(* The connections that handlers share.  A transaction keeps one connection *)
(* from BEGIN to COMMIT, and while it does, its look-ups and its audit row  *)
(* go through the injected repositories, each on a second connection of the *)
(* same pool.  The pool is the driver's: a fixed number of connections, and *)
(* a queue without a timeout of those who wait for one.                     *)
(*                                                                          *)
(* Writers run one transaction per call on one ticket: PATCH (row lock      *)
(* NOWAIT) or DELETE (waits for the row lock).  The others run one statement*)
(* per call: that of a Waiter needs the row of a ticket, so it waits for the*)
(* transaction that locked it, on the connection it has; that of a Reader   *)
(* waits for nobody.  What the statements do to rows is in the other        *)
(* modules.                                                                 *)
(*                                                                          *)
(* The names of the specification are the pool's own (PoolInit, PoolNext),  *)
(* so that SharedServicesProofs can extend this module beside Sessions.     *)
EXTENDS Naturals, FiniteSets, Sequences

CONSTANTS
    Writers, Waiters, Readers, Tickets,
    Free, NoTicket,
    PoolSize,       \* connections the pool may open
    Inner,          \* the statements of one transaction that take a second
                    \* connection: a set of possible counts, all at least 1
    FailedBegins    \* how many BEGINs may fail: a bound

Callers == Writers \cup Waiters \cup Readers

ASSUME PoolAssumption ==
    /\ Writers \cap (Waiters \cup Readers) = {}
    /\ Waiters \cap Readers = {}
    /\ IsFiniteSet(Callers)
    /\ Free \notin Callers
    /\ NoTicket \notin Tickets
    /\ PoolSize \in Nat \ {0}
    /\ Inner \subseteq Nat \ {0}
    /\ FailedBegins \in Nat

VARIABLES
    pool,       \* connections nobody has
    lost,       \* connections checked out for good
    queue,      \* callers waiting for a connection, first come first served
    lock,       \* lock[t]: the writer whose transaction locked the row
    call        \* call[c]: where caller c is

poolVars == <<pool, lost, queue, lock, call>>

(* connected: has a connection, BEGIN is under way.  begun, locked: in a    *)
(* transaction, on one connection.  asked: waiting for the second one.      *)
(* inner: on two.  statement: a single statement, on one.                   *)
Places == {"idle", "connecting", "connected", "begun", "locked", "asked", "inner",
           "statement"}

(* UPDATE: of the ticket's row (restore, the save of an escalation).        *)
(* INSERT: of a row that refers to the ticket (a dependency, a comment, an  *)
(* attachment), whose foreign key shares the ticket's row.                  *)
Ops == {"PATCH", "DELETE", "UPDATE", "INSERT", "SELECT"}

Call == [pc : Places, op : Ops, t : Tickets \cup {NoTicket}, left : Nat]

NoCall == [pc |-> "idle", op |-> "SELECT", t |-> NoTicket, left |-> 0]

PoolTypeOK ==
    /\ pool \in 0 .. PoolSize
    /\ lost \in 0 .. PoolSize
    /\ queue \in Seq(Callers)
    /\ lock \in [Tickets -> Writers \cup {Free}]
    /\ call \in [Callers -> Call]

PoolInit ==
    /\ pool = PoolSize
    /\ lost = 0
    /\ queue = <<>>
    /\ lock = [t \in Tickets |-> Free]
    /\ call = [c \in Callers |-> NoCall]

----------------------------------------------------------------------------
(* The pool: a request takes a free connection or joins the queue, and a    *)
(* connection given back goes to the first of the queue.                    *)
Granted(c) ==
    [call[c] EXCEPT !.pc = IF @ = "asked" THEN "inner"
                           ELSE IF c \in Writers THEN "connected"
                           ELSE "statement"]

Waiting(c) == \E i \in 1 .. Len(queue) : queue[i] = c

Take(c) ==
    /\ call[c].pc \in {"connecting", "asked"}
    /\ ~Waiting(c)
    /\ IF pool > 0
       THEN /\ pool' = pool - 1
            /\ call' = [call EXCEPT ![c] = Granted(c)]
            /\ UNCHANGED <<lost, queue, lock>>
       ELSE /\ queue' = Append(queue, c)
            /\ UNCHANGED <<pool, lost, lock, call>>

(* c goes to state "after" and gives a connection back.                     *)
ReleaseTwice(c, after) ==
    /\ pool' = pool + 2
    /\ call' = [call EXCEPT ![c] = after]
    /\ UNCHANGED <<lost, queue>>

Leak(c, after) ==
    /\ call' = [call EXCEPT ![c] = after]
    /\ UNCHANGED <<pool, lost, queue>>

GiveToPool(c, after) ==
    /\ pool' = pool + 1
    /\ call' = [call EXCEPT ![c] = after]
    /\ UNCHANGED <<lost, queue>>

GiveBack(c, after) ==
    IF queue = <<>>
    THEN GiveToPool(c, after)
    ELSE /\ call' = [call EXCEPT ![c] = after, ![Head(queue)] = Granted(Head(queue))]
         /\ queue' = Tail(queue)
         /\ UNCHANGED <<pool, lost>>

----------------------------------------------------------------------------
Start(c) ==
    /\ call[c].pc = "idle"
    /\ \/ /\ c \in Readers
          /\ call' = [call EXCEPT ![c].pc = "connecting"]
       \/ /\ c \in Waiters
          /\ \E t \in Tickets, op \in {"UPDATE", "INSERT"} :
               call' = [call EXCEPT ![c] = [pc |-> "connecting", op |-> op,
                                            t |-> t, left |-> 0]]
       \/ /\ c \in Writers
          /\ \E t \in Tickets, op \in {"PATCH", "DELETE"}, n \in Inner :
               call' = [call EXCEPT ![c] = [pc |-> "connecting", op |-> op,
                                            t |-> t, left |-> n]]
    /\ UNCHANGED <<pool, lost, queue, lock>>

(* A single statement ends, well or not, once the row it needs is free.  The*)
(* lock of PATCH is FOR UPDATE and keeps every other one out; that of DELETE*)
(* is the UPDATE's own, which leaves the key of the row to be shared.       *)
LocksOut(holder, op) == op = "INSERT" => call[holder].op = "PATCH"

RowIsTaken(c) ==
    /\ c \in Waiters
    /\ lock[call[c].t] # Free
    /\ LocksOut(lock[call[c].t], call[c].op)

Statement(c) ==
    /\ call[c].pc = "statement"
    /\ ~RowIsTaken(c)
    /\ GiveBack(c, NoCall)
    /\ UNCHANGED lock

(* connect() has returned: BEGIN, outside of the try block, so that if it   *)
(* throws nobody is left to release the connection.                         *)
Begin(c) ==
    /\ call[c].pc = "connected"
    /\ call' = [call EXCEPT ![c].pc = "begun"]
    /\ UNCHANGED <<pool, lost, queue, lock>>

BeginFails(c) ==
    /\ call[c].pc = "connected"
    /\ lost < FailedBegins
    /\ lost' = lost + 1
    /\ call' = [call EXCEPT ![c] = NoCall]
    /\ UNCHANGED <<pool, queue, lock>>

Lock(c) ==
    /\ call[c].pc = "begun"
    /\ lock[call[c].t] = Free
    /\ lock' = [lock EXCEPT ![call[c].t] = c]
    /\ call' = [call EXCEPT ![c].pc = "locked"]
    /\ UNCHANGED <<pool, lost, queue>>

(* NOWAIT: the row is taken, so roll back and answer 409.                   *)
Refuse(c) ==
    /\ call[c].pc = "begun"
    /\ call[c].op = "PATCH"
    /\ lock[call[c].t] # Free
    /\ GiveBack(c, NoCall)
    /\ UNCHANGED lock

(* The next look-up or the audit row: a second connection, one statement.   *)
Ask(c) ==
    /\ call[c].pc = "locked"
    /\ call[c].left > 0
    /\ call' = [call EXCEPT ![c].pc = "asked"]
    /\ UNCHANGED <<pool, lost, queue, lock>>

Answer(c) ==
    /\ call[c].pc = "inner"
    /\ GiveBack(c, [call[c] EXCEPT !.pc = "locked", !.left = @ - 1])
    /\ UNCHANGED lock

KeepLocks(c) == lock

Unlock(c) == [t \in Tickets |-> IF lock[t] = c THEN Free ELSE lock[t]]

Commit(c) ==
    /\ call[c].pc = "locked"
    /\ call[c].left = 0
    /\ lock' = Unlock(c)
    /\ GiveBack(c, NoCall)

(* Inside the try block a statement throws or a check refuses: roll back and*)
(* release.  A second connection goes back when its statement fails, before *)
(* that.                                                                    *)
Throw(c) ==
    /\ call[c].pc \in {"begun", "locked"}
    /\ lock' = Unlock(c)
    /\ GiveBack(c, NoCall)

Progress(c) ==
    \/ Take(c) \/ Statement(c) \/ Begin(c) \/ Lock(c) \/ Refuse(c)
    \/ Ask(c) \/ Answer(c) \/ Commit(c)

PoolNext == \E c \in Callers : Start(c) \/ Progress(c) \/ BeginFails(c) \/ Throw(c)

PoolSpec == PoolInit /\ [][PoolNext]_poolVars

(* Statements return, and PostgreSQL grants a contended row to the one who  *)
(* waits for it before a later NOWAIT gets it.                              *)
FairPoolSpec ==
    /\ PoolSpec
    /\ \A c \in Callers : WF_poolVars(Progress(c))
    /\ \A c \in Writers : SF_poolVars(Lock(c))
    /\ \A c \in Waiters : SF_poolVars(Statement(c))

----------------------------------------------------------------------------
Uses(c) == CASE call[c].pc \in {"connected", "begun", "locked", "asked", "statement"} -> 1
             [] call[c].pc = "inner" -> 2
             [] OTHER -> 0

InUse(n) == Cardinality({c \in Callers : Uses(c) >= n})

(* Apart from the connections of failed BEGINs, which are lost for good, no *)
(* path loses a connection or lets two use one: the free ones, the ones in  *)
(* use and the lost ones are PoolSize.  Nobody waits while one is free.     *)
PoolIsAccountedFor ==
    /\ pool + lost + InUse(1) + InUse(2) = PoolSize
    /\ pool > 0 => queue = <<>>

(* As long as the connections that are left outnumber the callers who may   *)
(* hold one while they wait for something, not everybody is waiting: someone*)
(* who has a connection, or could take one, can go on.                      *)
EnoughConnections ==
    Cardinality(Writers) + Cardinality(Waiters) < PoolSize - lost

Blocked(c) ==
    \/ call[c].pc = "begun" /\ lock[call[c].t] # Free /\ call[c].op # "PATCH"
    \/ call[c].pc = "statement" /\ RowIsTaken(c)

Stuck(c) == call[c].pc = "idle" \/ Waiting(c) \/ Blocked(c)

SomeoneCanGoOn ==
    /\ EnoughConnections
    /\ \E c \in Callers : call[c].pc # "idle"
    => \E c \in Callers : ~Stuck(c)

(* Under the same condition every call is answered.                         *)
EveryCallReturns ==
    []EnoughConnections =>
        \A c \in Callers : call[c].pc # "idle" ~> call[c].pc = "idle"

(* IC-10: a PATCH that overlaps another transaction on its ticket is        *)
(* answered, where it could otherwise block.                                *)
Overlaps(c) ==
    /\ call[c].pc \in {"connecting", "connected", "begun"}
    /\ call[c].op = "PATCH"
    /\ lock[call[c].t] # Free

OverlapIsAnswered == \A c \in Writers : Overlaps(c) ~> ~Overlaps(c)
============================================================================
