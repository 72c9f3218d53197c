------------------------ MODULE SharedServicesProofs ------------------------
(* What every request goes through before and while its handler works on    *)
(* rows: the guard with its deny list (Sessions), for any number of tokens, *)
(* users and requests, any length of a second in ticks and any token        *)
(* lifetime; and the pool of connections (ConnectionPool), for any number   *)
(* of writers, readers and tickets, any size of the pool and any numbers of *)
(* inner statements.  The two share no variable.                            *)
EXTENDS Sessions, ConnectionPool, FiniteSetTheorems, SequenceTheorems, TLAPS

----------------------------------------------------------------------------
(* The guard: a logout is final while the token has not expired.            *)
USE SessionAssumption

(* What the guard and a logout know of the token they are about.            *)
BehindGuard == {"verified", "unrevoked", "admitted", "notFound", "denied"}

RequestIsSound(r) ==
    /\ req[r].pc = "login" => req[r].u \in Users
    /\ req[r].pc \in BehindGuard => req[r].k \in Tokens /\ Issued(req[r].k)
    /\ req[r].pc = "denied" => req[r].k \in revoked \/ Expired(req[r].k)
    /\ req[r].late => req[r].k \in signedOut

Inv ==
    /\ TypeOK
    /\ DenyListCoversUsable
    /\ \A k \in signedOut : Issued(k)
    /\ \A r \in Reqs : RequestIsSound(r)

(* Whole seconds: they do not go back as ticks pass, and what the purge     *)
(* finds past its expiry in ticks, the guard finds expired in seconds.      *)
LEMMA SecondsAreMonotone ==
    ASSUME NEW a \in Nat, NEW b \in Nat, NEW T \in Nat \ {0}, a <= b
    PROVE  a \div T \in Nat /\ b \div T \in Nat /\ a \div T <= b \div T
BY SMT

LEMMA PastExpiryIsExpired ==
    ASSUME NEW c \in Nat, NEW T \in Nat \ {0}, NEW e \in Nat, e * T < c
    PROVE  c \div T >= e
BY SMT

LEMMA PurgeTakesExpired ==
    ASSUME TypeOK, NEW k \in Tokens, NEW now \in 0 .. clock, k \in Purgeable(now)
    PROVE  Expired(k)
<1>1. clock \in Nat /\ now \in Nat /\ exp[k] \in Nat
  BY SecondsAreMonotone DEF TypeOK, Seconds
<1>2. exp[k] * TicksPerSecond < clock
  BY <1>1, SMT DEF Purgeable
<1> QED BY <1>1, <1>2, PastExpiryIsExpired DEF Expired, Now

LEMMA ExpiryIsASecond ==
    ASSUME TypeOK
    PROVE  Now \in Nat /\ Expiry \in Seconds
<1>1. clock \in Nat /\ MaxTime \in Nat /\ clock <= MaxTime
  BY DEF TypeOK
<1>2. Now \in Nat /\ MaxTime \div TicksPerSecond \in Nat
      /\ Now <= MaxTime \div TicksPerSecond
  BY <1>1, SecondsAreMonotone DEF Now
<1> QED BY <1>2, SMT DEF Expiry, Seconds

LEMMA VerifiedIsARequest ==
    ASSUME NEW h \in Request, NEW k \in Tokens, NEW S
    PROVE  [h EXCEPT !.pc = "verified", !.k = k, !.late = k \in S] \in Request
<1>1. ASSUME NEW late \in BOOLEAN
      PROVE  [h EXCEPT !.pc = "verified", !.k = k, !.late = late] \in Request
  BY DEF Request
<1>2. (k \in S) \in BOOLEAN
  OBVIOUS
<1> QED BY <1>1, <1>2, Zenon

LEMMA InitInv == Init => Inv
<1> SUFFICES ASSUME Init PROVE Inv
  OBVIOUS
<1>1. 0 \in Seconds
  <2>1. MaxTime \div TicksPerSecond \in Nat
    BY SecondsAreMonotone
  <2> QED BY <2>1, SMT DEF Seconds
<1>2. Idle \in Request
  BY DEF Idle, Request
<1>3. TypeOK
  BY <1>1, <1>2 DEF Init, TypeOK
<1> QED BY <1>3 DEF Init, Inv, DenyListCoversUsable, RequestIsSound, Idle, BehindGuard

(* A step in which only one request moves, to a sound place, and nothing    *)
(* else changes keeps the invariant.                                        *)
LEMMA OneRequestMoves ==
    ASSUME Inv, NEW r \in Reqs, NEW new \in Request,
           req' = [req EXCEPT ![r] = new],
           UNCHANGED <<clock, known, owner, exp, revoked, signedOut>>,
           RequestIsSound(r)'
    PROVE  Inv'
<1>1. TypeOK'
  BY DEF Inv, TypeOK
<1>2. \A q \in Reqs : RequestIsSound(q)'
  BY DEF Inv, TypeOK, RequestIsSound, Issued, Expired, Now
<1> QED BY <1>1, <1>2 DEF Inv, DenyListCoversUsable, Issued, Expired, Now

LEMMA ReturnKeepsInv ==
    ASSUME Inv, NEW r \in Reqs, Return(r),
           UNCHANGED <<clock, known, owner, exp, revoked, signedOut>>
    PROVE  Inv'
<1>1. Idle \in Request
  BY DEF Idle, Request
<1>2. RequestIsSound(r)'
  BY DEF Return, Inv, TypeOK, RequestIsSound, Idle, BehindGuard
<1> QED BY <1>1, <1>2, OneRequestMoves DEF Return

LEMMA NextInv == Inv /\ [Next]_vars => Inv'
<1> SUFFICES ASSUME Inv, [Next]_vars PROVE Inv'
  OBVIOUS
<1> USE DEF Inv
<1>1. ASSUME Tick PROVE Inv'
  <2>1. clock' \in 0 .. MaxTime /\ clock \in Nat /\ clock' \in Nat /\ clock <= clock'
    BY <1>1, SMT DEF Tick, TypeOK
  <2>2. Now \in Nat /\ Now' \in Nat /\ Now <= Now'
    BY <2>1, SecondsAreMonotone DEF Now
  <2>3. \A k \in Tokens : exp[k] \in Nat
    BY SecondsAreMonotone DEF TypeOK, Seconds
  <2>4. \A k \in Tokens : Expired(k) => Expired(k)'
    BY <1>1, <2>2, <2>3, SMT DEF Tick, Expired
  <2>5. TypeOK'
    BY <1>1, <2>1 DEF Tick, TypeOK
  <2>6. DenyListCoversUsable'
    BY <1>1, <2>4 DEF Tick, DenyListCoversUsable, TypeOK
  <2>7. \A r \in Reqs : RequestIsSound(r)'
    BY <1>1, <2>4 DEF Tick, RequestIsSound, BehindGuard, Issued
  <2> QED BY <1>1, <2>5, <2>6, <2>7 DEF Tick, Issued
<1>2. ASSUME PurgeExpired PROVE Inv'
  <2> PICK now \in 0 .. clock : revoked' = revoked \ Purgeable(now)
    BY <1>2 DEF PurgeExpired
  <2>1. \A k \in Tokens : k \in revoked /\ k \notin revoked' => Expired(k)
    BY PurgeTakesExpired
  <2>2. TypeOK'
    BY <1>2 DEF PurgeExpired, TypeOK
  <2>3. DenyListCoversUsable'
    BY <1>2, <2>1 DEF PurgeExpired, DenyListCoversUsable, TypeOK, Expired, Now
  <2>4. \A r \in Reqs : RequestIsSound(r)'
    BY <1>2, <2>1 DEF PurgeExpired, RequestIsSound, BehindGuard, Issued, Expired, Now
  <2> QED BY <1>2, <2>2, <2>3, <2>4 DEF PurgeExpired, Issued
<1>3. ASSUME Restart PROVE Inv'
  <2>1. Idle \in Request
    BY DEF Idle, Request
  <2>2. TypeOK'
    BY <1>3, <2>1 DEF Restart, TypeOK
  <2> QED BY <1>3, <2>2 DEF Restart, DenyListCoversUsable, RequestIsSound, Idle,
             BehindGuard, Issued, Expired, Now
<1>4. ASSUME NEW u \in Users, RemoveUser(u) PROVE Inv'
  <2>1. TypeOK'
    BY <1>4 DEF RemoveUser, TypeOK
  <2> QED BY <1>4, <2>1 DEF RemoveUser, DenyListCoversUsable, RequestIsSound,
             BehindGuard, Issued, Expired, Now
<1>5. ASSUME NEW r \in Reqs, RequestStep(r) PROVE Inv'
  <2>1. ASSUME NEW u \in Users, LoginFind(r, u) PROVE Inv'
    <3>1. [req[r] EXCEPT !.pc = "login", !.u = u] \in Request
      BY DEF TypeOK, Request
    <3>2. RequestIsSound(r)'
      BY <2>1 DEF LoginFind, RequestIsSound, TypeOK, Request, BehindGuard
    <3> QED BY <2>1, <3>1, <3>2, OneRequestMoves DEF LoginFind
  <2>2. ASSUME NEW k \in Tokens, LoginSign(r, k) PROVE Inv'
    <3>1. Idle \in Request /\ req[r].u \in Users
      BY <2>2 DEF Idle, Request, LoginSign, RequestIsSound
    <3>2. TypeOK'
      BY <2>2, <3>1, ExpiryIsASecond DEF LoginSign, Return, TypeOK
    <3>3. \A i \in Tokens : Issued(i) => i # k /\ Issued(i)'
                                         /\ (Expired(i) => Expired(i)')
      BY <2>2 DEF LoginSign, Issued, Expired, Now, TypeOK
    <3>4. DenyListCoversUsable' /\ \A i \in signedOut' : Issued(i)'
      BY <2>2, <3>3 DEF LoginSign, DenyListCoversUsable, TypeOK
    <3>5. \A q \in Reqs : RequestIsSound(q)'
      <4>1. RequestIsSound(r)'
        BY <2>2 DEF LoginSign, Return, RequestIsSound, Idle, BehindGuard, TypeOK
      <4>2. ASSUME NEW q \in Reqs, q # r PROVE RequestIsSound(q)'
        <5>1. req'[q] = req[q]
          BY <2>2, <4>2 DEF LoginSign, Return, TypeOK
        <5> QED BY <2>2, <5>1, <3>3 DEF LoginSign, RequestIsSound, BehindGuard
      <4> QED BY <4>1, <4>2
    <3> QED BY <3>2, <3>4, <3>5
  <2>3. ASSUME NEW k \in Tokens, Verify(r, k) PROVE Inv'
    <3>1. [req[r] EXCEPT !.pc = "verified", !.k = k, !.late = k \in signedOut] \in Request
      BY VerifiedIsARequest DEF TypeOK
    <3>2. RequestIsSound(r)'
      BY <2>3 DEF Verify, RequestIsSound, TypeOK, Request, BehindGuard, Issued
    <3> QED BY <2>3, <3>1, <3>2, OneRequestMoves DEF Verify
  <2>4. ASSUME LookUpToken(r) PROVE Inv'
    <3>1. [req[r] EXCEPT !.pc = "unrevoked"] \in Request
      BY DEF TypeOK, Request
    <3>2. RequestIsSound(r)'
      BY <2>4 DEF LookUpToken, Move, RequestIsSound, TypeOK, Request, BehindGuard, Issued
    <3> QED BY <2>4, <3>1, <3>2, OneRequestMoves DEF LookUpToken, Move
  <2>5. ASSUME LookUpUser(r) PROVE Inv'
    <3>1. [req[r] EXCEPT !.pc = "admitted"] \in Request
      BY DEF TypeOK, Request
    <3>2. RequestIsSound(r)'
      BY <2>5 DEF LookUpUser, Move, RequestIsSound, TypeOK, Request, BehindGuard, Issued
    <3> QED BY <2>5, <3>1, <3>2, OneRequestMoves DEF LookUpUser, Move
  <2>6. ASSUME LogoutFind(r) PROVE Inv'
    <3> DEFINE next == IF req[r].k \in revoked THEN "denied" ELSE "notFound"
    <3>1. [req[r] EXCEPT !.pc = next] \in Request
      BY DEF TypeOK, Request
    <3>2. RequestIsSound(r)'
      BY <2>6 DEF LogoutFind, Move, RequestIsSound, TypeOK, Request, BehindGuard, Issued
    <3> QED BY <2>6, <3>1, <3>2, OneRequestMoves DEF LogoutFind, Move
  <2>7. ASSUME LogoutSave(r) PROVE Inv'
    <3>1. [req[r] EXCEPT !.pc = "denied"] \in Request /\ req[r].k \in Tokens
      BY <2>7 DEF TypeOK, Request, LogoutSave, RequestIsSound, BehindGuard
    <3>2. TypeOK'
      BY <2>7, <3>1 DEF LogoutSave, Move, TypeOK
    <3>3. \A q \in Reqs : RequestIsSound(q)'
      BY <2>7, <3>1 DEF LogoutSave, Move, RequestIsSound, TypeOK, BehindGuard,
                        Issued, Expired, Now
    <3> QED BY <2>7, <3>2, <3>3 DEF LogoutSave, DenyListCoversUsable, Issued, Expired, Now
  <2>8. ASSUME LogoutAnswer(r) PROVE Inv'
    <3>1. /\ Idle \in Request
          /\ req[r].k \in Tokens /\ Issued(req[r].k)
          /\ req[r].k \in revoked \/ Expired(req[r].k)
      BY <2>8 DEF Idle, Request, LogoutAnswer, RequestIsSound, BehindGuard
    <3>2. TypeOK'
      BY <2>8, <3>1 DEF LogoutAnswer, Return, TypeOK
    <3>3. \A q \in Reqs : RequestIsSound(q)'
      BY <2>8 DEF LogoutAnswer, Return, RequestIsSound, TypeOK, BehindGuard,
                  Idle, Issued, Expired, Now
    <3> QED BY <2>8, <3>1, <3>2, <3>3
            DEF LogoutAnswer, DenyListCoversUsable, Issued, Expired, Now
  <2>9. ASSUME Leave(r) PROVE Inv'
    BY <2>9, ReturnKeepsInv DEF Leave
  <2> QED BY <1>5, <2>1, <2>2, <2>3, <2>4, <2>5, <2>6, <2>7, <2>8, <2>9 DEF RequestStep
<1>6. ASSUME UNCHANGED vars PROVE Inv'
  BY <1>6 DEF vars, TypeOK, DenyListCoversUsable, RequestIsSound, BehindGuard,
              Issued, Expired, Now
<1> QED BY <1>1, <1>2, <1>3, <1>4, <1>5, <1>6 DEF Next

(* The variables keep their types.                                          *)
THEOREM SessionTypes == Spec => []TypeOK
<1>1. Inv => TypeOK
  BY DEF Inv
<1> QED BY <1>1, InitInv, NextInv, PTL DEF Spec

(* FR-AUTH-004: a token whose logout was answered stays on the deny-list    *)
(* until it has expired, however the purge is timed.                        *)
THEOREM LogoutIsFinal == Spec => []DenyListCoversUsable
<1>1. Inv => DenyListCoversUsable
  BY DEF Inv
<1> QED BY <1>1, InitInv, NextInv, PTL DEF Spec

(* No request that came after the answered logout passes the deny-list with *)
(* a token that has not expired.                                            *)
THEOREM GuardRefusesSignedOut == Spec => SignedOutIsRefused
<1> DEFINE Refused == \A r \in Reqs :
             req[r].pc = "verified" /\ req'[r].pc = "unrevoked" /\ req[r].late =>
               Expired(req[r].k)
<1>1. Inv /\ [Next]_vars => [Refused]_vars
  <2> SUFFICES ASSUME Inv, Next, NEW r \in Reqs,
                      req[r].pc = "verified", req'[r].pc = "unrevoked", req[r].late
               PROVE  Expired(req[r].k)
    BY DEF Refused
  <2>1. req[r].k \in signedOut /\ (req[r].k \in revoked \/ Expired(req[r].k))
    BY DEF Inv, RequestIsSound, DenyListCoversUsable
  <2>2. ~(Tick \/ PurgeExpired \/ Restart \/ \E u \in Users : RemoveUser(u))
    BY DEF Inv, TypeOK, Tick, PurgeExpired, Restart, RemoveUser, Idle
  <2>3. PICK q \in Reqs : RequestStep(q)
    BY <2>2 DEF Next
  <2>4. \A x : req' = [req EXCEPT ![q] = x] => q = r /\ x.pc = "unrevoked"
    BY DEF Inv, TypeOK
  <2>5. ~(Leave(q) \/ LogoutAnswer(q) \/ \E k \in Tokens : LoginSign(q, k))
    BY <2>4 DEF Leave, LogoutAnswer, LoginSign, Return, Idle
  <2>6. ~(\/ \E u \in Users : LoginFind(q, u)
          \/ \E k \in Tokens : Verify(q, k))
    BY <2>4 DEF LoginFind, Verify, Inv, TypeOK, Request
  <2>7. ~(LookUpUser(q) \/ LogoutFind(q) \/ LogoutSave(q))
    BY <2>4 DEF LookUpUser, LogoutFind, LogoutSave, Move, Inv, TypeOK, Request
  <2>8. LookUpToken(q) /\ q = r
    BY <2>3, <2>4, <2>5, <2>6, <2>7 DEF RequestStep, LookUpToken, Move
  <2> QED BY <2>1, <2>8 DEF LookUpToken, IsRevoked
<1> QED BY <1>1, InitInv, NextInv, PTL DEF Spec, SignedOutIsRefused

----------------------------------------------------------------------------
(* The pool: which connections are lost, and when the second one is no trap.*)
USE PoolAssumption

InTransaction == {"locked", "asked", "inner"}

(* Who can be at which place of a call, and which row locks there can be.   *)
Fits(c, h) ==
    /\ h.pc \in {"connected", "begun", "locked", "asked", "inner"} => c \in Writers
    /\ h.pc = "statement" => c \in Waiters \cup Readers
    /\ c \in Writers \cup Waiters /\ h.pc # "idle" => h.t \in Tickets
    /\ h.pc \in {"asked", "inner"} => h.left > 0

LocksAreHeld ==
    \A t \in Tickets, c \in Writers :
        lock[t] = c => call[c].pc \in InTransaction /\ call[c].t = t

(* The queue holds callers who asked for a connection, each once.           *)
QueueIsRight ==
    /\ \A i \in 1 .. Len(queue) : call[queue[i]].pc \in {"connecting", "asked"}
    /\ \A i, j \in 1 .. Len(queue) : queue[i] = queue[j] => i = j

Placed ==
    /\ pool \in Nat
    /\ lost \in Nat
    /\ queue \in Seq(Callers)
    /\ lock \in [Tickets -> Writers \cup {Free}]
    /\ call \in [Callers -> Call]
    /\ \A c \in Callers : Fits(c, call[c])
    /\ LocksAreHeld
    /\ QueueIsRight

PoolInv == Placed /\ PoolIsAccountedFor

----------------------------------------------------------------------------
(* Counting connections, for any assignment of places to callers.           *)
UsesAt(h) == CASE h.pc \in {"connected", "begun", "locked", "asked", "statement"} -> 1
               [] h.pc = "inner" -> 2
               [] OTHER -> 0

UsersOf(f, n) == {c \in Callers : UsesAt(f[c]) >= n}

Total(f) == Cardinality(UsersOf(f, 1)) + Cardinality(UsersOf(f, 2))

SameBut(f, g, moved) == \A d \in Callers \ moved : g[d] = f[d]

LEMMA UsesAtMostTwo ==
    ASSUME NEW h
    PROVE  UsesAt(h) \in 0 .. 2
BY DEF UsesAt

LEMMA UsersAreFinite ==
    ASSUME NEW f, NEW n
    PROVE  IsFiniteSet(UsersOf(f, n)) /\ Cardinality(UsersOf(f, n)) \in Nat
<1>1. UsersOf(f, n) \in SUBSET Callers
  BY DEF UsersOf
<1>2. IsFiniteSet(UsersOf(f, n))
  BY <1>1, FS_Subset
<1> QED BY <1>2, FS_CardinalityType

LEMMA OneLevel ==
    ASSUME NEW f, NEW g, NEW c \in Callers, SameBut(f, g, {c}), NEW n \in 1 .. 2
    PROVE  Cardinality(UsersOf(g, n)) =
             Cardinality(UsersOf(f, n)) - (IF UsesAt(f[c]) >= n THEN 1 ELSE 0)
                                        + (IF UsesAt(g[c]) >= n THEN 1 ELSE 0)
<1> DEFINE S == UsersOf(f, n)
<1>1. IsFiniteSet(S) /\ Cardinality(S) \in Nat
  BY UsersAreFinite
<1>2. /\ IsFiniteSet(S \ {c})
      /\ Cardinality(S \ {c}) = IF c \in S THEN Cardinality(S) - 1 ELSE Cardinality(S)
  BY <1>1, FS_RemoveElement
<1>3. c \in S <=> UsesAt(f[c]) >= n
  BY DEF UsersOf
<1>4. Cardinality(UsersOf(g, n)) =
        IF UsesAt(g[c]) >= n THEN Cardinality(S \ {c}) + 1 ELSE Cardinality(S \ {c})
  <2>1. CASE UsesAt(g[c]) >= n
    <3>1. UsersOf(g, n) = (S \ {c}) \cup {c}
      BY <2>1 DEF UsersOf, SameBut
    <3> QED BY <2>1, <3>1, <1>2, FS_AddElement
  <2>2. CASE ~(UsesAt(g[c]) >= n)
    <3>1. UsersOf(g, n) = S \ {c}
      BY <2>2 DEF UsersOf, SameBut
    <3> QED BY <2>2, <3>1
  <2> QED BY <2>1, <2>2
<1> QED BY <1>1, <1>2, <1>3, <1>4

LEMMA TotalChanges ==
    ASSUME NEW f, NEW g, NEW c \in Callers, SameBut(f, g, {c})
    PROVE  Total(f) \in Nat /\ Total(g) = Total(f) - UsesAt(f[c]) + UsesAt(g[c])
<1> DEFINE Bit(x, n) == IF UsesAt(x) >= n THEN 1 ELSE 0
<1>1. \A n \in 1 .. 2 : Cardinality(UsersOf(g, n)) =
                          Cardinality(UsersOf(f, n)) - Bit(f[c], n) + Bit(g[c], n)
  BY OneLevel
<1>2. \A n \in 1 .. 2 : Cardinality(UsersOf(f, n)) \in Nat
  BY UsersAreFinite
<1>3. \A x : /\ UsesAt(x) = Bit(x, 1) + Bit(x, 2)
             /\ Bit(x, 1) \in 0 .. 1 /\ Bit(x, 2) \in 0 .. 1
  BY UsesAtMostTwo
<1> HIDE DEF Bit
<1> QED BY <1>1, <1>2, <1>3 DEF Total

Accounted == pool + lost + Total(call) = PoolSize /\ (pool > 0 => queue = <<>>)

LEMMA AccountedByTotal == pool \in Nat /\ lost \in Nat => (PoolIsAccountedFor <=> Accounted)
<1> SUFFICES ASSUME pool \in Nat, lost \in Nat PROVE PoolIsAccountedFor <=> Accounted
  OBVIOUS
<1>1. \A c : Uses(c) = UsesAt(call[c])
  BY DEF Uses, UsesAt
<1>2. InUse(1) = Cardinality(UsersOf(call, 1)) /\ InUse(2) = Cardinality(UsersOf(call, 2))
  BY <1>1 DEF InUse, UsersOf
<1>3. InUse(1) \in Nat /\ InUse(2) \in Nat
  BY <1>2, UsersAreFinite
<1> QED BY <1>2, <1>3 DEF PoolIsAccountedFor, Accounted, Total

LEMMA AccountedLater == (pool \in Nat /\ lost \in Nat)' => (PoolIsAccountedFor' <=> Accounted')
BY AccountedByTotal, PTL

LEMMA InitPoolInv == PoolInit => PoolInv
<1> SUFFICES ASSUME PoolInit PROVE PoolInv
  OBVIOUS
<1>1. NoCall \in Call /\ NoCall.pc = "idle" /\ UsesAt(NoCall) = 0
  BY DEF NoCall, Call, Places, Ops, UsesAt
<1>2. \A c \in Callers : call[c] = NoCall
  BY DEF PoolInit
<1>3. Placed
  <2>1. queue \in Seq(Callers) /\ Len(queue) = 0
    BY DEF PoolInit
  <2>2. QueueIsRight
    BY <2>1 DEF QueueIsRight
  <2>3. LocksAreHeld /\ lock \in [Tickets -> Writers \cup {Free}]
    BY DEF PoolInit, LocksAreHeld, Callers
  <2>4. call \in [Callers -> Call] /\ \A c \in Callers : Fits(c, call[c])
    BY <1>1, <1>2 DEF PoolInit, Fits
  <2> QED BY <2>1, <2>2, <2>3, <2>4 DEF PoolInit, Placed
<1>4. UsersOf(call, 1) = {} /\ UsersOf(call, 2) = {}
  BY <1>1, <1>2 DEF UsersOf
<1>5. Total(call) = 0
  BY <1>4, FS_EmptySet DEF Total
<1> QED BY <1>3, <1>5, AccountedByTotal DEF PoolInit, PoolInv, Placed, Accounted

(* What the queue is after one more waits, and after the first is served.   *)
LEMMA QueueGrows ==
    ASSUME Placed, NEW c \in Callers, ~Waiting(c), call[c].pc \in {"connecting", "asked"}
    PROVE  LET q == Append(queue, c)
           IN  /\ q \in Seq(Callers)
               /\ \A i \in 1 .. Len(q) : call[q[i]].pc \in {"connecting", "asked"}
               /\ \A i, j \in 1 .. Len(q) : q[i] = q[j] => i = j
<1> DEFINE q == Append(queue, c)
<1>1. /\ q \in Seq(Callers) /\ Len(q) = Len(queue) + 1 /\ Len(queue) \in Nat
      /\ \A i \in 1 .. Len(queue) : q[i] = queue[i]
      /\ q[Len(queue) + 1] = c
  BY AppendProperties DEF Placed
<1> HIDE DEF q
<1>2. \A i \in 1 .. Len(q) : i \in 1 .. Len(queue) \/ i = Len(queue) + 1
  BY <1>1
<1>3. \A i \in 1 .. Len(q) : call[q[i]].pc \in {"connecting", "asked"}
  BY <1>1, <1>2 DEF Placed, QueueIsRight
<1>4. \A i, j \in 1 .. Len(q) : q[i] = q[j] => i = j
  BY <1>1, <1>2 DEF Placed, QueueIsRight, Waiting
<1> QED BY <1>1, <1>3, <1>4 DEF q

LEMMA QueueShrinks ==
    ASSUME Placed, queue # <<>>
    PROVE  LET q == Tail(queue)
           IN  /\ Head(queue) \in Callers
               /\ call[Head(queue)].pc \in {"connecting", "asked"}
               /\ q \in Seq(Callers)
               /\ \A i \in 1 .. Len(q) : /\ q[i] # Head(queue)
                                         /\ q[i] \in Callers
                                         /\ call[q[i]].pc \in {"connecting", "asked"}
               /\ \A i, j \in 1 .. Len(q) : q[i] = q[j] => i = j
<1> DEFINE q == Tail(queue)
<1>1. /\ q \in Seq(Callers) /\ Len(q) = Len(queue) - 1 /\ Len(queue) \in Nat \ {0}
      /\ \A i \in 1 .. Len(q) : q[i] = queue[i + 1]
      /\ Head(queue) = queue[1] /\ Head(queue) \in Callers
  BY HeadTailProperties, EmptySeq DEF Placed
<1> HIDE DEF q
<1>2. \A i \in 1 .. Len(q) : i + 1 \in 1 .. Len(queue) /\ i + 1 # 1
  BY <1>1
<1>3. 1 \in 1 .. Len(queue)
  BY <1>1
<1>4. \A i \in 1 .. Len(q) : /\ q[i] # Head(queue)
                             /\ call[q[i]].pc \in {"connecting", "asked"}
  BY <1>1, <1>2, <1>3 DEF Placed, QueueIsRight
<1>5. \A i \in 1 .. Len(q) : q[i] \in Callers
  BY <1>1, ElementOfSeq
<1>6. \A i, j \in 1 .. Len(q) : q[i] = q[j] => i = j
  <2> SUFFICES ASSUME NEW i \in 1 .. Len(q), NEW j \in 1 .. Len(q), q[i] = q[j]
               PROVE  i = j
    OBVIOUS
  <2>1. i + 1 = j + 1
    BY <1>1, <1>2 DEF Placed, QueueIsRight
  <2> QED BY <1>1, <2>1
<1> QED BY <1>1, <1>3, <1>4, <1>5, <1>6 DEF Placed, QueueIsRight, q

(* A caller who is granted a connection uses one more.                      *)
LEMMA GrantedUsesOneMore ==
    ASSUME Placed, NEW c \in Callers, call[c].pc \in {"connecting", "asked"}
    PROVE  /\ Granted(c) \in Call /\ Fits(c, Granted(c))
           /\ UsesAt(Granted(c)) = UsesAt(call[c]) + 1
           /\ Granted(c).t = call[c].t
           /\ Granted(c).pc \notin {"connecting", "asked"}
           /\ call[c].pc \in InTransaction => Granted(c).pc \in InTransaction
<1>1. call[c] \in Call /\ Fits(c, call[c])
  BY DEF Placed
<1>2. CASE call[c].pc = "asked"
  <2>1. Granted(c) = [call[c] EXCEPT !.pc = "inner"]
    BY <1>2 DEF Granted
  <2> QED BY <1>1, <1>2, <2>1 DEF Call, Places, Fits, UsesAt, InTransaction
<1>3. CASE call[c].pc = "connecting" /\ c \in Writers
  <2>1. Granted(c) = [call[c] EXCEPT !.pc = "connected"]
    BY <1>3 DEF Granted
  <2> QED BY <1>1, <1>3, <2>1 DEF Call, Places, Fits, UsesAt, InTransaction
<1>4. CASE call[c].pc = "connecting" /\ c \notin Writers
  <2>1. Granted(c) = [call[c] EXCEPT !.pc = "statement"]
    BY <1>4 DEF Granted
  <2>2. c \in Waiters \cup Readers
    BY <1>4 DEF Callers
  <2> QED BY <1>1, <1>4, <2>1, <2>2 DEF Call, Places, Fits, UsesAt, InTransaction
<1> QED BY <1>2, <1>3, <1>4

----------------------------------------------------------------------------
(* c goes to place h, where it uses as much, and nobody else moves.         *)
LEMMA CallerMoves ==
    ASSUME PoolInv, NEW c \in Callers, NEW h \in Call, Fits(c, h),
           call[c].pc \in {"idle", "connected", "begun", "locked"},
           UsesAt(h) = UsesAt(call[c]),
           call' = [call EXCEPT ![c] = h],
           UNCHANGED <<pool, lost, queue>>,
           lock' \in [Tickets -> Writers \cup {Free}],
           LocksAreHeld'
    PROVE  PoolInv'
<1>1. /\ call' \in [Callers -> Call]
      /\ \A d \in Callers : call'[d] = IF d = c THEN h ELSE call[d]
  BY DEF PoolInv, Placed
<1>2. \A i \in 1 .. Len(queue) : queue[i] \in Callers /\ queue[i] # c
  BY ElementOfSeq DEF PoolInv, Placed, QueueIsRight
<1>3. Placed'
  <2>1. QueueIsRight'
    BY <1>1, <1>2 DEF PoolInv, Placed, QueueIsRight
  <2>2. \A d \in Callers : Fits(d, call'[d])
    BY <1>1 DEF PoolInv, Placed
  <2> QED BY <1>1, <2>1, <2>2 DEF PoolInv, Placed
<1>4. Total(call') = Total(call)
  <2>1. call'[c] = h /\ \A d \in Callers \ {c} : call'[d] = call[d]
    BY <1>1
  <2>2. PICK f, g : f = call /\ g = call'
    OBVIOUS
  <2>3. \A d \in Callers : UsesAt(g[d]) = UsesAt(f[d])
    BY <2>1, <2>2
  <2>4. UsersOf(g, 1) = UsersOf(f, 1) /\ UsersOf(g, 2) = UsersOf(f, 2)
    BY <2>3 DEF UsersOf
  <2> QED BY <2>2, <2>4 DEF Total
<1>5. Accounted
  BY AccountedByTotal DEF PoolInv, Placed
<1>6. Accounted'
  BY <1>4, <1>5 DEF Accounted
<1>7. PoolIsAccountedFor'
  BY <1>3, <1>6, AccountedLater DEF Placed
<1> QED BY <1>3, <1>7 DEF PoolInv

(* Two callers move: what one uses less the other uses more.                *)
LEMMA TwoMove ==
    ASSUME NEW f, NEW g, NEW c \in Callers, NEW d \in Callers \ {c},
           SameBut(f, g, {c, d})
    PROVE  Total(g) = Total(f) - UsesAt(f[c]) + UsesAt(g[c])
                               - UsesAt(f[d]) + UsesAt(g[d])
<1> DEFINE m == [e \in Callers |-> IF e = c THEN g[e] ELSE f[e]]
<1>1. /\ m[c] = g[c] /\ m[d] = f[d]
      /\ SameBut(f, m, {c}) /\ SameBut(m, g, {d})
  BY DEF SameBut
<1> HIDE DEF m
<1>2. Total(f) \in Nat /\ Total(m) = Total(f) - UsesAt(f[c]) + UsesAt(m[c])
  BY <1>1, TotalChanges
<1>3. Total(m) \in Nat /\ Total(g) = Total(m) - UsesAt(m[d]) + UsesAt(g[d])
  BY <1>1, TotalChanges
<1> QED BY <1>1, <1>2, <1>3, UsesAtMostTwo

LEMMA TakeInv ==
    ASSUME PoolInv, NEW c \in Callers, Take(c)
    PROVE  PoolInv'
<1>1. /\ Granted(c) \in Call /\ Fits(c, Granted(c))
      /\ UsesAt(Granted(c)) = UsesAt(call[c]) + 1
      /\ Granted(c).t = call[c].t
      /\ call[c].pc \in InTransaction => Granted(c).pc \in InTransaction
  BY GrantedUsesOneMore DEF Take, PoolInv
<1>2. Accounted
  BY AccountedByTotal DEF PoolInv, Placed
<1>3. CASE pool > 0
  <2> DEFINE h == Granted(c)
  <2>1. pool' = pool - 1 /\ call' = [call EXCEPT ![c] = h] /\ UNCHANGED <<lost, queue, lock>>
    BY <1>3 DEF Take
  <2> HIDE DEF h
  <2>2. h \in Call /\ Fits(c, h) /\ UsesAt(h) = UsesAt(call[c]) + 1 /\ h.t = call[c].t
        /\ (call[c].pc \in InTransaction => h.pc \in InTransaction)
    BY <1>1 DEF h
  <2>3. /\ call' \in [Callers -> Call]
        /\ \A d \in Callers : call'[d] = IF d = c THEN h ELSE call[d]
    BY <2>1, <2>2 DEF PoolInv, Placed
  <2>4. queue = <<>> /\ Len(queue) = 0
    BY <1>2, <1>3, EmptySeq DEF Accounted
  <2>5. QueueIsRight'
    BY <2>1, <2>4 DEF QueueIsRight
  <2>6. LocksAreHeld'
    BY <2>1, <2>2, <2>3 DEF PoolInv, Placed, LocksAreHeld, Callers
  <2>7. pool' \in Nat /\ lost' \in Nat
    BY <1>3, <2>1 DEF PoolInv, Placed
  <2>8. Placed'
    <3>1. \A e \in Callers : Fits(e, call'[e])
      BY <2>2, <2>3 DEF PoolInv, Placed
    <3>2. queue' \in Seq(Callers) /\ lock' \in [Tickets -> Writers \cup {Free}]
      BY <2>1 DEF PoolInv, Placed
    <3> QED BY <2>3, <2>5, <2>6, <2>7, <3>1, <3>2 DEF Placed
  <2>9. Accounted'
    <3>1. PICK f, g : f = call /\ g = call'
      OBVIOUS
    <3>2. SameBut(f, g, {c}) /\ c \in Callers /\ g[c] = h
      BY <2>3, <3>1 DEF SameBut
    <3>3. Total(f) \in Nat /\ Total(g) = Total(f) - UsesAt(f[c]) + UsesAt(g[c])
      BY ONLY <3>2, TotalChanges
    <3>4. Total(g) = Total(f) + 1
      BY <2>2, <3>1, <3>2, <3>3, UsesAtMostTwo
    <3>5. pool + lost + Total(f) = PoolSize /\ pool \in Nat /\ lost \in Nat
      BY <1>2, <3>1 DEF Accounted, PoolInv, Placed
    <3>6. pool' + lost' + Total(g) = PoolSize
      BY <2>1, <3>3, <3>4, <3>5
    <3> QED BY <2>1, <2>4, <3>1, <3>6 DEF Accounted
  <2> QED BY <2>7, <2>8, <2>9, AccountedLater DEF PoolInv
<1>4. CASE ~(pool > 0)
  <2>1. queue' = Append(queue, c) /\ UNCHANGED <<pool, lost, lock, call>>
    BY <1>4 DEF Take
  <2>2. queue' \in Seq(Callers) /\ QueueIsRight'
    BY <2>1, QueueGrows DEF Take, PoolInv, QueueIsRight
  <2>3. Placed'
    BY <2>1, <2>2 DEF PoolInv, Placed, LocksAreHeld
  <2>4. Accounted'
    BY <1>2, <1>4, <2>1 DEF Accounted
  <2> QED BY <2>3, <2>4, AccountedLater DEF PoolInv, Placed
<1> QED BY <1>3, <1>4

(* c goes on to place after, where it uses one connection less, which goes  *)
(* to the pool or to the first of the queue.                                *)
LEMMA GiveBackInv ==
    ASSUME PoolInv, NEW c \in Callers, NEW after \in Call, Fits(c, after),
           call[c].pc \notin {"connecting", "asked"},
           UsesAt(call[c]) = UsesAt(after) + 1,
           GiveBack(c, after),
           lock' \in [Tickets -> Writers \cup {Free}],
           \A t \in Tickets, w \in Writers : lock'[t] = w =>
               /\ lock[t] = w
               /\ w = c => after.pc \in InTransaction /\ after.t = t
    PROVE  PoolInv'
<1>1. Accounted
  BY AccountedByTotal DEF PoolInv, Placed
<1>2. PICK f, g : f = call /\ g = call'
  OBVIOUS
<1>3. CASE queue = <<>>
  <2>1. pool' = pool + 1 /\ call' = [call EXCEPT ![c] = after] /\ queue' = queue
        /\ lost' = lost
    BY <1>3 DEF GiveBack, GiveToPool
  <2>2. /\ call' \in [Callers -> Call]
        /\ \A d \in Callers : call'[d] = IF d = c THEN after ELSE call[d]
    BY <2>1 DEF PoolInv, Placed
  <2>3. LocksAreHeld'
    BY <2>2 DEF PoolInv, Placed, LocksAreHeld, Callers
  <2>4. QueueIsRight'
    BY <1>3, <2>1, EmptySeq DEF QueueIsRight
  <2>5. Placed'
    BY <2>1, <2>2, <2>3, <2>4 DEF PoolInv, Placed
  <2>6. SameBut(f, g, {c}) /\ c \in Callers /\ g[c] = after
    BY <1>2, <2>2 DEF SameBut
  <2>7. Total(f) \in Nat /\ Total(g) = Total(f) - UsesAt(f[c]) + UsesAt(g[c])
    BY ONLY <2>6, TotalChanges
  <2>8. Total(g) = Total(f) - 1
    BY <1>2, <2>6, <2>7, UsesAtMostTwo
  <2>9. pool + lost + Total(f) = PoolSize /\ pool \in Nat /\ lost \in Nat
    BY <1>1, <1>2 DEF Accounted, PoolInv, Placed
  <2>10. pool' + lost' + Total(g) = PoolSize
    BY <2>1, <2>7, <2>8, <2>9
  <2>11. Accounted'
    BY <1>2, <1>3, <2>1, <2>10 DEF Accounted
  <2> QED BY <2>5, <2>11, AccountedLater DEF PoolInv, Placed
<1>4. CASE queue # <<>>
  <2> DEFINE d == Head(queue)
             h == Granted(d)
  <2>1. /\ d \in Callers /\ call[d].pc \in {"connecting", "asked"}
        /\ Tail(queue) \in Seq(Callers)
        /\ \A i \in 1 .. Len(Tail(queue)) :
             /\ Tail(queue)[i] # d /\ Tail(queue)[i] \in Callers
             /\ call[Tail(queue)[i]].pc \in {"connecting", "asked"}
        /\ \A i, j \in 1 .. Len(Tail(queue)) : Tail(queue)[i] = Tail(queue)[j] => i = j
    BY <1>4, QueueShrinks DEF PoolInv
  <2>2. /\ h \in Call /\ Fits(d, h) /\ UsesAt(h) = UsesAt(call[d]) + 1 /\ h.t = call[d].t
        /\ call[d].pc \in InTransaction => h.pc \in InTransaction
    BY <2>1, GrantedUsesOneMore DEF PoolInv
  <2>3. call' = [call EXCEPT ![c] = after, ![d] = h] /\ queue' = Tail(queue) /\ pool' = pool
        /\ lost' = lost
    BY <1>4 DEF GiveBack
  <2> HIDE DEF d, h
  <2>4. d # c
    BY <2>1
  <2>5. /\ call' \in [Callers -> Call]
        /\ \A e \in Callers :
             call'[e] = IF e = d THEN h ELSE IF e = c THEN after ELSE call[e]
    BY <2>1, <2>2, <2>3, <2>4 DEF PoolInv, Placed
  <2>6. LocksAreHeld'
    BY <2>2, <2>5 DEF PoolInv, Placed, LocksAreHeld, Callers
  <2>7. QueueIsRight'
    <3>1. \A i \in 1 .. Len(queue') : call'[queue'[i]].pc \in {"connecting", "asked"}
      BY <2>1, <2>3, <2>5
    <3> QED BY <2>1, <2>3, <3>1 DEF QueueIsRight
  <2>8. Placed'
    <3>1. \A e \in Callers : Fits(e, call'[e])
      BY <2>2, <2>5 DEF PoolInv, Placed
    <3>2. queue' \in Seq(Callers) /\ pool' \in Nat /\ lost' \in Nat
      BY <2>1, <2>3 DEF PoolInv, Placed
    <3> QED BY <2>5, <2>6, <2>7, <3>1, <3>2 DEF Placed
  <2>9. /\ SameBut(f, g, {c, d}) /\ c \in Callers /\ d \in Callers \ {c}
        /\ g[c] = after /\ g[d] = h
    BY <1>2, <2>1, <2>4, <2>5 DEF SameBut
  <2>10. Total(g) = Total(f) - UsesAt(f[c]) + UsesAt(g[c])
                             - UsesAt(f[d]) + UsesAt(g[d])
    BY ONLY <2>9, TwoMove
  <2>11. Total(f) \in Nat
    BY UsersAreFinite DEF Total
  <2>12. Total(g) = Total(f)
    BY <1>2, <2>2, <2>9, <2>10, <2>11, UsesAtMostTwo
  <2>13. pool = 0
    BY <1>1, <1>4 DEF Accounted, PoolInv, Placed
  <2>14. Accounted'
    BY <1>1, <1>2, <2>3, <2>12, <2>13 DEF Accounted
  <2> QED BY <2>8, <2>14, AccountedLater DEF PoolInv, Placed
<1> QED BY <1>3, <1>4

----------------------------------------------------------------------------
(* The actions.                                                             *)
LEMMA IdleFits ==
    \A c \in Callers : NoCall \in Call /\ Fits(c, NoCall) /\ UsesAt(NoCall) = 0
BY DEF NoCall, Call, Places, Ops, Fits, UsesAt

LEMMA StartInv ==
    ASSUME PoolInv, NEW c \in Callers, Start(c)
    PROVE  PoolInv'
<1>1. PICK h \in Call : /\ call' = [call EXCEPT ![c] = h] /\ h.pc = "connecting"
                        /\ c \in Writers \cup Waiters => h.t \in Tickets
  <2>1. CASE c \in Readers
    <3> DEFINE h == [call[c] EXCEPT !.pc = "connecting"]
    <3>1. c \notin Writers \cup Waiters
      BY <2>1
    <3>2. call' = [call EXCEPT ![c] = h]
      BY <2>1, <3>1 DEF Start
    <3>3. h \in Call /\ h.pc = "connecting"
      BY DEF PoolInv, Placed, Call, Places
    <3> QED BY <3>1, <3>2, <3>3
  <2>2. CASE c \notin Readers
    <3>1. PICK t \in Tickets, op \in Ops, n \in Nat :
            call' = [call EXCEPT ![c] = [pc |-> "connecting", op |-> op,
                                         t |-> t, left |-> n]]
      BY <2>2 DEF Start, Ops
    <3>2. [pc |-> "connecting", op |-> op, t |-> t, left |-> n] \in Call
      BY DEF Call, Places
    <3> QED BY <3>1, <3>2
  <2> QED BY <2>1, <2>2
<1>2. Fits(c, h) /\ UsesAt(h) = 0
  BY <1>1 DEF Fits, UsesAt
<1>3. call[c].pc = "idle" /\ UsesAt(call[c]) = 0 /\ UNCHANGED <<pool, lost, queue, lock>>
  BY DEF Start, UsesAt
<1>4. \A t \in Tickets : lock[t] # c
  BY <1>3 DEF PoolInv, Placed, LocksAreHeld, InTransaction, Callers
<1>5. lock' \in [Tickets -> Writers \cup {Free}]
  BY <1>3 DEF PoolInv, Placed
<1>6. LocksAreHeld'
  BY <1>1, <1>3, <1>4 DEF PoolInv, Placed, LocksAreHeld
<1> QED BY <1>1, <1>2, <1>3, <1>5, <1>6, CallerMoves

LEMMA BeginInv ==
    ASSUME PoolInv, NEW c \in Callers, Begin(c)
    PROVE  PoolInv'
<1> PICK h : h = [call[c] EXCEPT !.pc = "begun"]
  OBVIOUS
<1>1. call[c].pc = "connected" /\ call[c] \in Call /\ Fits(c, call[c])
  BY DEF Begin, PoolInv, Placed
<1>2. h \in Call /\ h.pc = "begun" /\ h.t = call[c].t
  BY <1>1 DEF Call, Places
<1>3. call' = [call EXCEPT ![c] = h] /\ UNCHANGED <<pool, lost, queue, lock>>
  BY DEF Begin
<1>4. Fits(c, h) /\ UsesAt(h) = UsesAt(call[c])
  BY <1>1, <1>2 DEF Fits, UsesAt
<1>5. \A t \in Tickets : lock[t] # c
  BY <1>1 DEF PoolInv, Placed, LocksAreHeld, InTransaction, Fits
<1>6. LocksAreHeld'
  <2>1. \A w \in Writers : w # c => call'[w] = call[w]
    BY <1>3 DEF PoolInv, Placed, Callers
  <2> QED BY <1>3, <1>5, <2>1 DEF PoolInv, Placed, LocksAreHeld
<1>7. lock' \in [Tickets -> Writers \cup {Free}]
  BY <1>3 DEF PoolInv, Placed
<1>8. /\ call[c].pc \in {"idle", "connected", "begun", "locked"}
      /\ h \in Call /\ Fits(c, h) /\ UsesAt(h) = UsesAt(call[c])
      /\ call' = [call EXCEPT ![c] = h] /\ UNCHANGED <<pool, lost, queue>>
  BY <1>1, <1>2, <1>3, <1>4
<1> QED BY <1>6, <1>7, <1>8, CallerMoves

(* What the caller of a failed BEGIN had is lost.                           *)
LEMMA BeginFailsInv ==
    ASSUME PoolInv, NEW c \in Callers, BeginFails(c)
    PROVE  PoolInv'
<1>1. /\ call[c].pc = "connected" /\ Fits(c, call[c]) /\ UsesAt(call[c]) = 1
      /\ call' = [call EXCEPT ![c] = NoCall] /\ lost' = lost + 1
      /\ UNCHANGED <<pool, queue, lock>>
  BY DEF BeginFails, PoolInv, Placed, UsesAt
<1>2. NoCall \in Call /\ Fits(c, NoCall) /\ UsesAt(NoCall) = 0
  BY IdleFits
<1>3. /\ call' \in [Callers -> Call]
      /\ \A d \in Callers : call'[d] = IF d = c THEN NoCall ELSE call[d]
  BY <1>1, <1>2 DEF PoolInv, Placed
<1>4. \A t \in Tickets : lock[t] # c
  BY <1>1 DEF PoolInv, Placed, LocksAreHeld, InTransaction, Fits
<1>5. LocksAreHeld'
  BY <1>1, <1>3, <1>4 DEF PoolInv, Placed, LocksAreHeld, Callers
<1>6. QueueIsRight'
  <2>1. \A i \in 1 .. Len(queue) : queue[i] \in Callers /\ queue[i] # c
    BY <1>1, ElementOfSeq DEF PoolInv, Placed, QueueIsRight
  <2> QED BY <1>1, <1>3, <2>1 DEF PoolInv, Placed, QueueIsRight
<1>7. Placed'
  <2>1. \A d \in Callers : Fits(d, call'[d])
    BY <1>2, <1>3 DEF PoolInv, Placed
  <2> QED BY <1>1, <1>3, <1>5, <1>6, <2>1 DEF PoolInv, Placed
<1>8. PICK f, g : f = call /\ g = call'
  OBVIOUS
<1>9. SameBut(f, g, {c}) /\ c \in Callers /\ g[c] = NoCall
  BY <1>3, <1>8 DEF SameBut
<1>10. Total(f) \in Nat /\ Total(g) = Total(f) - UsesAt(f[c]) + UsesAt(g[c])
  BY ONLY <1>9, TotalChanges
<1>11. Total(g) = Total(f) - 1
  BY <1>1, <1>2, <1>8, <1>9, <1>10
<1>12. Accounted
  BY AccountedByTotal DEF PoolInv, Placed
<1>13. Accounted'
  BY <1>1, <1>8, <1>10, <1>11, <1>12 DEF Accounted, PoolInv, Placed
<1> QED BY <1>7, <1>13, AccountedLater DEF PoolInv, Placed

LEMMA LockInv ==
    ASSUME PoolInv, NEW c \in Callers, Lock(c)
    PROVE  PoolInv'
<1> PICK h : h = [call[c] EXCEPT !.pc = "locked"]
  OBVIOUS
<1>1. /\ call[c].pc = "begun" /\ call[c] \in Call /\ Fits(c, call[c])
      /\ c \in Writers /\ call[c].t \in Tickets
  BY DEF Lock, PoolInv, Placed, Fits
<1>2. h \in Call /\ h.pc = "locked" /\ h.t = call[c].t
  BY <1>1 DEF Call, Places
<1>3. call' = [call EXCEPT ![c] = h] /\ UNCHANGED <<pool, lost, queue>>
      /\ lock' = [lock EXCEPT ![call[c].t] = c] /\ lock[call[c].t] = Free
  BY DEF Lock
<1>4. Fits(c, h) /\ UsesAt(h) = UsesAt(call[c])
  BY <1>1, <1>2 DEF Fits, UsesAt
<1>5. lock' \in [Tickets -> Writers \cup {Free}]
  BY <1>1, <1>3 DEF PoolInv, Placed
<1>6. LocksAreHeld'
  <2> SUFFICES ASSUME NEW t \in Tickets, NEW w \in Writers, lock'[t] = w
               PROVE  call'[w].pc \in InTransaction /\ call'[w].t = t
    BY DEF LocksAreHeld
  <2>1. call'[c] = h /\ (w # c => call'[w] = call[w])
    BY <1>3 DEF PoolInv, Placed, Callers
  <2>2. CASE t = call[c].t
    <3>1. w = c
      BY <1>1, <1>3, <2>2 DEF PoolInv, Placed
    <3> QED BY <1>2, <2>1, <2>2, <3>1 DEF InTransaction
  <2>3. CASE t # call[c].t
    <3>1. lock[t] = w /\ call[w].pc \in InTransaction /\ call[w].t = t
      BY <1>1, <1>3, <2>3 DEF PoolInv, Placed, LocksAreHeld
    <3>2. w # c
      BY <1>1, <3>1 DEF InTransaction
    <3> QED BY <2>1, <3>1, <3>2
  <2> QED BY <2>2, <2>3
<1>7. /\ call[c].pc \in {"idle", "connected", "begun", "locked"}
      /\ h \in Call /\ Fits(c, h) /\ UsesAt(h) = UsesAt(call[c])
      /\ call' = [call EXCEPT ![c] = h] /\ UNCHANGED <<pool, lost, queue>>
  BY <1>1, <1>2, <1>3, <1>4
<1> QED BY <1>5, <1>6, <1>7, CallerMoves

LEMMA AskInv ==
    ASSUME PoolInv, NEW c \in Callers, Ask(c)
    PROVE  PoolInv'
<1> PICK h : h = [call[c] EXCEPT !.pc = "asked"]
  OBVIOUS
<1>1. call[c].pc = "locked" /\ call[c].left > 0 /\ call[c] \in Call /\ Fits(c, call[c])
  BY DEF Ask, PoolInv, Placed
<1>2. h \in Call /\ h.pc = "asked" /\ h.t = call[c].t /\ h.left = call[c].left
  BY <1>1 DEF Call, Places
<1>3. call' = [call EXCEPT ![c] = h] /\ UNCHANGED <<pool, lost, queue, lock>>
  BY DEF Ask
<1>4. Fits(c, h) /\ UsesAt(h) = UsesAt(call[c])
  BY <1>1, <1>2 DEF Fits, UsesAt
<1>5. LocksAreHeld'
  <2>1. \A w \in Writers : call'[w] = IF w = c THEN h ELSE call[w]
    BY <1>3 DEF PoolInv, Placed, Callers
  <2> QED BY <1>2, <1>3, <2>1 DEF PoolInv, Placed, LocksAreHeld, InTransaction
<1>6. lock' \in [Tickets -> Writers \cup {Free}]
  BY <1>3 DEF PoolInv, Placed
<1>7. /\ call[c].pc \in {"idle", "connected", "begun", "locked"}
      /\ h \in Call /\ Fits(c, h) /\ UsesAt(h) = UsesAt(call[c])
      /\ call' = [call EXCEPT ![c] = h] /\ UNCHANGED <<pool, lost, queue>>
  BY <1>1, <1>2, <1>3, <1>4
<1> QED BY <1>5, <1>6, <1>7, CallerMoves

(* The end of a call that has no row lock, and of one that gives it up.     *)
LEMMA LeaveInv ==
    ASSUME PoolInv, NEW c \in Callers, call[c].pc \in {"statement", "begun"},
           GiveBack(c, NoCall), lock' = lock
    PROVE  PoolInv'
<1>1. UsesAt(call[c]) = 1
  BY DEF UsesAt
<1>2. \A t \in Tickets : lock[t] # c
  <2> SUFFICES ASSUME NEW t \in Tickets, lock[t] = c PROVE FALSE
    OBVIOUS
  <2>1. c \in Writers
    BY DEF PoolInv, Placed, Callers
  <2> QED BY <2>1 DEF PoolInv, Placed, LocksAreHeld, InTransaction
<1>3. lock' \in [Tickets -> Writers \cup {Free}]
  BY DEF PoolInv, Placed
<1> QED BY <1>1, <1>2, <1>3, IdleFits, GiveBackInv

LEMMA EndInv ==
    ASSUME PoolInv, NEW c \in Callers, call[c].pc \in {"begun", "locked"},
           GiveBack(c, NoCall), lock' = Unlock(c)
    PROVE  PoolInv'
<1>1. UsesAt(call[c]) = 1
  BY DEF UsesAt
<1>2. \A t \in Tickets, w \in Writers : lock'[t] = w => lock[t] = w /\ w # c
  BY DEF Unlock, Callers
<1>3. lock' \in [Tickets -> Writers \cup {Free}]
  BY DEF Unlock, PoolInv, Placed
<1> QED BY <1>1, <1>2, <1>3, IdleFits, GiveBackInv

LEMMA AnswerInv ==
    ASSUME PoolInv, NEW c \in Callers, Answer(c)
    PROVE  PoolInv'
<1> DEFINE h == [call[c] EXCEPT !.pc = "locked", !.left = @ - 1]
<1>1. call[c].pc = "inner" /\ call[c].left > 0 /\ call[c] \in Call /\ Fits(c, call[c])
  BY DEF Answer, PoolInv, Placed, Fits
<1>2. h \in Call /\ h.pc = "locked" /\ h.t = call[c].t
  <2>1. call[c].left \in Nat /\ call[c].left - 1 \in Nat
    BY <1>1 DEF Call
  <2> QED BY <1>1, <2>1 DEF Call, Places
<1>3. GiveBack(c, h) /\ lock' = lock
  BY DEF Answer
<1> HIDE DEF h
<1>4. Fits(c, h) /\ UsesAt(h) = 1 /\ UsesAt(call[c]) = 2
  BY <1>1, <1>2 DEF Fits, UsesAt
<1>5. \A t \in Tickets, w \in Writers : lock'[t] = w =>
        lock[t] = w /\ (w = c => h.pc \in InTransaction /\ h.t = t)
  BY <1>2, <1>3 DEF PoolInv, Placed, LocksAreHeld, InTransaction
<1>6. lock' \in [Tickets -> Writers \cup {Free}]
  BY <1>3 DEF PoolInv, Placed
<1> QED BY <1>1, <1>2, <1>3, <1>4, <1>5, <1>6, GiveBackInv

LEMMA StepPoolInv == PoolInv /\ [PoolNext]_poolVars => PoolInv'
<1> SUFFICES ASSUME PoolInv, [PoolNext]_poolVars PROVE PoolInv'
  OBVIOUS
<1>1. ASSUME NEW c \in Callers, Statement(c) \/ Refuse(c) PROVE PoolInv'
  BY <1>1, LeaveInv DEF Statement, Refuse
<1>2. ASSUME NEW c \in Callers, Commit(c) \/ Throw(c) PROVE PoolInv'
  BY <1>2, EndInv DEF Commit, Throw
<1>3. CASE UNCHANGED poolVars
  BY <1>3 DEF poolVars, PoolInv, Placed, LocksAreHeld, QueueIsRight, PoolIsAccountedFor,
              InUse, Uses
<1> QED BY <1>1, <1>2, <1>3, StartInv, TakeInv, BeginInv, BeginFailsInv, LockInv, AskInv,
           AnswerInv
           DEF PoolNext, Progress

LEMMA PoolInvariance == PoolSpec => []PoolInv
BY InitPoolInv, StepPoolInv, PTL DEF PoolSpec

----------------------------------------------------------------------------
(* The variables keep their types: the pool is never overfilled.            *)
THEOREM PoolTypes == PoolSpec => []PoolTypeOK
<1>1. PoolInv => PoolTypeOK
  <2> SUFFICES ASSUME PoolInv PROVE PoolTypeOK
    OBVIOUS
  <2>1. pool + lost + Total(call) = PoolSize /\ pool \in Nat /\ lost \in Nat
    BY AccountedByTotal DEF PoolInv, Placed, Accounted
  <2>2. Total(call) \in Nat
    BY UsersAreFinite DEF Total
  <2>3. pool \in 0 .. PoolSize /\ lost \in 0 .. PoolSize
    BY <2>1, <2>2
  <2> QED BY <2>3 DEF PoolInv, Placed, PoolTypeOK
<1> QED BY <1>1, PoolInvariance, PTL

(* Whatever the order of transactions, refusals, failures and waiting, the  *)
(* only connections that are lost are those of failed BEGINs, none is given *)
(* to two, and nobody waits while one is free.                              *)
THEOREM Accounting == PoolSpec => []PoolIsAccountedFor
<1>1. PoolInv => PoolIsAccountedFor
  BY DEF PoolInv
<1> QED BY <1>1, PoolInvariance, PTL

(* With more connections left than callers who may hold one while they wait,*)
(* for a second connection or for a row, the second connection is no trap:  *)
(* of any callers that are under way, one can go on.                        *)
THEOREM NoTrap == PoolSpec => []SomeoneCanGoOn
<1>1. PoolInv => SomeoneCanGoOn
  <2> SUFFICES ASSUME PoolInv, EnoughConnections,
                      NEW b \in Callers, call[b].pc # "idle",
                      \A c \in Callers : Stuck(c)
               PROVE  FALSE
    BY DEF SomeoneCanGoOn
  <2> DEFINE Holders == Writers \cup Waiters
  <2>1. \A c \in Callers : Waiting(c) => call[c].pc \in {"connecting", "asked"}
    BY DEF Waiting, PoolInv, Placed, QueueIsRight
  <2>2. \A c \in Callers :
          \/ call[c].pc \in {"idle", "connecting", "asked", "begun"}
          \/ call[c].pc = "statement" /\ c \in Waiters
    BY <2>1 DEF Stuck, Blocked, RowIsTaken
  <2>3. \A c \in Callers : UsesAt(call[c]) <= 1 /\ (UsesAt(call[c]) >= 1 => c \in Holders)
    BY <2>2 DEF UsesAt, PoolInv, Placed, Fits
  <2>4. UsersOf(call, 2) = {} /\ UsersOf(call, 1) \in SUBSET Holders
    <3>1. \A c \in Callers : ~(UsesAt(call[c]) >= 2)
      BY <2>3, UsesAtMostTwo
    <3> QED BY <2>3, <3>1 DEF UsersOf
  <2>5. /\ IsFiniteSet(Holders) /\ Cardinality(Holders) \in Nat
        /\ Cardinality(Holders) = Cardinality(Writers) + Cardinality(Waiters)
    <3>1. Writers \in SUBSET Callers /\ Waiters \in SUBSET Callers
      BY DEF Callers
    <3>2. IsFiniteSet(Writers) /\ IsFiniteSet(Waiters)
      BY <3>1, FS_Subset
    <3>3. Cardinality(Writers \cap Waiters) = 0
      <4>1. Writers \cap Waiters = {}
        OBVIOUS
      <4> QED BY <4>1, FS_EmptySet
    <3>4. IsFiniteSet(Holders)
      BY <3>2, FS_Union
    <3>5. Cardinality(Holders) = Cardinality(Writers) + Cardinality(Waiters)
                                   - Cardinality(Writers \cap Waiters)
      BY <3>2, FS_Union
    <3>6. Cardinality(Writers) \in Nat /\ Cardinality(Waiters) \in Nat
      BY <3>2, FS_CardinalityType
    <3> QED BY <3>3, <3>4, <3>5, <3>6
  <2>6. Total(call) < PoolSize - lost /\ Total(call) \in Nat
    <3>1. Cardinality(UsersOf(call, 1)) <= Cardinality(Holders)
      BY <2>4, <2>5, FS_Subset
    <3>2. Cardinality(UsersOf(call, 2)) = 0
      BY <2>4, FS_EmptySet
    <3>3. Cardinality(UsersOf(call, 1)) \in Nat
      BY UsersAreFinite
    <3>4. lost \in Nat
      BY DEF PoolInv, Placed
    <3> QED BY <2>5, <3>1, <3>2, <3>3, <3>4 DEF Total, EnoughConnections
  <2>7. queue = <<>>
    <3>1. Accounted /\ pool \in Nat /\ lost \in Nat
      BY AccountedByTotal DEF PoolInv, Placed
    <3>2. pool > 0
      BY <2>6, <3>1 DEF Accounted
    <3> QED BY <3>1, <3>2 DEF Accounted
  <2>8. \A c \in Callers : call[c].pc = "idle" \/ Blocked(c)
    BY <2>7, EmptySeq DEF Stuck, Waiting
  <2>9. \A c \in Callers : call[c].pc \notin InTransaction
    BY <2>8 DEF Blocked, InTransaction
  <2>10. call[b].t \in Tickets /\ lock[call[b].t] # Free
    BY <2>8 DEF Blocked, RowIsTaken, PoolInv, Placed, Fits
  <2>11. lock[call[b].t] \in Writers
    BY <2>10 DEF PoolInv, Placed
  <2>12. call[lock[call[b].t]].pc \in InTransaction
    BY <2>10, <2>11 DEF PoolInv, Placed, LocksAreHeld
  <2> QED BY <2>9, <2>11, <2>12 DEF Callers
<1> QED BY <1>1, PoolInvariance, PTL
=============================================================================
