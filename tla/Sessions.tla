------------------------------ MODULE Sessions ------------------------------
(* Access tokens, the deny-list that logout fills and cron empties, and the *)
(* guard in front of every protected endpoint.                              *)
(*                                                                          *)
(* The clock counts ticks finer than a second (milliseconds in the code): a *)
(* token carries its expiry in whole seconds, the guard compares whole      *)
(* seconds, but the purge compares expiresAt = exp * 1000 with the time in  *)
(* milliseconds.  The guard looks the deny-list up after it has compared    *)
(* the expiry, and the clock and the purge may move in between.             *)
(*                                                                          *)
(* signedOut and late are history: the tokens whose logout was answered, and*)
(* whether the token of a request was one of them when the request came.    *)
(* Passwords are left out: which user may log in is a free choice.          *)
EXTENDS Naturals

CONSTANTS
    Tokens,             \* the jti of every token the server can issue
    Users, Reqs,
    NoToken, NoUser,
    TicksPerSecond,
    Lifetime,           \* jwtExpiresIn, in seconds
    MaxTime             \* bound of the clock, in ticks

ASSUME SessionAssumption ==
    /\ NoToken \notin Tokens
    /\ NoUser \notin Users
    /\ TicksPerSecond \in Nat \ {0}
    /\ Lifetime \in Nat
    /\ MaxTime \in Nat

VARIABLES
    clock,
    known,      \* the users in the table
    owner,      \* owner[k]: payload.sub of an issued token, or NoUser
    exp,        \* exp[k]: payload.exp, in seconds
    revoked,    \* revoked_tokens: the jti column, which is unique
    signedOut,
    req         \* req[r]: where request r is

vars == <<clock, known, owner, exp, revoked, signedOut, req>>

Seconds == 0 .. (MaxTime \div TicksPerSecond) + Lifetime

Request == [pc : {"idle", "login", "verified", "unrevoked", "admitted",
                  "notFound", "denied"},
            k : Tokens \cup {NoToken}, u : Users \cup {NoUser}, late : BOOLEAN]

Idle == [pc |-> "idle", k |-> NoToken, u |-> NoUser, late |-> FALSE]

TypeOK ==
    /\ clock \in 0 .. MaxTime
    /\ known \subseteq Users
    /\ owner \in [Tokens -> Users \cup {NoUser}]
    /\ exp \in [Tokens -> Seconds]
    /\ revoked \subseteq Tokens
    /\ signedOut \subseteq Tokens
    /\ req \in [Reqs -> Request]

Init ==
    /\ clock = 0
    /\ known = Users
    /\ owner = [k \in Tokens |-> NoUser]
    /\ exp = [k \in Tokens |-> 0]
    /\ revoked = {}
    /\ signedOut = {}
    /\ req = [r \in Reqs |-> Idle]

Now == clock \div TicksPerSecond

Issued(k) == owner[k] # NoUser

Expired(k) == Now >= exp[k]

Tick ==
    /\ clock < MaxTime
    /\ clock' = clock + 1
    /\ UNCHANGED <<known, owner, exp, revoked, signedOut, req>>

Move(r, pc) == req' = [req EXCEPT ![r].pc = pc]

Return(r) == req' = [req EXCEPT ![r] = Idle]

(* DELETE /users/:userId, as far as tokens see it.                          *)
RemoveUser(u) ==
    /\ u \in known
    /\ known' = known \ {u}
    /\ UNCHANGED <<clock, owner, exp, revoked, signedOut, req>>

----------------------------------------------------------------------------
(* POST /auth/login: find the user, check the password, sign a token.       *)
LoginFind(r, u) ==
    /\ req[r].pc = "idle"
    /\ u \in known
    /\ req' = [req EXCEPT ![r] = [@ EXCEPT !.pc = "login", !.u = u]]
    /\ UNCHANGED <<clock, known, owner, exp, revoked, signedOut>>

ExpiryInTicks == clock + TicksPerSecond * Lifetime

Expiry == Now + Lifetime

LoginSign(r, k) ==
    /\ req[r].pc = "login"
    /\ ~Issued(k)
    /\ owner' = [owner EXCEPT ![k] = req[r].u]
    /\ exp' = [exp EXCEPT ![k] = Expiry]
    /\ Return(r)
    /\ UNCHANGED <<clock, known, revoked, signedOut>>

----------------------------------------------------------------------------
(* The guard: signature and expiry first, then the deny-list, then the user.*)
Verify(r, k) ==
    /\ req[r].pc = "idle"
    /\ Issued(k)
    /\ ~Expired(k)
    /\ req' = [req EXCEPT ![r] = [@ EXCEPT !.pc = "verified", !.k = k,
                                           !.late = k \in signedOut]]
    /\ UNCHANGED <<clock, known, owner, exp, revoked, signedOut>>

NeverDenied(k) == FALSE

IsRevoked(k) == k \in revoked

LookUpToken(r) ==
    /\ req[r].pc = "verified"
    /\ ~IsRevoked(req[r].k)
    /\ Move(r, "unrevoked")
    /\ UNCHANGED <<clock, known, owner, exp, revoked, signedOut>>

LookUpUser(r) ==
    /\ req[r].pc = "unrevoked"
    /\ owner[req[r].k] \in known
    /\ Move(r, "admitted")
    /\ UNCHANGED <<clock, known, owner, exp, revoked, signedOut>>

(* A look-up answers 401, the endpoint behind the guard answers, or any     *)
(* step of the request throws.                                              *)
Leave(r) ==
    /\ req[r].pc # "idle"
    /\ Return(r)
    /\ UNCHANGED <<clock, known, owner, exp, revoked, signedOut>>

(* POST /auth/logout, behind the guard: look for the token, insert it unless*)
(* it is there; the row of a concurrent logout breaks the unique index, and *)
(* the request leaves with an error.                                        *)
LogoutFind(r) ==
    /\ req[r].pc = "admitted"
    /\ Move(r, IF req[r].k \in revoked THEN "denied" ELSE "notFound")
    /\ UNCHANGED <<clock, known, owner, exp, revoked, signedOut>>

LogoutSave(r) ==
    /\ req[r].pc = "notFound"
    /\ req[r].k \notin revoked
    /\ revoked' = revoked \cup {req[r].k}
    /\ Move(r, "denied")
    /\ UNCHANGED <<clock, known, owner, exp, signedOut>>

LogoutAnswer(r) ==
    /\ req[r].pc = "denied"
    /\ signedOut' = signedOut \cup {req[r].k}
    /\ Return(r)
    /\ UNCHANGED <<clock, known, owner, exp, revoked>>

(* The process dies: what it was serving is lost, the tables are not.       *)
Restart ==
    /\ req' = [r \in Reqs |-> Idle]
    /\ UNCHANGED <<clock, known, owner, exp, revoked, signedOut>>

----------------------------------------------------------------------------
(* Cron, every six hours: delete the rows whose expiresAt is before the time*)
(* that was taken when the statement was built, at or before the present.   *)
PurgeFuture(now) == {k \in revoked : exp[k] * TicksPerSecond > now}

Purgeable(now) == {k \in revoked : exp[k] * TicksPerSecond < now}

PurgeExpired ==
    /\ \E now \in 0 .. clock : revoked' = revoked \ Purgeable(now)
    /\ UNCHANGED <<clock, known, owner, exp, signedOut, req>>

RequestStep(r) ==
    \/ \E u \in Users : LoginFind(r, u)
    \/ \E k \in Tokens : LoginSign(r, k) \/ Verify(r, k)
    \/ LookUpToken(r) \/ LookUpUser(r)
    \/ LogoutFind(r) \/ LogoutSave(r) \/ LogoutAnswer(r)
    \/ Leave(r)

Next ==
    \/ Tick \/ PurgeExpired \/ Restart
    \/ \E u \in Users : RemoveUser(u)
    \/ \E r \in Reqs : RequestStep(r)

Spec == Init /\ [][Next]_vars

(* Time passes, and a purge that takes the present time happens again and   *)
(* again; nothing is assumed of clients.                                    *)
PurgeNow ==
    /\ revoked' = revoked \ Purgeable(clock)
    /\ UNCHANGED <<clock, known, owner, exp, signedOut, req>>

FairSpec == Spec /\ WF_vars(Tick) /\ WF_vars(PurgeNow)

----------------------------------------------------------------------------
(* FR-AUTH-004: once a logout was answered, its token is on the deny-list as*)
(* long as the guard would take it otherwise.  The purge must not drop the  *)
(* row in the second in which the token expires before the guard refuses it.*)
DenyListCoversUsable ==
    \A k \in signedOut : k \in revoked \/ Expired(k)

(* A request that came after the logout of its token was answered passes the*)
(* deny-list only if the token has expired under way (the guard compared the*)
(* expiry before it awaited the look-up, and the purge took the row).       *)
SignedOutIsRefused ==
    [][\A r \in Reqs :
         req[r].pc = "verified" /\ req'[r].pc = "unrevoked" /\ req[r].late =>
           Expired(req[r].k)]_vars

(* The deny-list does not grow for ever: every row that expires before the  *)
(* clock's bound is purged in the end.                                      *)
ToBePurged(k) == k \in revoked /\ exp[k] * TicksPerSecond < MaxTime

DenyListIsEmptied == \A k \in Tokens : ToBePurged(k) ~> ~ToBePurged(k)
============================================================================
