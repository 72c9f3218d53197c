------------------------------ MODULE Comments ------------------------------
(* Comments on a ticket and the mentions table derived from them.  POST and *)
(* PATCH first store the content, PATCH under the row lock; only after the  *)
(* commit rebuildMentions deletes the rows of the comment and inserts one   *)
(* for each name, statement by statement, with no transaction around them.  *)
(* A content is the set of user names written in it behind an @.  What      *)
(* /@(\w+)/ makes of such a name is Extracted: a name with another character*)
(* than letters, digits and _ is cut there, to a word that may be the name  *)
(* of somebody else, and looked up as that; a name that begins with such a  *)
(* character is missed.  User names differ in more than case, as the        *)
(* look-ups ignore it; rebuildMentions skips repeated words, and the rows it*)
(* inserts have no order.                                                   *)
(*                                                                          *)
(* History: stale are the comments whose mentions nobody promises, because  *)
(* rebuilds of them overlapped, one of them failed, or somebody signed up   *)
(* under a name they spell.  A rebuild that runs alone ends that.              *)
(*                                                                          *)
(* Left out: soft deletion of the ticket, which each endpoint checks first  *)
(* and which leaves comments alone; the deletion of a user statement by     *)
(* statement (see Accounts); audit rows.                                    *)
EXTENDS FiniteSets

CONSTANTS
    Users,      \* user names, whatever POST /users accepts
    Extracted,  \* Extracted[n]: the user names that are words of a written @n
    Comments, Reqs,
    NoUser, NoComment,
    Free        \* no transaction holds the row lock

ASSUME CommentsAssumption ==
    NoUser \notin Users /\ NoComment \notin Comments /\ Free \notin Reqs

ASSUME ExtractionAssumption ==
    /\ Extracted \in [Users -> SUBSET Users]
    /\ \A n \in Users : \A u \in Extracted[n] : Extracted[u] = {u}

VARIABLES
    user,       \* the users there are
    comment,    \* committed rows
    mention,    \* pairs <<commentId, userId>>, unique
    lock,       \* lock[c]: the handler whose PATCH locked the row
    req,        \* req[r]: where handler r is, and its local variables
    stale

vars == <<user, comment, mention, lock, req, stale>>

Contents == SUBSET Users

extractUsernames(content) == UNION {Extracted[n] : n \in content}

Comment == [life : {"absent", "stored", "deleted"}, author : Users \cup {NoUser},
            content : Contents]

Absent == [life |-> "absent", author |-> NoUser, content |-> {}]

Gone == [Absent EXCEPT !.life = "deleted"]

Handler == [pc : {"idle", "locked", "clear", "names", "save", "found"},
            c : Comments \cup {NoComment}, content : Contents, todo : Contents,
            u : Users \cup {NoUser}]

Idle == [pc |-> "idle", c |-> NoComment, content |-> {}, todo |-> {}, u |-> NoUser]

(* A handler under way knows its comment, and what it is about to insert is *)
(* a user it found.                                                         *)
TypeOK ==
    /\ user \subseteq Users
    /\ comment \in [Comments -> Comment]
    /\ mention \subseteq Comments \X Users
    /\ lock \in [Comments -> Reqs \cup {Free}]
    /\ req \in [Reqs -> Handler]
    /\ \A r \in Reqs : /\ req[r].pc # "idle" => req[r].c \in Comments
                       /\ req[r].pc = "save" => req[r].u \in req[r].todo
    /\ stale \subseteq Comments

Init ==
    /\ user \in SUBSET Users
    /\ comment = [c \in Comments |-> Absent]
    /\ mention = {}
    /\ lock = [c \in Comments |-> Free]
    /\ req = [r \in Reqs |-> Idle]
    /\ stale = {}

Stored(c) == comment[c].life = "stored"

Step(r, handler) == req' = [req EXCEPT ![r] = handler]

Rebuilding(r, c) == req[r].pc \in {"clear", "names", "save"} /\ req[r].c = c

MentionsOf(c) == {m \in mention : m[1] = c}

----------------------------------------------------------------------------
(* The content is stored, the rebuild begins.                               *)
StartRebuild(r, c, content) ==
    /\ Step(r, [Idle EXCEPT !.pc = "clear", !.c = c, !.todo = extractUsernames(content)])
    /\ stale' = IF \E q \in Reqs \ {r} : Rebuilding(q, c)
                THEN stale \cup {c}
                ELSE stale \ {c}

Post(r, c) ==
    /\ req[r].pc = "idle"
    /\ comment[c].life = "absent"
    /\ \E author \in user, content \in Contents :
         /\ comment' = [comment EXCEPT ![c] = [life |-> "stored", author |-> author,
                                               content |-> content]]
         /\ StartRebuild(r, c, content)
    /\ UNCHANGED <<user, mention, lock>>

(* PATCH by the author: lock or be refused, later save and commit.          *)
PatchLock(r, c) ==
    /\ req[r].pc = "idle"
    /\ Stored(c)
    /\ lock[c] = Free
    /\ lock' = [lock EXCEPT ![c] = r]
    /\ \E content \in Contents :
         Step(r, [Idle EXCEPT !.pc = "locked", !.c = c, !.content = content])
    /\ UNCHANGED <<user, comment, mention, stale>>

PatchCommit(r) ==
    /\ req[r].pc = "locked"
    /\ LET c == req[r].c
       IN  /\ comment' = [comment EXCEPT ![c].content = req[r].content]
           /\ lock' = [lock EXCEPT ![c] = Free]
           /\ StartRebuild(r, c, req[r].content)
    /\ UNCHANGED <<user, mention>>

----------------------------------------------------------------------------
(* rebuildMentions.                                                         *)
NothingCleared(c) == {}

Cleared(c) == MentionsOf(c)

Clear(r) ==
    /\ req[r].pc = "clear"
    /\ mention' = mention \ Cleared(req[r].c)
    /\ Step(r, [req[r] EXCEPT !.pc = "names"])
    /\ UNCHANGED <<user, comment, lock, stale>>

UnknownNotSkipped(handler, u) ==
    [handler EXCEPT !.pc = "save", !.u = IF u \in user THEN u ELSE NoUser]

LookedUp(handler, u) ==
    IF u \in user
    THEN [handler EXCEPT !.pc = "save", !.u = u]
    ELSE [handler EXCEPT !.todo = @ \ {u}]

LookUp(r, u) ==
    /\ req[r].pc = "names"
    /\ u \in req[r].todo
    /\ Step(r, LookedUp(req[r], u))
    /\ UNCHANGED <<user, comment, mention, lock, stale>>

(* The insert shares the key of the comment, which waits for the lock of a  *)
(* PATCH.  It is refused if the comment or the user is gone, or if the row  *)
(* is there: then the rebuild ends here, with GiveUp.                       *)
OnlyUnique(c, u) == <<c, u>> \notin mention

Insertable(c, u) == Stored(c) /\ u \in user /\ <<c, u>> \notin mention

SaveMention(r) ==
    /\ req[r].pc = "save"
    /\ LET c == req[r].c
           u == req[r].u
       IN  /\ lock[c] = Free
           /\ Insertable(c, u)
           /\ mention' = mention \cup {<<c, u>>}
           /\ Step(r, [req[r] EXCEPT !.pc = "names", !.todo = @ \ {u}, !.u = NoUser])
    /\ UNCHANGED <<user, comment, lock, stale>>

Answer(r) ==
    /\ req[r].pc = "names"
    /\ req[r].todo = {}
    /\ Step(r, Idle)
    /\ UNCHANGED <<user, comment, mention, lock, stale>>

(* An exception or the death of the process.                                *)
GiveUp(r) ==
    /\ req[r].pc # "idle"
    /\ Step(r, Idle)
    /\ lock' = [c \in Comments |-> IF lock[c] = r THEN Free ELSE lock[c]]
    /\ stale' = stale \cup {c \in Comments : Rebuilding(r, c)}
    /\ UNCHANGED <<user, comment, mention>>

----------------------------------------------------------------------------
(* DELETE by the author: find, later delete; the mentions go along (ON      *)
(* DELETE CASCADE).                                                         *)
DeleteFind(r, c) ==
    /\ req[r].pc = "idle"
    /\ Stored(c)
    /\ Step(r, [Idle EXCEPT !.pc = "found", !.c = c])
    /\ UNCHANGED <<user, comment, mention, lock, stale>>

DeleteWrite(r) ==
    /\ req[r].pc = "found"
    /\ LET c == req[r].c
       IN  /\ lock[c] = Free
           /\ comment' = [comment EXCEPT ![c] = IF Stored(c) THEN Gone ELSE @]
           /\ mention' = mention \ MentionsOf(c)
    /\ Step(r, Idle)
    /\ UNCHANGED <<user, lock, stale>>

(* DELETE /users: his comments, their mentions and the mentions of him go.  *)
Authored(u) == {c \in Comments : Stored(c) /\ comment[c].author = u}

DeleteUser(u) ==
    /\ u \in user
    /\ \A c \in Authored(u) : lock[c] = Free
    /\ user' = user \ {u}
    /\ comment' = [c \in Comments |-> IF c \in Authored(u) THEN Gone ELSE comment[c]]
    /\ mention' = {m \in mention : m[1] \notin Authored(u) /\ m[2] # u}
    /\ UNCHANGED <<lock, req, stale>>

SignUp(u) ==
    /\ u \notin user
    /\ user' = user \cup {u}
    /\ stale' = stale \cup {c \in Comments : u \in extractUsernames(comment[c].content)}
    /\ UNCHANGED <<comment, mention, lock, req>>

----------------------------------------------------------------------------
HandlerStep(r) ==
    \/ \E c \in Comments : Post(r, c) \/ PatchLock(r, c) \/ DeleteFind(r, c)
    \/ \E u \in Users : LookUp(r, u)
    \/ PatchCommit(r) \/ Clear(r) \/ SaveMention(r) \/ Answer(r)
    \/ DeleteWrite(r) \/ GiveUp(r)

Next ==
    \/ \E r \in Reqs : HandlerStep(r)
    \/ \E u \in Users : DeleteUser(u) \/ SignUp(u)

Spec == Init /\ [][Next]_vars

----------------------------------------------------------------------------
(* PD-10: no mention outlives its comment or the user it is about, although *)
(* rebuilds go on after either was deleted.                                 *)
NoMentionOfTheGone ==
    \A m \in mention : Stored(m[1]) /\ m[2] \in user

(* BR-15: outside of a rebuild, a comment that is not stale mentions a user *)
(* just if some name written in its content is cut to his; so a user whose  *)
(* name is no word is never mentioned, but another one may be in his place. *)
MentionsMatchContent ==
    \A c \in Comments :
        Stored(c) /\ c \notin stale /\ (\A r \in Reqs : ~Rebuilding(r, c)) =>
            \A u \in Users : <<c, u>> \in mention <=>
                u \in user /\ \E n \in comment[c].content : u \in Extracted[n]
=============================================================================
