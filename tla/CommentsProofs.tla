--------------------------- MODULE CommentsProofs ---------------------------
(* Comments for any number of users, comments and handlers: no mention      *)
(* outlives what it refers to, and a rebuild that nothing overtakes leaves  *)
(* the mentions of the content.                                             *)
EXTENDS Comments, TLAPS

USE CommentsAssumption

Names(r) == req[r].pc \in {"names", "save"}

(* How far the rebuild of c by r has come: the rows are those of the names  *)
(* it is through with, and it is the only one.                              *)
OnCourse(r, c) ==
    /\ req[r].todo \subseteq extractUsernames(comment[c].content)
    /\ req[r].pc = "clear" => req[r].todo = extractUsernames(comment[c].content)
    /\ Names(r) => \A u \in Users :
           <<c, u>> \in mention <=>
                 u \in (extractUsernames(comment[c].content) \ req[r].todo) \cap user
    /\ \A q \in Reqs : Rebuilding(q, c) => q = r

RebuildsAreOnCourse ==
    \A c \in Comments : Stored(c) /\ c \notin stale =>
        \A r \in Reqs : Rebuilding(r, c) => OnCourse(r, c)

(* MentionsMatchContent, said with what a rebuild looks up.                 *)
Match ==
    \A c \in Comments :
        Stored(c) /\ c \notin stale /\ (\A r \in Reqs : ~Rebuilding(r, c)) =>
            \A u \in Users :
                <<c, u>> \in mention <=> u \in extractUsernames(comment[c].content) \cap user

Inv == TypeOK /\ NoMentionOfTheGone /\ Match /\ RebuildsAreOnCourse

LEMMA InitInv == Init => Inv
<1> SUFFICES ASSUME Init PROVE Inv
  OBVIOUS
<1>1. Idle \in Handler
  BY DEF Idle, Handler, Contents
<1>2. Absent \in Comment
  BY DEF Absent, Comment, Contents
<1>3. TypeOK
  BY <1>1, <1>2 DEF Init, TypeOK, Idle
<1>4. \A c \in Comments : ~Stored(c)
  BY DEF Init, Stored, Absent
<1> QED BY <1>3, <1>4 DEF Init, Inv, NoMentionOfTheGone, Match, RebuildsAreOnCourse

LEMMA WordsAreNames ==
    ASSUME NEW content \in Contents
    PROVE  extractUsernames(content) \in Contents
BY ExtractionAssumption DEF Contents, extractUsernames

(* Handlers keep their types.                                               *)
LEMMA IdleTypes ==
    ASSUME NEW c \in Comments, NEW content \in Contents
    PROVE  /\ Idle \in Handler
           /\ [Idle EXCEPT !.pc = "clear", !.c = c, !.todo = content] \in Handler
           /\ [Idle EXCEPT !.pc = "locked", !.c = c, !.content = content] \in Handler
           /\ [Idle EXCEPT !.pc = "found", !.c = c] \in Handler
BY DEF Handler, Idle, Contents

LEMMA RebuildTypes ==
    ASSUME NEW h \in Handler, NEW u \in Users
    PROVE  /\ [h EXCEPT !.pc = "names"] \in Handler
           /\ [h EXCEPT !.pc = "names", !.todo = @ \ {u}, !.u = NoUser] \in Handler
           /\ [h EXCEPT !.pc = "save", !.u = u] \in Handler
           /\ [h EXCEPT !.todo = @ \ {u}] \in Handler
BY DEF Handler, Contents

(* What a rebuild is promised does not depend on handlers that rebuild      *)
(* nothing, before and after.                                               *)
LEMMA BystanderMoves ==
    ASSUME Inv, NEW r \in Reqs, NEW new \in Handler,
           req' = [req EXCEPT ![r] = new],
           UNCHANGED <<user, comment, mention, stale>>,
           lock' \in [Comments -> Reqs \cup {Free}],
           req[r].pc \notin {"clear", "names", "save"},
           new.pc \notin {"clear", "names", "save"},
           new.pc # "idle" => new.c \in Comments
    PROVE  Inv'
<1>1. req' \in [Reqs -> Handler] /\ \A q \in Reqs : req'[q] = IF q = r THEN new ELSE req[q]
  BY DEF Inv, TypeOK
<1>2. TypeOK'
  BY <1>1 DEF Inv, TypeOK
<1>3. \A q \in Reqs, c \in Comments : Rebuilding(q, c)' <=> Rebuilding(q, c)
  BY <1>1 DEF Rebuilding
<1>4. NoMentionOfTheGone'
  BY DEF Inv, NoMentionOfTheGone, Stored
<1>5. Match'
  BY <1>3 DEF Inv, Match, Stored
<1>6. RebuildsAreOnCourse'
  <2> SUFFICES ASSUME NEW c \in Comments, Stored(c)', c \notin stale', NEW q \in Reqs,
                      Rebuilding(q, c)'
               PROVE  OnCourse(q, c)'
    BY DEF RebuildsAreOnCourse
  <2>1. OnCourse(q, c) /\ q # r /\ req'[q] = req[q]
    BY <1>1, <1>3 DEF Inv, RebuildsAreOnCourse, Stored, Rebuilding
  <2> QED BY <2>1, <1>3 DEF OnCourse, Names
<1> QED BY <1>2, <1>4, <1>5, <1>6 DEF Inv

(* The beginning of a rebuild, of a comment just stored or just changed.    *)
LEMMA RebuildBegins ==
    ASSUME Inv, NEW r \in Reqs, NEW c \in Comments, NEW new \in Comment,
           StartRebuild(r, c, new.content),
           req[r].pc \notin {"clear", "names", "save"},
           new.life = comment[c].life \/ new.life = "stored",
           comment' = [comment EXCEPT ![c] = new],
           lock' \in [Comments -> Reqs \cup {Free}],
           UNCHANGED <<user, mention>>
    PROVE  Inv'
<1> DEFINE h == [Idle EXCEPT !.pc = "clear", !.c = c, !.todo = extractUsernames(new.content)]
<1>1. h \in Handler /\ new.content \in Contents
  <2>1. new.content \in Contents
    BY DEF Comment
  <2> QED BY <2>1, IdleTypes, WordsAreNames
<1>2. req' \in [Reqs -> Handler] /\ \A q \in Reqs : req'[q] = IF q = r THEN h ELSE req[q]
  BY <1>1 DEF Inv, TypeOK, StartRebuild, Step
<1>3. h.pc = "clear" /\ h.c = c /\ h.todo = extractUsernames(new.content)
  BY DEF Idle
<1>4. TypeOK'
  BY <1>2, <1>3 DEF Inv, TypeOK, StartRebuild
<1>5. \A d \in Comments : comment'[d] = IF d = c THEN new ELSE comment[d]
  BY DEF Inv, TypeOK
<1>6. NoMentionOfTheGone'
  BY <1>5 DEF Inv, TypeOK, NoMentionOfTheGone, Stored
<1>7. \A d \in Comments \ {c} : /\ d \in stale' <=> d \in stale
                                /\ \A q \in Reqs : Rebuilding(q, d)' <=> Rebuilding(q, d)
  BY <1>2, <1>3 DEF Rebuilding, StartRebuild
<1>8. Rebuilding(r, c)' /\ (c \notin stale' => \A q \in Reqs : Rebuilding(q, c)' => q = r)
  BY <1>2, <1>3 DEF Rebuilding, StartRebuild
<1>9. Match'
  BY <1>5, <1>7, <1>8 DEF Inv, Match, Stored
<1>10. RebuildsAreOnCourse'
  <2> SUFFICES ASSUME NEW d \in Comments, Stored(d)', d \notin stale', NEW q \in Reqs,
                      Rebuilding(q, d)'
               PROVE  OnCourse(q, d)'
    BY DEF RebuildsAreOnCourse
  <2>1. CASE d = c
    <3>1. q = r /\ req'[q] = h /\ comment'[d] = new
      BY <2>1, <1>2, <1>5, <1>8
    <3>2. req'[q].pc = "clear" /\ req'[q].todo = extractUsernames(comment'[d].content)
      BY <3>1, <1>3
    <3>3. \A p \in Reqs : Rebuilding(p, d)' => p = q
      BY <2>1, <3>1, <1>8
    <3> QED BY <3>2, <3>3 DEF OnCourse, Names
  <2>2. CASE d # c
    <3>1. OnCourse(q, d) /\ q # r /\ req'[q] = req[q] /\ comment'[d] = comment[d]
      BY <2>2, <1>2, <1>3, <1>5, <1>7 DEF Inv, RebuildsAreOnCourse, Stored, Rebuilding
    <3> QED BY <2>2, <3>1, <1>7 DEF OnCourse, Names
  <2> QED BY <2>1, <2>2
<1> QED BY <1>4, <1>6, <1>9, <1>10 DEF Inv

(* A step of the rebuild of c by r: it stays on course, so the others, who  *)
(* rebuild other comments or a stale one, are not concerned.                *)
LEMMA RebuildGoesOn ==
    ASSUME Inv, NEW r \in Reqs, NEW c \in Comments, NEW new \in Handler,
           Rebuilding(r, c),
           req' = [req EXCEPT ![r] = new],
           new.c = c, new.pc \in {"names", "save"},
           new.pc = "save" => new.u \in new.todo,
           UNCHANGED <<user, comment, lock, stale>>,
           mention' \subseteq Comments \X Users,
           \A m \in mention' : m \in mention \/ (m[1] = c /\ Stored(c) /\ m[2] \in user),
           \A d \in Comments \ {c}, u \in Users : <<d, u>> \in mention' <=>
                                                    <<d, u>> \in mention,
           Stored(c) /\ c \notin stale =>
               /\ new.todo \subseteq extractUsernames(comment[c].content)
               /\ \A u \in Users :
                    <<c, u>> \in mention' <=>
                          u \in (extractUsernames(comment[c].content) \ new.todo) \cap user
    PROVE  Inv'
<1>1. req' \in [Reqs -> Handler] /\ \A q \in Reqs : req'[q] = IF q = r THEN new ELSE req[q]
  BY DEF Inv, TypeOK
<1>2. TypeOK'
  BY <1>1 DEF Inv, TypeOK
<1>3. \A q \in Reqs, d \in Comments : Rebuilding(q, d)' <=> Rebuilding(q, d)
  BY <1>1 DEF Rebuilding
<1>4. NoMentionOfTheGone'
  BY DEF Inv, NoMentionOfTheGone, Stored
<1>5. Match'
  <2> SUFFICES ASSUME NEW d \in Comments, Stored(d)', d \notin stale',
                      \A q \in Reqs : ~Rebuilding(q, d)', NEW u \in Users
               PROVE  (<<d, u>> \in mention <=>
                         u \in extractUsernames(comment[d].content) \cap user)'
    BY DEF Match
  <2>1. d # c
    BY <1>3
  <2> QED BY <2>1, <1>3 DEF Inv, Match, Stored
<1>6. RebuildsAreOnCourse'
  <2> SUFFICES ASSUME NEW d \in Comments, Stored(d)', d \notin stale', NEW q \in Reqs,
                      Rebuilding(q, d)'
               PROVE  OnCourse(q, d)'
    BY DEF RebuildsAreOnCourse
  <2>1. OnCourse(q, d) /\ Rebuilding(q, d)
    BY <1>3 DEF Inv, RebuildsAreOnCourse, Stored
  <2>2. CASE d = c
    <3>1. q = r
      BY <2>1, <2>2 DEF OnCourse
    <3> QED BY <3>1, <2>1, <2>2, <1>1, <1>3 DEF OnCourse, Names, Stored
  <2>3. CASE d # c
    <3>1. q # r /\ req'[q] = req[q]
      BY <2>1, <2>3, <1>1 DEF Rebuilding
    <3> QED BY <3>1, <2>1, <2>3, <1>3 DEF OnCourse, Names
  <2> QED BY <2>2, <2>3
<1> QED BY <1>2, <1>4, <1>5, <1>6 DEF Inv

----------------------------------------------------------------------------
(* The actions.                                                             *)
LEMMA PostInv ==
    ASSUME Inv, NEW r \in Reqs, NEW c \in Comments, Post(r, c)
    PROVE  Inv'
<1>1. PICK author \in user, content \in Contents :
        /\ comment' = [comment EXCEPT ![c] = [life |-> "stored", author |-> author,
                                              content |-> content]]
        /\ StartRebuild(r, c, content)
  BY DEF Post
<1> DEFINE new == [life |-> "stored", author |-> author, content |-> content]
<1>2. new \in Comment /\ new.content = content /\ new.life = "stored"
  BY DEF Comment, Inv, TypeOK
<1>3. lock' \in [Comments -> Reqs \cup {Free}] /\ UNCHANGED <<user, mention>> /\ req[r].pc = "idle"
  BY DEF Post, Inv, TypeOK
<1> HIDE DEF new
<1>4. comment' = [comment EXCEPT ![c] = new] /\ StartRebuild(r, c, new.content)
  BY <1>1, <1>2 DEF new
<1> QED BY <1>2, <1>3, <1>4, RebuildBegins

LEMMA PatchCommitInv ==
    ASSUME Inv, NEW r \in Reqs, PatchCommit(r)
    PROVE  Inv'
<1> DEFINE c == req[r].c
           new == [comment[c] EXCEPT !.content = req[r].content]
<1>1. c \in Comments /\ req[r] \in Handler /\ comment[c] \in Comment
  BY DEF PatchCommit, Inv, TypeOK
<1>2. new \in Comment /\ new.content = req[r].content /\ new.life = comment[c].life
  BY <1>1 DEF Comment, Handler
<1>3. lock' \in [Comments -> Reqs \cup {Free}] /\ UNCHANGED <<user, mention>> /\ req[r].pc = "locked"
  BY <1>1 DEF PatchCommit, Inv, TypeOK
<1>4. comment' = [comment EXCEPT ![c] = new] /\ StartRebuild(r, c, new.content)
  BY <1>1, <1>2 DEF PatchCommit, Inv, TypeOK
<1> HIDE DEF c, new
<1> QED BY <1>1, <1>2, <1>3, <1>4, RebuildBegins

LEMMA PatchLockInv ==
    ASSUME Inv, NEW r \in Reqs, NEW c \in Comments, PatchLock(r, c)
    PROVE  Inv'
<1>1. PICK content \in Contents :
        req' = [req EXCEPT ![r] = [Idle EXCEPT !.pc = "locked", !.c = c, !.content = content]]
  BY DEF PatchLock, Step
<1> DEFINE new == [Idle EXCEPT !.pc = "locked", !.c = c, !.content = content]
<1>2. new \in Handler /\ new.pc = "locked" /\ new.c = c
  BY IdleTypes DEF Idle
<1>3. lock' \in [Comments -> Reqs \cup {Free}]
  BY DEF PatchLock, Inv, TypeOK
<1> QED BY <1>1, <1>2, <1>3, BystanderMoves DEF PatchLock

LEMMA DeleteFindInv ==
    ASSUME Inv, NEW r \in Reqs, NEW c \in Comments, DeleteFind(r, c)
    PROVE  Inv'
<1> DEFINE new == [Idle EXCEPT !.pc = "found", !.c = c]
<1>1. new \in Handler /\ new.pc = "found" /\ new.c = c
  BY IdleTypes DEF Idle, Contents
<1>2. lock' \in [Comments -> Reqs \cup {Free}]
  BY DEF DeleteFind, Inv, TypeOK
<1> QED BY <1>1, <1>2, BystanderMoves DEF DeleteFind, Step

LEMMA ClearInv ==
    ASSUME Inv, NEW r \in Reqs, Clear(r)
    PROVE  Inv'
<1> DEFINE c == req[r].c
           new == [req[r] EXCEPT !.pc = "names"]
<1>1. c \in Comments /\ req[r] \in Handler /\ Rebuilding(r, c)
  BY DEF Clear, Inv, TypeOK, Rebuilding
<1>2. new \in Handler /\ new.c = c /\ new.pc = "names" /\ new.todo = req[r].todo
  BY <1>1 DEF Handler
<1>3. /\ mention' \subseteq mention
      /\ \A d \in Comments, u \in Users : <<d, u>> \in mention' <=>
                                            <<d, u>> \in mention /\ d # c
  BY DEF Clear, Cleared, MentionsOf, Inv, TypeOK
<1>4. Stored(c) /\ c \notin stale => new.todo = extractUsernames(comment[c].content)
  BY <1>1, <1>2 DEF Clear, Inv, RebuildsAreOnCourse, OnCourse
<1>5. req' = [req EXCEPT ![r] = new] /\ UNCHANGED <<user, comment, lock, stale>>
  BY DEF Clear, Step
<1>6. mention' \subseteq Comments \X Users
  BY <1>3 DEF Inv, TypeOK
<1> HIDE DEF c, new
<1> QED BY <1>1, <1>2, <1>3, <1>4, <1>5, <1>6, RebuildGoesOn

LEMMA LookUpInv ==
    ASSUME Inv, NEW r \in Reqs, NEW u \in Users, LookUp(r, u)
    PROVE  Inv'
<1> DEFINE c == req[r].c
           new == LookedUp(req[r], u)
<1>1. c \in Comments /\ req[r] \in Handler /\ Rebuilding(r, c)
  BY DEF LookUp, Inv, TypeOK, Rebuilding
<1>2. /\ new \in Handler /\ new.c = c /\ new.pc \in {"names", "save"}
      /\ new.pc = "save" => new.u \in new.todo
      /\ new.todo \subseteq req[r].todo
      /\ \A v \in req[r].todo \cap user : v \in new.todo
  <2>0. req[r].pc = "names" /\ u \in req[r].todo
    BY DEF LookUp
  <2>1. CASE u \in user
    <3>1. new = [req[r] EXCEPT !.pc = "save", !.u = u]
      BY <2>1 DEF LookedUp
    <3>2. new \in Handler
      BY <3>1, <1>1, RebuildTypes
    <3> QED BY <3>1, <3>2, <1>1, <2>0 DEF Handler
  <2>2. CASE u \notin user
    <3>1. new = [req[r] EXCEPT !.todo = @ \ {u}]
      BY <2>2 DEF LookedUp
    <3>2. new \in Handler
      BY <3>1, <1>1, RebuildTypes
    <3> QED BY <3>1, <3>2, <2>2, <1>1, <2>0 DEF Handler
  <2> QED BY <2>1, <2>2
<1>3. Stored(c) /\ c \notin stale =>
        /\ req[r].todo \subseteq extractUsernames(comment[c].content)
        /\ \A v \in Users :
             <<c, v>> \in mention <=>
                   v \in (extractUsernames(comment[c].content) \ req[r].todo) \cap user
  BY <1>1 DEF LookUp, Inv, RebuildsAreOnCourse, OnCourse, Names
<1>4. req' = [req EXCEPT ![r] = new] /\ UNCHANGED <<user, comment, mention, lock, stale>>
  BY DEF LookUp, Step
<1>5. mention' \subseteq Comments \X Users
  BY <1>4 DEF Inv, TypeOK
<1> HIDE DEF c, new
<1> QED BY <1>1, <1>2, <1>3, <1>4, <1>5, RebuildGoesOn

LEMMA SaveMentionInv ==
    ASSUME Inv, NEW r \in Reqs, SaveMention(r)
    PROVE  Inv'
<1> DEFINE c == req[r].c
           u == req[r].u
           new == [req[r] EXCEPT !.pc = "names", !.todo = @ \ {u}, !.u = NoUser]
<1>1. c \in Comments /\ req[r] \in Handler /\ Rebuilding(r, c) /\ u \in req[r].todo
  BY DEF SaveMention, Inv, TypeOK, Rebuilding
<1>2. Stored(c) /\ u \in user /\ u \in Users
  BY DEF SaveMention, Insertable, Inv, TypeOK
<1>3. new \in Handler /\ new.c = c /\ new.pc = "names" /\ new.todo = req[r].todo \ {u}
  BY <1>1, <1>2, RebuildTypes DEF Handler
<1>4. c \notin stale =>
        /\ req[r].todo \subseteq extractUsernames(comment[c].content)
        /\ \A v \in Users :
             <<c, v>> \in mention <=>
                   v \in (extractUsernames(comment[c].content) \ req[r].todo) \cap user
  BY <1>1, <1>2 DEF SaveMention, Inv, RebuildsAreOnCourse, OnCourse, Names
<1>5. /\ req' = [req EXCEPT ![r] = new]
      /\ UNCHANGED <<user, comment, lock, stale>>
      /\ mention' = mention \cup {<<c, u>>}
  BY DEF SaveMention, Step
<1>6. /\ mention' \subseteq Comments \X Users
      /\ \A m \in mention' : m \in mention \/ (m[1] = c /\ m[2] = u)
      /\ \A d \in Comments, v \in Users :
           <<d, v>> \in mention' <=> <<d, v>> \in mention \/ (d = c /\ v = u)
  BY <1>1, <1>2, <1>5 DEF Inv, TypeOK
<1> HIDE DEF c, u, new
<1>7. c \notin stale =>
        /\ new.todo \subseteq extractUsernames(comment[c].content)
        /\ \A v \in Users :
             <<c, v>> \in mention' <=>
                   v \in (extractUsernames(comment[c].content) \ new.todo) \cap user
  BY <1>1, <1>2, <1>3, <1>4, <1>6
<1> QED BY <1>1, <1>2, <1>3, <1>5, <1>6, <1>7, RebuildGoesOn

(* The handler of a rebuild stops, at its end or because it failed.         *)
LEMMA RebuildEnds ==
    ASSUME Inv, NEW r \in Reqs,
           req' = [req EXCEPT ![r] = Idle],
           UNCHANGED <<user, comment, mention>>,
           lock' \in [Comments -> Reqs \cup {Free}],
           stale' \subseteq Comments, stale \subseteq stale',
           \A c \in Comments : Rebuilding(r, c) /\ Stored(c) /\ c \notin stale' =>
               \A u \in Users : <<c, u>> \in mention <=>
                                  u \in extractUsernames(comment[c].content) \cap user
    PROVE  Inv'
<1>1. Idle \in Handler /\ Idle.pc = "idle"
  BY DEF Idle, Handler, Contents
<1>2. req' \in [Reqs -> Handler] /\ \A q \in Reqs : req'[q] = IF q = r THEN Idle ELSE req[q]
  BY <1>1 DEF Inv, TypeOK
<1>3. TypeOK'
  BY <1>1, <1>2 DEF Inv, TypeOK
<1>4. NoMentionOfTheGone'
  BY DEF Inv, NoMentionOfTheGone, Stored
<1>5. \A q \in Reqs, c \in Comments : Rebuilding(q, c)' <=> Rebuilding(q, c) /\ q # r
  BY <1>1, <1>2 DEF Rebuilding
<1>6. Match'
  <2> SUFFICES ASSUME NEW c \in Comments, Stored(c)', c \notin stale',
                      \A q \in Reqs : ~Rebuilding(q, c)', NEW u \in Users
               PROVE  <<c, u>> \in mention <=>
                        u \in extractUsernames(comment[c].content) \cap user
    BY DEF Match
  <2>1. CASE Rebuilding(r, c)
    BY <2>1 DEF Stored
  <2>2. CASE ~Rebuilding(r, c)
    BY <2>2, <1>5 DEF Inv, Match, Stored
  <2> QED BY <2>1, <2>2
<1>7. RebuildsAreOnCourse'
  <2> SUFFICES ASSUME NEW c \in Comments, Stored(c)', c \notin stale', NEW q \in Reqs,
                      Rebuilding(q, c)'
               PROVE  OnCourse(q, c)'
    BY DEF RebuildsAreOnCourse
  <2>1. OnCourse(q, c) /\ req'[q] = req[q]
    BY <1>2, <1>5 DEF Inv, RebuildsAreOnCourse, Stored
  <2> QED BY <2>1, <1>5 DEF OnCourse, Names
<1> QED BY <1>3, <1>4, <1>6, <1>7 DEF Inv

LEMMA AnswerInv ==
    ASSUME Inv, NEW r \in Reqs, Answer(r)
    PROVE  Inv'
<1>1. \A c \in Comments : Rebuilding(r, c) /\ Stored(c) /\ c \notin stale' =>
        \A u \in Users : <<c, u>> \in mention <=>
                           u \in extractUsernames(comment[c].content) \cap user
  BY DEF Answer, Inv, RebuildsAreOnCourse, OnCourse, Names
<1>2. stale' \subseteq Comments /\ lock' \in [Comments -> Reqs \cup {Free}]
  BY DEF Answer, Inv, TypeOK
<1> QED BY <1>1, <1>2, RebuildEnds DEF Answer, Step

LEMMA GiveUpInv ==
    ASSUME Inv, NEW r \in Reqs, GiveUp(r)
    PROVE  Inv'
<1>1. \A c \in Comments : Rebuilding(r, c) => c \in stale'
  BY DEF GiveUp
<1>2. /\ stale' \subseteq Comments /\ stale \subseteq stale'
      /\ lock' \in [Comments -> Reqs \cup {Free}]
  BY DEF GiveUp, Inv, TypeOK
<1> QED BY <1>1, <1>2, RebuildEnds DEF GiveUp, Step

(* Comments, users and what refers to them go.                              *)
LEMMA RowsGo ==
    ASSUME Inv, TypeOK', stale' = stale,
           \A c \in Comments : Stored(c)' => comment'[c] = comment[c],
           \A c \in Comments, u \in Users :
               <<c, u>> \in mention' <=> <<c, u>> \in mention /\ Stored(c)' /\ u \in user',
           user' \subseteq user,
           \A q \in Reqs, c \in Comments : Rebuilding(q, c)' <=> Rebuilding(q, c),
           \A q \in Reqs, c \in Comments : Rebuilding(q, c) => req'[q] = req[q]
    PROVE  Inv'
<1>1. \A c \in Comments : Stored(c)' => Stored(c)
  BY DEF Stored
<1>2. NoMentionOfTheGone'
  BY DEF NoMentionOfTheGone, TypeOK
<1>3. Match'
  <2> SUFFICES ASSUME NEW c \in Comments, Stored(c)', c \notin stale',
                      \A q \in Reqs : ~Rebuilding(q, c)', NEW u \in Users
               PROVE  (<<c, u>> \in mention <=>
                         u \in extractUsernames(comment[c].content) \cap user)'
    BY DEF Match
  <2>1. <<c, u>> \in mention <=> u \in extractUsernames(comment[c].content) \cap user
    BY <1>1 DEF Inv, Match
  <2> QED BY <2>1
<1>4. RebuildsAreOnCourse'
  <2> SUFFICES ASSUME NEW c \in Comments, Stored(c)', c \notin stale', NEW q \in Reqs,
                      Rebuilding(q, c)'
               PROVE  OnCourse(q, c)'
    BY DEF RebuildsAreOnCourse
  <2>1. OnCourse(q, c) /\ req'[q] = req[q] /\ comment'[c] = comment[c]
    BY <1>1 DEF Inv, RebuildsAreOnCourse
  <2> QED BY <2>1 DEF OnCourse, Names
<1> QED BY <1>2, <1>3, <1>4 DEF Inv

LEMMA DeleteWriteInv ==
    ASSUME Inv, NEW r \in Reqs, DeleteWrite(r)
    PROVE  Inv'
<1> DEFINE c == req[r].c
<1>1. Idle \in Handler /\ Idle.pc = "idle" /\ Gone \in Comment /\ Gone.life = "deleted"
  BY DEF Idle, Handler, Contents, Gone, Absent, Comment
<1>2. c \in Comments /\ req[r].pc = "found"
  BY DEF DeleteWrite, Inv, TypeOK
<1>3. \A q \in Reqs : req'[q] = IF q = r THEN Idle ELSE req[q]
  BY DEF DeleteWrite, Step, Inv, TypeOK
<1>4. \A d \in Comments : comment'[d] = IF d = c /\ Stored(c) THEN Gone ELSE comment[d]
  BY DEF DeleteWrite, Inv, TypeOK
<1>5. mention' = mention \ MentionsOf(c)
  BY DEF DeleteWrite
<1>6. TypeOK'
  BY <1>1, <1>2, <1>3, <1>5 DEF DeleteWrite, Step, Inv, TypeOK
<1>7. \A q \in Reqs, d \in Comments :
        /\ Rebuilding(q, d)' <=> Rebuilding(q, d)
        /\ Rebuilding(q, d) => req'[q] = req[q]
  BY <1>1, <1>2, <1>3 DEF Rebuilding
<1>8. \A d \in Comments : /\ Stored(d)' <=> Stored(d) /\ d # c
                          /\ Stored(d)' => comment'[d] = comment[d]
  BY <1>1, <1>4 DEF Stored
<1>9. user' = user /\ stale' = stale
  BY DEF DeleteWrite
<1>10. \A d \in Comments, u \in Users :
         <<d, u>> \in mention' <=> <<d, u>> \in mention /\ Stored(d)' /\ u \in user'
  BY <1>5, <1>8, <1>9 DEF MentionsOf, Inv, NoMentionOfTheGone
<1> HIDE DEF c
<1> QED BY <1>6, <1>7, <1>8, <1>9, <1>10, RowsGo

LEMMA DeleteUserInv ==
    ASSUME Inv, NEW u \in Users, DeleteUser(u)
    PROVE  Inv'
<1>1. Gone \in Comment /\ Gone.life = "deleted"
  BY DEF Contents, Gone, Absent, Comment
<1>2. TypeOK'
  BY <1>1 DEF DeleteUser, Inv, TypeOK
<1>3. \A q \in Reqs, d \in Comments : Rebuilding(q, d)' <=> Rebuilding(q, d)
  BY DEF DeleteUser, Rebuilding
<1>4. \A d \in Comments : /\ Stored(d)' <=> Stored(d) /\ d \notin Authored(u)
                          /\ Stored(d)' => comment'[d] = comment[d]
  BY <1>1 DEF DeleteUser, Stored
<1>5. user' = user \ {u} /\ req' = req /\ stale' = stale
  BY DEF DeleteUser
<1>6. \A d \in Comments, v \in Users :
        <<d, v>> \in mention' <=> <<d, v>> \in mention /\ Stored(d)' /\ v \in user'
  BY <1>4, <1>5 DEF DeleteUser, Inv, NoMentionOfTheGone
<1> QED BY <1>2, <1>3, <1>4, <1>5, <1>6, RowsGo

LEMMA SignUpInv ==
    ASSUME Inv, NEW u \in Users, SignUp(u)
    PROVE  Inv'
<1>1. TypeOK' /\ NoMentionOfTheGone'
  BY DEF SignUp, Inv, TypeOK, NoMentionOfTheGone, Stored
<1>2. \A c \in Comments : c \notin stale' =>
        c \notin stale /\ u \notin extractUsernames(comment[c].content)
  BY DEF SignUp
<1>3. \A q \in Reqs, c \in Comments : Rebuilding(q, c)' <=> Rebuilding(q, c)
  BY DEF SignUp, Rebuilding
<1>4. UNCHANGED <<comment, mention, req>> /\ user' = user \cup {u}
  BY DEF SignUp
<1>5. Match'
  BY <1>2, <1>3, <1>4 DEF Inv, Match, Stored
<1>6. RebuildsAreOnCourse'
  <2> SUFFICES ASSUME NEW c \in Comments, Stored(c)', c \notin stale', NEW q \in Reqs,
                      Rebuilding(q, c)'
               PROVE  OnCourse(q, c)'
    BY DEF RebuildsAreOnCourse
  <2>1. OnCourse(q, c) /\ u \notin extractUsernames(comment[c].content)
    BY <1>2, <1>3, <1>4 DEF Inv, RebuildsAreOnCourse, Stored
  <2> QED BY <2>1, <1>3, <1>4 DEF OnCourse, Names
<1> QED BY <1>1, <1>5, <1>6 DEF Inv

LEMMA StepInv == Inv /\ [Next]_vars => Inv'
<1> SUFFICES ASSUME Inv, [Next]_vars PROVE Inv'
  OBVIOUS
<1>1. ASSUME NEW r \in Reqs, HandlerStep(r) PROVE Inv'
  BY <1>1, PostInv, PatchLockInv, PatchCommitInv, DeleteFindInv, ClearInv, LookUpInv,
     SaveMentionInv, AnswerInv, GiveUpInv, DeleteWriteInv DEF HandlerStep
<1>2. ASSUME UNCHANGED vars PROVE Inv'
  BY <1>2 DEF vars, Inv, TypeOK, NoMentionOfTheGone, Match,
              RebuildsAreOnCourse, OnCourse, Names, Stored, Rebuilding
<1> QED BY <1>1, <1>2, DeleteUserInv, SignUpInv DEF Next

----------------------------------------------------------------------------
(* The rows and the handlers keep their types.                              *)
THEOREM Typing == Spec => []TypeOK
<1>1. Inv => TypeOK
  BY DEF Inv
<1> QED BY <1>1, InitInv, StepInv, PTL DEF Spec

(* Mentions of users and comments that are gone never come about, for all   *)
(* that PATCH, DELETE and the deletion of users go on during a rebuild.     *)
THEOREM MentionsRefer == Spec => []NoMentionOfTheGone
<1>1. Inv => NoMentionOfTheGone
  BY DEF Inv
<1> QED BY <1>1, InitInv, StepInv, PTL DEF Spec

(* BR-15, with the exceptions that stale names: a comment mentions the users*)
(* whose names are the words of its content that follow an @.               *)
THEOREM MentionsAreThoseOfTheContent == Spec => []MentionsMatchContent
<1>1. Inv => MentionsMatchContent
  <2>1. \A c \in Comments, u \in Users :
          u \in extractUsernames(comment[c].content) <=>
            \E n \in comment[c].content : u \in Extracted[n]
    BY DEF extractUsernames
  <2> QED BY <2>1 DEF Inv, Match, MentionsMatchContent
<1> QED BY <1>1, InitInv, StepInv, PTL DEF Spec
=============================================================================
