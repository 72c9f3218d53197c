---------------------------- MODULE TicketLadder ----------------------------
(* What is left of the escalation ladder (BR-04) when the code is taken as  *)
(* it is: PATCHes set priorities, cron starts a run beside the last one, and*)
(* the rows a run holds are not locked.  The rung of a ticket is its        *)
(* priority together with the overdue flag.                                 *)
(*                                                                          *)
(* crossed is a history variable, read by no step of the program: the       *)
(* tickets whose rung another writer has changed since the run's query.     *)
(* Nothing is excluded from the behaviours; a property that does not hold of*)
(* a crossed ticket says so.                                                *)
EXTENDS TicketLifecycle

VARIABLE crossed

ladderVars == <<vars, crossed>>

SameRung(x, y) == x.priority = y.priority /\ x.isOverdue = y.isOverdue

(* A step of the run itself crosses nothing; a new run starts afresh.       *)
CrossedBy(j) ==
    IF job'[j].pc \in {"idle", "started"} THEN {}
    ELSE IF job'[j] # job[j] THEN crossed[j]
    ELSE crossed[j] \cup {t \in Tickets : ~SameRung(row[t], row'[t])}

LadderInit == Init /\ crossed = [j \in Jobs |-> {}]

LadderNext == Next /\ crossed' = [j \in Jobs |-> CrossedBy(j)]

LadderSpec == LadderInit /\ [][LadderNext]_ladderVars

FairLadderSpec == LadderSpec /\ Fairness

----------------------------------------------------------------------------
Saves(j, t) == job[j].pc = "loaded" /\ job'[j].pc = "saved" /\ job[j].t = t

PriorityIsSet(t) == ~SameRung(row[t], row'[t]) /\ \A j \in Jobs : ~Saves(j, t)

AtTop(x) == x.isOverdue => x.priority = "CRITICAL"

(* The flag stands only at the top of the ladder, and of all writers just   *)
(* one can part the two: the UPDATE of a save whose ticket changed its rung *)
(* after the save had read the row to see which columns differ.             *)
FlagParted(t) == AtTop(row[t]) /\ ~AtTop(row'[t])

OnlyTornSavesPart ==
    \A t \in Tickets : FlagParted(t) =>
        \E j \in Jobs : Saves(j, t) /\ ~SameRung(job[j].base, row[t])

FlagStaysAtTop == [][OnlyTornSavesPart]_ladderVars

(* A run takes each ticket it saves exactly one rung up, or flags it at the *)
(* top, unless another run or a PATCH changed the ticket's rung since the   *)
(* run's query; and only a PATCH, whose priority clears the flag under the  *)
(* row lock, changes a rung otherwise.                                      *)
OneRungUp(old, new) ==
    IF old.priority = "CRITICAL"
    THEN new.priority = "CRITICAL" /\ new.isOverdue
    ELSE /\ PriorityLadder[new.priority] = PriorityLadder[old.priority] + 1
         /\ ~new.isOverdue

UncrossedSavesClimb ==
    \A t \in Tickets, j \in Jobs :
        Saves(j, t) /\ t \notin crossed[j] => OneRungUp(row[t], row'[t])

OthersReset ==
    \A t \in Tickets :
        row[t].life # "absent" /\ PriorityIsSet(t) => lock[t] # Free /\ ~row'[t].isOverdue

ClimbsOneRung == [][UncrossedSavesClimb /\ OthersReset]_ladderVars

(* Every active, overdue ticket that is not DONE is flagged in the end, or  *)
(* stops being one, although handlers keep taking its lock and runs fail    *)
(* half way through or overlap, unless they do so, or PATCHes set its       *)
(* priority, for ever.                                                      *)
RunFails(j) ==
    /\ job[j].pc # "idle" /\ job'[j].pc = "idle"
    /\ job[j].pc # "loop" \/ job[j].batch # EmptyBatch

OneRunAtATime == \A i, j \in Jobs : i = j \/ job[i].pc = "idle" \/ job[j].pc = "idle"

Quiet ==
    /\ OneRunAtATime
    /\ \A j \in Jobs : ~RunFails(j)
    /\ \A t \in Tickets : ~PriorityIsSet(t)

OverdueIsFlagged ==
    <>[][Quiet]_vars =>
        \A t \in Tickets :
            (Overdue(row[t], clock) /\ clock = MaxTime) ~>
            (~Overdue(row[t], clock) \/ ShownOverdue(row[t]))
============================================================================
