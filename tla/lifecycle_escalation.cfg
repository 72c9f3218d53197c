SPECIFICATION FairLadderSpec
CONSTANTS
  NoDue = NoDue
  Keep = Keep
  MaxTime = 1
  Tickets = {t1}
  Reqs = {r1}
  Jobs = {j1, j2}
  Free = Free
  NoTicket = NoTicket
  NoRow = NoRow
  NewRows <- Climber
  Edits <- PriorityEdit
  Fallible = {j1, j2}
PROPERTIES FlagStaysAtTop ClimbsOneRung OverdueIsFlagged
