SPECIFICATION Spec
CONSTANTS
  NoDue = NoDue
  Keep = Keep
  MaxTime = 1
  Tickets = {t1}
  Reqs = {r1}
  Jobs = {j1}
  Free = Free
  NoTicket = NoTicket
  NoRow = NoRow
  NewRows <- MCNewRows
  Edits <- StatusEdits
  Fallible = {r1, j1}
PROPERTIES StatusNeverMovesBack
