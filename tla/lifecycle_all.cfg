SPECIFICATION Spec
CONSTANTS
  NoDue = NoDue
  Keep = Keep
  MaxTime = 1
  Tickets = {t1}
  Reqs = {r1, r2}
  Jobs = {j1}
  Free = Free
  NoTicket = NoTicket
  NoRow = NoRow
  NewRows <- MCNewRows
  Edits <- AllEdits
  Fallible = {r1, r2, j1}
SYMMETRY TwoRequests
INVARIANTS TypeOK LockedSnapshotIsCurrent DeletionIsAudited
PROPERTIES LockedRowMovesForward HandlersAreAtomic
