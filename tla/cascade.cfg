SPECIFICATION FairSpec
CONSTANTS
  Tickets = {t1, t2}
  Reqs = {r1, r2}
  Free = Free
  NoTicket = NoTicket
  MayFail = TRUE
INVARIANTS TypeOK CascadeIsConsistent
PROPERTIES OwnDeletionStays EveryCallReturns
