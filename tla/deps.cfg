SPECIFICATION Spec
CONSTANTS
  Tickets = {t1, t2}
  Reqs = {r1, r2}
  Free = Free
  NoTicket = NoTicket
SYMMETRY HandlersAndTickets
INVARIANTS TypeOK 
PROPERTIES DoneHasNoOpenBlocker DeleteDropsNoLiveDependency
