SPECIFICATION FairPoolSpec
CONSTANTS
  Writers = {w1, w2}
  Waiters = {u1}
  Readers = {}
  Tickets = {t1}
  Free = Free
  NoTicket = NoTicket
  PoolSize = 2
  Inner <- Once
  FailedBegins = 0
PROPERTIES OverlapIsAnswered
CHECK_DEADLOCK FALSE
