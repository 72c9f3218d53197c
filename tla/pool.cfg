SPECIFICATION FairPoolSpec
CONSTANTS
  Writers = {w1, w2}
  Waiters = {u1}
  Readers = {c1}
  Tickets = {t1, t2}
  Free = Free
  NoTicket = NoTicket
  PoolSize = 5
  Inner <- Once
  FailedBegins = 1
INVARIANTS PoolTypeOK PoolIsAccountedFor SomeoneCanGoOn
PROPERTIES EveryCallReturns
