SPECIFICATION FairSpec
CONSTANTS
  Tokens = {k1, k2}
  Users = {u1}
  Reqs = {r1, r2}
  NoToken = NoToken
  NoUser = NoUser
  TicksPerSecond = 2
  Lifetime = 1
  MaxTime = 5
INVARIANTS TypeOK DenyListCoversUsable
PROPERTIES SignedOutIsRefused DenyListIsEmptied
