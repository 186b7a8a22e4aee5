SPECIFICATION FairSpec
CONSTANTS
  root = root  u1 = u1  c1 = c1  c2 = c2
  Users = {root, u1}
  Root = root
  Members = {u1}
  Conns = {c1, c2}
  TTL = 1  Limit = 2  Ban = 2  Window = 1
  MaxTime = 2
  MaxTokens = 1
INVARIANTS BanHolds VerdictsAreTrue
PROPERTY ExpiredForgotten
CHECK_DEADLOCK FALSE
