SPECIFICATION Spec
CONSTANTS
  Accounts = {requester}
  Ops = {}
  Tokens = {t1, t2}
  Workers = {w1, w2}
  None = None
  FailMax = 2
  HasRedis = TRUE
  MayDie = {"login", "wrong", "expire", "clear", "forget", "issue", "rotate", "recheck", "revoke", "setup", "setupRead", "reset"}
  MaxVersion = 1
PROPERTIES LockEnds
CHECK_DEADLOCK FALSE
