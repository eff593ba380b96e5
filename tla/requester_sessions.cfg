SPECIFICATION Spec
CONSTANTS
  Accounts = {requester}
  Ops = {}
  Tokens = {t1, t2}
  Workers = {w1, w2}
  None = None
  FailMax = 2
  HasRedis = TRUE
  MayDie = {"login", "wrong", "clear", "forget", "issue", "rotate", "recheck", "revoke", "setup", "setupRead", "reset"}
  MaxVersion = 2
INVARIANTS FailuresBounded CountersEnd
PROPERTIES KeepsContract LockEnds
