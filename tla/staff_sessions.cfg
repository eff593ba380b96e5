SPECIFICATION Spec
CONSTANTS
  Accounts = {agent}
  Ops = {agent}
  Tokens = {t1, t2, t3}
  Workers = {w1, w2}
  None = None
  FailMax = 2
  HasRedis = FALSE
  MayDie = {"login", "wrong", "expire", "clear", "forget", "issue", "rotate", "recheck", "revoke", "setup", "setupRead", "reset"}
  MaxVersion = 2
SYMMETRY Symmetry
INVARIANTS TypeOK PasswordChangeEndsSessions
PROPERTIES OnlySignInOpensSessions KeepsContract
