SPECIFICATION Spec
CONSTANTS
  Mails = {m1, m2, m3}
  Drains = {d1, d2}
  NoMail = NoMail
  Uploaders = {u1, u2}
  RequestCap = 1
  OpsCap = 2
  MaxStored = 5
  Callers = {c1, c2}
  Configs <- SampleConfigs
  Wares <- SampleWares
  Nothing = Nothing
  Staff = {s1, s2}
  NewRoles = {"buyer"}
  Grants <- SampleGrants
  Passwords = {p1, p2}
  Desk = {h1, h2}
  None = None
  MaxCalls = 3
INVARIANTS TypeOK QuotaBounded DearerWaresCostMore InvitationsFit
PROPERTIES KeepsDelivery DisablingLeavesSomebody SettingsSurvive
CHECK_DEADLOCK FALSE
