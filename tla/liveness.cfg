SPECIFICATION Spec
CONSTANTS
  Requests = {o1}
  Quotes = {q1, q2}
  Refs = {c1, c2}
  OpsUsers = {u1}
  Workers = {w1, w2}
  None = None
  Demo = Demo
  Production = TRUE
  PaystackConfigured = TRUE
  Handlers = {"catalogOrder", "initialize", "complete", "updateStatus", "submitQuotes", "cancel"}
  OpsTargets = {"procured"}
PROPERTIES HandlersEnd
