SPECIFICATION Spec
CONSTANTS
  Requests = {o1}
  Quotes = {q1, q2}
  Refs = {c1, c2}
  OpsUsers = {u1}
  Workers = {w1}
  None = None
  Demo = Demo
  Production = TRUE
  PaystackConfigured = TRUE
  Handlers = {"catalogOrder", "initialize", "complete", "updateStatus"}
  OpsTargets = {"submitted", "procured"}
SYMMETRY Symmetry
PROPERTIES OpsOnlyAdvance
