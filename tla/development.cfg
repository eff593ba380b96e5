SPECIFICATION Spec
CONSTANTS
  Requests = {o1}
  Quotes = {q1, q2}
  Refs = {}
  OpsUsers = {u1}
  Workers = {w1, w2}
  None = None
  Demo = Demo
  Production = FALSE
  PaystackConfigured = FALSE
  Handlers = {"create", "guided", "catalogOrder", "rejectQuote", "approveQuote", "payQuote", "submitQuotes", "cancel", "updateStatus", "assign"}
  OpsTargets = {"submitted", "quoted", "approved_paid", "procured", "in_transit_china_warehouse", "in_transit_freight", "arrived_nigeria_warehouse", "delivered", "cancelled"}
SYMMETRY Symmetry
INVARIANTS TimelineGapless
