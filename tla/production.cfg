SPECIFICATION Spec
CONSTANTS
  Requests = {o1}
  Quotes = {q1, q2}
  Refs = {c1, c2}
  OpsUsers = {u1}
  Workers = {w1, w2}
  None = None
  Demo = Demo
  Production = TRUE
  PaystackConfigured = TRUE
  Handlers = {"create", "guided", "catalogOrder", "rejectQuote", "approveQuote", "submitQuotes", "cancel", "retryRefund", "updateStatus", "approveFind", "initialize", "complete"}
  OpsTargets = {"submitted", "procured", "cancelled"}
SYMMETRY Symmetry
INVARIANTS TypeOK PaidRowIsCharged FulfilmentIsCharged RefundIsReturned NoticesAreTrue CancelledWasPaid QuotedIsAssigned LockedReadsHold
PROPERTIES PaymentNeedsOpenOrder PaymentAcceptsOne KeepsContract
