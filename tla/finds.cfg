SPECIFICATION Spec
CONSTANTS
  Products = {p1, p2}
  Finds = {f1}
  Quotes = {q1, q2}
  Workers = {w1, w2}
  None = None
  Targets = {"published", "archived"}
  Edited = {p1}
INVARIANTS TypeOK StaleOnlyByRace ReviewedFirst SentFindsNameTheirOwn
PROPERTIES DecisionStands StaleListEnds
