SPECIFICATION Spec
CONSTANTS
  c1 = c1  c2 = c2  d1 = d1  d2 = d2
  None = None
  Caller = {c1, c2}  Key = {d1}
  Cap = 3  Headroom = 2  Returned = {0, 1, 2}  MaxMonth = 1
  Lossy = TRUE  Killable = TRUE  Slow = TRUE
SYMMETRY Swaps
INVARIANTS TypeOK NeverUndercounts
PROPERTIES StoredAnswerStays LostByFailure
