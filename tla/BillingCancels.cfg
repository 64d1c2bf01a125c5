SPECIFICATION LiveSpec
CONSTANTS
  u1 = u1  o1 = o1  o2 = o2  a1 = a1  k1 = k1  c1 = c1  c2 = c2  w1 = w1  w2 = w2
  None = None
  User = {u1}  Order = {o1, k1}  Packs = {k1}  Annual = {o1}  Pay = {1}
  Owner <- OneOwner
  Handler = {w1, w2}  Canceller = {c1, c2}  Job = {c2}
  Events = {"refunded", "chargeback", "updated", "delete", "drop"}
  MonthLength = 1  YearLength = 3  BatchSize = 1  Grace = 1
  MaxTime = 1  MaxLogs = 2
INVARIANTS OneAnswer
CHECK_DEADLOCK FALSE
PROPERTIES CancelStaysPending CancelDone
