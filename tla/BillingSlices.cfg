SPECIFICATION Spec
CONSTANTS
  u1 = u1  o1 = o1  o2 = o2  a1 = a1  k1 = k1  c1 = c1  c2 = c2  w1 = w1  w2 = w2
  None = None
  User = {u1}  Order = {o1}  Packs = {}  Annual = {}  Pay = {1, 2, 3}
  Owner <- OneOwner
  Handler = {w1}  Canceller = {}  Job = {}
  Events = {"renew", "refunded", "chargeback", "subscription", "finish", "reject"}
  MonthLength = 1  YearLength = 2  BatchSize = 1  Grace = 1
  MaxTime = 2  MaxLogs = 4
INVARIANTS TypeOK DaysArePaid
PROPERTIES RefundRevivesNothing
CHECK_DEADLOCK FALSE
