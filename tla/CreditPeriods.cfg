SPECIFICATION Spec
CONSTANTS
  u1 = u1  h1 = h1  h2 = h2  k1 = k1  d1 = d1  p1 = p1  p2 = p2
  None = None
  User = {u1}  Hotel = {h1}  Pack = {k1}  Pay = {1, 2}  Draft = {d1}  Proc = {p1}
  Payer <- MCPayer  Annual = {}  Disputed = {1}
  Operations = {"unlock", "draft", "pay", "refund", "chargeback"}
  Weekly = 1  PlanAmount = 2  PackSize = 1  UnlockCost = 2  DraftCost = 1
  ChargeOnMiss = FALSE  WeekLength = 2  MonthLength = 2  YearLength = 3
  FreeSaved = 2  MaxTime = 5  MaxReports = 0  Known = {h1}
INVARIANTS TypeOK ReversalsFit
PROPERTIES KeepsWallet
CHECK_DEADLOCK FALSE
