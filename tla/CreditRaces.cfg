SPECIFICATION Spec
CONSTANTS
  u1 = u1  h1 = h1  h2 = h2  k1 = k1  d1 = d1  p1 = p1  p2 = p2
  None = None
  User = {u1}  Hotel = {h1, h2}  Pack = {k1}  Pay = {1}  Draft = {d1}  Proc = {p1, p2}
  Payer <- MCPayer  Annual = {u1}  Disputed = {k1}
  Operations = {"unlock", "draft", "pay", "refund", "chargeback", "save", "delete", "refresh",
                "admin_grant", "report", "review", "die"}
  Weekly = 1  PlanAmount = 1  PackSize = 1  UnlockCost = 1  DraftCost = 1
  ChargeOnMiss = FALSE  WeekLength = 4  MonthLength = 3  YearLength = 6
  FreeSaved = 1  MaxTime = 4  MaxReports = 1  Known = {h1}
SYMMETRY Swaps
CONSTRAINT Short
INVARIANTS NothingTwice PaidForAddress
PROPERTIES DebitSaves
CHECK_DEADLOCK FALSE
