\* Two workers, a Disconnect, a reconnect or a widening of the grant, and deletion.
CONSTANTS
  f0 = f0
  f1 = f1
  d1 = d1
  w1 = w1
  w2 = w2
  r1 = r1
  None = None
  Flow = {f0, f1}
  Stop = {d1}
  Caller = {w1, w2}
  First = f0
  FirstScopes = "send"
  Purposes = {"reconnect", "grant_send"}
  MaxTurn = 0
  Deletable = TRUE
  Run = {r1}
  Thread = {"t1"}
  Pages <- EmptyFirst
  MaxAttempts = 2
SPECIFICATION Spec
INVARIANTS ImportTypeOK  CompleteIsTrue
PROPERTIES OvertakenDoesNothing
CHECK_DEADLOCK FALSE
SYMMETRY Symmetric
