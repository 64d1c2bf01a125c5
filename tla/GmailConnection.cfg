\* Two flows, a Disconnect and a caller on a mailbox that a third flow connected.
CONSTANTS
  f0 = f0
  f1 = f1
  f2 = f2
  d1 = d1
  c1 = c1
  None = None
  Flow = {f0, f1, f2}
  Stop = {d1}
  Caller = {c1}
  First = f0
  FirstScopes = "read"
  Purposes = {"connect", "reconnect", "grant_send"}
  MaxTurn = 1
  Deletable = TRUE
SPECIFICATION ConnSpec
INVARIANTS TypeOK DisconnectStands ConsentCovers RevokedUnlessLost
PROPERTIES HonouredStays
CHECK_DEADLOCK FALSE
SYMMETRY Symmetric
