\* Two workers on a mailbox with two threads and two messages.
CONSTANTS
  t1 = t1
  t2 = t2
  w1 = w1
  w2 = w2
  None = None
  Thread = {t1, t2}
  Worker = {w1, w2}
  MaxMail = 2
  MaxRev = 1
  MaxRemoved = 1
SPECIFICATION Spec
INVARIANTS TypeOK PassedIsStored PipelineSeesAll
CONSTRAINT OneTrouble
CHECK_DEADLOCK FALSE
SYMMETRY Symmetric
