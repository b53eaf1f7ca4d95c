SPECIFICATION Spec
CONSTANTS
  c1 = c1
  c2 = c2
  s1 = s1
  s2 = s2
  n1 = n1
  f1 = f1
  i1 = i1
  p1 = p1
  p2 = p2
  NoRow = NoRow
  Unreadable = Unreadable
  Connection <- MCConnection
  Scope <- MCScope
  Name = {n1}
  Fields = {f1}
  Id = {i1}
  Payload = {p1, p2}
  Calls <- MCCalls
  Files <- MCFiles
INVARIANTS AcknowledgedIsStored NoLockOutlivesItsCall
PROPERTIES ImplementsStoreContract WritesOnlyWholeSchema CallsAnswered
