\* A second group.
CONSTANTS
  a = a
  b = b
  c = c
  Targets = {a, b, c}
  NoConn = NoConn
  TtlThreads = {t1, t2}
  t1 = t1
  t2 = t2
  Answers <- Group2
  Stray <- AnyValue
  MaxChanges = 2
SPECIFICATION Spec
INVARIANT DrawsFromList
