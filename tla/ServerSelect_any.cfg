\* Every kind of answer.
CONSTANTS
  a = a
  b = b
  c = c
  Targets = {a, b, c}
  NoConn = NoConn
  TtlThreads = {t1, t2}
  t1 = t1
  t2 = t2
  Answers <- Every
  Stray <- AnyValue
  MaxChanges = 3
SPECIFICATION FairSpec
\* The draw may leave the list (undefined behaviour) or spin for ever.
CHECK_DEADLOCK FALSE
INVARIANTS TypeOK LowerGroupsFailed ServerOfConnection ShareIsWeight GivesUpWhenAllFailed
PROPERTY Reconnects
