\* Two senders, one TTL thread, brokers that go and come back.
CONSTANTS
  Senders = {capture, metadata}
  TtlThreads = {ttl}
  Handles = {c1, c2, c3}
  First = c1
  Null = Null
  Nobody = Nobody
  RETRY_NBR = 2
  MaxChanges = 2
  MaxReloads = 1
SPECIFICATION FairSpec
\* A thread that uses a null connection ends the process.
CHECK_DEADLOCK FALSE
INVARIANTS TypeOK LocksApart CurrentNotDestroyed NoConnectionLost
PROPERTIES SendLockReleased SearchEnds
