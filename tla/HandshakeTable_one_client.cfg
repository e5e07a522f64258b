\* One client: two connections, or one with every segment twice (two entries for one
\* handshake, late SYN+ACKs); one garbage pass in flight.
CONSTANTS
  MaxTabSize = 2
  HashSize = 4
  Conns <- TwoConns
  Client <- SameClient
  Isn <- Isns
  ServerIsn <- Distinct
  GcThreads = {g1}
  Capture = Capture
  Nobody = Nobody
  NoPacket = NoPacket
  RetentionTime = 1
  SynfloodRetTime = 1
  Halves <- EitherFirst
  MaxTime = 3
  Traffic <- TwiceOrTwo
SPECIFICATION FairSpec
INVARIANTS Accounted TimesOrderedInTime ReportOwnHandshake
PROPERTY ExpiredIsDestroyed
