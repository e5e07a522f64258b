\* The pass clears a slot whose handshake is being completed.
CONSTANTS
  MaxTabSize = 2
  HashSize = 4
  Conns <- TwoConns
  Client <- Clients
  Isn <- Isns
  ServerIsn <- Distinct
  GcThreads = {g1}
  Capture = Capture
  Nobody = Nobody
  NoPacket = NoPacket
  RetentionTime = 1
  SynfloodRetTime = 1
  Halves <- EitherFirst
  MaxTime = 3
  Traffic <- EachOnce
SPECIFICATION Spec
INVARIANT ReportTimesOrdered
