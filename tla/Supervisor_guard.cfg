\* Three process numbers, two signals to the launcher, one call for the usage.
CONSTANTS
  Pids = {p1, p2, p3}
  Launcher = launcher
  Other = other
  None = None
  MaxSignals = 2
  MaxUsages = 1
SPECIFICATION FairSpec
\* Without launcher and collector nothing happens any more.
CHECK_DEADLOCK FALSE
INVARIANTS TypeOK OnePerSignal FilesNameProcesses
PROPERTIES Replaced
