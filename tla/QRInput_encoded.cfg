CONSTANT
  Jobs <- MCJobs
SPECIFICATION Spec
CHECK_DEADLOCK FALSE
INVARIANT MessageSurvives
INVARIANT StreamFillsSymbol
INVARIANT VersionIsLeast
INVARIANT PartsAgree
INVARIANT StringIsAccepted
INVARIANT CutPays
