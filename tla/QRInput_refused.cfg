CONSTANT
  Jobs <- MCLongJobs
SPECIFICATION Spec
CHECK_DEADLOCK FALSE
INVARIANT FitsIsNotRefused
