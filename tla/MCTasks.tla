------------------------------- MODULE MCTasks -------------------------------
(***************************************************************************)
(* A second of the model stands for three or more: the check of the host   *)
(* name is due every time, metadata and statistics every other time.  The  *)
(* second thread of a check is for one that has come to its message.       *)
(***************************************************************************)
EXTENDS Tasks

MCPeriod  == [hostname |-> 1, stat01 |-> 2, metadata |-> 2]
MCThreads == [hostname |-> 2, stat01 |-> 1, metadata |-> 1]
=============================================================================
