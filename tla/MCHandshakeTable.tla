-------------------------- MODULE MCHandshakeTable --------------------------
(***************************************************************************)
(* Small instances of HandshakeTable.  Connections are numbered.           *)
(***************************************************************************)
EXTENDS HandshakeTable, TLC

\* Connections of distinct clients or of one client.
TwoConns   == {1, 2}
Clients    == [c \in Conns |-> c]
SameClient == [c \in Conns |-> 7]
Isns       == [c \in Conns |-> 10 + c]
Distinct   == [c \in Conns |-> 20 + c]

\* Every segment once; or those of one connection twice.
EachOnce     == {[p \in Packets |-> 1]}
TwiceOrTwo   == EachOnce \cup {[p \in Packets |-> IF p.conn = 1 THEN 2 ELSE 0]}

\* memset passes the time fields, or the identity fields, first.
TimesFirst  == {Fields \ {"ip_src", "c_syn", "s_syn"}}
EitherFirst == TimesFirst \cup {{"ip_src", "c_syn", "s_syn"}}
=============================================================================
