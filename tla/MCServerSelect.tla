--------------------------- MODULE MCServerSelect ---------------------------
(***************************************************************************)
(* DNS answers for TLC.  Targets are the model values a, b and c.          *)
(***************************************************************************)
EXTENDS ServerSelect, TLC

CONSTANTS a, b, c, t1, t2

Srv(p, w, t) == [priority |-> p, weight |-> w, port |-> 5672, target |-> t]
Records2(r0, r1)     == 0 :> r0 @@ 1 :> r1
Records3(r0, r1, r2) == 0 :> r0 @@ 1 :> r1 @@ 2 :> r2

OneGroup  == {Records3(Srv(1, 1, a), Srv(1, 2, b), Srv(1, 1, c)),
              Records2(Srv(1, 2, a), Srv(1, 1, c))}
TwoGroups == {Records3(Srv(1, 1, a), Srv(2, 1, b), Srv(2, 2, c)),
              Records3(Srv(1, 2, a), Srv(1, 1, b), Srv(2, 3, c))}
\* A second group whose last record has no entry of tab_weight.
NoEntry == {Records2(Srv(1, 1, a), Srv(2, 1, b)),
            Records3(Srv(1, 1, a), Srv(2, 1, b), Srv(2, 1, c))}
\* The third group starts two entries late, and its record has none.
ThreeGroups == {Records3(Srv(1, 1, a), Srv(2, 2, b), Srv(3, 1, c))}
\* A first group, or one server of it, that weighs nothing; a record without port.
ZeroGroup  == {Records2(Srv(1, 0, a), Srv(2, 1, b))}
ZeroServer == {Records2(Srv(1, 0, a), Srv(1, 1, b))}
NoPort     == {Records2([Srv(1, 1, a) EXCEPT !.port = 0], Srv(2, 1, b))}

Positive == OneGroup \cup TwoGroups
Every    == Positive \cup NoEntry \cup ThreeGroups \cup ZeroGroup \cup ZeroServer \cup NoPort
Group2   == {Records2(Srv(1, 1, a), Srv(2, 2, b))}

\* What malloc may have left in the table.
AnyValue == {-1, 0, 1, 2, 7}
=============================================================================
