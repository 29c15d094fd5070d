------------------------- MODULE MCRequestClaims -------------------------
(* Instances of RequestClaims: the requests of one buildset, with one open *)
(* request and two masters, or two open requests and one master.           *)
EXTENDS RequestClaims

CONSTANTS m1, m2, r1, r2, b1

AllOfOne == [r \in Request |-> b1]
OneRequestOrOneMaster ==
  {[up |-> {m1, m2}, open |-> {r1}], [up |-> {m1}, open |-> {r1, r2}]}
TwoMasters == {[up |-> {m1, m2}, open |-> {r1}]}
=============================================================================
