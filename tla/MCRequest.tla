----------------------------- MODULE MCRequest -----------------------------
(* A small instance of Request for TLC.                                      *)
EXTENDS Request

XY           == {"x", "y"}
ZeroOneTwo   == {0, 1, 2}
AllOperators == Binary \cup Unary
AllDomains   == {Interval, <<"x", "y">>, <<"y", "x">>, <<"y">>}
=============================================================================
