---------------------------- MODULE MCQueryCache ----------------------------
(* Instances of QueryCache for TLC.                                         *)
EXTENDS QueryCache

TwoBounds == {[min |-> 0, max |-> 1], [min |-> 1, max |-> 2]}
=============================================================================
