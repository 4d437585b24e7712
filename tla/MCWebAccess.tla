---------------------------- MODULE MCWebAccess ----------------------------
(* Requests and the ids of sessions are interchangeable.                    *)
EXTENDS WebAccess, TLC

Symmetry == Permutations(Requests) \cup Permutations(SessionIds) \cup Permutations(Names)
=============================================================================
