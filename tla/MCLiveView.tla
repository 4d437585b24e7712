----------------------------- MODULE MCLiveView -----------------------------
(* Threads are interchangeable, and so are names.                           *)
EXTENDS LiveView, TLC

Symmetry == Permutations(Threads) \cup Permutations(Names)
=============================================================================
