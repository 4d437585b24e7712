---------------------------- MODULE MCAdminLists ----------------------------
(* Instances of AdminLists for TLC.                                         *)
EXTENDS AdminLists, TLC

\* Handler slots are interchangeable.
HandlerSymmetry == Permutations(Handlers)
=============================================================================
