--------------------------- MODULE MCUpstreamPool ---------------------------
(* The requests of the admin UI are interchangeable.                        *)
EXTENDS UpstreamPool, TLC

Symmetry == Permutations(Handlers)
=============================================================================
