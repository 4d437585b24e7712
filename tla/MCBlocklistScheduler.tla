------------------------ MODULE MCBlocklistScheduler ------------------------
(***************************************************************************)
(* Instances of BlocklistScheduler for TLC: two lists, a domain that both  *)
(* may name, and a version of each that parses to nothing.                 *)
(***************************************************************************)
EXTENDS BlocklistScheduler, Sequences

CONSTANTS a, b, x, y

\* Both lists may name x; each has a version that parses to nothing.
MCNames ==
    [u \in Urls |-> IF u = a THEN <<{x}, {y}, {}>> ELSE <<{x, y}, {}, {y}>>]

\* Safety: each fault once, but no dropped handler (the liveness run has it).
SafetyBudget ==
    [edit |-> 3, publish |-> 1, net |-> 1, db |-> 1, stop |-> 1, drop |-> 0]

\* Liveness: two new bodies, so that a list may return to an earlier one.
LivenessBudget ==
    [edit |-> 2, publish |-> 2, net |-> 1, db |-> 1, stop |-> 1, drop |-> 1]

\* The finding: a single failing statement, and one new body.
OneDbFault ==
    [edit |-> 1, publish |-> 1, net |-> 0, db |-> 1, stop |-> 0, drop |-> 0]
=============================================================================
