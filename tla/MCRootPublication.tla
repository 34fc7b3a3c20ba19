------------------------- MODULE MCRootPublication -------------------------
(* Instances of RootPublication for TLC. *)
EXTENDS RootPublication, TLC

CONSTANTS p1, p2, a, b

\* A first snapshot and two competing second ones.
Snapshots == {[gen |-> 1, commit |-> a], [gen |-> 2, commit |-> a], [gen |-> 2, commit |-> b]}

\* Processes are interchangeable; only safety is checked.
Symmetry == Permutations(Publishers)
=============================================================================
