------------------------------ MODULE MCViews ------------------------------
(***************************************************************************)
(* Instances for TLC of Views.                                             *)
(***************************************************************************)
EXTENDS Views, TLC

CONSTANTS c1, c2, a, b, t1

\* One consumer trusts what it finds first, the other was given a checkpoint.
OneCheckpoint == (c1 :> <<>>) @@ (c2 :> <<[root |-> a, at |-> t1]>>)
TrustFirst == (c1 :> TRUE) @@ (c2 :> FALSE)

\* Three revisions of a share over two snapshots: the second one replaces an object, the third
\* renews a capability at a higher charge.
Revisions == <<
  [generation |-> 1, commit |-> "one", caps |-> [x |-> 1, y |-> 1]],
  [generation |-> 2, commit |-> "two", caps |-> [y |-> 1, z |-> 1]],
  [generation |-> 2, commit |-> "two", caps |-> [y |-> 2, z |-> 1]]>>

\* What somebody else who holds the key could have signed in their place: a snapshot ahead of
\* the ones to come, a fork of the first, and one that exceeds the budgets.
Others == <<
  [generation |-> 3, commit |-> "fork", caps |-> [x |-> 1, y |-> 1]],
  [generation |-> 1, commit |-> "fork", caps |-> [x |-> 1, w |-> 1]],
  [generation |-> 3, commit |-> "three", caps |-> [z |-> 1, w |-> 1]]>>

\* What the theorems about the reader assume of the bundles.
ASSUME S!BundlesAreValid /\ S!HonestPublisher
=============================================================================
