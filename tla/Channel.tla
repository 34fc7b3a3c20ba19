------------------------------ MODULE Channel ------------------------------
(***************************************************************************)
(* What a channel promises to those who read it: its published commit is   *)
(* extended by one manifest at a time and never replaced, whoever          *)
(* publishes, crashes or repeats a request.  An operator may set it back   *)
(* to one of its ancestors.                                                *)
(*                                                                         *)
(* Publication and UnsignedCommit implement this specification.            *)
(***************************************************************************)
EXTENDS Naturals, Sequences

CONSTANTS
  Manifests,   \* what a commit adds to its parent
  First        \* the chain of commits that is published at the start

VARIABLES
  chain,       \* the published commit with its ancestry, <<>> if there is none
  mishaps      \* what operators did so far

Init == chain = First /\ mishaps = 0

Publish == (\E m \in Manifests : chain' = Append(chain, m)) /\ UNCHANGED mishaps

SetBack == (\E n \in 0..Len(chain) : chain' = SubSeq(chain, 1, n)) /\ mishaps' = mishaps + 1

Next == Publish \/ SetBack

Spec == Init /\ [][Next]_<<chain, mishaps>>
=============================================================================
