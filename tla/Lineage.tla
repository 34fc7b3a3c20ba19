------------------------------ MODULE Lineage ------------------------------
(***************************************************************************)
(* Snapshot lineage: commits, watermarks and the ancestry checks shared by *)
(* publishers and consumers (publisher.go, publication_recovery.go,        *)
(* consumer.go).                                                           *)
(*                                                                         *)
(* A commit manifest names its parent by content digest, so a commit digest *)
(* stands for its whole ancestry.  A commit is therefore the sequence of   *)
(* the manifests from generation 1 up to it; its generation is the length  *)
(* and its parent the sequence without the last element.  The empty        *)
(* sequence is the nil watermark (generation 0, no commit).                *)
(***************************************************************************)
EXTENDS Naturals, Sequences

CONSTANTS
  Roots,         \* root directory digests a scan of the source may produce
  Stamps,        \* PublishedAtUnix values; two scans may agree on the root and not on these
  MaxCommitWalk  \* maxCommitWalk of model.go

ASSUME LineageAssumption == MaxCommitWalk \in Nat \ {0}

\* What a commit adds to its parent: Root and PublishedAtUnix of commitManifest.
Manifest == [root : Roots, at : Stamps]

\* Watermarks: nil or the digest of a commit, which fixes its ancestry.
Chains == Seq(Manifest)

\* a is c or one of the commits met on the walk from c to its first parent.
Ancestor(a, c) ==
  /\ Len(a) <= Len(c)
  /\ \A i \in 1..Len(a) : a[i] = c[i]

\* A descent check that trusts the generation numbers.
DescentByGeneration(c, anchor) == IF Len(c) <= Len(anchor) THEN "splitbrain" ELSE "ok"
\* A descent check that also refuses the direct child.
DescentOffByOne(c, anchor) ==
  IF Len(c) <= Len(anchor) + 1 THEN "splitbrain" ELSE IF Ancestor(anchor, c) THEN "ok" ELSE "splitbrain"

\* validatePublicationDescendant and validateDescendant: the walk from c down
\* to the generation above anchor, whose parent must be anchor.
DescentVerdict(c, anchor) ==
  IF Len(c) <= Len(anchor) THEN "splitbrain"
  ELSE IF Len(c) - Len(anchor) > MaxCommitWalk THEN "limit"
  ELSE IF Ancestor(anchor, c) THEN "ok" ELSE "splitbrain"

\* The comparison every reader of the reference makes against what it already
\* trusts: an older generation, or another commit of the same generation.
AnchorVerdict(c, anchor) ==
  IF Len(c) < Len(anchor) THEN "rollback"
  ELSE IF Len(c) = Len(anchor) /\ c # anchor THEN "splitbrain"
  ELSE "ok"

\* validSupersedingPublication: a winner descends from the intent's base, or,
\* for a first publication, reaches a first commit within the walk limit.
SupersedingVerdict(c, base) ==
  IF base # <<>> THEN DescentVerdict(c, base)
  ELSE IF Len(c) > 1 /\ Len(c) > MaxCommitWalk THEN "limit"
  ELSE "ok"
=============================================================================
