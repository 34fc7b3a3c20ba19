--------------------------- MODULE MCPublication ---------------------------
(***************************************************************************)
(* Small instances of Publication for TLC.                                 *)
(***************************************************************************)
EXTENDS Publication, TLC

CONSTANTS p1, p2, j1, j2, k1, k2, a, b, t1

\* Processes that share one journal: a publisher and its replacement, which
\* may sign with a rotated key.
SharedJournal == [p \in Publishers |-> j1]
\* Two hosts with a journal each.
OwnJournals == [p \in Publishers |-> IF p = p1 THEN j1 ELSE j2]
RotatedKeys == [p \in Publishers |-> IF p = p1 THEN k1 ELSE k2]
OneKey == [p \in Publishers |-> k1]
NoCheckpoint == [p \in Publishers |-> <<>>]
AllFirstUse == [p \in Publishers |-> TRUE]

\* A channel that already has one generation, and a second publisher that was
\* given it as its trusted checkpoint.
Genesis == <<[root |-> a, at |-> t1]>>
PublishedGenesis == [commit |-> Genesis, key |-> k1]
SecondHasCheckpoint == [p \in Publishers |-> IF p = p1 THEN <<>> ELSE Genesis]
OnlyFirstTrusts == [p \in Publishers |-> p = p1]

RevisionSymmetry == Permutations(Revisions)
=============================================================================
