--------------------------- MODULE UnsignedCommit ---------------------------
(***************************************************************************)
(* Stage, Commit and reconcileCommit of publishers without a signing key   *)
(* (publisher.go).  There is no journal: a publisher that does not learn   *)
(* what became of its compare-and-swap reads the reference again and looks *)
(* for its commit in the published chain.  Commit may be called again for  *)
(* the same staged snapshot after an indeterminate error.                  *)
(*                                                                         *)
(* A commit names its parent by digest, so it is the whole chain that ends *)
(* with it, as in module Lineage; the reference is the commit it points    *)
(* at, <<>> before there is one, and its ETag is what distinguishes it     *)
(* from other references.  Two publishers that stage the same content on   *)
(* the same parent at the same time have staged the same commit.           *)
(***************************************************************************)
EXTENDS Naturals, Sequences

CONSTANTS
  Publishers,
  Manifests,      \* roots and times of commits
  WeakReads,      \* GET may return an older reference
  MaxCommitWalk,  \* maxCommitWalk
  MaxGeneration,  \* bound on generations
  MaxFaults       \* bound on requests that fail or are not answered

VARIABLES
  reference,      \* the published commit
  publisher,      \* each publisher: its program counter, staged commit and whether it is unchanged
  flying,         \* requests without an answer that may still arrive
  accepted,       \* commits Commit has reported as published
  rejected,       \* commits Commit has reported as conflicting
  faults

vars == <<reference, publisher, flying, accepted, rejected, faults>>

Idle == [pc |-> "idle", staged |-> <<>>]

Init ==
  /\ reference = <<>>
  /\ publisher = [p \in Publishers |-> Idle]
  /\ flying = {} /\ accepted = {} /\ rejected = {} /\ faults = 0

Base(commit) == SubSeq(commit, 1, Len(commit) - 1)

\* commit is the published one or an ancestor of it.
InChain(commit, ref) == Len(commit) <= Len(ref) /\ \A i \in 1..Len(commit) : commit[i] = ref[i]

Goes(p, pc) == publisher' = [publisher EXCEPT ![p].pc = pc]
Fault == faults < MaxFaults /\ faults' = faults + 1

\* What a GET of the reference may return; the empty chain is a reference that is not found.
Seen(ref) == ref = reference \/ (WeakReads /\ InChain(ref, reference))

\* Stage: a scan that finds nothing new stages the current snapshot as unchanged.  The
\* reference read here is the one Commit will expect.
Stage(p) ==
  /\ publisher[p].pc \in {"idle", "staged"}
  /\ \E n \in 0..Len(reference) :
       LET ref == SubSeq(reference, 1, n) IN
       /\ Seen(ref)
       /\ \/ /\ n < MaxGeneration
             /\ \E m \in Manifests : publisher' = [publisher EXCEPT ![p] = [pc |-> "staged", staged |-> Append(ref, m)]]
          \/ /\ ref # <<>>
             /\ publisher' = [publisher EXCEPT ![p] = [pc |-> "unchanged", staged |-> ref]]
  /\ UNCHANGED <<reference, flying, accepted, rejected, faults>>

Forget(p) == publisher' = [publisher EXCEPT ![p] = Idle]
Accept(p) == Forget(p) /\ accepted' = accepted \cup {publisher[p].staged}
Reject(p) == Forget(p) /\ rejected' = rejected \cup {publisher[p].staged}

\* Commit of an unchanged snapshot verifies that it is still the current one; its conflict
\* means that it is not, and says nothing of the chain.
CommitUnchanged(p) ==
  /\ publisher[p].pc = "unchanged"
  /\ \/ Seen(publisher[p].staged) /\ Accept(p) /\ UNCHANGED <<rejected, faults>>
     \/ /\ \E n \in 0..Len(reference) : Seen(SubSeq(reference, 1, n)) /\ SubSeq(reference, 1, n) # publisher[p].staged
        /\ Forget(p) /\ UNCHANGED <<accepted, rejected, faults>>
     \/ Fault /\ Forget(p) /\ UNCHANGED <<accepted, rejected>>
  /\ UNCHANGED <<reference, flying>>

Commit(p) ==
  /\ publisher[p].pc = "staged" /\ Goes(p, "swap")
  /\ UNCHANGED <<reference, flying, accepted, rejected, faults>>

\* The conditional write of the object store.
SwapMatches(commit) == reference = Base(commit)

\* Repository.compareAndSwap: applied, refused, applied without an answer (a retry of the
\* client meets its own write), lost, or still on its way.
Swap(p) ==
  LET commit == publisher[p].staged IN
  /\ publisher[p].pc = "swap"
  /\ \/ /\ SwapMatches(commit) /\ reference' = commit
        /\ Accept(p) /\ UNCHANGED <<flying, rejected, faults>>
     \/ /\ ~SwapMatches(commit) /\ Goes(p, "reconcile")
        /\ UNCHANGED <<reference, flying, accepted, rejected, faults>>
     \/ /\ SwapMatches(commit) /\ reference' = commit
        /\ Goes(p, "reconcile") /\ Fault /\ UNCHANGED <<flying, accepted, rejected>>
     \/ /\ Goes(p, "reconcile") /\ Fault /\ flying' \in {flying, flying \cup {commit}}
        /\ UNCHANGED <<reference, accepted, rejected>>

\* A bug to catch: a reference that does not hold the commit means a conflict.
RejectOlder(commit, ref) == IF InChain(commit, ref) THEN "applied" ELSE "rejected"
\* reconcileCommit: an older reference decides nothing, and neither does one that is too
\* far ahead.
Outcome(commit, ref) ==
  IF Len(ref) < Len(commit) \/ Len(ref) - Len(commit) > MaxCommitWalk THEN "unknown"
  ELSE IF InChain(commit, ref) THEN "applied" ELSE "rejected"

\* An indeterminate error leaves the staged snapshot with the caller.
Reconcile(p) ==
  /\ publisher[p].pc = "reconcile"
  /\ \/ \E n \in 0..Len(reference) :
          LET ref == SubSeq(reference, 1, n) IN
          /\ Seen(ref)
          /\ \/ Outcome(publisher[p].staged, ref) = "applied" /\ Accept(p) /\ UNCHANGED rejected
             \/ Outcome(publisher[p].staged, ref) = "rejected" /\ Reject(p) /\ UNCHANGED accepted
             \/ Outcome(publisher[p].staged, ref) = "unknown" /\ Goes(p, "staged") /\ UNCHANGED <<accepted, rejected>>
          /\ UNCHANGED faults
     \/ Fault /\ Goes(p, "staged") /\ UNCHANGED <<accepted, rejected>>
  /\ UNCHANGED <<reference, flying>>

\* A request arrives after its sender has given up on it.
Deliver ==
  /\ \E commit \in flying :
       /\ flying' = flying \ {commit}
       /\ reference' = IF SwapMatches(commit) THEN commit ELSE reference
  /\ UNCHANGED <<publisher, accepted, rejected, faults>>

\* The process ends; what it staged is forgotten, what it sent may still arrive.
Crash(p) ==
  /\ publisher[p] # Idle /\ Fault /\ Forget(p)
  /\ flying' = IF publisher[p].pc = "swap" THEN flying \cup {publisher[p].staged} ELSE flying
  /\ UNCHANGED <<reference, accepted, rejected>>

Next ==
  \/ \E p \in Publishers :
       Stage(p) \/ CommitUnchanged(p) \/ Commit(p) \/ Swap(p) \/ Reconcile(p) \/ Crash(p)
  \/ Deliver

Spec == Init /\ [][Next]_vars

-----------------------------------------------------------------------------
(* Properties *)

Chains == Seq(Manifests)

TypeOK ==
  /\ reference \in Chains
  /\ publisher \in [Publishers -> [pc : {"idle", "staged", "unchanged", "swap", "reconcile"}, staged : Chains]]
  /\ flying \subseteq Chains /\ accepted \subseteq Chains /\ rejected \subseteq Chains
  /\ faults \in Nat

\* What Commit has reported is true for good: a commit it reported as published stays in
\* the chain, and one it reported as a conflict never enters it, not even by a request that
\* arrives late (Commit: "Resolve both transport errors and retry-time precondition
\* failures against the immutable commit chain before reporting a conflict").
ReportIsFinal ==
  /\ \A commit \in accepted : InChain(commit, reference)
  /\ \A commit \in rejected : ~InChain(commit, reference)

\* Publishers without a journal keep the promise of the channel too: the conditional write
\* admits nothing but a child of the published commit (Repository.compareAndSwap).
C == INSTANCE Channel WITH First <- <<>>, chain <- reference, mishaps <- 0
ImplementsChannel == C!Spec
=============================================================================
