-------------------------- MODULE PublicationSteps --------------------------
(***************************************************************************)
(* Lemmas about Publication: chains and ancestry, what keeps a publisher's *)
(* local state within the two invariants, the one of the steps (IndInv)    *)
(* and the one of the reports (ReportInv), and the frames of the steps     *)
(* that move one publisher or its journal.                                 *)
(***************************************************************************)
EXTENDS Publication, TLAPS

-----------------------------------------------------------------------------
(* Chains of manifests. *)

\* Chains of one length with the same manifests are the same.
LEMMA ChainsEqual ==
  ASSUME NEW c \in Chains, NEW d \in Chains, Len(c) = Len(d), \A i \in 1..Len(c) : c[i] = d[i]
  PROVE  c = d
BY DEF Chains

\* What a new manifest makes of a chain.
LEMMA ChainAppend ==
  ASSUME NEW c \in Chains, NEW m \in Manifest
  PROVE  /\ Append(c, m) \in Chains
         /\ Len(Append(c, m)) = Len(c) + 1
         /\ \A i \in 1..Len(c) : Append(c, m)[i] = c[i]
         /\ Append(c, m)[Len(c) + 1] = m
BY DEF Chains

\* An earlier state of a chain.
LEMMA ChainPrefix ==
  ASSUME NEW c \in Chains, NEW n \in 0..Len(c)
  PROVE  /\ SubSeq(c, 1, n) \in Chains
         /\ Len(SubSeq(c, 1, n)) = n
         /\ n = 0 => SubSeq(c, 1, n) = <<>>
         /\ n = Len(c) => SubSeq(c, 1, n) = c
<1>1. Len(c) \in Nat
  BY DEF Chains
<1>2. SubSeq(c, 1, n) \in Chains
  BY <1>1 DEF Chains
<1>3. Len(SubSeq(c, 1, n)) = n
  BY <1>1 DEF Chains
<1>4. n = 0 => SubSeq(c, 1, n) = <<>>
  BY <1>2, <1>3 DEF Chains
<1>5. \A i \in 1..n : SubSeq(c, 1, n)[i] = c[i]
  BY <1>1 DEF Chains
<1>6. n = Len(c) => SubSeq(c, 1, n) = c
  BY <1>2, <1>3, <1>5, ChainsEqual
<1> QED
  BY <1>2, <1>3, <1>4, <1>6

\* A watermark has a generation.
LEMMA WatermarkLength == \A c \in Watermarks : Len(c) \in Nat
BY DEF Watermarks, Chains

-----------------------------------------------------------------------------
(* Ancestry. *)

\* Every watermark descends from the nil watermark and from itself.
LEMMA AncestorBase ==
  ASSUME NEW c \in Watermarks
  PROVE  Ancestor(<<>>, c) /\ Ancestor(c, c)
BY DEF Ancestor, Watermarks, Chains

\* A walk that reaches b and goes on from b reaches everything b reaches.
LEMMA AncestorTransitive ==
  ASSUME NEW a \in Watermarks, NEW b \in Watermarks, NEW c \in Watermarks,
         Ancestor(a, b), Ancestor(b, c)
  PROVE  Ancestor(a, c)
BY DEF Ancestor, Watermarks, Chains

\* A new commit is a child of the commit it was built on.
LEMMA AncestorAppend ==
  ASSUME NEW c \in Watermarks, NEW m \in Manifest, Len(c) < MaxGeneration
  PROVE  /\ Append(c, m) \in Commits
         /\ Len(Append(c, m)) = Len(c) + 1
         /\ Ancestor(c, Append(c, m))
<1> DEFINE d == Append(c, m)
<1>1. c \in Seq(Manifest) /\ d \in Seq(Manifest) /\ Len(d) = Len(c) + 1 /\ Len(c) \in Nat
  BY DEF Watermarks, Chains
<1>2. \A i \in 1..Len(c) : d[i] = c[i]
  BY <1>1
<1>3. d # <<>>
  BY <1>1
<1>4. Len(d) <= MaxGeneration
  BY <1>1, PublicationAssumption
<1> QED
  BY <1>1, <1>2, <1>3, <1>4 DEF Ancestor, Commits, Watermarks, Chains

\* A candidate that passes the descent check descends from the anchor.
LEMMA DescentIsAncestor ==
  ASSUME NEW c, NEW anchor, DescentVerdict(c, anchor) = "ok"
  PROVE  Ancestor(anchor, c)
BY DEF DescentVerdict

-----------------------------------------------------------------------------
(* In-memory states. *)

\* The nil values belong to the types that may be nil.
LEMMA NilFacts ==
  /\ <<>> \in Watermarks
  /\ None \in OptionalRef /\ None \in OptionalIntent /\ None \in OptionalRevision
BY PublicationAssumption DEF Watermarks, Chains, OptionalRef, OptionalIntent, OptionalRevision

\* The labels that are neither in a recovery nor in a stage hold no journal state.
LEMMA LabelFacts ==
  /\ \A x \in {"idle", "load", "init", "initreload", "rclassify", "reprep", "unchanged",
               "noneload", "done"} : x \in Labels /\ x \notin HoldingLabels
  /\ RecoveryLabels \subseteq Labels /\ StagingLabels \subseteq Labels
  /\ HoldingLabels \subseteq Labels
BY DEF Labels, RecoveryLabels, StagingLabels, HoldingLabels

\* A fresh publisher object.
LEMMA IdleInv ==
  /\ LocalInv(Idle)
  /\ \A s : Faithful(Idle, s)
<1>1. Idle \in Locals
  BY NilFacts, LabelFacts DEF Idle, Locals, Results
<1>2. Idle.pc = "idle" /\ Idle.ctx = "none"
  BY DEF Idle
<1> QED
  BY <1>1, <1>2 DEF LocalInv, RecoveryInv, StagingInv, ControlInv,
       RecoveryLabels, StagingLabels, Faithful, HoldingLabels

\* What Kept keeps.
LEMMA KeptFacts ==
  ASSUME NEW l, l \in Locals
  PROVE  /\ Kept(l) \in Locals
         /\ Kept(l).op = l.op /\ Kept(l).ctx = l.ctx /\ Kept(l).intent = l.intent
         /\ Kept(l).pc = "idle" /\ Kept(l).validated = l.validated
<1>1. Kept(l) \in Locals
  BY Zenon, IdleInv DEF LocalInv, Kept, Locals
<1> QED
  BY <1>1 DEF Kept, Idle

\* Returning to the caller keeps nothing a later step depends on.
LEMMA ReturnedInv ==
  ASSUME NEW l, LocalInv(l), NEW r \in Results, NEW c \in Watermarks
  PROVE  /\ LocalInv(Returned(l, r, c))
         /\ \A s : Faithful(Returned(l, r, c), s)
<1>0. l \in Locals /\ Kept(l) \in Locals /\ "done" \in Labels
  BY KeptFacts, LabelFacts DEF LocalInv
<1>1. Returned(l, r, c) \in Locals
  BY Zenon, <1>0 DEF Returned, Locals
<1>2. Returned(l, r, c).pc = "done" /\ Returned(l, r, c).ctx = l.ctx
      /\ Returned(l, r, c).op = l.op /\ Returned(l, r, c).intent = l.intent
  BY <1>0, KeptFacts DEF Returned, Locals
<1> QED
  BY <1>1, <1>2 DEF LocalInv, RecoveryInv, StagingInv, ControlInv,
       RecoveryLabels, StagingLabels, Faithful, HoldingLabels

\* The same for an operation that fails.
LEMMA FailedInv ==
  ASSUME NEW l, LocalInv(l), NEW r \in Results
  PROVE  /\ LocalInv(Failed(l, r))
         /\ \A s : Faithful(Failed(l, r), s)
BY NilFacts, ReturnedInv DEF Failed

\* The memo of the checkpoint validation is no part of the invariant.
LEMMA ValidatedInv ==
  ASSUME NEW l, LocalInv(l), NEW v \in Watermarks, NEW s, Faithful(l, s)
  PROVE  LocalInv([l EXCEPT !.validated = v]) /\ Faithful([l EXCEPT !.validated = v], s)
<1> DEFINE m == [l EXCEPT !.validated = v]
<1>1. l \in Locals /\ m \in Locals
  BY DEF LocalInv, Locals
<1>2. /\ m.pc = l.pc /\ m.op = l.op /\ m.ctx = l.ctx /\ m.st = l.st /\ m.rev = l.rev
      /\ m.initial = l.initial /\ m.intent = l.intent /\ m.obs = l.obs /\ m.fin = l.fin
  BY <1>1 DEF Locals
<1> QED
  BY <1>1, <1>2 DEF LocalInv, RecoveryInv, StagingInv, ControlInv, Faithful

-----------------------------------------------------------------------------
(* Steps that change one publisher. *)

\* A step of p that leaves the journals alone.
LEMMA PublisherStep ==
  ASSUME IndInv, NEW p \in Publishers, NEW l,
         LocalInv(l), Faithful(l, journal[JournalOf[p]]),
         pub' = [pub EXCEPT ![p] = l], journal' = journal,
         remote' \in OptionalRef, \A q \in inflight' : RequestInv(q),
         faults' \in 0..MaxFaults, mishaps' \in 0..MaxMishaps
  PROVE  IndInv'
<1>1. pub' \in [Publishers -> Locals]
  BY DEF IndInv, TypeOK, LocalInv
<1>2. TypeOK'
  BY <1>1 DEF IndInv, TypeOK, RequestInv
<1>3. \A q \in Publishers : LocalInv(pub'[q]) /\ Faithful(pub'[q], journal'[JournalOf[q]])
  BY DEF IndInv, TypeOK
<1> QED
  BY <1>2, <1>3 DEF IndInv, LocalInv, RecoveryInv, StagingInv, ControlInv, JournalInv

\* A fault is counted within its bound.
LEMMA FaultBound ==
  ASSUME IndInv, Fault
  PROVE  faults' \in 0..MaxFaults
BY PublicationAssumption DEF IndInv, TypeOK, Fault

\* A GET of the reference.
LEMMA GetStep ==
  ASSUME IndInv, NEW p \in Publishers, NEW next, NEW failure \in Results,
         LocalInv(next), Faithful(next, journal[JournalOf[p]]), Get(p, next, failure)
  PROVE  IndInv'
<1>1. LocalInv(pub[p])
  BY DEF IndInv
<1>2. remote' \in OptionalRef /\ mishaps' \in 0..MaxMishaps /\ journal' = journal
      /\ \A q \in inflight' : RequestInv(q)
  BY DEF IndInv, TypeOK, Get
<1>3. CASE pub' = [pub EXCEPT ![p] = next] /\ UNCHANGED faults
  <2>1. faults' \in 0..MaxFaults
    BY <1>3 DEF IndInv, TypeOK
  <2> QED
    BY Zenon, <1>2, <1>3, <2>1, PublisherStep
<1>4. CASE pub' = [pub EXCEPT ![p] = Failed(pub[p], failure)] /\ Fault
  BY Zenon, <1>1, <1>2, <1>4, FaultBound, FailedInv, PublisherStep
<1> QED
  BY <1>3, <1>4 DEF Get

\* A Load of the journal.
LEMMA LoadStep ==
  ASSUME IndInv, NEW p \in Publishers, NEW absent, NEW present,
         LocalInv(absent), Faithful(absent, journal[JournalOf[p]]),
         journal[JournalOf[p]].found =>
           LocalInv(present) /\ Faithful(present, journal[JournalOf[p]]),
         Load(p, absent, present)
  PROVE  IndInv'
<1> DEFINE l == pub[p]
           s == journal[JournalOf[p]]
           verdict == LoadVerdict(p, l, s.committed)
           next == IF ~s.found THEN absent
                   ELSE IF verdict # "ok" THEN Failed(l, verdict)
                   ELSE [present EXCEPT !.validated = Validated(p, l, s.committed)]
<1>1. LocalInv(l) /\ s \in JournalStates
  BY PublicationAssumption DEF IndInv, JournalInv
<1>2. verdict \in Results
  BY DEF LoadVerdict, AnchorVerdict, DescentVerdict, Results
<1>3. Validated(p, l, s.committed) \in Watermarks
  BY <1>1 DEF Validated, JournalStates, LocalInv, Locals
<1>4. LocalInv(next) /\ Faithful(next, s)
  BY <1>1, <1>2, <1>3, FailedInv, ValidatedInv
<1>5. remote' \in OptionalRef /\ mishaps' \in 0..MaxMishaps /\ journal' = journal
      /\ \A q \in inflight' : RequestInv(q)
  BY DEF IndInv, TypeOK, Load
<1>6. CASE pub' = [pub EXCEPT ![p] = next] /\ UNCHANGED faults
  <2>1. faults' \in 0..MaxFaults
    BY <1>6 DEF IndInv, TypeOK
  <2> QED
    BY Zenon, <1>4, <1>5, <1>6, <2>1, PublisherStep
<1>7. CASE pub' = [pub EXCEPT ![p] = Failed(l, "error")] /\ Fault
  <2>1. "error" \in Results
    BY DEF Results
  <2> QED
    BY Zenon, <1>1, <1>5, <1>7, <2>1, FaultBound, FailedInv, PublisherStep
<1> QED
  BY <1>6, <1>7 DEF Load

\* Taking the revision of a state that was just written.
LEMMA RevisionInv ==
  ASSUME NEW l, LocalInv(l), NEW r \in Revisions, NEW s, s.rev = r,
         l.pc \in HoldingLabels => s.committed = l.st.committed /\ s.pending = l.st.pending
  PROVE  LocalInv([l EXCEPT !.rev = r]) /\ Faithful([l EXCEPT !.rev = r], s)
<1> DEFINE m == [l EXCEPT !.rev = r]
<1>1. l \in Locals /\ m \in Locals
  BY DEF LocalInv, Locals, OptionalRevision
<1>2. /\ m.pc = l.pc /\ m.op = l.op /\ m.ctx = l.ctx /\ m.st = l.st /\ m.rev = r
      /\ m.initial = l.initial /\ m.intent = l.intent /\ m.obs = l.obs /\ m.fin = l.fin
  BY <1>1 DEF Locals
<1>3. r # None
  BY PublicationAssumption
<1>4. LocalInv(m)
  BY <1>1, <1>2 DEF LocalInv, RecoveryInv, StagingInv, ControlInv
<1>5. Faithful(m, s)
  BY <1>2, <1>3 DEF Faithful
<1> QED
  BY <1>4, <1>5

\* A CompareAndSwap of the journal: the new revision is held by nobody, so
\* every other publisher's view of this journal becomes stale, not wrong.
LEMMA SwapStep ==
  ASSUME IndInv, NEW p \in Publishers, NEW expected,
         NEW committed \in Watermarks, NEW pending \in OptionalIntent,
         NEW done, NEW lost, NEW refused,
         LocalInv(done),
         done.pc \in HoldingLabels => done.st.committed = committed /\ done.st.pending = pending,
         LocalInv(lost), lost.pc \notin HoldingLabels,
         LocalInv(refused), refused.pc \notin HoldingLabels,
         JournalSwap(p, expected, committed, pending, done, lost, refused)
  PROVE  IndInv'
<1> DEFINE j == JournalOf[p]
           st == [committed |-> committed, pending |-> pending]
           matches == journal[j].found = (expected # None) /\ journal[j].rev = expected
           accepted == matches /\ ValidJournal(st) /\ ValidTransition(journal[j], st)
<1>0. j \in Journals /\ Faithful(lost, journal[j]) /\ Faithful(refused, journal[j])
  BY PublicationAssumption DEF Faithful
<1>1. remote' \in OptionalRef /\ mishaps' \in 0..MaxMishaps
      /\ inflight' \subseteq [expected : OptionalRef, new : Refs]
      /\ \A q \in inflight' : RequestInv(q)
  BY DEF IndInv, TypeOK, JournalSwap
<1>2. ASSUME accepted, NEW r \in Revisions \ UsedRevisions(j),
             journal' = [journal EXCEPT ![j] = [found |-> TRUE, committed |-> committed,
                                                pending |-> pending, rev |-> r]],
             \/ pub' = [pub EXCEPT ![p] = [done EXCEPT !.rev = r]] /\ UNCHANGED faults
             \/ pub' = [pub EXCEPT ![p] = lost] /\ Fault
      PROVE  IndInv'
  <2> DEFINE new == [found |-> TRUE, committed |-> committed, pending |-> pending, rev |-> r]
  <2>1. r # None /\ new \in JournalStates
    BY <1>2, PublicationAssumption DEF JournalStates, OptionalRevision
  <2>2. JournalInv(new)
    BY Zenon, <1>2, <2>1 DEF JournalInv, ValidJournal
  <2>3. journal' \in [Journals -> JournalStates] /\ journal'[j] = new
        /\ \A i \in Journals : i # j => journal'[i] = journal[i]
    BY <1>0, <1>2, <2>1 DEF IndInv, TypeOK
  <2>4. faults' \in 0..MaxFaults
    BY <1>2, FaultBound DEF IndInv, TypeOK
  <2>5. PICK l : /\ pub' = [pub EXCEPT ![p] = l] /\ LocalInv(l) /\ Faithful(l, new)
    <3>1. CASE pub' = [pub EXCEPT ![p] = lost]
      BY Zenon, <3>1 DEF Faithful
    <3>2. CASE pub' = [pub EXCEPT ![p] = [done EXCEPT !.rev = r]]
      <4>1. LocalInv([done EXCEPT !.rev = r]) /\ Faithful([done EXCEPT !.rev = r], new)
        BY <1>2, RevisionInv
      <4> QED
        BY Zenon, <3>2, <4>1
    <3> QED
      BY Zenon, <1>2, <3>1, <3>2
  <2>6. pub' \in [Publishers -> Locals]
    BY <2>5 DEF IndInv, TypeOK, LocalInv
  <2>7. ASSUME NEW q \in Publishers
        PROVE  LocalInv(pub'[q]) /\ Faithful(pub'[q], journal'[JournalOf[q]])
    <3>1. CASE q = p
      BY <2>3, <2>5, <3>1 DEF IndInv, TypeOK
    <3>2. CASE q # p /\ JournalOf[q] # j
      BY Zenon, <2>3, <2>5, <3>2, PublicationAssumption DEF IndInv, TypeOK
    <3>3. CASE q # p /\ JournalOf[q] = j
      <4>1. pub'[q] = pub[q] /\ LocalInv(pub[q]) /\ Faithful(pub[q], journal[j])
        BY <2>5, <3>3 DEF IndInv, TypeOK
      <4>2. pub[q].rev # r
        BY <1>2, <3>3 DEF UsedRevisions
      <4> QED
        BY <2>3, <3>3, <4>1, <4>2 DEF Faithful
    <3> QED
      BY <3>1, <3>2, <3>3
  <2>8. \A i \in Journals : JournalInv(journal'[i])
    BY <2>2, <2>3 DEF IndInv
  <2>9. TypeOK'
    BY <1>1, <2>3, <2>4, <2>6 DEF TypeOK
  <2> QED
    BY Zenon, <1>1, <2>7, <2>8, <2>9 DEF IndInv, LocalInv, RecoveryInv, StagingInv, ControlInv, JournalInv
<1>3. ASSUME pub' = [pub EXCEPT ![p] = IF matches THEN lost ELSE refused],
             UNCHANGED <<journal, faults>>
      PROVE  IndInv'
  <2>1. faults' \in 0..MaxFaults /\ journal' = journal
    BY <1>3 DEF IndInv, TypeOK
  <2> QED
    BY Zenon, <1>0, <1>1, <1>3, <2>1, PublisherStep
<1>4. ASSUME pub' = [pub EXCEPT ![p] = lost], Fault, UNCHANGED journal
      PROVE  IndInv'
  BY Zenon, <1>0, <1>1, <1>4, FaultBound, PublisherStep
<1> QED
  BY Zenon, <1>2, <1>3, <1>4 DEF JournalSwap

-----------------------------------------------------------------------------
(* Where the steps of an operation lead. *)

\* Outside the labels of a recovery or a stage only the control part matters.
LEMMA PlainInv ==
  ASSUME NEW l, l \in Locals, l.pc \notin RecoveryLabels \cup StagingLabels, ControlInv(l)
  PROVE  LocalInv(l) /\ \A s : Faithful(l, s)
BY DEF LocalInv, RecoveryInv, StagingInv, Faithful, HoldingLabels, RecoveryLabels, StagingLabels

\* Going on to a call that depends on nothing but the operation.
LEMMA MovedInv ==
  ASSUME NEW l, LocalInv(l), l.ctx # "none",
         NEW pc \in {"load", "init", "reprep", "noneload"},
         pc = "noneload" => l.ctx = "commit"
  PROVE  /\ LocalInv([Kept(l) EXCEPT !.pc = pc])
         /\ \A s : Faithful([Kept(l) EXCEPT !.pc = pc], s)
         /\ [Kept(l) EXCEPT !.pc = pc].pc = pc
<1> DEFINE m == [Kept(l) EXCEPT !.pc = pc]
<1>1. l \in Locals /\ Kept(l) \in Locals /\ pc \in Labels
  BY KeptFacts, LabelFacts DEF LocalInv
<1>2. m \in Locals
  BY <1>1 DEF Locals
<1>3. m.pc = pc /\ m.op = l.op /\ m.ctx = l.ctx /\ m.intent = l.intent
  BY <1>1, KeptFacts DEF Locals
<1>4. pc \notin RecoveryLabels \cup StagingLabels
  BY DEF RecoveryLabels, StagingLabels
<1>5. ControlInv(m)
  BY <1>3, <1>4 DEF LocalInv, ControlInv
<1> QED
  BY <1>2, <1>3, <1>4, <1>5, PlainInv

\* The outcome of a recovery is handed to the caller.
LEMMA ResolvedInv ==
  ASSUME NEW l, LocalInv(l), l.ctx # "none", NEW outcome \in Results
  PROVE  /\ LocalInv(Resolved(l, outcome))
         /\ \A s : Faithful(Resolved(l, outcome), s)
         /\ Resolved(l, outcome).pc \notin HoldingLabels
<1>0. l \in Locals /\ "ok" \in Results /\ "conflict" \in Results
  BY DEF LocalInv, Results
<1>1. CASE l.ctx = "recover"
  <2>1. Resolved(l, outcome) = Returned(l, outcome, l.fin)
    BY <1>1 DEF Resolved
  <2>2. l.fin \in Watermarks
    BY <1>0 DEF Locals
  <2>3. Returned(l, outcome, l.fin).pc \notin HoldingLabels
    BY <1>0, KeptFacts, LabelFacts DEF Returned, Locals
  <2> QED
    BY <2>1, <2>2, <2>3, ReturnedInv
<1>2. CASE l.ctx = "prepare"
  <2>1. Resolved(l, outcome) = [Kept(l) EXCEPT !.pc = "reprep"]
    BY <1>2 DEF Resolved
  <2> QED
    BY Zenon, <2>1, MovedInv, LabelFacts
<1>3. CASE l.ctx = "commit"
  <2>1. Resolved(l, outcome) = IF OwnIntentApplied(l, outcome)
                               THEN Returned(l, "ok", l.intent.next)
                               ELSE Returned(l, "conflict", <<>>)
    BY <1>3 DEF Resolved, Failed
  <2>2. l.intent.next \in Watermarks
    BY <1>0, <1>3 DEF LocalInv, ControlInv, Locals, OptionalIntent, Intents, Commits
  <2>3. \A r, c : Returned(l, r, c).pc \notin HoldingLabels
    BY <1>0, KeptFacts, LabelFacts DEF Returned, Locals
  <2> QED
    BY <1>0, <2>1, <2>2, <2>3, ReturnedInv, NilFacts
<1> QED
  BY <1>0, <1>1, <1>2, <1>3 DEF Locals

\* classifyResolvedPublication, from each place that calls it.
LEMMA ClassifiedInv ==
  ASSUME NEW l, LocalInv(l), l.ctx # "none", l.pc \in {"rreload", "load", "noneload"},
         NEW i \in Intents, NEW committed \in Watermarks
  PROVE  /\ LocalInv(Classified(l, i, committed))
         /\ \A s : Faithful(Classified(l, i, committed), s)
<1> DEFINE c == [l EXCEPT !.initial = i, !.fin = committed]
           r == [Kept(l) EXCEPT !.pc = "rclassify", !.initial = i, !.fin = committed]
           outcome == PublishOutcome(i, committed)
<1>0. l \in Locals /\ Kept(l) \in Locals
  BY KeptFacts DEF LocalInv
<1>1. i \in OptionalIntent /\ i # None
  BY PublicationAssumption DEF OptionalIntent
<1>2. "rollback" \in Results /\ "limit" \in Results /\ outcome \in Results
  BY DEF Results, PublishOutcome
<1>3. "rclassify" \in Labels
  BY LabelFacts
<1>4. LocalInv(c) /\ c.ctx # "none"
  <2>1. c \in Locals
    BY Zenon, <1>0, <1>1 DEF Locals
  <2>2. c.pc = l.pc /\ c.op = l.op /\ c.ctx = l.ctx /\ c.intent = l.intent /\ c.obs = l.obs
        /\ c.initial = i /\ c.st = l.st
    BY <1>0 DEF Locals
  <2>3. ControlInv(c)
    BY <1>1, <2>2 DEF LocalInv, ControlInv
  <2>4. RecoveryInv(c) /\ StagingInv(c)
    BY <1>1, <2>2 DEF LocalInv, RecoveryInv, StagingInv
  <2> QED
    BY <2>1, <2>2, <2>3, <2>4 DEF LocalInv
<1>5. LocalInv(r) /\ \A s : Faithful(r, s)
  <2>1. r \in Locals
    BY Zenon, <1>0, <1>1, <1>3 DEF Locals
  <2>2. r.pc = "rclassify" /\ r.op = l.op /\ r.ctx = l.ctx /\ r.intent = l.intent
        /\ r.initial = i
    BY <1>0, KeptFacts DEF Locals
  <2>3. r.pc \notin RecoveryLabels \cup StagingLabels
    BY <2>2 DEF RecoveryLabels, StagingLabels
  <2>4. ControlInv(r)
    BY <1>1, <2>2, <2>3 DEF LocalInv, ControlInv
  <2> QED
    BY Zenon, <2>1, <2>3, <2>4, PlainInv
<1>6. Classified(l, i, committed) \in {Failed(l, "rollback"), r, Failed(l, "limit"), Resolved(c, outcome)}
  BY DEF Classified
<1>7. LocalInv(Failed(l, "rollback")) /\ \A s : Faithful(Failed(l, "rollback"), s)
  BY <1>2, FailedInv
<1>8. LocalInv(Failed(l, "limit")) /\ \A s : Faithful(Failed(l, "limit"), s)
  BY <1>2, FailedInv
<1>9. LocalInv(Resolved(c, outcome)) /\ \A s : Faithful(Resolved(c, outcome), s)
  BY Zenon, <1>2, <1>4, ResolvedInv
<1> HIDE DEF c, r, outcome
<1> QED
  BY <1>5, <1>6, <1>7, <1>8, <1>9

-----------------------------------------------------------------------------
(* Recovery steps. *)

\* What a recovery knows at each of its labels.
RecoveryBase(l) ==
  /\ l \in Locals
  /\ l.initial # None /\ l.st.pending # None
  /\ ValidIntent(l.st.pending) /\ l.st.pending.base = l.st.committed
  /\ l.ctx # "none"
  /\ l.ctx = "prepare" => l.op \in {"publish", "resign"}
  /\ l.ctx = "commit" => l.intent # None

\* What LocalInv amounts to at the labels of a recovery.
LEMMA RecoveryBaseInv ==
  ASSUME NEW l
  PROVE  /\ LocalInv(l) /\ l.pc \in RecoveryLabels => RecoveryBase(l)
         /\ /\ RecoveryBase(l) /\ l.pc \in RecoveryLabels
            /\ l.pc \in {"rrefresh", "refreshreload"} => l.st.committed # <<>>
            /\ l.pc \in {"rrefresh", "refreshreload", "rcas"} => IsObjectOf(l.obs, l.st.committed)
            /\ l.pc \in {"rfinal", "finalreload"} => l.fin # <<>> /\ Ancestor(l.st.committed, l.fin)
            => LocalInv(l)
<1>1. \A x \in RecoveryLabels : x \notin StagingLabels /\ x \notin {"idle", "done", "noneload", "unchanged", "rclassify"}
  BY DEF RecoveryLabels, StagingLabels
<1> QED
  BY <1>1 DEF LocalInv, RecoveryBase, RecoveryInv, StagingInv, ControlInv

\* Recording a watermark that descends from the committed one.
LEMMA FinalizingInv ==
  ASSUME NEW l, RecoveryBase(l), NEW c \in Commits, Ancestor(l.st.committed, c),
         NEW outcome \in Results, NEW s, Faithful(l, s), l.pc \in HoldingLabels
  PROVE  LocalInv(Finalizing(l, c, outcome)) /\ Faithful(Finalizing(l, c, outcome), s)
<1> DEFINE m == Finalizing(l, c, outcome)
<1>0. "rfinal" \in Labels /\ "rfinal" \in RecoveryLabels /\ "rfinal" \in HoldingLabels
      /\ c \in Watermarks /\ c # <<>> /\ l \in Locals
  BY LabelFacts DEF RecoveryLabels, HoldingLabels, Commits, RecoveryBase
<1>1. m \in Locals
  BY Zenon, <1>0 DEF Finalizing, Locals
<1>2. /\ m.pc = "rfinal" /\ m.op = l.op /\ m.ctx = l.ctx /\ m.st = l.st /\ m.rev = l.rev
      /\ m.initial = l.initial /\ m.intent = l.intent /\ m.fin = c
  BY <1>0 DEF Finalizing, Locals
<1>3. RecoveryBase(m)
  BY <1>1, <1>2 DEF RecoveryBase
<1>4. LocalInv(m)
  BY <1>0, <1>2, <1>3, RecoveryBaseInv
<1>5. Faithful(m, s)
  BY <1>0, <1>2 DEF Faithful
<1> QED
  BY <1>4, <1>5

\* Going on to the reference CAS, or to the refresh of the observation first.
LEMMA RetryInv ==
  ASSUME NEW l, RecoveryBase(l), NEW s, Faithful(l, s), l.pc \in HoldingLabels,
         NEW ref \in OptionalRef, IsObjectOf(ref, l.st.committed),
         NEW pc \in {"rcas", "rrefresh"}, pc = "rrefresh" => l.st.committed # <<>>
  PROVE  /\ LocalInv([l EXCEPT !.pc = pc, !.obs = ref])
         /\ Faithful([l EXCEPT !.pc = pc, !.obs = ref], s)
<1> DEFINE m == [l EXCEPT !.pc = pc, !.obs = ref]
<1>0. pc \in Labels /\ pc \in RecoveryLabels /\ pc \in HoldingLabels /\ l \in Locals
  BY DEF Labels, RecoveryLabels, HoldingLabels, RecoveryBase
<1>1. m \in Locals
  BY Zenon, <1>0 DEF Locals
<1>2. /\ m.pc = pc /\ m.op = l.op /\ m.ctx = l.ctx /\ m.st = l.st /\ m.rev = l.rev
      /\ m.initial = l.initial /\ m.intent = l.intent /\ m.obs = ref
  BY <1>0 DEF Locals
<1>3. RecoveryBase(m)
  BY <1>1, <1>2 DEF RecoveryBase
<1>4. LocalInv(m)
  BY Zenon, <1>0, <1>2, <1>3, RecoveryBaseInv
<1>5. Faithful(m, s)
  BY <1>0, <1>2 DEF Faithful
<1> QED
  BY <1>4, <1>5

\* One iteration of the recovery loop, on any reference it may read.
LEMMA RecoveryStepInv ==
  ASSUME NEW l, LocalInv(l), l.pc = "rget", NEW s, Faithful(l, s), NEW ref \in OptionalRef
  PROVE  LocalInv(RecoveryStep(l, ref)) /\ Faithful(RecoveryStep(l, ref), s)
<1> DEFINE i == l.st.pending
           c == ref.commit
           against == AnchorVerdict(c, l.st.committed)
           descent == DescentVerdict(c, i.next)
           winner == SupersedingVerdict(c, i.base)
           R == RecoveryStep(l, ref)
           Inv(m) == LocalInv(m) /\ Faithful(m, s)
<1>0. /\ RecoveryBase(l) /\ l.pc \in HoldingLabels /\ l \in Locals
      /\ i \in Intents /\ ValidIntent(i) /\ i.base = l.st.committed
      /\ l.st.committed \in Watermarks
  BY RecoveryBaseInv DEF RecoveryLabels, HoldingLabels, RecoveryBase, Locals, OptionalIntent
<1>1. \A r \in {"rollback", "splitbrain", "limit"} : Inv(Failed(l, r))
  BY FailedInv DEF Results
<1>2. against \in {"ok", "rollback", "splitbrain"} /\ descent \in {"ok", "splitbrain", "limit"}
      /\ winner \in {"ok", "splitbrain", "limit"}
  BY DEF AnchorVerdict, DescentVerdict, SupersedingVerdict
<1>3. ref # None => c \in Commits /\ c \in Watermarks /\ c # <<>>
  BY DEF OptionalRef, Refs, Commits
<1>4. i.next \in Watermarks /\ Ancestor(i.base, i.next)
  BY <1>0, AncestorBase DEF ValidIntent, Intents, Commits
<1>5. ASSUME ref # None, descent = "ok" PROVE Ancestor(l.st.committed, c)
  BY <1>0, <1>3, <1>4, <1>5, DescentIsAncestor, AncestorTransitive
<1>6. ASSUME ref # None, winner = "ok" PROVE Ancestor(l.st.committed, c)
  BY <1>0, <1>3, <1>6, DescentIsAncestor, AncestorBase DEF SupersedingVerdict
<1>7. ASSUME ref # None, Ancestor(l.st.committed, c), NEW o \in {"applied", "superseded"}
      PROVE  Inv(Finalizing(l, c, o))
  BY <1>0, <1>3, <1>7, FinalizingInv DEF Results
<1>8. ASSUME IsObjectOf(ref, l.st.committed), NEW pc \in {"rcas", "rrefresh"},
             pc = "rrefresh" => l.st.committed # <<>>
      PROVE  Inv([l EXCEPT !.pc = pc, !.obs = ref])
  BY Zenon, <1>0, <1>8, RetryInv
<1>9. CASE ref = None
  <2>1. CASE i.base # <<>>
    BY <1>1, <1>9, <2>1 DEF RecoveryStep
  <2>2. CASE i.base = <<>>
    <3>1. R = [l EXCEPT !.pc = "rcas", !.obs = ref]
      BY <1>9, <2>2 DEF RecoveryStep
    <3> QED
      BY <1>0, <1>8, <1>9, <2>2, <3>1 DEF IsObjectOf
  <2> QED
    BY <2>1, <2>2
<1>10. CASE ref # None /\ against # "ok"
  BY <1>1, <1>2, <1>10 DEF RecoveryStep
<1>11. CASE ref # None /\ against = "ok" /\ c = i.next
  <2>1. \/ \E o \in {"applied", "superseded"} : R = Finalizing(l, c, o)
        \/ i.kind = "resign" /\ R = [l EXCEPT !.pc = "rcas", !.obs = ref]
    BY <1>0, <1>11 DEF RecoveryStep, Intents
  <2>2. i.kind = "resign" => IsObjectOf(ref, l.st.committed)
    BY <1>0, <1>3, <1>11 DEF ValidIntent, IsObjectOf
  <2> QED
    BY <1>0, <1>4, <1>7, <1>8, <1>11, <2>1, <2>2
<1>12. CASE ref # None /\ against = "ok" /\ c # i.next /\ Len(c) > Len(i.next)
  <2>1. \/ descent = "ok" /\ \E o \in {"applied", "superseded"} : R = Finalizing(l, c, o)
        \/ descent # "ok" /\ R = Failed(l, descent)
        \/ winner = "ok" /\ R = Finalizing(l, c, "superseded")
        \/ winner # "ok" /\ R = Failed(l, winner)
    BY <1>12 DEF RecoveryStep
  <2> QED
    BY <1>1, <1>2, <1>5, <1>6, <1>7, <1>12, <2>1
<1>13. CASE ref # None /\ against = "ok" /\ c # i.next /\ ~(Len(c) > Len(i.next))
  <2>1. \/ /\ i.base # <<>> /\ c = i.base
           /\ \E pc \in {"rcas", "rrefresh"} : R = [l EXCEPT !.pc = pc, !.obs = ref]
        \/ winner = "ok" /\ R = Finalizing(l, c, "superseded")
        \/ winner # "ok" /\ R = Failed(l, winner)
    BY Zenon, <1>13 DEF RecoveryStep
  <2>2. i.base # <<>> /\ c = i.base => IsObjectOf(ref, l.st.committed) /\ l.st.committed # <<>>
    BY <1>0, <1>13 DEF IsObjectOf
  <2> QED
    BY <1>1, <1>2, <1>6, <1>7, <1>8, <1>13, <2>1, <2>2
<1> QED
  BY <1>9, <1>10, <1>11, <1>12, <1>13

\* classifyResolvedResign.
LEMMA ResignStepInv ==
  ASSUME NEW l, LocalInv(l), l.pc = "rclassify", NEW s, NEW ref
  PROVE  LocalInv(ResignStep(l, ref)) /\ Faithful(ResignStep(l, ref), s)
<1> DEFINE i == l.initial
           c == ref.commit
           verdicts == << AnchorVerdict(c, l.fin),
                          IF Len(c) > Len(l.fin) THEN DescentVerdict(c, l.fin) ELSE "ok",
                          AnchorVerdict(c, i.next),
                          IF c = i.next /\ ref # Reference(i) /\ ref = i.expected
                          THEN "indeterminate" ELSE "ok",
                          IF Len(c) > Len(i.next) THEN DescentVerdict(c, i.next) ELSE "ok" >>
           bad == {k \in 1..5 : verdicts[k] # "ok"}
           first == CHOOSE k \in bad : \A m \in bad : k <= m
<1>1. l.ctx # "none"
  BY DEF LocalInv, ControlInv
<1>2. \A k \in 1..5 : verdicts[k] \in Results
  <2>1. \A x, y : AnchorVerdict(x, y) \in Results /\ DescentVerdict(x, y) \in Results
    BY DEF AnchorVerdict, DescentVerdict, Results
  <2>2. "ok" \in Results /\ "indeterminate" \in Results
    BY DEF Results
  <2>3. /\ verdicts[1] \in Results /\ verdicts[2] \in Results /\ verdicts[3] \in Results
        /\ verdicts[4] \in Results /\ verdicts[5] \in Results
    BY <2>1, <2>2
  <2>4. \A k \in 1..5 : k = 1 \/ k = 2 \/ k = 3 \/ k = 4 \/ k = 5
    OBVIOUS
  <2> HIDE DEF verdicts
  <2> QED
    BY <2>3, <2>4
<1>3. bad # {} => first \in bad
  <2> SUFFICES ASSUME bad # {} PROVE \E k \in bad : \A m \in bad : k <= m
    OBVIOUS
  <2> HIDE DEF verdicts
  <2>1. CASE 1 \in bad
    BY <2>1
  <2>2. CASE 1 \notin bad /\ 2 \in bad
    BY <2>2
  <2>3. CASE 1 \notin bad /\ 2 \notin bad /\ 3 \in bad
    BY <2>3
  <2>4. CASE 1 \notin bad /\ 2 \notin bad /\ 3 \notin bad /\ 4 \in bad
    BY <2>4
  <2>5. CASE 1 \notin bad /\ 2 \notin bad /\ 3 \notin bad /\ 4 \notin bad
    <3>1. \A k \in 1..5 : k = 1 \/ k = 2 \/ k = 3 \/ k = 4 \/ k = 5
      OBVIOUS
    <3> QED
      BY <2>5, <3>1
  <2> QED
    BY <2>1, <2>2, <2>3, <2>4, <2>5
<1>4. ResignStep(l, ref) = IF ref = None THEN Failed(l, "indeterminate")
                           ELSE IF bad # {} THEN Failed(l, verdicts[first])
                           ELSE Resolved(l, IF ref = Reference(i) THEN "applied" ELSE "superseded")
  BY DEF ResignStep
<1>5. bad # {} => verdicts[first] \in Results
  BY Zenon, <1>2, <1>3
<1>6. "indeterminate" \in Results /\ "applied" \in Results /\ "superseded" \in Results
  BY DEF Results
<1> HIDE DEF verdicts, bad, first
<1>7. CASE ref = None
  BY <1>4, <1>6, <1>7, FailedInv
<1>8. CASE ref # None /\ bad # {}
  BY <1>4, <1>5, <1>8, FailedInv
<1>9. CASE ref # None /\ bad = {}
  BY <1>1, <1>4, <1>6, <1>9, ResolvedInv
<1> QED
  BY <1>7, <1>8, <1>9

-----------------------------------------------------------------------------
(* Steps of a stage. *)

LoadedStates == [committed : Watermarks, pending : OptionalIntent]

\* Taking over a journal state that has no pending intent.
LEMMA NothingPendingInv ==
  ASSUME NEW l, LocalInv(l), l.ctx # "none", NEW st \in LoadedStates, st.pending = None,
         NEW rev \in OptionalRevision
  PROVE  /\ LocalInv(NothingPending(l, st, rev))
         /\ NothingPending(l, st, rev).pc \in HoldingLabels =>
              NothingPending(l, st, rev).st = st /\ NothingPending(l, st, rev).rev = rev
<1> DEFINE N == NothingPending(l, st, rev)
           g == [Kept(l) EXCEPT !.pc = "getref", !.st = st, !.rev = rev]
<1>0. l \in Locals /\ Kept(l) \in Locals /\ st.committed \in Watermarks
  BY KeptFacts DEF LocalInv, LoadedStates
<1>1. CASE l.ctx = "recover"
  <2>1. N = Returned(l, "none", st.committed) /\ "none" \in Results
    BY <1>1 DEF NothingPending, Results
  <2>2. N.pc \notin HoldingLabels
    BY <1>0, <2>1, KeptFacts, LabelFacts DEF Returned, Locals
  <2> QED
    BY <1>0, <2>1, <2>2, ReturnedInv
<1>2. CASE l.ctx = "prepare"
  <2>1. N = g
    BY <1>2 DEF NothingPending
  <2>2. "getref" \in Labels /\ "getref" \notin RecoveryLabels
    BY DEF Labels, RecoveryLabels
  <2>3. g \in Locals
    BY Zenon, <1>0, <2>2 DEF Locals, LoadedStates
  <2>4. g.pc = "getref" /\ g.op = l.op /\ g.ctx = l.ctx /\ g.intent = l.intent
        /\ g.st = st /\ g.rev = rev
    BY <1>0, KeptFacts DEF Locals
  <2>5. RecoveryInv(g)
    BY <2>2, <2>4 DEF RecoveryInv
  <2>6. StagingInv(g)
    BY <2>4 DEF StagingInv
  <2>7. ControlInv(g)
    BY <1>2, <2>4 DEF LocalInv, ControlInv
  <2> QED
    BY <2>1, <2>3, <2>4, <2>5, <2>6, <2>7 DEF LocalInv
<1>3. CASE l.ctx = "commit"
  <2>1. N = [Kept(l) EXCEPT !.pc = "noneload"]
    BY <1>3 DEF NothingPending
  <2> QED
    BY Zenon, <1>3, <2>1, MovedInv, LabelFacts
<1> QED
  BY <1>0, <1>1, <1>2, <1>3 DEF Locals

\* Entering a recovery with a journal state that has a pending intent.
LEMMA RecoveringInv ==
  ASSUME NEW l, LocalInv(l), l.ctx # "none", NEW st \in LoadedStates,
         st.pending # None, st.pending.base = st.committed, NEW rev \in OptionalRevision
  PROVE  /\ LocalInv(Recovering(l, st, rev))
         /\ Recovering(l, st, rev).pc \in HoldingLabels =>
              Recovering(l, st, rev).st = st /\ Recovering(l, st, rev).rev = rev
<1> DEFINE g == [Kept(l) EXCEPT !.pc = "rget", !.st = st, !.rev = rev, !.initial = st.pending]
<1>0. l \in Locals /\ Kept(l) \in Locals /\ st.pending \in OptionalIntent
  BY KeptFacts DEF LocalInv, LoadedStates
<1>1. CASE ~ValidIntent(st.pending)
  <2>1. Recovering(l, st, rev) = Failed(l, "splitbrain") /\ "splitbrain" \in Results
    BY <1>1 DEF Recovering, Results
  <2>2. Failed(l, "splitbrain").pc \notin HoldingLabels
    BY <1>0, KeptFacts, LabelFacts DEF Failed, Returned, Locals
  <2> QED
    BY <2>1, <2>2, FailedInv
<1>2. CASE ValidIntent(st.pending)
  <2>1. Recovering(l, st, rev) = g
    BY <1>2 DEF Recovering
  <2>2. "rget" \in Labels /\ "rget" \in RecoveryLabels
    BY DEF Labels, RecoveryLabels
  <2>3. g \in Locals
    BY Zenon, <1>0, <2>2 DEF Locals, LoadedStates
  <2>4. g.pc = "rget" /\ g.op = l.op /\ g.ctx = l.ctx /\ g.intent = l.intent
        /\ g.st = st /\ g.rev = rev /\ g.initial = st.pending
    BY <1>0, KeptFacts DEF Locals
  <2>5. RecoveryBase(g)
    BY <1>2, <2>3, <2>4 DEF RecoveryBase, LocalInv, ControlInv
  <2>6. LocalInv(g)
    BY Zenon, <2>2, <2>4, <2>5, RecoveryBaseInv
  <2> QED
    BY <2>1, <2>4, <2>6
<1> QED
  BY <1>1, <1>2

\* The reference has been accepted into the journal state st.
LEMMA AcceptedInv ==
  ASSUME NEW p \in Publishers, NEW l, LocalInv(l), l.ctx = "prepare",
         NEW st \in LoadedStates, st.pending = None,
         NEW ref \in OptionalRef, IsObjectOf(ref, st.committed),
         l.op = "resign" => ref # None
  PROVE  /\ LocalInv(Accepted(p, l, st, ref))
         /\ Accepted(p, l, st, ref).pc \in HoldingLabels =>
              Accepted(p, l, st, ref).st = st /\ Accepted(p, l, st, ref).rev = l.rev
<1> DEFINE A == Accepted(p, l, st, ref)
           a == [Kept(l) EXCEPT !.st = st, !.rev = l.rev, !.obs = ref]
           i == [kind |-> "resign", base |-> ref.commit, next |-> ref.commit,
                 key |-> KeyOf[p], expected |-> ref]
           build == [a EXCEPT !.pc = "build"]
           begin == [a EXCEPT !.pc = "begin", !.intent = i, !.obs = None]
<1>0. /\ l \in Locals /\ Kept(l) \in Locals /\ l.op \in {"publish", "resign"}
      /\ "exhausted" \in Results /\ "ok" \in Results
      /\ \A r, c : Returned(l, r, c).pc \notin HoldingLabels
  BY KeptFacts, LabelFacts DEF LocalInv, ControlInv, Results, Returned, Locals
<1>1. ref # None => ref.commit \in Commits /\ ref.commit \in Watermarks /\ ref.commit # <<>>
  BY DEF OptionalRef, Refs, Commits
<1>2. a \in Locals
  BY Zenon, <1>0 DEF Locals, LoadedStates
<1>3. a.op = l.op /\ a.ctx = l.ctx /\ a.intent = l.intent /\ a.st = st /\ a.rev = l.rev /\ a.obs = ref
  BY <1>0, KeptFacts DEF Locals
<1> HIDE DEF a
<1>4. CASE l.op = "publish" /\ Exhausted(ref)
  BY <1>0, <1>4, FailedInv DEF Accepted, Failed
<1>5. CASE l.op = "publish" /\ ~Exhausted(ref)
  <2>1. A = build
    BY <1>5 DEF Accepted, a
  <2>2. "build" \in Labels /\ "build" \notin RecoveryLabels
    BY DEF Labels, RecoveryLabels
  <2>3. build \in Locals
    BY <1>2, <2>2 DEF Locals
  <2>4. build.pc = "build" /\ build.op = l.op /\ build.ctx = l.ctx /\ build.intent = l.intent
        /\ build.st = st /\ build.rev = l.rev /\ build.obs = ref
    BY <1>2, <1>3 DEF Locals
  <2>5. Len(st.committed) < MaxGeneration
    <3>1. CASE ref = None
      <4>1. Len(st.committed) = 0
        BY <3>1 DEF IsObjectOf
      <4> QED
        BY <4>1, PublicationAssumption
    <3>2. CASE ref # None
      <4>1. st.committed = ref.commit
        BY <1>1, <3>2 DEF IsObjectOf
      <4>2. Len(ref.commit) \in Nat
        BY <1>1, <3>2 DEF Watermarks, Chains
      <4> QED
        BY <1>5, <3>2, <4>1, <4>2, PublicationAssumption DEF Exhausted
    <3> QED
      BY <3>1, <3>2
  <2>6. RecoveryInv(build)
    BY <2>2, <2>4 DEF RecoveryInv
  <2>7. StagingInv(build)
    BY <2>4, <2>5 DEF StagingInv
  <2>8. ControlInv(build)
    BY <1>0, <2>4 DEF LocalInv, ControlInv
  <2> QED
    BY <2>1, <2>3, <2>4, <2>6, <2>7, <2>8 DEF LocalInv
<1>6. CASE l.op # "publish" /\ ref.key = KeyOf[p]
  BY <1>0, <1>1, <1>6, ReturnedInv DEF Accepted
<1>7. CASE l.op # "publish" /\ ref.key # KeyOf[p]
  <2>0. ref # None /\ st.committed = ref.commit
    BY <1>0, <1>1, <1>7 DEF IsObjectOf
  <2>1. A = begin
    BY <1>7 DEF Accepted, a
  <2>2. "begin" \in Labels /\ "begin" \notin RecoveryLabels
    BY DEF Labels, RecoveryLabels
  <2>3. i \in Intents /\ i \in OptionalIntent /\ i # None
    BY <1>1, <2>0, PublicationAssumption DEF Intents, OptionalIntent
  <2>4. ValidIntent(i) /\ i.base = st.committed
    BY <1>1, <2>0 DEF ValidIntent
  <2> HIDE DEF i
  <2>5. begin \in Locals
    BY Zenon, <1>2, <2>2, <2>3, NilFacts DEF Locals
  <2>6. begin.pc = "begin" /\ begin.op = l.op /\ begin.ctx = l.ctx /\ begin.intent = i
        /\ begin.st = st /\ begin.rev = l.rev
    BY <1>2, <1>3 DEF Locals
  <2>7. RecoveryInv(begin)
    BY <2>2, <2>6 DEF RecoveryInv
  <2>8. StagingInv(begin)
    BY <2>3, <2>4, <2>6 DEF StagingInv
  <2>9. ControlInv(begin)
    BY <1>0, <2>6 DEF LocalInv, ControlInv
  <2> QED
    BY <2>1, <2>5, <2>6, <2>7, <2>8, <2>9 DEF LocalInv
<1> QED
  BY <1>4, <1>5, <1>6, <1>7

\* What a journal that was found holds.
LEMMA LoadedFacts ==
  ASSUME IndInv, NEW p \in Publishers, journal[JournalOf[p]].found
  PROVE  /\ LoadedState(p) \in LoadedStates
         /\ LoadedRevision(p) \in OptionalRevision /\ LoadedRevision(p) # None
         /\ LoadedState(p).pending # None =>
              /\ LoadedState(p).pending \in Intents
              /\ ValidIntent(LoadedState(p).pending)
              /\ LoadedState(p).pending.base = LoadedState(p).committed
<1> DEFINE s == journal[JournalOf[p]]
<1>1. JournalInv(s)
  BY PublicationAssumption DEF IndInv
<1>2. s \in JournalStates /\ s.rev # None
  BY Zenon, <1>1 DEF JournalInv
<1> QED
  BY <1>1, <1>2 DEF JournalInv, ValidJournal, LoadedState, LoadedRevision, LoadedStates,
       JournalStates, OptionalIntent

\* A publisher that goes on with what it has just loaded is faithful to it.
LEMMA HeldFaithful ==
  ASSUME IndInv, NEW p \in Publishers, journal[JournalOf[p]].found, NEW m,
         m.pc \in HoldingLabels => m.st = LoadedState(p) /\ m.rev = LoadedRevision(p)
  PROVE  Faithful(m, journal[JournalOf[p]])
BY LoadedFacts DEF Faithful, LoadedState, LoadedRevision

\* Opening the journal just loaded.
LEMMA OpenedInv ==
  ASSUME IndInv, NEW p \in Publishers, journal[JournalOf[p]].found,
         NEW l, LocalInv(l), l.ctx # "none"
  PROVE  /\ LocalInv(Opened(l, LoadedState(p), LoadedRevision(p)))
         /\ Faithful(Opened(l, LoadedState(p), LoadedRevision(p)), journal[JournalOf[p]])
<1> DEFINE st == LoadedState(p)
           rev == LoadedRevision(p)
<1>1. /\ st \in LoadedStates /\ rev \in OptionalRevision
      /\ st.pending # None => st.pending.base = st.committed
  BY LoadedFacts
<1> HIDE DEF st, rev
<1>2. /\ LocalInv(Opened(l, st, rev))
      /\ Opened(l, st, rev).pc \in HoldingLabels =>
           Opened(l, st, rev).st = st /\ Opened(l, st, rev).rev = rev
  BY <1>1, NothingPendingInv, RecoveringInv DEF Opened
<1> QED
  BY <1>2, HeldFaithful DEF st, rev

\* The refreshed intent is as valid as the one it replaces.
LEMMA RefreshedValid ==
  ASSUME NEW l, LocalInv(l), l.pc \in {"rrefresh", "refreshreload"}
  PROVE  /\ Refreshed(l) \in Intents /\ ValidIntent(Refreshed(l))
         /\ Refreshed(l).base = l.st.committed
<1> DEFINE i == l.st.pending
<1>1. /\ RecoveryBase(l) /\ l \in Locals
      /\ l.st.committed # <<>> /\ IsObjectOf(l.obs, l.st.committed)
  BY Zenon, RecoveryBaseInv DEF LocalInv, RecoveryInv, RecoveryLabels
<1>2. i \in Intents /\ ValidIntent(i) /\ i.base = l.st.committed
      /\ l.obs \in OptionalRef /\ l.obs # None
  BY <1>1 DEF RecoveryBase, Locals, OptionalIntent, IsObjectOf
<1>3. Refreshed(l) \in Intents
  BY <1>2 DEF Refreshed, Intents
<1>4. /\ Refreshed(l).kind = i.kind /\ Refreshed(l).base = i.base /\ Refreshed(l).next = i.next
      /\ Refreshed(l).expected = l.obs
  BY <1>2 DEF Refreshed, Intents
<1> QED
  BY <1>1, <1>2, <1>3, <1>4 DEF ValidIntent

\* The reference CAS of a valid intent asks for a child or another envelope of
\* the object it is conditional on.
LEMMA SwapRequest ==
  ASSUME NEW l, LocalInv(l), l.pc = "rcas"
  PROVE  /\ RequestInv([expected |-> l.obs, new |-> Reference(l.st.pending)])
         /\ Reference(l.st.pending) \in Refs
         /\ l.st.pending.next \in Commits
         /\ Ancestor(l.st.committed, l.st.pending.next)
<1> DEFINE i == l.st.pending
           q == [expected |-> l.obs, new |-> Reference(i)]
<1>1. RecoveryBase(l) /\ l \in Locals /\ IsObjectOf(l.obs, l.st.committed)
  BY RecoveryBaseInv DEF LocalInv, RecoveryInv, RecoveryLabels
<1>2. /\ i \in Intents /\ ValidIntent(i) /\ i.base = l.st.committed
      /\ l.obs \in OptionalRef /\ l.st.committed \in Watermarks
  BY <1>1 DEF RecoveryBase, Locals, OptionalIntent
<1>3. i.next \in Commits /\ i.next \in Watermarks /\ i.kind \in {"publish", "resign"}
      /\ Reference(i) \in Refs /\ Reference(i).commit = i.next
  BY <1>2 DEF Intents, Commits, Reference, Refs
<1>4. Ancestor(l.st.committed, i.next) /\ Len(i.next) <= Len(l.st.committed) + 1
  <2>1. Len(l.st.committed) \in Nat /\ Len(i.next) \in Nat
    BY <1>2, <1>3 DEF Watermarks, Chains
  <2> QED
    BY <1>2, <1>3, <2>1, AncestorBase DEF ValidIntent
<1>5. l.st.committed = IF l.obs = None THEN <<>> ELSE l.obs.commit
  BY <1>1 DEF IsObjectOf
<1>6. q \in [expected : OptionalRef, new : Refs] /\ q.expected = l.obs /\ q.new.commit = i.next
  BY <1>2, <1>3
<1> HIDE DEF q
<1>7. RequestInv(q)
  BY <1>4, <1>5, <1>6 DEF RequestInv
<1> QED
  BY <1>3, <1>4, <1>7 DEF q

-----------------------------------------------------------------------------
(* Where the steps of an operation lead in the invariant of the reports. *)

\* What ReportInv says of one publisher.
Truthful(l, s, c) == RemembersPublished(l, c) /\ RecoversRecorded(l, s)

\* The published commit is a watermark.
LEMMA PublishedIsWatermark == TypeOK => PublishedCommit \in Watermarks
  BY NilFacts DEF TypeOK, PublishedCommit, OptionalRef, Refs, Commits

\* What Kept forgets.
LEMMA KeptForgets ==
  ASSUME NEW l, l \in Locals
  PROVE  /\ Kept(l) \in Locals
         /\ Kept(l).st.committed = <<>> /\ Kept(l).obs = None /\ Kept(l).fin = <<>>
<1>1. Kept(l) \in Locals
  BY KeptFacts
<1>2. Kept(l).st = [committed |-> <<>>, pending |-> None] /\ Kept(l).obs = None /\ Kept(l).fin = <<>>
  BY DEF Kept, Idle
<1> QED
  BY <1>1, <1>2

\* A publisher that remembers nothing but a published commit to report.
LEMMA PlainTruthful ==
  ASSUME NEW m, m.pc \notin RecoveryLabels, m.st.committed = <<>>, m.obs = None,
         NEW c \in Watermarks, Ancestor(m.fin, c), NEW s
  PROVE  Truthful(m, s, c)
BY AncestorBase DEF Truthful, RemembersPublished, RecoversRecorded

\* Returning a published commit to the caller.
LEMMA ReturnedTruthful ==
  ASSUME NEW l, l \in Locals, NEW r, NEW f, NEW c \in Watermarks, Ancestor(f, c), NEW s
  PROVE  Truthful(Returned(l, r, f), s, c)
<1> DEFINE m == Returned(l, r, f)
<1>1. m.pc = "done" /\ m.st.committed = <<>> /\ m.obs = None /\ m.fin = f
  BY KeptForgets DEF Returned, Locals
<1>2. "done" \notin RecoveryLabels
  BY DEF RecoveryLabels
<1> QED
  BY <1>1, <1>2, PlainTruthful

\* An operation that fails reports no commit.
LEMMA FailedTruthful ==
  ASSUME NEW l, l \in Locals, NEW r, NEW c \in Watermarks, NEW s
  PROVE  Truthful(Failed(l, r), s, c)
BY AncestorBase, ReturnedTruthful DEF Failed

\* Going on to a call that depends on nothing but the operation.
LEMMA MovedTruthful ==
  ASSUME NEW l, l \in Locals, NEW pc, pc \notin RecoveryLabels, NEW c \in Watermarks, NEW s
  PROVE  Truthful([Kept(l) EXCEPT !.pc = pc], s, c)
<1> DEFINE m == [Kept(l) EXCEPT !.pc = pc]
<1>1. m.pc = pc /\ m.st.committed = <<>> /\ m.obs = None /\ m.fin = <<>>
  BY KeptForgets DEF Locals
<1> QED
  BY Zenon, <1>1, AncestorBase, PlainTruthful

\* The outcome of a recovery is handed to the caller.
LEMMA ResolvedTruthful ==
  ASSUME NEW l, l \in Locals, NEW outcome, NEW c \in Watermarks, NEW s,
         Ancestor(l.fin, c), outcome = "applied" => Ancestor(l.initial.next, c)
  PROVE  Truthful(Resolved(l, outcome), s, c)
<1>1. CASE l.ctx = "recover"
  BY <1>1, ReturnedTruthful DEF Resolved
<1>2. CASE l.ctx = "prepare"
  <2>1. Resolved(l, outcome) = [Kept(l) EXCEPT !.pc = "reprep"] /\ "reprep" \notin RecoveryLabels
    BY <1>2 DEF Resolved, RecoveryLabels
  <2> QED
    BY <2>1, MovedTruthful
<1>3. CASE l.ctx \notin {"recover", "prepare"}
  <2>1. Resolved(l, outcome) = IF OwnIntentApplied(l, outcome)
                               THEN Returned(l, "ok", l.intent.next) ELSE Failed(l, "conflict")
    BY <1>3 DEF Resolved
  <2>2. OwnIntentApplied(l, outcome) => Ancestor(l.intent.next, c)
    BY DEF OwnIntentApplied, SameSemantics
  <2> QED
    BY <2>1, <2>2, ReturnedTruthful, FailedTruthful
<1> QED
  BY <1>1, <1>2, <1>3

\* classifyResolvedPublication reports from a committed watermark.
LEMMA ClassifiedTruthful ==
  ASSUME NEW l, l \in Locals, NEW i \in Intents, NEW committed \in Watermarks,
         NEW c \in Watermarks, Ancestor(committed, c), NEW s
  PROVE  Truthful(Classified(l, i, committed), s, c)
<1> DEFINE d == [l EXCEPT !.initial = i, !.fin = committed]
           r == [Kept(l) EXCEPT !.pc = "rclassify", !.initial = i, !.fin = committed]
           outcome == PublishOutcome(i, committed)
<1>1. Classified(l, i, committed) \in {Failed(l, "rollback"), r, Failed(l, "limit"), Resolved(d, outcome)}
  BY DEF Classified
<1>2. Truthful(r, s, c)
  <2>1. r.pc = "rclassify" /\ r.st.committed = <<>> /\ r.obs = None /\ r.fin = committed
    BY KeptForgets DEF Locals
  <2>2. "rclassify" \notin RecoveryLabels
    BY DEF RecoveryLabels
  <2> QED
    BY Zenon, <2>1, <2>2, PlainTruthful
<1>3. d \in Locals /\ d.fin = committed /\ d.initial = i
  BY Zenon DEF Locals, OptionalIntent
<1>4. i.next \in Watermarks
  BY DEF Intents, Commits
<1>5. outcome = "applied" => Ancestor(i.next, c)
  <2> SUFFICES ASSUME outcome = "applied" PROVE Ancestor(i.next, c)
    OBVIOUS
  <2>1. committed = i.next \/ DescentVerdict(committed, i.next) = "ok"
    BY DEF PublishOutcome
  <2> QED
    BY <1>4, <2>1, DescentIsAncestor, AncestorTransitive
<1>6. Truthful(Resolved(d, outcome), s, c)
  BY Zenon, <1>3, <1>5, ResolvedTruthful
<1> HIDE DEF d, r, outcome
<1> QED
  BY <1>1, <1>2, <1>6, FailedTruthful

\* Taking over a committed watermark without a pending intent.
LEMMA NothingPendingTruthful ==
  ASSUME NEW l, l \in Locals, NEW st \in LoadedStates, NEW rev,
         NEW c \in Watermarks, Ancestor(st.committed, c), NEW s
  PROVE  Truthful(NothingPending(l, st, rev), s, c)
<1>1. CASE l.ctx = "recover"
  BY <1>1, ReturnedTruthful DEF NothingPending
<1>2. CASE l.ctx = "prepare"
  <2> DEFINE g == [Kept(l) EXCEPT !.pc = "getref", !.st = st, !.rev = rev]
  <2>1. NothingPending(l, st, rev) = g
    BY <1>2 DEF NothingPending
  <2>2. g.pc = "getref" /\ g.st = st /\ g.obs = None /\ g.fin = <<>>
    BY KeptForgets DEF Locals
  <2>3. "getref" \notin RecoveryLabels
    BY DEF RecoveryLabels
  <2> HIDE DEF g
  <2> QED
    BY <2>1, <2>2, <2>3, AncestorBase DEF Truthful, RemembersPublished, RecoversRecorded
<1>3. CASE l.ctx \notin {"recover", "prepare"}
  <2>1. NothingPending(l, st, rev) = [Kept(l) EXCEPT !.pc = "noneload"] /\ "noneload" \notin RecoveryLabels
    BY <1>3 DEF NothingPending, RecoveryLabels
  <2> QED
    BY <2>1, MovedTruthful
<1> QED
  BY <1>1, <1>2, <1>3

\* Entering a recovery of the intent that is pending in the journal.
LEMMA RecoveringTruthful ==
  ASSUME NEW l, l \in Locals, NEW st \in LoadedStates, st.pending # None, NEW rev,
         NEW c \in Watermarks, Ancestor(st.committed, c), NEW s, s.pending = st.pending
  PROVE  Truthful(Recovering(l, st, rev), s, c)
<1> DEFINE g == [Kept(l) EXCEPT !.pc = "rget", !.st = st, !.rev = rev, !.initial = st.pending]
<1>1. CASE ~ValidIntent(st.pending)
  BY <1>1, FailedTruthful DEF Recovering
<1>2. CASE ValidIntent(st.pending)
  <2>1. Recovering(l, st, rev) = g
    BY <1>2 DEF Recovering
  <2>2. g.pc = "rget" /\ g.st = st /\ g.obs = None /\ g.fin = <<>> /\ g.initial = st.pending
    BY KeptForgets DEF Locals
  <2> HIDE DEF g
  <2>3. RemembersPublished(g, c)
    BY <2>2, AncestorBase DEF RemembersPublished
  <2>4. RecoversRecorded(g, s)
    BY <2>2 DEF RecoversRecorded, SameSemantics, Recorded
  <2> QED
    BY <2>1, <2>3, <2>4 DEF Truthful
<1> QED
  BY <1>1, <1>2

\* Opening the journal just loaded.
LEMMA OpenedTruthful ==
  ASSUME NEW l, l \in Locals, NEW st \in LoadedStates, NEW rev,
         NEW c \in Watermarks, Ancestor(st.committed, c), NEW s, s.pending = st.pending
  PROVE  Truthful(Opened(l, st, rev), s, c)
BY NothingPendingTruthful, RecoveringTruthful DEF Opened

\* The reference that was read has been accepted.
LEMMA AcceptedTruthful ==
  ASSUME NEW p \in Publishers, NEW l, l \in Locals, NEW st \in LoadedStates,
         NEW ref \in OptionalRef, l.op # "publish" => ref # None,
         NEW c \in Watermarks, Ancestor(st.committed, c),
         ref # None => Ancestor(ref.commit, c), NEW s
  PROVE  Truthful(Accepted(p, l, st, ref), s, c)
<1> DEFINE A == Accepted(p, l, st, ref)
           a == [Kept(l) EXCEPT !.st = st, !.rev = l.rev, !.obs = ref]
           i == [kind |-> "resign", base |-> ref.commit, next |-> ref.commit,
                 key |-> KeyOf[p], expected |-> ref]
           build == [a EXCEPT !.pc = "build"]
           begin == [a EXCEPT !.pc = "begin", !.intent = i, !.obs = None]
<1>1. a \in Locals /\ a.st = st /\ a.obs = ref /\ a.fin = <<>>
  BY Zenon, KeptForgets DEF Locals, LoadedStates
<1>2. \/ A = Failed(l, "exhausted") \/ A = build
      \/ l.op # "publish" /\ A = Returned(l, "ok", ref.commit)
      \/ A = begin
  BY DEF Accepted
<1> HIDE DEF a, i
<1>3. build.pc = "build" /\ build.st = st /\ build.obs = ref /\ build.fin = <<>>
  BY <1>1 DEF Locals
<1>4. begin.pc = "begin" /\ begin.st = st /\ begin.obs = None /\ begin.fin = <<>>
  BY <1>1 DEF Locals
<1> HIDE DEF A, build, begin
<1>5. Truthful(build, s, c)
  BY <1>3, AncestorBase DEF Truthful, RemembersPublished, RecoversRecorded, RecoveryLabels
<1>6. Truthful(begin, s, c)
  BY <1>4, AncestorBase DEF Truthful, RemembersPublished, RecoversRecorded, RecoveryLabels
<1>7. Truthful(A, s, c)
  BY <1>2, <1>5, <1>6, FailedTruthful, ReturnedTruthful
<1> QED
  BY <1>7 DEF A

\* The reference has been read by a stage or a re-sign.
LEMMA ObservedTruthful ==
  ASSUME NEW p \in Publishers, NEW l, l \in Locals, l.pc = "getref", l.op \in {"publish", "resign"},
         NEW ref \in OptionalRef, NEW c \in Watermarks, RemembersPublished(l, c),
         ref # None => Ancestor(ref.commit, c), NEW s
  PROVE  Truthful(Observed(p, l, ref), s, c)
<1> DEFINE O == Observed(p, l, ref)
           a == [l EXCEPT !.pc = "accept", !.obs = ref]
<1>1. l.st \in LoadedStates /\ Ancestor(l.st.committed, c)
  BY DEF Locals, LoadedStates, RemembersPublished
<1>2. \/ \E r : O = Failed(l, r)
      \/ O = Accepted(p, l, l.st, ref) /\ (l.op # "publish" => ref # None)
      \/ O = a
  BY DEF Observed
<1>3. a.pc = "accept" /\ a.st = l.st /\ a.obs = ref /\ a.fin = l.fin
  BY DEF Locals
<1> HIDE DEF a
<1>4. Truthful(a, s, c)
  BY <1>3 DEF Truthful, RemembersPublished, RecoversRecorded, RecoveryLabels
<1>5. ASSUME O = Accepted(p, l, l.st, ref), l.op # "publish" => ref # None PROVE Truthful(O, s, c)
  BY <1>1, <1>5, AcceptedTruthful
<1>6. ASSUME NEW r, O = Failed(l, r) PROVE Truthful(O, s, c)
  BY <1>6, FailedTruthful
<1> HIDE DEF O
<1>7. Truthful(O, s, c)
  BY <1>2, <1>4, <1>5, <1>6
<1> QED
  BY <1>7 DEF O

\* Two watermarks of one generation, one an ancestor of the other, are the same.
LEMMA SameGeneration ==
  ASSUME NEW a \in Watermarks, NEW b \in Watermarks, Len(a) = Len(b), Ancestor(a, b)
  PROVE  a = b
<1>1. a \in Chains /\ b \in Chains /\ \A k \in 1..Len(a) : a[k] = b[k]
  BY DEF Ancestor, Watermarks
<1> QED
  BY <1>1, ChainsEqual

\* A newer descendant of the anchor passes the descent check or is beyond the walk.
LEMMA AncestorPasses ==
  ASSUME NEW c, NEW anchor, Len(c) \in Nat, Len(anchor) \in Nat, Len(c) > Len(anchor), Ancestor(anchor, c)
  PROVE  DescentVerdict(c, anchor) \in {"ok", "limit"}
<1>1. ~(Len(c) <= Len(anchor))
  OBVIOUS
<1> QED
  BY <1>1 DEF DescentVerdict

\* A recovery that has proved what became of its intent.
LEMMA FinalizingTruthful ==
  ASSUME NEW l, l \in Locals, l.pc \in RecoveryLabels, NEW c \in Watermarks, NEW s,
         Truthful(l, s, c), NEW f, Ancestor(f, c), NEW outcome,
         Len(l.initial.next) <= Len(f),
         outcome = "applied" => Ancestor(l.initial.next, f),
         outcome = "superseded" /\ l.initial.kind = "publish" => ~Ancestor(l.initial.next, f)
  PROVE  Truthful(Finalizing(l, f, outcome), s, c)
<1> DEFINE m == Finalizing(l, f, outcome)
<1>1. m.pc = "rfinal" /\ m.st = l.st /\ m.obs = l.obs /\ m.fin = f /\ m.initial = l.initial
      /\ m.outcome = outcome
  BY DEF Finalizing, Locals
<1> HIDE DEF m
<1>2. RemembersPublished(m, c)
  BY <1>1 DEF Truthful, RemembersPublished
<1>3. RecoversRecorded(m, s)
  BY <1>1 DEF Truthful, RecoversRecorded
<1> QED
  BY <1>2, <1>3 DEF Truthful, m

\* One iteration of the recovery loop on the reference, which is the published commit.
LEMMA RecoveryStepTruthful ==
  ASSUME NEW l, LocalInv(l), l.pc = "rget", NEW ref \in OptionalRef, NEW s,
         NEW c \in Watermarks, c = IF ref = None THEN <<>> ELSE ref.commit,
         Truthful(l, s, c)
  PROVE  Truthful(RecoveryStep(l, ref), s, c)
<1> DEFINE i == l.st.pending
           k == l.initial
           against == AnchorVerdict(c, l.st.committed)
           descent == DescentVerdict(c, i.next)
           R == RecoveryStep(l, ref)
<1>0. /\ l \in Locals /\ l.pc \in RecoveryLabels
      /\ i \in Intents /\ ValidIntent(i) /\ i.base = l.st.committed
      /\ l.st.committed \in Watermarks
  BY RecoveryBaseInv DEF RecoveryLabels, RecoveryBase, Locals, OptionalIntent
<1>1. k.next = i.next /\ k.kind = i.kind
  BY Zenon, <1>0 DEF Truthful, RecoversRecorded, SameSemantics
<1>2. i.next \in Watermarks /\ Len(i.next) \in Nat /\ Len(c) \in Nat /\ Len(i.base) \in Nat
  <2>1. i.next \in Watermarks
    BY <1>0 DEF Intents, Commits
  <2> QED
    BY <1>0, <2>1, WatermarkLength
<1>3. Ancestor(c, c)
  BY AncestorBase
<1>4. ASSUME NEW o, Len(i.next) <= Len(c), o = "applied" => Ancestor(i.next, c),
             o = "superseded" /\ i.kind = "publish" => ~Ancestor(i.next, c)
      PROVE  Truthful(Finalizing(l, c, o), s, c)
  BY Zenon, <1>0, <1>1, <1>3, <1>4, FinalizingTruthful
<1>5. \A r : Truthful(Failed(l, r), s, c)
  BY Zenon, <1>0, FailedTruthful
<1>6. ASSUME NEW pc \in {"rcas", "rrefresh"} PROVE Truthful([l EXCEPT !.pc = pc, !.obs = ref], s, c)
  <2> DEFINE m == [l EXCEPT !.pc = pc, !.obs = ref]
  <2>1. m.pc = pc /\ m.st = l.st /\ m.obs = ref /\ m.fin = l.fin /\ m.initial = l.initial
    BY <1>0 DEF Locals
  <2> HIDE DEF m
  <2>2. RemembersPublished(m, c)
    BY <1>3, <2>1 DEF Truthful, RemembersPublished
  <2>3. RecoversRecorded(m, s)
    BY <1>0, <1>6, <2>1 DEF Truthful, RecoversRecorded
  <2> QED
    BY <2>2, <2>3 DEF Truthful, m
<1>7. CASE ref = None
  <2>1. (\E r : R = Failed(l, r)) \/ R = [l EXCEPT !.pc = "rcas", !.obs = ref]
    BY <1>7 DEF RecoveryStep
  <2> QED
    BY <1>5, <1>6, <2>1
<1>8. CASE ref # None /\ against # "ok"
  <2>1. R = Failed(l, against)
    BY <1>8 DEF RecoveryStep
  <2> QED
    BY <1>5, <2>1
<1>9. CASE ref # None /\ against = "ok" /\ c = i.next
  <2>1. \/ R = Finalizing(l, c, "applied")
        \/ i.kind # "publish" /\ R = Finalizing(l, c, "superseded")
        \/ R = [l EXCEPT !.pc = "rcas", !.obs = ref]
    BY <1>9 DEF RecoveryStep
  <2>2. Len(i.next) <= Len(c) /\ Ancestor(i.next, c)
    BY <1>2, <1>3, <1>9
  <2> QED
    BY <1>4, <1>6, <2>1, <2>2
<1>10. CASE ref # None /\ against = "ok" /\ c # i.next /\ Len(c) > Len(i.next)
  <2>1. \/ descent = "ok" /\ i.kind = "resign" /\ R = Finalizing(l, c, "superseded")
        \/ descent = "ok" /\ R = Finalizing(l, c, "applied")
        \/ \E r : R = Failed(l, r)
        \/ descent \notin {"ok", "limit"} /\ R = Finalizing(l, c, "superseded")
    BY <1>10 DEF RecoveryStep
  <2>2. descent = "ok" => Ancestor(i.next, c)
    BY DescentIsAncestor
  <2>3. descent \notin {"ok", "limit"} => ~Ancestor(i.next, c)
    BY <1>2, <1>10, AncestorPasses
  <2>4. Len(i.next) <= Len(c)
    BY <1>2, <1>10
  <2> QED
    BY <1>4, <1>5, <2>1, <2>2, <2>3, <2>4
<1>11. CASE ref # None /\ against = "ok" /\ c # i.next /\ ~(Len(c) > Len(i.next))
  <2>1. \/ i.base # <<>> /\ c = i.base /\ \E pc \in {"rcas", "rrefresh"} : R = [l EXCEPT !.pc = pc, !.obs = ref]
        \/ \E r : R = Failed(l, r)
        \/ ~(i.base # <<>> /\ c = i.base) /\ R = Finalizing(l, c, "superseded")
    BY Zenon, <1>11 DEF RecoveryStep
  <2>2. ASSUME ~(i.base # <<>> /\ c = i.base) PROVE Len(c) = Len(i.next) /\ ~Ancestor(i.next, c)
    <3>1. c # i.base
      BY <1>11, <2>2 DEF OptionalRef, Refs, Commits
    <3>2. Len(i.base) < Len(c)
      BY <1>0, <1>2, <1>11, <3>1 DEF AnchorVerdict
    <3>3. Len(i.next) <= Len(i.base) + 1
      BY <1>0, <1>2 DEF ValidIntent, Intents
    <3>4. Len(c) = Len(i.next)
      BY <1>2, <1>11, <3>2, <3>3
    <3> QED
      BY <1>2, <1>11, <3>4, SameGeneration
  <2>3. ~(i.base # <<>> /\ c = i.base) => Truthful(Finalizing(l, c, "superseded"), s, c)
    BY <1>2, <1>4, <2>2
  <2> QED
    BY <1>5, <1>6, <2>1, <2>3
<1> QED
  BY <1>7, <1>8, <1>9, <1>10, <1>11

\* classifyResolvedResign on the reference.
LEMMA ResignStepTruthful ==
  ASSUME NEW l, l \in Locals, NEW ref \in OptionalRef, NEW s,
         NEW c \in Watermarks, c = IF ref = None THEN <<>> ELSE ref.commit, Ancestor(l.fin, c)
  PROVE  Truthful(ResignStep(l, ref), s, c)
<1>1. \/ \E r : ResignStep(l, ref) = Failed(l, r)
      \/ ref # None /\ ResignStep(l, ref) = Resolved(l, IF ref = Reference(l.initial) THEN "applied" ELSE "superseded")
  BY Zenon DEF ResignStep
<1>2. ref # None /\ ref = Reference(l.initial) => l.initial.next = c
  BY DEF Reference
<1>3. Ancestor(c, c)
  BY AncestorBase
<1>4. ref # None => Truthful(Resolved(l, IF ref = Reference(l.initial) THEN "applied" ELSE "superseded"), s, c)
  <2>1. CASE ref # Reference(l.initial)
    BY <2>1, ResolvedTruthful
  <2>2. CASE ref # None /\ ref = Reference(l.initial)
    BY <1>2, <1>3, <2>2, ResolvedTruthful
  <2> QED
    BY <2>1, <2>2
<1>5. \A r : Truthful(Failed(l, r), s, c)
  BY FailedTruthful
<1> QED
  BY <1>1, <1>4, <1>5

-----------------------------------------------------------------------------
(* Frames of the steps in the invariant of the reports. *)

\* What is truthful stays so while the channel grows and records stay records.
LEMMA StaysTruthful ==
  ASSUME NEW l, LocalInv(l), NEW s, NEW t, NEW c \in Watermarks, NEW d \in Watermarks,
         Truthful(l, s, c), Ancestor(c, d),
         \A ref \in Refs : Recorded(ref, s) => Recorded(ref, t)
  PROVE  Truthful(l, t, d)
<1>0. l \in Locals
  BY DEF LocalInv
<1>1. l.st.committed \in Watermarks /\ l.fin \in Watermarks
      /\ (l.obs # None => l.obs.commit \in Watermarks)
  BY <1>0 DEF Locals, OptionalRef, Refs, Commits
<1>2. RemembersPublished(l, d)
  BY <1>1, AncestorTransitive DEF Truthful, RemembersPublished
<1>3. RecoversRecorded(l, t)
  <2>1. ASSUME l.pc \in RecoveryLabels PROVE Reference(l.initial) \in Refs
    <3>1. l.initial \in Intents
      BY <1>0, <2>1, RecoveryBaseInv DEF RecoveryBase, Locals, OptionalIntent
    <3> QED
      BY <3>1 DEF Intents, Reference, Refs
  <2> QED
    BY <2>1, Zenon DEF Truthful, RecoversRecorded
<1> QED
  BY <1>2, <1>3 DEF Truthful

\* A step after which each conjunct of ReportInv holds.
LEMMA ReportFrame ==
  ASSUME IndInv, TypeOK', ReportInv, mishaps' = 0 => mishaps = 0,
         mishaps = 0 =>
           /\ Ancestor(PublishedCommit, PublishedCommit')
           /\ \A j \in Journals :
                /\ journal'[j] = journal[j] \/ Ancestor(journal'[j].committed, PublishedCommit')
                /\ journal'[j] = journal[j] \/ journal'[j].found
                /\ \A ref \in Refs : Recorded(ref, journal[j]) => Recorded(ref, journal'[j])
           /\ \A q \in inflight' : q \in inflight \/ \E j \in Journals : Recorded(q.new, journal[j])
           /\ \A p \in Publishers : pub'[p] = pub[p]
                \/ Truthful(pub'[p], journal'[JournalOf[p]], PublishedCommit')
  PROVE  ReportInv'
<1> SUFFICES ASSUME mishaps' = 0
             PROVE  /\ \A p \in Publishers : Ancestor(Checkpoint[p], PublishedCommit')
                    /\ \A j \in Journals : /\ Ancestor(journal'[j].committed, PublishedCommit')
                                           /\ ~journal'[j].found => journal'[j].pending = None
                    /\ \A q \in inflight' : \E j \in Journals : Recorded(q.new, journal'[j])
                    /\ \A p \in Publishers :
                         /\ RemembersPublished(pub'[p], PublishedCommit')
                         /\ RecoversRecorded(pub'[p], journal'[JournalOf[p]])
  BY Zenon DEF ReportInv, RemembersPublished, RecoversRecorded, Recorded, SameSemantics, Reference
<1> DEFINE c == PublishedCommit
           d == PublishedCommit'
<1> TypeOK /\ \A p \in Publishers : LocalInv(pub[p])
  BY DEF IndInv
<1>0. c \in Watermarks /\ d \in Watermarks /\ mishaps = 0 /\ Ancestor(c, d)
  <2>1. d \in Watermarks
    BY NilFacts DEF TypeOK, PublishedCommit, OptionalRef, Refs, Commits
  <2> QED
    BY Zenon, <2>1, PublishedIsWatermark
<1>1. /\ \A p \in Publishers : Ancestor(Checkpoint[p], c)
      /\ \A j \in Journals : /\ Ancestor(journal[j].committed, c)
                             /\ ~journal[j].found => journal[j].pending = None
      /\ \A q \in inflight : \E j \in Journals : Recorded(q.new, journal[j])
      /\ \A p \in Publishers : Truthful(pub[p], journal[JournalOf[p]], c)
  <2>1. mishaps = 0
    BY <1>0
  <2>2. \A p \in Publishers : /\ RemembersPublished(pub[p], PublishedCommit)
                              /\ RecoversRecorded(pub[p], journal[JournalOf[p]])
    BY <2>1, Zenon DEF ReportInv
  <2>3. \A p \in Publishers : Truthful(pub[p], journal[JournalOf[p]], c)
    BY <2>2, Zenon DEF Truthful
  <2>4. \A p \in Publishers : Ancestor(Checkpoint[p], c)
    BY <2>1, Zenon DEF ReportInv
  <2>5. \A j \in Journals : Ancestor(journal[j].committed, c)
    BY <2>1, Zenon DEF ReportInv
  <2>6. \A j \in Journals : ~journal[j].found => journal[j].pending = None
    BY <2>1, Zenon DEF ReportInv
  <2>7. \A q \in inflight : \E j \in Journals : Recorded(q.new, journal[j])
    BY <2>1, Zenon DEF ReportInv
  <2> QED
    BY <2>3, <2>4, <2>5, <2>6, <2>7, Zenon
<1>2. \A p \in Publishers : Ancestor(Checkpoint[p], d)
  BY Zenon, <1>0, <1>1, AncestorTransitive, PublicationAssumption
<1>3. ASSUME NEW j \in Journals
      PROVE  /\ Ancestor(journal'[j].committed, d)
             /\ ~journal'[j].found => journal'[j].pending = None
  <2>1. journal[j].committed \in Watermarks
    BY DEF TypeOK, JournalStates
  <2> QED
    BY Zenon, <1>0, <1>1, <2>1, AncestorTransitive
<1>4. ASSUME NEW q \in inflight' PROVE \E j \in Journals : Recorded(q.new, journal'[j])
  <2>1. q.new \in Refs
    BY DEF TypeOK
  <2> QED
    BY <1>0, <1>1, <2>1
<1>5. ASSUME NEW p \in Publishers PROVE Truthful(pub'[p], journal'[JournalOf[p]], d)
  <2>1. CASE pub'[p] = pub[p]
    <3>1. LocalInv(pub[p]) /\ JournalOf[p] \in Journals
      BY PublicationAssumption
    <3> HIDE DEF c, d
    <3> QED
      BY <1>0, <1>1, <2>1, <3>1, StaysTruthful
  <2> QED
    BY <1>0, <2>1
<1> QED
  BY Zenon, <1>2, <1>3, <1>4, <1>5 DEF Truthful

\* A step of one publisher that leaves the reference, the requests and the journals alone.
LEMMA LocalReport ==
  ASSUME IndInv, IndInv', ReportInv, NEW p \in Publishers, NEW next,
         pub' = [pub EXCEPT ![p] = next], UNCHANGED <<remote, inflight, journal, mishaps>>,
         mishaps = 0 => Truthful(next, journal[JournalOf[p]], PublishedCommit)
  PROVE  ReportInv'
<1>1. TypeOK /\ TypeOK'
  BY DEF IndInv
<1>2. PublishedCommit' = PublishedCommit /\ PublishedCommit \in Watermarks
      /\ Ancestor(PublishedCommit, PublishedCommit)
  BY <1>1, PublishedIsWatermark, AncestorBase DEF PublishedCommit
<1>3. \A q \in Publishers : pub'[q] = pub[q] \/ (pub'[q] = next /\ q = p)
  BY <1>1 DEF TypeOK
<1> QED
  BY <1>1, <1>2, <1>3, ReportFrame

\* A GET of the reference.
LEMMA GetReport ==
  ASSUME IndInv, IndInv', ReportInv, NEW p \in Publishers, NEW next, NEW failure,
         Get(p, next, failure),
         mishaps = 0 => Truthful(next, journal[JournalOf[p]], PublishedCommit)
  PROVE  ReportInv'
<1>1. pub[p] \in Locals /\ PublishedCommit \in Watermarks
  BY PublishedIsWatermark DEF IndInv, TypeOK
<1>2. UNCHANGED <<remote, inflight, journal, mishaps>>
      /\ (pub' = [pub EXCEPT ![p] = next] \/ pub' = [pub EXCEPT ![p] = Failed(pub[p], failure)])
  BY Zenon DEF Get
<1> QED
  BY <1>1, <1>2, FailedTruthful, LocalReport

\* A Load of the journal.
LEMMA LoadReport ==
  ASSUME IndInv, IndInv', ReportInv, NEW p \in Publishers, NEW absent, NEW present,
         Load(p, absent, present),
         mishaps = 0 => Truthful(absent, journal[JournalOf[p]], PublishedCommit),
         journal[JournalOf[p]].found => present \in Locals,
         mishaps = 0 /\ journal[JournalOf[p]].found =>
           Truthful(present, journal[JournalOf[p]], PublishedCommit)
  PROVE  ReportInv'
<1> DEFINE l == pub[p]
           s == journal[JournalOf[p]]
           v == Validated(p, l, s.committed)
           m == [present EXCEPT !.validated = v]
<1>1. l \in Locals /\ PublishedCommit \in Watermarks
  BY PublishedIsWatermark DEF IndInv, TypeOK
<1>2. UNCHANGED <<remote, inflight, journal, mishaps>>
  BY DEF Load
<1>3. \/ ~s.found /\ pub' = [pub EXCEPT ![p] = absent]
      \/ \E r : pub' = [pub EXCEPT ![p] = Failed(l, r)]
      \/ s.found /\ pub' = [pub EXCEPT ![p] = m]
  BY DEF Load
<1>4. ASSUME s.found, mishaps = 0 PROVE Truthful(m, s, PublishedCommit)
  <2>1. /\ m.pc = present.pc /\ m.st = present.st /\ m.obs = present.obs /\ m.fin = present.fin
        /\ m.initial = present.initial /\ m.outcome = present.outcome
    BY <1>4 DEF Locals
  <2>2. Truthful(present, s, PublishedCommit)
    BY <1>4
  <2> HIDE DEF m
  <2> QED
    BY Zenon, <2>1, <2>2 DEF Truthful, RemembersPublished, RecoversRecorded
<1> HIDE DEF m
<1>5. CASE ~s.found /\ pub' = [pub EXCEPT ![p] = absent]
  BY Zenon, <1>2, <1>5, LocalReport
<1>6. ASSUME NEW r, pub' = [pub EXCEPT ![p] = Failed(l, r)] PROVE ReportInv'
  BY Zenon, <1>1, <1>2, <1>6, FailedTruthful, LocalReport
<1>7. CASE s.found /\ pub' = [pub EXCEPT ![p] = m]
  BY Zenon, <1>2, <1>4, <1>7, LocalReport
<1> QED
  BY <1>3, <1>5, <1>6, <1>7

\* A CompareAndSwap of the journal, which keeps a pending publication recorded.
LEMMA SwapReport ==
  ASSUME IndInv, IndInv', ReportInv, NEW p \in Publishers, NEW expected, NEW committed \in Watermarks,
         NEW pending, NEW done, NEW lost, NEW refused,
         JournalSwap(p, expected, committed, pending, done, lost, refused),
         done \in Locals, lost \in Locals,
         mishaps = 0 =>
           /\ Ancestor(committed, PublishedCommit)
           /\ journal[JournalOf[p]].rev = expected /\ journal[JournalOf[p]].pending # None =>
                \/ pending # None /\ Reference(pending) = Reference(journal[JournalOf[p]].pending)
                \/ Len(journal[JournalOf[p]].pending.next) <= Len(committed)
           /\ Truthful(done, journal[JournalOf[p]], PublishedCommit)
           /\ Truthful(lost, journal[JournalOf[p]], PublishedCommit)
           /\ Truthful(refused, journal[JournalOf[p]], PublishedCommit)
  PROVE  ReportInv'
<1> DEFINE j == JournalOf[p]
           cur == journal[j]
           new(r) == [found |-> TRUE, committed |-> committed, pending |-> pending, rev |-> r]
           c == PublishedCommit
<1>1. TypeOK /\ TypeOK' /\ j \in Journals /\ cur \in JournalStates
  BY PublicationAssumption DEF IndInv, TypeOK
<1>2. PublishedCommit' = c /\ c \in Watermarks /\ Ancestor(c, c) /\ UNCHANGED <<inflight, mishaps>>
  BY <1>1, PublishedIsWatermark, AncestorBase DEF PublishedCommit, JournalSwap
<1>3. ASSUME NEW r, journal' = [journal EXCEPT ![j] = new(r)], cur.rev = expected,
             AnchorVerdict(committed, cur.committed) = "ok", mishaps = 0
      PROVE  \A ref \in Refs : Recorded(ref, cur) => Recorded(ref, journal'[j])
  <2> TAKE ref \in Refs
  <2> HAVE Recorded(ref, cur)
  <2>1. journal'[j].pending = pending /\ journal'[j].committed = committed
    BY <1>1, <1>3 DEF TypeOK
  <2>2. Len(cur.committed) \in Nat /\ Len(committed) \in Nat
    <3>1. cur.committed \in Watermarks
      BY <1>1 DEF JournalStates
    <3> QED
      BY <3>1, WatermarkLength
  <2>3. Len(cur.committed) <= Len(committed)
    BY <1>3, <2>2 DEF AnchorVerdict
  <2>4. CASE cur.pending # None /\ Reference(cur.pending) = ref
    <3>1. ref.commit = cur.pending.next
      BY Zenon, <2>4 DEF Reference
    <3> QED
      BY Zenon, <1>3, <2>1, <2>4, <3>1 DEF Recorded
  <2>5. CASE Len(ref.commit) <= Len(cur.committed)
    <3>1. Len(ref.commit) \in Nat
      BY WatermarkLength DEF Refs, Commits
    <3>2. \A x, y, z \in Nat : x <= y /\ y <= z => x <= z
      OBVIOUS
    <3>3. Len(ref.commit) <= Len(committed)
      BY Zenon, <2>2, <2>3, <2>5, <3>1, <3>2
    <3> QED
      BY <2>1, <3>3, Zenon DEF Recorded
  <2> QED
    BY <2>4, <2>5, Zenon DEF Recorded
<1>4. ASSUME NEW r, journal' = [journal EXCEPT ![j] = new(r)], cur.rev = expected,
             AnchorVerdict(committed, cur.committed) = "ok",
             NEW m, pub' = [pub EXCEPT ![p] = m], mishaps = 0 => Truthful(m, cur, c), m \in Locals
      PROVE  ReportInv'
  <2>1. \A q \in Publishers : pub'[q] = pub[q] \/ (pub'[q] = m /\ q = p)
    BY <1>1, <1>4 DEF TypeOK
  <2>2. \A i \in Journals : journal'[i] = journal[i] \/ (i = j /\ journal'[i] = new(r))
    BY Zenon, <1>1, <1>4 DEF TypeOK
  <2>3. mishaps = 0 => \A i \in Journals : \A ref \in Refs : Recorded(ref, journal[i]) => Recorded(ref, journal'[i])
    BY Zenon, <1>3, <1>4, <2>2
  <2>4. mishaps = 0 => Truthful(m, journal'[j], PublishedCommit')
    <3>1. pub'[p] = m /\ LocalInv(m)
      BY <1>1, <1>4 DEF TypeOK, IndInv
    <3> QED
      BY Zenon, <1>1, <1>2, <1>4, <2>3, <3>1, StaysTruthful
  <2>5. new(r).committed = committed /\ new(r).found
    OBVIOUS
  <2> HIDE DEF new
  <2> QED
    BY Zenon, <1>1, <1>2, <2>1, <2>2, <2>3, <2>4, <2>5, ReportFrame
<1>5. ASSUME NEW m, pub' = [pub EXCEPT ![p] = m], journal' = journal,
             mishaps = 0 => Truthful(m, cur, c)
      PROVE  ReportInv'
  BY Zenon, <1>5, LocalReport DEF JournalSwap
<1>6. \/ /\ cur.rev = expected /\ AnchorVerdict(committed, cur.committed) = "ok"
         /\ \E r : /\ journal' = [journal EXCEPT ![j] = new(r)]
                   /\ \/ pub' = [pub EXCEPT ![p] = [done EXCEPT !.rev = r]]
                      \/ pub' = [pub EXCEPT ![p] = lost]
                   /\ r \in Revisions
      \/ /\ journal' = journal
         /\ pub' = [pub EXCEPT ![p] = lost] \/ pub' = [pub EXCEPT ![p] = refused]
  BY Zenon DEF JournalSwap, ValidTransition
<1>7. ASSUME NEW r \in Revisions
      PROVE  /\ [done EXCEPT !.rev = r] \in Locals
             /\ mishaps = 0 => Truthful([done EXCEPT !.rev = r], cur, c)
  <2> DEFINE m == [done EXCEPT !.rev = r]
  <2>1. /\ m \in Locals /\ m.pc = done.pc /\ m.st = done.st /\ m.obs = done.obs /\ m.fin = done.fin
        /\ m.initial = done.initial /\ m.outcome = done.outcome
    BY <1>7 DEF Locals, OptionalRevision
  <2> HIDE DEF m
  <2>2. mishaps = 0 => Truthful(m, cur, c)
    BY Zenon, <2>1 DEF Truthful, RemembersPublished, RecoversRecorded
  <2> QED
    BY <2>1, <2>2 DEF m
<1> HIDE DEF new, cur, c, j
<1> QED
  BY Zenon, <1>4, <1>5, <1>6, <1>7 DEF cur, c, j
=============================================================================
