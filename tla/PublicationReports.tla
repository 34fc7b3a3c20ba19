------------------------- MODULE PublicationReports -------------------------
(***************************************************************************)
(* Proofs about Publication: what publishers and journals report is true,  *)
(* for any number of publishers, journals, generations and faults, as long *)
(* as no operator sets the reference back or deletes a journal.            *)
(***************************************************************************)
EXTENDS PublicationSteps

-----------------------------------------------------------------------------
(* One lemma per action of a recovery. *)

\* What ReportInv says of p and of its journal.
LEMMA ReportFacts ==
  ASSUME IndInv, ReportInv, NEW p \in Publishers
  PROVE  /\ PublishedCommit \in Watermarks /\ Ancestor(PublishedCommit, PublishedCommit)
         /\ PublishedCommit = IF remote = None THEN <<>> ELSE remote.commit
         /\ remote \in OptionalRef
         /\ JournalOf[p] \in Journals /\ JournalInv(journal[JournalOf[p]])
         /\ LocalInv(pub[p]) /\ pub[p] \in Locals /\ Faithful(pub[p], journal[JournalOf[p]])
         /\ mishaps = 0 =>
              /\ Ancestor(Checkpoint[p], PublishedCommit)
              /\ Ancestor(journal[JournalOf[p]].committed, PublishedCommit)
              /\ ~journal[JournalOf[p]].found => journal[JournalOf[p]].pending = None
              /\ Truthful(pub[p], journal[JournalOf[p]], PublishedCommit)
<1>1. /\ TypeOK /\ JournalOf[p] \in Journals /\ JournalInv(journal[JournalOf[p]])
      /\ LocalInv(pub[p]) /\ pub[p] \in Locals /\ Faithful(pub[p], journal[JournalOf[p]])
  BY PublicationAssumption DEF IndInv, TypeOK
<1>2. PublishedCommit \in Watermarks /\ Ancestor(PublishedCommit, PublishedCommit)
  BY <1>1, PublishedIsWatermark, AncestorBase
<1>3. remote \in OptionalRef /\ PublishedCommit = IF remote = None THEN <<>> ELSE remote.commit
  BY <1>1 DEF TypeOK, PublishedCommit
<1>4. ASSUME mishaps = 0
      PROVE  /\ Ancestor(Checkpoint[p], PublishedCommit)
             /\ Ancestor(journal[JournalOf[p]].committed, PublishedCommit)
             /\ ~journal[JournalOf[p]].found => journal[JournalOf[p]].pending = None
             /\ RemembersPublished(pub[p], PublishedCommit)
             /\ RecoversRecorded(pub[p], journal[JournalOf[p]])
  BY <1>1, <1>4 DEF ReportInv
<1> QED
  BY <1>1, <1>2, <1>3, <1>4 DEF Truthful

\* RecoverGet decides on the reference it read.
LEMMA RecoverGetReport ==
  ASSUME IndInv, IndInv', ReportInv, NEW p \in Publishers, RecoverGet(p)
  PROVE  ReportInv'
<1>1. mishaps = 0 => Truthful(RecoveryStep(pub[p], remote), journal[JournalOf[p]], PublishedCommit)
  BY ReportFacts, RecoveryStepTruthful DEF RecoverGet
<1> QED
  BY <1>1, GetReport DEF RecoverGet

\* A recovery that goes on with the same intent remembers what it did.
LEMMA GoesOnTruthful ==
  ASSUME NEW l, NEW m, NEW s, NEW c \in Watermarks, Truthful(l, s, c),
         l.pc \in RecoveryLabels, m.pc \in RecoveryLabels \ {"rfinal", "finalreload"},
         Ancestor(m.st.committed, c), m.obs = l.obs \/ m.obs = None, m.fin = l.fin,
         m.initial = l.initial, SameSemantics(m.st.pending, l.initial)
  PROVE  Truthful(m, s, c)
<1>1. RemembersPublished(m, c)
  BY DEF Truthful, RemembersPublished
<1>2. RecoversRecorded(m, s)
  BY DEF Truthful, RecoversRecorded
<1> QED
  BY <1>1, <1>2 DEF Truthful

\* The refreshed intent is the same publication.
LEMMA RefreshedSame ==
  ASSUME NEW l, LocalInv(l), l.pc \in {"rrefresh", "refreshreload"}
  PROVE  SameSemantics(Refreshed(l), l.st.pending) /\ Reference(Refreshed(l)) = Reference(l.st.pending)
<1>1. RecoveryBase(l) /\ l \in Locals
  BY RecoveryBaseInv DEF LocalInv, RecoveryLabels
<1>2. l.st.pending \in Intents
  BY <1>1 DEF RecoveryBase, Locals, OptionalIntent
<1> QED
  BY <1>2 DEF Refreshed, Intents, SameSemantics, Reference

\* RecoverRefresh keeps the publication pending.
LEMMA RecoverRefreshReport ==
  ASSUME IndInv, IndInv', ReportInv, NEW p \in Publishers, RecoverRefresh(p)
  PROVE  ReportInv'
<1> DEFINE l == pub[p]
           s == journal[JournalOf[p]]
           st == [l.st EXCEPT !.pending = Refreshed(l)]
           done == [l EXCEPT !.pc = "rcas", !.st = st]
           reload == [l EXCEPT !.pc = "refreshreload"]
<1>1. LocalInv(l) /\ l \in Locals /\ l.pc = "rrefresh" /\ Faithful(l, s)
  BY DEF IndInv, LocalInv, RecoverRefresh
<1>2. Refreshed(l) \in OptionalIntent /\ Refreshed(l) # None /\ l.st \in LoadedStates
  <2>1. Refreshed(l) \in Intents /\ Refreshed(l) \in OptionalIntent
    BY <1>1, RefreshedValid DEF OptionalIntent
  <2>2. l.st \in LoadedStates
    BY <1>1 DEF Locals, LoadedStates
  <2>3. None \notin Intents
    BY PublicationAssumption
  <2> QED
    BY <2>1, <2>2, <2>3
<1>3. st \in LoadedStates /\ st.pending = Refreshed(l) /\ st.committed = l.st.committed
      /\ st.committed \in Watermarks
  BY <1>2 DEF LoadedStates
<1>4. JournalSwap(p, l.rev, st.committed, st.pending, done, reload, reload)
  BY DEF RecoverRefresh
<1> HIDE DEF st
<1>5. /\ done \in Locals /\ done.pc = "rcas" /\ done.obs = l.obs /\ done.initial = l.initial
      /\ done.fin = l.fin /\ done.st = st
  BY Zenon, <1>1, <1>3 DEF Locals, LoadedStates, Labels
<1>6. /\ reload \in Locals /\ reload.pc = "refreshreload" /\ reload.obs = l.obs
      /\ reload.initial = l.initial /\ reload.fin = l.fin /\ reload.st = l.st
  BY <1>1 DEF Locals, Labels
<1> HIDE DEF done, reload
<1>7. ASSUME mishaps = 0
      PROVE  /\ Ancestor(st.committed, PublishedCommit)
             /\ Truthful(done, s, PublishedCommit) /\ Truthful(reload, s, PublishedCommit)
  <2>1. PublishedCommit \in Watermarks /\ Truthful(l, s, PublishedCommit)
    BY <1>7, ReportFacts
  <2>2. SameSemantics(l.st.pending, l.initial) /\ Ancestor(l.st.committed, PublishedCommit)
    BY <1>1, <2>1 DEF Truthful, RemembersPublished, RecoversRecorded, RecoveryLabels
  <2>3. SameSemantics(Refreshed(l), l.initial)
    BY <1>1, <2>2, RefreshedSame DEF SameSemantics
  <2> HIDE DEF l, s
  <2> QED
    BY <1>1, <1>3, <1>5, <1>6, <2>1, <2>2, <2>3, GoesOnTruthful DEF RecoveryLabels
<1>8. s.rev = l.rev => s.pending = l.st.pending
  BY <1>1 DEF Faithful, HoldingLabels
<1>9. Reference(st.pending) = Reference(l.st.pending) /\ st.pending # None
  BY <1>1, <1>2, <1>3, RefreshedSame
<1> HIDE DEF l
<1> QED
  BY <1>3, <1>4, <1>5, <1>6, <1>7, <1>8, <1>9, SwapReport

\* RecoverRefreshReload goes on when the refreshed intent is pending.
LEMMA RecoverRefreshReloadReport ==
  ASSUME IndInv, IndInv', ReportInv, NEW p \in Publishers, RecoverRefreshReload(p)
  PROVE  ReportInv'
<1> DEFINE l == pub[p]
           s == journal[JournalOf[p]]
           st == LoadedState(p)
           m == [l EXCEPT !.pc = "rcas", !.st = st, !.rev = LoadedRevision(p)]
           present == IF st.pending = Refreshed(l) THEN m ELSE Failed(l, "conflict")
<1>1. LocalInv(l) /\ l \in Locals /\ l.pc = "refreshreload"
  BY DEF IndInv, LocalInv, RecoverRefreshReload
<1>2. Load(p, Failed(l, "rollback"), present)
  BY DEF RecoverRefreshReload
<1>3. PublishedCommit \in Watermarks
  BY ReportFacts
<1>4. mishaps = 0 => Truthful(Failed(l, "rollback"), s, PublishedCommit)
  BY <1>1, <1>3, FailedTruthful
<1>5. ASSUME s.found
      PROVE  present \in Locals /\ (mishaps = 0 => Truthful(present, s, PublishedCommit))
  <2>1. st \in LoadedStates /\ LoadedRevision(p) \in OptionalRevision
    BY <1>5, LoadedFacts
  <2>2. st.committed = s.committed
    BY DEF LoadedState
  <2> HIDE DEF st
  <2>3. /\ m \in Locals /\ m.pc = "rcas" /\ m.obs = l.obs /\ m.initial = l.initial
        /\ m.fin = l.fin /\ m.st = st
    BY Zenon, <1>1, <2>1 DEF Locals, LoadedStates, Labels
  <2>4. CASE st.pending = Refreshed(l)
    <3>1. ASSUME mishaps = 0 PROVE Truthful(m, s, PublishedCommit)
      <4>1. Ancestor(s.committed, PublishedCommit) /\ Truthful(l, s, PublishedCommit)
        BY <3>1, ReportFacts
      <4>2. SameSemantics(l.st.pending, l.initial)
        BY <1>1, <4>1 DEF Truthful, RecoversRecorded, RecoveryLabels
      <4>3. SameSemantics(Refreshed(l), l.initial)
        BY <1>1, <4>2, RefreshedSame DEF SameSemantics
      <4> HIDE DEF m, l, s
      <4> QED
        BY <1>1, <1>3, <2>2, <2>3, <2>4, <4>1, <4>3, GoesOnTruthful DEF RecoveryLabels
    <3> QED
      BY <2>3, <2>4, <3>1
  <2>5. CASE st.pending # Refreshed(l)
    <3>1. present = Failed(l, "conflict") /\ "conflict" \in Results
      BY <2>5 DEF Results
    <3> QED
      BY <1>1, <1>3, <3>1, FailedTruthful, FailedInv DEF LocalInv
  <2> QED
    BY <2>4, <2>5
<1> HIDE DEF present
<1> QED
  BY <1>2, <1>4, <1>5, LoadReport

\* RecoverSwap: what it publishes was pending, and so is what may land later.
LEMMA RecoverSwapReport ==
  ASSUME IndInv, IndInv', ReportInv, NEW p \in Publishers, RecoverSwap(p)
  PROVE  ReportInv'
<1> DEFINE l == pub[p]
           s == journal[JournalOf[p]]
           i == l.st.pending
           n == [l EXCEPT !.obs = None]
           won == Finalizing(n, Reference(i).commit, "applied")
           lost == SwapUnproven(l)
           q == [expected |-> l.obs, new |-> Reference(i)]
           c == PublishedCommit
<1>0. TypeOK /\ TypeOK'
  BY DEF IndInv
<1>1. /\ LocalInv(l) /\ l \in Locals /\ l.pc = "rcas" /\ l.pc \in RecoveryLabels
      /\ JournalOf[p] \in Journals /\ c \in Watermarks /\ Ancestor(c, c)
  BY ReportFacts DEF RecoverSwap, RecoveryLabels
<1>2. /\ RequestInv(q) /\ i.next \in Commits /\ Reference(i).commit = i.next /\ q.new = Reference(i)
      /\ q.expected = l.obs /\ Reference(i) # None
  BY <1>1, SwapRequest, PublicationAssumption DEF Reference
<1>3. /\ n \in Locals /\ n.pc = l.pc /\ n.st = l.st /\ n.initial = l.initial /\ n.obs = None
      /\ n.fin = l.fin
  BY <1>1, NilFacts DEF Locals
<1>4. /\ lost.pc = "rreload" /\ lost.st = l.st /\ lost.initial = l.initial /\ lost.obs = None
      /\ lost.fin = l.fin
  BY <1>1 DEF SwapUnproven, Locals
<1>5. journal' = journal /\ mishaps' = mishaps
  BY DEF RecoverSwap
<1>6. ASSUME mishaps = 0
      PROVE  /\ Truthful(l, s, c) /\ SameSemantics(i, l.initial)
             /\ Ancestor(l.st.committed, c) /\ Recorded(Reference(i), s)
  <2>1. Truthful(l, s, c)
    BY <1>6, ReportFacts
  <2>2. SameSemantics(i, l.initial) /\ Recorded(Reference(l.initial), s) /\ Ancestor(l.st.committed, c)
    BY <1>1, <2>1 DEF Truthful, RecoversRecorded, RemembersPublished
  <2>3. Reference(l.initial) = Reference(i)
    BY <2>2 DEF SameSemantics, Reference
  <2> QED
    BY <2>1, <2>2, <2>3
<1>7. \A m : pub' = [pub EXCEPT ![p] = m] =>
        \A x \in Publishers : pub'[x] = pub[x] \/ (pub'[x] = m /\ x = p)
  BY <1>0 DEF TypeOK
<1>8. mishaps = 0 => Truthful(lost, s, c)
  <2> HIDE DEF l, s, i, lost, c
  <2> QED
    BY <1>1, <1>4, <1>6, GoesOnTruthful DEF i, RecoveryLabels
<1>9. CASE /\ remote = l.obs /\ remote' = Reference(i) /\ pub' = [pub EXCEPT ![p] = won]
           /\ UNCHANGED inflight
  <2> DEFINE d == PublishedCommit'
  <2>1. d = i.next /\ d \in Watermarks /\ Ancestor(d, d)
    BY <1>2, <1>9, AncestorBase DEF PublishedCommit, Commits
  <2>2. Ancestor(c, d)
    <3>1. Ancestor(IF q.expected = None THEN <<>> ELSE q.expected.commit, q.new.commit)
      BY <1>2 DEF RequestInv
    <3> QED
      BY <1>2, <1>9, <2>1, <3>1 DEF PublishedCommit
  <2>3. ASSUME mishaps = 0 PROVE Truthful(won, s, d)
    <3>1. Truthful(l, s, d)
      <4> HIDE DEF l, s, c, d
      <4> QED
        BY <1>1, <1>6, <2>1, <2>2, <2>3, StaysTruthful
    <3>2. Truthful(n, s, d)
      <4>1. Ancestor(n.st.committed, d)
        BY <1>3, <3>1 DEF Truthful, RemembersPublished
      <4> HIDE DEF l, s, i, n, d
      <4> QED
        BY <1>1, <1>3, <1>6, <2>1, <2>3, <3>1, <4>1, GoesOnTruthful DEF i, RecoveryLabels
    <3>3. n.initial.next = i.next
      BY <1>3, <1>6, <2>3 DEF SameSemantics
    <3>4. Len(i.next) \in Nat
      BY <1>2 DEF Commits, Watermarks, Chains
    <3>5. Len(n.initial.next) <= Len(i.next) /\ Ancestor(n.initial.next, i.next) /\ Ancestor(i.next, d)
      BY <2>1, <3>3, <3>4
    <3> HIDE DEF n, d, s
    <3> QED
      BY <1>1, <1>2, <1>3, <2>1, <3>2, <3>5, FinalizingTruthful
  <2>4. \A x \in Publishers : pub'[x] = pub[x] \/ (pub'[x] = won /\ x = p)
    BY <1>7, <1>9
  <2> HIDE DEF won, l, i
  <2> QED
    BY <1>0, <1>5, <1>9, <2>2, <2>3, <2>4, ReportFrame
<1>10. CASE /\ pub' = [pub EXCEPT ![p] = lost] /\ UNCHANGED <<remote, inflight>>
  <2> HIDE DEF lost
  <2> QED
    BY Zenon, <1>5, <1>8, <1>10, LocalReport
<1>11. CASE /\ pub' = [pub EXCEPT ![p] = lost] /\ inflight' = inflight \cup {q} /\ UNCHANGED remote
  <2>1. PublishedCommit' = c
    BY <1>11 DEF PublishedCommit
  <2>2. \A x \in Publishers : pub'[x] = pub[x] \/ (pub'[x] = lost /\ x = p)
    BY <1>7, <1>11
  <2>3. mishaps = 0 => \A x \in inflight' : x \in inflight \/ \E j \in Journals : Recorded(x.new, journal[j])
    BY <1>1, <1>2, <1>6, <1>11
  <2> HIDE DEF lost, l, q, i
  <2> QED
    BY <1>0, <1>1, <1>5, <1>8, <2>1, <2>2, <2>3, ReportFrame
<1> HIDE DEF n, won, lost, q
<1> QED
  BY <1>9, <1>10, <1>11 DEF RecoverSwap, SwapMatches, n, won, lost, q

\* RecoverReload goes on with the same intent or reports what the journal committed.
LEMMA RecoverReloadReport ==
  ASSUME IndInv, IndInv', ReportInv, NEW p \in Publishers, RecoverReload(p)
  PROVE  ReportInv'
<1> DEFINE l == pub[p]
           s == journal[JournalOf[p]]
           st == LoadedState(p)
           tries == l.tries + 1
           again == [l EXCEPT !.pc = "rget", !.st = st, !.rev = LoadedRevision(p), !.tries = tries]
           present == IF st.pending # None /\ ~SameSemantics(st.pending, l.initial)
                      THEN Failed(l, "conflict")
                      ELSE IF LastTry(l) THEN Failed(l, "indeterminate")
                      ELSE IF st.pending = None THEN Classified(l, l.initial, st.committed)
                      ELSE again
<1>1. LocalInv(l) /\ l \in Locals /\ l.pc = "rreload"
  BY DEF IndInv, LocalInv, RecoverReload
<1>2. l.initial \in Intents /\ l.ctx # "none"
  BY <1>1, RecoveryBaseInv DEF RecoveryLabels, RecoveryBase, Locals, OptionalIntent
<1>3. Load(p, Failed(l, "rollback"), present) /\ PublishedCommit \in Watermarks
  BY ReportFacts DEF RecoverReload
<1>4. ASSUME s.found
      PROVE  present \in Locals /\ (mishaps = 0 => Truthful(present, s, PublishedCommit))
  <2>1. /\ st \in LoadedStates /\ LoadedRevision(p) \in OptionalRevision
        /\ st.committed \in Watermarks /\ tries \in Nat
    BY <1>1, <1>4, LoadedFacts DEF LoadedStates, Locals
  <2>2. st.committed = s.committed /\ st.pending = s.pending
    BY DEF LoadedState
  <2> HIDE DEF st, tries
  <2>3. CASE present = Failed(l, "conflict") \/ present = Failed(l, "indeterminate")
    BY <1>1, <1>3, <2>3, FailedTruthful, FailedInv DEF LocalInv, Results
  <2>4. CASE present = Classified(l, l.initial, st.committed)
    <3>1. present \in Locals
      BY <1>1, <1>2, <2>1, <2>4, ClassifiedInv DEF LocalInv
    <3>2. mishaps = 0 => Ancestor(st.committed, PublishedCommit)
      BY <2>2, ReportFacts
    <3> QED
      BY <1>1, <1>2, <1>3, <2>1, <2>4, <3>1, <3>2, ClassifiedTruthful
  <2>5. CASE present = again /\ st.pending # None /\ SameSemantics(st.pending, l.initial)
    <3>1. /\ again \in Locals /\ again.pc = "rget" /\ again.obs = l.obs /\ again.initial = l.initial
          /\ again.fin = l.fin /\ again.st = st
      BY Zenon, <1>1, <2>1 DEF Locals, LoadedStates, Labels
    <3>2. mishaps = 0 => Ancestor(st.committed, PublishedCommit) /\ Truthful(l, s, PublishedCommit)
      BY <2>2, ReportFacts
    <3> HIDE DEF l, s, again, present
    <3>3. mishaps = 0 => Truthful(again, s, PublishedCommit)
      BY <1>1, <1>3, <2>5, <3>1, <3>2, GoesOnTruthful DEF RecoveryLabels
    <3> QED
      BY <2>5, <3>1, <3>3
  <2> QED
    BY <2>3, <2>4, <2>5
<1>5. Truthful(Failed(l, "rollback"), s, PublishedCommit)
  BY <1>1, <1>3, FailedTruthful
<1> HIDE DEF present
<1> QED
  BY <1>3, <1>4, <1>5, LoadReport

\* RecoverFinalize clears the pending slot of a publication whose generation is taken.
LEMMA RecoverFinalizeReport ==
  ASSUME IndInv, IndInv', ReportInv, NEW p \in Publishers, RecoverFinalize(p)
  PROVE  ReportInv'
<1> DEFINE l == pub[p]
           s == journal[JournalOf[p]]
           done == Resolved(l, l.outcome)
           reload == [l EXCEPT !.pc = "finalreload"]
<1>1. LocalInv(l) /\ l \in Locals /\ l.pc = "rfinal" /\ Faithful(l, s) /\ PublishedCommit \in Watermarks
  BY ReportFacts DEF RecoverFinalize
<1>2. l.ctx # "none" /\ l.outcome \in Results /\ l.fin \in Watermarks /\ l.initial \in Intents
  BY <1>1, RecoveryBaseInv DEF RecoveryLabels, RecoveryBase, Locals, OptionalIntent
<1>3. JournalSwap(p, l.rev, l.fin, None, done, reload, reload)
  BY DEF RecoverFinalize
<1>4. done \in Locals
  BY <1>1, <1>2, ResolvedInv DEF LocalInv
<1>5. /\ reload \in Locals /\ reload.pc = "finalreload" /\ reload.obs = l.obs
      /\ reload.initial = l.initial /\ reload.fin = l.fin /\ reload.st = l.st
      /\ reload.outcome = l.outcome
  BY <1>1 DEF Locals, Labels
<1>6. s.rev = l.rev => s.pending = l.st.pending
  BY <1>1 DEF Faithful, HoldingLabels
<1> HIDE DEF reload
<1>7. ASSUME mishaps = 0
      PROVE  /\ Ancestor(l.fin, PublishedCommit) /\ Len(l.st.pending.next) <= Len(l.fin)
             /\ Truthful(done, s, PublishedCommit) /\ Truthful(reload, s, PublishedCommit)
  <2>1. Truthful(l, s, PublishedCommit)
    BY <1>7, ReportFacts
  <2>2. /\ Ancestor(l.fin, PublishedCommit) /\ SameSemantics(l.st.pending, l.initial)
        /\ Len(l.initial.next) <= Len(l.fin)
        /\ l.outcome = "applied" => Ancestor(l.initial.next, l.fin)
    BY <1>1, <2>1 DEF Truthful, RemembersPublished, RecoversRecorded, RecoveryLabels
  <2>3. l.initial.next \in Watermarks
    BY <1>2 DEF Intents, Commits
  <2>4. l.outcome = "applied" => Ancestor(l.initial.next, PublishedCommit)
    BY <1>1, <1>2, <2>2, <2>3, AncestorTransitive
  <2>5. Truthful(done, s, PublishedCommit)
    BY <1>1, <2>2, <2>4, ResolvedTruthful
  <2>6. Truthful(reload, s, PublishedCommit)
    BY <1>1, <1>5, <2>1 DEF Truthful, RemembersPublished, RecoversRecorded, RecoveryLabels
  <2> QED
    BY <2>2, <2>5, <2>6 DEF SameSemantics
<1> HIDE DEF done
<1> QED
  BY <1>2, <1>3, <1>4, <1>5, <1>6, <1>7, SwapReport

\* RecoverFinalizeReload reports the outcome once it is recorded.
LEMMA RecoverFinalizeReloadReport ==
  ASSUME IndInv, IndInv', ReportInv, NEW p \in Publishers, RecoverFinalizeReload(p)
  PROVE  ReportInv'
<1> DEFINE l == pub[p]
           s == journal[JournalOf[p]]
           st == LoadedState(p)
           present == IF st.pending = None /\ st.committed = l.fin
                      THEN Resolved(l, l.outcome) ELSE Failed(l, "indeterminate")
<1>1. LocalInv(l) /\ l \in Locals /\ l.pc = "finalreload" /\ PublishedCommit \in Watermarks
  BY ReportFacts DEF RecoverFinalizeReload
<1>2. l.ctx # "none" /\ l.outcome \in Results /\ l.fin \in Watermarks /\ l.initial \in Intents
  BY <1>1, RecoveryBaseInv DEF RecoveryLabels, RecoveryBase, Locals, OptionalIntent
<1>3. Load(p, Failed(l, "indeterminate"), present)
  BY DEF RecoverFinalizeReload
<1>4. present \in Locals
  BY <1>1, <1>2, ResolvedInv, FailedInv DEF LocalInv, Results
<1>5. Truthful(Failed(l, "indeterminate"), s, PublishedCommit)
  BY <1>1, FailedTruthful
<1>6. ASSUME mishaps = 0 PROVE Truthful(present, s, PublishedCommit)
  <2>1. Truthful(l, s, PublishedCommit)
    BY <1>6, ReportFacts
  <2>2. /\ Ancestor(l.fin, PublishedCommit)
        /\ l.outcome = "applied" => Ancestor(l.initial.next, l.fin)
    BY <1>1, <2>1 DEF Truthful, RemembersPublished, RecoversRecorded, RecoveryLabels
  <2>3. l.initial.next \in Watermarks
    BY <1>2 DEF Intents, Commits
  <2>4. l.outcome = "applied" => Ancestor(l.initial.next, PublishedCommit)
    BY <1>1, <1>2, <2>2, <2>3, AncestorTransitive
  <2>5. Truthful(Resolved(l, l.outcome), s, PublishedCommit)
    BY <1>1, <2>2, <2>4, ResolvedTruthful
  <2> QED
    BY <1>5, <2>5
<1> HIDE DEF present
<1> QED
  BY <1>3, <1>4, <1>5, <1>6, LoadReport

\* ClassifyResolvedResign reports on the reference it read.
LEMMA ClassifyResolvedResignReport ==
  ASSUME IndInv, IndInv', ReportInv, NEW p \in Publishers, ClassifyResolvedResign(p)
  PROVE  ReportInv'
<1>1. mishaps = 0 => Ancestor(pub[p].fin, PublishedCommit)
  BY ReportFacts DEF Truthful, RemembersPublished
<1>2. mishaps = 0 => Truthful(ResignStep(pub[p], remote), journal[JournalOf[p]], PublishedCommit)
  BY <1>1, ReportFacts, ResignStepTruthful
<1> QED
  BY <1>2, GetReport DEF ClassifyResolvedResign

-----------------------------------------------------------------------------
(* One lemma per action of a stage, a commit or a re-sign. *)

\* Opening a journal that was found.
LEMMA OpenedReport ==
  ASSUME IndInv, ReportInv, NEW p \in Publishers, journal[JournalOf[p]].found,
         NEW l, LocalInv(l), l.ctx # "none", NEW O, O = Opened(l, LoadedState(p), LoadedRevision(p))
  PROVE  /\ O \in Locals
         /\ mishaps = 0 => Truthful(O, journal[JournalOf[p]], PublishedCommit)
<1>1. O \in Locals
  BY OpenedInv DEF LocalInv
<1>2. /\ LoadedState(p) \in LoadedStates /\ l \in Locals /\ PublishedCommit \in Watermarks
      /\ LoadedState(p).committed = journal[JournalOf[p]].committed
      /\ LoadedState(p).pending = journal[JournalOf[p]].pending
  BY Zenon, LoadedFacts, ReportFacts DEF LoadedState, LocalInv
<1>3. mishaps = 0 => Ancestor(LoadedState(p).committed, PublishedCommit)
  BY <1>2, ReportFacts
<1>4. mishaps = 0 => Truthful(O, journal[JournalOf[p]], PublishedCommit)
  BY <1>2, <1>3, OpenedTruthful
<1> QED
  BY <1>1, <1>4

\* LoadJournal opens the journal.
LEMMA LoadJournalReport ==
  ASSUME IndInv, IndInv', ReportInv, NEW p \in Publishers, LoadJournal(p)
  PROVE  ReportInv'
<1> DEFINE l == pub[p]
           s == journal[JournalOf[p]]
           st == LoadedState(p)
           untrusted == Checkpoint[p] = <<>> /\ ~FirstUse[p]
           absent == IF untrusted THEN Failed(l, "trust") ELSE [Kept(l) EXCEPT !.pc = "init"]
           opened == Opened(l, st, LoadedRevision(p))
           present == IF untrusted /\ st.committed = <<>> /\ st.pending = None
                      THEN Failed(l, "trust") ELSE opened
<1>1. LocalInv(l) /\ l \in Locals /\ l.pc = "load" /\ PublishedCommit \in Watermarks
  BY ReportFacts DEF LoadJournal
<1>2. l.ctx # "none"
  BY <1>1 DEF LocalInv, ControlInv
<1>3. Load(p, absent, present)
  BY DEF LoadJournal
<1>4. Truthful(absent, s, PublishedCommit)
  <2>1. "init" \notin RecoveryLabels
    BY DEF RecoveryLabels
  <2> QED
    BY <1>1, <2>1, FailedTruthful, MovedTruthful
<1>5. s.found => opened \in Locals /\ (mishaps = 0 => Truthful(opened, s, PublishedCommit))
  BY <1>1, <1>2, OpenedReport
<1>6. Failed(l, "trust") \in Locals /\ Truthful(Failed(l, "trust"), s, PublishedCommit)
  BY <1>1, FailedInv, FailedTruthful DEF LocalInv, Results
<1>7. s.found => present \in Locals /\ (mishaps = 0 => Truthful(present, s, PublishedCommit))
  <2> HIDE DEF opened
  <2> QED
    BY <1>5, <1>6
<1> HIDE DEF absent, present
<1> QED
  BY <1>3, <1>4, <1>7, LoadReport

\* A stage that moves on to a reload.
LEMMA ReloadTruthful ==
  ASSUME NEW l, l \in Locals, NEW pc \in {"initreload", "acceptreload", "acceptretry", "beginreload"},
         NEW s, NEW c, Truthful(l, s, c), NEW m, m = [l EXCEPT !.pc = pc]
  PROVE  m \in Locals /\ Truthful(m, s, c)
<1>1. m \in Locals /\ m.pc = pc /\ m.st = l.st /\ m.obs = l.obs /\ m.fin = l.fin
  BY DEF Locals, Labels
<1> QED
  BY <1>1 DEF Truthful, RemembersPublished, RecoversRecorded, RecoveryLabels

\* InitializeJournal starts from the trusted checkpoint.
LEMMA InitializeJournalReport ==
  ASSUME IndInv, IndInv', ReportInv, NEW p \in Publishers, InitializeJournal(p)
  PROVE  ReportInv'
<1> DEFINE l == pub[p]
           s == journal[JournalOf[p]]
           st == [committed |-> Checkpoint[p], pending |-> None]
           v == Validated(p, l, Checkpoint[p])
           m == [l EXCEPT !.validated = v]
           opened == NothingPending(m, st, None)
           reload == [l EXCEPT !.pc = "initreload"]
<1>1. LocalInv(l) /\ l \in Locals /\ l.pc = "init" /\ PublishedCommit \in Watermarks
      /\ Checkpoint[p] \in Watermarks
  BY ReportFacts, PublicationAssumption DEF InitializeJournal
<1>2. l.ctx # "none"
  BY <1>1 DEF LocalInv, ControlInv
<1>3. JournalSwap(p, None, Checkpoint[p], None, opened, reload, reload)
  BY DEF InitializeJournal
<1>4. st \in LoadedStates /\ st.committed = Checkpoint[p] /\ st.pending = None
  BY <1>1, NilFacts DEF LoadedStates
<1>5. v \in Watermarks
  BY <1>1 DEF Validated, Locals
<1> HIDE DEF st, v
<1>6. LocalInv(m) /\ m \in Locals /\ m.ctx = l.ctx
  <2>1. Faithful(l, s)
    BY ReportFacts
  <2> QED
    BY <1>1, <1>5, <2>1, ValidatedInv DEF LocalInv, Locals
<1> HIDE DEF m
<1>7. opened \in Locals
  BY <1>2, <1>4, <1>6, NothingPendingInv, NilFacts DEF LocalInv
<1>8. reload \in Locals
  BY <1>1 DEF Locals, Labels
<1>9. ASSUME mishaps = 0
      PROVE  /\ Ancestor(Checkpoint[p], PublishedCommit) /\ Truthful(opened, s, PublishedCommit)
             /\ Truthful(reload, s, PublishedCommit)
             /\ s.rev = None => s.pending = None
  <2>1. /\ Ancestor(Checkpoint[p], PublishedCommit) /\ Truthful(l, s, PublishedCommit)
        /\ JournalInv(s) /\ (~s.found => s.pending = None)
    BY <1>9, ReportFacts
  <2>2. s.rev = None => s.pending = None
    BY Zenon, <2>1 DEF JournalInv
  <2>3. Truthful(opened, s, PublishedCommit)
    BY <1>1, <1>4, <1>6, <2>1, NothingPendingTruthful
  <2>4. Truthful(reload, s, PublishedCommit)
    BY <1>1, <2>1, ReloadTruthful
  <2> QED
    BY <2>1, <2>2, <2>3, <2>4
<1> HIDE DEF opened, reload
<1> QED
  BY <1>1, <1>3, <1>7, <1>8, <1>9, SwapReport

\* InitializeReload opens the journal somebody initialized.
LEMMA InitializeReloadReport ==
  ASSUME IndInv, IndInv', ReportInv, NEW p \in Publishers, InitializeReload(p)
  PROVE  ReportInv'
<1> DEFINE l == pub[p]
           s == journal[JournalOf[p]]
           present == Opened(l, LoadedState(p), LoadedRevision(p))
<1>1. LocalInv(l) /\ l \in Locals /\ l.pc = "initreload" /\ PublishedCommit \in Watermarks
  BY ReportFacts DEF InitializeReload
<1>2. l.ctx # "none"
  BY <1>1 DEF LocalInv, ControlInv
<1>3. Load(p, Failed(l, "error"), present)
  BY DEF InitializeReload
<1>4. Truthful(Failed(l, "error"), s, PublishedCommit)
  BY <1>1, FailedTruthful
<1>5. s.found => present \in Locals /\ (mishaps = 0 => Truthful(present, s, PublishedCommit))
  BY <1>1, <1>2, OpenedReport
<1> HIDE DEF present
<1> QED
  BY <1>3, <1>4, <1>5, LoadReport

\* PrepareReload takes over a journal whose slot is free.
LEMMA PrepareReloadReport ==
  ASSUME IndInv, IndInv', ReportInv, NEW p \in Publishers, PrepareReload(p)
  PROVE  ReportInv'
<1> DEFINE l == pub[p]
           s == journal[JournalOf[p]]
           st == LoadedState(p)
           present == IF st.pending = None THEN NothingPending(l, st, LoadedRevision(p))
                      ELSE Failed(l, "indeterminate")
<1>1. LocalInv(l) /\ l \in Locals /\ l.pc = "reprep" /\ PublishedCommit \in Watermarks
  BY ReportFacts DEF PrepareReload
<1>2. l.ctx # "none"
  BY <1>1 DEF LocalInv, ControlInv
<1>3. Load(p, Failed(l, "indeterminate"), present)
  BY DEF PrepareReload
<1>4. Truthful(Failed(l, "indeterminate"), s, PublishedCommit) /\ Failed(l, "indeterminate") \in Locals
  BY <1>1, FailedTruthful, FailedInv DEF LocalInv, Results
<1>5. ASSUME s.found
      PROVE  present \in Locals /\ (mishaps = 0 => Truthful(present, s, PublishedCommit))
  <2>1. st \in LoadedStates /\ LoadedRevision(p) \in OptionalRevision
    BY <1>5, LoadedFacts
  <2>2. mishaps = 0 => Ancestor(st.committed, PublishedCommit)
    BY ReportFacts DEF LoadedState
  <2> HIDE DEF st
  <2>3. CASE st.pending = None
    BY Zenon, <1>1, <1>2, <2>1, <2>2, <2>3, NothingPendingInv, NothingPendingTruthful DEF LocalInv
  <2>4. CASE st.pending # None
    BY <1>4, <2>4
  <2> QED
    BY <2>3, <2>4
<1> HIDE DEF present
<1> QED
  BY <1>3, <1>4, <1>5, LoadReport

\* ReadReference reads the published commit.
LEMMA ReadReferenceReport ==
  ASSUME IndInv, IndInv', ReportInv, NEW p \in Publishers, ReadReference(p)
  PROVE  ReportInv'
<1>1. /\ LocalInv(pub[p]) /\ pub[p] \in Locals /\ pub[p].pc = "getref"
      /\ PublishedCommit \in Watermarks /\ remote \in OptionalRef
  BY ReportFacts DEF ReadReference
<1>2. pub[p].op \in {"publish", "resign"}
  BY <1>1 DEF LocalInv, ControlInv, StagingLabels
<1>3. remote # None => Ancestor(remote.commit, PublishedCommit)
  BY ReportFacts
<1>4. mishaps = 0 => RemembersPublished(pub[p], PublishedCommit)
  BY ReportFacts DEF Truthful
<1>5. mishaps = 0 => Truthful(Observed(p, pub[p], remote), journal[JournalOf[p]], PublishedCommit)
  BY <1>1, <1>2, <1>3, <1>4, ObservedTruthful
<1> QED
  BY <1>5, GetReport DEF ReadReference

\* AcceptObserved records a reference that was read.
LEMMA AcceptObservedReport ==
  ASSUME IndInv, IndInv', ReportInv, NEW p \in Publishers, AcceptObserved(p)
  PROVE  ReportInv'
<1> DEFINE l == pub[p]
           s == journal[JournalOf[p]]
           st == [committed |-> l.obs.commit, pending |-> None]
           done == Accepted(p, l, st, l.obs)
           lost == [l EXCEPT !.pc = "acceptreload"]
           refused == [l EXCEPT !.pc = "acceptretry"]
<1>1. /\ LocalInv(l) /\ l \in Locals /\ l.pc = "accept" /\ Faithful(l, s)
      /\ PublishedCommit \in Watermarks
  BY ReportFacts DEF AcceptObserved
<1>2. l.ctx = "prepare" /\ l.st.pending = None /\ l.obs # None /\ l.obs \in OptionalRef
  BY Zenon, <1>1 DEF LocalInv, ControlInv, StagingInv, StagingLabels, Locals
<1>3. l.obs.commit \in Watermarks /\ l.obs.commit # <<>>
  BY <1>2 DEF OptionalRef, Refs, Commits
<1>4. st \in LoadedStates /\ st.committed = l.obs.commit /\ st.pending = None
  BY <1>3, NilFacts DEF LoadedStates
<1>5. JournalSwap(p, l.rev, st.committed, None, done, lost, refused)
  BY DEF AcceptObserved
<1> HIDE DEF st
<1>6. done \in Locals
  BY <1>1, <1>2, <1>3, <1>4, AcceptedInv DEF LocalInv, IsObjectOf
<1>7. lost \in Locals
  BY <1>1 DEF Locals, Labels
<1>8. s.rev = l.rev => s.pending = None
  BY <1>1, <1>2 DEF Faithful, HoldingLabels
<1>9. ASSUME mishaps = 0
      PROVE  /\ Ancestor(st.committed, PublishedCommit) /\ Truthful(done, s, PublishedCommit)
             /\ Truthful(lost, s, PublishedCommit) /\ Truthful(refused, s, PublishedCommit)
  <2>1. Truthful(l, s, PublishedCommit)
    BY <1>9, ReportFacts
  <2>2. Ancestor(l.obs.commit, PublishedCommit)
    BY <1>2, <2>1 DEF Truthful, RemembersPublished
  <2>3. Truthful(done, s, PublishedCommit)
    BY <1>1, <1>2, <1>4, <2>2, AcceptedTruthful
  <2>4. Truthful(lost, s, PublishedCommit) /\ Truthful(refused, s, PublishedCommit)
    BY <1>1, <2>1, ReloadTruthful
  <2> QED
    BY <1>4, <2>2, <2>3, <2>4
<1>10. st.committed \in Watermarks
  BY <1>3, <1>4
<1> HIDE DEF done, lost, refused
<1> QED
  BY <1>5, <1>6, <1>7, <1>8, <1>9, <1>10, SwapReport

\* AcceptReload goes on when the reference was recorded.
LEMMA AcceptReloadReport ==
  ASSUME IndInv, IndInv', ReportInv, NEW p \in Publishers, AcceptReload(p)
  PROVE  ReportInv'
<1> DEFINE l == pub[p]
           s == journal[JournalOf[p]]
           st == LoadedState(p)
           r == IF l.pc = "acceptretry" THEN "conflict" ELSE "error"
           m == [l EXCEPT !.rev = LoadedRevision(p)]
           accepted == Accepted(p, m, st, l.obs)
           present == IF st.pending = None /\ st.committed = l.obs.commit THEN accepted ELSE Failed(l, r)
<1>1. /\ LocalInv(l) /\ l \in Locals /\ l.pc \in {"acceptreload", "acceptretry"}
      /\ PublishedCommit \in Watermarks
  BY ReportFacts DEF AcceptReload
<1>2. l.ctx = "prepare" /\ l.st.pending = None /\ l.obs # None /\ l.obs \in OptionalRef
  BY Zenon, <1>1 DEF LocalInv, ControlInv, StagingInv, StagingLabels, Locals
<1>3. l.obs.commit # <<>>
  BY <1>2 DEF OptionalRef, Refs, Commits
<1>4. Load(p, Failed(l, r), present)
  BY DEF AcceptReload
<1>5. Truthful(Failed(l, r), s, PublishedCommit) /\ Failed(l, r) \in Locals
  BY <1>1, FailedTruthful, FailedInv DEF LocalInv, Results
<1>6. ASSUME s.found
      PROVE  present \in Locals /\ (mishaps = 0 => Truthful(present, s, PublishedCommit))
  <2>1. st \in LoadedStates /\ LoadedRevision(p) \in OptionalRevision
    BY <1>6, LoadedFacts
  <2>2. mishaps = 0 => Ancestor(st.committed, PublishedCommit)
    BY ReportFacts DEF LoadedState
  <2> HIDE DEF st
  <2>3. LocalInv(m) /\ m \in Locals /\ m.ctx = l.ctx /\ m.op = l.op
    <3>1. /\ m \in Locals /\ m.pc = l.pc /\ m.op = l.op /\ m.ctx = l.ctx /\ m.st = l.st
          /\ m.initial = l.initial /\ m.intent = l.intent /\ m.obs = l.obs /\ m.fin = l.fin
      BY <1>1, <2>1 DEF Locals
    <3> HIDE DEF m
    <3> QED
      BY Zenon, <1>1, <3>1 DEF LocalInv, RecoveryInv, StagingInv, ControlInv
  <2> HIDE DEF m
  <2>4. CASE st.pending = None /\ st.committed = l.obs.commit
    <3>1. IsObjectOf(l.obs, st.committed)
      BY <1>2, <1>3, <2>4 DEF IsObjectOf
    <3>2. accepted \in Locals
      BY <1>2, <2>1, <2>3, <2>4, <3>1, AcceptedInv DEF LocalInv
    <3>3. mishaps = 0 => Ancestor(l.obs.commit, PublishedCommit)
      BY <2>2, <2>4
    <3>4. mishaps = 0 => Truthful(accepted, s, PublishedCommit)
      BY Zenon, <1>1, <1>2, <2>1, <2>2, <2>3, <3>3, AcceptedTruthful
    <3> QED
      BY Zenon, <2>4, <3>2, <3>4
  <2>5. CASE ~(st.pending = None /\ st.committed = l.obs.commit)
    BY <1>5, <2>5
  <2> QED
    BY <2>4, <2>5
<1> HIDE DEF present, r
<1> QED
  BY <1>4, <1>5, <1>6, LoadReport

\* BuildSnapshot stages a commit or finds nothing to publish.
LEMMA BuildSnapshotReport ==
  ASSUME IndInv, IndInv', ReportInv, NEW p \in Publishers, BuildSnapshot(p)
  PROVE  ReportInv'
<1> DEFINE l == pub[p]
           s == journal[JournalOf[p]]
           unchanged == [Kept(l) EXCEPT !.pc = "unchanged", !.obs = l.obs]
           begin(i) == [l EXCEPT !.pc = "begin", !.intent = i, !.obs = None]
<1>1. LocalInv(l) /\ l \in Locals /\ PublishedCommit \in Watermarks
  BY ReportFacts
<1>2. UNCHANGED <<remote, inflight, journal, mishaps>>
      /\ (pub' = [pub EXCEPT ![p] = unchanged] \/ \E i : pub' = [pub EXCEPT ![p] = begin(i)])
  BY Zenon DEF BuildSnapshot
<1>3. ASSUME mishaps = 0 PROVE Truthful(unchanged, s, PublishedCommit)
  <2>1. unchanged.pc = "unchanged" /\ unchanged.st.committed = <<>> /\ unchanged.obs = l.obs
        /\ unchanged.fin = <<>>
    BY <1>1, KeptForgets DEF Locals
  <2>2. RemembersPublished(l, PublishedCommit)
    BY <1>3, ReportFacts DEF Truthful
  <2> HIDE DEF unchanged
  <2> QED
    BY <1>1, <2>1, <2>2, AncestorBase DEF Truthful, RemembersPublished, RecoversRecorded, RecoveryLabels
<1>4. ASSUME mishaps = 0, NEW i PROVE Truthful(begin(i), s, PublishedCommit)
  <2>1. begin(i).pc = "begin" /\ begin(i).st = l.st /\ begin(i).obs = None /\ begin(i).fin = l.fin
    BY <1>1 DEF Locals
  <2>2. RemembersPublished(l, PublishedCommit)
    BY <1>4, ReportFacts DEF Truthful
  <2> HIDE DEF begin
  <2> QED
    BY <2>1, <2>2 DEF Truthful, RemembersPublished, RecoversRecorded, RecoveryLabels
<1> HIDE DEF unchanged, begin
<1> QED
  BY <1>2, <1>3, <1>4, LocalReport

\* CommitUnchanged reports the commit that is published.
LEMMA CommitUnchangedReport ==
  ASSUME IndInv, IndInv', ReportInv, NEW p \in Publishers, CommitUnchanged(p)
  PROVE  ReportInv'
<1> DEFINE l == pub[p]
           next == IF remote = None \/ remote.commit # l.obs.commit THEN Failed(l, "conflict")
                   ELSE Returned(l, "ok", l.obs.commit)
<1>1. Get(p, next, "error")
  BY DEF CommitUnchanged
<1>2. l \in Locals /\ PublishedCommit \in Watermarks /\ Ancestor(PublishedCommit, PublishedCommit)
      /\ PublishedCommit = IF remote = None THEN <<>> ELSE remote.commit
  BY ReportFacts
<1>3. Truthful(next, journal[JournalOf[p]], PublishedCommit)
  <2>1. CASE remote = None \/ remote.commit # l.obs.commit
    BY <1>2, <2>1, FailedTruthful
  <2>2. CASE ~(remote = None \/ remote.commit # l.obs.commit)
    <3>1. Ancestor(l.obs.commit, PublishedCommit)
      BY <1>2, <2>2
    <3> QED
      BY <1>2, <2>2, <3>1, ReturnedTruthful
  <2> QED
    BY <2>1, <2>2
<1> HIDE DEF next
<1> QED
  BY <1>1, <1>3, GetReport

\* The intent is durable and the operation goes on to carry it out.
LEMMA CommittingReport ==
  ASSUME NEW l, LocalInv(l), l.ctx = "prepare", l.intent # None, NEW C0, C0 = Committing(l),
         NEW c \in Watermarks, NEW s
  PROVE  LocalInv(C0) /\ C0 \in Locals /\ C0.pc = "load" /\ C0.ctx = "commit" /\ Truthful(C0, s, c)
<1>1. l \in Locals /\ Kept(l) \in Locals
  BY KeptForgets DEF LocalInv
<1>2. /\ C0 \in Locals /\ C0.pc = "load" /\ C0.ctx = "commit" /\ C0.intent = l.intent /\ C0.op = l.op
      /\ C0.st.committed = <<>> /\ C0.obs = None /\ C0.fin = <<>>
  <2>1. C0 \in Locals
    BY Zenon, <1>1 DEF Committing, Locals, Labels
  <2>2. /\ C0.pc = "load" /\ C0.ctx = "commit" /\ C0.intent = Kept(l).intent /\ C0.op = Kept(l).op
        /\ C0.st = Kept(l).st /\ C0.obs = Kept(l).obs /\ C0.fin = Kept(l).fin
    BY <1>1 DEF Committing, Locals
  <2> QED
    BY <1>1, <2>1, <2>2, KeptForgets, KeptFacts
<1>3. "load" \notin RecoveryLabels \cup StagingLabels
  BY DEF RecoveryLabels, StagingLabels
<1>4. ControlInv(C0)
  BY <1>2, <1>3 DEF ControlInv
<1>5. LocalInv(C0)
  BY <1>2, <1>3, <1>4, PlainInv
<1> QED
  BY <1>2, <1>3, <1>5, AncestorBase, PlainTruthful

\* BeginIntent fills a free slot.
LEMMA BeginIntentReport ==
  ASSUME IndInv, IndInv', ReportInv, NEW p \in Publishers, BeginIntent(p)
  PROVE  ReportInv'
<1> DEFINE l == pub[p]
           s == journal[JournalOf[p]]
           done == Committing(l)
           reload == [l EXCEPT !.pc = "beginreload"]
<1>1. /\ LocalInv(l) /\ l \in Locals /\ l.pc = "begin" /\ Faithful(l, s)
      /\ PublishedCommit \in Watermarks
  BY ReportFacts DEF BeginIntent
<1>2. l.ctx = "prepare" /\ l.st.pending = None /\ l.intent # None /\ l.st.committed \in Watermarks
  BY Zenon, <1>1 DEF LocalInv, ControlInv, StagingInv, StagingLabels, Locals
<1>3. JournalSwap(p, l.rev, l.st.committed, l.intent, done, reload, reload)
  BY DEF BeginIntent
<1>4. done \in Locals /\ Truthful(done, s, PublishedCommit)
  BY <1>1, <1>2, CommittingReport
<1>5. reload \in Locals
  BY <1>1 DEF Locals, Labels
<1>6. s.rev = l.rev => s.pending = None
  BY <1>1, <1>2 DEF Faithful, HoldingLabels
<1>7. ASSUME mishaps = 0
      PROVE  Ancestor(l.st.committed, PublishedCommit) /\ Truthful(reload, s, PublishedCommit)
  <2>1. Truthful(l, s, PublishedCommit)
    BY <1>7, ReportFacts
  <2>2. Truthful(reload, s, PublishedCommit)
    BY <1>1, <2>1, ReloadTruthful
  <2> QED
    BY <2>1, <2>2 DEF Truthful, RemembersPublished
<1> HIDE DEF done, reload
<1> QED
  BY <1>2, <1>3, <1>4, <1>5, <1>6, <1>7, SwapReport

\* BeginReload finds the intent pending, tries again or reports what became of it.
LEMMA BeginReloadReport ==
  ASSUME IndInv, IndInv', ReportInv, NEW p \in Publishers, BeginReload(p)
  PROVE  ReportInv'
<1> DEFINE l == pub[p]
           s == journal[JournalOf[p]]
           st == LoadedState(p)
           C0 == Committing(l)
           again == [l EXCEPT !.pc = "begin", !.st = st, !.rev = LoadedRevision(p), !.tries = 1]
           present == IF st.pending # None
                      THEN IF st.pending = l.intent THEN C0 ELSE Failed(l, "conflict")
                      ELSE IF st.committed = l.intent.base
                      THEN IF l.tries = 0 THEN again ELSE Failed(l, "conflict")
                      ELSE Classified(C0, l.intent, st.committed)
<1>1. /\ LocalInv(l) /\ l \in Locals /\ l.pc = "beginreload" /\ PublishedCommit \in Watermarks
  BY ReportFacts DEF BeginReload
<1>2. l.ctx = "prepare" /\ l.intent # None /\ l.intent \in Intents
  BY Zenon, <1>1 DEF LocalInv, ControlInv, StagingInv, StagingLabels, Locals, OptionalIntent
<1>3. Load(p, Failed(l, "rollback"), present)
  BY DEF BeginReload
<1>4. Truthful(Failed(l, "rollback"), s, PublishedCommit)
  BY <1>1, FailedTruthful
<1>5. LocalInv(C0) /\ C0 \in Locals /\ C0.pc = "load" /\ C0.ctx = "commit"
      /\ Truthful(C0, s, PublishedCommit)
  BY <1>1, <1>2, CommittingReport
<1> HIDE DEF C0
<1>6. ASSUME s.found
      PROVE  present \in Locals /\ (mishaps = 0 => Truthful(present, s, PublishedCommit))
  <2>1. /\ st \in LoadedStates /\ LoadedRevision(p) \in OptionalRevision /\ st.committed \in Watermarks
    BY <1>6, LoadedFacts DEF LoadedStates
  <2>2. mishaps = 0 => Ancestor(st.committed, PublishedCommit)
    BY ReportFacts DEF LoadedState
  <2> HIDE DEF st
  <2>3. CASE present = Failed(l, "conflict")
    BY <1>1, <2>3, FailedTruthful, FailedInv DEF LocalInv, Results
  <2>4. CASE present = C0
    BY <1>5, <2>4
  <2>5. CASE present = Classified(C0, l.intent, st.committed)
    BY <1>1, <1>2, <1>5, <2>1, <2>2, <2>5, ClassifiedInv, ClassifiedTruthful DEF LocalInv
  <2>6. CASE present = again
    <3>1. /\ again \in Locals /\ again.pc = "begin" /\ again.obs = l.obs
          /\ again.fin = l.fin /\ again.st = st
      BY Zenon, <1>1, <2>1 DEF Locals, LoadedStates, Labels
    <3>2. mishaps = 0 => RemembersPublished(l, PublishedCommit)
      BY ReportFacts DEF Truthful
    <3> HIDE DEF l, s, again, present
    <3>3. mishaps = 0 => Truthful(again, s, PublishedCommit)
      BY Zenon, <2>2, <3>1, <3>2 DEF Truthful, RemembersPublished, RecoversRecorded, RecoveryLabels
    <3> QED
      BY <2>6, <3>1, <3>3
  <2> QED
    BY <2>3, <2>4, <2>5, <2>6
<1> HIDE DEF present
<1> QED
  BY <1>3, <1>4, <1>6, LoadReport

\* CommitNone reports what the journal committed.
LEMMA CommitNoneReport ==
  ASSUME IndInv, IndInv', ReportInv, NEW p \in Publishers, CommitNone(p)
  PROVE  ReportInv'
<1> DEFINE l == pub[p]
           s == journal[JournalOf[p]]
           st == LoadedState(p)
           present == Classified(l, l.intent, st.committed)
<1>1. /\ LocalInv(l) /\ l \in Locals /\ l.pc = "noneload" /\ PublishedCommit \in Watermarks
  BY Zenon, ReportFacts DEF CommitNone
<1>2. l.ctx = "commit" /\ l.intent \in Intents
  BY Zenon, <1>1 DEF LocalInv, ControlInv, Locals, OptionalIntent
<1>3. Load(p, Failed(l, "conflict"), present)
  BY DEF CommitNone
<1>4. Truthful(Failed(l, "conflict"), s, PublishedCommit)
  BY <1>1, FailedTruthful
<1>5. ASSUME s.found
      PROVE  present \in Locals /\ (mishaps = 0 => Truthful(present, s, PublishedCommit))
  <2>1. st.committed \in Watermarks
    BY <1>5, LoadedFacts DEF LoadedStates
  <2>2. mishaps = 0 => Ancestor(st.committed, PublishedCommit)
    BY ReportFacts DEF LoadedState
  <2> HIDE DEF st
  <2> QED
    BY Zenon, <1>1, <1>2, <2>1, <2>2, ClassifiedInv, ClassifiedTruthful DEF LocalInv
<1> HIDE DEF present
<1> QED
  BY <1>3, <1>4, <1>5, LoadReport

\* Starting, finishing and crashing remember nothing new.
LEMMA StartFinishReport ==
  ASSUME IndInv, IndInv', ReportInv, NEW p \in Publishers,
         Finish(p) \/ Crash(p) \/ \E op : Start(p, op)
  PROVE  ReportInv'
<1> DEFINE l == pub[p]
           finished == [Idle EXCEPT !.validated = l.validated]
           started(op) == [l EXCEPT !.pc = "load", !.op = op,
                             !.ctx = IF op = "recover" THEN "recover" ELSE "prepare"]
<1>1. l \in Locals /\ PublishedCommit \in Watermarks
  BY ReportFacts
<1>2. UNCHANGED <<remote, inflight, journal, mishaps>>
  BY Zenon DEF Finish, Crash, Start
<1>3. \/ pub' = [pub EXCEPT ![p] = finished] \/ pub' = [pub EXCEPT ![p] = Idle]
      \/ \E op : pub' = [pub EXCEPT ![p] = started(op)]
  <2>1. CASE Finish(p) \/ Crash(p)
    BY Zenon, <2>1 DEF Finish, Crash
  <2>2. ASSUME NEW op, Start(p, op) PROVE pub' = [pub EXCEPT ![p] = started(op)]
    BY Zenon, <2>2 DEF Start
  <2> QED
    BY Zenon, <2>1, <2>2
<1>4. /\ finished.pc = "idle" /\ finished.st.committed = <<>> /\ finished.obs = None /\ finished.fin = <<>>
      /\ Idle.pc = "idle" /\ Idle.st.committed = <<>> /\ Idle.obs = None /\ Idle.fin = <<>>
  BY DEF Idle
<1>5. \A op : started(op).pc = "load" /\ started(op).st = l.st /\ started(op).obs = l.obs
              /\ started(op).fin = l.fin
  BY <1>1 DEF Locals
<1>6. "idle" \notin RecoveryLabels /\ "load" \notin RecoveryLabels
  BY DEF RecoveryLabels
<1> HIDE DEF finished, started
<1>7. Truthful(finished, journal[JournalOf[p]], PublishedCommit)
      /\ Truthful(Idle, journal[JournalOf[p]], PublishedCommit)
  BY <1>1, <1>4, <1>6, AncestorBase, PlainTruthful
<1>8. ASSUME mishaps = 0, NEW op PROVE Truthful(started(op), journal[JournalOf[p]], PublishedCommit)
  <2>1. RemembersPublished(l, PublishedCommit)
    BY <1>8, ReportFacts DEF Truthful
  <2> QED
    BY Zenon, <1>5, <1>6, <2>1 DEF Truthful, RemembersPublished, RecoversRecorded
<1> QED
  BY <1>2, <1>3, <1>7, <1>8, LocalReport

-----------------------------------------------------------------------------
(* The environment, and what the invariant amounts to. *)

\* A late request that lands extends what is published.
LEMMA DeliverReport ==
  ASSUME IndInv, IndInv', ReportInv, Deliver
  PROVE  ReportInv'
<1>1. TypeOK /\ TypeOK' /\ PublishedCommit \in Watermarks
  BY PublishedIsWatermark DEF IndInv
<1>2. PICK q \in inflight : /\ inflight' = inflight \ {q}
                            /\ remote' = IF remote = q.expected THEN q.new ELSE remote
  BY DEF Deliver
<1>3. RequestInv(q) /\ q.new # None
  BY <1>2, PublicationAssumption DEF IndInv, RequestInv
<1>4. Ancestor(PublishedCommit, PublishedCommit')
  <2>1. CASE remote = q.expected
    BY <1>2, <1>3, <2>1 DEF RequestInv, PublishedCommit
  <2>2. CASE remote # q.expected
    <3>1. PublishedCommit' = PublishedCommit
      BY <1>2, <2>2 DEF PublishedCommit
    <3> QED
      BY <1>1, <3>1, AncestorBase
  <2> QED
    BY <2>1, <2>2
<1>5. UNCHANGED <<journal, pub, mishaps>> /\ \A x \in inflight' : x \in inflight
  BY <1>2 DEF Deliver
<1> QED
  BY <1>1, <1>4, <1>5, ReportFrame

\* ReportInv holds at the start when every checkpoint was published.
LEMMA InitReport ==
  ASSUME Init, IndInv, CheckpointsArePublished
  PROVE  ReportInv
<1>1. PublishedCommit = IF FirstReference = None THEN <<>> ELSE FirstReference.commit
  BY DEF Init, PublishedCommit
<1>2. PublishedCommit \in Watermarks
  BY PublishedIsWatermark DEF IndInv
<1>3. \A p \in Publishers : Ancestor(Checkpoint[p], PublishedCommit)
  BY <1>1 DEF CheckpointsArePublished
<1>4. \A j \in Journals : journal[j].committed = <<>> /\ journal[j].pending = None
  BY DEF Init, NoJournal
<1>5. ASSUME NEW p \in Publishers PROVE pub[p] = Idle
  BY DEF Init
<1>6. Idle.pc = "idle" /\ Idle.st.committed = <<>> /\ Idle.obs = None /\ Idle.fin = <<>>
  BY DEF Idle
<1>7. RemembersPublished(Idle, PublishedCommit)
  BY <1>2, <1>6, AncestorBase DEF RemembersPublished
<1>8. \A s : RecoversRecorded(Idle, s)
  BY <1>6 DEF RecoversRecorded, RecoveryLabels
<1>9. inflight = {}
  BY DEF Init
<1> QED
  BY <1>2, <1>3, <1>4, <1>5, <1>7, <1>8, <1>9, AncestorBase DEF ReportInv

\* Every step preserves it, an operator's by leaving its premise.
LEMMA NextReport ==
  ASSUME IndInv, IndInv', ReportInv, [Next]_vars
  PROVE  ReportInv'
<1>1. CASE UNCHANGED vars
  <2>1. TypeOK /\ TypeOK' /\ PublishedCommit \in Watermarks
    BY PublishedIsWatermark DEF IndInv
  <2>2. UNCHANGED <<journal, pub, mishaps, inflight>> /\ PublishedCommit' = PublishedCommit
    BY <1>1 DEF vars, PublishedCommit
  <2> QED
    BY <2>1, <2>2, AncestorBase, ReportFrame
<1>2. ASSUME NEW p \in Publishers, Recovery(p) PROVE ReportInv'
  BY <1>2, RecoverGetReport, RecoverRefreshReport, RecoverRefreshReloadReport, RecoverSwapReport,
     RecoverReloadReport, RecoverFinalizeReport, RecoverFinalizeReloadReport,
     ClassifyResolvedResignReport
     DEF Recovery
<1>3. ASSUME NEW p \in Publishers, Operation(p) PROVE ReportInv'
  BY <1>3, LoadJournalReport, InitializeJournalReport, InitializeReloadReport, PrepareReloadReport,
     ReadReferenceReport, AcceptObservedReport, AcceptReloadReport, BuildSnapshotReport,
     CommitUnchangedReport, BeginIntentReport, BeginReloadReport, CommitNoneReport, StartFinishReport
     DEF Operation
<1>4. CASE RestoreReference \/ LoseJournal
  <2>1. mishaps \in Nat /\ mishaps' = mishaps + 1
    BY <1>4 DEF IndInv, TypeOK, RestoreReference, LoseJournal
  <2>2. mishaps' # 0
    BY <2>1
  <2> QED
    BY Zenon, <2>2 DEF ReportInv
<1>5. CASE Environment
  BY <1>4, <1>5, DeliverReport, StartFinishReport DEF Environment
<1> QED
  BY <1>1, <1>2, <1>3, <1>5, StartFinishReport DEF Next

\* What the invariant of the reports amounts to.
LEMMA ReportsFollow ==
  ASSUME IndInv, ReportInv
  PROVE  ReportsAreTrue /\ SupersededIsFinal
<1> SUFFICES ASSUME mishaps = 0 PROVE ReportsAreTrue /\ SupersededIsFinal
  BY DEF ReportsAreTrue, CommittedIsPublished, SuccessIsPublished, UnresolvedIsPending, SupersededIsFinal
<1>0. TypeOK /\ PublishedCommit \in Watermarks
  BY PublishedIsWatermark DEF IndInv
<1>1. \A j \in Journals : Ancestor(journal[j].committed, PublishedCommit)
  BY DEF ReportInv
<1>2. CommittedIsPublished
  BY <1>1 DEF CommittedIsPublished
<1>3. SuccessIsPublished
  BY ReportFacts DEF SuccessIsPublished, Truthful, RemembersPublished
<1>4. UnresolvedIsPending
  <2> SUFFICES ASSUME NEW q \in inflight, Len(q.new.commit) > Len(PublishedCommit)
               PROVE  \E j \in Journals : journal[j].pending # None /\ Reference(journal[j].pending) = q.new
    BY DEF UnresolvedIsPending
  <2>1. PICK j \in Journals : Recorded(q.new, journal[j])
    BY Zenon DEF ReportInv
  <2>2. Len(q.new.commit) \in Nat /\ Len(PublishedCommit) \in Nat /\ Len(journal[j].committed) \in Nat
    BY <1>0 DEF TypeOK, Refs, Commits, Watermarks, Chains, JournalStates
  <2>3. Len(journal[j].committed) <= Len(PublishedCommit)
    BY <1>1 DEF Ancestor
  <2> QED
    BY <2>1, <2>2, <2>3 DEF Recorded
<1>5. SupersededIsFinal
  <2> SUFFICES ASSUME NEW p \in Publishers, pub[p].pc \in {"rfinal", "finalreload"},
                      pub[p].outcome = "superseded", pub[p].initial.kind = "publish"
               PROVE  /\ Len(pub[p].initial.next) <= Len(PublishedCommit)
                      /\ ~Ancestor(pub[p].initial.next, PublishedCommit)
    BY DEF SupersededIsFinal
  <2> DEFINE next == pub[p].initial.next
             fin == pub[p].fin
  <2>1. Truthful(pub[p], journal[JournalOf[p]], PublishedCommit) /\ pub[p].pc \in RecoveryLabels
        /\ LocalInv(pub[p])
    BY ReportFacts DEF RecoveryLabels
  <2>2. Ancestor(fin, PublishedCommit) /\ Len(next) <= Len(fin) /\ ~Ancestor(next, fin)
    BY Zenon, <2>1 DEF Truthful, RemembersPublished, RecoversRecorded
  <2>3. next \in Watermarks /\ fin \in Watermarks
    <3>1. pub[p] \in Locals /\ pub[p].initial # None
      BY Zenon, <2>1, RecoveryBaseInv DEF RecoveryBase
    <3>2. pub[p].initial \in Intents /\ fin \in Watermarks
      BY <3>1 DEF Locals, OptionalIntent
    <3> QED
      BY <3>2 DEF Intents, Commits
  <2> HIDE DEF next, fin
  <2>4. Len(next) \in Nat /\ Len(fin) \in Nat /\ Len(PublishedCommit) \in Nat
    BY <1>0, <2>3 DEF Watermarks, Chains
  <2>5. Len(next) <= Len(PublishedCommit)
    BY <2>2, <2>4 DEF Ancestor
  <2>6. ASSUME Ancestor(next, PublishedCommit) PROVE FALSE
    <3>1. \A k \in 1..Len(next) : next[k] = fin[k]
      BY <2>2, <2>4, <2>6 DEF Ancestor
    <3> QED
      BY <2>2, <3>1 DEF Ancestor
  <2> QED
    BY <2>5, <2>6 DEF next
<1> QED
  BY <1>2, <1>3, <1>4, <1>5 DEF ReportsAreTrue
=============================================================================
