------------------------- MODULE PublicationProofs -------------------------
(***************************************************************************)
(* Proofs about Publication: the inductive invariant and what follows from *)
(* it, for any number of publishers, journals, generations and faults.     *)
(***************************************************************************)
EXTENDS PublicationReports

-----------------------------------------------------------------------------
(* One lemma per action of a recovery. *)

\* RecoverGet reads the reference and decides.
LEMMA RecoverGetInv ==
  ASSUME IndInv, NEW p \in Publishers, RecoverGet(p)
  PROVE  IndInv'
<1>1. LocalInv(pub[p]) /\ Faithful(pub[p], journal[JournalOf[p]]) /\ remote \in OptionalRef
  BY DEF IndInv, TypeOK
<1>2. "indeterminate" \in Results
  BY DEF Results
<1> QED
  BY <1>1, <1>2, RecoveryStepInv, GetStep DEF RecoverGet

\* A recovery step that only moves on to a reload.
LEMMA ReloadInv ==
  ASSUME NEW l, LocalInv(l),
         NEW pc \in {"refreshreload", "finalreload"},
         pc = "refreshreload" => l.pc = "rrefresh", pc = "finalreload" => l.pc = "rfinal"
  PROVE  /\ LocalInv([l EXCEPT !.pc = pc])
         /\ [l EXCEPT !.pc = pc].pc \notin HoldingLabels
<1> DEFINE m == [l EXCEPT !.pc = pc]
<1>0. /\ pc \in Labels /\ pc \in RecoveryLabels /\ pc \notin HoldingLabels /\ l \in Locals
      /\ l.pc \in RecoveryLabels
  BY DEF Labels, RecoveryLabels, HoldingLabels, LocalInv
<1>1. m \in Locals
  BY <1>0 DEF Locals
<1>2. /\ m.pc = pc /\ m.op = l.op /\ m.ctx = l.ctx /\ m.st = l.st /\ m.rev = l.rev
      /\ m.initial = l.initial /\ m.intent = l.intent /\ m.obs = l.obs /\ m.fin = l.fin
  BY <1>0 DEF Locals
<1>3. RecoveryBase(m)
  BY <1>0, <1>1, <1>2, RecoveryBaseInv DEF RecoveryBase
<1>4. /\ pc = "refreshreload" => l.st.committed # <<>> /\ IsObjectOf(l.obs, l.st.committed)
      /\ pc = "finalreload" => l.fin # <<>> /\ Ancestor(l.st.committed, l.fin)
  BY <1>0 DEF LocalInv, RecoveryInv
<1>5. LocalInv(m)
  BY Zenon, <1>0, <1>2, <1>3, <1>4, RecoveryBaseInv
<1> QED
  BY <1>0, <1>2, <1>5

\* Going on to the reference CAS with a state whose pending intent is the
\* refreshed one.
LEMMA ToSwapInv ==
  ASSUME NEW l, LocalInv(l), l.pc \in {"rrefresh", "refreshreload"},
         NEW m, m \in Locals, m.pc = "rcas", m.op = l.op, m.ctx = l.ctx, m.obs = l.obs,
         m.initial = l.initial, m.intent = l.intent,
         m.st.pending = Refreshed(l), m.st.committed = l.st.committed
  PROVE  LocalInv(m)
<1>0. "rcas" \in RecoveryLabels /\ l.pc \in RecoveryLabels
  BY DEF RecoveryLabels
<1>1. RecoveryBase(l) /\ Refreshed(l) # None
  BY <1>0, RecoveryBaseInv, RefreshedValid, PublicationAssumption
<1>2. RecoveryBase(m)
  BY <1>1, RefreshedValid DEF RecoveryBase
<1>3. IsObjectOf(l.obs, l.st.committed)
  BY <1>0 DEF LocalInv, RecoveryInv
<1> QED
  BY <1>0, <1>2, <1>3, RecoveryBaseInv

\* RecoverRefresh rewrites the observation of the pending intent.
LEMMA RecoverRefreshInv ==
  ASSUME IndInv, NEW p \in Publishers, RecoverRefresh(p)
  PROVE  IndInv'
<1> DEFINE l == pub[p]
           st == [l.st EXCEPT !.pending = Refreshed(l)]
           done == [l EXCEPT !.pc = "rcas", !.st = st]
           reload == [l EXCEPT !.pc = "refreshreload"]
<1>1. LocalInv(l) /\ l \in Locals /\ l.pc = "rrefresh"
  BY DEF IndInv, LocalInv, RecoverRefresh
<1>2. Refreshed(l) \in OptionalIntent /\ l.st \in LoadedStates /\ l.rev \in OptionalRevision
  BY <1>1, RefreshedValid DEF OptionalIntent, Locals, LoadedStates
<1>3. st \in LoadedStates /\ st.pending = Refreshed(l) /\ st.committed = l.st.committed
      /\ st.committed \in Watermarks
  BY <1>2 DEF LoadedStates
<1>4. /\ done \in Locals /\ done.pc = "rcas" /\ done.op = l.op /\ done.ctx = l.ctx
      /\ done.obs = l.obs /\ done.initial = l.initial /\ done.intent = l.intent /\ done.st = st
  <2>1. "rcas" \in Labels
    BY DEF Labels
  <2> HIDE DEF st
  <2> QED
    BY Zenon, <1>1, <1>3, <2>1 DEF Locals, LoadedStates
<1>5. LocalInv(reload) /\ reload.pc \notin HoldingLabels
  BY Zenon, <1>1, ReloadInv
<1>6. JournalSwap(p, l.rev, st.committed, st.pending, done, reload, reload)
  BY DEF RecoverRefresh
<1> HIDE DEF st
<1> HIDE DEF l, done
<1>7. LocalInv(done) /\ done.st = st
  BY <1>1, <1>2, <1>3, <1>4, ToSwapInv
<1> HIDE DEF l, done, reload
<1> QED
  BY <1>2, <1>3, <1>5, <1>6, <1>7, SwapStep

\* RecoverRefreshReload finds out whether the refresh was applied.
LEMMA RecoverRefreshReloadInv ==
  ASSUME IndInv, NEW p \in Publishers, RecoverRefreshReload(p)
  PROVE  IndInv'
<1> DEFINE l == pub[p]
           st == LoadedState(p)
           present == IF st.pending = Refreshed(l)
                      THEN [l EXCEPT !.pc = "rcas", !.st = st, !.rev = LoadedRevision(p)]
                      ELSE Failed(l, "conflict")
<1>1. LocalInv(l) /\ l \in Locals /\ l.pc = "refreshreload"
  BY DEF IndInv, LocalInv, RecoverRefreshReload
<1>2. "rollback" \in Results /\ "conflict" \in Results
  BY DEF Results
<1>3. ASSUME journal[JournalOf[p]].found
      PROVE  LocalInv(present) /\ Faithful(present, journal[JournalOf[p]])
  <2>1. CASE st.pending = Refreshed(l)
    <3>1. /\ st \in LoadedStates /\ LoadedRevision(p) \in OptionalRevision
          /\ st.pending # None => st.pending.base = st.committed
      BY <1>3, LoadedFacts
    <3>2. st.committed = l.st.committed
      BY <1>1, <2>1, <3>1, RefreshedValid, PublicationAssumption
    <3>3. /\ present \in Locals /\ present.pc = "rcas" /\ present.op = l.op
          /\ present.ctx = l.ctx /\ present.obs = l.obs /\ present.initial = l.initial
          /\ present.intent = l.intent /\ present.st = st /\ present.rev = LoadedRevision(p)
      <4>1. "rcas" \in Labels
        BY DEF Labels
      <4> HIDE DEF st
      <4> QED
        BY Zenon, <1>1, <2>1, <3>1, <4>1 DEF Locals, LoadedStates
    <3> HIDE DEF l, st, present
    <3>4. LocalInv(present) /\ present.st = st /\ present.rev = LoadedRevision(p)
      BY <1>1, <2>1, <3>1, <3>2, <3>3, ToSwapInv
    <3> QED
      BY <1>3, <3>4, HeldFaithful DEF st
  <2>2. CASE st.pending # Refreshed(l)
    BY <1>1, <1>2, <2>2, FailedInv
  <2> QED
    BY <2>1, <2>2
<1>4. Load(p, Failed(l, "rollback"), present)
  BY DEF RecoverRefreshReload
<1> HIDE DEF present
<1> QED
  BY <1>1, <1>2, <1>3, <1>4, FailedInv, LoadStep

\* RecoverSwap: the reference CAS and its lost answer.
LEMMA RecoverSwapInv ==
  ASSUME IndInv, NEW p \in Publishers, RecoverSwap(p)
  PROVE  IndInv'
<1> DEFINE l == pub[p]
           i == l.st.pending
           n == [l EXCEPT !.obs = None]
           won == Finalizing(n, Reference(i).commit, "applied")
           q == [expected |-> l.obs, new |-> Reference(i)]
           s == journal[JournalOf[p]]
<1>1. LocalInv(l) /\ l \in Locals /\ l.pc = "rcas" /\ Faithful(l, s)
  BY DEF IndInv, LocalInv, RecoverSwap
<1>2. /\ RequestInv(q) /\ Reference(i) \in Refs /\ i.next \in Commits
      /\ Ancestor(l.st.committed, i.next) /\ Reference(i).commit = i.next
  BY <1>1, SwapRequest DEF Reference
<1>3. RecoveryBase(l)
  BY <1>1, RecoveryBaseInv DEF RecoveryLabels
<1>4. /\ n \in Locals /\ n.pc = l.pc /\ n.op = l.op /\ n.ctx = l.ctx /\ n.st = l.st
      /\ n.rev = l.rev /\ n.initial = l.initial /\ n.intent = l.intent
  BY <1>1, NilFacts DEF Locals
<1>5. LocalInv(won) /\ Faithful(won, s)
  <2> HIDE DEF n
  <2>1. RecoveryBase(n) /\ Faithful(n, s) /\ n.pc \in HoldingLabels /\ "applied" \in Results
    BY <1>1, <1>3, <1>4 DEF RecoveryBase, Faithful, HoldingLabels, Results
  <2> QED
    BY <1>2, <1>4, <2>1, FinalizingInv
<1>6. LocalInv(SwapUnproven(l)) /\ Faithful(SwapUnproven(l), s)
  <2> DEFINE m == SwapUnproven(l)
  <2>1. "rreload" \in Labels /\ "rreload" \in RecoveryLabels /\ "rreload" \notin HoldingLabels
    BY DEF Labels, RecoveryLabels, HoldingLabels
  <2>2. /\ m \in Locals /\ m.pc = "rreload" /\ m.op = l.op /\ m.ctx = l.ctx /\ m.st = l.st
        /\ m.rev = l.rev /\ m.initial = l.initial /\ m.intent = l.intent
    BY Zenon, <1>1, <2>1, NilFacts DEF SwapUnproven, Locals
  <2>3. RecoveryBase(m)
    BY <1>3, <2>2 DEF RecoveryBase
  <2> QED
    BY <2>1, <2>2, <2>3, RecoveryBaseInv DEF Faithful
<1>7. journal' = journal /\ mishaps' \in 0..MaxMishaps
  BY DEF IndInv, TypeOK, RecoverSwap
<1>8. /\ remote \in OptionalRef /\ Reference(i) \in OptionalRef /\ faults \in 0..MaxFaults
      /\ \A x \in inflight : RequestInv(x)
  BY <1>2 DEF IndInv, TypeOK, OptionalRef
<1>9. CASE /\ remote' = Reference(i) /\ pub' = [pub EXCEPT ![p] = won]
           /\ UNCHANGED <<inflight, faults>>
  BY Zenon, <1>5, <1>7, <1>8, <1>9, PublisherStep
<1>10. CASE /\ pub' = [pub EXCEPT ![p] = SwapUnproven(l)]
            /\ UNCHANGED <<remote, inflight, faults>>
  BY Zenon, <1>6, <1>7, <1>8, <1>10, PublisherStep
<1>11. CASE /\ pub' = [pub EXCEPT ![p] = SwapUnproven(l)] /\ Fault
            /\ inflight' = inflight \cup {q} /\ UNCHANGED remote
  <2>1. \A x \in inflight' : RequestInv(x)
    BY <1>2, <1>8, <1>11
  <2>2. remote' \in OptionalRef /\ faults' \in 0..MaxFaults
    BY <1>8, <1>11, FaultBound
  <2> QED
    BY Zenon, <1>6, <1>7, <1>11, <2>1, <2>2, PublisherStep
<1> QED
  BY <1>9, <1>10, <1>11 DEF RecoverSwap

\* RecoverReload: the next iteration of the loop, on the journal as it is now.
LEMMA RecoverReloadInv ==
  ASSUME IndInv, NEW p \in Publishers, RecoverReload(p)
  PROVE  IndInv'
<1> DEFINE l == pub[p]
           st == LoadedState(p)
           s == journal[JournalOf[p]]
           tries == l.tries + 1
           again == [l EXCEPT !.pc = "rget", !.st = st, !.rev = LoadedRevision(p),
                              !.tries = tries]
           present == IF st.pending # None /\ ~SameSemantics(st.pending, l.initial)
                      THEN Failed(l, "conflict")
                      ELSE IF LastTry(l) THEN Failed(l, "indeterminate")
                      ELSE IF st.pending = None THEN Classified(l, l.initial, st.committed)
                      ELSE again
<1>1. LocalInv(l) /\ l \in Locals /\ l.pc = "rreload"
  BY DEF IndInv, LocalInv, RecoverReload
<1>2. "rollback" \in Results /\ "conflict" \in Results /\ "indeterminate" \in Results
  BY DEF Results
<1>3. RecoveryBase(l) /\ l.ctx # "none" /\ l.initial \in Intents
  BY <1>1, RecoveryBaseInv DEF RecoveryLabels, RecoveryBase, Locals, OptionalIntent
<1>4. ASSUME s.found PROVE LocalInv(present) /\ Faithful(present, s)
  <2>1. /\ st \in LoadedStates /\ LoadedRevision(p) \in OptionalRevision
        /\ st.pending # None => ValidIntent(st.pending) /\ st.pending.base = st.committed
    BY <1>4, LoadedFacts
  <2>2. CASE present = Failed(l, "conflict") \/ present = Failed(l, "indeterminate")
    BY <1>1, <1>2, <2>2, FailedInv
  <2>3. CASE present = Classified(l, l.initial, st.committed)
    <3>1. st.committed \in Watermarks
      BY <2>1 DEF LoadedStates
    <3> QED
      BY <1>1, <1>3, <2>3, <3>1, ClassifiedInv
  <2>4. CASE present = again /\ st.pending # None
    <3>1. "rget" \in Labels /\ "rget" \in RecoveryLabels
      BY DEF Labels, RecoveryLabels
    <3>2. /\ again \in Locals /\ again.pc = "rget" /\ again.op = l.op /\ again.ctx = l.ctx
          /\ again.st = st /\ again.rev = LoadedRevision(p)
          /\ again.initial = l.initial /\ again.intent = l.intent
      <4>1. tries \in Nat
        BY <1>1 DEF Locals
      <4> HIDE DEF st, tries
      <4> QED
        BY Zenon, <1>1, <2>1, <3>1, <4>1 DEF Locals, LoadedStates
    <3> HIDE DEF again, st, present
    <3>3. RecoveryBase(again)
      BY <1>3, <2>1, <2>4, <3>2 DEF RecoveryBase
    <3>4. LocalInv(again)
      BY <3>1, <3>2, <3>3, RecoveryBaseInv
    <3>5. Faithful(again, s)
      BY <1>4, <3>2, HeldFaithful DEF st
    <3> QED
      BY <2>4, <3>4, <3>5
  <2> QED
    BY <2>2, <2>3, <2>4
<1>5. Load(p, Failed(l, "rollback"), present)
  BY DEF RecoverReload
<1> HIDE DEF present
<1> QED
  BY <1>1, <1>2, <1>4, <1>5, FailedInv, LoadStep

\* RecoverFinalize clears the pending slot.
LEMMA RecoverFinalizeInv ==
  ASSUME IndInv, NEW p \in Publishers, RecoverFinalize(p)
  PROVE  IndInv'
<1> DEFINE l == pub[p]
           done == Resolved(l, l.outcome)
           reload == [l EXCEPT !.pc = "finalreload"]
<1>1. LocalInv(l) /\ l \in Locals /\ l.pc = "rfinal"
  BY DEF IndInv, LocalInv, RecoverFinalize
<1>2. l.ctx # "none" /\ l.outcome \in Results /\ l.fin \in Watermarks
  BY <1>1, RecoveryBaseInv DEF RecoveryLabels, RecoveryBase, Locals
<1>3. LocalInv(done) /\ done.pc \notin HoldingLabels
  BY <1>1, <1>2, ResolvedInv
<1>4. LocalInv(reload) /\ reload.pc \notin HoldingLabels
  BY Zenon, <1>1, ReloadInv
<1>5. JournalSwap(p, l.rev, l.fin, None, done, reload, reload)
  BY DEF RecoverFinalize
<1> HIDE DEF l, done, reload
<1> QED
  BY <1>2, <1>3, <1>4, <1>5, NilFacts, SwapStep

\* RecoverFinalizeReload finds out whether the slot was cleared.
LEMMA RecoverFinalizeReloadInv ==
  ASSUME IndInv, NEW p \in Publishers, RecoverFinalizeReload(p)
  PROVE  IndInv'
<1> DEFINE l == pub[p]
           st == LoadedState(p)
           present == IF st.pending = None /\ st.committed = l.fin
                      THEN Resolved(l, l.outcome) ELSE Failed(l, "indeterminate")
<1>1. LocalInv(l) /\ l \in Locals /\ l.pc = "finalreload"
  BY DEF IndInv, LocalInv, RecoverFinalizeReload
<1>2. l.ctx # "none" /\ l.outcome \in Results /\ "indeterminate" \in Results
  BY <1>1, RecoveryBaseInv DEF RecoveryLabels, RecoveryBase, Locals, Results
<1>3. LocalInv(present) /\ Faithful(present, journal[JournalOf[p]])
  BY <1>1, <1>2, ResolvedInv, FailedInv
<1>4. Load(p, Failed(l, "indeterminate"), present)
  BY DEF RecoverFinalizeReload
<1> HIDE DEF present
<1> QED
  BY <1>1, <1>2, <1>3, <1>4, FailedInv, LoadStep

\* ClassifyResolvedResign reads the reference to tell what became of a re-sign.
LEMMA ClassifyResolvedResignInv ==
  ASSUME IndInv, NEW p \in Publishers, ClassifyResolvedResign(p)
  PROVE  IndInv'
<1>1. LocalInv(pub[p]) /\ pub[p].pc = "rclassify" /\ "indeterminate" \in Results
  BY DEF IndInv, ClassifyResolvedResign, Results
<1> QED
  BY <1>1, ResignStepInv, GetStep DEF ClassifyResolvedResign

-----------------------------------------------------------------------------
(* One lemma per action of an operation. *)

\* LoadJournal: the first read of an operation.
LEMMA LoadJournalInv ==
  ASSUME IndInv, NEW p \in Publishers, LoadJournal(p)
  PROVE  IndInv'
<1> DEFINE l == pub[p]
           st == LoadedState(p)
           s == journal[JournalOf[p]]
           untrusted == Checkpoint[p] = <<>> /\ ~FirstUse[p]
           absent == IF untrusted THEN Failed(l, "trust") ELSE [Kept(l) EXCEPT !.pc = "init"]
           present == IF untrusted /\ st.committed = <<>> /\ st.pending = None
                      THEN Failed(l, "trust") ELSE Opened(l, st, LoadedRevision(p))
<1>1. LocalInv(l) /\ l.pc = "load" /\ l.ctx # "none" /\ "trust" \in Results
  BY DEF IndInv, LocalInv, ControlInv, LoadJournal, Results
<1>2. LocalInv(absent) /\ Faithful(absent, s)
  BY Zenon, <1>1, FailedInv, MovedInv
<1>3. s.found => LocalInv(present) /\ Faithful(present, s)
  BY <1>1, FailedInv, OpenedInv
<1>4. Load(p, absent, present)
  BY DEF LoadJournal
<1> HIDE DEF absent, present
<1> QED
  BY <1>2, <1>3, <1>4, LoadStep

\* InitializeJournal creates the journal at the checkpoint.
LEMMA InitializeJournalInv ==
  ASSUME IndInv, NEW p \in Publishers, InitializeJournal(p)
  PROVE  IndInv'
<1> DEFINE l == pub[p]
           c == Checkpoint[p]
           st == [committed |-> c, pending |-> None]
           v == [l EXCEPT !.validated = Validated(p, l, c)]
           opened == NothingPending(v, st, None)
           reload == [l EXCEPT !.pc = "initreload"]
<1>1. LocalInv(l) /\ l \in Locals /\ l.pc = "init" /\ l.ctx # "none"
  BY DEF IndInv, LocalInv, ControlInv, InitializeJournal
<1>2. c \in Watermarks /\ Validated(p, l, c) \in Watermarks
  BY <1>1, PublicationAssumption DEF Validated, Locals
<1>3. LocalInv(v) /\ v.ctx # "none"
  <2>1. Faithful(l, journal[JournalOf[p]]) /\ v.ctx = l.ctx
    BY <1>1 DEF IndInv, Locals
  <2> QED
    BY <1>1, <1>2, <2>1, ValidatedInv
<1>4. st \in LoadedStates /\ st.pending = None /\ st.committed = c
  BY <1>2, NilFacts DEF LoadedStates
<1>5. LocalInv(opened) /\ (opened.pc \in HoldingLabels => opened.st = st)
  <2> HIDE DEF v, st
  <2> QED
    BY <1>3, <1>4, NilFacts, NothingPendingInv
<1>6. LocalInv(reload) /\ reload.pc \notin HoldingLabels
  <2>1. "initreload" \in Labels /\ "initreload" \notin HoldingLabels
        /\ "initreload" \notin RecoveryLabels \cup StagingLabels
    BY DEF Labels, HoldingLabels, RecoveryLabels, StagingLabels
  <2>2. /\ reload \in Locals /\ reload.pc = "initreload" /\ reload.op = l.op
        /\ reload.ctx = l.ctx /\ reload.intent = l.intent
    BY <1>1, <2>1 DEF Locals
  <2>3. ControlInv(reload)
    BY <1>1, <2>1, <2>2 DEF LocalInv, ControlInv
  <2> QED
    BY Zenon, <2>1, <2>2, <2>3, PlainInv
<1>7. JournalSwap(p, None, c, None, opened, reload, reload)
  BY DEF InitializeJournal
<1> HIDE DEF c, st, opened, reload
<1> QED
  BY <1>2, <1>4, <1>5, <1>6, <1>7, NilFacts, SwapStep

\* InitializeReload opens what a concurrent initialisation left.
LEMMA InitializeReloadInv ==
  ASSUME IndInv, NEW p \in Publishers, InitializeReload(p)
  PROVE  IndInv'
<1>1. LocalInv(pub[p]) /\ pub[p].ctx # "none" /\ "error" \in Results
  BY DEF IndInv, LocalInv, ControlInv, InitializeReload, Results
<1> QED
  BY <1>1, FailedInv, OpenedInv, LoadStep DEF InitializeReload

\* PrepareReload reads the journal again after a recovery.
LEMMA PrepareReloadInv ==
  ASSUME IndInv, NEW p \in Publishers, PrepareReload(p)
  PROVE  IndInv'
<1> DEFINE l == pub[p]
           st == LoadedState(p)
           s == journal[JournalOf[p]]
           present == IF st.pending = None THEN NothingPending(l, st, LoadedRevision(p))
                      ELSE Failed(l, "indeterminate")
<1>1. LocalInv(l) /\ l.ctx # "none" /\ "indeterminate" \in Results
  BY DEF IndInv, LocalInv, ControlInv, PrepareReload, Results
<1>2. ASSUME s.found PROVE LocalInv(present) /\ Faithful(present, s)
  <2>1. CASE st.pending = None
    <3>1. present = Opened(l, st, LoadedRevision(p))
      BY <2>1 DEF Opened
    <3> QED
      BY <1>1, <1>2, <3>1, OpenedInv
  <2>2. CASE st.pending # None
    BY <1>1, <2>2, FailedInv
  <2> QED
    BY <2>1, <2>2
<1>3. Load(p, Failed(l, "indeterminate"), present)
  BY DEF PrepareReload
<1> HIDE DEF present
<1> QED
  BY <1>1, <1>2, <1>3, FailedInv, LoadStep

\* A stage that stays in possession of its journal state.
LEMMA StillHeld ==
  ASSUME NEW l, NEW m, NEW s, Faithful(l, s), l.pc \in HoldingLabels,
         m.pc \in HoldingLabels => m.st = l.st /\ m.rev = l.rev
  PROVE  Faithful(m, s)
BY DEF Faithful

\* ReadReference: the GET of a stage and the checks on what it read.
LEMMA ReadReferenceInv ==
  ASSUME IndInv, NEW p \in Publishers, ReadReference(p)
  PROVE  IndInv'
<1> DEFINE l == pub[p]
           s == journal[JournalOf[p]]
           c == remote.commit
           against == AnchorVerdict(c, l.st.committed)
           descent == DescentVerdict(c, l.st.committed)
           O == Observed(p, l, remote)
           acc == [l EXCEPT !.pc = "accept", !.obs = remote]
<1>1. LocalInv(l) /\ l \in Locals /\ l.pc = "getref" /\ Faithful(l, s) /\ remote \in OptionalRef
  BY DEF IndInv, TypeOK, LocalInv, ReadReference
<1>2. /\ l.pc \in HoldingLabels /\ l.st.pending = None /\ l.ctx = "prepare"
      /\ l.st \in LoadedStates /\ l.st.committed \in Watermarks
  BY <1>1 DEF LocalInv, StagingInv, ControlInv, StagingLabels, HoldingLabels, Locals, LoadedStates
<1>3. against \in Results /\ descent \in Results /\ "rollback" \in Results /\ "error" \in Results
  BY DEF AnchorVerdict, DescentVerdict, Results
<1>4. remote # None => c \in Commits /\ c \in Watermarks /\ c # <<>>
  BY <1>1 DEF OptionalRef, Refs, Commits
<1>5. \A r \in Results : LocalInv(Failed(l, r)) /\ Faithful(Failed(l, r), s)
  BY <1>1, FailedInv
<1>6. ASSUME IsObjectOf(remote, l.st.committed), l.op = "resign" => remote # None
      PROVE  LocalInv(Accepted(p, l, l.st, remote)) /\ Faithful(Accepted(p, l, l.st, remote), s)
  <2> DEFINE A == Accepted(p, l, l.st, remote)
  <2> HIDE DEF l
  <2>1. LocalInv(A) /\ (A.pc \in HoldingLabels => A.st = l.st /\ A.rev = l.rev)
    BY <1>1, <1>2, <1>6, AcceptedInv
  <2> QED
    BY <1>1, <1>2, <2>1, StillHeld
<1> SUFFICES LocalInv(O) /\ Faithful(O, s)
  BY <1>3, GetStep DEF ReadReference
<1>7. CASE remote = None
  <2>1. CASE l.st.committed # <<>> \/ l.op = "resign"
    BY <1>3, <1>5, <1>7, <2>1 DEF Observed
  <2>2. CASE l.st.committed = <<>> /\ l.op # "resign"
    <3>1. O = Accepted(p, l, l.st, remote) /\ IsObjectOf(remote, l.st.committed)
      BY <1>7, <2>2 DEF Observed, IsObjectOf
    <3> QED
      BY <1>6, <2>2, <3>1
  <2> QED
    BY <2>1, <2>2
<1>8. CASE remote # None /\ c = l.st.committed /\ against = "ok"
  <2>1. O = Accepted(p, l, l.st, remote) /\ IsObjectOf(remote, l.st.committed)
    BY <1>4, <1>8 DEF Observed, IsObjectOf
  <2> QED
    BY <1>6, <1>8, <2>1
<1>9. CASE remote # None /\ (against # "ok" \/ (c # l.st.committed /\ l.st.committed # <<>> /\ descent # "ok"))
  BY <1>3, <1>5, <1>9 DEF Observed
<1>10. CASE remote # None /\ against = "ok" /\ c # l.st.committed
            /\ (l.st.committed = <<>> \/ descent = "ok")
  <2>1. O = acc
    BY <1>10 DEF Observed
  <2>2. Ancestor(l.st.committed, c)
    BY <1>4, <1>10, AncestorBase, DescentIsAncestor
  <2>3. "accept" \in Labels /\ "accept" \notin RecoveryLabels
    BY DEF Labels, RecoveryLabels
  <2>4. /\ acc \in Locals /\ acc.pc = "accept" /\ acc.op = l.op /\ acc.ctx = l.ctx
        /\ acc.st = l.st /\ acc.rev = l.rev /\ acc.intent = l.intent /\ acc.obs = remote
    BY Zenon, <1>1, <2>3 DEF Locals
  <2> HIDE DEF acc
  <2>5. RecoveryInv(acc)
    BY <2>3, <2>4 DEF RecoveryInv
  <2>6. StagingInv(acc)
    BY <1>2, <1>10, <2>2, <2>4 DEF StagingInv
  <2>7. ControlInv(acc)
    BY <1>1, <1>2, <2>4 DEF LocalInv, ControlInv
  <2>8. Faithful(acc, s)
    BY <1>1, <1>2, <2>4, StillHeld
  <2> QED
    BY <2>1, <2>4, <2>5, <2>6, <2>7, <2>8 DEF LocalInv
<1> QED
  BY <1>7, <1>8, <1>9, <1>10

\* AcceptObserved records the observed commit in the journal.
LEMMA AcceptObservedInv ==
  ASSUME IndInv, NEW p \in Publishers, AcceptObserved(p)
  PROVE  IndInv'
<1> DEFINE l == pub[p]
           st == [committed |-> l.obs.commit, pending |-> None]
           done == Accepted(p, l, st, l.obs)
           lost == [l EXCEPT !.pc = "acceptreload"]
           refused == [l EXCEPT !.pc = "acceptretry"]
<1>1. LocalInv(l) /\ l \in Locals /\ l.pc = "accept"
  BY DEF IndInv, LocalInv, AcceptObserved
<1>2. /\ l.st.pending = None /\ l.ctx = "prepare" /\ l.obs # None /\ l.obs \in OptionalRef
      /\ Ancestor(l.st.committed, l.obs.commit)
  BY <1>1 DEF LocalInv, StagingInv, ControlInv, StagingLabels, Locals
<1>3. l.obs.commit \in Watermarks /\ l.obs.commit # <<>>
  BY <1>2 DEF OptionalRef, Refs, Commits
<1>4. st \in LoadedStates /\ st.pending = None /\ st.committed = l.obs.commit
      /\ IsObjectOf(l.obs, st.committed)
  BY Zenon, <1>2, <1>3, NilFacts DEF LoadedStates, IsObjectOf
<1>5. LocalInv(done) /\ (done.pc \in HoldingLabels => done.st = st)
  <2> HIDE DEF l, st
  <2> QED
    BY <1>1, <1>2, <1>4, AcceptedInv
<1>6. ASSUME NEW pc \in {"acceptreload", "acceptretry"}
      PROVE  LocalInv([l EXCEPT !.pc = pc]) /\ [l EXCEPT !.pc = pc].pc \notin HoldingLabels
  <2> DEFINE m == [l EXCEPT !.pc = pc]
  <2>1. pc \in Labels /\ pc \notin RecoveryLabels /\ pc \notin HoldingLabels
    BY <1>6 DEF Labels, RecoveryLabels, HoldingLabels
  <2>2. /\ m \in Locals /\ m.pc = pc /\ m.op = l.op /\ m.ctx = l.ctx
        /\ m.st = l.st /\ m.intent = l.intent /\ m.obs = l.obs
    BY <1>1, <2>1 DEF Locals
  <2>3. RecoveryInv(m)
    BY <2>1, <2>2 DEF RecoveryInv
  <2>4. StagingInv(m)
    BY <1>2, <1>6, <2>2 DEF StagingInv
  <2>5. ControlInv(m)
    BY <1>1, <1>2, <1>6, <2>2 DEF LocalInv, ControlInv
  <2> QED
    BY <2>1, <2>2, <2>3, <2>4, <2>5 DEF LocalInv
<1>7. LocalInv(lost) /\ lost.pc \notin HoldingLabels
  BY <1>6
<1>8. LocalInv(refused) /\ refused.pc \notin HoldingLabels
  BY <1>6
<1>9. JournalSwap(p, l.rev, st.committed, None, done, lost, refused)
  BY DEF AcceptObserved
<1> HIDE DEF l, st, done, lost, refused
<1> QED
  BY <1>3, <1>4, <1>5, <1>7, <1>8, <1>9, NilFacts, SwapStep

\* AcceptReload finds out whether the observed commit was recorded.
LEMMA AcceptReloadInv ==
  ASSUME IndInv, NEW p \in Publishers, AcceptReload(p)
  PROVE  IndInv'
<1> DEFINE l == pub[p]
           st == LoadedState(p)
           s == journal[JournalOf[p]]
           m == [l EXCEPT !.rev = LoadedRevision(p)]
           e == IF l.pc = "acceptretry" THEN "conflict" ELSE "error"
           present == IF st.pending = None /\ st.committed = l.obs.commit
                      THEN Accepted(p, m, st, l.obs) ELSE Failed(l, e)
<1>1. LocalInv(l) /\ l \in Locals /\ l.pc \in {"acceptreload", "acceptretry"}
  BY DEF IndInv, LocalInv, AcceptReload
<1>2. l.ctx = "prepare" /\ l.obs # None /\ l.obs \in OptionalRef /\ l.pc \notin HoldingLabels
  BY Zenon, <1>1 DEF LocalInv, StagingInv, ControlInv, StagingLabels, HoldingLabels, Locals
<1>3. l.obs.commit # <<>>
  BY <1>2 DEF OptionalRef, Refs, Commits
<1>4. e \in Results
  BY DEF Results
<1>5. LocalInv(Failed(l, e)) /\ Faithful(Failed(l, e), s)
  BY <1>1, <1>4, FailedInv
<1>6. ASSUME s.found, st.pending = None, st.committed = l.obs.commit
      PROVE  LocalInv(Accepted(p, m, st, l.obs)) /\ Faithful(Accepted(p, m, st, l.obs), s)
  <2> DEFINE A == Accepted(p, m, st, l.obs)
  <2>1. st \in LoadedStates /\ LoadedRevision(p) \in Revisions
    BY <1>6, LoadedFacts DEF OptionalRevision
  <2>2. m.ctx = l.ctx /\ m.op = l.op /\ m.rev = LoadedRevision(p)
    BY <1>1 DEF Locals
  <2>3. LoadedRevision(p) = s.rev
    BY DEF LoadedRevision
  <2>4. LocalInv(m)
    BY <1>1, <1>2, <2>1, <2>3, RevisionInv
  <2>5. IsObjectOf(l.obs, st.committed)
    BY <1>2, <1>3, <1>6 DEF IsObjectOf
  <2> HIDE DEF l, st, m
  <2>6. LocalInv(A) /\ (A.pc \in HoldingLabels => A.st = st /\ A.rev = m.rev)
    BY <1>2, <1>6, <2>1, <2>2, <2>4, <2>5, AcceptedInv
  <2> QED
    BY <1>6, <2>2, <2>6, HeldFaithful DEF st
<1>7. s.found => LocalInv(present) /\ Faithful(present, s)
  <2> HIDE DEF m
  <2> QED
    BY <1>5, <1>6
<1>8. Load(p, Failed(l, e), present)
  BY DEF AcceptReload
<1> HIDE DEF present, e
<1> QED
  BY <1>5, <1>7, <1>8, LoadStep

\* BuildSnapshot stages a child of the commit it read.
LEMMA BuildSnapshotInv ==
  ASSUME IndInv, NEW p \in Publishers, BuildSnapshot(p)
  PROVE  IndInv'
<1> DEFINE l == pub[p]
           s == journal[JournalOf[p]]
           intent(m) == [kind |-> "publish", base |-> l.st.committed,
                         next |-> Append(l.st.committed, m), key |-> KeyOf[p], expected |-> l.obs]
           same == [Kept(l) EXCEPT !.pc = "unchanged", !.obs = l.obs]
           begin(i) == [l EXCEPT !.pc = "begin", !.intent = i, !.obs = None]
<1>1. LocalInv(l) /\ l \in Locals /\ Kept(l) \in Locals /\ l.pc = "build" /\ Faithful(l, s)
  BY KeptFacts DEF IndInv, LocalInv, BuildSnapshot
<1>2. /\ l.pc \in HoldingLabels /\ l.st.pending = None /\ l.ctx = "prepare"
      /\ l.st.committed \in Watermarks /\ l.obs \in OptionalRef
      /\ IsObjectOf(l.obs, l.st.committed) /\ Len(l.st.committed) < MaxGeneration
  BY Zenon, <1>1 DEF LocalInv, StagingInv, ControlInv, StagingLabels, HoldingLabels, Locals
<1>3. l.op \in {"publish", "resign"}
  BY <1>1, <1>2 DEF LocalInv, ControlInv
<1>4. ASSUME l.obs # None PROVE LocalInv(same) /\ Faithful(same, s)
  <2>1. "unchanged" \in Labels /\ "unchanged" \notin RecoveryLabels \cup StagingLabels
    BY DEF Labels, RecoveryLabels, StagingLabels
  <2>2. same \in Locals
    BY Zenon, <1>1, <1>2, <2>1 DEF Locals
  <2>3. same.pc = "unchanged" /\ same.op = l.op /\ same.ctx = l.ctx /\ same.obs = l.obs
        /\ same.intent = l.intent
    BY <1>1, KeptFacts DEF Locals
  <2>4. ControlInv(same)
    BY <1>2, <1>3, <1>4, <2>1, <2>3 DEF ControlInv
  <2> QED
    BY Zenon, <2>1, <2>2, <2>3, <2>4, PlainInv
<1>5. ASSUME NEW m \in Manifest
      PROVE  LocalInv(begin(intent(m))) /\ Faithful(begin(intent(m)), s)
  <2> DEFINE i == intent(m)
             b == begin(i)
  <2>1. /\ Append(l.st.committed, m) \in Commits
        /\ Len(Append(l.st.committed, m)) = Len(l.st.committed) + 1
        /\ Ancestor(l.st.committed, Append(l.st.committed, m))
    BY <1>2, <1>5, AncestorAppend
  <2>2. i \in Intents
    BY <1>2, <2>1, PublicationAssumption DEF Intents
  <2>3. i \in OptionalIntent /\ i # None
    BY Zenon, <2>2, PublicationAssumption DEF OptionalIntent
  <2>4. ValidIntent(i) /\ i.base = l.st.committed
    BY <1>2, <2>1 DEF ValidIntent, IsObjectOf
  <2> HIDE DEF i
  <2>5. "begin" \in Labels /\ "begin" \notin RecoveryLabels
    BY DEF Labels, RecoveryLabels
  <2>6. /\ b \in Locals /\ b.pc = "begin" /\ b.op = l.op /\ b.ctx = l.ctx
        /\ b.st = l.st /\ b.rev = l.rev /\ b.intent = i
    BY Zenon, <1>1, <2>3, <2>5, NilFacts DEF Locals
  <2> HIDE DEF b, l
  <2>7. RecoveryInv(b)
    BY <2>5, <2>6 DEF RecoveryInv
  <2>8. StagingInv(b)
    BY <1>2, <2>3, <2>4, <2>6 DEF StagingInv
  <2>9. ControlInv(b)
    BY <1>2, <1>3, <2>6 DEF ControlInv
  <2>10. LocalInv(b) /\ Faithful(b, s)
    BY <1>1, <1>2, <2>6, <2>7, <2>8, <2>9, StillHeld DEF LocalInv
  <2> QED
    BY <2>10 DEF b, i, l
<1>6. PICK m \in Manifest :
        \/ l.obs # None /\ pub' = [pub EXCEPT ![p] = same]
        \/ pub' = [pub EXCEPT ![p] = begin(intent(m))]
  BY Zenon DEF BuildSnapshot
<1>7. /\ remote' \in OptionalRef /\ faults' \in 0..MaxFaults /\ mishaps' \in 0..MaxMishaps
      /\ journal' = journal /\ \A q \in inflight' : RequestInv(q)
  BY DEF IndInv, TypeOK, BuildSnapshot
<1>8. PICK x : pub' = [pub EXCEPT ![p] = x] /\ LocalInv(x) /\ Faithful(x, s)
  <2> HIDE DEF same, begin, intent
  <2> QED
    BY <1>4, <1>5, <1>6
<1> QED
  BY Zenon, <1>7, <1>8, PublisherStep

\* CommitUnchanged looks at the reference once more.
LEMMA CommitUnchangedInv ==
  ASSUME IndInv, NEW p \in Publishers, CommitUnchanged(p)
  PROVE  IndInv'
<1> DEFINE l == pub[p]
           c == l.obs.commit
           next == IF remote = None \/ remote.commit # c THEN Failed(l, "conflict")
                   ELSE Returned(l, "ok", c)
<1>1. LocalInv(l) /\ l \in Locals /\ l.pc = "unchanged" /\ l.obs # None
  BY Zenon DEF IndInv, LocalInv, ControlInv, CommitUnchanged
<1>2. c \in Watermarks
  BY <1>1 DEF Locals, OptionalRef, Refs, Commits
<1>3. "conflict" \in Results /\ "ok" \in Results /\ "error" \in Results
  BY DEF Results
<1>4. LocalInv(next) /\ Faithful(next, journal[JournalOf[p]])
  BY <1>1, <1>2, <1>3, FailedInv, ReturnedInv
<1>5. Get(p, next, "error")
  BY DEF CommitUnchanged
<1> HIDE DEF next
<1> QED
  BY <1>3, <1>4, <1>5, GetStep

\* Handing a durable intent to RecoverPublication.
LEMMA CommittingInv ==
  ASSUME NEW l, LocalInv(l), l.intent # None
  PROVE  /\ LocalInv(Committing(l)) /\ \A s : Faithful(Committing(l), s)
         /\ Committing(l).pc = "load" /\ Committing(l).ctx = "commit"
<1> DEFINE m == Committing(l)
<1>1. l \in Locals /\ Kept(l) \in Locals /\ "load" \in Labels
      /\ "load" \notin RecoveryLabels \cup StagingLabels
  BY KeptFacts, LabelFacts DEF LocalInv, RecoveryLabels, StagingLabels
<1>2. m \in Locals
  BY Zenon, <1>1 DEF Committing, Locals
<1>3. m.pc = "load" /\ m.ctx = "commit" /\ m.intent = l.intent
  BY <1>1, KeptFacts DEF Committing, Locals
<1>4. ControlInv(m)
  BY <1>1, <1>3 DEF ControlInv
<1> QED
  BY <1>1, <1>2, <1>3, <1>4, PlainInv

\* BeginIntent writes the intent ahead of the reference CAS.
LEMMA BeginIntentInv ==
  ASSUME IndInv, NEW p \in Publishers, BeginIntent(p)
  PROVE  IndInv'
<1> DEFINE l == pub[p]
           done == Committing(l)
           reload == [l EXCEPT !.pc = "beginreload"]
<1>1. LocalInv(l) /\ l \in Locals /\ l.pc = "begin"
  BY DEF IndInv, LocalInv, BeginIntent
<1>2. /\ l.st.pending = None /\ l.ctx = "prepare" /\ l.intent # None /\ l.intent \in OptionalIntent
      /\ l.st.committed \in Watermarks
  BY Zenon, <1>1 DEF LocalInv, StagingInv, ControlInv, StagingLabels, Locals
<1>3. LocalInv(done) /\ done.pc \notin HoldingLabels
  BY <1>1, <1>2, CommittingInv, LabelFacts
<1>4. LocalInv(reload) /\ reload.pc \notin HoldingLabels
  <2>1. "beginreload" \in Labels /\ "beginreload" \notin RecoveryLabels
        /\ "beginreload" \notin HoldingLabels
    BY DEF Labels, RecoveryLabels, HoldingLabels
  <2>2. /\ reload \in Locals /\ reload.pc = "beginreload" /\ reload.op = l.op
        /\ reload.ctx = l.ctx /\ reload.st = l.st /\ reload.intent = l.intent
    BY <1>1, <2>1 DEF Locals
  <2>3. RecoveryInv(reload)
    BY <2>1, <2>2 DEF RecoveryInv
  <2>4. StagingInv(reload)
    BY <1>1, <2>2 DEF LocalInv, StagingInv, StagingLabels
  <2>5. ControlInv(reload)
    BY <1>1, <1>2, <2>2 DEF LocalInv, ControlInv
  <2> QED
    BY <2>1, <2>2, <2>3, <2>4, <2>5 DEF LocalInv
<1>5. JournalSwap(p, l.rev, l.st.committed, l.intent, done, reload, reload)
  BY DEF BeginIntent
<1> HIDE DEF l, done, reload
<1> QED
  BY <1>2, <1>3, <1>4, <1>5, SwapStep

\* BeginReload finds out whether the intent became durable.
LEMMA BeginReloadInv ==
  ASSUME IndInv, NEW p \in Publishers, BeginReload(p)
  PROVE  IndInv'
<1> DEFINE l == pub[p]
           st == LoadedState(p)
           s == journal[JournalOf[p]]
           again == [l EXCEPT !.pc = "begin", !.st = st, !.rev = LoadedRevision(p), !.tries = 1]
           present == IF st.pending # None
                      THEN IF st.pending = l.intent THEN Committing(l) ELSE Failed(l, "conflict")
                      ELSE IF st.committed = l.intent.base
                      THEN IF l.tries = 0 THEN again ELSE Failed(l, "conflict")
                      ELSE Classified(Committing(l), l.intent, st.committed)
<1>1. LocalInv(l) /\ l \in Locals /\ l.pc = "beginreload"
  BY DEF IndInv, LocalInv, BeginReload
<1>2. /\ l.ctx = "prepare" /\ l.intent # None /\ l.intent \in Intents /\ ValidIntent(l.intent)
  BY Zenon, <1>1 DEF LocalInv, StagingInv, ControlInv, StagingLabels, Locals, OptionalIntent
<1>3. "rollback" \in Results /\ "conflict" \in Results
  BY DEF Results
<1>4. ASSUME s.found PROVE LocalInv(present) /\ Faithful(present, s)
  <2>1. st \in LoadedStates /\ LoadedRevision(p) \in OptionalRevision /\ st.committed \in Watermarks
    BY <1>4, LoadedFacts DEF LoadedStates
  <2>2. CASE present = Failed(l, "conflict")
    BY <1>1, <1>3, <2>2, FailedInv
  <2>3. CASE present = Committing(l)
    BY <1>1, <1>2, <2>3, CommittingInv
  <2>4. CASE present = Classified(Committing(l), l.intent, st.committed)
    BY <1>1, <1>2, <2>1, <2>4, CommittingInv, ClassifiedInv
  <2>5. CASE present = again /\ st.pending = None /\ st.committed = l.intent.base
    <3>1. "begin" \in Labels /\ "begin" \notin RecoveryLabels
      BY DEF Labels, RecoveryLabels
    <3>2. /\ again \in Locals /\ again.pc = "begin" /\ again.op = l.op /\ again.ctx = l.ctx
          /\ again.st = st /\ again.rev = LoadedRevision(p) /\ again.intent = l.intent
      <4>1. 1 \in Nat
        OBVIOUS
      <4> HIDE DEF st
      <4> QED
        BY Zenon, <1>1, <2>1, <3>1, <4>1 DEF Locals, LoadedStates
    <3> HIDE DEF again, present, st
    <3>3. RecoveryInv(again)
      BY <3>1, <3>2 DEF RecoveryInv
    <3>4. StagingInv(again)
      BY <1>2, <2>5, <3>2 DEF StagingInv
    <3>5. ControlInv(again)
      BY <1>1, <1>2, <3>2 DEF LocalInv, ControlInv
    <3>6. Faithful(again, s)
      BY <1>4, <3>2, HeldFaithful DEF st
    <3> QED
      BY <2>5, <3>2, <3>3, <3>4, <3>5, <3>6 DEF LocalInv
  <2> QED
    BY <2>2, <2>3, <2>4, <2>5
<1>5. Load(p, Failed(l, "rollback"), present)
  BY DEF BeginReload
<1> HIDE DEF present
<1> QED
  BY <1>1, <1>3, <1>4, <1>5, FailedInv, LoadStep

\* CommitNone classifies an intent that is no longer pending.
LEMMA CommitNoneInv ==
  ASSUME IndInv, NEW p \in Publishers, CommitNone(p)
  PROVE  IndInv'
<1> DEFINE l == pub[p]
           present == Classified(l, l.intent, LoadedState(p).committed)
<1>1. LocalInv(l) /\ l \in Locals /\ l.pc = "noneload" /\ "conflict" \in Results /\ l.ctx # "none"
  BY Zenon DEF IndInv, LocalInv, ControlInv, CommitNone, Results
<1>2. l.intent \in Intents
  BY <1>1 DEF LocalInv, ControlInv, Locals, OptionalIntent
<1>3. journal[JournalOf[p]].found => LocalInv(present) /\ Faithful(present, journal[JournalOf[p]])
  BY <1>1, <1>2, LoadedFacts, ClassifiedInv DEF LoadedStates
<1>4. Load(p, Failed(l, "conflict"), present)
  BY DEF CommitNone
<1> HIDE DEF present
<1> QED
  BY <1>1, <1>3, <1>4, FailedInv, LoadStep

\* Start and Finish: a call begins, and the next may.
LEMMA StartFinishInv ==
  ASSUME IndInv, NEW p \in Publishers,
         Finish(p) \/ \E op \in {"publish", "resign", "recover"} : Start(p, op)
  PROVE  IndInv'
<1> DEFINE l == pub[p]
           s == journal[JournalOf[p]]
<1>1. LocalInv(l) /\ l \in Locals /\ l.validated \in Watermarks
  BY DEF IndInv, LocalInv, Locals
<1>2. /\ remote' \in OptionalRef /\ faults' \in 0..MaxFaults /\ mishaps' \in 0..MaxMishaps
      /\ journal' = journal /\ \A q \in inflight' : RequestInv(q)
  BY DEF IndInv, TypeOK, Start, Finish
<1>3. CASE Finish(p)
  <2>1. pub' = [pub EXCEPT ![p] = [Idle EXCEPT !.validated = l.validated]]
    BY <1>3 DEF Finish
  <2> QED
    BY Zenon, <1>1, <1>2, <2>1, IdleInv, ValidatedInv, PublisherStep
<1>4. ASSUME NEW op \in {"publish", "resign", "recover"}, Start(p, op)
      PROVE  IndInv'
  <2> DEFINE ctx == IF op = "recover" THEN "recover" ELSE "prepare"
             m == [l EXCEPT !.pc = "load", !.op = op, !.ctx = ctx]
  <2>1. "load" \in Labels /\ "load" \notin RecoveryLabels \cup StagingLabels
    BY DEF Labels, RecoveryLabels, StagingLabels
  <2>2. m \in Locals /\ m.pc = "load" /\ m.op = op /\ m.ctx = ctx
    BY Zenon, <1>1, <1>4, <2>1 DEF Locals
  <2>3. ControlInv(m)
    BY <1>4, <2>1, <2>2 DEF ControlInv
  <2>4. LocalInv(m) /\ Faithful(m, s)
    BY Zenon, <2>1, <2>2, <2>3, PlainInv
  <2>5. pub' = [pub EXCEPT ![p] = m]
    BY <1>4 DEF Start
  <2> HIDE DEF m
  <2> QED
    BY Zenon, <1>2, <2>4, <2>5, PublisherStep
<1> QED
  BY <1>3, <1>4

-----------------------------------------------------------------------------
(* The environment. *)

\* A crash forgets everything in memory.
LEMMA CrashInv ==
  ASSUME IndInv, NEW p \in Publishers, Crash(p)
  PROVE  IndInv'
<1>1. /\ remote' \in OptionalRef /\ mishaps' \in 0..MaxMishaps /\ journal' = journal
      /\ pub' = [pub EXCEPT ![p] = Idle] /\ \A q \in inflight' : RequestInv(q)
  BY DEF IndInv, TypeOK, Crash
<1>2. faults' \in 0..MaxFaults
  BY FaultBound DEF Crash
<1> QED
  BY Zenon, <1>1, <1>2, IdleInv, PublisherStep

\* Publishers and their journals are as they were.
LEMMA Untouched ==
  ASSUME IndInv, pub' = pub, journal' = journal, faults' = faults,
         remote' \in OptionalRef, mishaps' \in 0..MaxMishaps, inflight' \subseteq inflight
  PROVE  IndInv'
<1>1. TypeOK'
  BY DEF IndInv, TypeOK
<1>2. \A j \in Journals : JournalInv(journal'[j])
  BY DEF IndInv
<1>3. \A q \in inflight' : RequestInv(q)
  BY DEF IndInv
<1>4. \A p \in Publishers : LocalInv(pub'[p]) /\ Faithful(pub'[p], journal'[JournalOf[p]])
  BY DEF IndInv
<1> QED
  BY <1>1, <1>2, <1>3, <1>4 DEF IndInv

\* A late request is handled by the store.
LEMMA DeliverInv ==
  ASSUME IndInv, Deliver
  PROVE  IndInv'
<1>1. remote' \in OptionalRef /\ mishaps' \in 0..MaxMishaps /\ inflight' \subseteq inflight
      /\ pub' = pub /\ journal' = journal /\ faults' = faults
  BY DEF IndInv, TypeOK, Deliver, RequestInv, OptionalRef
<1> QED
  BY <1>1, Untouched

\* A restored reference is an earlier commit.
LEMMA RestoreReferenceInv ==
  ASSUME IndInv, RestoreReference
  PROVE  IndInv'
<1>1. mishaps' \in 0..MaxMishaps
  BY PublicationAssumption DEF IndInv, TypeOK, RestoreReference
<1>2. remote' \in OptionalRef
  <2>1. remote \in Refs
    BY DEF IndInv, TypeOK, OptionalRef, RestoreReference
  <2>2. PICK n \in 0..(Len(remote.commit) - 1) :
          remote' = IF n = 0 THEN None ELSE [remote EXCEPT !.commit = SubSeq(remote.commit, 1, n)]
    BY Zenon DEF RestoreReference
  <2>3. remote.commit \in Seq(Manifest) /\ Len(remote.commit) \in Nat
        /\ Len(remote.commit) <= MaxGeneration
    BY <2>1 DEF Refs, Commits, Watermarks, Chains
  <2>4. CASE n # 0
    <3> DEFINE c == SubSeq(remote.commit, 1, n)
    <3>1. c \in Seq(Manifest) /\ Len(c) = n
      BY <2>2, <2>3, <2>4
    <3>2. Len(c) <= MaxGeneration /\ c # <<>>
      BY <2>2, <2>3, <2>4, <3>1, PublicationAssumption
    <3>3. c \in Commits
      BY <3>1, <3>2 DEF Commits, Watermarks, Chains
    <3> HIDE DEF c
    <3>4. [remote EXCEPT !.commit = c] \in Refs
      BY <2>1, <3>3 DEF Refs
    <3> QED
      BY <2>2, <2>4, <3>4 DEF OptionalRef, c
  <2>5. CASE n = 0
    BY <2>2, <2>5, NilFacts
  <2> QED
    BY <2>4, <2>5
<1> QED
  BY <1>1, <1>2, Untouched DEF RestoreReference

\* A lost journal leaves publishers with revisions that match nothing.
LEMMA LoseJournalInv ==
  ASSUME IndInv, LoseJournal
  PROVE  IndInv'
<1>1. PICK j \in Journals : journal' = [journal EXCEPT ![j] = NoJournal]
  BY Zenon DEF LoseJournal
<1>2. NoJournal \in JournalStates /\ NoJournal.rev = None
  BY NilFacts DEF NoJournal, JournalStates
<1>3. JournalInv(NoJournal)
  BY Zenon, <1>2 DEF NoJournal, JournalInv, ValidJournal
<1>4. mishaps' \in 0..MaxMishaps
  BY PublicationAssumption DEF IndInv, TypeOK, LoseJournal
<1>5. TypeOK'
  BY <1>1, <1>2, <1>4 DEF IndInv, TypeOK, LoseJournal
<1>6. \A i \in Journals : JournalInv(journal'[i])
  BY <1>1, <1>3 DEF IndInv, TypeOK
<1>7. ASSUME NEW p \in Publishers PROVE Faithful(pub[p], journal'[JournalOf[p]])
  <2>1. Faithful(pub[p], journal[JournalOf[p]]) /\ JournalOf[p] \in Journals
    BY PublicationAssumption DEF IndInv
  <2>2. journal'[JournalOf[p]] = journal[JournalOf[p]] \/ journal'[JournalOf[p]].rev = None
    BY <1>1, <1>2, <2>1 DEF IndInv, TypeOK
  <2> QED
    BY <2>1, <2>2 DEF Faithful
<1>8. pub' = pub /\ inflight' = inflight
  BY DEF LoseJournal
<1>9. \A q \in inflight' : RequestInv(q)
  BY <1>8 DEF IndInv
<1>10. \A p \in Publishers : LocalInv(pub'[p]) /\ Faithful(pub'[p], journal'[JournalOf[p]])
  BY <1>7, <1>8 DEF IndInv
<1> QED
  BY <1>5, <1>6, <1>9, <1>10 DEF IndInv

-----------------------------------------------------------------------------
(* The theorems. *)

\* The initial state satisfies the invariant.
LEMMA InitInv == Init => IndInv
<1> SUFFICES ASSUME Init PROVE IndInv
  OBVIOUS
<1>1. NoJournal \in JournalStates /\ JournalInv(NoJournal)
  BY Zenon, NilFacts DEF NoJournal, JournalStates, JournalInv, ValidJournal
<1>2. Idle \in Locals
  BY IdleInv DEF LocalInv
<1>3. TypeOK
  BY <1>1, <1>2, PublicationAssumption DEF Init, TypeOK
<1> QED
  BY <1>1, <1>3, IdleInv DEF Init, IndInv

\* Every step of every publisher and of the environment preserves it.
LEMMA NextInv == IndInv /\ [Next]_vars => IndInv'
<1> SUFFICES ASSUME IndInv, [Next]_vars PROVE IndInv'
  OBVIOUS
<1>1. CASE UNCHANGED vars
  BY <1>1, Untouched DEF vars, IndInv, TypeOK
<1>2. ASSUME NEW p \in Publishers, Recovery(p) PROVE IndInv'
  BY <1>2, RecoverGetInv, RecoverRefreshInv, RecoverRefreshReloadInv, RecoverSwapInv,
     RecoverReloadInv, RecoverFinalizeInv, RecoverFinalizeReloadInv, ClassifyResolvedResignInv
     DEF Recovery
<1>3. ASSUME NEW p \in Publishers, Operation(p) PROVE IndInv'
  BY <1>3, LoadJournalInv, InitializeJournalInv, InitializeReloadInv, PrepareReloadInv,
     ReadReferenceInv, AcceptObservedInv, AcceptReloadInv, BuildSnapshotInv,
     CommitUnchangedInv, BeginIntentInv, BeginReloadInv, CommitNoneInv, StartFinishInv
     DEF Operation
<1>4. CASE Environment
  BY <1>4, DeliverInv, RestoreReferenceInv, LoseJournalInv, CrashInv DEF Environment
<1> QED
  BY <1>1, <1>2, <1>3, <1>4, StartFinishInv DEF Next

\* Whatever publishers, journals, crashes, lost answers and operators do, a
\* pending intent extends exactly the committed watermark of its journal, a
\* publisher acts on a journal state only under the revision it read it with, and
\* every reference CAS is conditional on the object its commit was built on.
THEOREM Invariance == Spec => []IndInv
BY InitInv, NextInv, PTL DEF Spec

\* The state stays within its types.
THEOREM TypeCorrect == Spec => []TypeOK
<1>1. IndInv => TypeOK
  BY DEF IndInv
<1> QED
  BY <1>1, Invariance, PTL

\* Only these actions write the reference.
LEMMA ReferenceWriters ==
  ASSUME Next, remote' # remote
  PROVE  Deliver \/ RestoreReference \/ \E p \in Publishers : RecoverSwap(p)
<1>1. ASSUME NEW p \in Publishers, Recovery(p) PROVE RecoverSwap(p)
  BY Zenon, <1>1 DEF Recovery, RecoverGet, RecoverRefresh, RecoverRefreshReload, RecoverReload,
       RecoverFinalize, RecoverFinalizeReload, ClassifyResolvedResign, Get, Load, JournalSwap
<1>2. ASSUME NEW p \in Publishers, Operation(p) PROVE FALSE
  BY Zenon, <1>2 DEF Operation, LoadJournal, InitializeJournal, InitializeReload, PrepareReload,
       ReadReference, AcceptObserved, AcceptReload, BuildSnapshot, CommitUnchanged,
       BeginIntent, BeginReload, CommitNone, Finish, Get, Load, JournalSwap
<1>3. CASE Environment
  BY <1>3 DEF Environment, LoseJournal, Crash
<1> QED
  BY Zenon, <1>1, <1>2, <1>3 DEF Next, Start

\* Only an operator's actions count as mishaps.
LEMMA MishapWriters ==
  ASSUME Next, mishaps' # mishaps
  PROVE  RestoreReference \/ LoseJournal
<1>1. ASSUME NEW p \in Publishers, Recovery(p) PROVE FALSE
  BY Zenon, <1>1 DEF Recovery, RecoverGet, RecoverRefresh, RecoverRefreshReload, RecoverReload, RecoverSwap,
       RecoverFinalize, RecoverFinalizeReload, ClassifyResolvedResign, Get, Load, JournalSwap
<1>2. ASSUME NEW p \in Publishers, Operation(p) PROVE FALSE
  BY Zenon, <1>2 DEF Operation, LoadJournal, InitializeJournal, InitializeReload, PrepareReload,
       ReadReference, AcceptObserved, AcceptReload, BuildSnapshot, CommitUnchanged,
       BeginIntent, BeginReload, CommitNone, Finish, Get, Load, JournalSwap
<1>3. CASE Environment
  BY <1>3 DEF Environment, Deliver, Crash
<1> QED
  BY Zenon, <1>1, <1>2, <1>3 DEF Next, Start

\* A commit that is at most one generation ahead of an ancestor is the ancestor or its child.
LEMMA AncestorOrChild ==
  ASSUME NEW c \in Chains, NEW d \in Chains, Ancestor(c, d), Len(d) <= Len(c) + 1
  PROVE  d = c \/ \E m \in Manifest : d = Append(c, m)
<1>1. Len(c) \in Nat /\ Len(d) \in Nat /\ Len(c) <= Len(d) /\ \A i \in 1..Len(c) : c[i] = d[i]
  BY DEF Ancestor, Chains
<1>2. CASE Len(d) = Len(c)
  BY <1>1, <1>2, ChainsEqual
<1>3. CASE Len(d) = Len(c) + 1
  <2> DEFINE m == d[Len(c) + 1]
             e == Append(c, m)
  <2>1. m \in Manifest
    BY <1>1, <1>3 DEF Chains
  <2>2. e \in Chains /\ Len(e) = Len(c) + 1 /\ e[Len(c) + 1] = m /\ \A i \in 1..Len(c) : e[i] = c[i]
    BY <2>1, ChainAppend
  <2> HIDE DEF e
  <2>3. \A i \in 1..Len(d) : d[i] = e[i]
    BY <1>1, <1>3, <2>2
  <2>4. d = e
    BY <1>3, <2>2, <2>3, ChainsEqual
  <2> QED
    BY <2>1, <2>4 DEF e
<1> QED
  BY <1>1, <1>2, <1>3

\* The published commit is a chain.
LEMMA PublishedIsChain == TypeOK => PublishedCommit \in Chains
  BY PublicationAssumption DEF TypeOK, PublishedCommit, OptionalRef, Refs, Commits, Watermarks, Chains

\* A reference that an operator restored is an ancestor of the one before.
LEMMA RestoreSetsBack ==
  ASSUME TypeOK, RestoreReference
  PROVE  C!SetBack
<1>1. remote \in Refs /\ remote # None /\ PublishedCommit = remote.commit
  BY DEF TypeOK, OptionalRef, RestoreReference, PublishedCommit
<1>2. PICK n \in 0..(Len(remote.commit) - 1) :
        remote' = IF n = 0 THEN None ELSE [remote EXCEPT !.commit = SubSeq(remote.commit, 1, n)]
  BY Zenon DEF RestoreReference
<1>3. remote.commit \in Chains /\ remote.commit \in Seq(Manifest) /\ Len(remote.commit) \in Nat
  BY <1>1 DEF Refs, Commits, Watermarks, Chains
<1>4. n \in 0..Len(remote.commit)
  BY <1>3
<1>5. PublishedCommit' = SubSeq(remote.commit, 1, n)
  <2>1. CASE n = 0
    <3>1. SubSeq(remote.commit, 1, n) = <<>>
      BY <1>3, <1>4, <2>1, ChainPrefix
    <3> QED
      BY <1>2, <2>1, <3>1 DEF PublishedCommit
  <2>2. CASE n # 0
    <3>1. remote' = [remote EXCEPT !.commit = SubSeq(remote.commit, 1, n)]
      BY <1>2, <2>2
    <3>2. SubSeq(remote.commit, 1, n) \in Commits
      <4>1. /\ SubSeq(remote.commit, 1, n) \in Chains /\ Len(SubSeq(remote.commit, 1, n)) = n
        BY <1>3, <1>4, ChainPrefix
      <4>2. Len(remote.commit) <= MaxGeneration /\ MaxGeneration \in Nat
        BY <1>1, PublicationAssumption DEF Refs, Commits, Watermarks
      <4> QED
        BY <1>3, <1>4, <2>2, <4>1, <4>2 DEF Commits, Watermarks
    <3>3. remote' \in Refs /\ remote'.commit = SubSeq(remote.commit, 1, n)
      BY Zenon, <1>1, <3>1, <3>2 DEF Refs
    <3> QED
      BY <3>3, PublicationAssumption DEF PublishedCommit
  <2> QED
    BY <2>1, <2>2
<1> QED
  BY <1>1, <1>4, <1>5 DEF C!SetBack, RestoreReference

\* For any number of publishers and journals and any faults, publication implements the
\* channel: the reference only moves to a direct child of the published commit or to another
\* envelope of it, because every CAS, a late one too, is conditional on the object it extends.
THEOREM LineageExtends == Spec => ImplementsChannel
<1> DEFINE Step == [C!Next]_<<PublishedCommit, mishaps>>
<1>1. ASSUME NEW q, TypeOK, RequestInv(q), remote = q.expected, remote' = q.new, mishaps' = mishaps PROVE Step
  <2>1. q.new # None /\ q.new \in Refs
    BY <1>1, PublicationAssumption DEF RequestInv
  <2>2. /\ PublishedCommit = IF q.expected = None THEN <<>> ELSE q.expected.commit
        /\ PublishedCommit' = q.new.commit
    BY <1>1, <2>1 DEF PublishedCommit
  <2>3. Ancestor(PublishedCommit, q.new.commit) /\ Len(q.new.commit) <= Len(PublishedCommit) + 1
    BY <1>1, <2>2 DEF RequestInv
  <2>4. PublishedCommit \in Chains /\ q.new.commit \in Chains
    BY <1>1, <2>1, PublishedIsChain DEF Refs, Commits, Watermarks
  <2>5. PublishedCommit' = PublishedCommit \/ \E m \in Manifest : PublishedCommit' = Append(PublishedCommit, m)
    BY <2>2, <2>3, <2>4, AncestorOrChild
  <2> QED
    BY <1>1, <2>5 DEF C!Next, C!Publish
<1>2. Init => C!Init
  BY DEF Init, C!Init, PublishedCommit
<1>3. IndInv /\ [Next]_vars => Step
  <2> SUFFICES ASSUME IndInv, [Next]_vars PROVE Step
    OBVIOUS
  <2>0. TypeOK
    BY DEF IndInv
  <2>1. CASE Deliver
    <3>1. (\E q \in inflight : remote = q.expected /\ remote' = q.new) \/ remote' = remote
      BY <2>1 DEF Deliver
    <3>2. \A q \in inflight : RequestInv(q)
      BY DEF IndInv
    <3>3. mishaps' = mishaps
      BY <2>1 DEF Deliver
    <3>4. CASE remote' = remote
      BY <3>3, <3>4 DEF PublishedCommit
    <3> QED
      BY <1>1, <2>0, <3>1, <3>2, <3>3, <3>4
  <2>2. CASE RestoreReference
    BY <2>0, <2>2, RestoreSetsBack DEF C!Next
  <2>3. ASSUME NEW p \in Publishers, RecoverSwap(p), remote' # remote PROVE Step
    <3> DEFINE l == pub[p]
               q == [expected |-> l.obs, new |-> Reference(l.st.pending)]
    <3>1. LocalInv(l) /\ l.pc = "rcas"
      BY <2>3 DEF IndInv, RecoverSwap
    <3>2. RequestInv(q)
      BY <3>1, SwapRequest
    <3>3. remote = l.obs /\ remote' = Reference(l.st.pending) /\ mishaps' = mishaps
      BY <2>3 DEF RecoverSwap, SwapMatches
    <3>4. q.expected = l.obs /\ q.new = Reference(l.st.pending)
      OBVIOUS
    <3> HIDE DEF q, l
    <3> QED
      BY <1>1, <2>0, <3>2, <3>3, <3>4
  <2>4. CASE LoseJournal
    <3>1. PublishedCommit' = PublishedCommit /\ mishaps' = mishaps + 1
      BY <2>4 DEF LoseJournal, PublishedCommit
    <3>2. PublishedCommit \in Chains /\ Len(PublishedCommit) \in 0..Len(PublishedCommit)
      BY <2>0, PublishedIsChain DEF Chains
    <3>3. PublishedCommit = SubSeq(PublishedCommit, 1, Len(PublishedCommit))
      BY <3>2, ChainPrefix
    <3> QED
      BY Zenon, <3>1, <3>2, <3>3 DEF C!Next, C!SetBack
  <2>5. CASE remote' = remote /\ mishaps' = mishaps
    BY <2>5 DEF PublishedCommit
  <2>6. CASE remote' # remote /\ Next
    BY <2>1, <2>2, <2>3, <2>6, ReferenceWriters
  <2>7. CASE mishaps' # mishaps /\ Next
    BY <2>2, <2>4, <2>7, MishapWriters
  <2> QED
    BY <2>5, <2>6, <2>7 DEF vars
<1> QED
  BY <1>2, <1>3, Invariance, PTL DEF Spec, ImplementsChannel, C!Spec

\* A CompareAndSwap whose new watermark descends from the one it replaces.
LEMMA SwapNeverForks ==
  ASSUME IndInv, NEW p \in Publishers, NEW expected, NEW committed, NEW pending,
         NEW done, NEW lost, NEW refused,
         JournalSwap(p, expected, committed, pending, done, lost, refused),
         expected # None /\ journal[JournalOf[p]].rev = expected =>
           Ancestor(journal[JournalOf[p]].committed, committed)
  PROVE  \A j \in Journals : journal[j].found /\ journal'[j].found =>
           Ancestor(journal[j].committed, journal'[j].committed)
<1> SUFFICES ASSUME NEW j \in Journals, journal[j].found
             PROVE  Ancestor(journal[j].committed, journal'[j].committed)
  OBVIOUS
<1>1. journal \in [Journals -> JournalStates] /\ journal[j].committed \in Watermarks
  BY DEF IndInv, TypeOK, JournalStates
<1>2. CASE journal'[j] = journal[j]
  BY <1>1, <1>2, AncestorBase
<1>3. CASE journal'[j] # journal[j]
  <2>1. /\ journal[JournalOf[p]].found = (expected # None) /\ journal[JournalOf[p]].rev = expected
        /\ \E r : journal' = [journal EXCEPT ![JournalOf[p]] =
                     [found |-> TRUE, committed |-> committed, pending |-> pending, rev |-> r]]
    BY Zenon, <1>3 DEF JournalSwap
  <2>2. j = JournalOf[p] /\ journal'[j].committed = committed
    BY <1>1, <1>3, <2>1
  <2> QED
    BY Zenon, <2>1, <2>2
<1> QED
  BY <1>2, <1>3

\* Only these actions write a journal.
LEMMA JournalWriters ==
  ASSUME Next, journal' # journal
  PROVE  \/ LoseJournal
         \/ \E p \in Publishers : \/ RecoverRefresh(p) \/ RecoverFinalize(p) \/ InitializeJournal(p)
                                  \/ AcceptObserved(p) \/ BeginIntent(p)
<1>1. ASSUME NEW p \in Publishers, Recovery(p) PROVE RecoverRefresh(p) \/ RecoverFinalize(p)
  BY Zenon, <1>1 DEF Recovery, RecoverGet, RecoverRefreshReload, RecoverReload, RecoverSwap,
       RecoverFinalizeReload, ClassifyResolvedResign, Get, Load
<1>2. ASSUME NEW p \in Publishers, Operation(p)
      PROVE  InitializeJournal(p) \/ AcceptObserved(p) \/ BeginIntent(p)
  BY Zenon, <1>2 DEF Operation, LoadJournal, InitializeReload, PrepareReload, ReadReference,
       AcceptReload, BuildSnapshot, CommitUnchanged, BeginReload, CommitNone, Finish, Get, Load
<1>3. CASE Environment
  BY <1>3 DEF Environment, Deliver, RestoreReference, Crash
<1> QED
  BY Zenon, <1>1, <1>2, <1>3 DEF Next, Start

\* For any number of publishers, and even when operators restore old references,
\* a journal only moves to a descendant of the commit it had accepted.
THEOREM JournalLineage == Spec => JournalNeverForks
<1> DEFINE A == \A j \in Journals : journal[j].found /\ journal'[j].found =>
                  Ancestor(journal[j].committed, journal'[j].committed)
<1>1. IndInv /\ [Next]_vars => [A]_vars
  <2> SUFFICES ASSUME IndInv, Next PROVE A
    BY DEF vars
  <2>0. \A j \in Journals : journal[j].committed \in Watermarks
    BY DEF IndInv, TypeOK, JournalStates
  <2>1. CASE journal' = journal
    BY <2>0, <2>1, AncestorBase
  <2>2. CASE LoseJournal
    <3>1. PICK j \in Journals : journal' = [journal EXCEPT ![j] = NoJournal]
      BY Zenon, <2>2 DEF LoseJournal
    <3>2. \A i \in Journals : journal'[i] = journal[i] \/ ~journal'[i].found
      BY <3>1 DEF IndInv, TypeOK, NoJournal
    <3> QED
      BY <2>0, <3>2, AncestorBase
  <2>3. ASSUME NEW p \in Publishers
        PROVE  /\ LocalInv(pub[p]) /\ pub[p] \in Locals
               /\ pub[p].pc \in HoldingLabels /\ journal[JournalOf[p]].rev = pub[p].rev =>
                    journal[JournalOf[p]].committed = pub[p].st.committed
               /\ journal[JournalOf[p]].committed \in Watermarks
    BY Zenon, <2>0, PublicationAssumption DEF IndInv, LocalInv, Faithful
  <2>4. ASSUME NEW p \in Publishers, RecoverRefresh(p) PROVE A
    <3>1. pub[p].pc \in HoldingLabels /\ pub[p].st \in LoadedStates
      BY <2>3, <2>4 DEF RecoverRefresh, HoldingLabels, Locals, LoadedStates
    <3>2. [pub[p].st EXCEPT !.pending = Refreshed(pub[p])].committed = pub[p].st.committed
      BY <3>1 DEF LoadedStates
    <3> QED
      BY <2>3, <2>4, <3>1, <3>2, AncestorBase, SwapNeverForks DEF RecoverRefresh
  <2>5. ASSUME NEW p \in Publishers, RecoverFinalize(p) PROVE A
    <3>1. pub[p].pc \in HoldingLabels /\ pub[p].pc = "rfinal"
      BY <2>5 DEF RecoverFinalize, HoldingLabels
    <3>2. Ancestor(pub[p].st.committed, pub[p].fin)
      BY Zenon, <2>3, <3>1 DEF LocalInv, RecoveryInv, RecoveryLabels
    <3> QED
      BY <2>3, <2>5, <3>1, <3>2, SwapNeverForks DEF RecoverFinalize
  <2>6. ASSUME NEW p \in Publishers, InitializeJournal(p) PROVE A
    BY <2>6, SwapNeverForks DEF InitializeJournal
  <2>7. ASSUME NEW p \in Publishers, AcceptObserved(p) PROVE A
    <3>1. pub[p].pc \in HoldingLabels /\ pub[p].pc = "accept"
      BY <2>7 DEF AcceptObserved, HoldingLabels
    <3>2. Ancestor(pub[p].st.committed, pub[p].obs.commit)
      BY <2>3, <3>1 DEF LocalInv, StagingInv, StagingLabels
    <3> QED
      BY <2>3, <2>7, <3>1, <3>2, SwapNeverForks DEF AcceptObserved
  <2>8. ASSUME NEW p \in Publishers, BeginIntent(p) PROVE A
    <3>1. pub[p].pc \in HoldingLabels
      BY <2>8 DEF BeginIntent, HoldingLabels
    <3> QED
      BY <2>3, <2>8, <3>1, AncestorBase, SwapNeverForks DEF BeginIntent
  <2> QED
    BY <2>1, <2>2, <2>4, <2>5, <2>6, <2>7, <2>8, JournalWriters
<1> QED
  BY <1>1, Invariance, PTL DEF Spec, JournalNeverForks

\* The invariant of the reports, from the invariant of the steps.
LEMMA ReportInvariance ==
  ASSUME CheckpointsArePublished
  PROVE  Spec => []ReportInv
<1>1. Init /\ IndInv => ReportInv
  BY InitReport
<1>2. IndInv /\ IndInv' /\ ReportInv /\ [Next]_vars => ReportInv'
  BY NextReport
<1> QED
  BY <1>1, <1>2, Invariance, PTL DEF Spec

\* For any number of publishers, journals and faults, and as long as no operator sets anything
\* back: what a journal calls committed is published, so is every commit that was reported as
\* published, and a publication that may still reach the reference is pending in a journal.
\* The checkpoints the publishers were configured with are commits that were published.
THEOREM ReportsTrue == CheckpointsArePublished => (Spec => []ReportsAreTrue)
<1> SUFFICES ASSUME CheckpointsArePublished PROVE Spec => []ReportsAreTrue
  OBVIOUS
<1>1. IndInv /\ ReportInv => ReportsAreTrue
  BY ReportsFollow
<1> QED
  BY <1>1, ReportInvariance, Invariance, PTL

\* A publication that a recovery records as superseded never is on the published lineage, and
\* its generation is taken by another commit.
THEOREM SupersededFinal == CheckpointsArePublished => (Spec => []SupersededIsFinal)
<1> SUFFICES ASSUME CheckpointsArePublished PROVE Spec => []SupersededIsFinal
  OBVIOUS
<1>1. IndInv /\ ReportInv => SupersededIsFinal
  BY ReportsFollow
<1> QED
  BY <1>1, ReportInvariance, Invariance, PTL
=============================================================================
