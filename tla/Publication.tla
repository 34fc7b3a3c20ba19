---------------------------- MODULE Publication ----------------------------
(***************************************************************************)
(* Signed publication: Publisher.stage, Commit, ResignReference and        *)
(* RecoverPublication (publisher.go, publication_recovery.go) against the  *)
(* mutable signed reference of one channel and the durable publication     *)
(* journal (publication_journal.go).                                       *)
(*                                                                         *)
(* Every call a publisher makes on the journal or on the store is one      *)
(* step, together with the local work up to the next call; any publisher,  *)
(* the network or a crash may act between two calls.  Publishers may share *)
(* a journal (two processes, or a process and its restart) or have one     *)
(* each.  Simplifications:                                                 *)
(*   - the ETag of the reference is its content, as memstore and S3 give it *)
(*     (identical bytes have identical tags), so ExpectedVersion and       *)
(*     ExpectedReference of an intent are one field;                       *)
(*   - manifests of published commits are readable (Lineage.tla);          *)
(*   - an envelope is the commit and the key that signed it.               *)
(***************************************************************************)
EXTENDS Lineage, FiniteSets

CONSTANTS
  Publishers,      \* publisher processes
  Journals,        \* durable publication journals
  JournalOf,       \* the journal each publisher was configured with
  Keys,            \* reference signing keys
  KeyOf,           \* the signing key of each publisher
  Checkpoint,      \* TrustedCheckpoint of each publisher, <<>> if none
  FirstUse,        \* AllowTrustOnFirstUse of each publisher
  FirstReference,  \* the reference found in the store at the start, or None
  Revisions,       \* journal revisions (random, never reused)
  None,            \* absent reference, intent or revision
  MaxGeneration,   \* the largest generation (math.MaxUint64 in the code)
  MaxTries,        \* publicationRecoveryAttempts
  MaxFaults,       \* bound: crashes and failed or lost calls
  MaxMishaps       \* bound: restored references and vanished journals

VARIABLES
  remote,          \* the signed reference object in the store, or None
  inflight,        \* reference CAS requests whose caller got an error and that may still land
  journal,         \* the durable journals
  pub,             \* in-memory state of each publisher
  faults,
  mishaps

vars == <<remote, inflight, journal, pub, faults, mishaps>>

\* Generations are uint64: 0 for nil, at most MaxGeneration.
Watermarks == {c \in Chains : Len(c) <= MaxGeneration}
Commits == Watermarks \ {<<>>}
Refs == [commit : Commits, key : Keys]
OptionalRef == Refs \cup {None}
\* PublicationIntent: Reference is [commit |-> next, key |-> key]; expected is
\* the object the intent was computed from.
Intents == [kind : {"publish", "resign"}, base : Watermarks, next : Commits,
            key : Keys, expected : OptionalRef]
OptionalIntent == Intents \cup {None}
OptionalRevision == Revisions \cup {None}

ASSUME PublicationAssumption ==
  /\ JournalOf \in [Publishers -> Journals]
  /\ KeyOf \in [Publishers -> Keys]
  /\ Checkpoint \in [Publishers -> Watermarks]
  /\ FirstUse \in [Publishers -> BOOLEAN]
  /\ FirstReference \in OptionalRef
  /\ None \notin Refs /\ None \notin Intents /\ None \notin Revisions
  /\ MaxGeneration \in Nat \ {0} /\ MaxTries \in Nat
  /\ MaxFaults \in Nat /\ MaxMishaps \in Nat

Reference(i) == [commit |-> i.next, key |-> i.key]

\* equalPublicationIntentSemantics: everything but the observation.
SameSemantics(i, k) ==
  /\ i.kind = k.kind /\ i.base = k.base
  /\ i.next = k.next /\ i.key = k.key

\* validatePublicationJournalIntent and validatePendingPublication.
ValidIntent(i) ==
  /\ i.base = <<>> <=> i.expected = None
  /\ i.kind = "publish" => /\ Len(i.next) = Len(i.base) + 1
                           /\ Ancestor(i.base, i.next)
  /\ i.kind = "resign" => i.next = i.base

-----------------------------------------------------------------------------
(* Journals and the in-memory state of a publisher. *)

NoJournal == [found |-> FALSE, committed |-> <<>>, pending |-> None, rev |-> None]

JournalStates == [found : BOOLEAN, committed : Watermarks, pending : OptionalIntent,
                  rev : OptionalRevision]

\* validatePublicationJournalState.
ValidJournal(s) ==
  s.pending # None => ValidIntent(s.pending) /\ s.pending.base = s.committed

\* validatePublicationJournalTransition.
ValidTransition(cur, s) ==
  /\ AnchorVerdict(s.committed, cur.committed) = "ok"
  /\ cur.pending # None /\ s.pending # None =>
       s.committed = cur.committed /\ SameSemantics(cur.pending, s.pending)

\* A publisher between two calls.  st and rev are the journal state it last
\* loaded or wrote, initial the intent a recovery works on, intent the staged
\* one, obs the reference it read, fin the watermark it is recording.
Idle == [pc |-> "idle", op |-> "none", ctx |-> "none",
         st |-> [committed |-> <<>>, pending |-> None], rev |-> None,
         initial |-> None, intent |-> None, obs |-> None, tries |-> 0,
         fin |-> <<>>, outcome |-> "none", validated |-> <<>>]

Labels == {"idle", "load", "init", "initreload", "rget", "rrefresh", "refreshreload",
           "rcas", "rreload", "rfinal", "finalreload", "rclassify", "reprep",
           "getref", "accept", "acceptreload", "acceptretry", "build", "unchanged",
           "begin", "beginreload", "noneload", "done"}
Results == {"none", "ok", "applied", "superseded", "conflict", "rollback", "splitbrain",
            "indeterminate", "trust", "exhausted", "limit", "error"}

Locals == [pc : Labels, op : {"none", "publish", "resign", "recover"},
           ctx : {"none", "prepare", "recover", "commit"},
           st : [committed : Watermarks, pending : OptionalIntent],
           rev : OptionalRevision, initial : OptionalIntent, intent : OptionalIntent,
           obs : OptionalRef, tries : Nat, fin : Watermarks, outcome : Results,
           validated : Watermarks]

\* What survives from one stage of an operation to the next.
Kept(l) == [Idle EXCEPT !.op = l.op, !.ctx = l.ctx, !.intent = l.intent,
                        !.validated = l.validated]

\* The operation returns: outcome is its result, fin the commit it reports.
Returned(l, result, commit) ==
  [Kept(l) EXCEPT !.pc = "done", !.outcome = result, !.fin = commit]

Failed(l, result) == Returned(l, result, <<>>)

Fault == faults < MaxFaults /\ faults' = faults + 1

-----------------------------------------------------------------------------
(* The journal interface: Load and CompareAndSwap, with their lost answers. *)

\* validateLoadedPublicationJournal and validatePublicationCheckpoint.
LoadVerdict(p, l, committed) ==
  LET checkpoint == Checkpoint[p]
      anchor == IF l.validated # <<>> THEN l.validated ELSE checkpoint
  IN IF checkpoint = <<>> THEN "ok"
     ELSE IF AnchorVerdict(committed, checkpoint) # "ok" THEN AnchorVerdict(committed, checkpoint)
     ELSE IF AnchorVerdict(committed, anchor) # "ok" THEN AnchorVerdict(committed, anchor)
     ELSE IF committed = anchor \/ Len(committed) = Len(checkpoint) THEN "ok"
     ELSE DescentVerdict(committed, anchor)

Validated(p, l, committed) == IF Checkpoint[p] = <<>> THEN l.validated ELSE committed

\* loadPublicationJournal: continue as absent or as present, or fail.
Load(p, absent, present) ==
  LET l == pub[p]
      s == journal[JournalOf[p]]
      verdict == LoadVerdict(p, l, s.committed)
      next == IF ~s.found THEN absent
              ELSE IF verdict # "ok" THEN Failed(l, verdict)
              ELSE [present EXCEPT !.validated = Validated(p, l, s.committed)]
  IN /\ \/ pub' = [pub EXCEPT ![p] = next] /\ UNCHANGED faults
        \/ pub' = [pub EXCEPT ![p] = Failed(l, "error")] /\ Fault
     /\ UNCHANGED <<remote, inflight, journal, mishaps>>

UsedRevisions(j) ==
  {journal[j].rev} \cup {pub[q].rev : q \in {x \in Publishers : JournalOf[x] = j}}

\* CompareAndSwap: applied and acknowledged (continue as done with the new
\* revision), applied with the answer lost, refused for its revision, refused
\* or failed for another reason.
JournalSwap(p, expected, committed, pending, done, lost, refused) ==
  LET j == JournalOf[p]
      cur == journal[j]
      s == [committed |-> committed, pending |-> pending]
      matches == cur.found = (expected # None) /\ cur.rev = expected
      accepted == matches /\ ValidJournal(s) /\ ValidTransition(cur, s)
  IN /\ \/ /\ accepted
           /\ \E r \in Revisions \ UsedRevisions(j) :
                /\ journal' = [journal EXCEPT ![j] =
                     [found |-> TRUE, committed |-> committed, pending |-> pending, rev |-> r]]
                /\ \/ pub' = [pub EXCEPT ![p] = [done EXCEPT !.rev = r]] /\ UNCHANGED faults
                   \/ pub' = [pub EXCEPT ![p] = lost] /\ Fault
        \/ /\ ~accepted
           /\ pub' = [pub EXCEPT ![p] = IF matches THEN lost ELSE refused]
           /\ UNCHANGED <<journal, faults>>
        \/ /\ pub' = [pub EXCEPT ![p] = lost] /\ Fault
           /\ UNCHANGED journal
     /\ UNCHANGED <<remote, inflight, mishaps>>

LoadedState(p) == [committed |-> journal[JournalOf[p]].committed,
                   pending |-> journal[JournalOf[p]].pending]
LoadedRevision(p) == journal[JournalOf[p]].rev

\* A GET of the reference: continue as next, or fail as the caller reports it.
Get(p, next, failure) ==
  /\ \/ pub' = [pub EXCEPT ![p] = next] /\ UNCHANGED faults
     \/ pub' = [pub EXCEPT ![p] = Failed(pub[p], failure)] /\ Fault
  /\ UNCHANGED <<remote, inflight, journal, mishaps>>

-----------------------------------------------------------------------------
(* Recovery of a pending intent: recoverPublication and what it calls. *)

\* A restart that only fails closed on a pending intent.
RefusePending(l, st, rev) == Failed(l, "indeterminate")
\* recoverPublication is entered with the state just loaded.
Recovering(l, st, rev) ==
  IF ~ValidIntent(st.pending) THEN Failed(l, "splitbrain")
  ELSE [Kept(l) EXCEPT !.pc = "rget", !.st = st, !.rev = rev, !.initial = st.pending]

\* In commitSignedPublication only an applied outcome of the caller's own intent
\* (recovery.IntentID == intent.IntentID) is a success.
OwnIntentApplied(l, outcome) == outcome = "applied" /\ SameSemantics(l.initial, l.intent)

\* What the caller of the recovery does with its outcome.
Resolved(l, outcome) ==
  CASE l.ctx = "recover" -> Returned(l, outcome, l.fin)
    [] l.ctx = "prepare" -> [Kept(l) EXCEPT !.pc = "reprep"]
    [] OTHER -> IF OwnIntentApplied(l, outcome)
                THEN Returned(l, "ok", l.intent.next)
                ELSE Failed(l, "conflict")

\* classifyResolvedPublication for a publish intent whose slot was cleared.
PublishOutcome(i, committed) ==
  IF committed = i.next THEN "applied"
  ELSE IF Len(committed) <= Len(i.next) THEN "superseded"
  ELSE CASE DescentVerdict(committed, i.next) = "ok" -> "applied"
         [] DescentVerdict(committed, i.next) = "limit" -> "limit"
         [] OTHER -> "superseded"

\* classifyResolvedPublication; a re-sign has to look at the reference first.
Classified(l, i, committed) ==
  LET c == [l EXCEPT !.initial = i, !.fin = committed]
      outcome == PublishOutcome(i, committed)
  IN IF committed = <<>> THEN Failed(l, "rollback")
     ELSE IF i.kind = "resign"
          THEN [Kept(l) EXCEPT !.pc = "rclassify", !.initial = i, !.fin = committed]
     ELSE IF outcome = "limit" THEN Failed(l, "limit")
     ELSE Resolved(c, outcome)

Finalizing(l, committed, outcome) ==
  [l EXCEPT !.pc = "rfinal", !.fin = committed, !.outcome = outcome]

\* One iteration of recoverPublication's loop on the reference it read.
RecoveryStep(l, ref) ==
  LET i == l.st.pending
      c == ref.commit
      against == AnchorVerdict(c, l.st.committed)
      descent == DescentVerdict(c, i.next)
      winner == SupersedingVerdict(c, i.base)
      lostTo == IF winner = "ok" THEN Finalizing(l, c, "superseded") ELSE Failed(l, winner)
      retry(pc) == [l EXCEPT !.pc = pc, !.obs = ref]
  IN IF ref = None THEN (IF i.base # <<>> THEN Failed(l, "rollback") ELSE retry("rcas"))
     ELSE IF against # "ok" THEN Failed(l, against)
     ELSE IF c = i.next
       THEN IF i.kind = "publish" \/ ref = Reference(i) THEN Finalizing(l, c, "applied")
            ELSE IF ref # i.expected THEN Finalizing(l, c, "superseded")
            ELSE retry("rcas")
     ELSE IF Len(c) > Len(i.next)
       THEN IF descent = "ok"
              THEN Finalizing(l, c, IF i.kind = "resign" THEN "superseded" ELSE "applied")
            ELSE IF descent = "limit" \/ i.kind = "resign" THEN Failed(l, descent)
            ELSE lostTo
     ELSE IF i.base # <<>> /\ c = i.base
       THEN retry(IF i.expected = ref THEN "rcas" ELSE "rrefresh")
     ELSE lostTo

RecoverGet(p) ==
  /\ pub[p].pc = "rget"
  /\ Get(p, RecoveryStep(pub[p], remote), "indeterminate")

\* refreshPublicationObservation: only the observation of the intent changes.
Refreshed(l) == [l.st.pending EXCEPT !.expected = l.obs]

RecoverRefresh(p) ==
  LET l == pub[p]
      st == [l.st EXCEPT !.pending = Refreshed(l)]
      reload == [l EXCEPT !.pc = "refreshreload"]
  IN /\ l.pc = "rrefresh"
     /\ JournalSwap(p, l.rev, st.committed, st.pending,
                    [l EXCEPT !.pc = "rcas", !.st = st], reload, reload)

RecoverRefreshReload(p) ==
  LET l == pub[p]
      st == LoadedState(p)
  IN /\ l.pc = "refreshreload"
     /\ Load(p, Failed(l, "rollback"),
             IF st.pending = Refreshed(l)
             THEN [l EXCEPT !.pc = "rcas", !.st = st, !.rev = LoadedRevision(p)]
             ELSE Failed(l, "conflict"))

\* The condition of the reference CAS: If-Match on the observed object, or
\* If-None-Match when there was none.
UnconditionalSwap(l) == TRUE
SwapMatches(l) == remote = l.obs

\* A CAS that was refused or failed proves nothing: the journal is read again.
AssumeApplied(l) == Finalizing([l EXCEPT !.obs = None], l.st.pending.next, "applied")
SwapUnproven(l) == [l EXCEPT !.pc = "rreload", !.obs = None]

\* The reference CAS of a pending intent.  A definite refusal and an error
\* both lead to a reload; after an error the request may still land later.
RecoverSwap(p) ==
  LET l == pub[p]
      ref == Reference(l.st.pending)
  IN /\ l.pc = "rcas"
     /\ \/ /\ SwapMatches(l)
           /\ remote' = ref
           /\ pub' = [pub EXCEPT ![p] = Finalizing([l EXCEPT !.obs = None], ref.commit, "applied")]
           /\ UNCHANGED <<inflight, faults>>
        \/ /\ ~SwapMatches(l)
           /\ pub' = [pub EXCEPT ![p] = SwapUnproven(l)]
           /\ UNCHANGED <<remote, inflight, faults>>
        \/ /\ pub' = [pub EXCEPT ![p] = SwapUnproven(l)] /\ Fault
           /\ inflight' = inflight \cup {[expected |-> l.obs, new |-> ref]}
           /\ UNCHANGED remote
     /\ UNCHANGED <<journal, mishaps>>

\* The loop of recoverPublication is bounded.
LastTry(l) == l.tries + 1 >= MaxTries

\* reloadPublicationRecovery and the head of the next loop iteration.
RecoverReload(p) ==
  LET l == pub[p]
      st == LoadedState(p)
      again == [l EXCEPT !.pc = "rget", !.st = st, !.rev = LoadedRevision(p),
                         !.tries = l.tries + 1]
  IN /\ l.pc = "rreload"
     /\ Load(p, Failed(l, "rollback"),
             IF st.pending # None /\ ~SameSemantics(st.pending, l.initial)
             THEN Failed(l, "conflict")
             ELSE IF LastTry(l) THEN Failed(l, "indeterminate")
             ELSE IF st.pending = None THEN Classified(l, l.initial, st.committed)
             ELSE again)

\* finalizePublication.
RecoverFinalize(p) ==
  LET l == pub[p]
      reload == [l EXCEPT !.pc = "finalreload"]
  IN /\ l.pc = "rfinal"
     /\ JournalSwap(p, l.rev, l.fin, None, Resolved(l, l.outcome), reload, reload)

RecoverFinalizeReload(p) ==
  LET l == pub[p]
      st == LoadedState(p)
  IN /\ l.pc = "finalreload"
     /\ Load(p, Failed(l, "indeterminate"),
             IF st.pending = None /\ st.committed = l.fin
             THEN Resolved(l, l.outcome) ELSE Failed(l, "indeterminate"))

\* classifyResolvedResign.
ResignStep(l, ref) ==
  LET i == l.initial
      c == ref.commit
      verdicts == << AnchorVerdict(c, l.fin),
                     IF Len(c) > Len(l.fin) THEN DescentVerdict(c, l.fin) ELSE "ok",
                     AnchorVerdict(c, i.next),
                     IF c = i.next /\ ref # Reference(i) /\ ref = i.expected
                     THEN "indeterminate" ELSE "ok",
                     IF Len(c) > Len(i.next) THEN DescentVerdict(c, i.next) ELSE "ok" >>
      bad == {k \in 1..5 : verdicts[k] # "ok"}
  IN IF ref = None THEN Failed(l, "indeterminate")
     ELSE IF bad # {} THEN Failed(l, verdicts[CHOOSE k \in bad : \A m \in bad : k <= m])
     ELSE Resolved(l, IF ref = Reference(i) THEN "applied" ELSE "superseded")

ClassifyResolvedResign(p) ==
  /\ pub[p].pc = "rclassify"
  /\ Get(p, ResignStep(pub[p], remote), "indeterminate")

-----------------------------------------------------------------------------
(* Stage, Commit, ResignReference and RecoverPublication. *)

Start(p, op) ==
  /\ pub[p].pc = "idle"
  /\ pub' = [pub EXCEPT ![p] = [@ EXCEPT !.pc = "load", !.op = op,
                !.ctx = IF op = "recover" THEN "recover" ELSE "prepare"]]
  /\ UNCHANGED <<remote, inflight, journal, faults, mishaps>>

\* A journal without a pending intent: RecoverPublication is done, a stage goes
\* on to the reference, and a commit whose intent is gone reads the journal again.
NothingPending(l, st, rev) ==
  CASE l.ctx = "recover" -> Returned(l, "none", st.committed)
    [] l.ctx = "prepare" -> [Kept(l) EXCEPT !.pc = "getref", !.st = st, !.rev = rev]
    [] OTHER -> [Kept(l) EXCEPT !.pc = "noneload"]

Opened(l, st, rev) ==
  IF st.pending = None THEN NothingPending(l, st, rev) ELSE Recovering(l, st, rev)

\* loadOrInitializePublicationJournal.
LoadJournal(p) ==
  LET l == pub[p]
      st == LoadedState(p)
      untrusted == Checkpoint[p] = <<>> /\ ~FirstUse[p]
  IN /\ l.pc = "load"
     /\ Load(p, IF untrusted THEN Failed(l, "trust") ELSE [Kept(l) EXCEPT !.pc = "init"],
             IF untrusted /\ st.committed = <<>> /\ st.pending = None
             THEN Failed(l, "trust") ELSE Opened(l, st, LoadedRevision(p)))

InitializeJournal(p) ==
  LET l == pub[p]
      st == [committed |-> Checkpoint[p], pending |-> None]
      opened == NothingPending([l EXCEPT !.validated = Validated(p, l, Checkpoint[p])], st, None)
      reload == [l EXCEPT !.pc = "initreload"]
  IN /\ l.pc = "init"
     /\ JournalSwap(p, None, Checkpoint[p], None, opened, reload, reload)

InitializeReload(p) ==
  LET l == pub[p]
  IN /\ l.pc = "initreload"
     /\ Load(p, Failed(l, "error"), Opened(l, LoadedState(p), LoadedRevision(p)))

\* preparePublicationJournal reads the journal again after a recovery.
PrepareReload(p) ==
  LET l == pub[p]
      st == LoadedState(p)
  IN /\ l.pc = "reprep"
     /\ Load(p, Failed(l, "indeterminate"),
             IF st.pending = None THEN NothingPending(l, st, LoadedRevision(p))
             ELSE Failed(l, "indeterminate"))

\* The guard that keeps Generation + 1 from wrapping.
ExhaustedLate(ref) == ref # None /\ Len(ref.commit) > MaxGeneration
Exhausted(ref) == ref # None /\ Len(ref.commit) >= MaxGeneration

\* The reference has been read and accepted: a stage scans the source, a
\* re-sign signs the same commit again.
Accepted(p, l, st, ref) ==
  LET next == [Kept(l) EXCEPT !.st = st, !.rev = l.rev, !.obs = ref]
      resign == [kind |-> "resign", base |-> ref.commit, next |-> ref.commit,
                 key |-> KeyOf[p], expected |-> ref]
  IN IF l.op = "publish"
     THEN IF Exhausted(ref) THEN Failed(l, "exhausted")
          ELSE [next EXCEPT !.pc = "build"]
     ELSE IF ref.key = KeyOf[p] THEN Returned(l, "ok", ref.commit)
     ELSE [next EXCEPT !.pc = "begin", !.intent = resign, !.obs = None]

\* The GET of stage and ResignReference with acceptObservedPublication's checks.
Observed(p, l, ref) ==
  LET c == ref.commit
      against == AnchorVerdict(c, l.st.committed)
      descent == DescentVerdict(c, l.st.committed)
  IN IF ref = None
     THEN IF l.st.committed # <<>> THEN Failed(l, "rollback")
          ELSE IF l.op = "resign" THEN Failed(l, "error")
          ELSE Accepted(p, l, l.st, ref)
     ELSE IF against # "ok" THEN Failed(l, against)
     ELSE IF c = l.st.committed THEN Accepted(p, l, l.st, ref)
     ELSE IF l.st.committed # <<>> /\ descent # "ok" THEN Failed(l, descent)
     ELSE [l EXCEPT !.pc = "accept", !.obs = ref]

ReadReference(p) ==
  /\ pub[p].pc = "getref"
  /\ Get(p, Observed(p, pub[p], remote), "error")

\* acceptObservedPublication's journal update.  Only a refused revision is
\* reported as a conflict.
AcceptObserved(p) ==
  LET l == pub[p]
      st == [committed |-> l.obs.commit, pending |-> None]
  IN /\ l.pc = "accept"
     /\ JournalSwap(p, l.rev, st.committed, None, Accepted(p, l, st, l.obs),
                    [l EXCEPT !.pc = "acceptreload"], [l EXCEPT !.pc = "acceptretry"])

AcceptReload(p) ==
  LET l == pub[p]
      st == LoadedState(p)
  IN /\ l.pc \in {"acceptreload", "acceptretry"}
     /\ Load(p, Failed(l, IF l.pc = "acceptretry" THEN "conflict" ELSE "error"),
             IF st.pending = None /\ st.committed = l.obs.commit
             THEN Accepted(p, [l EXCEPT !.rev = LoadedRevision(p)], st, l.obs)
             ELSE Failed(l, IF l.pc = "acceptretry" THEN "conflict" ELSE "error"))

\* The scan of the source, the upload of its manifests and the signature.
BuildSnapshot(p) ==
  LET l == pub[p]
  IN /\ l.pc = "build"
     /\ \E m \in Manifest :
          LET intent == [kind |-> "publish", base |-> l.st.committed,
                         next |-> Append(l.st.committed, m), key |-> KeyOf[p],
                         expected |-> l.obs]
          IN pub' = [pub EXCEPT ![p] =
               IF l.obs # None /\ l.obs.commit[Len(l.obs.commit)].root = m.root
               THEN [Kept(l) EXCEPT !.pc = "unchanged", !.obs = l.obs]
               ELSE [l EXCEPT !.pc = "begin", !.intent = intent, !.obs = None]]
     /\ UNCHANGED <<remote, inflight, journal, faults, mishaps>>

\* Commit of an unchanged snapshot.
CommitUnchanged(p) ==
  LET l == pub[p]
      c == l.obs.commit
  IN /\ l.pc = "unchanged"
     /\ Get(p, IF remote = None \/ remote.commit # c THEN Failed(l, "conflict")
               ELSE Returned(l, "ok", c), "error")

\* The intent is durable: RecoverPublication carries it out.
Committing(l) == [Kept(l) EXCEPT !.pc = "load", !.ctx = "commit"]

\* commitSignedPublication: the intent becomes durable before the reference CAS.
BeginIntent(p) ==
  LET l == pub[p]
      reload == [l EXCEPT !.pc = "beginreload"]
  IN /\ l.pc = "begin"
     /\ JournalSwap(p, l.rev, l.st.committed, l.intent, Committing(l), reload, reload)

BeginReload(p) ==
  LET l == pub[p]
      st == LoadedState(p)
  IN /\ l.pc = "beginreload"
     /\ Load(p, Failed(l, "rollback"),
             IF st.pending # None
             THEN IF st.pending = l.intent THEN Committing(l)
                  ELSE Failed(l, "conflict")
             ELSE IF st.committed = l.intent.base
             THEN IF l.tries = 0
                  THEN [l EXCEPT !.pc = "begin", !.st = st, !.rev = LoadedRevision(p), !.tries = 1]
                  ELSE Failed(l, "conflict")
             ELSE Classified(Committing(l), l.intent, st.committed))

\* commitSignedPublication after RecoverPublication reported None.
CommitNone(p) ==
  LET l == pub[p]
  IN /\ l.pc = "noneload"
     /\ Load(p, Failed(l, "conflict"), Classified(l, l.intent, LoadedState(p).committed))

Finish(p) ==
  /\ pub[p].pc = "done"
  /\ pub' = [pub EXCEPT ![p] = [Idle EXCEPT !.validated = pub[p].validated]]
  /\ UNCHANGED <<remote, inflight, journal, faults, mishaps>>

-----------------------------------------------------------------------------
(* The environment. *)

\* The process dies and restarts with nothing but its configuration.
Crash(p) ==
  /\ pub[p].pc # "idle" /\ Fault
  /\ pub' = [pub EXCEPT ![p] = Idle]
  /\ UNCHANGED <<remote, inflight, journal, mishaps>>

\* The store handles a request whose sender has given up.
Deliver ==
  /\ \E q \in inflight :
       /\ inflight' = inflight \ {q}
       /\ remote' = IF remote = q.expected THEN q.new ELSE remote
  /\ UNCHANGED <<journal, pub, faults, mishaps>>

\* An operator restores an earlier state of the reference.
RestoreReference ==
  /\ mishaps < MaxMishaps /\ mishaps' = mishaps + 1
  /\ remote # None
  /\ \E n \in 0..(Len(remote.commit) - 1) :
       remote' = IF n = 0 THEN None
                 ELSE [remote EXCEPT !.commit = SubSeq(remote.commit, 1, n)]
  /\ UNCHANGED <<inflight, journal, pub, faults>>

\* An operator deletes a journal.
LoseJournal ==
  /\ mishaps < MaxMishaps /\ mishaps' = mishaps + 1
  /\ \E j \in Journals : journal[j].found /\ journal' = [journal EXCEPT ![j] = NoJournal]
  /\ UNCHANGED <<remote, inflight, pub, faults>>

Recovery(p) ==
  \/ RecoverGet(p) \/ RecoverRefresh(p) \/ RecoverRefreshReload(p) \/ RecoverSwap(p)
  \/ RecoverReload(p) \/ RecoverFinalize(p) \/ RecoverFinalizeReload(p)
  \/ ClassifyResolvedResign(p)

Operation(p) ==
  \/ LoadJournal(p) \/ InitializeJournal(p) \/ InitializeReload(p) \/ PrepareReload(p)
  \/ ReadReference(p) \/ AcceptObserved(p) \/ AcceptReload(p) \/ BuildSnapshot(p)
  \/ CommitUnchanged(p) \/ BeginIntent(p) \/ BeginReload(p) \/ CommitNone(p)
  \/ Finish(p)

Environment == Deliver \/ RestoreReference \/ LoseJournal \/ \E p \in Publishers : Crash(p)

Init ==
  /\ remote = FirstReference /\ inflight = {}
  /\ journal = [j \in Journals |-> NoJournal]
  /\ pub = [p \in Publishers |-> Idle]
  /\ faults = 0 /\ mishaps = 0

Next ==
  \/ \E p \in Publishers : \E op \in {"publish", "resign", "recover"} : Start(p, op)
  \/ \E p \in Publishers : Recovery(p) \/ Operation(p)
  \/ Environment

Spec == Init /\ [][Next]_vars

\* A running operation goes on to its next call, an idle process is asked to
\* recover again (the watch loop and every later Stage do), and the store
\* answers or drops what it has received.
FairSpec ==
  /\ Spec
  /\ \A p \in Publishers : /\ WF_vars(Recovery(p) \/ Operation(p))
                          /\ WF_vars(Start(p, "recover"))
  /\ WF_vars(Deliver)

-----------------------------------------------------------------------------
(* Properties. *)

TypeOK ==
  /\ remote \in OptionalRef
  /\ inflight \subseteq [expected : OptionalRef, new : Refs]
  /\ journal \in [Journals -> JournalStates]
  /\ pub \in [Publishers -> Locals]
  /\ faults \in 0..MaxFaults
  /\ mishaps \in 0..MaxMishaps

PublishedCommit == IF remote = None THEN <<>> ELSE remote.commit

\* The channel as its readers know it, and the promise that publishers keep
\* whatever crashes, lost answers, late requests and concurrent publishers do:
\* the reference only ever moves to a direct child of the published commit or to
\* another envelope of the same commit, an operator's restore aside.
C == INSTANCE Channel WITH
       Manifests <- Manifest, First <- IF FirstReference = None THEN <<>> ELSE FirstReference.commit,
       chain <- PublishedCommit
ImplementsChannel == C!Spec

\* A journal never moves to a commit that does not descend from the one it had
\* accepted, even when the reference was restored to an older state and grew a
\* different branch from there (rollback and split brain are refused).
JournalNeverForks ==
  [][\A j \in Journals : journal[j].found /\ journal'[j].found =>
       Ancestor(journal[j].committed, journal'[j].committed)]_vars

\* Without restored references, what a journal calls committed is published.
CommittedIsPublished ==
  mishaps = 0 => \A j \in Journals : Ancestor(journal[j].committed, PublishedCommit)

\* A Commit that returned success published its commit: it is the reference or
\* an ancestor of it from then on.
SuccessIsPublished ==
  mishaps = 0 => \A p \in Publishers :
    pub[p].pc = "done" /\ pub[p].outcome = "ok" => Ancestor(pub[p].fin, PublishedCommit)

\* A recovery that records a publication as superseded is right for good: the
\* commit is not on the published lineage and its generation is taken.
SupersededIsFinal ==
  mishaps = 0 => \A p \in Publishers :
    pub[p].pc \in {"rfinal", "finalreload"} /\ pub[p].outcome = "superseded"
      /\ pub[p].initial.kind = "publish" =>
        /\ Len(pub[p].initial.next) <= Len(PublishedCommit)
        /\ ~Ancestor(pub[p].initial.next, PublishedCommit)

\* The write-ahead rule: a publication that may still reach the reference is
\* recorded as pending, so that no restarted publisher reuses its generation.
UnresolvedIsPending ==
  mishaps = 0 => \A q \in inflight :
    remote = q.expected /\ Len(q.new.commit) > Len(PublishedCommit) =>
      \E j \in Journals : journal[j].pending # None /\ Reference(journal[j].pending) = q.new

\* What publishers and journals report holds: what a journal calls committed is published, so
\* is every commit that was reported as published, and a publication that may still reach the
\* reference is recorded as pending (RecoverPublication, commitSignedPublication).
ReportsAreTrue == CommittedIsPublished /\ SuccessIsPublished /\ UnresolvedIsPending

\* Once faults stop, a pending intent does not stay pending: recovery proves
\* what became of it and frees the slot.
PendingIsResolved ==
  \A j \in Journals : journal[j].pending # None ~> journal[j].pending = None

\* A publication reported as a conflict is not published (the comment on the
\* None outcome in commitSignedPublication).
ConflictIsNotPublished ==
  mishaps = 0 => \A p \in Publishers :
    pub[p].pc = "done" /\ pub[p].outcome = "conflict" /\ pub[p].op = "publish"
      /\ pub[p].intent # None => ~Ancestor(pub[p].intent.next, PublishedCommit)

-----------------------------------------------------------------------------
(* The inductive invariant behind the safety properties. *)

RecoveryLabels == {"rget", "rrefresh", "refreshreload", "rcas", "rreload", "rfinal", "finalreload"}
StagingLabels == {"getref", "accept", "acceptreload", "acceptretry", "build", "begin", "beginreload"}
\* Where st is the journal state of revision rev.
HoldingLabels == {"getref", "accept", "build", "begin", "rget", "rrefresh", "rcas", "rfinal"}

\* The object obs is what a child of base may be compared and swapped against.
IsObjectOf(obs, base) == IF base = <<>> THEN obs = None ELSE obs # None /\ obs.commit = base

RecoveryInv(l) ==
  l.pc \in RecoveryLabels =>
    /\ l.initial # None /\ l.st.pending # None
    /\ ValidIntent(l.st.pending) /\ l.st.pending.base = l.st.committed
    /\ l.pc \in {"rrefresh", "refreshreload"} => l.st.committed # <<>>
    /\ l.pc \in {"rrefresh", "refreshreload", "rcas"} => IsObjectOf(l.obs, l.st.committed)
    /\ l.pc \in {"rfinal", "finalreload"} => l.fin # <<>> /\ Ancestor(l.st.committed, l.fin)

StagingInv(l) ==
  l.pc \in StagingLabels =>
    /\ l.st.pending = None
    /\ l.pc \in {"accept", "acceptreload", "acceptretry"} =>
         l.obs # None /\ Ancestor(l.st.committed, l.obs.commit)
    /\ l.pc = "build" => /\ IsObjectOf(l.obs, l.st.committed)
                         /\ Len(l.st.committed) < MaxGeneration
    /\ l.pc \in {"begin", "beginreload"} =>
         l.intent # None /\ ValidIntent(l.intent) /\ l.intent.base = l.st.committed

ControlInv(l) ==
  /\ l.pc \notin {"idle", "done"} => l.ctx # "none"
  /\ l.ctx = "prepare" => l.op \in {"publish", "resign"}
  /\ l.ctx = "commit" => l.intent # None
  /\ l.pc \in StagingLabels => l.ctx = "prepare"
  /\ l.pc = "noneload" => l.ctx = "commit"
  /\ l.pc = "unchanged" => l.obs # None
  /\ l.pc = "rclassify" => l.initial # None

LocalInv(l) == l \in Locals /\ RecoveryInv(l) /\ StagingInv(l) /\ ControlInv(l)

\* A revision stands for one journal state.
Faithful(l, s) ==
  l.pc \in HoldingLabels =>
    /\ l.rev # None
    /\ s.rev = l.rev => s.committed = l.st.committed /\ s.pending = l.st.pending

JournalInv(s) == s \in JournalStates /\ ValidJournal(s) /\ s.found = (s.rev # None)

\* A reference CAS request swaps an object for a child or another envelope of it.
RequestInv(q) ==
  /\ q \in [expected : OptionalRef, new : Refs]
  /\ LET old == IF q.expected = None THEN <<>> ELSE q.expected.commit
     IN Ancestor(old, q.new.commit) /\ Len(q.new.commit) <= Len(old) + 1

\* What every publisher, journal and request satisfies between two calls: the
\* pending intent extends exactly the committed watermark, a publisher acts on a
\* journal state only under the revision it was read with, and every reference
\* CAS is conditional on the object its commit was built on.
IndInv ==
  /\ TypeOK
  /\ \A j \in Journals : JournalInv(journal[j])
  /\ \A q \in inflight : RequestInv(q)
  /\ \A p \in Publishers : LocalInv(pub[p]) /\ Faithful(pub[p], journal[JournalOf[p]])

-----------------------------------------------------------------------------
(* The invariant behind the reports: while no operator sets anything back.  *)

\* The publication of ref is still pending in the journal state s, or s has moved
\* on to its generation.
Recorded(ref, s) ==
  \/ s.pending # None /\ Reference(s.pending) = ref
  \/ Len(ref.commit) <= Len(s.committed)

\* What a publisher remembers has been published, c being the published commit.
RemembersPublished(l, c) ==
  /\ Ancestor(l.st.committed, c)
  /\ l.obs # None => Ancestor(l.obs.commit, c)
  /\ Ancestor(l.fin, c)

\* A recovery works on the intent it was started for, which stays recorded in the
\* journal state s, and finalizes what it has proved about it.
RecoversRecorded(l, s) ==
  l.pc \in RecoveryLabels =>
    /\ SameSemantics(l.st.pending, l.initial)
    /\ Recorded(Reference(l.initial), s)
    /\ l.pc \in {"rfinal", "finalreload"} =>
         /\ Len(l.initial.next) <= Len(l.fin)
         /\ l.outcome = "applied" => Ancestor(l.initial.next, l.fin)
         /\ l.outcome = "superseded" /\ l.initial.kind = "publish" =>
              ~Ancestor(l.initial.next, l.fin)

\* A trusted checkpoint is the commit of a reference that was published.
CheckpointsArePublished ==
  \A p \in Publishers : Ancestor(Checkpoint[p], IF FirstReference = None THEN <<>> ELSE FirstReference.commit)

\* Journals and publishers only know of published commits, and a request that may
\* still land is pending in some journal or comes too late.
ReportInv ==
  mishaps = 0 =>
    /\ \A p \in Publishers : Ancestor(Checkpoint[p], PublishedCommit)
    /\ \A j \in Journals : /\ Ancestor(journal[j].committed, PublishedCommit)
                           /\ ~journal[j].found => journal[j].pending = None
    /\ \A q \in inflight : \E j \in Journals : Recorded(q.new, journal[j])
    /\ \A p \in Publishers : /\ RemembersPublished(pub[p], PublishedCommit)
                             /\ RecoversRecorded(pub[p], journal[JournalOf[p]])
=============================================================================
