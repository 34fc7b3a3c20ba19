-------------------------- MODULE RootPublication --------------------------
(***************************************************************************)
(* The mutable root of a presigned share: RootPublisher.Create, Update and *)
(* RecoverPending (presignedshare/root_publisher.go, root_recovery.go).    *)
(* A publisher with a recovery journal writes the exact bytes it is about  *)
(* to install into the sealed journal before it touches the store, and     *)
(* replays them after a crash; one without a journal only has the store's  *)
(* compare-and-swap.                                                       *)
(*                                                                         *)
(* A step is one call on the store or on the journal with the local work up *)
(* to the next call.  A root is its revision, the snapshot closure it       *)
(* describes, the build that produced its signed bytes (two builds never   *)
(* agree on the presigned URLs) and the encryption of those bytes; the     *)
(* ETag is the content.  Requests to the store may outlive their caller.   *)
(* Expiry and cancellation end an operation where a failing call does.     *)
(***************************************************************************)
EXTENDS Naturals, FiniteSets

CONSTANTS
  Publishers,   \* publisher processes
  Bare,         \* those that may be configured without the recovery journal
  Encrypted,    \* the share uses client encryption
  Closures,     \* snapshot closures: generation and commit
  None,
  MaxAttempts,  \* maxAttempts of a publisher
  MaxBuilds,    \* bound on builds of new roots
  MaxFaults,    \* bound on lost answers, failing calls and crashes
  MaxMishaps    \* bound on roots lost, restored or re-encrypted by others

\* The root objects, and the writes a journal may have pending.
RootObjects == [rev : Nat, clo : Closures, build : Nat, seal : Nat]
Pendings == [target : RootObjects, expected : RootObjects \cup {None}, create : BOOLEAN]

ASSUME RootAssumption ==
  /\ \A clo \in Closures : clo.gen \in Nat
  /\ None \notin RootObjects /\ None \notin Pendings

VARIABLES
  root,     \* the object under RootKey, None if absent
  journal,  \* the sealed recovery journal: record and revision
  bare,     \* the publishers configured without the journal
  pub,      \* the publishers
  late,     \* conditional writes still on their way to the store
  builds,   \* roots built so far
  history,  \* every root there has been
  faults, mishaps

vars == <<root, journal, bare, pub, late, builds, history, faults, mishaps>>

\* What the authenticated bytes of a root say, whatever their encryption.
Logical(o) == <<o.rev, o.clo, o.build>>

\* newRootRecoveryRecord: the prepared state of a journal.
Prepared == [highest |-> 0, committed |-> None, pending |-> None]

Idle == [pc |-> "idle", op |-> "none", wal |-> FALSE, clo |-> None, rec |-> Prepared, jrev |-> 0,
         obs |-> None, next |-> Prepared, then |-> "none", cand |-> 0, tries |-> 0, ok |-> FALSE]

Init ==
  /\ root = None
  /\ journal = [rec |-> Prepared, rev |-> 0]
  /\ bare \in SUBSET Bare
  /\ pub = [p \in Publishers |-> Idle]
  /\ late = {} /\ builds = 0 /\ history = {}
  /\ faults = 0 /\ mishaps = 0

Become(p, l) == pub' = [pub EXCEPT ![p] = l]

Fault == faults < MaxFaults /\ faults' = faults + 1

\* The operation ends and reports that o is the published root; any other end,
\* with an error or without a root, leaves Idle.
Published(o) == [Idle EXCEPT !.obs = o, !.ok = TRUE]

\* PrepareRecovery reports success.
RecoveryPrepared == [Idle EXCEPT !.op = "prepare", !.ok = TRUE]

-----------------------------------------------------------------------------
(* Verdicts *)

\* validateObservationAgainstAnchor.
ObservationVerdict(rec, o) ==
  LET c == rec.committed
  IN IF c = None THEN "ok"
     ELSE IF o.rev < c.rev THEN "rollback"
     ELSE IF o.rev = c.rev THEN (IF Logical(o) = Logical(c) THEN "ok" ELSE "splitbrain")
     ELSE IF o.clo.gen < c.clo.gen THEN "rollback"
     ELSE IF o.clo.gen = c.clo.gen /\ o.clo.commit # c.clo.commit THEN "splitbrain"
     ELSE "ok"

\* The request against a root that is not the requested closure.
RequestVerdict(l, o) ==
  IF l.op = "create" THEN "conflict"
  ELSE IF l.clo.gen < o.clo.gen THEN "rollback"
  ELSE IF l.clo.gen = o.clo.gen /\ l.clo.commit # o.clo.commit THEN "splitbrain"
  ELSE "ok"

\* anchorRootObservation: what the journal says once o is accepted.
Anchored(rec, o) == [rec EXCEPT !.highest = o.rev, !.committed = o, !.pending = None]

-----------------------------------------------------------------------------
(* Operations begin *)

\* PrepareRecovery, Create, Update and RecoverPending up to their first call; a
\* publisher's gate admits one of them at a time.
Begin(p) ==
  /\ pub[p].pc = "idle"
  /\ \/ /\ p \in bare
        /\ \E op \in {"create", "update"}, clo \in Closures :
             Become(p, [Idle EXCEPT !.pc = "look", !.op = op, !.clo = clo])
     \/ /\ p \notin bare
        /\ \/ \E op \in {"create", "update"}, clo \in Closures :
                Become(p, [Idle EXCEPT !.pc = "load", !.op = op, !.clo = clo, !.wal = TRUE])
           \/ \E op \in {"prepare", "recover"} :
                Become(p, [Idle EXCEPT !.pc = "load", !.op = op, !.wal = TRUE])
  /\ UNCHANGED <<root, journal, bare, late, builds, history, faults, mishaps>>

\* saveRootRecovery is called next.
Saving(l, rec, then) == [l EXCEPT !.pc = "save", !.next = rec, !.then = then]

\* loadRootRecovery: an absent journal reads as the prepared record, without a
\* revision; RecoverPending refuses it and PrepareRecovery writes it.
LoadJournal(p) ==
  LET l == pub[p]
  IN /\ l.pc = "load"
     /\ \/ /\ l.op = "prepare" /\ UNCHANGED faults
           /\ Become(p, IF journal.rev # 0 THEN RecoveryPrepared ELSE Saving(l, Prepared, "prepared"))
        \/ l.op = "recover" /\ journal.rev = 0 /\ Become(p, Idle) /\ UNCHANGED faults
        \/ /\ l.op \in {"create", "update"} \/ (l.op = "recover" /\ journal.rev # 0)
           /\ Become(p, [l EXCEPT !.pc = "look", !.rec = journal.rec, !.jrev = journal.rev])
           /\ UNCHANGED faults
        \/ Fault /\ Become(p, Idle)
     /\ UNCHANGED <<root, journal, bare, late, builds, history, mishaps>>

-----------------------------------------------------------------------------
(* What an operation does with the root it finds *)

\* A publisher that installs its root first and writes the journal afterwards.
WriteFirst(l, target) ==
  [l EXCEPT !.pc = "write", !.rec = [@ EXCEPT !.pending =
     [target |-> target, expected |-> l.obs, create |-> l.op = "create"]]]
\* A new root for the closure goes into the journal before the store sees it.
JournalFirst(l, target) ==
  Saving(l, [l.rec EXCEPT !.highest = target.rev,
                          !.pending = [target |-> target, expected |-> l.obs, create |-> l.op = "create"]],
         "look")

\* The revision after the observed root's.
NextRevision(o) == IF o = None THEN 1 ELSE o.rev + 1

\* BuildSnapshotBundle on top of the observed root, or as the first one.
Build(p, l) ==
  LET target == [rev |-> NextRevision(l.obs), clo |-> l.clo, build |-> builds + 1, seal |-> 0]
  IN \/ /\ builds < MaxBuilds /\ builds' = builds + 1
        /\ Become(p, IF l.wal THEN JournalFirst(l, target)
                     ELSE [l EXCEPT !.pc = "write", !.next = [Prepared EXCEPT !.pending =
                             [target |-> target, expected |-> l.obs, create |-> l.op = "create"]]])
     \/ \* presigning fails
        builds = MaxBuilds /\ Become(p, Idle) /\ UNCHANGED builds

\* The root o = l.obs has been accepted: report it, refuse the request, or build
\* its successor.
AfterAnchor(p, l) ==
  \/ l.op = "recover" /\ Become(p, Published(l.obs)) /\ UNCHANGED builds
  \/ l.op # "recover" /\ l.obs.clo = l.clo /\ Become(p, Published(l.obs)) /\ UNCHANGED builds
  \/ /\ l.op # "recover" /\ l.obs.clo # l.clo /\ RequestVerdict(l, l.obs) # "ok"
     /\ Become(p, Idle) /\ UNCHANGED builds
  \/ l.op # "recover" /\ l.obs.clo # l.clo /\ RequestVerdict(l, l.obs) = "ok" /\ Build(p, l)

\* Nothing is pending: accept the root, through the journal where that changes it.
LookIdle(p, l) ==
  LET refused == l.wal /\ ObservationVerdict(l.rec, l.obs) # "ok"
      known == ~l.wal \/ Anchored(l.rec, l.obs) = l.rec
      first == l.op = "create" /\ l.rec.committed = None /\ l.rec.highest = 0
  IN \/ l.obs # None /\ refused /\ Become(p, Idle) /\ UNCHANGED builds
     \/ l.obs # None /\ ~refused /\ known /\ AfterAnchor(p, l)
     \/ /\ l.obs # None /\ ~refused /\ ~known
        /\ Become(p, Saving(l, Anchored(l.rec, l.obs), "anchored")) /\ UNCHANGED builds
     \/ l.obs = None /\ first /\ Build(p, l)
     \/ l.obs = None /\ ~first /\ Become(p, Idle) /\ UNCHANGED builds

\* The observed root is the base the pending write was built on.
IsBase(l) ==
  LET c == l.rec.committed
  IN /\ l.obs # None /\ l.rec.pending.expected # None /\ c # None
     /\ Logical(l.obs) = Logical(c)

\* A bug to catch: RecoverPending is held to the rule for publish calls.
PublishCallsOnly(l) == l.rec.pending.create = (l.op = "create") /\ l.rec.pending.target.clo = l.clo
\* Only the operation that is pending may be completed by a publish call.
SameRequest(l) ==
  l.op = "recover" \/ (l.rec.pending.create = (l.op = "create") /\ l.rec.pending.target.clo = l.clo)

\* The exact pending bytes are sent, if attempts are left.
Replaying(l) ==
  IF SameRequest(l) /\ l.tries < MaxAttempts THEN [l EXCEPT !.pc = "write", !.obs = None] ELSE Idle

\* A write is pending: it is found installed, found overtaken, or sent again.
LookPending(l) ==
  LET pending == l.rec.pending
      rev == pending.target.rev
  IN IF l.obs = None THEN (IF pending.expected = None THEN Replaying(l) ELSE Idle)
     ELSE IF ObservationVerdict(l.rec, l.obs) # "ok" THEN Idle
     ELSE IF l.obs.rev = rev /\ Logical(l.obs) # Logical(pending.target) THEN Idle
     ELSE IF l.obs.rev = rev THEN Saving(l, Anchored(l.rec, l.obs), "settled")
     ELSE IF l.obs.rev > rev THEN Saving(l, Anchored(l.rec, l.obs), "overtaken")
     ELSE IF ~IsBase(l) THEN Idle
     ELSE IF pending.expected = l.obs THEN Replaying(l)
     ELSE Saving(l, [l.rec EXCEPT !.committed = l.obs, !.pending.expected = l.obs], "replay")

\* load and loadRootForRecovery, and the decision that follows.
Look(p) ==
  LET l == [pub[p] EXCEPT !.obs = root]
  IN /\ l.pc = "look"
     /\ \/ /\ UNCHANGED faults
           /\ IF l.rec.pending = None THEN LookIdle(p, l)
              ELSE Become(p, LookPending(l)) /\ UNCHANGED builds
        \/ Fault /\ Become(p, Idle) /\ UNCHANGED builds
     /\ UNCHANGED <<root, journal, bare, late, history, mishaps>>

-----------------------------------------------------------------------------
(* The journal *)

\* The publish call goes on from the saved record.
Continue(l) == [l EXCEPT !.pc = "look", !.obs = None]

\* What an operation does once its record is saved.
Saved(p, saved) ==
  LET l == [saved EXCEPT !.next = Prepared, !.then = "none", !.cand = 0]
      done == l.op = "recover" \/ (l.obs # None /\ l.obs.clo = l.clo)
  IN \/ saved.then = "prepared" /\ Become(p, RecoveryPrepared) /\ UNCHANGED builds
     \/ saved.then = "look" /\ Become(p, Continue(l)) /\ UNCHANGED builds
     \/ saved.then = "replay" /\ Become(p, Replaying(l)) /\ UNCHANGED builds
     \/ saved.then = "applied" /\ Become(p, Published(l.obs)) /\ UNCHANGED builds
     \/ saved.then = "anchored" /\ AfterAnchor(p, l)
     \/ /\ saved.then \in {"settled", "overtaken"}
        /\ Become(p, IF done THEN Published(l.obs)
                     ELSE IF saved.then = "overtaken" /\ RequestVerdict(l, l.obs) # "ok" THEN Idle
                     ELSE Continue(l))
        /\ UNCHANGED builds

\* The journal accepts a record only on top of the revision the publisher loaded.
SaveMatches(l) == journal.rev = l.jrev

\* saveRootRecovery's CAS.
Save(p) ==
  LET l == pub[p]
      saved == [l EXCEPT !.rec = l.next, !.jrev = journal.rev + 1]
      installed == [rec |-> l.next, rev |-> journal.rev + 1]
  IN /\ l.pc = "save"
     /\ \/ /\ SaveMatches(l) /\ journal' = installed /\ Saved(p, saved) /\ UNCHANGED faults
        \/ /\ ~SaveMatches(l) /\ Become(p, [l EXCEPT !.pc = "conflict"])
           /\ UNCHANGED <<journal, faults, builds>>
        \/ /\ SaveMatches(l) /\ Fault /\ journal' = installed
           /\ Become(p, [l EXCEPT !.pc = "resave", !.cand = journal.rev + 1]) /\ UNCHANGED builds
        \/ /\ Fault /\ Become(p, [l EXCEPT !.pc = "resave"]) /\ UNCHANGED <<journal, builds>>
     /\ UNCHANGED <<root, bare, late, history, mishaps>>

\* Its reload after an error: the same bytes count as saved.  An absent journal reads
\* as the prepared record, whose bytes with client encryption are new each time: the
\* first record of a publisher then equals only itself.  PrepareRecovery accepts any
\* journal that won the first CAS.
Resave(p) ==
  LET l == pub[p]
      saved == [l EXCEPT !.rec = l.next, !.jrev = journal.rev]
      same == /\ journal.rec = l.next /\ (l.cand = 0 \/ l.cand = journal.rev)
              /\ Encrypted /\ l.jrev = 0 => l.cand # 0
  IN /\ l.pc \in {"resave", "conflict"}
     /\ \/ same /\ Saved(p, saved) /\ UNCHANGED faults
        \/ /\ ~same /\ UNCHANGED <<faults, builds>>
           /\ Become(p, IF l.pc = "conflict" /\ l.op = "prepare" THEN RecoveryPrepared ELSE Idle)
        \/ Fault /\ Become(p, Idle) /\ UNCHANGED builds
     /\ UNCHANGED <<root, journal, bare, late, history, mishaps>>

-----------------------------------------------------------------------------
(* The store *)

\* A root write that ignores its precondition.
WriteBlindly(w) == TRUE
\* PutIfAbsent and CompareAndSwap.
WriteMatches(w) == root = w.expected

Install(o) == root' = o /\ history' = history \union {o}

\* What the publisher sends.
Request(l) ==
  LET pending == IF l.wal THEN l.rec.pending ELSE l.next.pending
  IN [target |-> pending.target, expected |-> pending.expected, wal |-> l.wal]

\* The store has applied the write and said so.
Applied(p, l) ==
  LET target == Request(l).target
      seen == [l EXCEPT !.obs = target]
  IN Become(p, IF ~l.wal THEN Published(target)
               ELSE IF ObservationVerdict(l.rec, target) # "ok" THEN Idle
               ELSE Saving(seen, Anchored(l.rec, target), "applied"))

\* Another attempt, or the end of a bare publisher's attempts.
Retry(l) ==
  IF l.wal \/ l.tries < MaxAttempts THEN [l EXCEPT !.pc = "look", !.obs = None, !.next = Prepared] ELSE Idle

\* A write without a proof of its outcome is followed by a read.
Unanswered(l) == IF l.wal THEN [l EXCEPT !.pc = "look"] ELSE [l EXCEPT !.pc = "observe"]

\* The conditional write.
Write(p) ==
  LET l == [pub[p] EXCEPT !.tries = @ + 1]
      w == Request(l)
  IN /\ l.pc = "write"
     /\ \/ /\ WriteMatches(w) /\ Install(w.target) /\ Applied(p, l)
           /\ UNCHANGED <<late, faults>>
        \/ /\ ~WriteMatches(w) /\ Become(p, Retry(l))
           /\ UNCHANGED <<root, history, late, faults>>
        \/ \* no answer, or an invalid one: the request may still be on its way
           /\ Fault /\ late' = late \union {w}
           /\ Become(p, Unanswered(l)) \/ Become(p, Idle)
           /\ UNCHANGED <<root, history>>
     /\ UNCHANGED <<journal, bare, builds, mishaps>>

\* A bare publisher reads the root after an ambiguous write.
Observe(p) ==
  LET l == pub[p]
  IN /\ l.pc = "observe"
     /\ \/ root # None /\ root = Request(l).target /\ Become(p, Published(root)) /\ UNCHANGED faults
        \/ root # None /\ root # Request(l).target /\ Become(p, Retry(l)) /\ UNCHANGED faults
        \/ \* the read fails as well, or finds nothing
           Become(p, Idle) /\ UNCHANGED faults
     /\ UNCHANGED <<root, journal, bare, late, builds, history, mishaps>>

-----------------------------------------------------------------------------
(* The environment *)

\* A request arrives late and is applied or refused.
Deliver ==
  /\ \E w \in late :
       /\ late' = late \ {w}
       /\ \/ WriteMatches(w) /\ Install(w.target)
          \/ ~WriteMatches(w) /\ UNCHANGED <<root, history>>
  /\ UNCHANGED <<journal, bare, pub, builds, faults, mishaps>>

Crash(p) ==
  /\ Fault /\ pub[p].pc # "idle" /\ Become(p, Idle)
  /\ UNCHANGED <<root, journal, bare, late, builds, history, mishaps>>

\* Somebody with access to the bucket deletes the root, restores an old one, or
\* encrypts the same one again.
RootMishap ==
  /\ mishaps < MaxMishaps /\ mishaps' = mishaps + 1
  /\ root # None
  /\ \/ root' = None
     \/ \E o \in history \ {root} : root' = o
     \/ Encrypted /\ root.seal = 0 /\ root' = [root EXCEPT !.seal = 1]
  /\ history' = history \union ({root'} \ {None})
  /\ UNCHANGED <<journal, bare, pub, late, builds, faults>>

Work(p) == LoadJournal(p) \/ Look(p) \/ Save(p) \/ Resave(p) \/ Write(p) \/ Observe(p)

Next ==
  \/ \E p \in Publishers : Begin(p) \/ Work(p) \/ Crash(p)
  \/ Deliver \/ RootMishap

Spec == Init /\ [][Next]_vars

\* A call that has begun goes on, and RecoverPending is called again and again, as publish
\* and resume do first of all.
Recovers(p) == Begin(p) /\ pub'[p].op = "recover"
FairSpec == Spec /\ \A p \in Publishers : WF_vars(Work(p)) /\ SF_vars(Recovers(p))

-----------------------------------------------------------------------------
\* The share never forks: as long as nobody tampers with the bucket, a step that
\* changes the root installs the next revision, of a closure that does not go back,
\* on top of the root it was built on, also when it is the replay of a crashed
\* process or a request that arrives late.
RootAdvances ==
  [][root' # root /\ mishaps' = mishaps /\ root # None =>
       /\ root'.rev = root.rev + 1
       /\ root'.clo.gen >= root.clo.gen
       /\ root'.clo.gen = root.clo.gen => root'.clo.commit = root.clo.commit]_vars

\* Readers refuse two different bundles of one revision as split brain: without
\* tampering no revision is ever given to two.
OneBundlePerRevision ==
  mishaps = 0 => \A o, q \in history : o.rev = q.rev => o = q

\* Write-ahead: a request that outlives the call or the process that sent it with a
\* journal is known to the journal, as the pending target or by its revision, so that
\* a recovery is never surprised by it.
JournalAhead ==
  \A w \in late : w.wal =>
    \/ journal.rec.pending # None /\ journal.rec.pending.target = w.target
    \/ w.target.rev <= journal.rec.highest

\* What an operation reports as published has been the root of the share.
ReportIsTrue ==
  \A p \in Publishers : pub[p].ok /\ pub[p].op # "prepare" => pub[p].obs \in history

\* PrepareRecovery "durably binds" the share: once it has reported success there is a
\* journal to restore the publisher from.
PreparedIsDurable ==
  \A p \in Publishers : pub[p].ok /\ pub[p].op = "prepare" => journal.rev # 0

Settled == journal.rec.pending = None

\* A root that is pending in the journal is settled: installed by a replay of its exact
\* bytes, or found installed or overtaken, if calls stop failing, every writer of the share
\* uses the journal and nobody else touches the bucket (RecoverPending).
RootSettles == []<>Settled

\* The journal never accepts an older root than the one it has committed, nor
\* another bundle of the same revision, whatever happens to the bucket.
AnchorAdvances ==
  [][LET c == journal.rec.committed
         d == journal'.rec.committed
     IN c # None => d # None /\ (d.rev > c.rev \/ (d.rev = c.rev /\ Logical(d) = Logical(c)))]_vars

\* No revision is given to two bundles, a request that outlives its sender is known to the
\* journal, and what an operation reports as published has been the root of the share.
RootIsKnown == OneBundlePerRevision /\ JournalAhead /\ ReportIsTrue

\* Neither the root, as long as nobody tampers with it, nor what the journal has accepted as
\* the root, whatever happens to it, ever goes back or to another bundle of its revision.
NothingGoesBack == RootAdvances /\ AnchorAdvances
=============================================================================
