--------------------------- MODULE PublisherSession ---------------------------
(***************************************************************************)
(* "share publish" and "share resume" (internal/cli/publish.go, resume.go, *)
(* publisher_session.go): seven durable phases with one external effect    *)
(* between each two of them, run by processes that may fail, die or lose   *)
(* their authorization at any step and be resumed by others.               *)
(*                                                                         *)
(* Publish and resume take the same way: publish starts with the phase it  *)
(* has just created, resume with the one it loads, and each advances the   *)
(* session behind an effect only if the session is still in the phase      *)
(* before it.  The parts the effects consist of are modelled elsewhere and *)
(* appear by what they promise: the sealed store (DurableFile), the        *)
(* publication (Publication), the share root and its write-ahead log       *)
(* (RootPublication), the handoff file (HandoffInstall).  An effect that   *)
(* fails may have happened.                                                *)
(***************************************************************************)
EXTENDS Naturals

CONSTANTS
  Processes,       \* processes that run publish or resume
  MaxGeneration,   \* bound on the snapshots that are published
  MaxFaults,       \* bound on calls that fail
  MaxDeaths        \* bound on crashes of a process or the machine

VARIABLES
  once,         \* the session publishes one snapshot only
  session,      \* the sealed session as it is visible
  saved,        \* the sealed session a crash of the machine leaves
  descriptor,   \* the repository descriptor is in the bucket
  journal,      \* the publication journal exists
  reference,    \* the generation of the signed reference, 0 if none
  root,         \* the generation of the share root, 0 if none
  wal,          \* the generation of the root publication that is pending in the log, 0 if none
  handoff,      \* the checkpoint the visible handoff file was made from, 0 if none
  installed,    \* the handoff file a crash of the machine leaves
  lock,         \* the process that holds the session lock
  proc,         \* what each process is doing, with the session it has loaded
  expired,      \* the authorization window is over
  faults, deaths

vars == <<once, session, saved, descriptor, journal, reference, root, wal, handoff, installed,
          lock, proc, expired, faults, deaths>>

bucket == <<descriptor, reference, root>>
sealed == <<session, saved>>
file == <<handoff, installed>>
bounds == <<expired, faults, deaths>>

Nobody == "nobody"
ASSUME SessionAssumption == Nobody \notin Processes

Idle == [pc |-> "idle"]
NoSession == [phase |-> 0, checkpoint |-> 0, digest |-> 0]

\* The phases, by rank.
Prepared == 1
RepositoryReady == 2
JournalReady == 3
InitialPublicationReady == 4
InitialRootReady == 5
HandoffReady == 6
Completed == 7

Init ==
  /\ once \in BOOLEAN
  /\ session = NoSession /\ saved = NoSession
  /\ descriptor = FALSE /\ journal = FALSE /\ reference = 0 /\ root = 0 /\ wal = 0
  /\ handoff = 0 /\ installed = 0
  /\ lock = Nobody
  /\ proc = [p \in Processes |-> Idle]
  /\ expired = FALSE /\ faults = 0 /\ deaths = 0

-----------------------------------------------------------------------------
(* Beginning and end of a process *)

At(p, pc) == proc[p].pc = pc
Goes(p, pc) == proc' = [proc EXCEPT ![p].pc = pc]

\* The process returns and the lock is released.
Ends(p) == proc' = [proc EXCEPT ![p] = Idle] /\ lock' = Nobody

\* publish makes the isolated state and takes its lock; there is one publish for a share.
Publish(p) ==
  /\ At(p, "idle") /\ lock = Nobody /\ ~expired
  /\ session = NoSession /\ ~\E q \in Processes : proc[q].pc # "idle"
  /\ lock' = p
  /\ proc' = [proc EXCEPT ![p] = [pc |-> "create", loaded |-> NoSession]]
  /\ UNCHANGED <<once, sealed, bucket, journal, wal, file, bounds>>

\* resume takes the lock, or fails at once when it is held, and loads the session, which is
\* durable then.
Resume(p) ==
  /\ At(p, "idle") /\ lock = Nobody /\ ~expired /\ session # NoSession
  /\ lock' = p
  /\ saved' = session
  /\ proc' = [proc EXCEPT ![p] = [pc |-> "recover", loaded |-> session]]
  /\ UNCHANGED <<once, session, bucket, journal, wal, file, bounds>>

\* requirePublisherAuthorization, and the deadline of the context, at every boundary.
Unauthorized(p) ==
  /\ ~At(p, "idle") /\ expired
  /\ Ends(p)
  /\ UNCHANGED <<once, sealed, bucket, journal, wal, file, bounds>>

\* A step fails before it has any effect.
Fail(p) ==
  /\ ~At(p, "idle") /\ faults < MaxFaults /\ faults' = faults + 1
  /\ Ends(p)
  /\ UNCHANGED <<once, sealed, bucket, journal, wal, file, expired, deaths>>

\* The effect succeeded, or the call failed although it happened.
Succeeds(p, pc) == Goes(p, pc) /\ UNCHANGED <<lock, faults>>
FailsLate(p) == faults < MaxFaults /\ faults' = faults + 1 /\ Ends(p)

-----------------------------------------------------------------------------
(* The session *)

\* validatePublisherSession: what a phase must and must not carry.
Valid(s) ==
  /\ (s.checkpoint # 0) = (s.phase >= InitialPublicationReady)
  /\ (s.digest # 0) = (s.phase >= InitialRootReady)
  /\ s.phase = Completed => once

\* nextPublisherSession: one phase on, with the evidence of that phase.
NextSession(s, checkpoint, digest) ==
  [phase |-> s.phase + 1,
   checkpoint |-> IF s.phase + 1 = InitialPublicationReady THEN checkpoint ELSE s.checkpoint,
   digest |-> IF s.phase + 1 = InitialRootReady THEN digest ELSE s.digest]

\* CompareAndSwap and reconciliation: the process goes on only with a durable session; after an
\* error the candidate may be visible, or not there at all.
Writes(p, next, pc) ==
  /\ Valid(next)
  /\ session = proc[p].loaded
  /\ session' = next
  /\ \/ /\ saved' = next
        /\ proc' = [proc EXCEPT ![p] = [pc |-> pc, loaded |-> next]]
        /\ UNCHANGED <<lock, faults>>
     \/ saved' \in {saved, next} /\ FailsLate(p)

\* createPublisherSession, behind PrepareRecovery and RestoreRootPublisher.
Create(p) ==
  /\ At(p, "create") /\ ~expired
  /\ Writes(p, [phase |-> Prepared, checkpoint |-> 0, digest |-> 0], "repository")
  /\ UNCHANGED <<once, bucket, journal, wal, file, expired, deaths>>

\* A bug to catch: every stage records its phase, whatever the session has reached before.
RecordsEveryStage(p, pc, phase, checkpoint, digest, then) ==
  /\ At(p, pc) /\ ~expired
  /\ Writes(p, [phase |-> phase,
                checkpoint |-> IF phase >= InitialPublicationReady THEN reference ELSE 0,
                digest |-> IF phase >= InitialRootReady THEN reference ELSE 0], then)
  /\ UNCHANGED <<once, bucket, journal, wal, file, expired, deaths>>

\* advancePublisherSession behind an effect, if the session is in the phase before it.
Advance(p, pc, phase, checkpoint, digest, then) ==
  /\ At(p, pc) /\ ~expired
  /\ IF proc[p].loaded.phase = phase - 1
     THEN Writes(p, NextSession(proc[p].loaded, checkpoint, digest), then)
     ELSE Goes(p, then) /\ UNCHANGED <<sealed, lock, faults>>
  /\ UNCHANGED <<once, bucket, journal, wal, file, expired, deaths>>

-----------------------------------------------------------------------------
(* The effects *)

\* RecoverPending puts the exact bytes of a pending root publication.
RecoverPending(p) ==
  /\ At(p, "recover") /\ ~expired
  /\ root' = IF wal # 0 THEN wal ELSE root
  /\ \/ wal' = 0 /\ Succeeds(p, "repository")
     \/ wal' = wal /\ FailsLate(p)
  /\ UNCHANGED <<once, sealed, descriptor, reference, journal, file, expired, deaths>>

\* InitializeRepository in the first phase, OpenRepository later.
Repository(p) ==
  /\ At(p, "repository") /\ ~expired
  /\ proc[p].loaded.phase = Prepared \/ descriptor
  /\ descriptor' = TRUE
  /\ Succeeds(p, "repository ready") \/ FailsLate(p)
  /\ UNCHANGED <<once, sealed, reference, root, journal, wal, file, expired, deaths>>

\* RecoverPublication creates the journal or settles what is pending in it.
RecoverPublication(p) ==
  /\ At(p, "journal") /\ ~expired
  /\ journal' = TRUE
  /\ Succeeds(p, "journal ready") \/ FailsLate(p)
  /\ UNCHANGED <<once, sealed, bucket, wal, file, expired, deaths>>

\* The first snapshot is published unless one is there; a checkpoint above it is a rollback.
PublishSnapshot(p) ==
  /\ At(p, "publication") /\ ~expired
  /\ reference = 0 => proc[p].loaded.phase < InitialPublicationReady
  /\ reference' = IF reference = 0 THEN 1 ELSE reference
  /\ Succeeds(p, "publication ready") \/ FailsLate(p)
  /\ UNCHANGED <<once, sealed, descriptor, root, journal, wal, file, expired, deaths>>

\* A bug to catch: create only, a root that is there already is a conflict.
CreateOnly(p) == root = 0
\* Resume creates the root and updates one that is there already, and only updates it once its
\* phase is recorded.  Publish only creates, and finds no root under the key that it has just chosen.
CreateOrUpdate(p) == root # 0 \/ proc[p].loaded.phase < InitialRootReady

\* reconcileShareRoot for the snapshot that is published: log first, then the root, then the log again.
ShareRoot(p) ==
  /\ At(p, "root") /\ ~expired
  /\ proc[p].loaded.checkpoint \in 1..reference
  /\ proc[p].loaded.phase >= InitialRootReady => proc[p].loaded.digest = proc[p].loaded.checkpoint
  /\ CreateOrUpdate(p)
  /\ \/ root' = reference /\ wal' = 0 /\ Succeeds(p, "root ready")
     \/ root' \in {root, reference} /\ wal' = reference /\ FailsLate(p)
  /\ UNCHANGED <<once, sealed, descriptor, reference, journal, file, expired, deaths>>

\* A bug to catch: an installation that could not be confirmed counts.
InstallUnconfirmed(p) ==
  LET expected == proc[p].loaded.checkpoint
  IN /\ At(p, "handoff") /\ ~expired
     /\ handoff \in {0, expected}
     /\ handoff' = expected
     /\ installed' \in {installed, expected} /\ Succeeds(p, "handoff ready")
     /\ UNCHANGED <<once, sealed, bucket, journal, wal, expired, deaths>>

\* installOrVerifyHandoff: never over another file, durable when it returns.
InstallHandoff(p) ==
  LET expected == proc[p].loaded.checkpoint
  IN /\ At(p, "handoff") /\ ~expired
     /\ handoff \in {0, expected}
     /\ handoff' = expected
     /\ \/ installed' = expected /\ Succeeds(p, "handoff ready")
        \/ installed' = installed /\ FailsLate(p)
     /\ UNCHANGED <<once, sealed, bucket, journal, wal, expired, deaths>>

\* A one-shot session is completed, a continuous one goes on to watch.
Finish(p) ==
  /\ At(p, "finish") /\ ~expired
  /\ IF ~once THEN Goes(p, "watch") /\ UNCHANGED <<sealed, lock, faults>>
     ELSE IF proc[p].loaded.phase = Completed THEN Ends(p) /\ UNCHANGED <<sealed, faults>>
     ELSE Writes(p, NextSession(proc[p].loaded, 0, 0), "finish")
  /\ UNCHANGED <<once, bucket, journal, wal, file, expired, deaths>>

\* watchPublisherSource publishes a changed source once the root is behind no publication ...
WatchPublishes(p) ==
  /\ At(p, "watch") /\ ~expired /\ root = reference /\ wal = 0 /\ reference < MaxGeneration
  /\ reference' = reference + 1
  /\ UNCHANGED <<once, sealed, descriptor, root, journal, wal, file, lock, proc, bounds>>

\* ... and puts the share root behind it.  The watch tries again after an error, or ends with it.
WatchPutsRoot(p) ==
  /\ At(p, "watch") /\ ~expired /\ (root < reference \/ wal # 0)
  /\ \/ root' = reference /\ wal' = 0 /\ UNCHANGED <<lock, proc, faults>>
     \/ /\ root' \in {root, reference} /\ wal' = reference
        /\ \/ faults < MaxFaults /\ faults' = faults + 1 /\ UNCHANGED <<lock, proc>>
           \/ FailsLate(p)
  /\ UNCHANGED <<once, sealed, descriptor, reference, journal, file, expired, deaths>>

-----------------------------------------------------------------------------
(* Faults *)

\* A process dies; the operating system releases its lock.
Die(p) ==
  /\ ~At(p, "idle") /\ deaths < MaxDeaths /\ deaths' = deaths + 1
  /\ Ends(p)
  /\ UNCHANGED <<once, sealed, bucket, journal, wal, file, expired, faults>>

\* The machine crashes: what is visible locally and not synced may be lost.
Crash ==
  /\ deaths < MaxDeaths /\ deaths' = deaths + 1
  /\ session' \in {session, saved} /\ saved' = session'
  /\ handoff' \in {handoff, installed} /\ installed' = handoff'
  /\ lock' = Nobody
  /\ proc' = [p \in Processes |-> Idle]
  /\ UNCHANGED <<once, bucket, journal, wal, expired, faults>>

\* The authorization window ends.
Expire ==
  /\ ~expired /\ expired' = TRUE
  /\ UNCHANGED <<once, sealed, bucket, journal, wal, file, lock, proc, faults, deaths>>

-----------------------------------------------------------------------------

\* The steps of publish and resume, in their order.
Proceed(p) ==
  \/ Create(p) \/ RecoverPending(p)
  \/ Repository(p)         \/ Advance(p, "repository ready", RepositoryReady, 0, 0, "journal")
  \/ RecoverPublication(p) \/ Advance(p, "journal ready", JournalReady, 0, 0, "publication")
  \/ PublishSnapshot(p)    \/ Advance(p, "publication ready", InitialPublicationReady, reference, 0, "root")
  \/ ShareRoot(p)          \/ Advance(p, "root ready", InitialRootReady, 0, proc[p].loaded.checkpoint, "handoff")
  \/ InstallHandoff(p)     \/ Advance(p, "handoff ready", HandoffReady, 0, 0, "finish")
  \/ Finish(p) \/ WatchPutsRoot(p)

Next ==
  \/ \E p \in Processes :
       \/ Publish(p) \/ Resume(p) \/ Unauthorized(p) \/ Fail(p) \/ Die(p)
       \/ Proceed(p) \/ WatchPublishes(p)
  \/ Crash \/ Expire

Spec == Init /\ [][Next]_vars

\* The operator resumes a session that nobody runs, and a process that runs goes on.
FairSpec ==
  /\ Spec
  /\ WF_vars(\E p \in Processes : Resume(p))
  /\ \A p \in Processes : WF_vars(Proceed(p))

-----------------------------------------------------------------------------
(* Properties *)

\* A phase that may be loaded after any crash is earned: what it stands for exists and is
\* reachable for the reader, although effects and phases are written by different processes, to
\* different places, and each may fail after it happened.
PhaseIsEarned ==
  \A s \in {session, saved} :
    /\ s.phase >= RepositoryReady => descriptor
    /\ s.phase >= JournalReady => journal
    /\ s.phase >= InitialPublicationReady => s.checkpoint \in 1..reference
    /\ s.phase >= InitialRootReady => root >= s.checkpoint /\ s.digest = s.checkpoint
    /\ s.phase >= HandoffReady => installed = s.checkpoint

\* Whoever finds the handoff file finds the share root it points to and, behind it, the
\* snapshot it names as the checkpoint; the file never names another one.
HandoffIsUsable == handoff # 0 => handoff = saved.checkpoint /\ handoff <= root /\ root <= reference

\* Phases that may be loaded after a crash are earned, and the handoff file is usable whenever
\* it is found, although processes may fail, die or lose their authorization at any step.
SessionIsSound == PhaseIsEarned /\ HandoffIsUsable

\* A session that is brought forward, once.
OneOn ==
  saved' # saved =>
    /\ saved'.phase = saved.phase + 1
    /\ saved.checkpoint # 0 => saved'.checkpoint = saved.checkpoint
    /\ saved.digest # 0 => saved'.digest = saved.digest

\* The durable session goes through its phases one by one and never back, and its checkpoint and
\* handoff digest never change once they are recorded.
SessionOnlyAdvances == [][OneOn]_vars

\* The session is at its end, or can come to none.
Over ==
  \/ expired \/ session = NoSession
  \/ once /\ saved.phase = Completed
  \/ ~once /\ root = reference /\ wal = 0 /\ \E p \in Processes : proc[p].pc = "watch"

\* A session that was created is brought to its end by resuming it, whatever failed or crashed
\* before, unless the authorization expires or the unsynced session is lost in a crash.
SessionCompletes == []<>Over
=============================================================================
