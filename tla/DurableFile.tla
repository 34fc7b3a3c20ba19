------------------------------ MODULE DurableFile ------------------------------
(***************************************************************************)
(* One crash-safe local file that processes replace by compare-and-swap:   *)
(* FileSealedStateStore (the publisher's sealed session and root states),  *)
(* FilePublicationJournal and FileWatermarkStore.  The three share lock,   *)
(* temporary file, rename and sync of the directory; they differ in what   *)
(* they compare, in the barrier before it and in what an error tells the   *)
(* caller.  `kind' says which of the three a behaviour is about.           *)
(*                                                                         *)
(* Every file that was ever made has an index in `content'; its random     *)
(* revision is that index, 0 stands for an absent file.  A rename is       *)
(* visible at once, but until the directory is synced a crash of the       *)
(* machine may leave any of the files visible since the last sync.         *)
(***************************************************************************)
EXTENDS Naturals, Sequences

CONSTANTS
  Processes,     \* processes that use the file
  Kinds,         \* the stores considered: "sealed", "journal", "watermark"
  Generations, Commits,   \* what watermarks are made of
  MaxInstalls,   \* bound on the files ever made
  MaxFaults,     \* bound on calls of the operating system that fail
  MaxDeaths      \* bound on crashes of processes and of the machine

VARIABLES
  kind,      \* the store this behaviour is about
  visible,   \* the file at the path
  pending,   \* the files a crash of the machine may leave there
  content,   \* the files ever made; a watermark for each, if they are watermarks
  lock,      \* the process that holds the lock file
  proc,      \* the operation of each process
  known,     \* the revision each process would expect next
  acked,     \* the latest file a Load or a CompareAndSwap has returned as durable
  faults, deaths

vars == <<kind, visible, pending, content, lock, proc, known, acked, faults, deaths>>

Nobody == "nobody"
Watermarks == [generation : Generations, commit : Commits]
Idle == [pc |-> "idle"]

ASSUME DurableFileAssumption ==
  /\ Nobody \notin Processes
  /\ Kinds \subseteq {"sealed", "journal", "watermark"}
  /\ Generations \subseteq Nat
  /\ MaxInstalls \in Nat /\ MaxFaults \in Nat /\ MaxDeaths \in Nat

Init ==
  /\ kind \in Kinds
  /\ visible = 0 /\ pending = {0} /\ content = <<>>
  /\ lock = Nobody
  /\ proc = [p \in Processes |-> Idle]
  /\ known = [p \in Processes |-> 0]
  /\ acked = 0 /\ faults = 0 /\ deaths = 0

-----------------------------------------------------------------------------
(* Steps the operations share *)

Locked(p) == lock = Nobody /\ lock' = p

\* The operation returns and the lock is released.
Return(p, revision) ==
  /\ proc' = [proc EXCEPT ![p] = Idle]
  /\ lock' = Nobody
  /\ known' = [known EXCEPT ![p] = revision]

Fault == faults < MaxFaults /\ faults' = faults + 1

\* An error return that leaves the file alone.
Fails(p, revision) ==
  /\ Fault /\ Return(p, revision)
  /\ UNCHANGED <<kind, visible, pending, content, acked, deaths>>

\* A return without the sync of the directory.
SkipSync == UNCHANGED pending
\* syncParentDirectory: what is visible is what a crash leaves.
SyncParent == pending' = {visible}

\* The operation returns a revision whose durability the caller may rely on.
Acknowledge(p, revision) ==
  /\ Return(p, revision)
  /\ acked' = revision
  /\ UNCHANGED <<kind, visible, content, faults, deaths>>

-----------------------------------------------------------------------------
(* Load *)

\* The lock and loadLocked; an absent file is reported as absent.
Load(p) ==
  /\ proc[p].pc = "idle" /\ lock = Nobody
  /\ IF visible = 0
     THEN known' = [known EXCEPT ![p] = 0] /\ UNCHANGED <<lock, proc>>
     ELSE lock' = p /\ proc' = [proc EXCEPT ![p] = [pc |-> "loaded", revision |-> visible]] /\ UNCHANGED known
  /\ UNCHANGED <<kind, visible, pending, content, acked, faults, deaths>>

\* A file that was found is returned once the directory is synced.
LoadReturns(p) ==
  /\ proc[p].pc = "loaded"
  /\ \/ SyncParent /\ Acknowledge(p, proc[p].revision)
     \/ Fails(p, known[p])

-----------------------------------------------------------------------------
(* CompareAndSwap *)

\* The lock, loadLocked and, in the sealed store, the need for a barrier.
CompareAndSwap(p) ==
  /\ proc[p].pc = "idle" /\ Locked(p)
  /\ \E next \in Watermarks :
       /\ kind # "watermark" => next = CHOOSE w \in Watermarks : TRUE
       /\ proc' = [proc EXCEPT ![p] =
            [pc |-> IF kind = "sealed" /\ visible # 0 THEN "barrier" ELSE "compare", next |-> next]]
  /\ UNCHANGED <<kind, visible, pending, content, known, acked, faults, deaths>>

\* The barrier is left out.
NoBarrier == UNCHANGED pending
\* The file that was found is synced before anything is concluded from it.
BaseBarrier == SyncParent

Barrier(p) ==
  /\ proc[p].pc = "barrier"
  /\ \/ /\ BaseBarrier
        /\ proc' = [proc EXCEPT ![p].pc = "compare"]
        /\ UNCHANGED <<kind, visible, content, lock, known, acked, faults, deaths>>
     \/ Fails(p, known[p])

\* A watermark is compared by value, the other two by revision.
AsExpected(p) ==
  IF kind = "watermark" /\ known[p] # 0
  THEN visible # 0 /\ content[visible] = content[known[p]]
  ELSE visible = known[p]

\* A watermark may not go back and may not change its commit within a generation.
MayFollow(current, next) ==
  \/ next.generation > current.generation
  \/ next.generation = current.generation /\ next.commit = current.commit

\* The checks: ErrPrecondition, ErrRollbackDetected or ErrSplitBrain, an idempotent watermark, or go on.
Compare(p) ==
  LET next == proc[p].next
      watermark == kind = "watermark" /\ visible # 0
      to(operation) == proc' = [proc EXCEPT ![p] = operation] /\ UNCHANGED <<lock, known>>
  IN /\ proc[p].pc = "compare"
     /\ \/ ~AsExpected(p) /\ Return(p, known[p])
        \/ AsExpected(p) /\ watermark /\ ~MayFollow(content[visible], next) /\ Return(p, known[p])
        \/ AsExpected(p) /\ watermark /\ content[visible] = next /\ to([pc |-> "installed", revision |-> visible])
        \/ /\ AsExpected(p)
           /\ watermark => MayFollow(content[visible], next) /\ content[visible] # next
           /\ to([pc |-> "install", next |-> next])
     /\ UNCHANGED <<kind, visible, pending, content, acked, faults, deaths>>

\* Only the sealed store tells the caller of an error which revision it tried.
Candidate(p, revision) == IF kind = "sealed" THEN revision ELSE known[p]

\* Sealing and the temporary file, which may fail, then the rename, which may fail before or after its effect.
Install(p) ==
  LET new == Len(content) + 1
      renamed == visible' = new /\ pending' = pending \union {new}
  IN /\ proc[p].pc = "install" /\ new <= MaxInstalls
     /\ \/ /\ renamed /\ content' = Append(content, proc[p].next)
           /\ proc' = [proc EXCEPT ![p] = [pc |-> "installed", revision |-> new]]
           /\ UNCHANGED <<kind, lock, known, acked, faults, deaths>>
        \/ /\ renamed \/ UNCHANGED <<visible, pending>>
           /\ content' = Append(content, proc[p].next)
           /\ Fault /\ Return(p, Candidate(p, new))
           /\ UNCHANGED <<kind, acked, deaths>>
        \/ Fails(p, known[p])

\* The directory is synced and the new revision returned, or the error, with the candidate.
Installed(p) ==
  /\ proc[p].pc = "installed"
  /\ \/ SyncParent /\ Acknowledge(p, proc[p].revision)
     \/ Fails(p, Candidate(p, proc[p].revision))

-----------------------------------------------------------------------------
(* Crashes *)

\* A process dies and the operating system releases its lock.
Die(p) ==
  /\ deaths < MaxDeaths /\ deaths' = deaths + 1
  /\ proc' = [proc EXCEPT ![p] = Idle]
  /\ known' = [known EXCEPT ![p] = 0]
  /\ lock' = IF lock = p THEN Nobody ELSE lock
  /\ UNCHANGED <<kind, visible, pending, content, acked, faults>>

\* The machine crashes: any file visible since the last sync may be the one that is left.
Crash ==
  /\ deaths < MaxDeaths /\ deaths' = deaths + 1
  /\ \E i \in pending : visible' = i /\ pending' = {i}
  /\ lock' = Nobody
  /\ proc' = [p \in Processes |-> Idle]
  /\ known' = [p \in Processes |-> 0]
  /\ UNCHANGED <<kind, content, acked, faults>>

-----------------------------------------------------------------------------

Step(p) ==
  \/ Load(p) \/ LoadReturns(p)
  \/ CompareAndSwap(p) \/ Barrier(p) \/ Compare(p) \/ Install(p) \/ Installed(p)
  \/ Die(p)

Next == Crash \/ \E p \in Processes : Step(p)

Spec == Init /\ [][Next]_vars

-----------------------------------------------------------------------------
(* Properties *)

\* What Load or CompareAndSwap has once returned as durable is never taken back by a crash of
\* the machine: every file a crash may leave is that one or was installed after it, although
\* errors and dead processes leave renames that nobody has synced.
AcknowledgedSurvives == \A i \in pending : i >= acked

\* A revision of the journal or of the sealed store is only ever replaced when it is durable
\* itself, so that no crash keeps the successor's effects and loses what it was derived from.
BaseIsDurable ==
  [][Len(content') > Len(content) /\ kind # "watermark" => pending = {visible}]_vars

=============================================================================
