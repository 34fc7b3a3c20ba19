--------------------------- MODULE MountInvalidation ---------------------------
(***************************************************************************)
(* Keeping the kernel's view of a mount up to date (mount/mount_unix.go):  *)
(* the poller (Consumer.Poll, live.go) adopts snapshots and reports them;  *)
(* the coordinator sweeps what the kernel has materialised and records a   *)
(* snapshot as notified when a sweep has seen nothing but that snapshot.   *)
(* Both are wakened and told through a channel of capacity one and a       *)
(* status under a mutex.  The application may refresh the same consumer.   *)
(*                                                                         *)
(* Snapshots are generations.  A step is one critical section of statusMu, *)
(* one look at the consumer's snapshot, one channel operation, a refresh   *)
(* or a sweep.                                                             *)
(***************************************************************************)
EXTENDS Naturals

CONSTANTS
  MaxGeneration,   \* bound on the snapshots that are published
  MaxSweepErrors,  \* bound on sweeps the kernel or the store fails
  MaxPollErrors    \* bound on refreshes that fail

VARIABLES
  published,   \* the newest generation in the bucket
  snapshot,    \* the consumer's current snapshot
  observed, notified,   \* status: ObservedSnapshot, NotifiedSnapshot
  mode,        \* status: InvalidationMode
  wake,        \* a token is in invalidationWake
  poller,      \* the goroutine in Consumer.Poll, with the identity it read
  coordinator, \* runInvalidationCoordinator, with its locals
  cancelled,   \* the polling context is done
  sweepErrors, pollErrors

vars == <<published, snapshot, observed, notified, mode, wake, poller, coordinator, cancelled,
          sweepErrors, pollErrors>>

bounds == <<sweepErrors, pollErrors>>

Init ==
  /\ published = 1 /\ snapshot = 1 /\ observed = 1 /\ notified = 1
  /\ mode = "active" /\ wake = FALSE
  /\ poller = [pc |-> "refresh"]
  /\ coordinator = [pc |-> "wait"]
  /\ cancelled = FALSE
  /\ sweepErrors = 0 /\ pollErrors = 0

-----------------------------------------------------------------------------
(* The world *)

Publish ==
  /\ published < MaxGeneration /\ published' = published + 1
  /\ UNCHANGED <<snapshot, observed, notified, mode, wake, poller, coordinator, cancelled, bounds>>

\* Consumer.Refresh by the application itself, of which nobody is told.
RefreshElsewhere ==
  /\ snapshot < published /\ snapshot' = published
  /\ UNCHANGED <<published, observed, notified, mode, wake, poller, coordinator, cancelled, bounds>>

\* The mount is unmounted or its lifetime ends.
Cancel ==
  /\ ~cancelled /\ cancelled' = TRUE
  /\ UNCHANGED <<published, snapshot, observed, notified, mode, wake, poller, coordinator, bounds>>

-----------------------------------------------------------------------------
(* Observing *)

\* A wake-up for a snapshot that was not observed before and that is not notified.
WakesFor(g, wakes) == wakes /\ observed # g /\ notified # g

\* observeSnapshot, and wakeInvalidation behind it: a token that is there already is enough.
observeSnapshot(g, wakes) ==
  /\ observed' = g
  /\ wake' = (wake \/ WakesFor(g, wakes))

-----------------------------------------------------------------------------
(* Consumer.Poll *)

\* One Refresh: the newest snapshot is adopted or known already, or an error is reported.
Refresh ==
  /\ poller.pc = "refresh"
  /\ \/ /\ snapshot' = published
        /\ poller' = [pc |-> "result"]
        /\ UNCHANGED pollErrors
     \/ /\ pollErrors < MaxPollErrors /\ pollErrors' = pollErrors + 1
        /\ poller' = [pc |-> "pause"]
        /\ UNCHANGED snapshot
     \/ cancelled /\ poller' = [pc |-> "end"] /\ UNCHANGED <<snapshot, pollErrors>>
  /\ UNCHANGED <<published, observed, notified, mode, wake, coordinator, cancelled, sweepErrors>>

\* OnResult: observeCurrentSnapshot reads the snapshot first.
OnResult ==
  /\ poller.pc = "result"
  /\ poller' = [pc |-> "observe", identity |-> snapshot]
  /\ UNCHANGED <<published, snapshot, observed, notified, mode, wake, coordinator, cancelled, bounds>>

\* observeCurrentSnapshot observes what was read.
ObserveResult ==
  /\ poller.pc = "observe"
  /\ observeSnapshot(poller.identity, TRUE)
  /\ poller' = [pc |-> "pause"]
  /\ UNCHANGED <<published, snapshot, notified, mode, coordinator, cancelled, bounds>>

\* The interval, or the end of polling.
PollPause ==
  /\ poller.pc = "pause"
  /\ \/ poller' = [pc |-> "refresh"]
     \/ cancelled /\ poller' = [pc |-> "end"]
  /\ UNCHANGED <<published, snapshot, observed, notified, mode, wake, coordinator, cancelled, bounds>>

-----------------------------------------------------------------------------
(* The coordinator *)

At(pc) == coordinator.pc = pc

\* recordInvalidationStopped.
Stop ==
  /\ coordinator' = [pc |-> "end"]
  /\ mode' = IF observed # notified THEN "ttl" ELSE mode
  /\ UNCHANGED <<published, snapshot, observed, notified, wake, poller, cancelled, bounds>>

\* The outer select.
AwaitWake ==
  /\ At("wait")
  /\ \/ cancelled /\ Stop
     \/ /\ wake /\ wake' = FALSE
        /\ coordinator' = [pc |-> "target"]
        /\ UNCHANGED <<published, snapshot, observed, notified, mode, poller, cancelled, bounds>>

\* invalidationTarget looks at the consumer ...
ReadTarget ==
  /\ At("target")
  /\ coordinator' = [pc |-> "observeTarget", identity |-> snapshot]
  /\ UNCHANGED <<published, snapshot, observed, notified, mode, wake, poller, cancelled, bounds>>

\* ... observes what it saw ...
ObserveTarget ==
  /\ At("observeTarget")
  /\ observeSnapshot(coordinator.identity, FALSE)
  /\ coordinator' = [pc |-> "pick"]
  /\ UNCHANGED <<published, snapshot, notified, mode, poller, cancelled, bounds>>

\* ... and reads what is observed by then.
Pick ==
  /\ At("pick")
  /\ coordinator' = IF observed = notified THEN [pc |-> "wait"] ELSE [pc |-> "sweep", target |-> observed]
  /\ UNCHANGED <<published, snapshot, observed, notified, mode, wake, poller, cancelled, bounds>>

\* recordInvalidationAttempt, and the start of the sweep.
BeginSweep ==
  /\ At("sweep")
  /\ mode' = "active"
  /\ coordinator' = [pc |-> "sweeping", target |-> coordinator.target, from |-> snapshot]
  /\ UNCHANGED <<published, snapshot, observed, notified, wake, poller, cancelled, bounds>>

\* The sweep ends; a cancelled context ends the coordinator, otherwise it looks at the consumer again.
EndSweep ==
  /\ At("sweeping")
  /\ \/ cancelled /\ Stop
     \/ \E err \in BOOLEAN :
          /\ ~cancelled
          /\ err => sweepErrors < MaxSweepErrors
          /\ sweepErrors' = IF err THEN sweepErrors + 1 ELSE sweepErrors
          /\ coordinator' = [pc |-> "after", target |-> coordinator.target, from |-> coordinator.from,
                             err |-> err, after |-> snapshot]
          /\ UNCHANGED <<published, snapshot, observed, notified, mode, wake, poller, cancelled, pollErrors>>

\* The snapshot after the sweep is observed, without a wake-up.
ObserveAfter ==
  /\ At("after")
  /\ observeSnapshot(coordinator.after, FALSE)
  /\ coordinator' = [coordinator EXCEPT !.pc = "judge"]
  /\ UNCHANGED <<published, snapshot, notified, mode, poller, cancelled, bounds>>

\* The sweep succeeded and the snapshot is still its target.
Acknowledges == ~coordinator.err /\ coordinator.after = coordinator.target

\* A bug to catch: after a sweep the consumer outran, the next wake-up is awaited.
AwaitNext == [pc |-> "wait"]
\* After a sweep the consumer outran, the coordinator looks for a target at once.
SweepAgain == [pc |-> "target"]

\* Acknowledge and look for the next target, sweep again at once, or back off.
Judge ==
  /\ At("judge")
  /\ \/ /\ Acknowledges
        /\ notified' = coordinator.target /\ mode' = "active"
        /\ coordinator' = [pc |-> "target"]
     \/ /\ ~Acknowledges /\ ~coordinator.err
        /\ coordinator' = SweepAgain /\ UNCHANGED <<notified, mode>>
     \/ /\ ~Acknowledges /\ coordinator.err
        /\ mode' = "backoff"
        /\ coordinator' = [pc |-> "backoff"] /\ UNCHANGED notified
  /\ UNCHANGED <<published, snapshot, observed, wake, poller, cancelled, bounds>>

\* The pause after a failed sweep: the end, a wake-up or the timer.
Backoff ==
  /\ At("backoff")
  /\ \/ cancelled /\ Stop
     \/ /\ wake' \in {wake, FALSE}
        /\ coordinator' = [pc |-> "target"]
        /\ UNCHANGED <<published, snapshot, observed, notified, mode, poller, cancelled, bounds>>

-----------------------------------------------------------------------------

Poll == Refresh \/ OnResult \/ ObserveResult \/ PollPause
Coordinate ==
  \/ AwaitWake \/ ReadTarget \/ ObserveTarget \/ Pick \/ BeginSweep \/ EndSweep \/ ObserveAfter
  \/ Judge \/ Backoff

Next == Publish \/ RefreshElsewhere \/ Cancel \/ Poll \/ Coordinate

Spec == Init /\ [][Next]_vars

PollEnds == PollPause /\ poller'.pc = "end"

\* Both goroutines go on, and a poller that is cancelled sees it in the end: the pause is a
\* select between the timer and the context.
FairSpec == Spec /\ WF_vars(Poll) /\ WF_vars(Coordinate) /\ SF_vars(PollEnds)

-----------------------------------------------------------------------------
(* Properties *)

\* A step that records a snapshot as notified follows a sweep of just that snapshot.
RecordsSweep == notified' # notified => notified' > notified /\ ~coordinator.err /\ coordinator.from = notified'

\* A snapshot is recorded as notified only by a sweep that ran without an error and from its
\* beginning to its end under that very snapshot, and the record never goes back, although
\* poller and coordinator overwrite the observed snapshot with what they read earlier.
NotifiedWasSwept == [][RecordsSweep]_vars

UpToDate == notified = published \/ cancelled

\* While the mount polls, the kernel is told of the newest snapshot in the end: no wake-up is
\* lost between a poller, an application refreshing by itself and the coordinator.
KernelCatchesUp == []<>UpToDate

Ending == cancelled
Ended == poller.pc = "end" /\ coordinator.pc = "end"

\* After cancellation both goroutines end, so that Done can close.
WorkersEnd == Ending ~> Ended
=============================================================================
