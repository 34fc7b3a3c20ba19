------------------------------- MODULE Mounts -------------------------------
(***************************************************************************)
(* A mount as its owner sees it: how it ends (MountLifecycle), how the     *)
(* kernel learns of new snapshots (MountInvalidation), and several mounts  *)
(* under one command (MountSet).  The three share no state: the lifecycle  *)
(* and the coordinator of a mount meet only in the polling context, which  *)
(* each of them has as an input of its own.                                *)
(***************************************************************************)
EXTENDS Naturals, Sequences

CONSTANTS
  Callers, MaxRefusals, MaxAttempts,               \* as in MountLifecycle
  MaxSnapshots, MaxSweepErrors, MaxPollErrors,     \* as in MountInvalidation
  Workspaces, Configs, ConfigPath                  \* as in MountSet

VARIABLES
  server, unmounted, current, attempt, call, auto, monitor, lifetime, polling, workers, finished,
  lifecycle, reason, failing, refusals,
  published, snapshot, observed, notified, mode, wake, poller, coordinator, halted, sweepErrors, pollErrors,
  config, ctxDone, prepared, supervisor, cancelled, task, up, results, received, failure

M == INSTANCE MountLifecycle
I == INSTANCE MountInvalidation WITH MaxGeneration <- MaxSnapshots, cancelled <- halted
W == INSTANCE MountSet

mount == <<server, unmounted, current, attempt, call, auto, monitor, lifetime, polling, workers, finished,
           lifecycle, reason, failing, refusals>>
invalidation == <<published, snapshot, observed, notified, mode, wake, poller, coordinator, halted,
                  sweepErrors, pollErrors>>
mounts == <<config, ctxDone, prepared, supervisor, cancelled, task, up, results, received, failure>>

-----------------------------------------------------------------------------
(* Properties *)

\* At most one physical unmount is under way, the automatic reason names what ended the
\* lifetime from outside (unmountOnceContext, beginAutomaticUnmount), and workspaces that are
\* mounted side by side are apart (validatePreparedMountSet).
MountsAreApart == M!OneAttempt /\ M!ReasonIsTrue /\ W!TypeOK /\ W!MountsAreApart

\* The status tells what happened: the stop is final, an attempt that saw it reports no error
\* and nil means unmounted (executeUnmount, publishServerStopped), and a snapshot is recorded
\* as notified only after an undisturbed sweep of it (runInvalidationCoordinator).
StatusIsTrue == [][M!StoppedStays /\ M!ReportsObservation /\ I!RecordsSweep]_<<mount, invalidation>>
=============================================================================
