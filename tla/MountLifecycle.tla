---------------------------- MODULE MountLifecycle ----------------------------
(***************************************************************************)
(* The end of a mount (mount/mount_unix.go): explicit unmounts that join   *)
(* one physical attempt, the goroutine that unmounts when the lifetime     *)
(* context ends, the monitor of the FUSE server, and the goroutine that    *)
(* closes Done.  A step is one critical section of unmountMu or statusMu,  *)
(* one channel operation, or the call of the FUSE server.                  *)
(*                                                                         *)
(* The lifetime context ends because the caller's context ended, because   *)
(* the authorization expired, or because the mount cancels it itself; the  *)
(* first cause stays.  The workers that poll and invalidate are given by   *)
(* their promise to return once the polling context is cancelled; the      *)
(* module MountInvalidation has the second of them in detail.              *)
(***************************************************************************)
EXTENDS Naturals, FiniteSets

CONSTANTS
  Callers,       \* goroutines that call Unmount or UnmountContext
  MaxRefusals,   \* bound on unmounts the server refuses
  MaxAttempts    \* bound on physical attempts

VARIABLES
  server,      \* the FUSE server: up or gone
  unmounted,   \* the channel unmounted is closed
  current,     \* unmountAttempt, 0 if none
  attempt,     \* the attempts and their executeUnmount goroutines
  call,        \* the calls of the callers, and of the automatic unmount
  auto,        \* unmountOnLifetimeDone
  monitor,     \* monitorServer
  lifetime,    \* why the lifetime context ended, or live
  polling,     \* the polling context is live
  workers,     \* poller and invalidation coordinator run
  finished,    \* Done is closed
  lifecycle, reason, failing,   \* status: Lifecycle, AutomaticUnmountReason, ConsecutiveFailures > 0
  refusals

vars == <<server, unmounted, current, attempt, call, auto, monitor, lifetime, polling, workers,
          finished, lifecycle, reason, failing, refusals>>

status == <<lifecycle, reason, failing>>

Auto == "auto"
Everybody == Callers \union {Auto}
Attempts == 1..MaxAttempts

Init ==
  /\ server = "up" /\ unmounted = FALSE /\ current = 0
  /\ attempt = [n \in Attempts |-> [pc |-> "none", err |-> FALSE]]
  /\ call = [c \in Everybody |-> [pc |-> "idle"]]
  /\ auto = "watch" /\ monitor = "wait"
  /\ lifetime = "live" /\ polling = TRUE /\ workers = TRUE /\ finished = FALSE
  /\ lifecycle = "Running" /\ reason = "none" /\ failing = FALSE
  /\ refusals = 0

-----------------------------------------------------------------------------
(* Status *)

\* The terminal state is kept by every later report.
NotStopped == lifecycle # "Stopped"

recordUnmountAttempt ==
  /\ lifecycle' = IF NotStopped THEN "Stopping" ELSE lifecycle
  /\ UNCHANGED <<reason, failing>>

recordUnmountSuccess ==
  /\ lifecycle' = IF NotStopped THEN "Stopping" ELSE lifecycle
  /\ failing' = FALSE
  /\ UNCHANGED reason

recordUnmountFailure ==
  /\ lifecycle' = IF NotStopped THEN "StopFailed" ELSE lifecycle
  /\ failing' = (failing \/ NotStopped)
  /\ UNCHANGED reason

\* A bug to catch: a stop leaves the polling context alone.
KeepPolling == UNCHANGED <<lifetime, polling>>
\* cancelMountLifetime; the polling context is its child.
CancelLifetime ==
  /\ lifetime' = IF lifetime = "live" THEN "own" ELSE lifetime
  /\ polling' = FALSE

-----------------------------------------------------------------------------
(* Unmount and UnmountContext *)

\* Unmount or UnmountContext is called.
Call(c) ==
  /\ c \in Callers /\ call[c].pc = "idle"
  /\ \E retry \in BOOLEAN :
       call' = [call EXCEPT ![c] = [pc |-> "try", retry |-> retry, done |-> FALSE]]
  /\ UNCHANGED <<server, unmounted, current, attempt, auto, monitor, lifetime, polling, workers,
                 finished, status, refusals>>

\* The context of a call ends; for the automatic unmount this is its timeout.
Deadline(c) ==
  /\ call[c].pc \in {"try", "wait", "pause"} /\ call[c].retry /\ ~call[c].done
  /\ call' = [call EXCEPT ![c].done = TRUE]
  /\ UNCHANGED <<server, unmounted, current, attempt, auto, monitor, lifetime, polling, workers,
                 finished, status, refusals>>

Return(c, result) == call' = [call EXCEPT ![c] = [pc |-> "end", result |-> result]]

\* No attempt is under way.
NoAttempt == current = 0

\* unmountOnceContext up to its select: return at once, join the attempt or start one.
Try(c) ==
  LET fresh == 1 + Cardinality({n \in Attempts : attempt[n].pc # "none"})
      join(n, made) ==
        call' = [call EXCEPT ![c] = [pc |-> "wait", retry |-> @.retry, done |-> FALSE, on |-> n, made |-> made]]
  IN /\ call[c].pc = "try"
     /\ \/ call[c].done /\ Return(c, "deadline") /\ UNCHANGED <<current, attempt>>
        \/ ~call[c].done /\ unmounted /\ Return(c, "nil") /\ UNCHANGED <<current, attempt>>
        \/ ~call[c].done /\ ~unmounted /\ ~NoAttempt /\ join(current, FALSE) /\ UNCHANGED <<current, attempt>>
        \/ /\ ~call[c].done /\ ~unmounted /\ NoAttempt /\ fresh \in Attempts
           /\ join(fresh, TRUE)
           /\ current' = fresh
           /\ attempt' = [attempt EXCEPT ![fresh].pc = "start"]
     /\ UNCHANGED <<server, unmounted, auto, monitor, lifetime, polling, workers, finished, status, refusals>>

\* The channel done of an attempt is closed.
IsDone(n) == attempt[n].pc \in {"cancel", "done"}

\* The select of unmountOnceContext: any channel that is ready, the context only if nothing else is.
\* After an error Unmount returns and UnmountContext waits to retry.
Wait(c) ==
  /\ call[c].pc = "wait" /\ (call[c].made => attempt[call[c].on].pc # "start")
  /\ \/ (unmounted \/ (IsDone(call[c].on) /\ ~attempt[call[c].on].err)) /\ Return(c, "nil")
     \/ /\ IsDone(call[c].on) /\ attempt[call[c].on].err
        /\ IF ~call[c].retry THEN Return(c, "error")
           ELSE IF call[c].done THEN Return(c, "deadline")
           ELSE call' = [call EXCEPT ![c] = [pc |-> "pause", retry |-> TRUE, done |-> FALSE]]
     \/ call[c].done /\ ~unmounted /\ ~IsDone(call[c].on) /\ Return(c, "deadline")
  /\ UNCHANGED <<server, unmounted, current, attempt, auto, monitor, lifetime, polling, workers,
                 finished, status, refusals>>

\* The pause between two attempts of UnmountContext.
Pause(c) ==
  /\ call[c].pc = "pause"
  /\ \/ unmounted /\ Return(c, "nil")
     \/ call[c].done /\ Return(c, "deadline")
     \/ ~call[c].done /\ call' = [call EXCEPT ![c].pc = "try"]
  /\ UNCHANGED <<server, unmounted, current, attempt, auto, monitor, lifetime, polling, workers,
                 finished, status, refusals>>

-----------------------------------------------------------------------------
(* The physical attempt: executeUnmount *)

At(n, pc) == attempt[n].pc = pc
Go(n, pc) == attempt' = [attempt EXCEPT ![n].pc = pc]

\* The caller that made the attempt records it and starts its goroutine.
Start(n) ==
  /\ At(n, "start") /\ Go(n, "call")
  /\ recordUnmountAttempt
  /\ UNCHANGED <<server, unmounted, current, call, auto, monitor, lifetime, polling, workers, finished, refusals>>

\* server.Unmount returns, if it ever does.  A server that is gone already may report an error all the same.
ServerUnmount(n) ==
  /\ At(n, "call")
  /\ \/ server' = "gone" /\ attempt' = [attempt EXCEPT ![n] = [pc |-> "check", err |-> FALSE]] /\ UNCHANGED refusals
     \/ /\ refusals < MaxRefusals /\ refusals' = refusals + 1
        /\ attempt' = [attempt EXCEPT ![n] = [pc |-> "check", err |-> TRUE]] /\ UNCHANGED server
  /\ UNCHANGED <<unmounted, current, call, auto, monitor, lifetime, polling, workers, finished, status>>

\* The first look at the channel: a stop that was observed meanwhile wins.
Check(n) ==
  /\ At(n, "check")
  /\ attempt' = [attempt EXCEPT ![n] = [pc |-> "record", err |-> @.err /\ ~unmounted]]
  /\ UNCHANGED <<server, unmounted, current, call, auto, monitor, lifetime, polling, workers, finished, status, refusals>>

\* The result goes into the status; polling stops only on success.
Record(n) ==
  /\ At(n, "record") /\ Go(n, "publish")
  /\ IF attempt[n].err THEN recordUnmountFailure /\ UNCHANGED polling
     ELSE recordUnmountSuccess /\ polling' = FALSE
  /\ UNCHANGED <<server, unmounted, current, call, auto, monitor, lifetime, workers, finished, refusals>>

\* A bug to catch: the error is published although the stop was observed.
LateError(n) == attempt[n].err
\* The error of an attempt once the channel was looked at again.
FinalError(n) == attempt[n].err /\ ~unmounted

\* The attempt is published, under the lock.
PublishResult(n) ==
  /\ At(n, "publish")
  /\ attempt' = [attempt EXCEPT ![n] = [pc |-> IF FinalError(n) THEN "done" ELSE "cancel", err |-> FinalError(n)]]
  /\ unmounted' = (unmounted \/ ~FinalError(n))
  /\ current' = IF current = n THEN 0 ELSE current
  /\ UNCHANGED <<server, call, auto, monitor, lifetime, polling, workers, finished, status, refusals>>

\* A successful attempt cancels the lifetime.
CancelAfter(n) ==
  /\ At(n, "cancel") /\ Go(n, "done")
  /\ CancelLifetime
  /\ UNCHANGED <<server, unmounted, current, call, auto, monitor, workers, finished, status, refusals>>

-----------------------------------------------------------------------------
(* The server, its monitor and the workers *)

\* Somebody else unmounts, or the serve loop ends.
ServerStops ==
  /\ server = "up" /\ server' = "gone"
  /\ UNCHANGED <<unmounted, current, attempt, call, auto, monitor, lifetime, polling, workers, finished, status, refusals>>

\* server.Wait returns, and publishServerStopped sets status and channel under both locks.
PublishServerStopped ==
  /\ monitor = "wait" /\ server = "gone"
  /\ monitor' = "cancel"
  /\ lifecycle' = "Stopped" /\ failing' = FALSE /\ unmounted' = TRUE
  /\ UNCHANGED <<server, current, attempt, call, auto, lifetime, polling, workers, finished, reason, refusals>>

\* The monitor cancels polling and lifetime and closes serverDone.
MonitorEnds ==
  /\ monitor = "cancel" /\ monitor' = "done"
  /\ CancelLifetime
  /\ UNCHANGED <<server, unmounted, current, attempt, call, auto, workers, finished, status, refusals>>

\* Poller and coordinator return.
WorkersReturn ==
  /\ workers /\ ~polling /\ workers' = FALSE
  /\ UNCHANGED <<server, unmounted, current, attempt, call, auto, monitor, lifetime, polling, finished, status, refusals>>

\* finishWhenStopped.
Finish ==
  /\ ~finished /\ monitor = "done" /\ ~workers
  /\ finished' = TRUE
  /\ UNCHANGED <<server, unmounted, current, attempt, call, auto, monitor, lifetime, polling, workers, status, refusals>>

-----------------------------------------------------------------------------
(* The automatic unmount: unmountOnLifetimeDone *)

\* The caller's context ends or the authorization expires.
LifetimeEnds ==
  /\ lifetime = "live"
  /\ lifetime' \in {"context", "expired"}
  /\ polling' = FALSE
  /\ UNCHANGED <<server, unmounted, current, attempt, call, auto, monitor, workers, finished, status, refusals>>

\* beginAutomaticUnmount finds the mount not stopped yet.
MayClaim == ~unmounted

\* beginAutomaticUnmount claims the reason; polling has ended with the lifetime.
Claim ==
  /\ auto = "watch" /\ lifetime # "live" /\ MayClaim
  /\ auto' = "claimed"
  /\ reason' = IF lifetime = "expired" THEN "expired" ELSE "context"
  /\ UNCHANGED <<server, unmounted, current, attempt, call, monitor, lifetime, polling, workers, finished, lifecycle, failing, refusals>>

\* The mount has stopped, or stops before the reason is claimed.
Resign ==
  /\ auto = "watch" /\ unmounted
  /\ auto' = "end"
  /\ UNCHANGED <<server, unmounted, current, attempt, call, monitor, lifetime, polling, workers, finished, status, refusals>>

\* recordUnmountAttempt, and the call of UnmountContext with the automatic timeout.
AutoCall ==
  /\ auto = "claimed" /\ auto' = "call"
  /\ recordUnmountAttempt
  /\ call' = [call EXCEPT ![Auto] = [pc |-> "try", retry |-> TRUE, done |-> FALSE]]
  /\ UNCHANGED <<server, unmounted, current, attempt, monitor, lifetime, polling, workers, finished, refusals>>

\* UnmountContext returns to the automatic unmount; an error is recorded.
AutoReturn ==
  /\ auto = "call" /\ call[Auto].pc = "end" /\ auto' = "end"
  /\ IF call[Auto].result = "nil" THEN UNCHANGED status ELSE recordUnmountFailure
  /\ UNCHANGED <<server, unmounted, current, attempt, call, monitor, lifetime, polling, workers, finished, refusals>>

-----------------------------------------------------------------------------

Execute(n) == Start(n) \/ Check(n) \/ Record(n) \/ PublishResult(n) \/ CancelAfter(n)
Unmounting(c) == Try(c) \/ Wait(c) \/ Pause(c)
Monitor == PublishServerStopped \/ MonitorEnds
Automatic == Claim \/ Resign \/ AutoCall \/ AutoReturn

Next ==
  \/ \E c \in Everybody : Call(c) \/ Deadline(c) \/ Unmounting(c)
  \/ \E n \in Attempts : Execute(n) \/ ServerUnmount(n)
  \/ ServerStops \/ Monitor \/ WorkersReturn \/ Finish \/ LifetimeEnds \/ Automatic

Spec == Init /\ [][Next]_vars

\* Every goroutine goes on, and the automatic unmount runs into its timeout.  The operating
\* system may hold server.Unmount for ever; nobody has to call, no other context has to end.
FairSpec ==
  /\ Spec
  /\ \A c \in Everybody : WF_vars(Unmounting(c))
  /\ \A n \in Attempts : WF_vars(Execute(n))
  /\ WF_vars(Deadline(Auto))
  /\ WF_vars(Monitor) /\ WF_vars(WorkersReturn) /\ WF_vars(Finish) /\ WF_vars(Automatic)

-----------------------------------------------------------------------------
(* Properties *)

\* The terminal status is not touched by a late report.
StoppedStays == lifecycle = "Stopped" => lifecycle' = "Stopped" /\ failing' = failing /\ reason' = reason

\* Once the monitor has published the stop no late report of an attempt, a retry or the automatic
\* unmount changes the lifecycle, marks it failing, or claims a reason for it.
StoppedIsFinal == [][StoppedStays]_vars

Underway(n) == attempt[n].pc \in {"start", "call", "check", "record", "publish"}

\* At most one physical unmount is under way, however many callers, retries and timeouts overlap
\* (a call that times out leaves its attempt to those that come after it).
OneAttempt == \A m, n \in Attempts : Underway(m) /\ Underway(n) => m = n

\* A step that ends an attempt or a call reports what was observed.
ReportsObservation ==
  /\ \A n \in Attempts : ~IsDone(n) /\ IsDone(n)' /\ attempt'[n].err => ~unmounted
  /\ \A c \in Everybody : call'[c].pc = "end" /\ call'[c].result = "nil" => unmounted'

\* An attempt never ends with an error when the stop of the server was observed before it ended,
\* and a call that returns nil finds the mount unmounted.
TerminalObservationWins == [][ReportsObservation]_vars

\* The automatic reason names what ended the lifetime from outside; an explicit unmount or a
\* server that stopped is never labelled as automatic, although both cancel the same context.
ReasonIsTrue == reason # "none" => reason = lifetime

Ending == server = "gone" \/ lifetime # "live"
\* The automatic unmount has failed, and the status says so unless somebody tries again.
GivenUp == auto = "end" /\ failing /\ (lifecycle = "StopFailed" \/ \E c \in Callers : call[c].pc # "idle")
Ended == finished \/ GivenUp

\* When the server is gone, or the lifetime has ended, Done closes, or the automatic unmount runs
\* into its timeout and stop_failed stays in the status, even if the operating system never lets the server go.
MountEnds == Ending ~> Ended
=============================================================================
