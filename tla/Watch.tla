------------------------------- MODULE Watch -------------------------------
(***************************************************************************)
(* Publisher.Watch (live.go): the watch loop turns filesystem events,      *)
(* watcher errors and a reconciliation ticker into publish requests; a     *)
(* worker goroutine publishes, runs the AfterPublished hook (which updates *)
(* the root of a share) and retries a failed hook for exactly the          *)
(* generation it failed for before it publishes another one.  The two meet *)
(* in two channels of capacity one and in the cancellation of a context.   *)
(*                                                                         *)
(* A publication is a scan of the source followed by a commit that adds a  *)
(* generation if the content changed; both are as in module Publication,   *)
(* reduced to their outcome.  Rebuilding the watch tree keeps the events   *)
(* coming; events it misses are the lost events of SourceChanges.          *)
(***************************************************************************)
EXTENDS Naturals, FiniteSets

CONSTANTS
  MaxChanges,   \* bound on changes of the source
  MaxFaults,    \* bound on failing publications and hooks
  MaxRestarts   \* bound on crashes, cancellations and watcher failures

VARIABLES
  source,       \* content of the source tree
  event,        \* fsnotify has an event
  overflow,     \* fsnotify has an error
  repo,         \* the published generation and its content
  root,         \* generation of the last hook that took effect
  ticker,       \* ReconcileInterval is positive
  ctxDone,      \* the caller has cancelled the context
  main,         \* the watch loop
  requests,     \* channel requests: is there a token
  results,      \* channel results: empty or one result
  worker,       \* the publication worker
  reported,     \* generations publish has returned to this worker
  acknowledged, \* generations whose hook has succeeded in this worker
  failed,       \* a publication has failed since the source was last in sync
  faults, restarts

channels == <<requests, results>>
ghosts == <<reported, acknowledged>>
environment == <<source, event, overflow, ticker, ctxDone, restarts>>
vars == <<source, event, overflow, repo, root, ticker, ctxDone, main, requests, results, worker,
          reported, acknowledged, failed, faults, restarts>>

NoResult == [kind |-> "none", gen |-> 0, reconcile |-> FALSE]

FreshMain == [pc |-> "run", debounce |-> FALSE, last |-> 0]

\* The worker starts with nothing acknowledged: the first publication of a watch
\* always runs the hook.
FreshWorker == [pc |-> "top", scan |-> 0, snap |-> 0, pending |-> 0, retry |-> FALSE,
                timer |-> "off", acked |-> 0, out |-> NoResult]

Init ==
  /\ source = 1 /\ event = FALSE /\ overflow = FALSE
  /\ repo = [gen |-> 0, content |-> 0] /\ root = 0
  /\ ticker \in BOOLEAN /\ ctxDone = FALSE
  /\ main = FreshMain /\ requests = TRUE /\ results = NoResult
  /\ worker = FreshWorker
  /\ reported = {} /\ acknowledged = {} /\ failed = FALSE
  /\ faults = 0 /\ restarts = 0

\* workerCtx: cancelled with the caller's context and when the loop returns.
Cancelled == ctxDone \/ main.pc # "run"

Fault == faults < MaxFaults /\ faults' = faults + 1

-----------------------------------------------------------------------------
(* The watch loop *)

\* A request that waits for room in the channel would block; this one is dropped
\* when there is one already.
RequestPublish == requests' = TRUE

Loop == main.pc = "run"

HandleEvent ==
  /\ Loop /\ event
  /\ event' = FALSE /\ main' = [main EXCEPT !.debounce = TRUE]
  /\ UNCHANGED <<source, overflow, repo, root, ticker, ctxDone, channels, worker, ghosts, failed, faults, restarts>>

HandleWatchError ==
  /\ Loop /\ overflow
  /\ overflow' = FALSE /\ RequestPublish
  /\ UNCHANGED <<source, event, repo, root, ticker, ctxDone, main, results, worker, ghosts, failed, faults, restarts>>

DebounceFires ==
  /\ Loop /\ main.debounce
  /\ main' = [main EXCEPT !.debounce = FALSE] /\ RequestPublish
  /\ UNCHANGED <<environment, repo, root, results, worker, ghosts, failed, faults>>

ReconcileTick ==
  /\ Loop /\ ticker /\ RequestPublish
  /\ UNCHANGED <<environment, repo, root, main, results, worker, ghosts, failed, faults>>

\* OnPublished is called for a successful result with a new generation.
Announces(r) == r.kind = "ok" /\ r.gen > main.last

HandleResult ==
  /\ Loop /\ results # NoResult /\ results' = NoResult
  /\ \/ /\ ctxDone \/ results.kind = "fatal"
        /\ main' = [main EXCEPT !.pc = "stopping"] /\ UNCHANGED requests
     \/ /\ ~ctxDone /\ results.kind # "fatal"
        /\ main' = [main EXCEPT !.last = IF Announces(results) THEN results.gen ELSE @]
        /\ requests' = (requests \/ results.reconcile)
  /\ UNCHANGED <<environment, repo, root, worker, ghosts, failed, faults>>

\* The loop returns: the context is done, or fsnotify has closed its channel.
StopLoop ==
  /\ Loop /\ main' = [main EXCEPT !.pc = "stopping"]
  /\ \/ ctxDone /\ UNCHANGED restarts
     \/ restarts < MaxRestarts /\ restarts' = restarts + 1
  /\ UNCHANGED <<source, event, overflow, ticker, ctxDone, repo, root, channels, worker, ghosts, failed, faults>>

\* The deferred function waits for the worker.
Return ==
  /\ main.pc = "stopping" /\ worker.pc = "done"
  /\ main' = [main EXCEPT !.pc = "returned"]
  /\ UNCHANGED <<environment, repo, root, channels, worker, ghosts, failed, faults>>

-----------------------------------------------------------------------------
(* The worker *)

Work(w) == worker' = w

\* The retry timer is served before any request.
RetryFirst == worker.pending # 0 /\ worker.timer = "ready"

\* retryAfterPublished, up to the hook.
Retrying == [worker EXCEPT !.pc = "hook", !.snap = worker.pending, !.retry = TRUE, !.timer = "off"]

Top ==
  /\ worker.pc = "top"
  /\ Work(IF Cancelled THEN [worker EXCEPT !.pc = "done"]
          ELSE IF RetryFirst THEN Retrying
          ELSE [worker EXCEPT !.pc = "select"])
  /\ UNCHANGED <<environment, repo, root, main, channels, ghosts, failed, faults>>

\* A worker that publishes although a hook is outstanding.
NoBarrier == FALSE
\* A generation that has not passed its hook holds back the next one.
Barrier == worker.pending # 0

Select ==
  /\ worker.pc = "select"
  /\ \/ Cancelled /\ Work([worker EXCEPT !.pc = "done"]) /\ UNCHANGED requests
     \/ worker.timer = "ready" /\ Work(Retrying) /\ UNCHANGED requests
     \/ /\ requests /\ requests' = FALSE
        /\ Work([worker EXCEPT !.pc = IF Barrier THEN "top" ELSE "scan"])
  /\ UNCHANGED <<environment, repo, root, main, results, ghosts, failed, faults>>

Sending(w, kind, gen, reconcile) ==
  [w EXCEPT !.pc = "send", !.scan = 0, !.snap = 0, !.retry = FALSE,
            !.out = [kind |-> kind, gen |-> gen, reconcile |-> reconcile]]

\* publish fails.
PublishFails ==
  /\ IF Cancelled THEN UNCHANGED faults ELSE Fault
  /\ failed' = TRUE /\ Work(Sending(worker, "error", 0, FALSE))

Scan ==
  /\ worker.pc = "scan"
  /\ \/ Work([worker EXCEPT !.pc = "commit", !.scan = source]) /\ UNCHANGED <<failed, faults>>
     \/ PublishFails
  /\ UNCHANGED <<environment, repo, root, main, channels, ghosts>>

\* Commit of what was scanned; its answer may be lost after it took effect.
Committed == IF repo.content = worker.scan THEN repo ELSE [gen |-> repo.gen + 1, content |-> worker.scan]

Commit ==
  /\ worker.pc = "commit"
  /\ \/ /\ repo' = Committed
        /\ reported' = reported \union {Committed.gen}
        /\ failed' = FALSE
        /\ Work(IF Committed.gen > worker.acked
                  THEN [worker EXCEPT !.pc = "hook", !.scan = 0, !.snap = Committed.gen]
                  ELSE Sending(worker, "ok", Committed.gen, FALSE))
        /\ UNCHANGED faults
     \/ repo' \in {repo, Committed} /\ PublishFails /\ UNCHANGED reported
  /\ UNCHANGED <<environment, root, main, channels, acknowledged>>

\* An acknowledgement that does not ask for another scan.
NoReconcile(retry) == FALSE
\* After a retry the source is scanned once more: requests made meanwhile are gone.
Reconcile(retry) == retry

\* invokeWatchAfterPublished and what follows it.
Hook ==
  LET g == worker.snap
  IN /\ worker.pc = "hook"
     /\ \/ /\ ~Cancelled /\ root' = g /\ acknowledged' = acknowledged \union {g}
           /\ Work([Sending(worker, "ok", g, Reconcile(worker.retry))
                      EXCEPT !.acked = g, !.pending = 0, !.timer = "off"])
           /\ UNCHANGED faults
        \/ \* an error, which may come after the root was updated
           /\ IF Cancelled THEN UNCHANGED faults ELSE Fault
           /\ root' \in {root, g}
           /\ Work([Sending(worker, "error", g, FALSE) EXCEPT !.pending = g, !.timer = "armed"])
           /\ UNCHANGED acknowledged
        \/ Fault /\ Work(Sending(worker, "fatal", g, FALSE)) /\ UNCHANGED <<root, acknowledged>>
     /\ UNCHANGED <<environment, repo, main, channels, reported, failed>>

\* A result can only be sent.
SendOnly == FALSE
\* sendResult gives up when the context is cancelled.
MayGiveUp == Cancelled

Send ==
  /\ worker.pc = "send"
  /\ \/ /\ results = NoResult /\ results' = worker.out
        /\ Work([worker EXCEPT !.out = NoResult,
                   !.pc = IF worker.out.kind = "fatal" /\ worker.pending = 0 THEN "done" ELSE "top"])
     \/ MayGiveUp /\ Work([worker EXCEPT !.out = NoResult, !.pc = "done"]) /\ UNCHANGED results
  /\ UNCHANGED <<environment, repo, root, main, requests, ghosts, failed, faults>>

\* The retry delay has passed.
TimerFires ==
  /\ worker.timer = "armed" /\ worker.pc # "done"
  /\ Work([worker EXCEPT !.timer = "ready"])
  /\ UNCHANGED <<environment, repo, root, main, channels, ghosts, failed, faults>>

-----------------------------------------------------------------------------
(* The environment *)

\* The source changes; the event may be lost to an overflow, which is reported, or
\* lost altogether, which only the ticker makes up for.
SourceChanges ==
  /\ source <= MaxChanges /\ source' = source + 1
  /\ \/ event' = TRUE /\ UNCHANGED overflow
     \/ overflow' = TRUE /\ UNCHANGED event
     \/ ticker /\ UNCHANGED <<event, overflow>>
  /\ UNCHANGED <<repo, root, ticker, ctxDone, main, channels, worker, ghosts, failed, faults, restarts>>

Cancel ==
  /\ ~ctxDone /\ Loop /\ restarts < MaxRestarts
  /\ ctxDone' = TRUE /\ restarts' = restarts + 1
  /\ UNCHANGED <<source, event, overflow, ticker, repo, root, main, channels, worker, ghosts, failed, faults>>

\* The process is started again, after Watch has returned or after a crash.
Restart ==
  /\ restarts < MaxRestarts \/ main.pc = "returned"
  /\ restarts' = IF main.pc = "returned" THEN restarts ELSE restarts + 1
  /\ event' = FALSE /\ overflow' = FALSE /\ ctxDone' = FALSE
  /\ main' = FreshMain /\ requests' = TRUE /\ results' = NoResult /\ worker' = FreshWorker
  /\ reported' = {} /\ acknowledged' = {} /\ failed' = FALSE
  /\ UNCHANGED <<source, repo, root, ticker, faults>>

WorkerStep == Top \/ Select \/ Scan \/ Commit \/ Hook \/ Send

Next ==
  \/ HandleEvent \/ HandleWatchError \/ DebounceFires \/ ReconcileTick \/ HandleResult \/ StopLoop \/ Return
  \/ WorkerStep \/ TimerFires
  \/ SourceChanges \/ Cancel \/ Restart

\* Each ready case of the loop's select is eventually chosen, as Go chooses at random.
\* Of the worker it is only assumed that it runs, not how its select chooses.
Spec ==
  /\ Init /\ [][Next]_vars
  /\ WF_vars(HandleEvent) /\ WF_vars(HandleWatchError) /\ WF_vars(DebounceFires)
  /\ WF_vars(ReconcileTick) /\ WF_vars(HandleResult) /\ WF_vars(ctxDone /\ StopLoop) /\ WF_vars(Return)
  /\ WF_vars(WorkerStep) /\ WF_vars(TimerFires)
  /\ WF_vars(main.pc = "returned" /\ Restart)

-----------------------------------------------------------------------------
\* The exact-generation barrier: the hook never succeeds for a generation while an earlier
\* one that publish has returned is still without its hook, and OnPublished is called for no
\* generation whose AfterPublished hook has not succeeded.
HooksInOrder ==
  /\ \A g \in reported : g < worker.acked => g \in acknowledged
  /\ main.last \in acknowledged \union {0}

\* Watch returns once it has begun to stop, whatever the worker is waiting for.
ShutsDown == main.pc = "stopping" ~> main.pc # "stopping"

\* Once the source is quiet and faults end, the last content is published, its hook
\* has run and it has been announced - whichever requests were dropped, coalesced or
\* consumed meanwhile.  Without the ticker a failed publication is not retried.
InSync == repo.content = source /\ root = repo.gen /\ main.last = repo.gen

ReachesSync == <>[](InSync \/ (failed /\ ~ticker))
=============================================================================
