---------------------------- MODULE SourceProofs ----------------------------
(***************************************************************************)
(* How a publisher follows its source: the watch worker, for any number of *)
(* changes, faults, cancellations and restarts, and the scan, for any      *)
(* number of names, blocks, changes and tries.                             *)
(*                                                                         *)
(* Watch: of the generations that publish has returned to the worker at    *)
(* most one is without its hook, the pending one or the one whose hook is  *)
(* running.  So no later generation can pass its hook before it.  What the *)
(* channel of results carries as published has passed its hook, and so has *)
(* what the loop announced.                                                *)
(*                                                                         *)
(* SourceScan: the modification times make it safe.  Whatever is written   *)
(* gets a later time (Edited), so a file or a directory that still has the *)
(* time noted before it was read is what was read; and a commit that no    *)
(* change of the selection came after shows the selection as it is.        *)
(***************************************************************************)
EXTENDS Watch, SourceFiles, TLAPS

-----------------------------------------------------------------------------
(* Watch *)

Results == [kind : {"none", "ok", "error", "fatal"}, gen : Nat, reconcile : BOOLEAN]

Workers == [pc : {"top", "select", "scan", "commit", "hook", "send", "done"}, scan : Nat, snap : Nat, pending : Nat,
            retry : BOOLEAN, timer : {"off", "armed", "ready"}, acked : Nat, out : Results]

Loops == [pc : {"run", "stopping", "returned"}, debounce : BOOLEAN, last : Nat]

TypeOK ==
  /\ source \in Nat \ {0} /\ repo \in [gen : Nat, content : Nat]
  /\ main \in Loops /\ results \in Results /\ worker \in Workers
  /\ reported \subseteq 1..repo.gen /\ acknowledged \subseteq reported

\* Content that was scanned is there, and is new to a repository without a generation.
ScanIsReal ==
  /\ repo.gen = 0 => repo.content = 0
  /\ worker.pc = "commit" => worker.scan # 0

\* The generation that may be without its hook.
Outstanding == IF worker.pc = "hook" THEN worker.snap ELSE worker.pending

\* The worker gives up: the hook failed for good.
GivesUp == worker.pc = "done" \/ (worker.pc = "send" /\ worker.out.kind = "fatal" /\ worker.pending = 0)

OneOutstanding ==
  /\ ~GivesUp => \A g \in reported : g \in acknowledged \/ g = Outstanding
  /\ worker.pc \in {"scan", "commit"} => worker.pending = 0
  /\ worker.pc = "hook" => worker.snap \in reported /\ worker.pending \in {0, worker.snap}
  /\ worker.timer # "off" => worker.pending # 0
  /\ worker.pending # 0 => worker.pending \in reported

\* What is told has passed its hook.
ToldIsAcknowledged ==
  /\ worker.acked \in acknowledged \cup {0} /\ main.last \in acknowledged \cup {0}
  /\ worker.out.kind = "ok" => worker.out.gen \in acknowledged
  /\ results.kind = "ok" => results.gen \in acknowledged

IInv == TypeOK /\ ScanIsReal /\ OneOutstanding /\ ToldIsAcknowledged /\ HooksInOrder

-----------------------------------------------------------------------------
(* The loop and its environment *)

\* A step that leaves the worker and the repository alone, and tells nothing new.
LEMMA LoopKeeps ==
  ASSUME IInv, UNCHANGED <<repo, worker, reported, acknowledged>>, source' \in Nat \ {0},
         main' \in Loops, main'.last \in acknowledged \cup {0},
         results' \in Results, results'.kind = "ok" => results'.gen \in acknowledged
  PROVE  IInv'
<1>1. TypeOK'
  BY DEF IInv, TypeOK
<1>2. ScanIsReal' /\ OneOutstanding'
  BY DEF IInv, ScanIsReal, OneOutstanding, Outstanding, GivesUp
<1>3. ToldIsAcknowledged' /\ HooksInOrder'
  BY DEF IInv, ToldIsAcknowledged, HooksInOrder
<1> QED
  BY <1>1, <1>2, <1>3 DEF IInv

LEMMA NoResultFacts == NoResult \in Results /\ NoResult.kind = "none"
BY DEF NoResult, Results

\* The loop changes only its own record and the channels.
LEMMA LoopActionsKeep ==
  ASSUME IInv, HandleEvent \/ HandleWatchError \/ DebounceFires \/ ReconcileTick \/ HandleResult \/ StopLoop \/ Return
                 \/ SourceChanges \/ Cancel
  PROVE  IInv'
<1>1. /\ main \in Loops /\ results \in Results /\ source \in Nat \ {0}
      /\ main.last \in acknowledged \cup {0} /\ (results.kind = "ok" => results.gen \in acknowledged)
  BY DEF IInv, TypeOK, ToldIsAcknowledged
<1>2. UNCHANGED <<repo, worker, reported, acknowledged>>
  BY DEF HandleEvent, HandleWatchError, DebounceFires, ReconcileTick, HandleResult, StopLoop, Return, SourceChanges,
         Cancel, ghosts
<1>3. source' \in {source, source + 1}
  BY DEF HandleEvent, HandleWatchError, DebounceFires, ReconcileTick, HandleResult, StopLoop, Return, SourceChanges,
         Cancel, environment
<1>4. source' \in Nat \ {0}
  BY <1>1, <1>3
<1>5. results' \in Results /\ (results'.kind = "ok" => results'.gen \in acknowledged)
  <2>1. results' \in {results, NoResult}
    BY DEF HandleEvent, HandleWatchError, DebounceFires, ReconcileTick, HandleResult, StopLoop, Return, SourceChanges,
           Cancel, channels
  <2> QED
    BY <1>1, <2>1, NoResultFacts
<1>6. main' \in Loops /\ main'.last \in acknowledged \cup {0}
  <2>1. CASE HandleEvent \/ DebounceFires
    <3>1. main' = [main EXCEPT !.debounce = TRUE] \/ main' = [main EXCEPT !.debounce = FALSE]
      BY <2>1 DEF HandleEvent, DebounceFires
    <3> QED
      BY Zenon, <1>1, <3>1 DEF Loops
  <2>2. CASE HandleWatchError \/ ReconcileTick \/ SourceChanges \/ Cancel
    BY <1>1, <2>2 DEF HandleWatchError, ReconcileTick, SourceChanges, Cancel
  <2>3. CASE StopLoop \/ Return
    BY <1>1, <2>3 DEF StopLoop, Return, Loops
  <2>4. CASE HandleResult
    <3>1. CASE main' = [main EXCEPT !.pc = "stopping"]
      BY <1>1, <3>1 DEF Loops
    <3>2. CASE main' = [main EXCEPT !.last = IF Announces(results) THEN results.gen ELSE @]
      BY <1>1, <3>2 DEF Loops, Results, Announces
    <3> QED
      BY <2>4, <3>1, <3>2 DEF HandleResult
  <2> QED
    BY <2>1, <2>2, <2>3, <2>4
<1> QED
  BY <1>2, <1>4, <1>5, <1>6, LoopKeeps

\* A fresh worker has been told nothing.
LEMMA FreshFacts ==
  /\ FreshWorker \in Workers /\ FreshWorker.pc = "top" /\ FreshWorker.pending = 0 /\ FreshWorker.timer = "off"
  /\ FreshWorker.acked = 0 /\ FreshWorker.out.kind = "none"
  /\ FreshMain \in Loops /\ FreshMain.last = 0
<1>1. FreshWorker \in Workers
  BY NoResultFacts DEF FreshWorker, Workers
<1>2. FreshMain \in Loops /\ FreshMain.last = 0
  BY DEF FreshMain, Loops
<1> QED
  BY <1>1, <1>2, NoResultFacts DEF FreshWorker

\* A process starts with a fresh loop and a fresh worker, whatever the repository holds.
LEMMA FreshStart ==
  ASSUME source \in Nat \ {0}, repo \in [gen : Nat, content : Nat], repo.gen = 0 => repo.content = 0,
         main = FreshMain, results = NoResult, worker = FreshWorker, reported = {}, acknowledged = {}
  PROVE  IInv
<1>1. TypeOK
  BY FreshFacts, NoResultFacts DEF TypeOK
<1>2. ScanIsReal /\ OneOutstanding
  BY FreshFacts DEF ScanIsReal, OneOutstanding, Outstanding, GivesUp
<1>3. ToldIsAcknowledged /\ HooksInOrder
  BY FreshFacts, NoResultFacts DEF ToldIsAcknowledged, HooksInOrder
<1> QED
  BY <1>1, <1>2, <1>3 DEF IInv

LEMMA RestartKeeps ==
  ASSUME IInv, Restart
  PROVE  IInv'
<1>1. /\ source' \in Nat \ {0} /\ repo' \in [gen : Nat, content : Nat] /\ (repo'.gen = 0 => repo'.content = 0)
  BY DEF IInv, TypeOK, ScanIsReal, Restart
<1>2. main' = FreshMain /\ results' = NoResult /\ worker' = FreshWorker /\ reported' = {} /\ acknowledged' = {}
  BY DEF Restart
<1>3. TypeOK'
  BY <1>1, <1>2, FreshFacts, NoResultFacts DEF TypeOK
<1>4. ScanIsReal' /\ OneOutstanding'
  BY <1>1, <1>2, FreshFacts DEF ScanIsReal, OneOutstanding, Outstanding, GivesUp
<1>5. ToldIsAcknowledged' /\ HooksInOrder'
  BY <1>2, FreshFacts, NoResultFacts DEF ToldIsAcknowledged, HooksInOrder
<1> QED
  BY <1>3, <1>4, <1>5 DEF IInv

-----------------------------------------------------------------------------
(* The worker *)

\* x sends a result and keeps what w has.
Sends(w, kind, gen, x) ==
  /\ x \in Workers /\ x.pc = "send" /\ x.pending = w.pending /\ x.timer = w.timer /\ x.acked = w.acked
  /\ x.out.kind = kind /\ x.out.gen = gen

Kinds == {"ok", "error", "fatal"}

LEMMA SendingFacts ==
  ASSUME NEW w \in Workers, NEW kind \in Kinds, NEW gen \in Nat, NEW again \in BOOLEAN
  PROVE  Sends(w, kind, gen, Sending(w, kind, gen, again))
<1> DEFINE out == [kind |-> kind, gen |-> gen, reconcile |-> again]
<1>1. out \in Results /\ out.kind = kind /\ out.gen = gen
  BY DEF Results, Kinds
<1> HIDE DEF out
<1>2. Sending(w, kind, gen, again) = [w EXCEPT !.pc = "send", !.scan = 0, !.snap = 0, !.retry = FALSE, !.out = out]
  BY DEF Sending, out
<1> DEFINE x == [w EXCEPT !.pc = "send", !.scan = 0, !.snap = 0, !.retry = FALSE, !.out = out]
<1>3. /\ x \in Workers /\ x.pc = "send" /\ x.pending = w.pending /\ x.timer = w.timer /\ x.acked = w.acked /\ x.out = out
  BY <1>1 DEF Workers
<1> QED
  BY <1>1, <1>2, <1>3 DEF Sends

\* A step of the worker that reports and acknowledges nothing.
LEMMA QuietKeeps ==
  ASSUME IInv, UNCHANGED <<source, main, reported, acknowledged>>, OneOutstanding',
         repo' \in [gen : Nat, content : Nat], repo'.gen >= repo.gen, repo'.gen = 0 => repo'.content = 0,
         worker' \in Workers, worker'.acked = worker.acked, worker'.pc = "commit" => worker'.scan # 0,
         worker'.out.kind = "ok" => worker'.out.gen \in acknowledged,
         results' \in Results, results'.kind = "ok" => results'.gen \in acknowledged
  PROVE  IInv'
<1>1. TypeOK'
  <2>1. repo.gen \in Nat /\ repo'.gen \in Nat
    BY DEF IInv, TypeOK
  <2>2. reported' \subseteq 1..repo'.gen
    BY <2>1 DEF IInv, TypeOK
  <2> QED
    BY <2>2 DEF IInv, TypeOK
<1>2. ScanIsReal'
  BY DEF ScanIsReal
<1>3. ToldIsAcknowledged' /\ HooksInOrder'
  BY DEF IInv, ToldIsAcknowledged, HooksInOrder
<1> QED
  BY <1>1, <1>2, <1>3 DEF IInv

\* What the invariant says of the worker.
LEMMA WorkerFacts ==
  ASSUME IInv
  PROVE  /\ worker \in Workers /\ results \in Results /\ repo \in [gen : Nat, content : Nat]
         /\ (repo.gen = 0 => repo.content = 0) /\ source \in Nat \ {0}
         /\ (worker.out.kind = "ok" => worker.out.gen \in acknowledged)
         /\ (results.kind = "ok" => results.gen \in acknowledged)
         /\ worker.pending \in Nat /\ worker.out \in Results
BY DEF IInv, TypeOK, ScanIsReal, ToldIsAcknowledged, Workers

\* The retry timer is only set for a pending generation, which the hook then runs for.
LEMMA RetryingFacts ==
  ASSUME IInv
  PROVE  /\ Retrying \in Workers /\ Retrying.pc = "hook" /\ Retrying.snap = worker.pending
         /\ Retrying.pending = worker.pending /\ Retrying.timer = "off" /\ Retrying.acked = worker.acked
         /\ Retrying.out = worker.out
BY WorkerFacts DEF Retrying, Workers

LEMMA TopKeeps ==
  ASSUME IInv, Top
  PROVE  IInv'
<1>1. /\ worker.pc = "top" /\ UNCHANGED <<source, repo, main, results, reported, acknowledged>>
      /\ \/ worker' = [worker EXCEPT !.pc = "done"]
         \/ RetryFirst /\ worker' = Retrying
         \/ worker' = [worker EXCEPT !.pc = "select"]
  BY DEF Top, Work, environment, channels, ghosts
<1>2. CASE worker' = [worker EXCEPT !.pc = "done"] \/ worker' = [worker EXCEPT !.pc = "select"]
  <2>1. /\ worker' \in Workers /\ worker'.pc \in {"done", "select"} /\ worker'.pending = worker.pending
        /\ worker'.timer = worker.timer /\ worker'.acked = worker.acked /\ worker'.out = worker.out
    BY <1>2, WorkerFacts DEF Workers
  <2>2. OneOutstanding'
    BY <1>1, <2>1 DEF IInv, OneOutstanding, Outstanding, GivesUp
  <2> QED
    BY <1>1, <2>1, <2>2, WorkerFacts, QuietKeeps
<1>3. CASE RetryFirst /\ worker' = Retrying
  <2>1. worker.pending # 0
    BY <1>3 DEF RetryFirst
  <2>2. OneOutstanding'
    BY <1>1, <1>3, <2>1, RetryingFacts DEF IInv, OneOutstanding, Outstanding, GivesUp
  <2> QED
    BY <1>1, <1>3, <2>2, WorkerFacts, RetryingFacts, QuietKeeps
<1> QED
  BY <1>1, <1>2, <1>3

\* A request is taken only when no generation is without its hook.
LEMMA SelectKeeps ==
  ASSUME IInv, Select
  PROVE  IInv'
<1>1. /\ worker.pc = "select" /\ UNCHANGED <<source, repo, main, results, reported, acknowledged>>
      /\ \/ worker' = [worker EXCEPT !.pc = "done"]
         \/ worker.timer = "ready" /\ worker' = Retrying
         \/ worker' = [worker EXCEPT !.pc = IF Barrier THEN "top" ELSE "scan"]
  BY DEF Select, Work, environment, ghosts
<1>2. CASE worker' = [worker EXCEPT !.pc = "done"] \/ worker' = [worker EXCEPT !.pc = IF Barrier THEN "top" ELSE "scan"]
  <2>1. /\ worker' \in Workers /\ worker'.pc \in {"done", "top", "scan"} /\ worker'.pending = worker.pending
        /\ worker'.timer = worker.timer /\ worker'.acked = worker.acked /\ worker'.out = worker.out
        /\ (worker'.pc = "scan" => worker.pending = 0)
    BY <1>2, WorkerFacts DEF Workers, Barrier
  <2>2. OneOutstanding'
    BY <1>1, <2>1 DEF IInv, OneOutstanding, Outstanding, GivesUp
  <2> QED
    BY <1>1, <2>1, <2>2, WorkerFacts, QuietKeeps
<1>3. CASE worker.timer = "ready" /\ worker' = Retrying
  <2>1. worker.pending # 0
    BY <1>3 DEF IInv, OneOutstanding
  <2>2. OneOutstanding'
    BY <1>1, <1>3, <2>1, RetryingFacts DEF IInv, OneOutstanding, Outstanding, GivesUp
  <2> QED
    BY <1>1, <1>3, <2>2, WorkerFacts, RetryingFacts, QuietKeeps
<1> QED
  BY <1>1, <1>2, <1>3

\* A publication that fails reports nothing, even if it took effect.
LEMMA PublishFailsKeeps ==
  ASSUME IInv, worker.pc \in {"scan", "commit"}, worker' = Sending(worker, "error", 0, FALSE),
         UNCHANGED <<source, main, results, reported, acknowledged>>,
         repo' \in [gen : Nat, content : Nat], repo'.gen >= repo.gen, repo'.gen = 0 => repo'.content = 0
  PROVE  IInv'
<1>1. /\ worker' \in Workers /\ worker'.pc = "send" /\ worker'.pending = worker.pending /\ worker'.timer = worker.timer
      /\ worker'.acked = worker.acked /\ worker'.out.kind = "error"
  <2>1. worker \in Workers /\ 0 \in Nat /\ "error" \in Kinds
    BY WorkerFacts DEF Kinds
  <2>2. Sends(worker, "error", 0, Sending(worker, "error", 0, FALSE))
    BY Zenon, <2>1, SendingFacts
  <2>3. Sends(worker, "error", 0, worker')
    BY Zenon, <2>2
  <2> QED
    BY <2>3 DEF Sends
<1>2. OneOutstanding'
  BY <1>1 DEF IInv, OneOutstanding, Outstanding, GivesUp
<1> QED
  BY <1>1, <1>2, WorkerFacts, QuietKeeps

LEMMA ScanKeeps ==
  ASSUME IInv, Scan
  PROVE  IInv'
<1>1. worker.pc = "scan" /\ UNCHANGED <<source, repo, main, results, reported, acknowledged>>
  BY DEF Scan, environment, channels, ghosts
<1>2. CASE worker' = [worker EXCEPT !.pc = "commit", !.scan = source]
  <2>1. /\ worker' \in Workers /\ worker'.pc = "commit" /\ worker'.scan = source /\ worker'.pending = worker.pending
        /\ worker'.timer = worker.timer /\ worker'.acked = worker.acked /\ worker'.out = worker.out
    BY <1>2, WorkerFacts DEF Workers
  <2>2. OneOutstanding'
    BY <1>1, <2>1 DEF IInv, OneOutstanding, Outstanding, GivesUp
  <2> QED
    BY <1>1, <2>1, <2>2, WorkerFacts, QuietKeeps
<1>3. CASE PublishFails
  <2>1. worker' = Sending(worker, "error", 0, FALSE)
    BY <1>3 DEF PublishFails, Work
  <2> QED
    BY <1>1, <2>1, WorkerFacts, PublishFailsKeeps
<1> QED
  BY <1>2, <1>3 DEF Scan, Work

LEMMA SendKeeps ==
  ASSUME IInv, Send
  PROVE  IInv'
<1>1. worker.pc = "send" /\ UNCHANGED <<source, repo, main, reported, acknowledged>>
  BY DEF Send, environment, ghosts
<1>2. /\ worker' \in Workers /\ worker'.pc \in {"top", "done"} /\ worker'.pending = worker.pending
      /\ worker'.timer = worker.timer /\ worker'.acked = worker.acked /\ worker'.out = NoResult
      /\ (worker.out.kind = "fatal" /\ worker.pending = 0 => worker'.pc = "done")
      /\ results' \in {results, worker.out}
  <2>1. CASE /\ results' = worker.out
             /\ worker' = [worker EXCEPT !.out = NoResult,
                             !.pc = IF worker.out.kind = "fatal" /\ worker.pending = 0 THEN "done" ELSE "top"]
    BY <2>1, WorkerFacts, NoResultFacts DEF Workers
  <2>2. CASE worker' = [worker EXCEPT !.out = NoResult, !.pc = "done"] /\ UNCHANGED results
    BY <2>2, WorkerFacts, NoResultFacts DEF Workers
  <2> QED
    BY <2>1, <2>2 DEF Send, Work
<1>3. OneOutstanding'
  BY <1>1, <1>2 DEF IInv, OneOutstanding, Outstanding, GivesUp
<1> QED
  BY <1>1, <1>2, <1>3, WorkerFacts, NoResultFacts, QuietKeeps

LEMMA TimerFiresKeeps ==
  ASSUME IInv, TimerFires
  PROVE  IInv'
<1>1. /\ worker.timer = "armed" /\ UNCHANGED <<source, repo, main, results, reported, acknowledged>>
      /\ worker' = [worker EXCEPT !.timer = "ready"]
  BY DEF TimerFires, Work, environment, channels, ghosts
<1>2. /\ worker' \in Workers /\ worker'.pc = worker.pc /\ worker'.scan = worker.scan /\ worker'.snap = worker.snap
      /\ worker'.pending = worker.pending /\ worker'.acked = worker.acked /\ worker'.out = worker.out
  BY <1>1, WorkerFacts DEF Workers
<1>3. OneOutstanding'
  BY <1>1, <1>2 DEF IInv, OneOutstanding, Outstanding, GivesUp
<1>4. worker'.pc = "commit" => worker'.scan # 0
  BY <1>2 DEF IInv, ScanIsReal
<1> QED
  BY <1>1, <1>2, <1>3, <1>4, WorkerFacts, QuietKeeps

\* A generation is reported when none is without its hook; it is the outstanding one then, or
\* was acknowledged before.
LEMMA CommitKeeps ==
  ASSUME IInv, Commit
  PROVE  IInv'
<1>1. worker.pc = "commit" /\ UNCHANGED <<source, main, results, acknowledged>>
  BY DEF Commit, environment, channels
<1>2. /\ Committed \in [gen : Nat, content : Nat] /\ Committed.gen \in {repo.gen, repo.gen + 1}
      /\ Committed.gen # 0
  <2>1. worker.scan # 0 /\ worker.scan \in Nat
    BY <1>1, WorkerFacts DEF IInv, ScanIsReal, Workers
  <2>2. CASE repo.content = worker.scan
    BY <2>1, <2>2, WorkerFacts DEF Committed
  <2>3. CASE repo.content # worker.scan
    BY <2>1, <2>3, WorkerFacts DEF Committed
  <2> QED
    BY <2>2, <2>3
<1>3. CASE repo' \in {repo, Committed} /\ PublishFails /\ UNCHANGED reported
  <2>1. worker' = Sending(worker, "error", 0, FALSE)
    BY <1>3 DEF PublishFails, Work
  <2>2. /\ repo' \in [gen : Nat, content : Nat] /\ repo'.gen >= repo.gen /\ (repo'.gen = 0 => repo'.content = 0)
    BY <1>2, <1>3, WorkerFacts
  <2> QED
    BY <1>1, <1>3, <2>1, <2>2, PublishFailsKeeps
<1>4. CASE /\ repo' = Committed /\ reported' = reported \union {Committed.gen}
           /\ worker' = IF Committed.gen > worker.acked
                          THEN [worker EXCEPT !.pc = "hook", !.scan = 0, !.snap = Committed.gen]
                          ELSE Sending(worker, "ok", Committed.gen, FALSE)
  <2> DEFINE g == Committed.gen
  <2>1. g \in Nat /\ g # 0 /\ g >= repo.gen /\ repo.gen \in Nat /\ repo'.gen = g /\ repo' \in [gen : Nat, content : Nat]
    BY <1>2, <1>4, WorkerFacts
  <2>2. /\ reported' = reported \cup {g} /\ reported \subseteq 1..repo.gen /\ acknowledged \subseteq reported
    BY <1>4 DEF IInv, TypeOK
  <2>3. (\A h \in reported : h \in acknowledged) /\ worker.pending = 0 /\ worker.timer = "off"
    <3>1. worker.pending = 0 /\ ~GivesUp /\ worker.timer = "off" /\ Outstanding = 0
      BY <1>1, WorkerFacts DEF IInv, OneOutstanding, GivesUp, Outstanding, Workers
    <3>2. \A h \in reported : h \in acknowledged \/ h = 0
      BY <3>1 DEF IInv, OneOutstanding
    <3>3. 0 \notin reported
      BY <2>1, <2>2
    <3> QED
      BY <3>1, <3>2, <3>3
  <2>4. worker.acked \in acknowledged \cup {0} /\ worker.acked \in Nat
    BY WorkerFacts DEF IInv, ToldIsAcknowledged, Workers
  <2>5. worker.acked <= repo.gen
    BY <2>1, <2>2, <2>4
  <2>6. \/ /\ worker' \in Workers /\ worker'.pc = "hook" /\ worker'.snap = g /\ worker'.pending = 0
           /\ worker'.timer = "off" /\ worker'.acked = worker.acked /\ worker'.out = worker.out
        \/ /\ worker' \in Workers /\ worker'.pc = "send" /\ worker'.pending = 0 /\ worker'.timer = "off"
           /\ worker'.acked = worker.acked /\ worker'.out.kind = "ok" /\ worker'.out.gen = g
           /\ g <= worker.acked
    <3>1. CASE g > worker.acked
      <4>1. worker' = [worker EXCEPT !.pc = "hook", !.scan = 0, !.snap = g]
        BY <1>4, <3>1
      <4> QED
        BY <2>1, <2>3, <4>1, WorkerFacts DEF Workers
    <3>2. CASE ~(g > worker.acked)
      <4>1. worker' = Sending(worker, "ok", g, FALSE)
        BY <1>4, <3>2
      <4>2. g <= worker.acked
        BY <2>1, <2>4, <3>2
      <4>3. worker \in Workers /\ "ok" \in Kinds
        BY WorkerFacts DEF Kinds
      <4>4. Sends(worker, "ok", g, Sending(worker, "ok", g, FALSE))
        BY Zenon, <2>1, <4>3, SendingFacts
      <4>5. Sends(worker, "ok", g, worker')
        BY Zenon, <4>1, <4>4
      <4> QED
        BY <2>3, <4>2, <4>5 DEF Sends
    <3> QED
      BY <3>1, <3>2
  <2> HIDE DEF g
  <2>7. worker'.pc = "send" => g \in acknowledged
    BY <2>1, <2>4, <2>5, <2>6
  <2>8. TypeOK'
    <3>1. reported' \subseteq 1..repo'.gen
      BY <2>1, <2>2
    <3> QED
      BY <1>1, <2>1, <2>2, <2>6, <3>1, WorkerFacts DEF IInv, TypeOK
  <2>9. ScanIsReal'
    BY <2>1, <2>6 DEF ScanIsReal
  <2>10. OneOutstanding'
    BY <1>1, <2>1, <2>2, <2>3, <2>6, <2>7 DEF OneOutstanding, Outstanding, GivesUp
  <2>11. ToldIsAcknowledged'
    BY <1>1, <2>4, <2>6, <2>7, WorkerFacts DEF IInv, ToldIsAcknowledged
  <2>12. HooksInOrder'
    <3>1. ~(g < worker.acked)
      BY <2>1, <2>4, <2>5
    <3> QED
      BY <1>1, <2>2, <2>3, <2>6, <3>1 DEF IInv, HooksInOrder
  <2> QED
    BY <2>8, <2>9, <2>10, <2>11, <2>12 DEF IInv
<1> QED
  BY <1>3, <1>4 DEF Commit, Work
\* The hook runs for the one generation that is without it.
LEMMA HookKeeps ==
  ASSUME IInv, Hook
  PROVE  IInv'
<1> DEFINE g == worker.snap
<1>1. worker.pc = "hook" /\ UNCHANGED <<source, repo, main, results, reported>>
  BY DEF Hook, environment, channels
<1>2. /\ g \in reported /\ worker.pending \in {0, g} /\ g \in Nat /\ g # 0 /\ worker.timer \in {"off", "armed", "ready"}
      /\ (\A h \in reported : h \in acknowledged \/ h = g) /\ (worker.timer # "off" => worker.pending # 0)
  <2>1. /\ g \in reported /\ worker.pending \in {0, g} /\ (\A h \in reported : h \in acknowledged \/ h = g)
        /\ (worker.timer # "off" => worker.pending # 0)
    BY <1>1 DEF IInv, OneOutstanding, Outstanding, GivesUp
  <2>2. reported \subseteq 1..repo.gen /\ repo.gen \in Nat
    BY DEF IInv, TypeOK
  <2> QED
    BY <2>1, <2>2, WorkerFacts DEF Workers
<1>3. worker \in Workers /\ worker.retry \in BOOLEAN
  BY WorkerFacts DEF Workers
<1>4. ASSUME NEW kind \in Kinds, NEW again \in BOOLEAN PROVE Sends(worker, kind, g, Sending(worker, kind, g, again))
  BY Zenon, <1>2, <1>3, SendingFacts
<1> HIDE DEF g
<1>5. ASSUME acknowledged' = acknowledged \union {g},
             worker' = [Sending(worker, "ok", g, Reconcile(worker.retry)) EXCEPT !.acked = g, !.pending = 0, !.timer = "off"]
      PROVE  IInv'
  <2>1. /\ worker' \in Workers /\ worker'.pc = "send" /\ worker'.pending = 0 /\ worker'.timer = "off"
        /\ worker'.acked = g /\ worker'.out.kind = "ok" /\ worker'.out.gen = g
    <3> DEFINE x == Sending(worker, "ok", g, worker.retry)
    <3>1. Sends(worker, "ok", g, x)
      BY Zenon, <1>3, <1>4 DEF Kinds
    <3>2. worker' = [x EXCEPT !.acked = g, !.pending = 0, !.timer = "off"]
      BY Zenon, <1>5 DEF Reconcile
    <3> HIDE DEF x
    <3> QED
      BY <1>2, <3>1, <3>2 DEF Workers, Sends
  <2>2. TypeOK'
    BY <1>1, <1>2, <1>5, <2>1 DEF IInv, TypeOK
  <2>3. ScanIsReal' /\ OneOutstanding'
    BY <1>1, <1>2, <1>5, <2>1 DEF IInv, ScanIsReal, OneOutstanding, Outstanding, GivesUp
  <2>4. ToldIsAcknowledged' /\ HooksInOrder'
    BY <1>1, <1>2, <1>5, <2>1 DEF IInv, ToldIsAcknowledged, HooksInOrder
  <2> QED
    BY <2>2, <2>3, <2>4 DEF IInv
<1>6. ASSUME UNCHANGED acknowledged,
             worker' = [Sending(worker, "error", g, FALSE) EXCEPT !.pending = g, !.timer = "armed"]
      PROVE  IInv'
  <2>1. /\ worker' \in Workers /\ worker'.pc = "send" /\ worker'.pending = g
        /\ worker'.acked = worker.acked /\ worker'.out.kind = "error"
    <3> DEFINE x == Sending(worker, "error", g, FALSE)
    <3>1. Sends(worker, "error", g, x)
      BY Zenon, <1>4 DEF Kinds
    <3>2. worker' = [x EXCEPT !.pending = g, !.timer = "armed"]
      BY <1>6
    <3> HIDE DEF x
    <3> QED
      BY <1>2, <3>1, <3>2 DEF Workers, Sends
  <2>2. UNCHANGED acknowledged
    BY <1>6
  <2>3. OneOutstanding'
    BY <1>1, <1>2, <2>1, <2>2 DEF OneOutstanding, Outstanding, GivesUp
  <2> QED
    BY <1>1, <2>1, <2>2, <2>3, WorkerFacts, QuietKeeps
<1>7. ASSUME UNCHANGED acknowledged, worker' = Sending(worker, "fatal", g, FALSE)
      PROVE  IInv'
  <2>1. /\ worker' \in Workers /\ worker'.pc = "send" /\ worker'.pending = worker.pending /\ worker'.timer = worker.timer
        /\ worker'.acked = worker.acked /\ worker'.out.kind = "fatal"
    <3>1. Sends(worker, "fatal", g, Sending(worker, "fatal", g, FALSE))
      BY Zenon, <1>4 DEF Kinds
    <3>2. Sends(worker, "fatal", g, worker')
      BY Zenon, <1>7, <3>1
    <3> QED
      BY <3>2 DEF Sends
  <2>2. UNCHANGED acknowledged
    BY <1>7
  <2>3. OneOutstanding'
    BY <1>1, <1>2, <2>1, <2>2 DEF IInv, OneOutstanding, Outstanding, GivesUp
  <2> QED
    BY <1>1, <2>1, <2>2, <2>3, WorkerFacts, QuietKeeps
<1> QED
  <2>1. \/ /\ acknowledged' = acknowledged \union {g}
           /\ worker' = [Sending(worker, "ok", g, Reconcile(worker.retry)) EXCEPT !.acked = g, !.pending = 0, !.timer = "off"]
        \/ /\ UNCHANGED acknowledged
           /\ worker' = [Sending(worker, "error", g, FALSE) EXCEPT !.pending = g, !.timer = "armed"]
        \/ UNCHANGED acknowledged /\ worker' = Sending(worker, "fatal", g, FALSE)
    BY DEF Hook, Work, g
  <2> QED
    BY Zenon, <1>5, <1>6, <1>7, <2>1

-----------------------------------------------------------------------------
(* The theorem *)

LEMMA InitInv == Init => IInv
<1> SUFFICES ASSUME Init PROVE IInv
  OBVIOUS
<1>1. source \in Nat \ {0} /\ repo \in [gen : Nat, content : Nat] /\ (repo.gen = 0 => repo.content = 0)
  BY DEF Init
<1>2. main = FreshMain /\ results = NoResult /\ worker = FreshWorker /\ reported = {} /\ acknowledged = {}
  BY DEF Init
<1> QED
  BY <1>1, <1>2, FreshStart

LEMMA StepInv == IInv /\ [Next]_vars => IInv'
<1> SUFFICES ASSUME IInv, [Next]_vars PROVE IInv'
  OBVIOUS
<1>1. CASE UNCHANGED vars
  <2>1. UNCHANGED <<source, main, results, repo, worker, reported, acknowledged>>
    BY <1>1 DEF vars
  <2>2. main \in Loops /\ main.last \in acknowledged \cup {0} /\ source \in Nat \ {0}
    BY DEF IInv, TypeOK, ToldIsAcknowledged
  <2> QED
    BY <2>1, <2>2, WorkerFacts, LoopKeeps
<1>2. CASE WorkerStep
  BY <1>2, TopKeeps, SelectKeeps, ScanKeeps, CommitKeeps, HookKeeps, SendKeeps DEF WorkerStep
<1> QED
  BY <1>1, <1>2, LoopActionsKeep, TimerFiresKeeps, RestartKeeps DEF Next

\* The hook never succeeds for a generation while an earlier one that publish has returned is
\* still without it, and OnPublished is called for no generation whose hook has not succeeded,
\* however often publications and hooks fail, results are dropped and the loop is cancelled
\* (live.go: the worker's pending generation, sendResult, handleResult).
THEOREM HooksOrdered == Spec => []HooksInOrder
<1>1. IInv => HooksInOrder
  BY DEF IInv
<1>2. Init /\ [][Next]_vars => []HooksInOrder
  BY <1>1, InitInv, StepInv, PTL
<1> QED
  BY <1>2, PTL DEF Spec

-----------------------------------------------------------------------------
(* SourceScan *)

Versions == [content : Contents, time : Nat]
Entries == [file : Nat, content : Seq(Blocks), time : Nat]
Building == {"open", "read", "check"}
Scanning == {"list", "next"} \cup Building
Scans == [pc : {"idle", "staged"} \cup Scanning, began : Nat, before : Nat, names : SUBSET Names,
          name : Names \cup {""}, expected : Nat, tries : Nat, time : Nat, data : Seq(Blocks)]

ScanTypeOK ==
  /\ files \in Seq(Versions) /\ clock \in Nat /\ subTime \in Nat /\ touched \in Nat /\ since \in Nat
  /\ DOMAIN links \subseteq Names /\ \A n \in DOMAIN links : links[n] \in 1..Len(files)
  /\ scan \in Scans
  /\ DOMAIN built \subseteq Names /\ \A n \in DOMAIN built : built[n] \in Entries
  /\ Len(files) >= 1

\* Nothing is later than the last change, and a scan begins after the one before it.
InTime ==
  /\ subTime <= clock /\ touched <= clock /\ since <= clock
  /\ \A i \in 1..Len(files) : files[i].time <= clock
  /\ scan.began <= clock /\ scan.before <= clock /\ scan.time <= clock
  /\ scan.pc \in Scanning => since <= scan.began

\* Every file is in the history as it is, and no two names lead to one file, save the protected one.
FilesAreKnown ==
  /\ \A i \in 1..Len(files) : <<i, files[i]>> \in contents
  /\ \A m, n \in DOMAIN links : links[m] = links[n] => m = n \/ links[m] = S!Protected

\* What has been read of the file is the beginning of its content, unless it changed.
ReadsOneFile ==
  /\ scan.pc \in Building => scan.name \in scan.names /\ scan.expected \in 1..Len(files)
  /\ scan.pc \notin {"read", "check"} => scan.data = <<>>
  /\ scan.pc \in {"read", "check"} =>
       /\ scan.expected # S!Protected
       /\ files[scan.expected].time = scan.time =>
            /\ Len(scan.data) <= Len(files[scan.expected].content)
            /\ \A i \in 1..Len(scan.data) : scan.data[i] = files[scan.expected].content[i]

\* As long as the directory has its time, it is the one that was listed.
ListsOneDirectory ==
  /\ scan.pc \in Scanning => seen # {}
  /\ scan.pc \in Scanning /\ subTime = scan.before =>
       /\ links \in seen
       /\ scan.pc # "list" => scan.names = S!Selected
       /\ \A n \in DOMAIN built : n \in S!Existing /\ built[n].file = links[n]

Now(n) == [content |-> files[links[n]].content, time |-> files[links[n]].time]
CurrentRoot == [time |-> S!DirectoryTime, entries |-> [n \in S!Selected |-> Now(n)]]

\* As long as no selected path has changed, the commit and the scan show what there is.
ShowsSelection ==
  /\ previous # {} /\ touched <= since =>
       previous = {CurrentRoot} /\ \A n \in S!Selected : links[n] # S!Protected
  /\ scan.pc \in Scanning /\ touched <= scan.began =>
       /\ scan.pc # "list" => scan.names = S!Selected
       /\ \A n \in DOMAIN built :
            /\ n \in S!Selected /\ links[n] # S!Protected
            /\ [content |-> built[n].content, time |-> built[n].time] = Now(n)

ScanInv ==
  /\ ScanTypeOK /\ InTime /\ FilesAreKnown /\ ReadsOneFile /\ ListsOneDirectory /\ ShowsSelection
  /\ S!EntryWasThere /\ S!DirectoryWasThere /\ S!ProtectedStaysOut

\* What every change has in common: it is later than all before it, it leaves a file as it is or
\* gives it a new time, and a directory likewise, and it touches the selection or leaves what is
\* selected as it is.
Edited ==
  /\ clock' = clock + 1 /\ UNCHANGED <<selection, scan, built, uploaded, previous, since>>
  /\ files' \in Seq(Versions) /\ Len(files) <= Len(files')
  /\ \A i \in 1..Len(files) : files'[i] = files[i] \/ files'[i].time = clock + 1
  /\ \A i \in 1..Len(files') : files'[i].time <= clock + 1 /\ <<i, files'[i]>> \in contents'
  /\ contents \subseteq contents'
  /\ DOMAIN links' \subseteq Names /\ \A n \in DOMAIN links' : links'[n] \in 1..Len(files')
  /\ \A m, n \in DOMAIN links' : links'[m] = links'[n] => m = n \/ links'[m] = S!Protected
  /\ \/ UNCHANGED <<links, subTime, seen>>
     \/ subTime' = clock + 1 /\ seen' = IF seen = {} THEN {} ELSE seen \cup {links'}
  /\ \/ touched' = clock + 1
     \/ /\ touched' = touched /\ S!DirectoryTime' = S!DirectoryTime /\ S!Selected' = S!Selected
        /\ \A n \in S!Selected : links'[n] = links[n] /\ (links[n] # S!Protected => files'[links[n]] = files[links[n]])

\* A file is a version that is in the history.
LEMMA FileFacts ==
  ASSUME ScanTypeOK, InTime, FilesAreKnown, NEW i \in 1..Len(files)
  PROVE  /\ files[i] \in Versions /\ files[i].content \in Contents /\ files[i].time \in Nat
         /\ files[i].time <= clock /\ <<i, files[i]>> \in contents
<1>1. files[i] \in Versions
  BY DEF ScanTypeOK
<1>2. files[i].time <= clock
  BY DEF InTime
<1>3. <<i, files[i]>> \in contents
  BY DEF FilesAreKnown
<1> QED
  BY <1>1, <1>2, <1>3 DEF Versions

LEMMA FilesGrow ==
  ASSUME ScanTypeOK, InTime, FilesAreKnown, NEW made \in Versions, made.time = clock + 1,
         files' = Append(files, made), contents' = contents \cup {<<Len(files) + 1, made>>}
  PROVE  /\ files' \in Seq(Versions) /\ Len(files') = Len(files) + 1 /\ Len(files) \in Nat /\ contents \subseteq contents'
         /\ \A i \in 1..Len(files) : files'[i] = files[i]
         /\ \A i \in 1..Len(files') : files'[i].time <= clock + 1 /\ <<i, files'[i]>> \in contents'
<1>1. /\ files' \in Seq(Versions) /\ Len(files') = Len(files) + 1 /\ Len(files) \in Nat
      /\ (\A i \in 1..Len(files) : files'[i] = files[i]) /\ files'[Len(files) + 1] = made
  BY DEF ScanTypeOK
<1>2. ASSUME NEW i \in 1..Len(files') PROVE files'[i].time <= clock + 1 /\ <<i, files'[i]>> \in contents'
  <2>1. CASE i = Len(files) + 1
    BY <1>1, <2>1 DEF ScanTypeOK
  <2>2. CASE i \in 1..Len(files)
    <3>1. files[i].time <= clock /\ files[i].time \in Nat /\ <<i, files[i]>> \in contents
      BY <2>2, FileFacts
    <3>2. files'[i] = files[i] /\ contents \subseteq contents' /\ clock \in Nat
      BY <1>1, <2>2 DEF ScanTypeOK
    <3> QED
      BY <3>1, <3>2
  <2>3. i = Len(files) + 1 \/ i \in 1..Len(files)
    BY <1>1
  <2> QED
    BY <2>1, <2>2, <2>3
<1> QED
  BY <1>1, <1>2

LEMMA FilesChange ==
  ASSUME ScanTypeOK, InTime, FilesAreKnown, NEW made \in Versions, made.time = clock + 1, NEW k \in 1..Len(files),
         files' = [files EXCEPT ![k] = made], contents' = contents \cup {<<k, made>>}
  PROVE  /\ files' \in Seq(Versions) /\ Len(files') = Len(files) /\ Len(files) \in Nat /\ contents \subseteq contents'
         /\ \A i \in 1..Len(files) : files'[i] = IF i = k THEN made ELSE files[i]
         /\ \A i \in 1..Len(files') : files'[i].time <= clock + 1 /\ <<i, files'[i]>> \in contents'
<1>1. /\ files' \in Seq(Versions) /\ Len(files') = Len(files) /\ Len(files) \in Nat
      /\ \A i \in 1..Len(files) : files'[i] = IF i = k THEN made ELSE files[i]
  BY DEF ScanTypeOK
<1>2. ASSUME NEW i \in 1..Len(files') PROVE files'[i].time <= clock + 1 /\ <<i, files'[i]>> \in contents'
  <2>1. files[i].time <= clock /\ files[i].time \in Nat /\ <<i, files[i]>> \in contents
    BY <1>1, FileFacts
  <2> QED
    BY <1>1, <2>1 DEF ScanTypeOK
<1> QED
  BY <1>1, <1>2

\* A file that is written in place gets a new time; other selected files are other files.
LEMMA WriteEdits ==
  ASSUME ScanInv, NEW n \in S!Existing, NEW text \in Contents, S!WriteInPlace(n, text)
  PROVE  Edited
<1> DEFINE made == [content |-> text, time |-> clock + 1]
<1>1. made \in Versions /\ made.time = clock + 1 /\ links[n] \in 1..Len(files) /\ n \in Names
  BY DEF ScanInv, ScanTypeOK, Versions, S!Existing
<1>2. /\ files' = [files EXCEPT ![links[n]] = made] /\ contents' = contents \cup {<<links[n], made>>}
      /\ clock' = clock + 1 /\ UNCHANGED <<selection, scan, built, uploaded, previous, since, links, subTime, seen>>
      /\ touched' = IF n \in selection THEN clock + 1 ELSE touched
  BY DEF S!WriteInPlace, S!Edit
<1> HIDE DEF made
<1>3. /\ files' \in Seq(Versions) /\ Len(files') = Len(files) /\ Len(files) \in Nat /\ contents \subseteq contents'
      /\ \A i \in 1..Len(files) : files'[i] = IF i = links[n] THEN made ELSE files[i]
      /\ \A i \in 1..Len(files') : files'[i].time <= clock + 1 /\ <<i, files'[i]>> \in contents'
  BY <1>1, <1>2, FilesChange DEF ScanInv
<1>4. /\ DOMAIN links' \subseteq Names /\ \A m \in DOMAIN links' : links'[m] \in 1..Len(files')
  BY <1>2, <1>3 DEF ScanInv, ScanTypeOK
<1>5. \A m, k \in DOMAIN links' : links'[m] = links'[k] => m = k \/ links'[m] = S!Protected
  BY <1>2 DEF ScanInv, FilesAreKnown
<1>6. n \notin selection =>
        /\ touched' = touched /\ S!DirectoryTime' = S!DirectoryTime /\ S!Selected' = S!Selected
        /\ \A m \in S!Selected : links'[m] = links[m] /\ (links[m] # S!Protected => files'[links[m]] = files[links[m]])
  <2> SUFFICES ASSUME n \notin selection
               PROVE  /\ touched' = touched /\ S!DirectoryTime' = S!DirectoryTime /\ S!Selected' = S!Selected
                      /\ \A m \in S!Selected : links'[m] = links[m] /\ (links[m] # S!Protected => files'[links[m]] = files[links[m]])
    OBVIOUS
  <2>1. touched' = touched /\ S!DirectoryTime' = S!DirectoryTime /\ S!Selected' = S!Selected
    BY <1>2 DEF S!DirectoryTime, S!Selected, S!Existing
  <2>2. ASSUME NEW m \in S!Selected, links[m] # S!Protected PROVE files'[links[m]] = files[links[m]]
    <3>1. m # n /\ links[m] \in 1..Len(files) /\ m \in DOMAIN links
      BY <2>2 DEF S!Selected, S!Existing, ScanInv, ScanTypeOK
    <3>2. links[m] # links[n]
      BY <2>2, <3>1 DEF S!Existing, ScanInv, FilesAreKnown
    <3> QED
      BY <1>3, <3>1, <3>2
  <2> QED
    BY <1>2, <2>1, <2>2
<1>7. \A i \in 1..Len(files) : files'[i] = files[i] \/ files'[i].time = clock + 1
  BY <1>1, <1>3
<1>8. n \in selection => touched' = clock + 1
  BY <1>2
<1>9. Len(files) <= Len(files')
  BY <1>3
<1> QED
  BY <1>2, <1>3, <1>4, <1>5, <1>6, <1>7, <1>8, <1>9 DEF Edited

\* A directory whose entry n changes gets a new time; other entries stay.
LEMMA RelinkEdits ==
  ASSUME ScanInv, NEW n \in Names, NEW new, S!Relink(n, new), DOMAIN new \subseteq Names, DOMAIN new \ {n} = S!Existing \ {n},
         \A m \in DOMAIN new \ {n} : new[m] = links[m], n \in DOMAIN new => new[n] \in {S!Protected, Len(files) + 1},
         n \in DOMAIN new => new[n] \in 1..Len(files'), Len(files) <= Len(files'),
         files' \in Seq(Versions), contents \subseteq contents',
         \A i \in 1..Len(files) : files'[i] = files[i],
         \A i \in 1..Len(files') : files'[i].time <= clock + 1 /\ <<i, files'[i]>> \in contents'
  PROVE  Edited
<1>1. /\ clock' = clock + 1 /\ UNCHANGED <<selection, scan, built, uploaded, previous, since>>
      /\ links' = new /\ subTime' = clock + 1 /\ seen' = IF seen = {} THEN {} ELSE seen \cup {new}
      /\ touched' = IF n \in selection THEN clock + 1 ELSE touched
  BY DEF S!Relink, S!Edit
<1>2. Len(files) \in Nat /\ Len(files') \in Nat /\ \A m \in S!Existing : links[m] \in 1..Len(files)
  BY DEF ScanInv, ScanTypeOK, S!Existing
<1>3. DOMAIN links' \subseteq Names /\ \A m \in DOMAIN links' : links'[m] \in 1..Len(files')
  BY <1>1, <1>2
<1>4. \A m, k \in DOMAIN links' : links'[m] = links'[k] => m = k \/ links'[m] = S!Protected
  <2> SUFFICES ASSUME NEW m \in DOMAIN new, NEW k \in DOMAIN new, new[m] = new[k], m # k PROVE new[m] = S!Protected
    BY <1>1
  <2>1. CASE m # n /\ k # n
    BY <2>1 DEF ScanInv, FilesAreKnown, S!Existing
  <2>2. CASE m = n
    <3>1. new[k] = links[k] /\ links[k] \in 1..Len(files)
      BY <1>2, <2>2
    <3> QED
      BY <1>2, <2>2, <3>1
  <2>3. CASE k = n
    <3>1. new[m] = links[m] /\ links[m] \in 1..Len(files)
      BY <1>2, <2>3
    <3> QED
      BY <1>2, <2>3, <3>1
  <2> QED
    BY <2>1, <2>2, <2>3
<1>5. n \notin selection =>
        /\ touched' = touched /\ S!DirectoryTime' = S!DirectoryTime /\ S!Selected' = S!Selected
        /\ \A m \in S!Selected : links'[m] = links[m] /\ (links[m] # S!Protected => files'[links[m]] = files[links[m]])
  <2> SUFFICES ASSUME n \notin selection
               PROVE  /\ touched' = touched /\ S!DirectoryTime' = S!DirectoryTime /\ S!Selected' = S!Selected
                      /\ \A m \in S!Selected : links'[m] = links[m] /\ (links[m] # S!Protected => files'[links[m]] = files[links[m]])
    OBVIOUS
  <2>1. touched' = touched /\ selection' = selection /\ selection # Names
    BY <1>1
  <2>2. S!DirectoryTime' = S!DirectoryTime
    BY <2>1 DEF S!DirectoryTime
  <2>3. S!Selected' = S!Selected
    BY <1>1 DEF S!Selected, S!Existing
  <2>4. ASSUME NEW m \in S!Selected PROVE links'[m] = links[m] /\ files'[links[m]] = files[links[m]]
    BY <1>1, <1>2 DEF S!Selected, S!Existing
  <2> QED
    BY <2>1, <2>2, <2>3, <2>4
<1> QED
  BY <1>1, <1>3, <1>4, <1>5 DEF Edited

LEMMA RelinksEdit ==
  ASSUME ScanInv, NEW n \in Names,
         (\E text \in Contents : S!Replace(n, text)) \/ S!MoveProtected(n) \/ (n \in S!Existing /\ S!Remove(n))
  PROVE  Edited
<1>0. /\ S!Existing \subseteq Names /\ Len(files) \in Nat /\ Len(files) >= 1 /\ files \in Seq(Versions) /\ clock \in Nat
      /\ \A i \in 1..Len(files) : files[i].time <= clock + 1 /\ <<i, files[i]>> \in contents
  <2>1. S!Existing \subseteq Names /\ Len(files) \in Nat /\ Len(files) >= 1 /\ files \in Seq(Versions) /\ clock \in Nat
    BY DEF ScanInv, ScanTypeOK, S!Existing
  <2>2. ASSUME NEW i \in 1..Len(files) PROVE files[i].time <= clock + 1 /\ <<i, files[i]>> \in contents
    <3>1. files[i].time <= clock /\ files[i].time \in Nat /\ <<i, files[i]>> \in contents
      BY FileFacts DEF ScanInv
    <3> QED
      BY <2>1, <3>1
  <2> QED
    BY <2>1, <2>2
<1>1. ASSUME NEW text \in Contents, S!Replace(n, text) PROVE Edited
  <2> DEFINE made == [content |-> text, time |-> clock + 1]
             new == [m \in S!Existing \cup {n} |-> IF m = n THEN Len(files) + 1 ELSE links[m]]
  <2>1. made \in Versions /\ made.time = clock + 1
    BY <1>0 DEF Versions
  <2>2. files' = Append(files, made) /\ contents' = contents \cup {<<Len(files) + 1, made>>} /\ S!Relink(n, new)
    BY <1>1 DEF S!Replace
  <2>3. DOMAIN new = S!Existing \cup {n} /\ new[n] = Len(files) + 1 /\ \A m \in DOMAIN new \ {n} : new[m] = links[m]
    OBVIOUS
  <2> HIDE DEF made, new
  <2>4. /\ files' \in Seq(Versions) /\ Len(files') = Len(files) + 1 /\ contents \subseteq contents'
        /\ \A i \in 1..Len(files) : files'[i] = files[i]
        /\ \A i \in 1..Len(files') : files'[i].time <= clock + 1 /\ <<i, files'[i]>> \in contents'
    BY <2>1, <2>2, FilesGrow DEF ScanInv
  <2>5. /\ DOMAIN new \subseteq Names /\ DOMAIN new \ {n} = S!Existing \ {n} /\ new[n] \in 1..Len(files') /\ Len(files) <= Len(files')
    BY <1>0, <2>3, <2>4
  <2> QED
    BY <2>2, <2>3, <2>4, <2>5, RelinkEdits
<1>2. ASSUME S!MoveProtected(n) PROVE Edited
  <2> DEFINE new == [m \in S!Existing \cup {n} |-> IF m = n THEN S!Protected ELSE links[m]]
  <2>1. UNCHANGED <<files, contents>> /\ S!Relink(n, new)
    BY <1>2 DEF S!MoveProtected
  <2>2. DOMAIN new = S!Existing \cup {n} /\ new[n] = S!Protected /\ \A m \in DOMAIN new \ {n} : new[m] = links[m]
    OBVIOUS
  <2> HIDE DEF new
  <2>3. DOMAIN new \subseteq Names /\ DOMAIN new \ {n} = S!Existing \ {n} /\ new[n] \in 1..Len(files')
    BY <1>0, <2>1, <2>2 DEF S!Protected
  <2> QED
    BY <1>0, <2>1, <2>2, <2>3, RelinkEdits
<1>3. ASSUME n \in S!Existing, S!Remove(n) PROVE Edited
  <2> DEFINE new == [m \in S!Existing \ {n} |-> links[m]]
  <2>1. UNCHANGED <<files, contents>> /\ S!Relink(n, new)
    BY <1>3 DEF S!Remove
  <2>2. DOMAIN new = S!Existing \ {n} /\ \A m \in DOMAIN new \ {n} : new[m] = links[m]
    OBVIOUS
  <2> HIDE DEF new
  <2>3. DOMAIN new \subseteq Names /\ DOMAIN new \ {n} = S!Existing \ {n} /\ n \notin DOMAIN new
    BY <1>0, <2>2
  <2> QED
    BY <1>0, <2>1, <2>2, <2>3, RelinkEdits
<1> QED
  BY <1>1, <1>2, <1>3

\* A change keeps the invariant.
LEMMA EditedKeeps ==
  ASSUME ScanInv, Edited
  PROVE  ScanInv'
<1>1. /\ clock' = clock + 1 /\ UNCHANGED <<selection, scan, built, uploaded, previous, since>>
      /\ clock \in Nat /\ subTime \in Nat /\ touched \in Nat /\ since \in Nat /\ scan \in Scans
      /\ Len(files) \in Nat /\ Len(files') \in Nat /\ Len(files) <= Len(files')
  BY DEF ScanInv, ScanTypeOK, Edited
<1>2. subTime' \in {subTime, clock + 1} /\ touched' \in {touched, clock + 1}
  BY DEF Edited
<1>3. ScanTypeOK'
  BY <1>1, <1>2 DEF ScanInv, ScanTypeOK, Edited
<1>4. InTime'
  <2>1. scan.began \in Nat /\ scan.before \in Nat /\ scan.time \in Nat
    BY <1>1 DEF Scans
  <2>2. /\ subTime' <= clock' /\ touched' <= clock' /\ since' <= clock'
        /\ scan'.began <= clock' /\ scan'.before <= clock' /\ scan'.time <= clock'
        /\ (scan'.pc \in Scanning => since' <= scan'.began)
    BY <1>1, <1>2, <2>1 DEF ScanInv, InTime
  <2>3. \A i \in 1..Len(files') : files'[i].time <= clock'
    BY <1>1 DEF Edited
  <2> QED
    BY <2>2, <2>3 DEF InTime
<1>5. FilesAreKnown'
  BY DEF Edited, FilesAreKnown
<1>6. ReadsOneFile'
  <2>1. /\ (scan'.pc \in Building => scan'.name \in scan'.names /\ scan'.expected \in 1..Len(files'))
        /\ (scan'.pc \notin {"read", "check"} => scan'.data = <<>>)
    <3>1. /\ (scan.pc \in Building => scan.name \in scan.names /\ scan.expected \in 1..Len(files))
          /\ (scan.pc \notin {"read", "check"} => scan.data = <<>>)
      BY DEF ScanInv, ReadsOneFile
    <3>2. 1..Len(files) \subseteq 1..Len(files')
      BY <1>1
    <3> QED
      BY <1>1, <3>1, <3>2
  <2>2. ASSUME scan.pc \in {"read", "check"}
        PROVE  /\ scan.expected # S!Protected
               /\ files'[scan.expected].time = scan.time =>
                    /\ Len(scan.data) <= Len(files'[scan.expected].content)
                    /\ \A i \in 1..Len(scan.data) : scan.data[i] = files'[scan.expected].content[i]
    <3>1. scan.expected \in 1..Len(files) /\ scan.time <= clock /\ scan.time \in Nat
      BY <1>1, <2>2 DEF ScanInv, ReadsOneFile, InTime, Building, Scans
    <3>2. files'[scan.expected] = files[scan.expected] \/ files'[scan.expected].time = clock + 1
      BY <3>1 DEF Edited
    <3>3. clock + 1 # scan.time
      BY <1>1, <3>1
    <3> QED
      BY <2>2, <3>2, <3>3 DEF ScanInv, ReadsOneFile
  <2> QED
    BY <1>1, <2>1, <2>2 DEF ReadsOneFile
<1>7. ListsOneDirectory'
  <2>1. scan'.pc \in Scanning => seen' # {}
    BY <1>1 DEF ScanInv, ListsOneDirectory, Edited
  <2>2. CASE UNCHANGED <<links, subTime, seen>>
    BY <1>1, <2>2 DEF ScanInv, ListsOneDirectory, S!Selected, S!Existing
  <2>3. CASE subTime' = clock + 1
    <3>1. scan.before <= clock /\ scan.before \in Nat
      BY <1>1 DEF ScanInv, InTime, Scans
    <3>2. subTime' # scan'.before
      BY <1>1, <2>3, <3>1
    <3> QED
      BY <2>1, <3>2 DEF ListsOneDirectory
  <2> QED
    BY <2>2, <2>3 DEF Edited
<1>8. ShowsSelection'
  <2>1. CASE touched' = clock + 1
    <3>1. since <= clock /\ scan.began <= clock /\ scan.began \in Nat
      BY <1>1 DEF ScanInv, InTime, Scans
    <3>2. ~(touched' <= since') /\ ~(touched' <= scan'.began)
      BY <1>1, <2>1, <3>1
    <3> QED
      BY <3>2 DEF ShowsSelection
  <2>2. CASE /\ touched' = touched /\ S!DirectoryTime' = S!DirectoryTime /\ S!Selected' = S!Selected
             /\ \A n \in S!Selected : links'[n] = links[n] /\ (links[n] # S!Protected => files'[links[n]] = files[links[n]])
    <3>1. ASSUME NEW n \in S!Selected, links[n] # S!Protected PROVE Now(n)' = Now(n)
      BY <2>2, <3>1 DEF Now
    <3>2. (\A n \in S!Selected : links[n] # S!Protected) => CurrentRoot' = CurrentRoot
      <4> SUFFICES ASSUME \A n \in S!Selected : links[n] # S!Protected PROVE CurrentRoot' = CurrentRoot
        OBVIOUS
      <4>1. \A n \in S!Selected : Now(n)' = Now(n)
        BY <3>1
      <4>2. [n \in S!Selected |-> Now(n)]' = [n \in S!Selected |-> Now(n)]
        BY <2>2, <4>1
      <4> QED
        BY <2>2, <4>2 DEF CurrentRoot
    <3>3. previous' # {} /\ touched' <= since' =>
            previous' = {CurrentRoot'} /\ \A n \in S!Selected' : links'[n] # S!Protected
      BY <1>1, <2>2, <3>2 DEF ScanInv, ShowsSelection
    <3>4. scan'.pc \in Scanning /\ touched' <= scan'.began =>
            /\ scan'.pc # "list" => scan'.names = S!Selected'
            /\ \A n \in DOMAIN built' :
                 /\ n \in S!Selected' /\ links'[n] # S!Protected
                 /\ [content |-> built'[n].content, time |-> built'[n].time] = Now(n)'
      BY <1>1, <2>2, <3>1 DEF ScanInv, ShowsSelection
    <3> QED
      BY <3>3, <3>4 DEF ShowsSelection
  <2> QED
    BY <2>1, <2>2 DEF Edited
<1>9. S!EntryWasThere'
  <2>1. contents \subseteq contents'
    BY DEF Edited
  <2> QED
    BY <1>1, <2>1 DEF ScanInv, S!EntryWasThere
<1>10. S!DirectoryWasThere'
  <2>1. seen \subseteq seen'
    BY DEF Edited
  <2> QED
    BY <1>1, <2>1 DEF ScanInv, S!DirectoryWasThere, S!At
<1>11. S!ProtectedStaysOut'
  BY <1>1 DEF ScanInv, S!ProtectedStaysOut
<1> QED
  BY <1>3, <1>4, <1>5, <1>6, <1>7, <1>8, <1>9, <1>10, <1>11 DEF ScanInv

-----------------------------------------------------------------------------
(* The scan *)

\* The records of a scan.
LEMMA IdleFacts ==
  /\ S!Idle \in Scans /\ S!Idle.pc = "idle" /\ S!Idle.began = 0 /\ S!Idle.before = 0 /\ S!Idle.time = 0 /\ S!Idle.data = <<>>
  /\ DOMAIN S!Unbuilt = {}
<1>1. <<>> \in Seq(Blocks)
  OBVIOUS
<1> QED
  BY <1>1 DEF S!Idle, Scans, Scanning, Building, S!Unbuilt

\* A step that leaves the source alone has to keep what the invariant says of the scan.
LEMMA ScanStepKeeps ==
  ASSUME ScanInv, UNCHANGED <<links, files, subTime, clock, selection, contents, touched>>,
         scan' \in Scans, DOMAIN built' \subseteq Names, \A n \in DOMAIN built' : built'[n] \in Entries,
         since' \in Nat, since' <= clock, scan'.began <= clock, scan'.before <= clock, scan'.time <= clock,
         scan'.pc \in Scanning => since' <= scan'.began,
         ReadsOneFile', ListsOneDirectory', ShowsSelection', S!EntryWasThere', S!DirectoryWasThere', S!ProtectedStaysOut'
  PROVE  ScanInv'
<1>1. ScanTypeOK'
  BY DEF ScanInv, ScanTypeOK
<1>2. InTime'
  BY DEF ScanInv, InTime
<1>3. FilesAreKnown'
  BY DEF ScanInv, FilesAreKnown
<1> QED
  BY <1>1, <1>2, <1>3 DEF ScanInv

\* A scan that is over leaves nothing behind but what was put in the store.
LEMMA OverKeeps ==
  ASSUME ScanInv, scan' = S!Idle, built' = S!Unbuilt, UNCHANGED <<links, files, subTime, clock, selection, contents, touched>>,
         UNCHANGED <<uploaded, previous, since>>
  PROVE  ScanInv'
<1>1. clock \in Nat /\ since \in Nat /\ since <= clock
  BY DEF ScanInv, ScanTypeOK, InTime
<1>2. scan'.pc = "idle" /\ scan' \in Scans /\ DOMAIN built' = {} /\ scan'.data = <<>>
  BY IdleFacts
<1>3. scan'.began <= clock /\ scan'.before <= clock /\ scan'.time <= clock
  BY <1>1, IdleFacts
<1>4. ReadsOneFile' /\ ListsOneDirectory'
  BY <1>2 DEF ReadsOneFile, ListsOneDirectory, Scanning, Building
<1>5. ShowsSelection'
  BY <1>2 DEF ScanInv, ShowsSelection, Scanning, Building, CurrentRoot, S!DirectoryTime, S!Selected, S!Existing, Now
<1>6. S!EntryWasThere' /\ S!DirectoryWasThere' /\ S!ProtectedStaysOut'
  BY <1>2 DEF ScanInv, S!EntryWasThere, S!DirectoryWasThere, S!ProtectedStaysOut, S!At
<1>7. scan'.pc \notin Scanning
  BY <1>2 DEF Scanning, Building
<1> QED
  BY <1>1, <1>2, <1>3, <1>4, <1>5, <1>6, <1>7, ScanStepKeeps

LEMMA BeginScanKeeps ==
  ASSUME ScanInv, S!Begin
  PROVE  ScanInv'
<1>1. /\ scan.pc = "idle" /\ built' = S!Unbuilt /\ seen' = {links}
      /\ scan' = [scan EXCEPT !.pc = "list", !.began = clock, !.before = subTime]
      /\ UNCHANGED <<links, files, subTime, clock, selection, contents, touched>> /\ UNCHANGED <<uploaded, previous, since>>
  BY DEF S!Begin, S!At, S!source
<1>2. scan \in Scans /\ clock \in Nat /\ subTime \in Nat /\ since \in Nat /\ since <= clock /\ subTime <= clock
      /\ scan.time <= clock /\ scan.data = <<>>
  BY <1>1 DEF ScanInv, ScanTypeOK, InTime, ReadsOneFile
<1>3. /\ scan' \in Scans /\ scan'.pc = "list" /\ scan'.began = clock /\ scan'.before = subTime
      /\ scan'.time = scan.time /\ scan'.data = <<>>
  BY <1>1, <1>2 DEF Scans, Scanning, Building
<1>4. DOMAIN built' = {}
  BY <1>1, IdleFacts
<1>5. ReadsOneFile' /\ ListsOneDirectory'
  BY <1>1, <1>3, <1>4 DEF ReadsOneFile, ListsOneDirectory, Building
<1>6. ShowsSelection'
  BY <1>1, <1>3, <1>4 DEF ScanInv, ShowsSelection, CurrentRoot, S!DirectoryTime, S!Selected, S!Existing, Now
<1>7. S!EntryWasThere' /\ S!DirectoryWasThere' /\ S!ProtectedStaysOut'
  BY <1>1, <1>3, <1>4 DEF ScanInv, S!EntryWasThere, S!DirectoryWasThere, S!ProtectedStaysOut, S!At
<1>8. scan'.began <= clock /\ scan'.before <= clock /\ scan'.time <= clock /\ since' <= scan'.began
  BY <1>1, <1>2, <1>3
<1> QED
  BY <1>1, <1>2, <1>3, <1>4, <1>5, <1>6, <1>7, <1>8, ScanStepKeeps

\* A step of the scan at a file: the directory, the entries and the commit stay as they are.
LEMMA FileStepKeeps ==
  ASSUME ScanInv, scan.pc \in Scanning \ {"list"}, scan' \in Scans, scan'.pc \in Scanning \ {"list"},
         scan'.began = scan.began, scan'.before = scan.before, scan'.names = scan.names, scan'.time <= clock,
         UNCHANGED <<links, files, subTime, clock, selection, contents, touched>>, UNCHANGED <<built, previous, since, seen>>,
         ReadsOneFile', S!ProtectedStaysOut'
  PROVE  ScanInv'
<1>1. ListsOneDirectory' /\ ShowsSelection'
  <2>1. ListsOneDirectory'
    BY DEF ScanInv, ListsOneDirectory, S!Selected, S!Existing
  <2>2. ShowsSelection'
    BY DEF ScanInv, ShowsSelection, CurrentRoot, S!DirectoryTime, S!Selected, S!Existing, Now
  <2> QED
    BY <2>1, <2>2
<1>2. S!EntryWasThere'
  BY DEF ScanInv, S!EntryWasThere
<1>3. scan'.pc # "staged"
  BY DEF Scanning, Building
<1>4. S!DirectoryWasThere'
  BY <1>3 DEF S!DirectoryWasThere, S!At
<1>5. /\ DOMAIN built' \subseteq Names /\ (\A n \in DOMAIN built' : built'[n] \in Entries)
      /\ since' \in Nat /\ since' <= clock
  BY DEF ScanInv, ScanTypeOK, InTime
<1>6. scan'.began <= clock /\ scan'.before <= clock /\ since' <= scan'.began
  BY DEF ScanInv, InTime
<1> QED
  BY <1>1, <1>2, <1>4, <1>5, <1>6, ScanStepKeeps

LEMMA ListKeeps ==
  ASSUME ScanInv, S!List
  PROVE  ScanInv'
<1>1. scan.pc = "list" /\ UNCHANGED <<links, files, subTime, clock, selection, contents, touched>>
      /\ UNCHANGED <<uploaded, previous, since>>
  BY DEF S!List, S!At, S!source, S!history, S!Fails
<1>2. CASE scan' = [scan EXCEPT !.pc = "next", !.names = S!Selected] /\ UNCHANGED <<built, S!history>>
  <2>1. scan \in Scans /\ S!Selected \subseteq Names
    BY DEF ScanInv, ScanTypeOK, S!Selected, S!Existing
  <2>2. /\ scan' \in Scans /\ scan'.pc = "next" /\ scan'.names = S!Selected /\ scan'.began = scan.began
        /\ scan'.before = scan.before /\ scan'.time = scan.time /\ scan'.data = scan.data
    BY <1>2, <2>1 DEF Scans, Scanning, Building
  <2>3. UNCHANGED <<built, seen>>
    BY <1>2 DEF S!history
  <2>4. ReadsOneFile'
    BY <1>1, <2>2 DEF ScanInv, ReadsOneFile, Building
  <2>5. ListsOneDirectory'
    BY <1>1, <2>2, <2>3 DEF ScanInv, ListsOneDirectory, Scanning, S!Selected, S!Existing
  <2>6. ShowsSelection'
    BY <1>1, <2>2, <2>3 DEF ScanInv, ShowsSelection, Scanning, CurrentRoot, S!DirectoryTime, S!Selected, S!Existing, Now
  <2>7. S!EntryWasThere' /\ S!DirectoryWasThere' /\ S!ProtectedStaysOut'
    BY <1>1, <2>2, <2>3 DEF ScanInv, S!EntryWasThere, S!DirectoryWasThere, S!ProtectedStaysOut, S!At
  <2>8. /\ scan'.began <= clock /\ scan'.before <= clock /\ scan'.time <= clock /\ since' <= scan'.began
        /\ since' \in Nat /\ since' <= clock
        /\ DOMAIN built' \subseteq Names /\ (\A n \in DOMAIN built' : built'[n] \in Entries)
    BY <1>1, <2>2, <2>3 DEF ScanInv, ScanTypeOK, InTime, Scanning
  <2> QED
    BY <1>1, <2>2, <2>4, <2>5, <2>6, <2>7, <2>8, ScanStepKeeps
<1>3. CASE S!Fails
  BY <1>1, <1>3, OverKeeps DEF S!Fails
<1> QED
  BY <1>2, <1>3 DEF S!List

LEMMA InspectKeeps ==
  ASSUME ScanInv, NEW n \in Names, S!Inspect(n)
  PROVE  ScanInv'
<1>1. scan.pc = "next" /\ n \in scan.names /\ UNCHANGED <<links, files, subTime, clock, selection, contents, touched>>
      /\ UNCHANGED <<uploaded, previous, since>>
  BY DEF S!Inspect, S!At, S!source, S!history, S!Fails
<1>2. CASE n \in S!Existing /\ scan' = [scan EXCEPT !.pc = "open", !.name = n, !.expected = links[n]] /\ UNCHANGED <<built, S!history>>
  <2>1. scan \in Scans /\ links[n] \in 1..Len(files) /\ Len(files) \in Nat /\ scan.time <= clock /\ scan.data = <<>>
    BY <1>1, <1>2 DEF ScanInv, ScanTypeOK, S!Existing, InTime, ReadsOneFile
  <2>2. /\ scan' \in Scans /\ scan'.pc = "open" /\ scan'.name = n /\ scan'.expected = links[n] /\ scan'.names = scan.names
        /\ scan'.began = scan.began /\ scan'.before = scan.before /\ scan'.time = scan.time /\ scan'.data = scan.data
    <3>1. links[n] \in Nat
      BY <2>1
    <3>2. scan' = [scan EXCEPT !.pc = "open", !.name = n, !.expected = links[n]]
      BY <1>2
    <3> QED
      BY <2>1, <3>1, <3>2 DEF Scans, Scanning, Building
  <2>3. UNCHANGED <<built, seen>>
    BY <1>2 DEF S!history
  <2>4. ReadsOneFile' /\ S!ProtectedStaysOut'
    BY <1>1, <2>1, <2>2 DEF ScanInv, ReadsOneFile, S!ProtectedStaysOut
  <2>5. scan.pc \in Scanning \ {"list"} /\ scan'.pc \in Scanning \ {"list"} /\ scan'.time <= clock
    BY <1>1, <2>1, <2>2 DEF Scanning, Building
  <2> QED
    BY <1>1, <2>2, <2>3, <2>4, <2>5, FileStepKeeps
<1>3. CASE S!Fails
  BY <1>1, <1>3, OverKeeps DEF S!Fails
<1> QED
  BY <1>2, <1>3 DEF S!Inspect

LEMMA OpenFileKeeps ==
  ASSUME ScanInv, S!OpenFile
  PROVE  ScanInv'
<1>1. scan.pc = "open" /\ UNCHANGED <<links, files, subTime, clock, selection, contents, touched>>
      /\ UNCHANGED <<uploaded, previous, since>>
  BY DEF S!OpenFile, S!At, S!source, S!history, S!Fails
<1>2. CASE /\ S!NotProtected(scan.expected) /\ UNCHANGED <<built, S!history>>
           /\ scan' = [scan EXCEPT !.pc = "read", !.tries = @ + 1, !.time = files[scan.expected].time]
  <2>1. /\ scan \in Scans /\ scan.expected \in 1..Len(files) /\ scan.name \in scan.names /\ scan.data = <<>>
    BY <1>1 DEF ScanInv, ScanTypeOK, ReadsOneFile, Building
  <2>2. files[scan.expected].time \in Nat /\ files[scan.expected].time <= clock /\ files[scan.expected].content \in Seq(Blocks)
    BY <2>1, FileFacts, SourceAssumption DEF ScanInv
  <2>3. /\ scan' \in Scans /\ scan'.pc = "read" /\ scan'.name = scan.name /\ scan'.expected = scan.expected
        /\ scan'.names = scan.names /\ scan'.began = scan.began /\ scan'.before = scan.before
        /\ scan'.time = files[scan.expected].time /\ scan'.data = <<>>
    <3>0. scan.tries \in Nat
      BY <2>1 DEF Scans
    <3>1. scan.tries + 1 \in Nat
      BY <3>0
    <3>2. scan' = [scan EXCEPT !.pc = "read", !.tries = scan.tries + 1, !.time = files[scan.expected].time]
      BY <1>2
    <3> QED
      BY <2>1, <2>2, <3>1, <3>2 DEF Scans, Scanning, Building
  <2>4. UNCHANGED <<built, seen>> /\ scan.expected # S!Protected
    BY <1>2 DEF S!history, S!NotProtected
  <2>5. Len(scan'.data) = 0 /\ Len(files[scan.expected].content) \in Nat
    BY <2>2, <2>3
  <2>6. ReadsOneFile'
    BY <1>1, <2>1, <2>3, <2>4, <2>5 DEF ReadsOneFile, Building
  <2>7. S!ProtectedStaysOut'
    BY <1>1 DEF ScanInv, S!ProtectedStaysOut
  <2>8. scan.pc \in Scanning \ {"list"} /\ scan'.pc \in Scanning \ {"list"} /\ scan'.time <= clock
    BY <1>1, <2>2, <2>3 DEF Scanning, Building
  <2> QED
    BY <1>1, <2>3, <2>4, <2>6, <2>7, <2>8, FileStepKeeps
<1>3. CASE S!Fails
  BY <1>1, <1>3, OverKeeps DEF S!Fails
<1> QED
  BY <1>2, <1>3 DEF S!OpenFile

\* Each block continues what was read, as long as the file keeps its time.
LEMMA ReadBlockKeeps ==
  ASSUME ScanInv, S!ReadBlock
  PROVE  ScanInv'
<1> DEFINE text == files[scan.expected].content
           next == Len(scan.data) + 1
<1>1. /\ scan.pc = "read" /\ UNCHANGED <<links, files, subTime, clock, selection, contents, touched>>
      /\ UNCHANGED <<built, previous, since, seen>>
      /\ \/ /\ next <= Len(text) /\ scan' = [scan EXCEPT !.data = Append(@, text[next])]
            /\ uploaded' = uploaded \cup {<<scan.expected, text[next]>>}
         \/ scan' = [scan EXCEPT !.pc = "check"] /\ UNCHANGED uploaded
  BY DEF S!ReadBlock, S!At, S!source, S!history
<1>2. /\ scan \in Scans /\ scan.expected \in 1..Len(files) /\ scan.name \in scan.names /\ scan.time <= clock
      /\ scan.expected # S!Protected /\ scan.data \in Seq(Blocks)
  BY <1>1 DEF ScanInv, ScanTypeOK, ReadsOneFile, Building, InTime, Scans
<1>3. text \in Seq(Blocks) /\ Len(text) \in Nat /\ Len(scan.data) \in Nat
  <2>1. text \in Contents
    BY <1>2, FileFacts DEF ScanInv
  <2> QED
    BY <1>2, <2>1, SourceAssumption
<1>4. files[scan.expected].time = scan.time =>
        Len(scan.data) <= Len(text) /\ \A i \in 1..Len(scan.data) : scan.data[i] = text[i]
  BY <1>1 DEF ScanInv, ReadsOneFile
<1> HIDE DEF text
<1>5. CASE next <= Len(text) /\ scan' = [scan EXCEPT !.data = Append(@, text[next])]
           /\ uploaded' = uploaded \cup {<<scan.expected, text[next]>>}
  <2> DEFINE data == Append(scan.data, text[next])
  <2>1. text[next] \in Blocks
    BY <1>3, <1>5
  <2>2. /\ data \in Seq(Blocks) /\ Len(data) = next /\ data[next] = text[next]
        /\ \A i \in 1..Len(scan.data) : data[i] = scan.data[i]
    BY <1>2, <1>3, <2>1
  <2> HIDE DEF data
  <2>3. /\ scan' \in Scans /\ scan'.pc = "read" /\ scan'.name = scan.name /\ scan'.expected = scan.expected
        /\ scan'.names = scan.names /\ scan'.began = scan.began /\ scan'.before = scan.before
        /\ scan'.time = scan.time /\ scan'.data = data
    BY <1>1, <1>2, <1>5, <2>2 DEF Scans, data
  <2>4. files[scan.expected].time = scan.time =>
          Len(data) <= Len(text) /\ \A i \in 1..Len(data) : data[i] = text[i]
    <3> SUFFICES ASSUME files[scan.expected].time = scan.time
                 PROVE  Len(data) <= Len(text) /\ \A i \in 1..Len(data) : data[i] = text[i]
      OBVIOUS
    <3>1. ASSUME NEW i \in 1..next PROVE data[i] = text[i]
      <4>1. CASE i = next
        BY <2>2, <4>1
      <4>2. CASE i \in 1..Len(scan.data)
        BY <1>4, <2>2, <4>2
      <4> QED
        BY <1>3, <4>1, <4>2
    <3> QED
      BY <1>5, <2>2, <3>1
  <2>5. ReadsOneFile'
    BY <1>1, <1>2, <2>3, <2>4 DEF ReadsOneFile, Building, text
  <2>6. S!ProtectedStaysOut'
    BY <1>2, <1>5 DEF ScanInv, S!ProtectedStaysOut
  <2>7. scan.pc \in Scanning \ {"list"} /\ scan'.pc \in Scanning \ {"list"} /\ scan'.time <= clock
    BY <1>1, <1>2, <2>3 DEF Scanning, Building
  <2> QED
    BY <1>1, <2>3, <2>5, <2>6, <2>7, FileStepKeeps
<1>6. CASE scan' = [scan EXCEPT !.pc = "check"] /\ UNCHANGED uploaded
  <2>1. /\ scan' \in Scans /\ scan'.pc = "check" /\ scan'.name = scan.name /\ scan'.expected = scan.expected
        /\ scan'.names = scan.names /\ scan'.began = scan.began /\ scan'.before = scan.before
        /\ scan'.time = scan.time /\ scan'.data = scan.data
    BY <1>2, <1>6 DEF Scans, Scanning, Building
  <2>2. ReadsOneFile'
    BY <1>1, <1>2, <1>4, <2>1 DEF ReadsOneFile, Building, text
  <2>3. S!ProtectedStaysOut'
    BY <1>6 DEF ScanInv, S!ProtectedStaysOut
  <2>4. scan.pc \in Scanning \ {"list"} /\ scan'.pc \in Scanning \ {"list"} /\ scan'.time <= clock
    BY <1>1, <1>2, <2>1 DEF Scanning, Building
  <2> QED
    BY <1>1, <2>1, <2>2, <2>3, <2>4, FileStepKeeps
<1> QED
  BY <1>1, <1>5, <1>6

\* A file that kept its time was read as it was, and it is where the path leads.
LEMMA StableFacts ==
  ASSUME ScanInv, scan.pc = "check", S!Stable
  PROVE  /\ scan.expected \in Nat /\ scan.data \in Seq(Blocks) /\ scan.time \in Nat /\ scan.expected # S!Protected
         /\ files[scan.expected] = [content |-> scan.data, time |-> scan.time]
         /\ <<scan.expected, [content |-> scan.data, time |-> scan.time]>> \in contents
         /\ scan.name \in S!Existing /\ links[scan.name] = scan.expected /\ scan.name \in scan.names
<1>1. /\ scan \in Scans /\ scan.expected \in 1..Len(files) /\ scan.name \in scan.names /\ scan.expected # S!Protected
  BY DEF ScanInv, ScanTypeOK, ReadsOneFile, Building
<1>2. /\ files[scan.expected] \in Versions /\ files[scan.expected].content \in Contents
      /\ <<scan.expected, files[scan.expected]>> \in contents
  BY <1>1, FileFacts DEF ScanInv
<1>3. /\ files[scan.expected].time = scan.time /\ Len(scan.data) = Len(files[scan.expected].content)
      /\ scan.name \in S!Existing /\ links[scan.name] = scan.expected
  BY DEF S!Stable
<1>4. \A i \in 1..Len(scan.data) : scan.data[i] = files[scan.expected].content[i]
  BY <1>3 DEF ScanInv, ReadsOneFile
<1>5. scan.data \in Seq(Blocks) /\ files[scan.expected].content \in Seq(Blocks) /\ scan.time \in Nat /\ scan.expected \in Nat
  BY <1>1, <1>2, SourceAssumption DEF Scans
<1>6. scan.data = files[scan.expected].content
  BY <1>3, <1>4, <1>5
<1>7. files[scan.expected] = [content |-> scan.data, time |-> scan.time]
  BY <1>2, <1>3, <1>6 DEF Versions
<1> QED
  BY <1>1, <1>2, <1>3, <1>5, <1>7

LEMMA CheckFileKeeps ==
  ASSUME ScanInv, S!CheckFile
  PROVE  ScanInv'
<1>1. scan.pc = "check" /\ UNCHANGED <<links, files, subTime, clock, selection, contents, touched>>
      /\ UNCHANGED <<uploaded, previous, since>>
  BY DEF S!CheckFile, S!At, S!source, S!history, S!Fails
<1>2. /\ scan \in Scans /\ scan.expected \in 1..Len(files) /\ scan.name \in scan.names /\ scan.time <= clock
      /\ scan.began <= clock /\ scan.before <= clock /\ since <= scan.began /\ since \in Nat /\ since <= clock /\ clock \in Nat
  BY <1>1 DEF ScanInv, ScanTypeOK, ReadsOneFile, Building, InTime, Scanning
<1>3. CASE S!Stable /\ UNCHANGED S!history
           /\ built' = [n \in DOMAIN built \cup {scan.name} |->
                          IF n = scan.name
                          THEN [file |-> scan.expected, content |-> scan.data, time |-> scan.time]
                          ELSE built[n]]
           /\ scan' = [S!Idle EXCEPT !.pc = "next", !.began = scan.began, !.before = scan.before, !.names = scan.names]
  <2> DEFINE entry == [file |-> scan.expected, content |-> scan.data, time |-> scan.time]
  <2>1. /\ entry \in Entries /\ entry.file = scan.expected /\ entry.content = scan.data /\ entry.time = scan.time
    BY <1>1, <1>3, StableFacts DEF Entries
  <2>2. /\ DOMAIN built' = DOMAIN built \cup {scan.name} /\ built'[scan.name] = entry
        /\ \A n \in DOMAIN built' : n # scan.name => n \in DOMAIN built /\ built'[n] = built[n]
    BY <1>3
  <2> HIDE DEF entry
  <2>3. /\ scan' \in Scans /\ scan'.pc = "next" /\ scan'.began = scan.began /\ scan'.before = scan.before
        /\ scan'.names = scan.names /\ scan'.time = 0 /\ scan'.data = <<>>
    BY <1>2, <1>3, IdleFacts DEF Scans, Scanning, Building
  <2>4. seen' = seen
    BY <1>3 DEF S!history
  <2>5. DOMAIN built' \subseteq Names /\ \A n \in DOMAIN built' : built'[n] \in Entries
    BY <1>2, <2>1, <2>2 DEF ScanInv, ScanTypeOK, Scans
  <2>6. ReadsOneFile'
    BY <2>3 DEF ReadsOneFile, Building
  <2>7. ListsOneDirectory'
    <3>1. scan.pc \in Scanning /\ scan.pc # "list"
      BY <1>1 DEF Scanning, Building
    <3>2. subTime = scan.before =>
            links \in seen /\ scan.names = S!Selected /\ \A n \in DOMAIN built : n \in S!Existing /\ built[n].file = links[n]
      BY <3>1 DEF ScanInv, ListsOneDirectory
    <3>3. seen # {}
      BY <3>1 DEF ScanInv, ListsOneDirectory
    <3>4. S!Existing' = S!Existing /\ S!Selected' = S!Selected
      BY <1>1 DEF S!Existing, S!Selected
    <3>5. scan.name \in S!Existing /\ links[scan.name] = entry.file
      BY <1>1, <1>3, <2>1, StableFacts
    <3>6. subTime = scan.before => \A n \in DOMAIN built' : n \in S!Existing /\ built'[n].file = links[n]
      BY <2>2, <3>2, <3>5
    <3> QED
      BY <1>1, <2>3, <2>4, <3>2, <3>3, <3>4, <3>6 DEF ListsOneDirectory
  <2>8. ShowsSelection'
    <3>1. scan.pc \in Scanning /\ scan.pc # "list"
      BY <1>1 DEF Scanning, Building
    <3>2. S!Existing' = S!Existing /\ S!Selected' = S!Selected /\ CurrentRoot' = CurrentRoot /\ \A n : Now(n)' = Now(n)
      BY <1>1 DEF S!Existing, S!Selected, CurrentRoot, S!DirectoryTime, Now
    <3>3. touched <= scan.began =>
            /\ scan.names = S!Selected
            /\ \A n \in DOMAIN built :
                 n \in S!Selected /\ links[n] # S!Protected /\ [content |-> built[n].content, time |-> built[n].time] = Now(n)
      BY <3>1 DEF ScanInv, ShowsSelection
    <3>4. /\ links[scan.name] # S!Protected /\ scan.name \in scan.names
          /\ [content |-> entry.content, time |-> entry.time] = Now(scan.name)
      BY <1>1, <1>3, <2>1, StableFacts DEF Now
    <3>5. touched <= scan.began =>
            \A n \in DOMAIN built' :
              n \in S!Selected /\ links[n] # S!Protected /\ [content |-> built'[n].content, time |-> built'[n].time] = Now(n)
      BY <2>2, <3>3, <3>4
    <3>6. previous # {} /\ touched <= since => previous = {CurrentRoot} /\ \A n \in S!Selected : links[n] # S!Protected
      BY DEF ScanInv, ShowsSelection
    <3> QED
      BY <1>1, <2>3, <3>2, <3>3, <3>5, <3>6 DEF ShowsSelection
  <2>9. S!EntryWasThere'
    <3>1. <<entry.file, [content |-> entry.content, time |-> entry.time]>> \in contents
      BY <1>1, <1>3, <2>1, StableFacts
    <3> QED
      BY <1>1, <2>2, <3>1 DEF ScanInv, S!EntryWasThere
  <2>10. S!DirectoryWasThere' /\ S!ProtectedStaysOut'
    BY <1>1, <2>3 DEF ScanInv, S!DirectoryWasThere, S!ProtectedStaysOut, S!At
  <2>11. scan'.began <= clock /\ scan'.before <= clock /\ scan'.time <= clock /\ since' <= scan'.began
    BY <1>1, <1>2, <2>3
  <2> QED
    BY <1>1, <1>2, <2>3, <2>5, <2>6, <2>7, <2>8, <2>9, <2>10, <2>11, ScanStepKeeps
<1>4. CASE scan' = [scan EXCEPT !.pc = "open", !.time = 0, !.data = <<>>] /\ UNCHANGED <<built, S!history>>
  <2>0. <<>> \in Seq(Blocks)
    OBVIOUS
  <2>1. /\ scan' \in Scans /\ scan'.pc = "open" /\ scan'.name = scan.name /\ scan'.expected = scan.expected
        /\ scan'.names = scan.names /\ scan'.began = scan.began /\ scan'.before = scan.before
        /\ scan'.time = 0 /\ scan'.data = <<>>
    BY <1>2, <1>4, <2>0 DEF Scans, Scanning, Building
  <2>2. ReadsOneFile'
    BY <1>1, <1>2, <2>1 DEF ReadsOneFile
  <2>3. S!ProtectedStaysOut' /\ UNCHANGED <<built, seen>>
    BY <1>1, <1>4 DEF ScanInv, S!ProtectedStaysOut, S!history
  <2>4. scan.pc \in Scanning \ {"list"} /\ scan'.pc \in Scanning \ {"list"} /\ scan'.time <= clock
    BY <1>1, <1>2, <2>1 DEF Scanning, Building
  <2> QED
    BY <1>1, <2>1, <2>2, <2>3, <2>4, FileStepKeeps
<1>5. CASE S!Fails
  BY <1>1, <1>5, OverKeeps DEF S!Fails
<1> QED
  BY <1>3, <1>4, <1>5 DEF S!CheckFile

\* What a finished scan hashes to, if no selected path changed meanwhile.
LEMMA FinishedRoot ==
  ASSUME ScanInv, scan.pc = "next", scan.names = DOMAIN built, touched <= scan.began
  PROVE  S!Root = CurrentRoot /\ \A n \in S!Selected : links[n] # S!Protected
<1>1. /\ DOMAIN built = S!Selected
      /\ \A n \in S!Selected : links[n] # S!Protected /\ [content |-> built[n].content, time |-> built[n].time] = Now(n)
  BY DEF ScanInv, ShowsSelection, Scanning
<1>2. [n \in DOMAIN built |-> [content |-> built[n].content, time |-> built[n].time]] = [n \in S!Selected |-> Now(n)]
  BY <1>1
<1> QED
  BY <1>1, <1>2 DEF S!Root, CurrentRoot

LEMMA FinishKeeps ==
  ASSUME ScanInv, S!Finish
  PROVE  ScanInv'
<1>1. scan.pc = "next" /\ scan.names = DOMAIN built /\ UNCHANGED <<links, files, subTime, clock, selection, contents, touched>>
      /\ UNCHANGED uploaded
  BY DEF S!Finish, S!At, S!source, S!history, S!Fails
<1>2. CASE S!SameDirectory /\ previous' = {S!Root} /\ since' = (IF S!Root \in previous THEN since ELSE scan.began)
           /\ scan' = [S!Idle EXCEPT !.pc = "staged", !.names = scan.names] /\ UNCHANGED <<built, S!history>>
  <2>1. /\ scan \in Scans /\ scan.began <= clock /\ since \in Nat /\ since <= clock /\ clock \in Nat
    BY DEF ScanInv, ScanTypeOK, InTime
  <2>2. /\ scan' \in Scans /\ scan'.pc = "staged" /\ scan'.began = 0 /\ scan'.before = 0 /\ scan'.time = 0 /\ scan'.data = <<>>
    BY <1>2, <2>1, IdleFacts DEF Scans
  <2>3. UNCHANGED <<built, seen>>
    BY <1>2 DEF S!history
  <2>4. since' \in Nat /\ since' <= clock
    BY <1>2, <2>1 DEF Scans
  <2>5. scan'.pc \notin Scanning /\ scan'.pc \notin Building
    BY <2>2 DEF Scanning, Building
  <2>6. ReadsOneFile' /\ ListsOneDirectory'
    BY <2>2, <2>5 DEF ReadsOneFile, ListsOneDirectory
  <2>7. ShowsSelection'
    <3>1. S!Selected' = S!Selected /\ CurrentRoot' = CurrentRoot
      BY <1>1 DEF S!Existing, S!Selected, CurrentRoot, S!DirectoryTime, Now
    <3>2. ASSUME touched <= since' PROVE previous' = {CurrentRoot} /\ \A n \in S!Selected : links[n] # S!Protected
      <4>1. CASE S!Root \in previous
        BY <1>2, <3>2, <4>1 DEF ScanInv, ShowsSelection
      <4>2. CASE S!Root \notin previous
        BY <1>1, <1>2, <3>2, <4>2, FinishedRoot
      <4> QED
        BY <4>1, <4>2
    <3> QED
      BY <1>1, <2>5, <3>1, <3>2 DEF ShowsSelection
  <2>8. S!DirectoryWasThere'
    <3>1. /\ links \in seen /\ DOMAIN built = S!Existing \cap selection
          /\ \A n \in DOMAIN built : links[n] = built[n].file
      BY <1>1, <1>2 DEF ScanInv, ListsOneDirectory, S!SameDirectory, Scanning, S!Selected
    <3> QED
      BY <1>1, <2>3, <3>1 DEF S!DirectoryWasThere, S!Existing
  <2>9. S!EntryWasThere' /\ S!ProtectedStaysOut'
    BY <1>1, <2>3 DEF ScanInv, S!EntryWasThere, S!ProtectedStaysOut
  <2>10. /\ DOMAIN built' \subseteq Names /\ (\A n \in DOMAIN built' : built'[n] \in Entries)
         /\ scan'.began <= clock /\ scan'.before <= clock /\ scan'.time <= clock
    BY <2>1, <2>2, <2>3 DEF ScanInv, ScanTypeOK
  <2> QED
    BY <1>1, <2>2, <2>4, <2>5, <2>6, <2>7, <2>8, <2>9, <2>10, ScanStepKeeps
<1>3. CASE S!Fails /\ UNCHANGED <<previous, since>>
  BY <1>1, <1>3, OverKeeps DEF S!Fails
<1> QED
  BY <1>2, <1>3 DEF S!Finish

LEMMA RestKeeps ==
  ASSUME ScanInv, S!Rest
  PROVE  ScanInv'
BY OverKeeps DEF S!Rest, S!source

-----------------------------------------------------------------------------
(* The theorems *)

LEMMA ScanInit == S!Init => ScanInv
<1> SUFFICES ASSUME S!Init PROVE ScanInv
  OBVIOUS
<1> DEFINE first == [content |-> S!First, time |-> 0]
<1>1. FirstFiles \in Nat /\ FirstFiles >= 1 /\ S!First \in Contents
  BY SourceAssumption DEF S!First
<1>2. first \in Versions /\ first.time = 0
  BY <1>1 DEF Versions
<1> HIDE DEF first
<1>3. files = [i \in 1..FirstFiles |-> first]
  BY DEF S!Init, first
<1>4. links \in [Names -> 2..FirstFiles] /\ \A m, n \in Names : links[m] = links[n] => m = n
  BY SourceAssumption DEF S!Init
<1>5. /\ files \in Seq(Versions) /\ Len(files) = FirstFiles /\ \A i \in 1..Len(files) : files[i] = first
  BY <1>1, <1>2, <1>3
<1>6. /\ clock = 0 /\ subTime = 0 /\ touched = 0 /\ since = 0 /\ previous = {} /\ uploaded = {} /\ scan = S!Idle /\ built = S!Unbuilt
      /\ contents = {<<i, files[i]>> : i \in DOMAIN files}
  BY DEF S!Init
<1>7. scan \in Scans /\ scan.pc = "idle" /\ scan.began = 0 /\ scan.before = 0 /\ scan.time = 0 /\ scan.data = <<>> /\ DOMAIN built = {}
  BY <1>6, IdleFacts
<1>8. ScanTypeOK
  <2>1. DOMAIN links = Names /\ \A n \in DOMAIN links : links[n] \in 1..Len(files)
    BY <1>1, <1>4, <1>5
  <2> QED
    BY <1>1, <1>5, <1>6, <1>7, <2>1 DEF ScanTypeOK
<1>9. InTime
  BY <1>2, <1>5, <1>6, <1>7 DEF InTime, Scanning, Building
<1>10. FilesAreKnown
  <2>1. DOMAIN files = 1..Len(files)
    BY <1>5
  <2> QED
    BY <1>4, <1>6, <2>1 DEF FilesAreKnown
<1>11. scan.pc \notin Scanning
  BY <1>7 DEF Scanning, Building
<1>12. ReadsOneFile /\ ListsOneDirectory /\ ShowsSelection
  BY <1>6, <1>7, <1>11 DEF ReadsOneFile, ListsOneDirectory, ShowsSelection, Building
<1>13. S!EntryWasThere /\ S!DirectoryWasThere /\ S!ProtectedStaysOut
  BY <1>6, <1>7 DEF S!EntryWasThere, S!DirectoryWasThere, S!ProtectedStaysOut, S!At
<1> QED
  BY <1>8, <1>9, <1>10, <1>12, <1>13 DEF ScanInv

LEMMA StayKeeps ==
  ASSUME ScanInv, UNCHANGED S!vars
  PROVE  ScanInv'
<1>1. UNCHANGED <<links, files, subTime, clock, selection, contents, touched>> /\ UNCHANGED <<scan, built, uploaded, previous, since, seen>>
  BY DEF S!vars
<1>2. ScanTypeOK' /\ InTime' /\ FilesAreKnown'
  BY <1>1 DEF ScanInv, ScanTypeOK, InTime, FilesAreKnown
<1>3. ReadsOneFile' /\ ListsOneDirectory'
  BY <1>1 DEF ScanInv, ReadsOneFile, ListsOneDirectory, S!Selected, S!Existing
<1>4. ShowsSelection'
  BY <1>1 DEF ScanInv, ShowsSelection, CurrentRoot, S!DirectoryTime, S!Selected, S!Existing, Now
<1>5. S!EntryWasThere' /\ S!DirectoryWasThere' /\ S!ProtectedStaysOut'
  BY <1>1 DEF ScanInv, S!EntryWasThere, S!DirectoryWasThere, S!ProtectedStaysOut, S!At
<1> QED
  BY <1>2, <1>3, <1>4, <1>5 DEF ScanInv

LEMMA ScanStep == ScanInv /\ [S!Next]_S!vars => ScanInv'
<1> SUFFICES ASSUME ScanInv, [S!Next]_S!vars PROVE ScanInv'
  OBVIOUS
<1>1. S!Existing \subseteq Names
  BY DEF ScanInv, ScanTypeOK, S!Existing
<1>2. ASSUME NEW n \in S!Existing, NEW text \in Contents, S!WriteInPlace(n, text) PROVE ScanInv'
  BY <1>2, WriteEdits, EditedKeeps
<1>3. ASSUME NEW n \in S!Existing, S!Remove(n) PROVE ScanInv'
  BY <1>1, <1>3, RelinksEdit, EditedKeeps
<1>4. ASSUME NEW n \in Names, S!MoveProtected(n) \/ \E text \in Contents : S!Replace(n, text) PROVE ScanInv'
  BY <1>4, RelinksEdit, EditedKeeps
<1>5. ASSUME NEW n \in Names, S!Inspect(n) PROVE ScanInv'
  BY <1>5, InspectKeeps
<1> QED
  BY <1>2, <1>3, <1>4, <1>5, BeginScanKeeps, ListKeeps, OpenFileKeeps, ReadBlockKeeps, CheckFileKeeps, FinishKeeps, RestKeeps,
     StayKeeps DEF S!Next

\* A new root is committed only if a selected path changed.
LEMMA ChangesShow ==
  ASSUME ScanInv, [S!Next]_S!vars
  PROVE  S!NothingElseShows
<1>1. CASE S!Finish
  <2> SUFFICES ASSUME previous' # previous, previous # {}, ~(touched > since) PROVE FALSE
    BY DEF S!NothingElseShows
  <2>1. scan.pc = "next" /\ scan.names = DOMAIN built
    BY <1>1 DEF S!Finish, S!At
  <2>2. previous' = {S!Root}
    BY <1>1 DEF S!Finish, S!Fails
  <2>3. /\ touched \in Nat /\ since \in Nat /\ scan.began \in Nat /\ since <= scan.began
    BY <2>1 DEF ScanInv, ScanTypeOK, InTime, Scans, Scanning
  <2>4. touched <= since /\ touched <= scan.began
    BY <2>3
  <2>5. previous = {CurrentRoot}
    BY <2>4 DEF ScanInv, ShowsSelection
  <2>6. S!Root = CurrentRoot
    BY <2>1, <2>4, FinishedRoot
  <2> QED
    BY <2>2, <2>5, <2>6
<1>2. CASE previous' = previous
  BY <1>2 DEF S!NothingElseShows
<1> QED
  BY <1>1, <1>2 DEF S!Next, S!vars, S!Remove, S!WriteInPlace, S!MoveProtected, S!Replace, S!Relink, S!Edit, S!Begin, S!List, S!Inspect, S!OpenFile, S!ReadBlock,
     S!CheckFile, S!Rest

\* However the source is written to while it is scanned, what is published was there: every file
\* as it was at one instant, a directory as it was at one instant, and nothing of a protected
\* file (buildFile, buildDirectorySelection).
THEOREM ScansHold == S!Spec => []ScanIsConsistent
<1>1. ScanInv => ScanIsConsistent
  BY DEF ScanInv, ScanIsConsistent
<1> QED
  BY <1>1, ScanInit, ScanStep, PTL DEF S!Spec

\* A change outside of the selection, also of the time of an ancestor of it, never makes a scan
\* commit another root (StageSelected).
THEOREM OnlySelectedShows == S!Spec => UnselectedDoesNotShow
<1>1. ScanInv /\ [S!Next]_S!vars => [S!NothingElseShows]_directory
  BY ChangesShow
<1> QED
  BY <1>1, ScanInit, ScanStep, PTL DEF S!Spec, UnselectedDoesNotShow
=============================================================================
