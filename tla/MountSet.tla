------------------------------ MODULE MountSet ------------------------------
(***************************************************************************)
(* mount-set (internal/cli/mount_set.go): several workspaces are prepared  *)
(* one after the other, checked against each other and then mounted side   *)
(* by side.  Each mount runs in a goroutine (runPreparedMount) that sends  *)
(* its result once; the first failure while the caller's context is live   *)
(* stops the others, and the supervisor returns when every goroutine has   *)
(* answered.                                                               *)
(*                                                                         *)
(* A path is a sequence of components.  A mount is given by what           *)
(* MountLifecycle promises: once its context is done it closes Done behind *)
(* its server or reports stop_failed, and then the server may still be up. *)
(***************************************************************************)
EXTENDS Naturals, Sequences

CONSTANTS
  Workspaces,   \* the entries of the configuration, a sequence
  Configs,      \* the configurations: share, mountpoint, handoff, and the state and
                \* cache directories of each workspace
  ConfigPath    \* the path of the configuration

VARIABLES
  config,       \* the configuration
  ctxDone,      \* the caller has cancelled
  prepared,     \* workspaces prepared so far
  supervisor,   \* "prepare", "supervise" or "returned"
  cancelled,    \* taskContext
  task,         \* each goroutine: "off", "running", "starting", "mounted", or its result
  up,           \* workspaces whose FUSE server is up
  results,      \* the channel, with room for every task
  received,     \* workspaces whose result was taken from it
  failure       \* firstFailure or the error of the preparation, "" if there is none

vars == <<config, ctxDone, prepared, supervisor, cancelled, task, up, results, received, failure>>

mounts == <<task, up, results>>

Names == {Workspaces[i] : i \in 1..Len(Workspaces)}

Init ==
  /\ config \in Configs
  /\ ctxDone = FALSE /\ prepared = <<>> /\ supervisor = "prepare" /\ cancelled = FALSE
  /\ task = [w \in Names |-> "off"] /\ up = {} /\ results = <<>> /\ received = {} /\ failure = ""

Cancel ==
  /\ ~ctxDone /\ ctxDone' = TRUE
  /\ UNCHANGED <<config, prepared, supervisor, cancelled, mounts, received, failure>>

pathWithin(candidate, directory) ==
  Len(directory) <= Len(candidate) /\ SubSeq(candidate, 1, Len(directory)) = directory

pathsOverlap(first, second) == pathWithin(first, second) \/ pathWithin(second, first)

\* runMountSet and prepareMountSetEntry for the next workspace: its paths and its handoff
\* may be refused, and no two workspaces name the same share.
Prepare ==
  LET w == Workspaces[Len(prepared) + 1]
      fails(err) == supervisor' = "returned" /\ failure' = err /\ UNCHANGED prepared
      twice == \E i \in 1..Len(prepared) : config[prepared[i]].share = config[w].share
  IN /\ supervisor = "prepare" /\ Len(prepared) < Len(Workspaces)
     /\ \/ ctxDone /\ fails("cancelled")
        \/ ~ctxDone /\ fails("preflight")
        \/ ~ctxDone /\ twice /\ fails("same share")
        \/ /\ ~ctxDone /\ ~twice /\ prepared' = Append(prepared, w)
           /\ UNCHANGED <<supervisor, failure>>
     /\ UNCHANGED <<config, ctxDone, cancelled, mounts, received>>

\* A variant that compares a workspace with the later ones only: the comparison is not symmetric.
ComparedToLater(i, j) == i < j

\* validatePreparedMountSet compares every workspace with every other one.
Compared(i, j) == i # j

\* validatePreparedMountSet.
Disjoint ==
  \A i \in 1..Len(Workspaces) :
    LET current == config[Workspaces[i]] IN
    /\ ~pathWithin(ConfigPath, current.mountpoint) /\ ~pathWithin(current.handoff, current.mountpoint)
    /\ \A j \in 1..Len(Workspaces) :
         Compared(i, j) =>
           LET other == config[Workspaces[j]] IN
           /\ ~pathsOverlap(current.mountpoint, other.mountpoint)
           /\ \A dir \in other.dirs : ~pathsOverlap(current.mountpoint, dir)
           /\ ~pathWithin(other.handoff, current.mountpoint)

\* The end of runMountSet and the start of superviseMountSet.
Start ==
  /\ supervisor = "prepare" /\ Len(prepared) = Len(Workspaces)
  /\ \/ /\ Disjoint /\ supervisor' = "supervise" /\ UNCHANGED failure
        /\ task' = [w \in Names |-> "running"]
     \/ /\ ~Disjoint /\ supervisor' = "returned" /\ failure' = "overlap" /\ UNCHANGED task
  /\ UNCHANGED <<config, ctxDone, prepared, cancelled, up, results, received>>

-----------------------------------------------------------------------------
(* The goroutine of a workspace: runPreparedMount and waitForMountLifecycle *)

supervision == <<config, ctxDone, prepared, supervisor, cancelled, received, failure>>

\* The goroutine sends its result.
Answers(w, result) == task' = [task EXCEPT ![w] = result] /\ results' = Append(results, w)

Stopped == ctxDone \/ cancelled

\* The consumer, its directories, the first refresh or the FUSE server fail.
TaskFails(w) ==
  /\ task[w] \in {"running", "starting"}
  /\ Answers(w, "failed")
  /\ UNCHANGED <<supervision, up>>

\* ReadOnly finds the context live for the last time and starts the FUSE server.
TaskStarts(w) ==
  /\ task[w] = "running" /\ ~Stopped
  /\ task' = [task EXCEPT ![w] = "starting"]
  /\ UNCHANGED <<supervision, up, results>>

\* It returns a mount.
TaskMounts(w) ==
  /\ task[w] = "starting"
  /\ task' = [task EXCEPT ![w] = "mounted"] /\ up' = up \union {w}
  /\ UNCHANGED <<supervision, results>>

\* The server goes down: by an attempt of the mount, the first one or a late one, by somebody
\* else, or when its serve loop ends.
Unmounted(w) ==
  /\ w \in up /\ up' = up \ {w}
  /\ UNCHANGED <<supervision, task, results>>

\* Done is closed, behind the end of the server.
TaskEnds(w) ==
  /\ task[w] = "mounted" /\ w \notin up
  /\ Answers(w, "ended")
  /\ UNCHANGED <<supervision, up>>

\* The status is stop_failed when waitForMountLifecycle looks: the context of the mount or its
\* authorization has ended and the server refused to be unmounted, or has not answered in time.
TaskGivesUp(w) ==
  /\ task[w] = "mounted"
  /\ Answers(w, "failed")
  /\ UNCHANGED <<supervision, up>>

Task(w) == TaskFails(w) \/ TaskStarts(w) \/ TaskMounts(w) \/ TaskEnds(w) \/ TaskGivesUp(w)

\* The answer of a goroutine whose context is done.
TaskStops(w) == Stopped /\ Task(w)

-----------------------------------------------------------------------------
(* The rest of superviseMountSet *)

\* The first failure that counts cancels the context of all tasks.
Counts(w) == task[w] = "failed" /\ failure = "" /\ ~ctxDone

Receive ==
  /\ supervisor = "supervise" /\ results # <<>>
  /\ LET w == Head(results) IN
       /\ failure' = IF Counts(w) THEN w ELSE failure
       /\ cancelled' = (cancelled \/ Counts(w))
       /\ received' = received \union {w}
  /\ results' = Tail(results)
  /\ UNCHANGED <<config, ctxDone, prepared, supervisor, task, up>>

\* All tasks have answered; the deferred cancel runs.
Return ==
  /\ supervisor = "supervise" /\ received = Names
  /\ supervisor' = "returned" /\ cancelled' = TRUE
  /\ UNCHANGED <<config, ctxDone, prepared, mounts, received, failure>>

Supervise == Prepare \/ Start \/ Receive \/ Return

Next ==
  \/ Cancel \/ Supervise
  \/ \E w \in Names : Task(w) \/ Unmounted(w)

Spec == Init /\ [][Next]_vars

\* The supervisor goes on, and a mount whose context is done answers (MountLifecycle!MountEnds).
\* Nothing makes a healthy mount end, and nothing makes a server go down.
FairSpec == Spec /\ WF_vars(Supervise) /\ \A w \in Names : WF_vars(TaskStops(w))

-----------------------------------------------------------------------------
(* Properties *)

TypeOK ==
  /\ supervisor \in {"prepare", "supervise", "returned"}
  /\ task \in [Names -> {"off", "running", "starting", "mounted", "ended", "failed"}]
  /\ up \subseteq Names /\ received \subseteq Names
  /\ prepared \in Seq(Names) /\ results \in Seq(Names)

\* Workspaces that are mounted never lie in each other's way: no mountpoint covers another
\* mountpoint or the state of another workspace, and no share is mounted twice
\* (validatePreparedMountSet, and nothing starts before all are prepared).
MountsAreApart ==
  \A v, w \in Names :
    v # w /\ task[v] # "off" /\ task[w] # "off" =>
      /\ config[v].share # config[w].share
      /\ ~pathsOverlap(config[v].mountpoint, config[w].mountpoint)
      /\ \A dir \in config[w].dirs : ~pathsOverlap(config[v].mountpoint, dir)

Ending == ctxDone \/ \E w \in Names : task[w] = "failed"
Ended ==
  /\ supervisor = "returned"
  /\ \A w \in Names : task[w] \in {"off", "ended", "failed"} /\ (w \in up => task[w] = "failed")

\* When a workspace fails, or the caller gives up, the command returns, behind an answer of every
\* mount (superviseMountSet waits for all of them); a server that is still up then is one that
\* could not be unmounted and was answered for with an error.
SetEnds == Ending ~> Ended

\* "A busy or uninterruptible OS unmount can still enter stop_failed; the process then returns an
\* error so operators do not mistake a remaining mount for a clean stop" (docs/MOUNT_SET.md).
RemainingMountIsReported == supervisor = "returned" /\ up # {} => failure # ""
=============================================================================
