----------------------------- MODULE MCProgress -----------------------------
(***************************************************************************)
(* Instances for TLC of what must come to an end: a publisher session      *)
(* (PublisherSession), a pending publication (Publication), a pending      *)
(* share root (RootPublication), a consumer that polls (Consumer), and a   *)
(* mount: its unmounting, what the kernel is told, and several of them     *)
(* under one command (Mounts).  A behaviour is one of these parts, named   *)
(* by part.  The variables of the session and of the mounts keep their     *)
(* initial values in the behaviours of others; the other parts have their  *)
(* variables in the slots s1 to s9.                                        *)
(***************************************************************************)
EXTENDS PublisherSession, Mounts, TLC

CONSTANTS
  p1, p2, c1, c2, j1, k1, a, b, t1, Revisions, None, Roots, Stamps,
  MaxTries, MaxPublications, MaxPublicationFaults, MaxBuilds, MaxRootAttempts

VARIABLES part, s1, s2, s3, s4, s5, s6, s7, s8, s9

\* One publisher with its journal.
P == INSTANCE Publication WITH
       Publishers <- {p1}, Journals <- {j1}, JournalOf <- (p1 :> j1), Keys <- {k1}, KeyOf <- (p1 :> k1),
       Checkpoint <- (p1 :> <<>>), FirstUse <- (p1 :> TRUE), FirstReference <- None,
       MaxGeneration <- MaxPublications, MaxFaults <- MaxPublicationFaults, MaxMishaps <- 0, MaxCommitWalk <- 10,
       remote <- s1, inflight <- s2, journal <- s3, pub <- s4, faults <- s5, mishaps <- s6

\* Two publishers of a share that both use its journal, up to the first root, and one alone
\* that goes on to update it.
Snapshots == {[gen |-> 1, commit |-> a], [gen |-> 2, commit |-> a]}
R == INSTANCE RootPublication WITH
       Publishers <- {p1, p2}, Bare <- {}, Encrypted <- TRUE, Closures <- Snapshots, MaxBuilds <- 1,
       MaxAttempts <- MaxRootAttempts, MaxFaults <- 1, MaxMishaps <- 0,
       root <- s1, journal <- s2, bare <- s3, pub <- s4, late <- s5, builds <- s6, history <- s7,
       faults <- s8, mishaps <- s9
A == INSTANCE RootPublication WITH
       Publishers <- {p1}, Bare <- {}, Encrypted <- TRUE, Closures <- Snapshots, MaxAttempts <- MaxRootAttempts,
       MaxMishaps <- 0,
       root <- s1, journal <- s2, bare <- s3, pub <- s4, late <- s5, builds <- s6, history <- s7,
       faults <- s8, mishaps <- s9

\* One consumer trusts what it finds first, the other was given a checkpoint.
C == INSTANCE Consumer WITH
       Consumers <- {c1, c2}, Checkpoint <- (c1 :> <<>> @@ c2 :> <<[root |-> a, at |-> t1]>>),
       FirstUse <- (c1 :> TRUE @@ c2 :> FALSE), MaxKey <- 1, MaxGeneration <- 2, MaxMishaps <- 1, MaxCommitWalk <- 2,
       ref <- s1, history <- s2, file <- s3, disk <- s4, local <- s5, lost <- s6, exposed <- s7, mishaps <- s8

\* Three workspaces of which two may share a share, a mountpoint may lie in another one, or
\* over the state or the handoff of another workspace.
Three == <<"a", "b", "c">>
Entry(s, m, d) == [share |-> s, mountpoint |-> m, handoff |-> <<"h">>, dirs |-> {d}]
Sets ==
  [a : {Entry(1, <<"x">>, <<"s">>)},
   b : {Entry(n, m, <<"s">>) : n \in {1, 2}, m \in {<<"y">>, <<"h">>}},
   c : {Entry(n, m, d) : n \in {2, 3}, m \in {<<"z">>, <<"x", "y">>, <<"s", "c">>}, d \in {<<"s">>, <<"x", "y">>}}]
Handoff == <<"h">>

publication == <<s1, s2, s3, s4, s5, s6>>
consumer == <<s1, s2, s3, s4, s5, s6, s7, s8>>
share == <<s1, s2, s3, s4, s5, s6, s7, s8, s9>>
slots == <<vars, share>>
allMounts == <<mount, invalidation, mounts>>

Unused9 == s9 = 0
Unused7 == s7 = 0 /\ s8 = 0 /\ Unused9
Unused1 == s1 = 0 /\ s2 = 0 /\ s3 = 0 /\ s4 = 0 /\ s5 = 0 /\ s6 = 0 /\ Unused7

ProgressInit ==
  /\ Init /\ M!Init /\ I!Init /\ W!Init
  /\ \/ part = "session" /\ Unused1
     \/ /\ once
        /\ \/ part = "publication" /\ P!Init /\ Unused7
           \/ part = "consumer" /\ C!Init /\ Unused9
           \/ part = "share" /\ R!Init
           \/ part = "updates" /\ A!Init
           \/ part \in {"lifecycle", "invalidation", "set"} /\ Unused1
  /\ part # "set" => config = CHOOSE c \in Configs : TRUE

\* A step of one part leaves the others alone.
InPublication == part = "publication" /\ UNCHANGED <<part, vars, s7, s8, s9, allMounts>>
InConsumer == part = "consumer" /\ UNCHANGED <<part, vars, s9, allMounts>>
InShare == part = "share" /\ UNCHANGED <<part, vars, allMounts>>
InUpdates == part = "updates" /\ UNCHANGED <<part, vars, allMounts>>
InSession == part = "session" /\ UNCHANGED <<part, share, allMounts>>
InLifecycle == part = "lifecycle" /\ UNCHANGED <<part, slots, invalidation, mounts>>
InInvalidation == part = "invalidation" /\ UNCHANGED <<part, slots, mount, mounts>>
InSet == part = "set" /\ UNCHANGED <<part, slots, mount, invalidation>>

ProgressNext ==
  \/ InPublication /\ P!Next
  \/ InConsumer /\ C!Next
  \/ InShare /\ R!Next
  \/ InUpdates /\ A!Next
  \/ InSession /\ Next
  \/ InLifecycle /\ M!Next
  \/ InInvalidation /\ I!Next
  \/ InSet /\ W!Next

all == <<part, slots, allMounts>>

\* The fairness of each part.  Steps of two parts are never enabled in one behaviour, so a
\* condition can stand for one action of each.  The goroutines of a mount that end once, its
\* attempts and the tasks of a set take finitely many steps: one condition covers them all.
ProgressSpec ==
  /\ ProgressInit /\ [][ProgressNext]_all
  /\ WF_all(\/ InPublication /\ (P!Recovery(p1) \/ P!Operation(p1))
            \/ InConsumer /\ C!Refresh(c1)
            \/ InShare /\ R!Work(p1)
            \/ InUpdates /\ A!Work(p1)
            \/ InSession /\ \E p \in Processes : Resume(p)
            \/ InLifecycle /\ (M!Monitor \/ M!WorkersReturn \/ M!Finish \/ M!Automatic)
            \/ InInvalidation /\ I!Poll
            \/ InSet /\ W!Supervise)
  /\ WF_all(\/ InPublication /\ P!Start(p1, "recover")
            \/ InConsumer /\ C!Refresh(c2)
            \/ InShare /\ R!Work(p2)
            \/ InSession /\ Proceed(p1)
            \/ InLifecycle /\ \E n \in 1..MaxAttempts : M!Execute(n)
            \/ InInvalidation /\ I!Coordinate
            \/ InSet /\ \E w \in {"a", "b", "c"} : W!TaskStops(w))
  /\ WF_all(\/ InPublication /\ P!Deliver
            \/ InSession /\ Proceed(p2)
            \/ InLifecycle /\ M!Unmounting("auto"))
  /\ \A c \in Callers : WF_all(InLifecycle /\ M!Unmounting(c))
  /\ WF_all(InLifecycle /\ M!Deadline("auto"))
  /\ SF_all(\/ InShare /\ R!Recovers(p1)
            \/ InUpdates /\ A!Recovers(p1)
            \/ InInvalidation /\ I!PollEnds)
  /\ SF_all(InShare /\ R!Recovers(p2))

-----------------------------------------------------------------------------
(* Properties; the safety of a session and of mounts is used as it is stated there. *)

\* A pending publication does not stay pending once faults stop: recovery proves what became
\* of it and frees the slot (RecoverPublication).
PendingIsResolved == []<>(part = "publication" => s3[j1].pending = None)

\* A root that is pending in the journal of a share is settled: installed by a replay of its
\* exact bytes, or found installed or overtaken, once calls stop failing (RecoverPending).
RootSettles == []<>(part \in {"share", "updates"} => R!Settled)

\* A consumer that polls catches up: if the published reference stays one that its watermark
\* admits, its users eventually see it (Poll).
CatchesUp ==
  \A c \in {c1, c2} :
    <>[](part = "consumer" => C!Acceptable(c)) => <>[](part = "consumer" => C!Current(c))

\* While the mount polls, the kernel is told of the newest snapshot in the end: no wake-up is
\* lost between the poller, an application that refreshes by itself and the coordinator.
KernelCatchesUp == []<>(part = "invalidation" => I!UpToDate)

\* Whatever is told to stop stops (and what is told to stop stays told).  After the server or
\* the lifetime of a mount has ended Done closes or stop_failed stays in the status; the workers
\* end when they are cancelled; and mount-set returns when a workspace fails or its caller gives
\* up, behind an answer of every mount, the answer being an error for one that is still up.
EverythingStops ==
  []<>/\ part = "lifecycle" /\ M!Ending => M!Ended
      /\ part = "invalidation" /\ I!Ending => I!Ended
      /\ part = "set" /\ W!Ending => W!Ended
=============================================================================
