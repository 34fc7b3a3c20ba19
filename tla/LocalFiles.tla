----------------------------- MODULE LocalFiles -----------------------------
(***************************************************************************)
(* What publishers write for themselves, side by side: a crash-safe file   *)
(* of the host (DurableFile), the handoff file of a share (HandoffInstall) *)
(* and the reference of a channel without signatures (UnsignedCommit).     *)
(* They share no state; a behaviour is about one of them, named by part,   *)
(* and the other two stay as they are.                                     *)
(***************************************************************************)
EXTENDS DurableFile

CONSTANTS
  Installers, MaxFiles,     \* as in HandoffInstall
  Publishers, Manifests, WeakReads, MaxCommitWalk, MaxGeneration,   \* as in UnsignedCommit
  MaxMishaps                \* bound on calls that fail, in these two

VARIABLES
  part,
  dest, staged, savedDest, savedStaged, handoffs, synced, installer, confirmed, failures, crashes,
  reference, publisher, flying, accepted, rejected, mishaps

H == INSTANCE HandoffInstall WITH
       content <- handoffs, proc <- installer, faults <- failures, deaths <- crashes, MaxFaults <- MaxMishaps

U == INSTANCE UnsignedCommit WITH faults <- mishaps, MaxFaults <- MaxMishaps

handoff == <<dest, staged, savedDest, savedStaged, handoffs, synced, installer, confirmed, failures, crashes>>
channel == <<reference, publisher, flying, accepted, rejected, mishaps>>

FilesInit == part \in {"file", "handoff", "commit"} /\ Init /\ H!Init /\ U!Init

FilesNext ==
  \/ part = "file" /\ Next /\ UNCHANGED <<part, handoff, channel>>
  \/ part = "handoff" /\ H!Next /\ UNCHANGED <<part, vars, channel>>
  \/ part = "commit" /\ U!Next /\ UNCHANGED <<part, vars, handoff>>

filesVars == <<part, vars, handoff, channel>>

FilesSpec == FilesInit /\ [][FilesNext]_filesVars

-----------------------------------------------------------------------------
(* The properties of the parts; those of DurableFile are used as they are. *)

\* An installation that returned success holds for good, and the path never shows anything
\* but one whole handoff, also after a crash (writePrivateFileNoReplace).
HandoffIsConfirmed == H!HandoffIsConfirmed /\ H!HandoffIsWhole

\* A verdict of Commit stays true, also when a request arrives late (reconcileCommit).
ReportIsFinal == U!ReportIsFinal
=============================================================================
