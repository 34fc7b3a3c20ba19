---------------------------- MODULE HandoffInstall ----------------------------
(***************************************************************************)
(* Installing the handoff file (internal/cli/handoff.go, private_file.go): *)
(* the secret is staged under a temporary name of the same directory,      *)
(* synced, linked to its final name without replacing anything, and the    *)
(* staging name is removed; then the directory is synced.  A second link   *)
(* makes the file unreadable for the consumer, and an entry that is not    *)
(* synced may appear or disappear in a crash, so a process that finds the  *)
(* file in place has the removal and the sync to do again before it may    *)
(* say that it is installed.                                               *)
(*                                                                         *)
(* Each installer has a handoff of its own and the same path, as two       *)
(* shares with one output path have; it tries again after any failure.     *)
(***************************************************************************)
EXTENDS Naturals

CONSTANTS
  Installers,   \* shares that install their handoff at the path
  MaxFiles,     \* bound on the files that are staged
  MaxFaults,    \* bound on system calls that fail
  MaxDeaths     \* bound on crashes of a process or the machine

VARIABLES
  dest,         \* the file at the final path, 0 if none
  staged,       \* the files whose temporary name exists
  savedDest, savedStaged,   \* the directory as it was last synced
  content,      \* the content of each file that was made
  synced,       \* the files whose content is synced
  proc,         \* what each installer is doing
  confirmed,    \* the installers whose call returned success
  faults, deaths

vars == <<dest, staged, savedDest, savedStaged, content, synced, proc, confirmed, faults, deaths>>
directory == <<dest, staged>>
savedDirectory == <<savedDest, savedStaged>>
files == <<content, synced>>

Partial == "partial"
Idle == [pc |-> "idle"]
Made == DOMAIN content

Init ==
  /\ dest = 0 /\ staged = {} /\ savedDest = 0 /\ savedStaged = {}
  /\ content = <<>> /\ synced = {}
  /\ proc = [p \in Installers |-> Idle]
  /\ confirmed = {}
  /\ faults = 0 /\ deaths = 0

At(p, pc) == proc[p].pc = pc
Goes(p, pc) == proc' = [proc EXCEPT ![p].pc = pc]
Returns(p) == proc' = [proc EXCEPT ![p] = Idle]
Fault == faults < MaxFaults /\ faults' = faults + 1
NoFault == UNCHANGED faults

-----------------------------------------------------------------------------
(* writePrivateFileNoReplace *)

\* The path is taken, or a file of the directory is staged.
Begin(p) ==
  /\ At(p, "idle") /\ p \notin confirmed
  /\ \/ /\ dest # 0
        /\ proc' = [proc EXCEPT ![p] = [pc |-> "aliases", file |-> 0, clean |-> TRUE, error |-> FALSE]]
        /\ UNCHANGED <<staged, content>>
     \/ /\ dest = 0
        /\ \E new \in (1..MaxFiles) \ Made :
             /\ 1..(new - 1) \subseteq Made
             /\ content' = [n \in Made \cup {new} |-> IF n = new THEN Partial ELSE content[n]]
             /\ staged' = staged \cup {new}
             /\ proc' = [proc EXCEPT ![p] = [pc |-> "write", file |-> new, clean |-> FALSE, error |-> FALSE]]
  /\ UNCHANGED <<dest, savedDirectory, synced, confirmed, faults, deaths>>

\* A call fails ahead of the installation: the staging name is removed if that works.
Abandon(p) ==
  /\ proc[p].pc \in {"write", "sync", "link"} /\ Fault
  /\ staged' \in {staged, staged \ {proc[p].file}}
  /\ Returns(p)
  /\ UNCHANGED <<dest, savedDirectory, files, confirmed, deaths>>

Write(p) ==
  /\ At(p, "write")
  /\ content' = [content EXCEPT ![proc[p].file] = p]
  /\ Goes(p, "sync")
  /\ UNCHANGED <<directory, savedDirectory, synced, confirmed, faults, deaths>>

SyncFile(p) ==
  /\ At(p, "sync")
  /\ synced' = synced \cup {proc[p].file}
  /\ Goes(p, "link")
  /\ UNCHANGED <<directory, savedDirectory, content, confirmed, faults, deaths>>

\* The installation without replacement: applied, refused because the path is taken, or an error
\* of a call that was applied or was not.
Link(p) ==
  /\ At(p, "link")
  /\ \/ dest = 0 /\ dest' = proc[p].file /\ Goes(p, "clean") /\ NoFault
     \/ dest # 0 /\ dest' = dest /\ Goes(p, "clean") /\ NoFault
     \/ /\ Fault /\ dest' \in {dest, IF dest = 0 THEN proc[p].file ELSE dest}
        /\ proc' = [proc EXCEPT ![p].pc = "clean", ![p].error = TRUE]
  /\ UNCHANGED <<staged, savedDirectory, files, confirmed, deaths>>

\* The staging name is removed, whatever came of the installation.
Clean(p) ==
  /\ At(p, "clean")
  /\ \/ /\ staged' = staged \ {proc[p].file} /\ NoFault
        /\ proc' = [proc EXCEPT ![p].pc = "settle", ![p].clean = TRUE]
     \/ Fault /\ staged' = staged /\ Goes(p, "settle")
  /\ UNCHANGED <<dest, savedDirectory, files, confirmed, deaths>>

\* A bug to catch: the directory is not synced.
NoDirectorySync(p, ok, unconfirmed) == Goes(p, ok) /\ NoFault /\ UNCHANGED savedDirectory

\* The directory is synced; the barrier holds if both worked.
SyncDirectory(p, ok, unconfirmed) ==
  \/ savedDest' = dest /\ savedStaged' = staged /\ Goes(p, ok) /\ NoFault
  \/ Fault /\ Goes(p, unconfirmed) /\ UNCHANGED savedDirectory

Settle(p) ==
  /\ At(p, "settle")
  /\ SyncDirectory(p, IF proc[p].clean THEN "conclude" ELSE "unconfirmed", "unconfirmed")
  /\ UNCHANGED <<directory, files, confirmed, deaths>>

\* ValidatePrivateSecretFile: the file has no other link.
SingleLink == dest # 0 /\ dest \notin staged

\* verifyExactHandoff
Verified(p) == SingleLink /\ content[dest] = p

\* The call returns success, or an error.
ReturnsNil(p) == Returns(p) /\ confirmed' = confirmed \cup {p}
ReturnsError(p) == Returns(p) /\ UNCHANGED confirmed

\* The barrier holds: the file is this one, another one that is in order, or it is not known
\* what happened, and then only the exact bytes at the path count.
Conclude(p) ==
  /\ At(p, "conclude")
  /\ \/ dest = proc[p].file /\ Verified(p) /\ ReturnsNil(p)
     \/ dest # proc[p].file /\ ~proc[p].error /\ SingleLink /\ Goes(p, "aliases") /\ UNCHANGED confirmed
     \/ dest # proc[p].file /\ (proc[p].error \/ ~SingleLink) /\ dest = 0 /\ ReturnsError(p)
     \/ dest # proc[p].file /\ (proc[p].error \/ ~SingleLink) /\ dest # 0 /\ Goes(p, "verify") /\ UNCHANGED confirmed
  /\ UNCHANGED <<directory, savedDirectory, files, faults, deaths>>

\* ErrPrivateFileInstalledUnconfirmed: bytes alone cannot stand for the cleanup and the sync.
Unconfirmed(p) ==
  /\ At(p, "unconfirmed")
  /\ ReturnsError(p)
  /\ UNCHANGED <<directory, savedDirectory, files, faults, deaths>>

-----------------------------------------------------------------------------
(* reconcileInstalledPrivateFileStaging *)

\* The staging names that are links to the installed file.
StagingAliases == staged \cap {dest}

RemoveAliases(p) ==
  /\ At(p, "aliases")
  /\ \/ staged' = staged \ StagingAliases /\ Goes(p, "barrier") /\ NoFault
     \/ Fault /\ staged' = staged /\ proc' = [proc EXCEPT ![p].pc = "barrier", ![p].clean = FALSE]
  /\ UNCHANGED <<dest, savedDirectory, files, confirmed, deaths>>

Barrier(p) ==
  /\ At(p, "barrier")
  /\ SyncDirectory(p, IF proc[p].clean THEN "verify" ELSE "unconfirmed", "unconfirmed")
  /\ UNCHANGED <<directory, files, confirmed, deaths>>

\* Exactly these bytes are success; another file is ErrHandoffExists, and is not touched.
Verify(p) ==
  /\ At(p, "verify")
  /\ IF Verified(p) THEN ReturnsNil(p) ELSE ReturnsError(p)
  /\ UNCHANGED <<directory, savedDirectory, files, faults, deaths>>

-----------------------------------------------------------------------------
(* Faults *)

Die(p) ==
  /\ ~At(p, "idle") /\ deaths < MaxDeaths /\ deaths' = deaths + 1
  /\ Returns(p)
  /\ UNCHANGED <<directory, savedDirectory, files, confirmed, faults>>

\* The machine crashes: each directory entry that is not synced is as it was or as it is, and a
\* file whose content is not synced has lost some of it.
Crash ==
  /\ deaths < MaxDeaths /\ deaths' = deaths + 1
  /\ dest' \in {dest, savedDest} /\ savedDest' = dest'
  /\ \E kept \in SUBSET ((staged \ savedStaged) \cup (savedStaged \ staged)) :
       staged' = (staged \cap savedStaged) \cup kept
  /\ savedStaged' = staged'
  /\ content' = [n \in Made |-> IF n \in synced THEN content[n] ELSE Partial]
  /\ proc' = [p \in Installers |-> Idle]
  /\ UNCHANGED <<synced, confirmed, faults>>

-----------------------------------------------------------------------------

Next ==
  \/ \E p \in Installers :
       \/ Begin(p) \/ Abandon(p) \/ Write(p) \/ SyncFile(p) \/ Link(p) \/ Clean(p) \/ Settle(p)
       \/ Conclude(p) \/ Unconfirmed(p) \/ RemoveAliases(p) \/ Barrier(p) \/ Verify(p) \/ Die(p)
  \/ Crash

Spec == Init /\ [][Next]_vars

-----------------------------------------------------------------------------
(* Properties *)

\* A call that returned success is right for good: the path holds exactly its handoff, and after
\* any crash still does, with the one link the consumer insists on.
HandoffIsConfirmed ==
  \A p \in confirmed :
    /\ dest # 0 /\ content[dest] = p
    /\ savedDest = dest
    /\ dest \notin staged \cup savedStaged

\* "It can never expose a partial handoff at the path given to B": what the path shows is a whole
\* handoff, and is still whole after a crash.
HandoffIsWhole == \A n \in {dest, savedDest} \ {0} : content[n] \in Installers /\ n \in synced
=============================================================================
