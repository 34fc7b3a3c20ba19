---------------------------- MODULE SourceFiles ----------------------------
(***************************************************************************)
(* The source directory of a publisher while it is scanned: an instance of *)
(* SourceScan, with names of its own for modules that have more than one   *)
(* component.                                                              *)
(***************************************************************************)
EXTENDS Naturals, Sequences

CONSTANTS Names, Chosen, Blocks, FirstFiles, Contents, StableReadTries, MaxEdits, MaxScans   \* as in SourceScan

VARIABLES
  links, files, subTime, clock, selection, scan, built, uploaded, previous, seen, contents, touched, since, scans

\* A file is a sequence of blocks, and at first there is one at each name besides the protected one.
ASSUME SourceAssumption ==
  /\ Contents # {} /\ Contents \subseteq Seq(Blocks)
  /\ FirstFiles \in Nat \ {0}
  /\ \E f \in [Names -> 2..FirstFiles] : \A m, n \in Names : f[m] = f[n] => m = n

S == INSTANCE SourceScan

directory == <<links, files, subTime, clock, selection, scan, built, uploaded, previous, seen, contents, touched, since,
               scans>>

\* A scan publishes what was there: no torn file, no directory that never was, and nothing of
\* a protected file (buildFile, buildDirectorySelection).
ScanIsConsistent == S!EntryWasThere /\ S!DirectoryWasThere /\ S!ProtectedStaysOut

\* A change outside of the selection makes no new snapshot (StageSelected).
UnselectedDoesNotShow == [][S!NothingElseShows]_directory
=============================================================================
