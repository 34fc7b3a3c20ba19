------------------------------ MODULE SourceScan ------------------------------
(***************************************************************************)
(* Scanning the source directory into manifests (publisher.go: stage,      *)
(* buildDirectorySelection, buildFile) while other programs write to it.   *)
(*                                                                         *)
(* The source is one directory "sub" with the files of Names, below the    *)
(* source root.  The whole of it is published, or the selection of one     *)
(* file, which is published with its ancestors only.  A file is read block *)
(* by block and read again when it changed meanwhile, up to                *)
(* StableReadTries times; a directory that changed fails the scan.  Every  *)
(* change of a file or of the entries of a directory gives it a new        *)
(* modification time (external: the file system's clock ticks between two  *)
(* changes).                                                               *)
(***************************************************************************)
EXTENDS Naturals, Sequences

CONSTANTS
  Names,             \* the names of the files
  Chosen,            \* the name that a selection contains
  Blocks,            \* what a file is read in
  FirstFiles,        \* how many files there are at first
  Contents,          \* what files may contain, sequences of blocks
  StableReadTries,   \* PublisherOptions.StableReadTries
  MaxEdits,          \* bound on the changes of the source
  MaxScans           \* bound on the scans

VARIABLES
  links,       \* the directory: the file at each name that exists
  files,       \* each file that ever was, by number: its content and modification time
  subTime,     \* modification time of the directory "sub"
  clock,       \* changes so far
  selection,   \* the names that are published
  scan,        \* the scan, by program counter
  built,       \* the entries of the manifest that are done
  uploaded,    \* the blocks that were put in the store, with the file they came from
  previous,    \* the root of the current commit, if there is one
  seen,        \* history: the directories there were since the scan began
  contents,    \* history: what each file was, at any time
  touched,     \* history: when a selected path changed last
  since,       \* history: when the scan of the current commit began
  scans

vars == <<links, files, subTime, clock, selection, scan, built, uploaded, previous, seen, contents, touched, since, scans>>
source == <<links, files, subTime, clock>>
history == <<seen, contents, touched>>

Protected == 1   \* the file that must not be published; it is outside the source at first

\* A scan: when it began, the time and the names of the directory; and of the file that is being
\* built its name, identity, tries, modification time and what has been read of it.
Idle == [pc |-> "idle", began |-> 0, before |-> 0, names |-> {},
         name |-> "", expected |-> 0, tries |-> 0, time |-> 0, data |-> <<>>]

Unbuilt == [n \in {} |-> {}]

Existing == DOMAIN links
Selected == Existing \cap selection
First == CHOOSE content \in Contents : TRUE

Init ==
  /\ files = [i \in 1..FirstFiles |-> [content |-> First, time |-> 0]]
  /\ links = CHOOSE f \in [Names -> 2..FirstFiles] : \A m, n \in Names : f[m] = f[n] => m = n
  /\ subTime = 0 /\ clock = 0
  /\ selection \in {Names, {Chosen}}
  /\ scan = Idle /\ built = Unbuilt /\ uploaded = {}
  /\ previous = {}
  /\ seen = {} /\ contents = {<<i, files[i]>> : i \in DOMAIN files} /\ touched = 0 /\ since = 0
  /\ scans = 0

-----------------------------------------------------------------------------
(* The programs that write to the source (external) *)

Edit == clock < MaxEdits /\ clock' = clock + 1 /\ UNCHANGED <<selection, scan, built, uploaded, previous, since, scans>>

\* A file is written in place.
WriteInPlace(n, content) ==
  LET changed == [content |-> content, time |-> clock + 1]
  IN /\ Edit
     /\ files' = [files EXCEPT ![links[n]] = changed]
     /\ contents' = contents \cup {<<links[n], changed>>}
     /\ touched' = IF n \in selection THEN clock + 1 ELSE touched
     /\ UNCHANGED <<links, subTime, seen>>

\* The entries of the directory change: its modification time does.
Relink(n, new) ==
  /\ Edit
  /\ links' = new
  /\ subTime' = clock + 1
  /\ seen' = IF seen = {} THEN {} ELSE seen \cup {new}
  /\ touched' = IF n \in selection THEN clock + 1 ELSE touched

\* Another file is renamed over a name, or created there.
Replace(n, content) ==
  LET new == Len(files) + 1
      made == [content |-> content, time |-> clock + 1]
  IN /\ files' = Append(files, made)
     /\ contents' = contents \cup {<<new, made>>}
     /\ Relink(n, [m \in Existing \cup {n} |-> IF m = n THEN new ELSE links[m]])

\* The protected file is moved into the source.
MoveProtected(n) ==
  /\ Relink(n, [m \in Existing \cup {n} |-> IF m = n THEN Protected ELSE links[m]])
  /\ UNCHANGED <<files, contents>>

Remove(n) ==
  /\ Relink(n, [m \in Existing \ {n} |-> links[m]])
  /\ UNCHANGED <<files, contents>>

-----------------------------------------------------------------------------
(* The scan *)

At(pc) == scan.pc = pc

\* The scan fails, with ErrUnstableFile or another error; nothing is committed.
Fails == scan' = Idle /\ built' = Unbuilt /\ seen' = {} /\ UNCHANGED <<contents, touched>>

\* stage: the source is inspected.
Begin ==
  /\ At("idle") /\ scans < MaxScans /\ scans' = scans + 1
  /\ scan' = [scan EXCEPT !.pc = "list", !.began = clock, !.before = subTime]
  /\ built' = Unbuilt
  /\ seen' = {links}
  /\ UNCHANGED <<source, selection, uploaded, previous, contents, touched, since>>

\* The names of the directory are read; those that are not selected are left out, and a selected
\* one must be there.
List ==
  /\ At("list")
  /\ IF selection = Names \/ selection \subseteq Existing
     THEN scan' = [scan EXCEPT !.pc = "next", !.names = Selected] /\ UNCHANGED <<built, history>>
     ELSE Fails
  /\ UNCHANGED <<source, selection, uploaded, previous, since, scans>>

\* Lstat of an entry that is not built yet.
Inspect(n) ==
  /\ At("next") /\ n \in scan.names \ DOMAIN built
  /\ IF n \in Existing
     THEN /\ scan' = [scan EXCEPT !.pc = "open", !.name = n, !.expected = links[n]]
          /\ UNCHANGED <<built, history>>
     ELSE Fails
  /\ UNCHANGED <<source, selection, uploaded, previous, since, scans>>

\* The file is not one of the protected files, whose identity was taken before the scan.
NotProtected(file) == file # Protected

\* buildFile opens the path: the same file as before, and none that is protected.
OpenFile ==
  /\ At("open")
  /\ IF scan.name \in Existing /\ links[scan.name] = scan.expected /\ NotProtected(scan.expected)
     THEN /\ scan' = [scan EXCEPT !.pc = "read", !.tries = @ + 1, !.time = files[scan.expected].time]
          /\ UNCHANGED <<built, history>>
     ELSE Fails
  /\ UNCHANGED <<source, selection, uploaded, previous, since, scans>>

\* A block of the open file is read and put in the store.
ReadBlock ==
  LET content == files[scan.expected].content
      next == Len(scan.data) + 1
  IN /\ At("read")
     /\ IF next <= Len(content)
        THEN /\ scan' = [scan EXCEPT !.data = Append(@, content[next])]
             /\ uploaded' = uploaded \cup {<<scan.expected, content[next]>>}
        ELSE scan' = [scan EXCEPT !.pc = "check"] /\ UNCHANGED uploaded
     /\ UNCHANGED <<source, selection, built, previous, history, since, scans>>

\* A bug to catch: only the size is compared.
SameSize == Len(scan.data) = Len(files[scan.expected].content)
\* The file has not changed since it was opened, and is still what the path leads to.
Stable ==
  /\ files[scan.expected].time = scan.time
  /\ Len(scan.data) = Len(files[scan.expected].content)
  /\ scan.name \in Existing /\ links[scan.name] = scan.expected

\* The entry is done, or the file is opened again, or the scan fails.
CheckFile ==
  /\ At("check")
  /\ \/ /\ Stable
        /\ built' = [n \in DOMAIN built \cup {scan.name} |->
                       IF n = scan.name
                       THEN [file |-> scan.expected, content |-> scan.data, time |-> scan.time]
                       ELSE built[n]]
        /\ scan' = [Idle EXCEPT !.pc = "next", !.began = scan.began, !.before = scan.before, !.names = scan.names]
        /\ UNCHANGED history
     \/ /\ ~Stable /\ scan.tries < StableReadTries
        /\ scan' = [scan EXCEPT !.pc = "open", !.time = 0, !.data = <<>>]
        /\ UNCHANGED <<built, history>>
     \/ ~Stable /\ scan.tries = StableReadTries /\ Fails
  /\ UNCHANGED <<source, selection, uploaded, previous, since, scans>>

\* The directory is the one that was listed.
SameDirectory == subTime = scan.before

\* A bug to catch: an ancestor keeps its modification time.
OwnTime == subTime
\* An ancestor of the selection has no modification time in the manifest.
DirectoryTime == IF selection = Names THEN subTime ELSE 0

\* The root that the entries hash to: names, content, times.
Root == [time |-> DirectoryTime,
         entries |-> [n \in DOMAIN built |-> [content |-> built[n].content, time |-> built[n].time]]]

\* All entries are built and the directory is the same: the root is committed unless it is the
\* root of the current commit.
Finish ==
  /\ At("next") /\ scan.names = DOMAIN built
  /\ IF SameDirectory
     THEN /\ previous' = {Root}
          /\ since' = IF Root \in previous THEN since ELSE scan.began
          /\ scan' = [Idle EXCEPT !.pc = "staged", !.names = scan.names]
          /\ UNCHANGED <<built, history>>
     ELSE Fails /\ UNCHANGED <<previous, since>>
  /\ UNCHANGED <<source, selection, uploaded, scans>>

\* The scan is over.
Rest ==
  /\ At("staged")
  /\ scan' = Idle /\ built' = Unbuilt /\ seen' = {}
  /\ UNCHANGED <<source, selection, uploaded, previous, contents, touched, since, scans>>

-----------------------------------------------------------------------------

Next ==
  \/ \E n \in Existing : Remove(n) \/ \E content \in Contents : WriteInPlace(n, content)
  \/ \E n \in Names : MoveProtected(n) \/ \E content \in Contents : Replace(n, content)
  \/ Begin \/ List \/ (\E n \in Names : Inspect(n))
  \/ OpenFile \/ ReadBlock \/ CheckFile \/ Finish \/ Rest

Spec == Init /\ [][Next]_vars

-----------------------------------------------------------------------------
(* Properties *)

\* No torn file is published: the content of an entry is what that file was at one instant, with
\* the modification time it had then, however it was written to while it was read.
EntryWasThere ==
  \A n \in DOMAIN built :
    <<built[n].file, [content |-> built[n].content, time |-> built[n].time]>> \in contents

\* No directory is published that never was: the entries of a finished scan were all there, at
\* one instant, and were all there was of the selection.
DirectoryWasThere ==
  At("staged") => \E d \in seen :
    /\ DOMAIN built = DOMAIN d \cap selection
    /\ \A n \in DOMAIN built : d[n] = built[n].file

\* A protected file never gets into the store, wherever in the source it is moved to and whenever.
ProtectedStaysOut == \A u \in uploaded : u[1] # Protected

\* What is not selected does not show: a scan gives another root than the current commit only if
\* a selected path changed since the scan of that commit began.
NothingElseShows == previous' # previous /\ previous # {} => touched > since
UnselectedDoesNotShow == [][NothingElseShows]_vars
=============================================================================
