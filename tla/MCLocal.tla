------------------------------ MODULE MCLocal ------------------------------
(***************************************************************************)
(* One instance for TLC of the parts that work for themselves: the files   *)
(* of LocalFiles, the source directory (SourceFiles), the disk cache       *)
(* (DiskCache), the closure of a share (SnapshotClosure) and the inodes of *)
(* a mount (MountTree).  A behaviour is one of these parts, named by part. *)
(* The last three use the slots s1 to s13, and the variables of the others *)
(* keep their initial values in their behaviours.                          *)
(***************************************************************************)
EXTENDS LocalFiles, SourceFiles, TLC

CONSTANTS
  Users, CacheBytes, CacheChunk, CacheEntries, MaxIO, MaxDamage, MaxStops,
  MaxDepth,
  Requests, MaxHandles, Attempts, Limit, MaxInode, dir, file, top, FileIn

VARIABLES s1, s2, s3, s4, s5, s6, s7, s8, s9, s10, s11, s12, s13

\* Two chunks fill the cache.
Chunks == [large |-> 2, small |-> 1, other |-> 1]
C == INSTANCE DiskCache WITH
       ChunkSize <- Chunks, entries <- s1, lru <- s2, total <- s3, file <- s4, partial <- s5, open <- s6,
       closing <- s7, token <- s8, user <- s9, lost <- s10, io <- s11, damage <- s12, stops <- s13

\* Files that are longer than one read, and one that is not.
Texts == {<<0>>, <<0, 0>>, <<1, 1>>}

T == INSTANCE MountTree WITH
       MaxGeneration <- 2, snapshot <- s1, registry <- s2, next <- s3, live <- s4, links <- s5,
       handles <- s6, request <- s7

\* Trees of two directories below the root in which directories, a file and its chunks are
\* reached more than once and entries may state a wrong size.
Dir(d) == [kind |-> "dir", digest |-> d, size |-> 0]
File(d, n) == [kind |-> "file", digest |-> d, size |-> n]
Link(d, n) == [kind |-> "symlink", digest |-> d, size |-> n]
Chunk(d) == [kind |-> "chunk", digest |-> d, size |-> 0]
Object(ref) == [kind |-> ref.kind, digest |-> ref.digest]
Top == Dir("r")
Sizes == "f" :> 3 @@ "l" :> 1
Trees ==
  { Object(Top) :> r @@ Object(Dir("d")) :> d @@ Object(Dir("e")) :> e
      @@ Object(File("f", 3)) :> <<Chunk("a"), Chunk("b"), Chunk("a")>> @@ Object(Link("l", 1)) :> <<>> :
    r \in {<<x, y, z>> : x \in {Dir("d"), Dir("e")}, y \in {Dir("d"), File("f", 3)},
                         z \in {File("f", 3), Link("l", 1), Dir("e")}},
    d \in {<<>>, <<Dir("e")>>, <<File("f", 3)>>, <<File("f", 2)>>, <<Dir("e"), Link("l", 1)>>},
    e \in {<<>>, <<File("f", 3)>>, <<Link("l", 2)>>, <<Link("l", 1), File("f", 3)>>} }
Budgets == [objects : {2, 7, 9}, edges : {3, 8, 11}, bytes : {3, 5, 9}]
W == INSTANCE SnapshotClosure WITH
       Root <- Top, SizeOf <- Sizes, Generations <- 1..3, Limits <- Budgets,
       tree <- s1, generation <- s2, broken <- s3, limits <- s4, walker <- s5, commit <- s6, at <- s7

-----------------------------------------------------------------------------

slots == <<s1, s2, s3, s4, s5, s6, s7, s8, s9, s10, s11, s12, s13>>

\* The slots from the n-th on that a part does not use.
Unused8 == s8 = 0 /\ s9 = 0 /\ s10 = 0 /\ s11 = 0 /\ s12 = 0 /\ s13 = 0
Unused1 == s1 = 0 /\ s2 = 0 /\ s3 = 0 /\ s4 = 0 /\ s5 = 0 /\ s6 = 0 /\ s7 = 0 /\ Unused8

LocalInit ==
  /\ S!Init
  /\ \/ FilesInit /\ Unused1
     \/ /\ Init /\ H!Init /\ U!Init
        /\ \/ part = "scan" /\ Unused1
           \/ part = "cache" /\ C!Init
           \/ part = "closure" /\ W!Init /\ Unused8
           \/ part = "tree" /\ T!Init /\ Unused8
  /\ part # "file" => kind = "journal"
  /\ part # "scan" => selection = Names

LocalNext ==
  \/ FilesNext /\ UNCHANGED <<directory, slots>>
  \/ part = "scan" /\ S!Next /\ UNCHANGED <<filesVars, slots>>
  \/ part = "cache" /\ C!Next /\ UNCHANGED <<filesVars, directory>>
  \/ part = "closure" /\ W!Next /\ UNCHANGED <<filesVars, directory, s8, s9, s10, s11, s12, s13>>
  \/ part = "tree" /\ T!Next /\ UNCHANGED <<filesVars, directory, s8, s9, s10, s11, s12, s13>>

localVars == <<filesVars, directory, slots>>
LocalSpec == LocalInit /\ [][LocalNext]_localVars

\* Processes, installers, users, requests and publishers are interchangeable; only safety is checked.
LocalSymmetry == Permutations(Processes) \cup Permutations(Manifests)

-----------------------------------------------------------------------------
(* The properties of the parts; those of LocalFiles and SourceFiles are used as they are. *)

\* The disk cache stays within its limits, accounts for what it holds, and keeps the entry a
\* reader has pinned until the reader releases it, whatever eviction, replacement, a damaged
\* file or Close does meanwhile (makeRoomLocked, pin, unpin, discardPinned).
CacheIsSound == part = "cache" => C!IndexIsAccounted /\ C!DiskIsBounded /\ C!PinsAreHeld

\* A share grants exactly what its snapshot reaches, or none at all for a good reason
\* (ResolveSnapshotClosure).
ClosureIsExact == part = "closure" => W!TypeOK /\ W!ClosureIsExact

\* An inode and its number show one path of one snapshot for as long as the kernel or an open
\* handle has it, although consumers adopt snapshots between any two calls, and the registry
\* keeps no number for an inode that is gone (Lookup, Open, Opendir, stableAttr, release).
InodesAreStable == part = "tree" => T!ViewIsPinned /\ T!InodesAreUnique /\ T!IdentitiesAreReclaimed
=============================================================================
