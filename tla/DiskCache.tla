------------------------------- MODULE DiskCache -------------------------------
(***************************************************************************)
(* The chunk cache on disk (cache.go): an index of entries with pins and a *)
(* recency list in memory, one file per entry on disk.  Get pins an entry, *)
(* reads its file without the mutex and unpins or discards it; Put writes  *)
(* a temporary file under a single write token and installs it under the   *)
(* mutex, evicting what is not pinned; Close waits for both; opening a     *)
(* directory indexes the files it finds there.                             *)
(*                                                                         *)
(* A step is one critical section of mu, or the file work between two.     *)
(* The file system may fail at any call (MaxIO), files may rot or lose     *)
(* their end (MaxDamage) and the process may die (MaxStops).               *)
(***************************************************************************)
EXTENDS Naturals, Sequences, FiniteSets, FiniteSetsExt, SequencesExt

CONSTANTS
  Users,         \* goroutines that call Get and Put
  ChunkSize,     \* the size of each chunk that may be cached, by digest
  CacheBytes,    \* options.MaxBytes
  CacheChunk,    \* options.MaxChunkBytes
  CacheEntries,  \* options.MaxEntries
  MaxIO,         \* bound on file-system calls that fail
  MaxDamage,     \* bound on files damaged from outside
  MaxStops       \* bound on deaths and closings of the process

VARIABLES
  entries,   \* DiskCache.entries: a function from the indexed digests
  lru,       \* DiskCache.lru, most recently used first
  total,     \* DiskCache.totalBytes
  file,      \* the value files of the directory, by digest
  partial,   \* number of temporary files in the directory
  open,      \* the cache is open: a process has indexed it and not closed it
  closing,   \* Close waits for the lifecycle lock
  token,     \* the user that holds writeToken, or none
  user,      \* the goroutines
  lost,      \* best-effort removals of a value file that failed since the last opening
  io, damage, stops

vars == <<entries, lru, total, file, partial, open, closing, token, user, lost, io, damage, stops>>

disk == <<file, partial>>
index == <<entries, lru, total>>
bounds == <<io, damage, stops>>

Digests == DOMAIN ChunkSize

NoFile == [size |-> 0, sound |-> FALSE]
Idle == [pc |-> "idle"]
Nobody == "nobody"

\* The sizes of a set of entries or files, summed.
SizeOf(f, S) == MapThenSumSet(LAMBDA d : f[d].size, S)

Present == {d \in Digests : file[d] # NoFile}

Init ==
  /\ entries = <<>> /\ lru = <<>> /\ total = 0
  /\ file = [d \in Digests |-> NoFile]
  /\ partial = 0
  /\ open = TRUE /\ closing = FALSE
  /\ token = Nobody
  /\ user = [u \in Users |-> Idle]
  /\ lost = FALSE
  /\ io = 0 /\ damage = 0 /\ stops = 0

\* A file-system call fails, or the directory is not the one that was opened any more
\* (validateLayout, validateShard).
Fault == io < MaxIO /\ io' = io + 1
Fine == UNCHANGED io

\* beginOperation: the lifecycle lock is shared, and a Close that waits for it comes first.
beginOperation(u) == user[u].pc = "idle" /\ open /\ ~closing

Without(f, S) == [d \in DOMAIN f \ S |-> f[d]]
Removed(seq, S) == SelectSeq(seq, LAMBDA d : d \notin S)
Cleared(S) == [d \in Digests |-> IF d \in S THEN NoFile ELSE file[d]]

-----------------------------------------------------------------------------
(* Removal and eviction *)

\* The index without S; the byte count never drops below zero.
RemovedFromIndex(S) ==
  /\ entries' = Without(entries, S) /\ lru' = Removed(lru, S)
  /\ total' = LET freed == SizeOf(entries, S) IN IF total < freed THEN 0 ELSE total - freed

\* removeEntryLocked by the last reader of an invalid entry.  A failure comes either before
\* anything has changed, and the entry stays without pins, or after entry and file are gone
\* (the directory cannot be synced or validated).
removeEntryLocked(d) ==
  \/ (Fine \/ Fault) /\ RemovedFromIndex({d}) /\ file' = Cleared({d})
  \/ /\ Fault /\ entries' = [entries EXCEPT ![d].pins = 0, ![d].invalid = TRUE]
     /\ UNCHANGED <<lru, total, file>>

\* Victims that may be in use.
AnyVictim(gone) == Reverse(Removed(lru, gone))
\* The entries that makeRoomLocked may evict when those in gone have left the index already,
\* least recently used first.
Evictable(gone) == Reverse(SelectSeq(Removed(lru, gone), LAMBDA d : entries[d].pins = 0))

\* The loop condition of makeRoomLocked is false once gone has left the index.
HasRoom(gone, size) ==
  /\ total - SizeOf(entries, gone) + size <= CacheBytes
  /\ Cardinality(DOMAIN entries \ gone) < CacheEntries

\* The victims of makeRoomLocked, in order: as few as make room for a chunk of this size, and
\* all that are not pinned if those do not suffice.
Evictions(gone, size) ==
  LET victims == Evictable(gone)
      enough == {n \in 0..Len(victims) : HasRoom(gone \union ToSet(SubSeq(victims, 1, n)), size)}
  IN SubSeq(victims, 1, IF enough = {} THEN Len(victims) ELSE Min(enough))

-----------------------------------------------------------------------------
(* Get *)

\* get up to the unlock: a hit is pinned and moved to the front.  A miss changes nothing, and
\* only GetSized asks for the size.
Get(u) ==
  /\ beginOperation(u)
  /\ \E d \in DOMAIN entries :
       /\ ~entries[d].invalid
       /\ \E sized \in BOOLEAN : sized => entries[d].size = ChunkSize[d]
       /\ entries' = [entries EXCEPT ![d].pins = @ + 1]
       /\ lru' = <<d>> \o Removed(lru, {d})
       /\ user' = [user EXCEPT ![u] = [pc |-> "read", on |-> d]]
  /\ UNCHANGED <<total, disk, open, closing, token, lost, bounds>>

\* readEntry: an I/O error or a cancelled context, an unusable file, or verified contents.
ReadEntry(u) ==
  /\ user[u].pc = "read"
  /\ LET d == user[u].on
         usable == file[d].size = entries[d].size /\ file[d].sound
     IN \/ Fault /\ user' = [user EXCEPT ![u].pc = "unpin"]
        \/ Fine /\ user' = [user EXCEPT ![u].pc = IF usable THEN "unpin" ELSE "discard"]
  /\ UNCHANGED <<index, disk, open, closing, token, lost, damage, stops>>

\* unpin; the last reader of an invalid entry tries to remove it.
Unpin(u) ==
  LET d == user[u].on
      last == entries[d].pins = 1
  IN /\ user[u].pc = "unpin"
     /\ IF entries[d].invalid /\ last
        THEN removeEntryLocked(d)
        ELSE /\ entries' = [entries EXCEPT ![d].pins = @ - 1]
             /\ Fine /\ UNCHANGED <<lru, total, file>>
     /\ user' = [user EXCEPT ![u] = Idle]
     /\ UNCHANGED <<partial, open, closing, token, lost, damage, stops>>

\* discardPinned removes the entry with its last pin.
LastPin(d) == entries[d].pins = 1

\* discardPinned.
Discard(u) ==
  LET d == user[u].on
  IN /\ user[u].pc = "discard"
     /\ IF LastPin(d)
        THEN removeEntryLocked(d)
        ELSE /\ entries' = [entries EXCEPT ![d].pins = @ - 1, ![d].invalid = TRUE]
             /\ Fine /\ UNCHANGED <<lru, total, file>>
     /\ user' = [user EXCEPT ![u] = Idle]
     /\ UNCHANGED <<partial, open, closing, token, lost, damage, stops>>

-----------------------------------------------------------------------------
(* Put *)

Cacheable(d) == ChunkSize[d] <= CacheChunk /\ ChunkSize[d] <= CacheBytes

\* Put takes the write token and creates its temporary file.
Put(u) ==
  /\ beginOperation(u) /\ token = Nobody
  /\ \E d \in Digests :
       /\ Cacheable(d)
       /\ user' = [user EXCEPT ![u] = [pc |-> "write", on |-> d]]
  /\ token' = u
  /\ partial' = partial + 1
  /\ UNCHANGED <<index, file, open, closing, lost, bounds>>

\* Put returns: the token is free, and its temporary file, unless it was renamed, is removed
\* if that works.
Returned(u) == user' = [user EXCEPT ![u] = Idle] /\ token' = Nobody
ReturnDone(u) == Returned(u) /\ partial' = partial - 1
ReturnNil(u) == Returned(u) /\ \/ Fine /\ partial' = partial - 1
                               \/ Fault /\ UNCHANGED partial
ReturnError(u) == Returned(u) /\ Fault /\ partial' \in {partial - 1, partial}

\* The temporary file cannot be written, or the context ends.
WriteFails(u) ==
  /\ user[u].pc = "write"
  /\ ReturnError(u)
  /\ UNCHANGED <<index, file, open, closing, lost, damage, stops>>

\* Put leaves an entry that is being read alone.
KeepsExisting(d) == d \in DOMAIN entries /\ entries[d].pins # 0

\* The entry that Put replaces.
Existing(d) == {d} \cap DOMAIN entries

\* The index after Put has installed d and dropped the entries in gone.
Installed(d, gone) ==
  /\ entries' = [e \in (DOMAIN entries \ gone) \union {d} |->
                   IF e = d THEN [size |-> ChunkSize[d], pins |-> 0, invalid |-> FALSE] ELSE entries[e]]
  /\ lru' = <<d>> \o Removed(lru, gone)
  /\ total' = (total - SizeOf(entries, gone)) + ChunkSize[d]

\* Put from the lock to its return: replace the entry, make room, install the file.
Install(u) ==
  LET d == user[u].on
      victims == Evictions(Existing(d), ChunkSize[d])
      gone == Existing(d) \union ToSet(victims)
      room == HasRoom(gone, ChunkSize[d])
  IN /\ user[u].pc = "write"
     /\ \/ KeepsExisting(d) /\ UNCHANGED <<index, file, lost>> /\ ReturnNil(u)
        \/ \* a removal fails, before or after it took effect, or the shard has changed
           /\ ~KeepsExisting(d)
           /\ \/ UNCHANGED <<index, file>>
              \/ \E n \in 0..Len(victims) :
                   LET some == Existing(d) \union ToSet(SubSeq(victims, 1, n))
                   IN /\ RemovedFromIndex(some)
                      /\ file' \in {Cleared(some)} \union
                                   (IF room /\ some = gone THEN {Cleared(some \union {d})} ELSE {})
           /\ UNCHANGED lost /\ ReturnError(u)
        \/ \* everything that is left is pinned
           /\ ~KeepsExisting(d) /\ ~room
           /\ RemovedFromIndex(gone) /\ file' = Cleared(gone)
           /\ UNCHANGED lost /\ ReturnNil(u)
        \/ \* the file is renamed, and the directory cannot be synced or validated
           /\ ~KeepsExisting(d) /\ room /\ Fault
           /\ RemovedFromIndex(gone)
           /\ \/ file' = Cleared(gone \union {d}) /\ UNCHANGED lost
              \/ /\ file' = [Cleared(gone) EXCEPT ![d] = [size |-> ChunkSize[d], sound |-> TRUE]]
                 /\ lost' = TRUE
           /\ ReturnDone(u)
        \/ /\ ~KeepsExisting(d) /\ room /\ Fine
           /\ Installed(d, gone)
           /\ file' = [Cleared(gone) EXCEPT ![d] = [size |-> ChunkSize[d], sound |-> TRUE]]
           /\ UNCHANGED lost /\ ReturnDone(u)
     /\ UNCHANGED <<open, closing, damage, stops>>

-----------------------------------------------------------------------------
(* The lifetime of the cache *)

\* The lifecycle lock is free of readers.
Quiet == \A u \in Users : user[u].pc = "idle"

\* Close asks for the lifecycle lock.
CloseCalled ==
  /\ open /\ ~closing /\ stops < MaxStops
  /\ closing' = TRUE /\ stops' = stops + 1
  /\ UNCHANGED <<index, disk, open, token, user, lost, io, damage>>

Forgotten == entries' = <<>> /\ lru' = <<>> /\ total' = 0

\* Close gets the lock; the index goes with the cache.
Close ==
  /\ closing /\ Quiet
  /\ open' = FALSE /\ closing' = FALSE
  /\ Forgotten
  /\ UNCHANGED <<disk, token, user, lost, bounds>>

\* The process dies: its index and its locks are gone, the files stay.
Die ==
  /\ open /\ stops < MaxStops
  /\ open' = FALSE /\ closing' = FALSE
  /\ Forgotten
  /\ token' = Nobody
  /\ user' = [u \in Users |-> Idle]
  /\ stops' = stops + 1
  /\ UNCHANGED <<disk, lost, io, damage>>

\* A file loses its end or its contents.
Damage ==
  /\ damage < MaxDamage /\ damage' = damage + 1
  /\ \E d \in Present :
       \E s \in {1, file[d].size} : file' = [file EXCEPT ![d] = [size |-> s, sound |-> FALSE]]
  /\ UNCHANGED <<index, partial, open, closing, token, user, lost, io, stops>>

\* One candidate of indexExisting: the oldest leave the heap until the rest is within the limits.
Admit(newest, kept, d) ==
  LET found == SelectSeq(newest, LAMBDA e : e \in kept \union {d})
      fits(n) == n <= CacheEntries /\ SizeOf(file, ToSet(SubSeq(found, 1, n))) <= CacheBytes
  IN ToSet(SubSeq(found, 1, Max({n \in 0..Len(found) : fits(n)})))

\* startupCandidate: temporary files and files of a size no entry may have are no candidates.
Candidates == {d \in Present : file[d].size <= CacheChunk /\ file[d].size <= CacheBytes}

\* The directories are read in batches, in whatever order they are in.
ReadOrders == SetToSeqs(Candidates)

\* What the scan keeps of the first n candidates.
KeptOf(newest, scan, n) == FoldLeft(LAMBDA kept, d : Admit(newest, kept, d), {}, SubSeq(scan, 1, n))

\* The index of the kept files, the newest first.
Indexed(newest, kept) ==
  /\ entries' = [d \in kept |-> [size |-> file[d].size, pins |-> 0, invalid |-> FALSE]]
  /\ lru' = SelectSeq(newest, LAMBDA d : d \in kept)
  /\ total' = SizeOf(file, kept)

\* NewDiskCacheWithOptions on an existing directory: every file that is not kept goes; a scan
\* that fails has removed some of them.
Open ==
  /\ ~open
  /\ \E newest, scan \in ReadOrders :
       \/ LET kept == KeptOf(newest, scan, Len(scan))
          IN /\ Fine
             /\ open' = TRUE /\ lost' = FALSE /\ partial' = 0
             /\ file' = Cleared(Digests \ kept)
             /\ Indexed(newest, kept)
       \/ /\ Fault
          /\ \E n \in 0..Len(scan) : file' = Cleared(ToSet(SubSeq(scan, 1, n)) \ KeptOf(newest, scan, n))
          /\ \E n \in 0..partial : partial' = n
          /\ UNCHANGED <<index, open, lost>>
  /\ UNCHANGED <<closing, token, user, damage, stops>>

Next ==
  \/ \E u \in Users : Get(u) \/ ReadEntry(u) \/ Unpin(u) \/ Discard(u) \/ Put(u) \/ WriteFails(u) \/ Install(u)
  \/ CloseCalled \/ Close \/ Die \/ Damage \/ Open

Spec == Init /\ [][Next]_vars

-----------------------------------------------------------------------------
(* Properties *)

\* The readers of an entry between its pin and its release.
Holders(d) == {u \in Users : user[u].pc \in {"read", "unpin", "discard"} /\ user[u].on = d}

\* The index accounts for itself: the byte count is the sum of the entries' sizes, the recency
\* list holds every entry once, and both limits are respected, whatever removals failed half-way
\* and whatever could not be evicted (removeEntryLocked, makeRoomLocked, indexExisting).
IndexIsAccounted ==
  /\ total = SizeOf(entries, DOMAIN entries) /\ total <= CacheBytes
  /\ Cardinality(DOMAIN entries) <= CacheEntries
  /\ Len(lru) = Cardinality(DOMAIN entries) /\ ToSet(lru) = DOMAIN entries

\* From its pin to its release a reader's entry stays indexed, with exactly as many pins as
\* there are readers, so that unpin and discardPinned always meet the entry that was pinned;
\* and Close never takes the directory handle from under one (lifecycleMu).
PinsAreHeld ==
  /\ \A d \in DOMAIN entries : entries[d].pins = Cardinality(Holders(d))
  /\ \A d \in Digests : Holders(d) # {} => open /\ d \in DOMAIN entries

\* As long as no best-effort removal of a file has failed, the value files are those of the
\* index and fit in MaxBytes, and the only other file is that of the one writer; reopening
\* re-establishes this after any crash (Put, removeEntryLocked, indexExisting).
DiskIsBounded ==
  open /\ ~lost =>
    /\ Present \subseteq DOMAIN entries
    /\ SizeOf(file, Present) <= CacheBytes
    /\ partial <= io + (IF token = Nobody THEN 0 ELSE 1)
=============================================================================
