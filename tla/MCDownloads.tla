---------------------------- MODULE MCDownloads ----------------------------
(***************************************************************************)
(* Instances for TLC of what readers download: chunks (ChunkDownload) and  *)
(* the manifests of a path (Lookup).  A behaviour is one of the two, named *)
(* by part; in the other one the variables of ChunkDownload keep their     *)
(* initial values and those of Lookup are 0.                               *)
(***************************************************************************)
EXTENDS ChunkDownload, TLC

CONSTANTS
  r1, r2, r3, big, small,
  u1, u2, Lookers, Hasty, Loads, CacheEntries, CacheBytes

VARIABLES part, current, order, retained, loading, load, caller, answer, failures

\* Three readers meet on the small chunk, one of them after the big one.
MeetingPlans == (r1 :> <<small>>) @@ (r2 :> <<small>>) @@ (r3 :> <<big, small>>)

\* The big chunk fills the budget, the small one leaves no room for it.
Sizes == (big :> 3) @@ (small :> 1)

\* Two snapshots in which a path is a file and then a symlink, below a directory that differs.
SomePath == <<"sub", "f">>
Roots == <<"r1", "r2">>
Manifests ==
  "r1" :> [sub |-> "s1"] @@ "r2" :> [sub |-> "s2"] @@ "s1" :> [f |-> "f1"] @@ "s2" :> [f |-> "l2"]
    @@ "f1" :> <<>> @@ "l2" :> <<>>

\* The cache holds two manifests, or one of the large ones.
Costs == [d \in DOMAIN Manifests |-> IF d = "s1" THEN 2 ELSE 1]

Operations == u1 :> {"stat", "open"} @@ u2 :> {"list", "open", "readlink"}

L == INSTANCE Lookup WITH
       Callers <- Lookers, Calls <- Operations, Impatient <- Hasty, Path <- SomePath, RootOf <- Roots,
       Entries <- Manifests, Directories <- {"r1", "r2", "s1", "s2"}, Links <- {"l2"}, Cost <- Costs,
       MaxEntries <- CacheEntries, MaxBytes <- CacheBytes, calls <- loading, faults <- failures

lookup == <<current, order, retained, loading, load, caller, answer, failures>>

NoLookup ==
  /\ current = 0 /\ order = 0 /\ retained = 0 /\ loading = 0
  /\ load = 0 /\ caller = 0 /\ answer = 0 /\ failures = 0

DownloadsInit ==
  /\ Init
  /\ \/ part = "chunks" /\ NoLookup
     \/ part = "lookup" /\ L!Init

DownloadsNext ==
  \/ part = "chunks" /\ Next /\ UNCHANGED <<part, lookup>>
  \/ part = "lookup" /\ L!Next /\ UNCHANGED <<part, vars>>

\* The fairness of each part.
DownloadsSpec ==
  /\ DownloadsInit /\ [][DownloadsNext]_<<part, vars, lookup>>
  /\ \A r \in Readers : WF_vars(part = "chunks" /\ ReaderStep(r))
  /\ \A f \in Flights : SF_vars(part = "chunks" /\ LoaderStep(f))
  /\ \A c \in Lookers : WF_lookup(part = "lookup" /\ L!CallerStep(c))
  /\ \A l \in Loads : WF_lookup(part = "lookup" /\ L!LoadStep(l))

-----------------------------------------------------------------------------
(* Properties of both parts; ReservationsReturn and NoOvertaking are those of the chunks. *)

\* The memory that downloads pin is accounted for and stays within its limits: what a reader
\* copies from is still charged to the byte budget and to a slot, which stays full while anybody
\* waits for it, and no chunk is loaded twice at a time (FlightGroup, acquireDownload); the
\* manifests in the metadata cache are charged exactly (metadataCache.Put).
MemoryIsAccounted ==
  /\ LeaseIsReserved /\ UsedIsHeld /\ HeadDoesNotFit /\ OneLoadPerChunk
  /\ part = "lookup" => L!TypeOK /\ L!CacheIsAccounted

\* Nobody inherits a cancellation: a read or a lookup whose own context is live never fails
\* because somebody else who shares its load gave up (FlightGroup.Do, metadataFlightGroup.Do).
CancellationIsOwn == OwnCancellationOnly /\ (part = "lookup" => L!OwnCancellationOnly)

\* A lookup answers for exactly one snapshot, the one it says it belongs to, whatever was
\* adopted, evicted or loaded for others meanwhile (resolve, Open).
AnswersOneSnapshot == part = "lookup" => L!AnswersOneSnapshot

\* Every read and every lookup returns and every loader ends: no waiter is left behind by a
\* load that was replaced, failed or cancelled, or by one that waits for the budget.
EverybodyReturns == []<>(IF part = "chunks" THEN Quiet ELSE L!AllReturned)
=============================================================================
