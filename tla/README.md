# s3disk in TLA+

A verification development for `s3disk`: TLA+ models of the protocols that keep a
published file system consistent in an object store that offers nothing but
conditional writes, TLC runs that check them on small instances, and TLAPS proofs
of the most important invariants for every instance.

## 1. The system

A **publisher** scans a local directory into immutable, content-addressed objects
(chunks, file, directory and commit manifests) and moves one mutable, signed
**reference** per channel from a commit to its child. A **consumer** refreshes
the reference, checks that it descends from what it already trusts, remembers a
durable **watermark**, and serves reads of the snapshot by downloading chunks. A
**share** lets a consumer without credentials read through presigned URLs; its
publisher keeps a mutable signed **root** bundle per snapshot. `Watch` ties
publication and the share root together for a changing source; a mount or a WebDAV
server exposes the consumer's snapshots.

| Part | State | Operations | Interacts with | What makes it hard |
|---|---|---|---|---|
| Signed publication (`publisher.go`, `publication_recovery.go`, `publication_journal.go`) | journal (committed watermark, pending intent, revision), reference object, staged snapshot | Stage, Commit, ResignReference, RecoverPublication | store, other publishers, its own restart | lost answers, requests that land late, crash between journal and reference, shared journals, restored references |
| Unsigned publication (`publisher.go`) | reference object, staged snapshot | Stage, Commit, reconcileCommit | store, other publishers | no journal: the verdict rests on a later, possibly stale read |
| Source scan (`publisher.go`) | entries and blocks built so far | stage, StageSelected, buildDirectorySelection, buildFile | programs that edit the source | files and directories that change under the scan |
| Snapshot closure (`snapshot_closure.go`) | keys, edges, stack, budgets | ResolveSnapshotClosure | store | sharing, budgets at their limit, inconsistent manifests |
| Consumer (`consumer.go`, `watermark.go`) | current snapshot, ETag, watermark in memory and on disk | Refresh, Poll | store, other processes sharing the watermark | rename visible before it is durable, stale or forked references, concurrent refreshes |
| Lookups (`consumer.go`, `metadata_cache.go`) | LRU of manifests, shared loads | Stat, ListDir, Open, Readlink | Refresh, other callers | a snapshot adopted in the middle, cancellation of a shared load |
| Downloads (`internal/syncutil`, `consumer.go`) | flights, users, slots, byte budget, waiters | FlightGroup.Do, abandon, release, Acquire, Release | readers of one consumer | cancellation against completion and grant, starvation, leaks |
| Disk cache (`cache.go`) | entries, pins, LRU, totals, files | open, Get, Put, evict, discard, Close | readers, file system | pins against eviction and replacement, calls that fail half way |
| Share root publisher (`presignedshare/root_*.go`) | root object, sealed recovery journal | PrepareRecovery, Create, Update, RecoverPending | store, other root publishers, Watch | replay of exact bytes, re-encrypted roots, late writes |
| Share reader (`presignedshare/reader.go`) | current bundle, retained capabilities, ETag | Get, refresh, install | share root | retention budget, 304 answers, overlapping polls, expiry |
| Watch (`live.go`) | channels, debounce and retry timers, barrier, acknowledged generation | event, tick, publish, hook, retry, shutdown | publication, share root | coalesced requests, barrier, shutdown while blocked, restarts |
| Publisher sessions (`internal/cli/publish.go`, `resume.go`, `publisher_session*.go`) | durable phase of a session | publish, resume, advance | publication, root, handoff, sealed store | crash between an effect and its record |
| Local files (`sealed_state_store.go`, `publication_journal.go`, `watermark.go`, `internal/cli/private_file.go`) | visible and durable directory entries, lock | Load, CompareAndSwap, writePrivateFileNoReplace | everything above | a rename or link that a crash undoes |
| Mount (`mount`), mount sets (`internal/cli/mount_set.go`) | unmount attempts, inode tables, observed and notified snapshot, supervised tasks | unmount, invalidate, lookup, open, forget, supervise | kernel, consumer | external stop against unmount, lost wake-ups, snapshots that change between two calls |
| Cryptography, S3 adapter, WebDAV, probes, CLI | little or none | | | see section 7 |

`PROJECT.json` lists all parts under `components` and, under `hazards`, each place
where this code could go wrong in a way that a test hardly reaches, with the
properties that would show it.

## 2. Modules

| Module | Models | State and actions against the code |
|---|---|---|
| `Lineage` | commits, descent and anchor checks | A commit digest fixes its ancestry, so a commit *is* the sequence of manifests up to it. `DescentVerdict` is `validatePublicationDescendant` and `validateDescendant` with the walk limit. |
| `Channel` | the promise of a channel, abstractly | The published chain grows by one manifest at a time, or is set back by an operator. `Publication` and `UnsignedCommit` implement it. |
| `Publication` | a channel's signed reference, journals and publishers | One action per call on the journal or the store, with the local work up to the next call. `pub[p]` is the stack of an operation: `st`, `rev` the journal state it holds, `initial` the intent a recovery works on, `intent` the staged one. `inflight` are reference writes whose caller got no answer. |
| `UnsignedCommit` | publishers without a signer | `Stage`, `Commit`, `Swap` (the conditional write), `Reconcile` (`reconcileCommit`); `flying` are writes that may still arrive; a read may return an ancestor of the reference. |
| `SourceScan` | a scan of a directory while it is edited | One step per file-system call: open, stat, read a block, check again. Files are written, replaced, renamed and removed in between; one of them is protected. |
| `SnapshotClosure` | `ResolveSnapshotClosure` | `walker` is `snapshotClosureWalker`; one step per commit and per node of the stack. The tree and the budgets are chosen in `Init`. |
| `Consumer` | `Refresh`/`Poll` and the watermark file | `file` is what processes see, `disk` what survives a machine crash. A refresh reloads the watermark, gets the reference, checks it, persists, exposes. |
| `Lookup` | path lookups, metadata cache and its flight group | A caller captures root and generation, then takes one manifest after the other from the cache or a shared load; `Adopt` is a refresh. |
| `WeightedSemaphore` | the byte budget | FIFO admission with a waiter that may be granted and cancelled at once. Instantiated by `ChunkDownload`, which shares its variables. |
| `ChunkDownload` | `FlightGroup`, `acquireDownload`, leases | One action per critical section, channel operation or outside effect; a flight is `<<chunk, n>>`. |
| `DiskCache` | the chunk cache on disk | One step per critical section of the mutex and per piece of file work between two; every file call may fail, files may be damaged, the process may die. |
| `RootPublication` | the share root, its publishers and the sealed journal | One action per call on store or journal. A root is revision, closure, build and encryption. `late` are writes without an answer. `bare`, chosen in `Init`, are publishers without a journal. |
| `ShareReader` | the reader of a share | `gate` is `refreshGate`; a poll sends the ETag it has, verifies the answer and installs it; a read of an object looks for its capability, first without and then under the gate. |
| `Watch` | the watch loop and its worker | The two goroutines, channels `requests` and `results` of capacity one, timers, and a restart of the process. Publication is reduced to its outcome: a scan, then a new generation if the content differs. |
| `PublisherSession` | publish and resume | The seven durable phases and the effect between each two; effects are what the modules above promise of them, and one that fails may have happened. |
| `DurableFile` | the three compare-and-swap files | `visible` is the file at the path, `pending` are the files a crash may leave there; `kind` distinguishes sealed state, journal and watermark. |
| `HandoffInstall` | the handoff file | Stage, sync, link without replacing, remove the staging name, sync the directory, and what follows when any of these fails. |
| `MountLifecycle` | how a mount ends | Callers, the attempt they share, the monitor, the automatic unmount and the goroutine that closes `Done`. |
| `MountInvalidation` | how the kernel learns of snapshots | The poller, the coordinator, the wake-up channel and the status between them. |
| `MountTree` | inodes | Lookup, open, readdir and forget with the registry of inode numbers; the consumer moves on between any two steps. |
| `MountSet` | mounts side by side | Preparation, the check that they are apart, supervision. `task` is the goroutine of each workspace (`runPreparedMount`, `waitForMountLifecycle`), `up` the FUSE servers that are really there: a task that met `stop_failed` answers with an error while its server is up. |
| `Views`, `LocalFiles`, `SourceFiles`, `Mounts` | parts side by side | Instances of the components named in them, with variables of their own, for the modules that check or prove several components at once. |
| `PublicationSteps`, `PublicationReports`, `*Proofs` | lemmas and theorems | section 6 |

`MC*` modules give the constants values for TLC. `MCViews`, `MCDownloads`, `MCLocal`
and `MCProgress` check several modules in one run: the variable `part`,
chosen at the start and never changed, says which of them a behaviour is about; the
others rest. The parts share no state, so this is the same as a run for each.

Definitions that no action uses and whose comment describes a defect (for instance
`Lineage!DescentByGeneration`) are mutated forms of the definition that follows them;
each property is known to fail when the definition named in `PROJECT.json` is replaced
by its mutated form.

Composition: `Publication` and `Consumer` share `Lineage`; `ChunkDownload` composes
the flight group with the semaphore; `Watch` composes the worker with the outcomes of
publication and of the hook; `PublisherSession` composes the promises of the sealed store,
the publication, the share root and the handoff file, each of which is a module and a
property of its own. `Consumer` contains its own environment of publishers and of a
store that goes back: what `Channel` promises is one of the behaviours of that
environment. `MountSet` and `MountInvalidation` use the promises of
`MountLifecycle` and `Consumer`.

## 3. Runs

| Run | Instance | Properties | Distinct states |
|---|---|---|---|
| `publication_shared` | two publishers with rotated keys, one journal, two generations, one fault | `IndInv`, `ReportsAreTrue` | 688,567 |
| `publication_hosts` | two publishers with a journal each, three generations, one fault | `SupersededIsFinal`, `ImplementsChannel` | 922,136 |
| `publication_mishaps` | as before, a published first commit as checkpoint of one, walk limit 1, one restored reference or deleted journal | `JournalNeverForks` | 273,764 |
| `publication_conflict` | two publishers, one journal, no fault | `ConflictIsNotPublished`: violated | |
| `root_publication` | two publishers of an encrypted share, each with or without journal, three closures, two builds, one fault, one mishap | `RootIsKnown`, `NothingGoesBack` | 2.2 million |
| `root_prepared` | an unencrypted share | `PreparedIsDurable`: violated | |
| `views` | two consumers sharing a watermark, one with a checkpoint, two generations, two roots, a key rotation, two mishaps; a share reader with two callers, three revisions and three foreign ones, retention budgets that the signed revisions just fit and a foreign one exceeds, one upset, one failure | `ExposedIsAnchored`, `ViewsAdvance`, `HandlesStayReadable`, `NoFalseAlarm`, `DenialIsTrue` | 2.3 million |
| `watch` | two changes, two faults, one cancellation or crash, with and without ticker | `HooksInOrder`, `ShutsDown`, `ReachesSync` | 414,836 |
| `downloads` | three readers, two chunks, the big one fills the budget, one reader may be cancelled, one load fails; two callers of a path of two components, two snapshots, a cache of two manifests | `MemoryIsAccounted`, `ReservationsReturn`, `CancellationIsOwn`, `AnswersOneSnapshot`, `NoOvertaking`, `EverybodyReturns` | 114,823 |
| `local` | two processes for each part: three files, two faults and two crashes for the stores and the handoff; a cache for two of three chunks; two files and two edits under two scans; 240 trees under 27 budgets; three generations for the unsigned commit; two requests, one handle and two snapshots for the inodes | `AcknowledgedSurvives`, `BaseIsDurable`, `HandoffIsConfirmed`, `CacheIsSound`, `ScanIsConsistent`, `UnselectedDoesNotShow`, `ClosureIsExact`, `ReportIsFinal`, `InodesAreStable` | 941,709 |
| `progress` | one publisher with four faults; two consumers; two root publishers up to the first root, one with two updates and two faults; two processes of a session with two faults and two deaths; a mount with one caller beside the automatic unmount and the kernel, three attempts, two refusals; three snapshots, a failing sweep and a failing poll; three workspaces in 48 configurations | `PendingIsResolved`, `CatchesUp`, `RootSettles`, `SessionIsSound`, `SessionOnlyAdvances`, `SessionCompletes`, `MountsAreApart`, `StatusIsTrue`, `KernelCatchesUp`, `EverythingStops` | 191,746 |
| `mount_set_stop` | two workspaces that are apart, under one command | `RemainingMountIsReported`: violated | |

What the properties say stands before each of them in the modules.

**Bounds.** Every counter that the code does not bound has a named bound. Two
publishers, hosts, consumers, callers or processes are the least that interfere; a second
generation is needed for a conflict and a third for a superseded intent whose winner was
itself extended. `Roots = {a, b}` gives two scans of different content. One fault is
enough for each recovery path to be entered from each call (a crash, a call that
failed, or one that was applied without an answer); parts with small states
afford two or more, so that a recovery is itself interrupted. `Revisions` are random and
never reused in the code; the model picks one that neither the journal nor a publisher
using it holds, and the runs provide one more than these can hold at a time. The walk limit is
below the number of generations in `publication_mishaps` and in the unsigned commit, so that
it is hit. `MaxGeneration` plays the part of `math.MaxUint64` in `Publication`. Budgets
(`MaxBytes`, `CacheBytes`, `CacheEntries`, `MaxCaps`, `Limits`, `Limit`) are chosen
between what one and what two users need, so that each is both met and exceeded.
`StableReadTries` and `Attempts` are two, so that a retry can succeed and can run out.

**Symmetry** is used for revisions, for root publishers, and in `local` for processes and
manifests, in runs that check no liveness. **Deadlock** is checked in the runs of
`Publication` and `RootPublication`. In the others the system really may stop: a quiet
source without a ticker leaves the watch loop waiting for good, readers and scans
are bounded in number, and a mount, a session and a walk come to their end.

**Fairness.**
- Publication (`PendingIsResolved`): an operation goes on to its next call (every call has a
  context and returns), a process calls `RecoverPublication` again (each Stage
  begins with it), and the store eventually applies or drops a request.
- Share root (`RootSettles`): a call goes on, and `RecoverPending` is called again and again,
  as publish and resume do first of all. Every writer of the share uses the
  journal and nobody tampers with the bucket.
- Consumer (`CatchesUp`): weak fairness of `Refresh`, since `Poll` refreshes again after
  every result and every error.
- Session (`SessionCompletes`): a process that runs goes on, and the operator resumes a session
  that nobody runs.
- Downloads (`EverybodyReturns`): goroutines run and the store answers. Loaders have strong
  fairness because a slot is a channel send and the Go runtime queues blocked senders
  in order.
- Watch: weak fairness for each case of the loop's select (Go chooses among ready
  cases at random) but only for the worker *as a whole*: nothing is assumed about
  which ready case its select takes. The priority of the retry timer is therefore
  needed for `ReachesSync`.
- Mount: every goroutine goes on, and the automatic unmount runs into its timeout. Nothing is
  assumed of `server.Unmount`: the operating system may refuse it or hold it for ever,
  and `EverythingStops` then asks only that `stop_failed` stays in the status. Nobody
  has to call and no other context has to end. A poller in its pause sees a cancellation
  in the end, since the pause is a select between timer and context.
- Mount set: the supervisor goes on, and a mount whose context is done answers, which is what
  `MountLifecycle` promises of it (`mountLifecycleFailure` is looked at on every tick). Nothing
  makes a healthy mount end, and nothing makes a server go down.
- `MCProgress` states one condition for an action of each part, since steps of two parts are
  never enabled in one behaviour. For the goroutines of a mount that take finitely many steps,
  its attempts and the tasks of a set it asks only that some of them goes on.

Faults and mishaps are bounded in number, hence "once faults stop" needs no
extra assumption in the liveness properties.

## 4. Findings

1. `publication_conflict` (`src/publication_recovery.go:814`). The comment at 793-799
   wants an applied publication never to be reported as a conflict. With a shared
   journal it is, when the other process resolves our intent and
   records its own before we read the journal again. The publication itself
   is sound: `ReportsAreTrue` holds.
2. `root_prepared` (`src/presignedshare/root_recovery.go:743`). After a failed save
   `saveRootRecovery` reloads the journal and compares the encoded record with
   the one it wanted to save, without asking whether a record was found. For the
   prepared record of an unencrypted share an absent journal compares equal, so
   `PrepareRecovery` returns success with nothing stored.
3. `mount_set_stop` (`src/internal/cli/mount_set.go:330`). `docs/MOUNT_SET.md:73-76` says that
   after a `stop_failed` "the process then returns an error so operators do not
   mistake a remaining mount for a clean stop". `superviseMountSet` keeps the error of a workspace only
   while the context of its caller is live. After a cancellation, the usual end of the command,
   the error of a mount that could not be unmounted is dropped and the command returns
   nil with the mount still there. What does hold is `EverythingStops`: the command
   returns behind an answer of every mount, and what is still up was answered for with an error.

## 5. Simplifications that matter

- The ETag of an object is its content. Memstore and S3 give identical bytes
  identical tags, so an ABA of the reference by identical bytes is possible in the
  model as in the code. In `ShareReader` and `RootPublication` a new encryption of the same
  bundle has a new ETag.
- Signatures and encryption are verified by what they say; a reader never sees a
  forged object. A different key makes a different envelope.
- Manifests are immutable: a failing download is one more failure of the
  call before it.
- Cancellation and expiry end an operation where a failing call does.
- A file lock makes the call it protects one step, except in `DurableFile`, where the
  lock is modelled.
- `SourceScan`: every change of a file or directory gives it a new modification time. On a
  file system with a coarse clock two changes within one tick that keep the size are
  invisible to the code as well.
- `DurableFile`, `HandoffInstall`: a crash leaves, of the names changed since the last sync of
  the directory, any that was visible in between.
- `DiskCache`: `unpin` and `discardPinned` compare the entry they pinned with the one in the index.
  The model has one entry per digest and no such comparison; `CacheIsSound` shows that a pinned
  entry stays in the index until its last reader lets go, so that they always meet it.
- `MountTree`: a new inode key may be refused at any time. In the code that is at the limit of
  identities, at the limit of their bytes, or when the numbers are used up; bytes are not counted.
- `ShareReader`: the check for one ETag with two digests (`reader.go:535-537`) is left out. The
  ETag of a bundle is its content here, and in the code it is reached only from a store that
  gives two contents one tag.
- `RootPublication`: a call that stops before it writes because the revisions are exhausted, or
  because it has no authority to build (`ErrRootBuildAuthorityRequired`), is an
  operation that never begins. Revisions are bounded by `MaxBuilds` and `MaxAttempts`.
- `SnapshotClosure`: an ancestry that ends early is refused by `validateCommitManifest`, so that the
  check for it in the loop (`ErrSplitBrain`) is never reached. A download that fails or a context that ends, which make the call
  return nothing at any point, are left out.
- `UnsignedCommit`: a weak read returns any ancestor of the reference or finds none.
- `PublisherSession`: in the watch loop a root update that fails is tried again, as the hook is,
  until it succeeds or the process ends.
- `DiskCache` and `Lookup` take a chunk or manifest as its digest; content that does not match
  is a damaged file or a failed download.

## 6. Proofs

Every theorem holds for all values of the constants that meet the named assumptions: any number of
processes, publishers, callers and files, any limits, and any number of faults and crashes. A
theorem about a module that is one of several in a run is stated of that module's specification.

| Module | Theorem | States | Assumptions |
|---|---|---|---|
| `PublicationProofs` (on `PublicationSteps`, `PublicationReports`) | `Invariance` | `Spec => []IndInv` | `PublicationAssumption`, `LineageAssumption` |
| | `TypeCorrect` | `Spec => []TypeOK`: in particular no generation passes the limit | the same |
| | `LineageExtends` | `Spec => ImplementsChannel` | the same |
| | `JournalLineage` | `Spec => JournalNeverForks` | the same |
| | `ReportsTrue` | `Spec => []ReportsAreTrue` | and `CheckpointsArePublished` |
| | `SupersededFinal` | `Spec => []SupersededIsFinal` | and `CheckpointsArePublished` |
| `RootPublicationProofs` | `RootKnown` | `Spec => []RootIsKnown` | `RootAssumption` |
| | `RootNeverGoesBack` | `Spec => NothingGoesBack` | `RootAssumption` |
| `ViewsProofs` | `ExposedAnchored` | `Spec => []ExposedIsAnchored` | `ConsumerAssumption`, `LineageAssumption` |
| | `ViewsNeverFork` | `Spec => ViewNeverForks` | the same |
| | `HandlesReadable` | `S!Spec => []S!HandlesStayReadable` | `BundlesAreValid` |
| | `ExposedMovesOn` | `S!Spec => S!ReaderAdvances` | `BundlesAreValid` |
| | `HonestRaisesNoAlarm` | `S!Spec => []S!NoFalseAlarm` | `BundlesAreValid`, `HonestPublisher` |
| | `ViewsAdvancing` | `ViewsSpec => ViewsAdvance` | all but `HonestPublisher` |
| | `NoFalseAlarms` | `ViewsSpec => []NoFalseAlarm` | all |
| | `DenialsTrue` | `ViewsSpec => DenialIsTrue` | `BundlesAreValid` |
| `LocalProofs` | `DurableInvariance` | `Spec => []FileInv` | `DurableFileAssumption` |
| | `AcknowledgedIsDurable` | `Spec => []AcknowledgedSurvives` | `DurableFileAssumption` |
| | `BasesAreDurable` | `Spec => BaseIsDurable` | `DurableFileAssumption` |
| | `HandoffsHold` | `FilesSpec => []HandoffIsConfirmed` | `MaxFiles` is a number |
| | `ReportsHold` | `FilesSpec => []ReportIsFinal` | |
| | `ChannelGrows` | `U!Spec => U!ImplementsChannel` | |
| `SourceProofs` | `HooksOrdered` | `Spec => []HooksInOrder` | |
| | `ScansHold` | `S!Spec => []ScanIsConsistent` | `SourceAssumption` |
| | `OnlySelectedShows` | `S!Spec => UnselectedDoesNotShow` | `SourceAssumption` |
| `SessionProofs` | `SessionsSound` | `Spec => []SessionIsSound` | `SessionAssumption` |
| | `SessionsAdvance` | `Spec => SessionOnlyAdvances` | `SessionAssumption` |

The `...Assumption`s give the constants their types, say that limits are numbers and that `None` or
`Nobody` is distinct from what it stands beside. `CheckpointsArePublished` says that a
checkpoint given to a publisher is a commit of the channel; `BundlesAreValid` that the signed
revisions are numbered from one and have generations; `HonestPublisher` that the revisions a
publisher signs never go back.

**Publication.** That the reference moves only to a child of what is published is not
inductive: one must know that *every* request that may still arrive is conditional
on the parent of its commit, that publishers issue such requests only from intents
that extend the committed watermark, and that the intent in hand is that of
the journal state whose revision the publisher holds. `IndInv` says so in four parts:
`JournalInv` (a pending intent extends exactly the committed watermark),
`RequestInv` (a request swaps an object for a child or another envelope of it),
`LocalInv` (what a publisher knows at each label of an operation) and `Faithful` (a
revision stands for one journal state). There is one lemma per action, most of
them through two frame lemmas of `PublicationSteps`: `PublisherStep` for actions that move one publisher,
and `SwapStep` for those that also write its journal. `ReferenceWriters` and
`JournalWriters` then reduce the action properties to the few steps that
write the reference or a journal. `LineageExtends` maps the commit of the reference to the
chain of `Channel`: every step publishes a child, is an operator's mishap, or stutters.

What is reported needs a second invariant, `ReportInv`, an account of the requests: as long as
no operator sets the reference back or deletes a journal, journals and publishers know only of published
commits, and a request that may still land is pending in some journal or comes too late.

**Share root.** The store's comparison alone does not
make the root advance: the target of every request must succeed the root that the request
expects, also in a replay whose base was meanwhile encrypted again. So the invariant says of every
record of the journal, in the journal or in the hands of a publisher, that its pending write is
built on its committed root and that its highest revision is that of the pending, or else of
the committed root (`Sound`); of a record about to be saved that it `Follows` the one it
was made from; and of a publisher that holds the journal's revision that it holds its record
(`Core`). The highest revision then only grows, which is why the journal knows every write under way.

**Views.** A consumer that adopts a reference has compared it with
the watermark it loaded, not with the snapshot its users see. The invariant makes the watermark
on disk the spine: until it is deleted it only grows along one lineage (a swap starts from the
watermark the candidate was checked against, a load syncs what it returns), every
consumer's watermark and snapshot are ancestors of it, and so of each other. A
second part holds even after a deletion: what a consumer has
validated, loaded, exposed or is about to persist descends from its checkpoint, and a
candidate extends the watermark it was checked against. The theorems on the share reader rest
on `refreshGate`: a poll holds it from reading the ETag to installing the answer, so that
the bundle an answer is compared with is the one the poll was sent with, and an honest answer
is never older. A denial takes the gate as well: while a caller may deny, nobody
holds an answer that is not installed, and what was installed stays available.

**Local files.** What a crash may leave of a durable file lies between what was returned and
what is visible, an operation returns the visible revision under the lock, and what is compared or replaced
behind a barrier is the only file a crash may leave. A staging file of a handoff belongs to one
installation until it is linked, a path once taken changes only in a crash, which ends all
installations, and a synced directory leaves a crash no older choice. A rejected unsigned commit is kept
out not by what its sender does but by the chain: its place is taken (`Displaced`), and the
chain only grows.

**Source.** Of the generations that publish has returned to the watch worker at most one is without its
hook, the pending one or the one whose hook is running, so none can be overtaken. In a scan
whatever is written gets a later modification time, so a file or directory that still has the time noted
before it was read is what was read.

**Sessions.** A process holds the lock for as long as it runs and goes on only with a session that
is visible and durable, so that nobody moves what it has found or done between an effect and the
phase that records it. The visible session is at most one phase ahead of the durable one.

**Only model-checked.**
- Every liveness property (`PendingIsResolved`, `RootSettles`, `CatchesUp`, `SessionCompletes`,
  `KernelCatchesUp`, `EverythingStops`, `EverybodyReturns`, `ShutsDown`,
  `ReachesSync`): the proof system handles neither fairness nor `ENABLED`.
- Properties that add up over sets (`MemoryIsAccounted`, `ReservationsReturn`, `CacheIsSound`, and the charges of retained
  capabilities in `HandlesStayReadable` of the run, of which `HandlesReadable` proves the rest) and
  what a traversal computes (`ClosureIsExact`, `AnswersOneSnapshot`): induction over data.
- `NoOvertaking`, `CancellationIsOwn`, `InodesAreStable`, `MountsAreApart` and `StatusIsTrue`: no proof has been written.
- `ConflictIsNotPublished`, `PreparedIsDurable` and `RemainingMountIsReported`, which are violated.

## 7. Not modelled, and why

- Cryptography and envelopes (`trust.go`, `client_encryption.go`, `publisherstate`), which a model
  can only take as correct.
- The S3 adapter (`s3store/store.go`, `presign.go`): pure I/O whose contract the models use.
- Compatibility and commissioning probes: sequential test programs whose verdict is a report.
- WebDAV: a stateless adapter over a consumer's snapshot.
- Paths, permissions and ACLs (`internal/localstate`): operating-system checks.
- Encoding, validation and size limits of manifests, bundles, handoffs and configuration
  files; argument parsing and output of the command line.
- Content-defined chunking: boundaries come from a rolling hash over bytes, which no property here
  tells apart; `SourceScan` takes a block as a chunk.
- The bounded tree of file-system watches (`live.go`, `watchTree`): what it may lose is modelled as
  lost events, which the ticker makes up for. The arithmetic of backoff and jitter.
- Symlinks of the source (`buildSymlink`): the target is read between two checks of the link, without a
  retry.
