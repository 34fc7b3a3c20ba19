------------------------------- MODULE Lookup -------------------------------
(***************************************************************************)
(* Stat, ListDir, Open and Readlink of a consumer (consumer.go): a path is *)
(* resolved against the snapshot that was current when the call began,     *)
(* manifest by manifest.  Manifests come from one LRU cache or from a load *)
(* that callers of the same manifest share (metadata_cache.go), while      *)
(* Refresh adopts newer snapshots and callers give up.                     *)
(*                                                                         *)
(* A manifest is its digest; Entries gives what a directory lists and is   *)
(* empty for a file.  The admission of a download is in ChunkDownload: a   *)
(* download here takes its time, fails, or is cancelled.  The directory of *)
(* a Stat of the root is not loaded, and paths here have a component.      *)
(***************************************************************************)
EXTENDS Naturals, Sequences, FiniteSets, SequencesExt, FiniteSetsExt

CONSTANTS
  Callers,      \* goroutines that look a path up, once each
  Calls,        \* the operations each of them may call: Stat, ListDir, Open, Readlink
  Impatient,    \* those whose context may be cancelled
  Path,         \* the components of the path
  RootOf,       \* the root directory of each snapshot, a sequence
  Entries,      \* the entries of each manifest: a function from names to digests
  Directories,  \* the digests of directories
  Links,        \* the digests of symlinks
  Cost,         \* estimated retained bytes of each manifest
  MaxEntries, MaxBytes,  \* limits of the metadata cache
  Loads,        \* identities of flight calls, enough for all that can be alive
  MaxFaults     \* bound on downloads that fail

VARIABLES
  current,      \* generation of the adopted snapshot
  order,        \* metadataCache: its keys, the most recently used first
  retained,     \* metadataCache.retainedBytes
  calls,        \* metadataFlightGroup.calls: the load of each digest, or NoLoad
  load,         \* metadataFlightCall and its goroutine
  caller,
  answer,       \* what each caller returned last
  faults

vars == <<current, order, retained, calls, load, caller, answer, faults>>

Digests == DOMAIN Entries
NoLoad == "no load"
Free == [pc |-> "free", digest |-> "", waiters |-> 0, cancelled |-> FALSE, err |-> ""]
Idle == [pc |-> "idle", op |-> "", gen |-> 0, at |-> 0, digest |-> "", call |-> NoLoad, cancelled |-> FALSE]

NoAnswer == [op |-> "", gen |-> 0, out |-> ""]

Init ==
  /\ current = 1
  /\ order = <<>> /\ retained = 0
  /\ calls = [d \in Digests |-> NoLoad]
  /\ load = [l \in Loads |-> Free]
  /\ caller = [c \in Callers |-> Idle]
  /\ answer = [c \in Callers |-> NoAnswer]
  /\ faults = 0

-----------------------------------------------------------------------------
(* The cache *)

\* order.MoveToFront
Touched(d) == <<d>> \o SelectSeq(order, LAMBDA e : e # d)

Bytes(keys) == FoldSeq(LAMBDA d, sum : Cost[d] + sum, 0, keys)

\* removeOldest runs until both limits hold.
WithinLimits(keys) == Len(keys) <= MaxEntries /\ Bytes(keys) <= MaxBytes

\* Put: a key that is there stays, a value above the whole budget is not kept, and the
\* oldest make room for a new one.
Put(d) ==
  LET added == <<d>> \o order
      kept == Max({n \in 0..Len(added) : WithinLimits(SubSeq(added, 1, n))})
  IN IF Contains(order, d) THEN order' = Touched(d) /\ UNCHANGED retained
     ELSE IF Cost[d] > MaxBytes THEN UNCHANGED <<order, retained>>
     ELSE /\ order' = SubSeq(added, 1, kept)
          /\ retained' = retained + Cost[d] - Bytes(SubSeq(added, kept + 1, Len(added)))

-----------------------------------------------------------------------------
(* Callers *)

Returns(s) == [Idle EXCEPT !.pc = "end", !.cancelled = s.cancelled]

\* A load nobody can reach any more is garbage.
Collected(loads, callers) ==
  [l \in Loads |-> IF loads[l].pc = "done" /\ \A c \in Callers : callers[c].call # l THEN Free ELSE loads[l]]

\* Caller c goes on as s and, if that ends its call, has returned out for generation gen.
Becomes(c, s, gen, out, loads) ==
  /\ caller' = [caller EXCEPT ![c] = s]
  /\ answer' = IF s.pc = "end" THEN [answer EXCEPT ![c] = [op |-> caller[c].op, gen |-> gen, out |-> out]] ELSE answer
  /\ load' = Collected(loads, caller')

\* A bug to catch: the generation is read when the path has been resolved.
GenerationAtEnd(s) == current
\* snapshotRoot returned the root and its generation together.
Generation(s) == s.gen

Wants(s, d, at) == [s EXCEPT !.pc = "get", !.digest = d, !.at = at, !.call = NoLoad]
Ends(c, s, out, loads) == Becomes(c, Returns(s), Generation(s), out, loads)

\* resolve and what Stat, ListDir, Open and Readlink do with the entry, once the manifest of
\* s.digest is at hand.
Step(c, s, loads) ==
  LET listed == Entries[s.digest]
      entry == listed[Path[s.at]]
      isDir == entry \in Directories
      last == s.at = Len(Path)
  IN IF s.at > Len(Path) THEN Ends(c, s, s.digest, loads)
     ELSE IF Path[s.at] \notin DOMAIN listed THEN Ends(c, s, "ErrPathNotFound", loads)
     ELSE IF ~last /\ ~isDir THEN Ends(c, s, "ErrNotDirectory", loads)
     ELSE IF last /\ s.op = "stat" THEN Ends(c, s, entry, loads)
     ELSE IF last /\ s.op = "list" /\ ~isDir THEN Ends(c, s, "ErrNotDirectory", loads)
     ELSE IF last /\ s.op = "open" /\ isDir THEN Ends(c, s, "ErrIsDirectory", loads)
     ELSE IF last /\ s.op = "open" /\ entry \in Links THEN Ends(c, s, "ErrUnsupportedType", loads)
     ELSE IF last /\ s.op = "readlink" /\ entry \notin Links THEN Ends(c, s, "ErrUnsupportedType", loads)
     ELSE Becomes(c, Wants(s, entry, s.at + 1), s.gen, "", loads)

Begin(c) ==
  /\ caller[c].pc = "idle"
  /\ \E op \in Calls[c] :
       caller' = [caller EXCEPT ![c] = Wants([@ EXCEPT !.op = op, !.gen = current], RootOf[current], 1)]
  /\ UNCHANGED <<current, order, retained, calls, load, answer, faults>>

\* loadDirectory, loadFile: the cache first.
Get(c) ==
  LET s == caller[c] IN
  /\ s.pc = "get"
  /\ \/ /\ Contains(order, s.digest) /\ order' = Touched(s.digest)
        /\ Step(c, s, load)
     \/ /\ ~Contains(order, s.digest) /\ UNCHANGED <<order, load, answer>>
        /\ caller' = [caller EXCEPT ![c].pc = "do"]
  /\ UNCHANGED <<current, retained, calls, faults>>

\* Do joins a load that somebody waits for.
Joinable(d) == calls[d] # NoLoad /\ load[calls[d]].waiters > 0

\* metadataFlightGroup.Do up to wait.
Do(c) ==
  LET s == caller[c] IN
  /\ s.pc = "do"
  /\ \/ /\ s.cancelled /\ Ends(c, s, "cancelled", load) /\ UNCHANGED calls
     \/ /\ ~s.cancelled /\ Joinable(s.digest)
        /\ load' = [load EXCEPT ![calls[s.digest]].waiters = @ + 1]
        /\ caller' = [caller EXCEPT ![c].pc = "wait", ![c].call = calls[s.digest]]
        /\ UNCHANGED <<calls, answer>>
     \/ /\ ~s.cancelled /\ ~Joinable(s.digest)
        /\ LET l == CHOOSE l \in Loads : load[l] = Free IN
             /\ calls' = [calls EXCEPT ![s.digest] = l]
             /\ load' = [load EXCEPT ![l] = [Free EXCEPT !.pc = "check", !.digest = s.digest, !.waiters = 1]]
             /\ caller' = [caller EXCEPT ![c].pc = "wait", ![c].call = l]
        /\ UNCHANGED answer
  /\ UNCHANGED <<current, order, retained, faults>>

\* wait returns what the load returned.
WaitDone(c) ==
  LET s == caller[c] IN
  /\ s.pc = "wait" /\ load[s.call].pc = "done"
  /\ IF load[s.call].err = "" THEN Step(c, s, load) ELSE Ends(c, s, load[s.call].err, load)
  /\ UNCHANGED <<current, order, retained, calls, faults>>

\* A bug to catch: whoever gives up cancels the load.
CancelAlways(waiters) == TRUE
\* The last waiter to give up cancels the load.
CancelsLoad(waiters) == waiters = 0

\* wait returns because the caller's context is done.
Abandon(c) ==
  LET s == caller[c]
      l == load[s.call]
      counted == calls[l.digest] = s.call /\ l.waiters > 0
      left == [l EXCEPT !.waiters = @ - 1, !.cancelled = @ \/ CancelsLoad(l.waiters - 1)]
  IN /\ s.pc = "wait" /\ s.cancelled
     /\ Ends(c, s, "cancelled", [load EXCEPT ![s.call] = IF counted THEN left ELSE l])
     /\ UNCHANGED <<current, order, retained, calls, faults>>

Cancel(c) ==
  /\ c \in Impatient /\ ~caller[c].cancelled
  /\ caller' = [caller EXCEPT ![c].cancelled = TRUE]
  /\ UNCHANGED <<current, order, retained, calls, load, answer, faults>>

-----------------------------------------------------------------------------
(* Loads *)

\* The loader looks into the cache again.
Check(l) ==
  LET d == load[l].digest IN
  /\ load[l].pc = "check"
  /\ \/ /\ Contains(order, d) /\ order' = Touched(d)
        /\ load' = [load EXCEPT ![l].pc = "loaded"]
     \/ /\ ~Contains(order, d) /\ UNCHANGED order
        /\ load' = [load EXCEPT ![l].pc = "download"]
  /\ UNCHANGED <<current, retained, calls, caller, answer, faults>>

\* downloadManifest, the validation of the manifest and Put.  A cancelled download may
\* still have its answer.
Download(l) ==
  /\ load[l].pc = "download"
  /\ \/ /\ Put(load[l].digest) /\ load' = [load EXCEPT ![l].pc = "loaded"] /\ UNCHANGED faults
     \/ /\ load[l].cancelled /\ UNCHANGED <<order, retained, faults>>
        /\ load' = [load EXCEPT ![l].pc = "loaded", ![l].err = "cancelled"]
     \/ /\ faults < MaxFaults /\ faults' = faults + 1 /\ UNCHANGED <<order, retained>>
        /\ load' = [load EXCEPT ![l].pc = "loaded", ![l].err = "failed"]
  /\ UNCHANGED <<current, calls, caller, answer>>

\* The end of run, under the mutex of the group.
Complete(l) ==
  LET d == load[l].digest IN
  /\ load[l].pc = "loaded"
  /\ calls' = [calls EXCEPT ![d] = IF @ = l THEN NoLoad ELSE @]
  /\ load' = Collected([load EXCEPT ![l].pc = "done"], caller)
  /\ UNCHANGED <<current, order, retained, caller, answer, faults>>

\* Refresh adopts the next snapshot (module Consumer).
Adopt ==
  /\ current < Len(RootOf) /\ current' = current + 1
  /\ UNCHANGED <<order, retained, calls, load, caller, answer, faults>>

CallerStep(c) == Get(c) \/ Do(c) \/ WaitDone(c) \/ Abandon(c)
LoadStep(l) == Check(l) \/ Download(l) \/ Complete(l)

Next ==
  \/ \E c \in Callers : Begin(c) \/ CallerStep(c) \/ Cancel(c)
  \/ \E l \in Loads : LoadStep(l)
  \/ Adopt

Spec == Init /\ [][Next]_vars

\* Goroutines go on; the store answers every request.
FairSpec ==
  /\ Spec
  /\ \A c \in Callers : WF_vars(CallerStep(c))
  /\ \A l \in Loads : WF_vars(LoadStep(l))

-----------------------------------------------------------------------------
(* Properties *)

TypeOK ==
  /\ current \in 1..Len(RootOf) /\ Range(order) \subseteq Digests /\ retained \in Nat
  /\ calls \in [Digests -> Loads \cup {NoLoad}]
  /\ faults \in 0..MaxFaults

\* What the path means in a snapshot: the entries it leads through, looked up directly.
Meaning(op, gen) ==
  LET reached[n \in 0..Len(Path)] ==
        IF n = 0 THEN RootOf[gen]
        ELSE IF reached[n - 1] \notin Digests THEN reached[n - 1]
        ELSE IF reached[n - 1] \notin Directories THEN "ErrNotDirectory"
        ELSE IF Path[n] \notin DOMAIN Entries[reached[n - 1]] THEN "ErrPathNotFound"
        ELSE Entries[reached[n - 1]][Path[n]]
      entry == reached[Len(Path)]
  IN IF entry \notin Digests \/ op = "stat" THEN entry
     ELSE IF op = "list" /\ entry \notin Directories THEN "ErrNotDirectory"
     ELSE IF op = "open" /\ entry \in Directories THEN "ErrIsDirectory"
     ELSE IF (op = "open") = (entry \in Links) /\ op # "list" THEN "ErrUnsupportedType"
     ELSE entry

\* A lookup answers for exactly one snapshot, the one it says it belongs to, whatever was
\* adopted, evicted or loaded for others meanwhile (Open: "pins the current file manifest").
AnswersOneSnapshot ==
  \A c \in Callers :
    LET a == answer[c] IN
    a.op # "" /\ a.out \notin {"cancelled", "failed"} => a.out = Meaning(a.op, a.gen)

\* Nobody fails with a cancellation that is not their own: a load that is shared goes on
\* while somebody waits for it (metadataFlightGroup.Do).
OwnCancellationOnly == \A c \in Callers : answer[c].out = "cancelled" => caller[c].cancelled

\* The metadata cache accounts for what it retains and stays within both limits.
CacheIsAccounted ==
  /\ retained = Bytes(order)
  /\ Len(order) <= MaxEntries /\ retained <= MaxBytes
  /\ Cardinality(Range(order)) = Len(order)

AllReturned == \A c \in Callers : caller[c].pc \in {"idle", "end"}

\* Every lookup that begins returns: no waiter is left behind by a load that was replaced,
\* failed or cancelled.
EveryLookupReturns == []<>AllReturned
=============================================================================
