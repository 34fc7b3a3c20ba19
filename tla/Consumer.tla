------------------------------ MODULE Consumer ------------------------------
(***************************************************************************)
(* Consumer.Refresh and Consumer.Poll (consumer.go, live.go): consumers of *)
(* one signed channel that share a durable anti-rollback watermark         *)
(* (watermark.go), against a store that may answer with an old reference,  *)
(* lose it, or serve another history.                                      *)
(*                                                                         *)
(* A step is one call on the watermark store or on the object store with   *)
(* the local work up to the next call.  refreshGate serializes the         *)
(* refreshes of one consumer, so each has at most one in flight.  Manifests *)
(* are immutable and verified by digest, hence a failing manifest download *)
(* is one more way for the call before it to fail.  One repository; the    *)
(* ETag of a reference is its content.  A watermark is a chain of          *)
(* Lineage.tla, <<>> where none is found.                                  *)
(***************************************************************************)
EXTENDS Lineage, FiniteSets

CONSTANTS
  Consumers,      \* consumer processes on one machine
  Checkpoint,     \* TrustedCheckpoint of each, <<>> if none
  FirstUse,       \* AllowTrustOnFirstUse of each
  MaxKey,         \* bound on key rotations; consumers trust every key
  None,
  MaxGeneration,  \* bound on published generations
  MaxMishaps      \* bound on faults of store, network, machine and operator

\* Signed references.
Refs == [commit : Chains \ {<<>>}, key : Nat]

ASSUME ConsumerAssumption ==
  /\ Checkpoint \in [Consumers -> Chains] /\ FirstUse \in [Consumers -> BOOLEAN]
  /\ None \notin Refs
  /\ MaxKey \in Nat /\ MaxGeneration \in Nat /\ MaxMishaps \in Nat

VARIABLES
  ref,      \* the reference object of the channel, None if absent
  history,  \* every reference object there has been
  file,     \* the watermark file as processes see it
  disk,     \* the watermark file as it survives a machine crash
  local,    \* the consumers
  lost,     \* an operator has deleted the watermark file
  exposed,  \* every commit a consumer has exposed to its users
  mishaps

vars == <<ref, history, file, disk, local, lost, exposed, mishaps>>
environment == <<ref, history, lost>>

\* A consumer process that has just started.
Fresh == [pc |-> "idle", cur |-> None, wm |-> <<>>, cand |-> None, valid |-> <<>>]

Init ==
  /\ ref = None /\ history = {}
  /\ file = <<>> /\ disk = <<>>
  /\ local = [c \in Consumers |-> Fresh]
  /\ lost = FALSE /\ exposed = {} /\ mishaps = 0

Mishap == mishaps < MaxMishaps /\ mishaps' = mishaps + 1

Become(c, l) == local' = [local EXCEPT ![c] = l]

\* The refresh returns to Poll, which starts another one.
Return(l) == [l EXCEPT !.pc = "idle", !.cand = None]

Generation(r) == IF r = None THEN 0 ELSE Len(r.commit)

Commit(r) == IF r = None THEN <<>> ELSE r.commit

-----------------------------------------------------------------------------
(* The watermark store *)

\* Load that leaves a rename of a crashed process to its fate.
LoadUnsynced == UNCHANGED <<file, disk>>
\* Load syncs the directory before it returns a watermark it has found.
LoadSynced == disk' = (IF file = <<>> THEN disk ELSE file) /\ UNCHANGED file

\* FileWatermarkStore.CompareAndSwap succeeds: installed and synced.
Installed(expected, next) == file = expected /\ file' = next /\ disk' = next

\* It fails: precondition, a fault before the rename, or one after it.
NotInstalled(expected, next) ==
  \/ file # expected /\ UNCHANGED <<file, disk, mishaps>>
  \/ Mishap /\ UNCHANGED <<file, disk>>
  \/ Mishap /\ file = expected /\ file' = next /\ UNCHANGED disk

-----------------------------------------------------------------------------
(* loadWatermark *)

\* validateWatermarkCheckpoint: w descends from what was validated before, or
\* from the checkpoint.
CheckpointVerdict(l, w, checkpoint) ==
  IF checkpoint = <<>> THEN "ok"
  ELSE IF l.valid # <<>> /\ AnchorVerdict(w, l.valid) # "ok" THEN AnchorVerdict(w, l.valid)
  ELSE IF w = l.valid THEN "ok"
  ELSE IF Len(w) <= Len(checkpoint) THEN AnchorVerdict(w, checkpoint)
  ELSE DescentVerdict(w, IF l.valid # <<>> THEN l.valid ELSE checkpoint)

\* The end of loadWatermark: the watermark against the exposed snapshot.
MayStart(l) ==
  \/ l.cur = None
  \/ l.wm # <<>> /\ AnchorVerdict(l.wm, Commit(l.cur)) = "ok"

\* Refresh goes on to the reference with watermark w, or returns an error.
WithWatermark(c, w) ==
  LET l == [local[c] EXCEPT !.wm = w, !.valid = IF Checkpoint[c] = <<>> THEN @ ELSE w]
  IN Become(c, IF MayStart(l) THEN [l EXCEPT !.pc = "get"] ELSE Return(l))

\* Refresh up to the end of WatermarkStore.Load and what follows from it.
LoadWatermark(c) ==
  LET l == local[c]
  IN /\ l.pc = "idle"
     /\ \/ /\ file # <<>> /\ LoadSynced /\ UNCHANGED mishaps
           /\ \/ /\ CheckpointVerdict(l, file, Checkpoint[c]) = "ok"
                 /\ WithWatermark(c, file)
              \/ /\ CheckpointVerdict(l, file, Checkpoint[c]) # "ok"
                 /\ Become(c, Return(l))
        \/ /\ file = <<>> /\ LoadSynced /\ UNCHANGED mishaps
           /\ Become(c, IF Checkpoint[c] # <<>> THEN [l EXCEPT !.pc = "init", !.wm = <<>>]
                        ELSE IF FirstUse[c] /\ l.cur = None THEN [l EXCEPT !.pc = "get", !.wm = <<>>]
                        ELSE Return([l EXCEPT !.wm = <<>>]))
        \/ Mishap /\ Become(c, Return(l)) /\ UNCHANGED <<file, disk>>
     /\ UNCHANGED <<environment, exposed>>

\* loadWatermark installs the trusted checkpoint where no watermark is found;
\* the checkpoint itself is not compared with checkpointValidated.
InstallCheckpoint(c) ==
  LET l == [local[c] EXCEPT !.wm = Checkpoint[c]]
  IN /\ local[c].pc = "init"
     /\ \/ /\ Installed(<<>>, Checkpoint[c]) /\ UNCHANGED mishaps
           /\ Become(c, IF MayStart(l) THEN [l EXCEPT !.pc = "get"] ELSE Return(l))
        \/ /\ NotInstalled(<<>>, Checkpoint[c])
           /\ Become(c, [local[c] EXCEPT !.pc = "initload"])
     /\ UNCHANGED <<environment, exposed>>

\* Its CAS failed: accept only a watermark at or beyond the checkpoint.
ReloadCheckpoint(c) ==
  LET l == local[c]
  IN /\ l.pc = "initload"
     /\ \/ /\ LoadSynced /\ UNCHANGED mishaps
           /\ \/ /\ file # <<>> /\ CheckpointVerdict(l, file, Checkpoint[c]) = "ok"
                 /\ AnchorVerdict(file, Checkpoint[c]) = "ok"
                 /\ WithWatermark(c, file)
              \/ /\ file = <<>> \/ CheckpointVerdict(l, file, Checkpoint[c]) # "ok"
                                \/ AnchorVerdict(file, Checkpoint[c]) # "ok"
                 /\ Become(c, Return(l))
        \/ Mishap /\ Become(c, Return(l)) /\ UNCHANGED <<file, disk>>
     /\ UNCHANGED <<environment, exposed>>

-----------------------------------------------------------------------------
(* The reference *)

\* The ETag is sent only when the watermark asks for nothing newer.
Conditional(l) == l.cur # None /\ l.wm \in {<<>>, l.cur.commit}

\* Refresh's verdict on the reference r it has downloaded.
ReferenceVerdict(l, r) ==
  LET anchor == IF Generation(l.cur) > Len(l.wm) THEN l.cur.commit ELSE l.wm
  IN IF l.wm # <<>> /\ Len(l.wm) > Generation(l.cur) /\ AnchorVerdict(r.commit, l.wm) # "ok"
       THEN AnchorVerdict(r.commit, l.wm)
     ELSE IF Len(r.commit) < Generation(l.cur) THEN "stale"
     ELSE IF l.cur # None /\ Len(r.commit) = Generation(l.cur)
       THEN IF r.commit = l.cur.commit THEN "same" ELSE "splitbrain"
     ELSE IF l.cur # None /\ Generation(l.cur) = Len(l.wm) /\ l.cur.commit # l.wm THEN "splitbrain"
     ELSE IF anchor # <<>> /\ Len(r.commit) > Len(anchor) THEN DescentVerdict(r.commit, anchor)
     ELSE "ok"

\* The snapshot becomes visible to the users of the consumer.
Adopt(c, l, r) ==
  /\ Become(c, Return([l EXCEPT !.cur = r, !.wm = IF Len(r.commit) >= Len(@) THEN r.commit ELSE @]))
  /\ exposed' = exposed \union {r.commit}

\* What Refresh does with the answer r.
Consider(c, r) ==
  LET l == local[c]
  IN \/ /\ Conditional(l) /\ r = l.cur
        /\ Become(c, Return(l)) /\ UNCHANGED exposed
     \/ /\ ~(Conditional(l) /\ r = l.cur)
        /\ \/ /\ ReferenceVerdict(l, r) = "ok" /\ Len(r.commit) > Len(l.wm)
              /\ Become(c, [l EXCEPT !.pc = "persist", !.cand = r]) /\ UNCHANGED exposed
           \/ /\ ReferenceVerdict(l, r) = "ok" /\ Len(r.commit) <= Len(l.wm)
              /\ Adopt(c, l, r)
           \/ /\ ReferenceVerdict(l, r) = "same"
              /\ Become(c, Return([l EXCEPT !.cur = r])) /\ UNCHANGED exposed
           \/ /\ ReferenceVerdict(l, r) \notin {"ok", "same"}
              /\ Become(c, Return(l)) /\ UNCHANGED exposed

\* downloadReference and the validation of what it returns.
GetReference(c) ==
  /\ local[c].pc = "get"
  /\ \/ ref # None /\ Consider(c, ref) /\ UNCHANGED mishaps
     \/ ref = None /\ Become(c, Return(local[c])) /\ UNCHANGED <<exposed, mishaps>>
     \/ Mishap /\ Become(c, Return(local[c])) /\ UNCHANGED exposed
     \/ Mishap /\ \E r \in history : Consider(c, r)
  /\ UNCHANGED <<environment, file, disk>>

\* persistConsumerWatermark accepts a failed CAS only if the reload shows its value.
PersistedAfterAll(l) == file = l.cand.commit

\* persistConsumerWatermark: the CAS from the watermark the refresh has loaded.
Persist(c) ==
  LET l == local[c]
  IN /\ l.pc = "persist"
     /\ \/ /\ Installed(l.wm, l.cand.commit)
           /\ Adopt(c, l, l.cand) /\ UNCHANGED mishaps
        \/ /\ NotInstalled(l.wm, l.cand.commit)
           /\ Become(c, [l EXCEPT !.pc = "persistload"]) /\ UNCHANGED exposed
     /\ UNCHANGED environment

\* Its reload after a failed CAS.
PersistReload(c) ==
  LET l == local[c]
  IN /\ l.pc = "persistload"
     /\ \/ /\ LoadSynced /\ UNCHANGED mishaps
           /\ \/ PersistedAfterAll(l) /\ Adopt(c, l, l.cand)
              \/ /\ ~PersistedAfterAll(l)
                 /\ Become(c, Return([l EXCEPT !.wm = IF Len(file) > Len(l.cand.commit) THEN file ELSE @]))
                 /\ UNCHANGED exposed
        \/ Mishap /\ Become(c, Return(l)) /\ UNCHANGED <<file, disk, exposed>>
     /\ UNCHANGED environment

Refresh(c) ==
  \/ LoadWatermark(c) \/ InstallCheckpoint(c) \/ ReloadCheckpoint(c)
  \/ GetReference(c) \/ Persist(c) \/ PersistReload(c)

-----------------------------------------------------------------------------
(* The environment *)

SetReference(r) ==
  /\ ref' = r /\ history' = history \union ({r} \ {None})
  /\ UNCHANGED <<file, disk, local, lost, exposed>>

\* A publisher extends the published lineage, or signs the reference anew after a
\* key rotation.
Publish ==
  /\ \/ /\ Generation(ref) < MaxGeneration
        /\ \E m \in Manifest :
             SetReference([commit |-> Append(Commit(ref), m), key |-> IF ref = None THEN 1 ELSE ref.key])
     \/ /\ ref # None /\ ref.key < MaxKey
        /\ SetReference([ref EXCEPT !.key = @ + 1])
  /\ UNCHANGED mishaps

\* The store loses the reference or goes back to an old one; publishers that
\* trust it then build another history.
StoreMishap ==
  /\ Mishap
  /\ \E r \in (history \union {None}) \ {ref} : SetReference(r)

ProcessCrash(c) ==
  /\ Mishap
  /\ local[c] # Fresh /\ Become(c, Fresh)
  /\ UNCHANGED <<environment, file, disk, exposed>>

\* The machine stops: a rename that was not synced may or may not survive.
MachineCrash ==
  /\ Mishap
  /\ \E w \in {file, disk} : file' = w /\ disk' = w
  /\ local' = [c \in Consumers |-> Fresh]
  /\ UNCHANGED <<environment, exposed>>

\* An operator deletes the watermark file.
LoseWatermark ==
  /\ Mishap
  /\ file # <<>> /\ file' = <<>> /\ disk' = <<>> /\ lost' = TRUE
  /\ UNCHANGED <<ref, history, local, exposed>>

Next ==
  \/ \E c \in Consumers : Refresh(c)
  \/ Publish \/ StoreMishap \/ MachineCrash \/ LoseWatermark
  \/ \E c \in Consumers : ProcessCrash(c)

Spec == Init /\ [][Next]_vars

\* Poll refreshes again after every result and every error.
FairSpec == Spec /\ \A c \in Consumers : WF_vars(Refresh(c))

-----------------------------------------------------------------------------
\* Nothing is exposed before its watermark is durable: whatever consumers have
\* shown to users, before and after crashes of processes or of the machine, is an
\* ancestor of the watermark on disk (as long as nobody deletes it).
DurableBeforeExposed == ~lost => \A e \in exposed : Ancestor(e, disk)

\* What a step may do to the views of the consumers that run.
ViewsMoveOn ==
  \A c \in Consumers : local[c].cur # None /\ local'[c].cur # None =>
    /\ Len(local[c].cur.commit) <= Len(local'[c].cur.commit)
    /\ lost \/ Ancestor(local[c].cur.commit, local'[c].cur.commit)

\* A running consumer never takes its users back to an older generation, and,
\* unless the watermark file was deleted under it, never to another history,
\* although the store serves forks and old references.
ViewNeverForks == [][ViewsMoveOn]_vars

\* A consumer with a trusted checkpoint only exposes descendants of it.
CheckpointHolds ==
  \A c \in Consumers : Checkpoint[c] # <<>> /\ local[c].cur # None =>
    Ancestor(Checkpoint[c], local[c].cur.commit)

\* What a consumer has exposed to its users is an ancestor of the watermark on disk, unless that
\* was deleted, and a descendant of the trusted checkpoint (Refresh, loadWatermark).
ExposedIsAnchored == DurableBeforeExposed /\ CheckpointHolds

\* What every consumer is able to accept from the state it is in.
Acceptable(c) ==
  /\ ref # None /\ ~lost
  /\ Ancestor(file, ref.commit) /\ Len(ref.commit) - Len(file) <= MaxCommitWalk
  /\ Ancestor(Checkpoint[c], ref.commit)
  /\ Checkpoint[c] # <<>> => Ancestor(Checkpoint[c], file) \/ file = <<>>
  /\ Checkpoint[c] = <<>> => FirstUse[c] \/ file # <<>>

Current(c) == Commit(local[c].cur) = Commit(ref)

\* A consumer that polls catches up: if the published reference stays one that its
\* watermark admits, its users eventually see it.
CatchesUp ==
  \A c \in Consumers : <>[]Acceptable(c) => <>[]Current(c)
=============================================================================
