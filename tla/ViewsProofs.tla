---------------------------- MODULE ViewsProofs ----------------------------
(***************************************************************************)
(* What consumers expose is durable, on one lineage and behind their       *)
(* checkpoint, for any number of consumers, references, crashes and faults *)
(* and any history that the store serves.                                  *)
(*                                                                         *)
(* The watermark on disk is the spine of the argument: as long as nobody   *)
(* deletes it, it only grows along one lineage, and everything a consumer  *)
(* holds, its watermark and the snapshot it exposes, is an ancestor of it. *)
(* Two ancestors of one commit are ancestors of each other.                *)
(*                                                                         *)
(* The reader of a share for any number of callers, any bundles, budgets,  *)
(* failures and anything the root becomes: what was handed out stays       *)
(* readable, what is exposed moves on, and an honest publisher raises no   *)
(* alarm.  All rests on refreshGate: from the ETag a poll is sent with to  *)
(* the installation of its answer nobody else installs anything, so an     *)
(* answer is never older than the bundle it is compared with.              *)
(***************************************************************************)
EXTENDS Views, TLAPS

Locals ==
  [pc : {"idle", "init", "initload", "get", "persist", "persistload"},
   cur : Refs \cup {None}, wm : Chains, cand : Refs \cup {None}, valid : Chains]

TypeOK ==
  /\ ref \in Refs \cup {None} /\ history \subseteq Refs
  /\ file \in Chains /\ disk \in Chains
  /\ local \in [Consumers -> Locals]
  /\ lost \in BOOLEAN /\ exposed \subseteq Chains /\ mishaps \in Nat

\* The watermark a refresh started with is not behind the exposed snapshot.
Started(l) == l.cur = None \/ (l.wm # <<>> /\ AnchorVerdict(l.wm, l.cur.commit) = "ok")

\* What a consumer knows whatever happens to the watermark file: a candidate extends the
\* watermark it was checked against, and all it holds descends from its checkpoint.
Knows(l, checkpoint) ==
  /\ l.pc = "get" => Started(l)
  /\ l.pc \in {"persist", "persistload"} =>
       /\ l.cand # None /\ Ancestor(l.wm, l.cand.commit)
       /\ Len(Commit(l.cur)) <= Len(l.cand.commit)
  /\ checkpoint # <<>> =>
       /\ l.valid # <<>> => Ancestor(checkpoint, l.valid)
       /\ l.cur # None => Ancestor(checkpoint, l.cur.commit)
       /\ l.pc = "get" => Ancestor(checkpoint, l.wm)
       /\ l.pc \in {"persist", "persistload"} => Ancestor(checkpoint, l.cand.commit)

\* What it knows while the watermark d on disk is never deleted.
Rests(l, d) ==
  /\ Ancestor(l.wm, d)
  /\ l.cur # None => Ancestor(l.cur.commit, d)
  /\ l.pc \in {"persist", "persistload"} /\ l.cur # None => Ancestor(l.cur.commit, l.cand.commit)

IInv ==
  /\ TypeOK
  /\ \A c \in Consumers : Knows(local[c], Checkpoint[c])
  /\ ~lost => /\ Ancestor(disk, file)
              /\ \A e \in exposed : Ancestor(e, disk)
              /\ \A c \in Consumers : Rests(local[c], disk)

-----------------------------------------------------------------------------
(* Lineage *)

\* A chain with one more manifest.
LEMMA ChainGrows ==
  ASSUME NEW c \in Chains, NEW m \in Manifest
  PROVE  Append(c, m) \in Chains /\ Append(c, m) # <<>>
<1>1. Append(c, m) \in Chains /\ Len(Append(c, m)) = Len(c) + 1 /\ Len(c) \in Nat
  BY DEF Chains
<1>2. Len(Append(c, m)) # 0
  BY <1>1
<1> QED
  BY <1>1, <1>2

\* The ancestors of a commit.
LEMMA AncestorFacts ==
  ASSUME NEW a \in Chains, NEW b \in Chains, NEW c \in Chains
  PROVE  /\ Ancestor(a, a) /\ Ancestor(<<>>, a)
         /\ Ancestor(a, b) /\ Ancestor(b, c) => Ancestor(a, c)
         /\ Ancestor(a, c) /\ Ancestor(b, c) /\ Len(a) <= Len(b) => Ancestor(a, b)
         /\ Ancestor(a, b) => Len(a) <= Len(b)
         /\ Len(a) \in Nat
<1>1. Len(a) \in Nat /\ Len(b) \in Nat /\ Len(c) \in Nat /\ Len(<<>>) = 0
  BY DEF Chains
<1> QED
  BY <1>1 DEF Ancestor

\* What the verdicts of the checks mean.
LEMMA Verdicts ==
  ASSUME NEW c \in Chains, NEW a \in Chains
  PROVE  /\ AnchorVerdict(c, a) = "ok" => Len(a) <= Len(c) /\ (Len(c) = Len(a) => c = a)
         /\ DescentVerdict(c, a) = "ok" => Ancestor(a, c)
<1>1. Len(a) \in Nat /\ Len(c) \in Nat
  BY DEF Chains
<1> QED
  BY <1>1 DEF AnchorVerdict, DescentVerdict

\* A watermark that passes the check of the checkpoint descends from it.
LEMMA CheckpointPassed ==
  ASSUME NEW l \in Locals, NEW w \in Chains, NEW checkpoint \in Chains, checkpoint # <<>>, w # <<>>,
         l.valid # <<>> => Ancestor(checkpoint, l.valid),
         CheckpointVerdict(l, w, checkpoint) = "ok"
  PROVE  Ancestor(checkpoint, w)
<1>1. l.valid \in Chains /\ Len(w) \in Nat /\ Len(checkpoint) \in Nat
  BY DEF Locals, Chains
<1>2. CASE w = l.valid
  BY <1>2
<1>3. CASE w # l.valid /\ Len(w) <= Len(checkpoint)
  <2>1. AnchorVerdict(w, checkpoint) = "ok"
    BY <1>3 DEF CheckpointVerdict
  <2>2. w = checkpoint
    BY <1>1, <1>3, <2>1, Verdicts
  <2> QED
    BY <2>2, AncestorFacts
<1>4. CASE w # l.valid /\ Len(w) > Len(checkpoint)
  <2>1. CASE l.valid # <<>>
    <3>1. DescentVerdict(w, l.valid) = "ok"
      BY <1>1, <1>4, <2>1 DEF CheckpointVerdict
    <3>2. Ancestor(l.valid, w)
      BY <1>1, <3>1, Verdicts
    <3> QED
      BY <1>1, <2>1, <3>2, AncestorFacts
  <2>2. CASE l.valid = <<>>
    <3>1. DescentVerdict(w, checkpoint) = "ok"
      BY <1>1, <1>4, <2>2 DEF CheckpointVerdict
    <3> QED
      BY <3>1, Verdicts
  <2> QED
    BY <2>1, <2>2
<1> QED
  BY <1>1, <1>2, <1>3, <1>4

\* A reference that Refresh accepts extends the watermark, or is the one the watermark
\* names; it is not behind the exposed snapshot.
LEMMA ReferenceAccepted ==
  ASSUME NEW l \in Locals, NEW r \in Refs, Started(l), ReferenceVerdict(l, r) = "ok"
  PROVE  /\ Len(r.commit) > Len(l.wm) => Ancestor(l.wm, r.commit)
         /\ Len(r.commit) <= Len(l.wm) => r.commit = l.wm
         /\ Len(Commit(l.cur)) <= Len(r.commit)
<1>1. /\ l.wm \in Chains /\ r.commit \in Chains /\ r.commit # <<>> /\ Len(l.wm) \in Nat
      /\ Len(r.commit) \in Nat /\ Len(r.commit) > 0
      /\ l.cur # None => l.cur \in Refs /\ l.cur.commit \in Chains /\ Len(l.cur.commit) \in Nat
  <2>1. l.wm \in Chains /\ r.commit \in Chains /\ r.commit # <<>>
    BY DEF Locals, Refs
  <2>2. l.cur # None => l.cur \in Refs /\ l.cur.commit \in Chains
    BY DEF Locals, Refs
  <2>3. \A s \in Chains : Len(s) \in Nat /\ (s # <<>> => Len(s) > 0)
    BY DEF Chains
  <2> QED
    BY <2>1, <2>2, <2>3
<1>2. Generation(l.cur) = Len(Commit(l.cur)) /\ Generation(l.cur) \in Nat
  BY <1>1 DEF Generation, Commit
<1>3. Generation(l.cur) <= Len(l.wm)
  <2>1. CASE l.cur = None
    BY <1>1, <2>1 DEF Generation
  <2>2. CASE l.cur # None
    BY <1>1, <2>2, Verdicts DEF Started, Generation
  <2> QED
    BY <2>1, <2>2
<1>4. Len(r.commit) >= Generation(l.cur)
  BY <1>1, <1>2 DEF ReferenceVerdict
<1>5. Len(r.commit) > Len(l.wm) => Ancestor(l.wm, r.commit)
  <2> SUFFICES ASSUME Len(r.commit) > Len(l.wm) PROVE Ancestor(l.wm, r.commit)
    OBVIOUS
  <2>1. CASE l.wm = <<>>
    BY <1>1, <2>1, AncestorFacts
  <2>2. CASE l.wm # <<>>
    <3>1. ~(Generation(l.cur) > Len(l.wm))
      BY <1>1, <1>2, <1>3
    <3>2. DescentVerdict(r.commit, l.wm) = "ok"
      BY <1>1, <1>2, <1>3, <2>2, <3>1 DEF ReferenceVerdict
    <3> QED
      BY <1>1, <3>2, Verdicts
  <2> QED
    BY <2>1, <2>2
<1>6. Len(r.commit) <= Len(l.wm) => r.commit = l.wm
  <2> SUFFICES ASSUME Len(r.commit) <= Len(l.wm) PROVE r.commit = l.wm
    OBVIOUS
  <2>1. l.wm # <<>>
    BY <1>1
  <2>2. Len(l.wm) > Generation(l.cur)
    <3> SUFFICES ASSUME ~(Len(l.wm) > Generation(l.cur)) PROVE FALSE
      OBVIOUS
    <3>1. Len(r.commit) = Generation(l.cur) /\ l.cur # None
      BY <1>1, <1>2, <1>3, <1>4 DEF Generation
    <3> QED
      BY <1>1, <1>2, <3>1 DEF ReferenceVerdict
  <2>3. AnchorVerdict(r.commit, l.wm) = "ok"
    BY <2>1, <2>2 DEF ReferenceVerdict
  <2> QED
    BY <1>1, <2>3, Verdicts
<1> QED
  BY <1>2, <1>4, <1>5, <1>6

-----------------------------------------------------------------------------
(* One lemma per action *)

\* A new channel satisfies the invariant.
LEMMA InitInv == Init => IInv
<1> SUFFICES ASSUME Init PROVE IInv
  OBVIOUS
<1>1. <<>> \in Chains /\ Fresh \in Locals
  BY DEF Chains, Fresh, Locals
<1>2. TypeOK
  BY Zenon, <1>1 DEF Init, TypeOK
<1>3. \A c \in Consumers : Knows(local[c], Checkpoint[c])
  BY DEF Init, Knows, Fresh
<1>4. Ancestor(disk, file) /\ \A c \in Consumers : Rests(local[c], disk)
  BY <1>1, AncestorFacts DEF Init, Rests, Fresh
<1> QED
  BY <1>2, <1>3, <1>4 DEF Init, IInv

\* A step of one consumer that keeps what it knows and only moves the watermark on.
LEMMA ConsumerStep ==
  ASSUME IInv, NEW c \in Consumers, NEW m \in Locals, Become(c, m), Knows(m, Checkpoint[c]),
         file' \in Chains, disk' \in Chains, UNCHANGED environment, mishaps' \in Nat,
         exposed' \subseteq Chains,
         ~lost => /\ Ancestor(disk, disk') /\ Ancestor(disk', file') /\ Rests(m, disk')
                  /\ \A e \in exposed' \ exposed : Ancestor(e, disk')
  PROVE  IInv'
<1>1. local' \in [Consumers -> Locals] /\ local'[c] = m /\ \A d \in Consumers \ {c} : local'[d] = local[d]
  BY DEF Become, IInv, TypeOK
<1>2. TypeOK'
  BY <1>1 DEF IInv, TypeOK, environment
<1>3. \A d \in Consumers : Knows(local'[d], Checkpoint[d])
  BY <1>1 DEF IInv
<1>4. ASSUME ~lost PROVE \A e \in exposed' : Ancestor(e, disk')
  <2>1. \A e \in exposed : e \in Chains /\ Ancestor(e, disk) /\ disk \in Chains
    BY <1>4 DEF IInv, TypeOK
  <2>2. \A e \in exposed : Ancestor(e, disk')
    BY <1>4, <2>1, AncestorFacts
  <2> QED
    BY <1>4, <2>2
<1>5. ASSUME ~lost PROVE \A d \in Consumers : Rests(local'[d], disk')
  <2> SUFFICES ASSUME NEW d \in Consumers, d # c PROVE Rests(local[d], disk')
    BY <1>1, <1>5
  <2>1. local[d].wm \in Chains /\ (local[d].cur # None => local[d].cur.commit \in Chains) /\ disk \in Chains
    BY DEF IInv, TypeOK, Locals, Refs
  <2>2. Rests(local[d], disk)
    BY <1>5 DEF IInv
  <2> QED
    BY <1>5, <2>1, <2>2, AncestorFacts DEF Rests
<1>6. lost' = lost
  BY DEF environment
<1> QED
  BY <1>2, <1>3, <1>4, <1>5, <1>6 DEF IInv

\* The types of a consumer's state.
LEMMA LocalFacts ==
  ASSUME IInv, NEW c \in Consumers
  PROVE  /\ local[c] \in Locals /\ local[c].wm \in Chains /\ local[c].valid \in Chains
         /\ local[c].cur # None => local[c].cur \in Refs /\ local[c].cur.commit \in Chains
         /\ local[c].cand # None => local[c].cand \in Refs /\ local[c].cand.commit \in Chains
         /\ file \in Chains /\ disk \in Chains /\ mishaps \in Nat /\ exposed \subseteq Chains
         /\ Checkpoint[c] \in Chains
         /\ Knows(local[c], Checkpoint[c])
         /\ ~lost => Ancestor(disk, file) /\ Rests(local[c], disk)
  BY ConsumerAssumption DEF IInv, TypeOK, Locals, Refs

\* A mishap is counted.
LEMMA MishapCounts == ASSUME mishaps \in Nat, Mishap PROVE mishaps' \in Nat
  BY DEF Mishap

\* A refresh that returns leaves the consumer with what it has.
LEMMA ReturnKeeps ==
  ASSUME NEW l \in Locals, NEW checkpoint, NEW d
  PROVE  /\ Return(l) \in Locals
         /\ Knows(l, checkpoint) => Knows(Return(l), checkpoint)
         /\ Rests(l, d) => Rests(Return(l), d)
  BY Zenon DEF Return, Locals, Knows, Rests

\* A step that ends the refresh and touches no file.
LEMMA PlainReturn ==
  ASSUME IInv, NEW c \in Consumers, Become(c, Return(local[c])), mishaps' \in Nat,
         UNCHANGED <<environment, file, disk, exposed>>
  PROVE  IInv'
<1>1. /\ Return(local[c]) \in Locals /\ Knows(Return(local[c]), Checkpoint[c])
      /\ ~lost => Rests(Return(local[c]), disk)
  BY LocalFacts, ReturnKeeps
<1>2. ~lost => Ancestor(disk, disk)
  BY LocalFacts, AncestorFacts
<1> QED
  BY <1>1, <1>2, LocalFacts, ConsumerStep

\* The watermark on disk moves on when a load syncs it.
LEMMA SyncMovesOn ==
  ASSUME IInv, LoadSynced
  PROVE  /\ file' \in Chains /\ disk' \in Chains /\ file' = file
         /\ file # <<>> => disk' = file
         /\ ~lost => Ancestor(disk, disk') /\ Ancestor(disk', file')
<1>1. file \in Chains /\ disk \in Chains /\ (~lost => Ancestor(disk, file))
  BY DEF IInv, TypeOK
<1> QED
  BY <1>1, AncestorFacts DEF LoadSynced

\* A compare-and-swap that installs a descendant moves the watermark on.
LEMMA SwapMovesOn ==
  ASSUME IInv, NEW expected \in Chains, NEW next \in Chains, Ancestor(expected, next),
         Installed(expected, next)
  PROVE  /\ file' \in Chains /\ disk' = next /\ disk' \in Chains
         /\ ~lost => Ancestor(disk, disk') /\ Ancestor(disk', file')
<1>1. file \in Chains /\ disk \in Chains /\ (~lost => Ancestor(disk, file))
  BY DEF IInv, TypeOK
<1> QED
  BY <1>1, AncestorFacts DEF Installed

\* One that fails leaves the disk as it is, wherever it fails.
LEMMA FailedSwap ==
  ASSUME IInv, NEW expected \in Chains, NEW next \in Chains, Ancestor(expected, next),
         NotInstalled(expected, next)
  PROVE  /\ file' \in Chains /\ disk' = disk /\ disk' \in Chains /\ mishaps' \in Nat
         /\ ~lost => Ancestor(disk, disk') /\ Ancestor(disk', file')
<1>1. file \in Chains /\ disk \in Chains /\ mishaps \in Nat /\ (~lost => Ancestor(disk, file))
  BY DEF IInv, TypeOK
<1>2. disk' = disk /\ mishaps' \in Nat /\ (file' = file \/ (file = expected /\ file' = next))
  BY <1>1, MishapCounts DEF NotInstalled
<1> QED
  BY <1>1, <1>2, AncestorFacts

\* Refresh goes on with a watermark w that passed the check of the checkpoint.
LEMMA WithWatermarkKeeps ==
  ASSUME IInv, NEW c \in Consumers, file # <<>>, LoadSynced, WithWatermark(c, file),
         CheckpointVerdict(local[c], file, Checkpoint[c]) = "ok",
         UNCHANGED <<environment, exposed, mishaps>>
  PROVE  IInv'
<1> DEFINE l == [local[c] EXCEPT !.wm = file, !.valid = IF Checkpoint[c] = <<>> THEN @ ELSE file]
           m == IF MayStart(l) THEN [l EXCEPT !.pc = "get"] ELSE Return(l)
<1>1. Become(c, m)
  BY DEF WithWatermark
<1>2. l \in Locals /\ l.wm = file /\ l.cur = local[c].cur /\ (Checkpoint[c] # <<>> => l.valid = file)
  BY Zenon, LocalFacts DEF Locals
<1>3. Checkpoint[c] # <<>> => Ancestor(Checkpoint[c], file)
  <2>1. local[c].valid # <<>> /\ Checkpoint[c] # <<>> => Ancestor(Checkpoint[c], local[c].valid)
    BY LocalFacts DEF Knows
  <2> QED
    BY <2>1, LocalFacts, CheckpointPassed
<1>4. Checkpoint[c] # <<>> /\ l.cur # None => Ancestor(Checkpoint[c], l.cur.commit)
  BY <1>2, LocalFacts DEF Knows
<1>5. MayStart(l) => Started(l)
  BY DEF MayStart, Started, Commit
<1>6. m \in Locals
  BY Zenon, <1>2 DEF Return, Locals
<1>7. /\ m.pc = (IF MayStart(l) THEN "get" ELSE "idle")
      /\ m.wm = l.wm /\ m.cur = l.cur /\ m.valid = l.valid
  BY <1>2 DEF Return, Locals
<1>8. Knows(m, Checkpoint[c])
  <2> HIDE DEF m, l
  <2>1. m.pc = "get" => Started(m)
    BY <1>5, <1>7 DEF Started
  <2> QED
    BY <1>2, <1>3, <1>4, <1>7, <2>1 DEF Knows
<1>9. ASSUME ~lost PROVE Rests(m, disk')
  <2>1. disk' = file
    BY SyncMovesOn
  <2>2. Ancestor(file, file)
    BY LocalFacts, AncestorFacts
  <2>3. local[c].cur # None => Ancestor(local[c].cur.commit, disk) /\ Ancestor(disk, file)
    BY <1>9, LocalFacts DEF Rests
  <2>4. local[c].cur # None => Ancestor(local[c].cur.commit, file)
    BY <2>3, LocalFacts, AncestorFacts
  <2> HIDE DEF m, l
  <2> QED
    BY <1>2, <1>7, <2>1, <2>2, <2>4 DEF Rests
<1> HIDE DEF m
<1> QED
  BY <1>1, <1>6, <1>8, <1>9, LocalFacts, SyncMovesOn, ConsumerStep

\* A refresh that returns after the load of a watermark.
LEMMA SyncedReturn ==
  ASSUME IInv, NEW c \in Consumers, LoadSynced, Become(c, Return(local[c])),
         UNCHANGED <<environment, exposed, mishaps>>
  PROVE  IInv'
<1>1. Return(local[c]) \in Locals /\ Knows(Return(local[c]), Checkpoint[c])
  BY LocalFacts, ReturnKeeps
<1>2. ASSUME ~lost PROVE Rests(Return(local[c]), disk')
  <2>1. Rests(local[c], disk) /\ Ancestor(disk, disk') /\ disk' \in Chains
    BY <1>2, LocalFacts, SyncMovesOn
  <2>2. Ancestor(local[c].wm, disk')
    BY <2>1, LocalFacts, AncestorFacts DEF Rests
  <2>3. local[c].cur # None => Ancestor(local[c].cur.commit, disk')
    BY <2>1, LocalFacts, AncestorFacts DEF Rests
  <2>4. Rests(local[c], disk')
    BY <2>1, <2>2, <2>3 DEF Rests
  <2> QED
    BY <2>4, LocalFacts, ReturnKeeps
<1> QED
  BY <1>1, <1>2, LocalFacts, SyncMovesOn, ConsumerStep

\* A refresh loads the watermark.
LEMMA LoadWatermarkKeeps ==
  ASSUME IInv, NEW c \in Consumers, LoadWatermark(c)
  PROVE  IInv'
<1> DEFINE l == local[c]
           m == IF Checkpoint[c] # <<>> THEN [l EXCEPT !.pc = "init", !.wm = <<>>]
                ELSE IF FirstUse[c] /\ l.cur = None THEN [l EXCEPT !.pc = "get", !.wm = <<>>]
                ELSE Return([l EXCEPT !.wm = <<>>])
<1>1. UNCHANGED <<environment, exposed>>
  BY DEF LoadWatermark
<1>2. CASE /\ file # <<>> /\ LoadSynced /\ UNCHANGED mishaps
           /\ CheckpointVerdict(l, file, Checkpoint[c]) = "ok" /\ WithWatermark(c, file)
  BY <1>1, <1>2, WithWatermarkKeeps
<1>3. CASE LoadSynced /\ UNCHANGED mishaps /\ Become(c, Return(l))
  BY <1>1, <1>3, SyncedReturn
<1>4. CASE file = <<>> /\ LoadSynced /\ UNCHANGED mishaps /\ Become(c, m)
  <2>1. m \in Locals /\ m.wm = <<>> /\ m.cur = l.cur /\ m.valid = l.valid
        /\ m.pc = (IF Checkpoint[c] # <<>> THEN "init" ELSE IF FirstUse[c] /\ l.cur = None THEN "get" ELSE "idle")
    <3>1. <<>> \in Chains
      BY DEF Chains
    <3> QED
      BY Zenon, <3>1, LocalFacts DEF Return, Locals
  <2>2. Knows(m, Checkpoint[c])
    <3> HIDE DEF m
    <3> QED
      BY Zenon, <2>1, LocalFacts DEF Knows, Started
  <2>3. ASSUME ~lost PROVE Rests(m, disk')
    <3>1. disk' = disk /\ Ancestor(<<>>, disk)
      BY <1>4, LocalFacts, AncestorFacts DEF LoadSynced
    <3> HIDE DEF m
    <3> QED
      BY <2>1, <2>3, <3>1, LocalFacts DEF Rests
  <2> HIDE DEF m
  <2> QED
    BY <1>1, <1>4, <2>1, <2>2, <2>3, LocalFacts, SyncMovesOn, ConsumerStep
<1>5. CASE Mishap /\ Become(c, Return(l)) /\ UNCHANGED <<file, disk>>
  BY <1>1, <1>5, LocalFacts, MishapCounts, PlainReturn
<1> QED
  BY <1>2, <1>3, <1>4, <1>5 DEF LoadWatermark

\* A consumer that moves on to another step of the refresh without learning anything.
LEMMA StepOnly ==
  ASSUME IInv, NEW c \in Consumers, NEW pc \in {"initload", "persistload"},
         pc = "persistload" => local[c].pc = "persist", Become(c, [local[c] EXCEPT !.pc = pc])
  PROVE  /\ [local[c] EXCEPT !.pc = pc] \in Locals
         /\ Knows([local[c] EXCEPT !.pc = pc], Checkpoint[c])
         /\ ~lost => Rests([local[c] EXCEPT !.pc = pc], disk)
<1> DEFINE m == [local[c] EXCEPT !.pc = pc]
<1>1. /\ m \in Locals /\ m.pc = pc /\ m.wm = local[c].wm /\ m.cur = local[c].cur
      /\ m.valid = local[c].valid /\ m.cand = local[c].cand
  BY LocalFacts DEF Locals
<1> HIDE DEF m
<1>2. Knows(m, Checkpoint[c])
  BY <1>1, LocalFacts DEF Knows
<1>3. ~lost => Rests(m, disk)
  BY <1>1, LocalFacts DEF Rests
<1> QED
  BY <1>1, <1>2, <1>3 DEF m

\* A refresh installs the trusted checkpoint.
LEMMA InstallCheckpointKeeps ==
  ASSUME IInv, NEW c \in Consumers, InstallCheckpoint(c)
  PROVE  IInv'
<1> DEFINE l == [local[c] EXCEPT !.wm = Checkpoint[c]]
           m == IF MayStart(l) THEN [l EXCEPT !.pc = "get"] ELSE Return(l)
<1>1. UNCHANGED <<environment, exposed>> /\ local[c].pc = "init"
  BY DEF InstallCheckpoint
<1>2. <<>> \in Chains /\ Ancestor(<<>>, Checkpoint[c]) /\ Ancestor(Checkpoint[c], Checkpoint[c])
  BY LocalFacts, AncestorFacts DEF Chains
<1>3. CASE Installed(<<>>, Checkpoint[c]) /\ UNCHANGED mishaps /\ Become(c, m)
  <2>1. l \in Locals /\ l.wm = Checkpoint[c] /\ l.cur = local[c].cur /\ l.valid = local[c].valid
    BY LocalFacts DEF Locals
  <2>2. /\ m \in Locals /\ m.pc = (IF MayStart(l) THEN "get" ELSE "idle")
        /\ m.wm = l.wm /\ m.cur = l.cur /\ m.valid = l.valid
    BY Zenon, <2>1 DEF Return, Locals
  <2>3. MayStart(l) => Started(l)
    BY DEF MayStart, Started, Commit
  <2> HIDE DEF m, l
  <2>4. Knows(m, Checkpoint[c])
    <3>1. m.pc = "get" => Started(m)
      BY <2>2, <2>3 DEF Started
    <3> QED
      BY Zenon, <1>2, <2>1, <2>2, <3>1, LocalFacts DEF Knows
  <2>5. /\ file' \in Chains /\ disk' = Checkpoint[c] /\ disk' \in Chains
        /\ ~lost => Ancestor(disk, disk') /\ Ancestor(disk', file')
    BY <1>2, <1>3, LocalFacts, SwapMovesOn
  <2>6. ASSUME ~lost PROVE Rests(m, disk')
    <3>1. local[c].cur # None => Ancestor(local[c].cur.commit, disk')
      BY <2>5, <2>6, LocalFacts, AncestorFacts DEF Rests
    <3> QED
      BY <1>2, <2>1, <2>2, <2>5, <3>1 DEF Rests
  <2> QED
    BY <1>1, <1>3, <2>2, <2>4, <2>5, <2>6, LocalFacts, ConsumerStep
<1>4. CASE NotInstalled(<<>>, Checkpoint[c]) /\ Become(c, [local[c] EXCEPT !.pc = "initload"])
  <2>1. /\ file' \in Chains /\ disk' = disk /\ disk' \in Chains /\ mishaps' \in Nat
        /\ ~lost => Ancestor(disk, disk') /\ Ancestor(disk', file')
    BY <1>2, <1>4, LocalFacts, FailedSwap
  <2> DEFINE n == [local[c] EXCEPT !.pc = "initload"]
  <2>2. n \in Locals /\ Knows(n, Checkpoint[c]) /\ (~lost => Rests(n, disk))
    BY Zenon, <1>4, StepOnly
  <2>3. Become(c, n)
    BY <1>4
  <2> HIDE DEF n
  <2> QED
    BY Zenon, <1>1, <2>1, <2>2, <2>3, LocalFacts, ConsumerStep
<1> QED
  BY <1>3, <1>4 DEF InstallCheckpoint

\* A refresh reloads the watermark after a failed installation of the checkpoint.
LEMMA ReloadCheckpointKeeps ==
  ASSUME IInv, NEW c \in Consumers, ReloadCheckpoint(c)
  PROVE  IInv'
<1>1. UNCHANGED <<environment, exposed>>
  BY DEF ReloadCheckpoint
<1>2. CASE /\ LoadSynced /\ UNCHANGED mishaps /\ file # <<>>
           /\ CheckpointVerdict(local[c], file, Checkpoint[c]) = "ok" /\ WithWatermark(c, file)
  BY <1>1, <1>2, WithWatermarkKeeps
<1>3. CASE LoadSynced /\ UNCHANGED mishaps /\ Become(c, Return(local[c]))
  BY <1>1, <1>3, SyncedReturn
<1>4. CASE Mishap /\ Become(c, Return(local[c])) /\ UNCHANGED <<file, disk>>
  BY <1>1, <1>4, LocalFacts, MishapCounts, PlainReturn
<1> QED
  BY Zenon, <1>2, <1>3, <1>4 DEF ReloadCheckpoint

-----------------------------------------------------------------------------
(* References *)

\* From the exposed snapshot of l to the reference r, views move on.
Moves(l, r) ==
  l.cur # None => Len(l.cur.commit) <= Len(r.commit) /\ (lost \/ Ancestor(l.cur.commit, r.commit))

\* What a consumer may do with a reference it has accepted.
LEMMA AcceptedFacts ==
  ASSUME IInv, NEW c \in Consumers, local[c].pc = "get", NEW r \in Refs,
         ReferenceVerdict(local[c], r) = "ok"
  PROVE  /\ Ancestor(local[c].wm, r.commit)
         /\ Len(Commit(local[c].cur)) <= Len(r.commit)
         /\ Moves(local[c], r)
         /\ Checkpoint[c] # <<>> => Ancestor(Checkpoint[c], r.commit)
         /\ ~lost /\ Len(r.commit) <= Len(local[c].wm) => Ancestor(r.commit, disk)
<1> DEFINE l == local[c]
<1>1. /\ l \in Locals /\ l.wm \in Chains /\ disk \in Chains /\ Checkpoint[c] \in Chains
      /\ (l.cur # None => l.cur.commit \in Chains) /\ r.commit \in Chains
  BY LocalFacts DEF Refs
<1>2. Started(l) /\ (Checkpoint[c] # <<>> => Ancestor(Checkpoint[c], l.wm))
  BY LocalFacts DEF Knows
<1>3. /\ Len(r.commit) > Len(l.wm) => Ancestor(l.wm, r.commit)
      /\ Len(r.commit) <= Len(l.wm) => r.commit = l.wm
      /\ Len(Commit(l.cur)) <= Len(r.commit)
  BY <1>1, <1>2, ReferenceAccepted
<1>4. Len(l.wm) \in Nat /\ Len(r.commit) \in Nat
  BY <1>1, AncestorFacts
<1>5. Ancestor(l.wm, r.commit)
  <2>1. Ancestor(l.wm, l.wm)
    BY <1>1, AncestorFacts
  <2> QED
    BY <1>3, <1>4, <2>1
<1>6. Checkpoint[c] # <<>> => Ancestor(Checkpoint[c], r.commit)
  BY <1>1, <1>2, <1>5, AncestorFacts
<1>7. ASSUME l.cur # None, ~lost PROVE Ancestor(l.cur.commit, r.commit)
  <2>1. Ancestor(l.cur.commit, disk) /\ Ancestor(l.wm, disk)
    BY <1>7, LocalFacts DEF Rests
  <2>2. Len(l.cur.commit) <= Len(l.wm)
    BY <1>1, <1>2, <1>7, Verdicts DEF Started
  <2>3. Ancestor(l.cur.commit, l.wm)
    BY <1>1, <1>7, <2>1, <2>2, AncestorFacts
  <2> QED
    BY <1>1, <1>5, <1>7, <2>3, AncestorFacts
<1>8. Moves(l, r)
  BY <1>3, <1>7 DEF Moves, Commit
<1>9. ~lost /\ Len(r.commit) <= Len(l.wm) => Ancestor(r.commit, disk)
  BY <1>3, LocalFacts DEF Rests
<1> QED
  BY <1>3, <1>5, <1>6, <1>8, <1>9

\* A consumer adopts a reference that the watermark on disk covers.
LEMMA AdoptKeeps ==
  ASSUME IInv, NEW c \in Consumers, NEW r \in Refs, Adopt(c, local[c], r),
         Checkpoint[c] # <<>> => Ancestor(Checkpoint[c], r.commit),
         file' \in Chains, disk' \in Chains, mishaps' \in Nat, UNCHANGED environment,
         ~lost => Ancestor(disk, disk') /\ Ancestor(disk', file') /\ Ancestor(r.commit, disk')
  PROVE  IInv'
<1> DEFINE l == local[c]
           m == Return([l EXCEPT !.cur = r, !.wm = IF Len(r.commit) >= Len(@) THEN r.commit ELSE @])
<1>1. Become(c, m) /\ exposed' = exposed \union {r.commit}
  BY DEF Adopt
<1>2. r.commit \in Chains
  BY DEF Refs
<1>3. m \in Locals /\ m.pc = "idle" /\ m.cur = r /\ m.valid = l.valid /\ m.wm \in {r.commit, l.wm}
  BY Zenon, <1>2, LocalFacts DEF Return, Locals
<1> HIDE DEF m
<1>4. Knows(m, Checkpoint[c])
  BY Zenon, <1>3, LocalFacts DEF Knows
<1>5. ASSUME ~lost PROVE Rests(m, disk')
  <2>1. Ancestor(l.wm, disk')
    BY <1>5, LocalFacts, AncestorFacts DEF Rests
  <2> QED
    BY Zenon, <1>3, <1>5, <2>1 DEF Rests
<1>6. exposed' \subseteq Chains /\ \A e \in exposed' \ exposed : e = r.commit
  BY <1>1, <1>2, LocalFacts
<1> QED
  BY Zenon, <1>1, <1>3, <1>4, <1>5, <1>6, ConsumerStep

\* A consumer adopts the reference it has, signed with another key.
LEMMA SameCommit ==
  ASSUME NEW l \in Locals, NEW r \in Refs, ReferenceVerdict(l, r) = "same"
  PROVE  l.cur # None /\ r.commit = l.cur.commit
<1> DEFINE anchor == IF Generation(l.cur) > Len(l.wm) THEN l.cur.commit ELSE l.wm
<1>1. AnchorVerdict(r.commit, l.wm) # "same" /\ DescentVerdict(r.commit, anchor) # "same"
  BY DEF AnchorVerdict, DescentVerdict
<1> QED
  BY <1>1 DEF ReferenceVerdict

\* What Refresh does with an answer keeps the invariant.
LEMMA ConsiderKeeps ==
  ASSUME IInv, NEW c \in Consumers, local[c].pc = "get", NEW r \in Refs, Consider(c, r),
         mishaps' \in Nat, UNCHANGED <<environment, file, disk>>
  PROVE  IInv'
<1> DEFINE l == local[c]
<1>1. CASE Become(c, Return(l)) /\ UNCHANGED exposed
  BY <1>1, PlainReturn
<1>2. CASE /\ ReferenceVerdict(l, r) = "ok"
           /\ Become(c, [l EXCEPT !.pc = "persist", !.cand = r]) /\ UNCHANGED exposed
  <2> DEFINE m == [l EXCEPT !.pc = "persist", !.cand = r]
  <2>1. /\ m \in Locals /\ m.pc = "persist" /\ m.cand = r /\ m.cur = l.cur /\ m.wm = l.wm
        /\ m.valid = l.valid
    BY Zenon, LocalFacts DEF Locals
  <2>2. r # None
    BY ConsumerAssumption
  <2>3. Become(c, m)
    BY <1>2
  <2> HIDE DEF m
  <2>4. Knows(m, Checkpoint[c])
    BY <1>2, <2>1, <2>2, LocalFacts, AcceptedFacts DEF Knows
  <2>5. ASSUME ~lost PROVE Rests(m, disk)
    BY <1>2, <2>1, <2>5, LocalFacts, AcceptedFacts DEF Rests, Moves
  <2>6. Ancestor(disk, disk)
    BY LocalFacts, AncestorFacts
  <2> QED
    BY <1>2, <2>1, <2>3, <2>4, <2>5, <2>6, LocalFacts, ConsumerStep
<1>3. CASE ReferenceVerdict(l, r) = "ok" /\ Len(r.commit) <= Len(l.wm) /\ Adopt(c, l, r)
  <2>1. Ancestor(disk, disk)
    BY LocalFacts, AncestorFacts
  <2> QED
    BY <1>3, <2>1, LocalFacts, AcceptedFacts, AdoptKeeps
<1>4. CASE ReferenceVerdict(l, r) = "same" /\ Become(c, Return([l EXCEPT !.cur = r])) /\ UNCHANGED exposed
  <2> DEFINE m == Return([l EXCEPT !.cur = r])
  <2>1. l.cur # None /\ r.commit = l.cur.commit
    BY <1>4, LocalFacts, SameCommit
  <2>2. m \in Locals /\ m.pc = "idle" /\ m.cur = r /\ m.wm = l.wm /\ m.valid = l.valid
    BY Zenon, LocalFacts DEF Return, Locals
  <2>3. Become(c, m)
    BY <1>4
  <2> HIDE DEF m
  <2>4. Knows(m, Checkpoint[c])
    BY Zenon, <2>1, <2>2, LocalFacts DEF Knows
  <2>5. ~lost => Rests(m, disk)
    BY <2>1, <2>2, LocalFacts DEF Rests
  <2>6. Ancestor(disk, disk)
    BY LocalFacts, AncestorFacts
  <2> QED
    BY <1>4, <2>2, <2>3, <2>4, <2>5, <2>6, LocalFacts, ConsumerStep
<1> QED
  BY <1>1, <1>2, <1>3, <1>4 DEF Consider

\* A refresh downloads the reference.
LEMMA GetReferenceKeeps ==
  ASSUME IInv, NEW c \in Consumers, GetReference(c)
  PROVE  IInv'
<1>1. local[c].pc = "get" /\ UNCHANGED <<environment, file, disk>>
  BY DEF GetReference
<1>2. CASE ref # None /\ Consider(c, ref) /\ UNCHANGED mishaps
  <2>1. ref \in Refs
    BY <1>2 DEF IInv, TypeOK
  <2> QED
    BY <1>1, <1>2, <2>1, LocalFacts, ConsiderKeeps
<1>3. CASE Become(c, Return(local[c])) /\ UNCHANGED <<exposed, mishaps>>
  BY <1>1, <1>3, LocalFacts, PlainReturn
<1>4. CASE Mishap /\ Become(c, Return(local[c])) /\ UNCHANGED exposed
  BY <1>1, <1>4, LocalFacts, MishapCounts, PlainReturn
<1>5. CASE Mishap /\ \E r \in history : Consider(c, r)
  <2>1. PICK r \in history : Consider(c, r)
    BY <1>5
  <2>2. r \in Refs
    BY DEF IInv, TypeOK
  <2> QED
    BY <1>1, <1>5, <2>1, <2>2, LocalFacts, MishapCounts, ConsiderKeeps
<1> QED
  BY <1>2, <1>3, <1>4, <1>5 DEF GetReference

\* What a consumer knows of its candidate.
LEMMA CandidateFacts ==
  ASSUME IInv, NEW c \in Consumers, local[c].pc \in {"persist", "persistload"}
  PROVE  /\ local[c].cand \in Refs /\ local[c].cand.commit \in Chains
         /\ Ancestor(local[c].wm, local[c].cand.commit)
         /\ Moves(local[c], local[c].cand)
         /\ Checkpoint[c] # <<>> => Ancestor(Checkpoint[c], local[c].cand.commit)
  BY LocalFacts DEF Knows, Rests, Moves, Commit

\* A refresh persists the watermark of its candidate.
LEMMA PersistKeeps ==
  ASSUME IInv, NEW c \in Consumers, Persist(c)
  PROVE  IInv'
<1> DEFINE l == local[c]
<1>1. l.pc = "persist" /\ UNCHANGED environment
  BY DEF Persist
<1>2. CASE Installed(l.wm, l.cand.commit) /\ Adopt(c, l, l.cand) /\ UNCHANGED mishaps
  <2>1. /\ file' \in Chains /\ disk' = l.cand.commit /\ disk' \in Chains
        /\ ~lost => Ancestor(disk, disk') /\ Ancestor(disk', file')
    BY Zenon, <1>1, <1>2, LocalFacts, CandidateFacts, SwapMovesOn
  <2>2. Ancestor(l.cand.commit, disk')
    BY <1>1, <2>1, AncestorFacts
  <2> QED
    BY Zenon, <1>1, <1>2, <2>1, <2>2, LocalFacts, CandidateFacts, AdoptKeeps
<1>3. CASE /\ NotInstalled(l.wm, l.cand.commit)
           /\ Become(c, [l EXCEPT !.pc = "persistload"]) /\ UNCHANGED exposed
  <2>1. /\ file' \in Chains /\ disk' = disk /\ disk' \in Chains /\ mishaps' \in Nat
        /\ ~lost => Ancestor(disk, disk') /\ Ancestor(disk', file')
    BY <1>1, <1>3, LocalFacts, CandidateFacts, FailedSwap
  <2> DEFINE n == [l EXCEPT !.pc = "persistload"]
  <2>2. n \in Locals /\ Knows(n, Checkpoint[c]) /\ (~lost => Rests(n, disk))
    BY Zenon, <1>1, <1>3, StepOnly
  <2>3. Become(c, n)
    BY <1>3
  <2> HIDE DEF n
  <2> QED
    BY <1>1, <1>3, <2>1, <2>2, <2>3, LocalFacts, ConsumerStep
<1> QED
  BY <1>2, <1>3 DEF Persist

\* A refresh reloads the watermark after a failed compare-and-swap.
LEMMA PersistReloadKeeps ==
  ASSUME IInv, NEW c \in Consumers, PersistReload(c)
  PROVE  IInv'
<1> DEFINE l == local[c]
           longer == Len(file) > Len(l.cand.commit)
           m == Return([l EXCEPT !.wm = IF longer THEN file ELSE @])
<1>1. l.pc = "persistload" /\ UNCHANGED environment
  BY DEF PersistReload
<1>2. CASE LoadSynced /\ UNCHANGED mishaps /\ PersistedAfterAll(l) /\ Adopt(c, l, l.cand)
  <2>1. l.cand.commit = file /\ file # <<>> /\ file \in Chains
    BY <1>1, <1>2, CandidateFacts DEF PersistedAfterAll, Refs
  <2>2. disk' = file /\ Ancestor(l.cand.commit, disk')
    BY <1>2, <2>1, SyncMovesOn, AncestorFacts
  <2> QED
    BY Zenon, <1>1, <1>2, <2>2, LocalFacts, CandidateFacts, SyncMovesOn, AdoptKeeps
<1>3. CASE LoadSynced /\ UNCHANGED <<mishaps, exposed>> /\ Become(c, m)
  <2>1. m \in Locals /\ m.pc = "idle" /\ m.cur = l.cur /\ m.valid = l.valid
        /\ m.wm = (IF longer THEN file ELSE l.wm)
    BY Zenon, LocalFacts DEF Return, Locals
  <2> HIDE DEF m
  <2>2. Knows(m, Checkpoint[c])
    BY Zenon, <2>1, LocalFacts DEF Knows
  <2>3. longer => file # <<>>
    <3>1. Len(l.cand.commit) \in Nat /\ Len(<<>>) = 0
      BY <1>1, CandidateFacts, AncestorFacts
    <3> QED
      BY <3>1
  <2>4. ASSUME ~lost PROVE Rests(m, disk')
    <3>0. /\ Ancestor(l.wm, disk) /\ (l.cur # None => Ancestor(l.cur.commit, disk) /\ l.cur.commit \in Chains)
          /\ l.wm \in Chains /\ disk \in Chains
      BY <2>4, LocalFacts DEF Rests
    <3>1. Ancestor(disk, disk') /\ disk' \in Chains
      BY <1>3, <2>4, SyncMovesOn
    <3>2. Ancestor(l.wm, disk') /\ (l.cur # None => Ancestor(l.cur.commit, disk'))
      BY <3>0, <3>1, AncestorFacts
    <3>3. longer => Ancestor(file, disk')
      BY <1>3, <2>3, LocalFacts, SyncMovesOn, AncestorFacts
    <3> QED
      BY <2>1, <3>2, <3>3 DEF Rests
  <2> QED
    BY Zenon, <1>1, <1>3, <2>1, <2>2, <2>4, LocalFacts, SyncMovesOn, ConsumerStep
<1>4. CASE Mishap /\ Become(c, Return(l)) /\ UNCHANGED <<file, disk, exposed>>
  BY <1>1, <1>4, LocalFacts, MishapCounts, PlainReturn
<1> QED
  BY <1>2, <1>3, <1>4 DEF PersistReload

-----------------------------------------------------------------------------
(* The environment *)

\* A consumer process that has just started knows nothing.
LEMMA FreshKnows ==
  ASSUME NEW checkpoint, NEW d \in Chains
  PROVE  Fresh \in Locals /\ Knows(Fresh, checkpoint) /\ Rests(Fresh, d)
<1>1. <<>> \in Chains
  BY DEF Chains
<1> QED
  BY Zenon, <1>1, AncestorFacts DEF Fresh, Locals, Knows, Rests

\* A reference is set: published, signed anew, lost or set back.
LEMMA SetReferenceKeeps ==
  ASSUME IInv, NEW r \in Refs \cup {None}, SetReference(r), mishaps' \in Nat
  PROVE  IInv'
<1>1. TypeOK'
  BY DEF IInv, TypeOK, SetReference
<1> QED
  BY Zenon, <1>1 DEF IInv, SetReference, Knows, Rests

\* Publishers set references.
LEMMA PublishKeeps == ASSUME IInv, Publish PROVE IInv'
<1>1. mishaps' \in Nat
  BY DEF Publish, IInv, TypeOK
<1>2. ASSUME NEW n \in Manifest,
             SetReference([commit |-> Append(Commit(ref), n), key |-> IF ref = None THEN 1 ELSE ref.key])
      PROVE  IInv'
  <2>1. Commit(ref) \in Chains /\ (IF ref = None THEN 1 ELSE ref.key) \in Nat
    BY DEF IInv, TypeOK, Commit, Chains, Refs
  <2>2. Append(Commit(ref), n) \in Chains /\ Append(Commit(ref), n) # <<>>
    BY <2>1, ChainGrows
  <2>3. [commit |-> Append(Commit(ref), n), key |-> IF ref = None THEN 1 ELSE ref.key] \in Refs
    BY <2>1, <2>2 DEF Refs
  <2> QED
    BY <1>1, <1>2, <2>3, SetReferenceKeeps
<1>3. ASSUME ref # None, SetReference([ref EXCEPT !.key = @ + 1]) PROVE IInv'
  <2>1. [ref EXCEPT !.key = @ + 1] \in Refs
    BY <1>3 DEF IInv, TypeOK, Refs
  <2> QED
    BY <1>1, <1>3, <2>1, SetReferenceKeeps
<1> QED
  BY Zenon, <1>2, <1>3 DEF Publish

\* The store loses the reference or goes back to an old one.
LEMMA StoreMishapKeeps == ASSUME IInv, StoreMishap PROVE IInv'
<1>1. PICK r \in (history \union {None}) \ {ref} : SetReference(r)
  BY DEF StoreMishap
<1>2. r \in Refs \cup {None} /\ mishaps' \in Nat
  BY MishapCounts DEF StoreMishap, IInv, TypeOK
<1> QED
  BY <1>1, <1>2, SetReferenceKeeps

\* A process crashes.
LEMMA ProcessCrashKeeps == ASSUME IInv, NEW c \in Consumers, ProcessCrash(c) PROVE IInv'
<1>1. /\ Become(c, Fresh) /\ mishaps' \in Nat /\ UNCHANGED <<environment, file, disk, exposed>>
      /\ Ancestor(disk, disk)
  BY LocalFacts, MishapCounts, AncestorFacts DEF ProcessCrash
<1>2. Fresh \in Locals /\ Knows(Fresh, Checkpoint[c]) /\ Rests(Fresh, disk)
  BY LocalFacts, FreshKnows
<1> QED
  BY <1>1, <1>2, LocalFacts, ConsumerStep

\* The machine crashes: whichever of the two watermarks survives, it covers what was exposed.
LEMMA MachineCrashKeeps == ASSUME IInv, MachineCrash PROVE IInv'
<1>1. PICK w \in {file, disk} : file' = w /\ disk' = w
  BY DEF MachineCrash
<1>2. /\ local' = [c \in Consumers |-> Fresh] /\ UNCHANGED <<environment, exposed>>
      /\ file \in Chains /\ disk \in Chains /\ w \in Chains /\ exposed \subseteq Chains
      /\ mishaps' \in Nat
  BY MishapCounts DEF MachineCrash, IInv, TypeOK
<1>3. ASSUME NEW c \in Consumers
      PROVE  local'[c] = Fresh /\ Fresh \in Locals /\ Knows(local'[c], Checkpoint[c]) /\ Rests(local'[c], disk')
  BY <1>1, <1>2, FreshKnows
<1>4. TypeOK'
  <2>1. Fresh \in Locals
    BY <1>2, FreshKnows
  <2> QED
    BY <1>1, <1>2, <2>1 DEF IInv, TypeOK, environment
<1>5. ASSUME ~lost PROVE Ancestor(disk', file') /\ \A e \in exposed' : Ancestor(e, disk')
  <2>1. Ancestor(disk, file) /\ \A e \in exposed : e \in Chains /\ Ancestor(e, disk)
    BY <1>2, <1>5 DEF IInv
  <2>2. \A e \in exposed : Ancestor(e, file)
    BY <1>2, <2>1, AncestorFacts
  <2> QED
    BY <1>1, <1>2, <2>1, <2>2, AncestorFacts
<1> QED
  BY <1>2, <1>3, <1>4, <1>5 DEF IInv, environment

\* After the deletion of the watermark file only what needs no file is claimed.
LEMMA LoseWatermarkKeeps == ASSUME IInv, LoseWatermark PROVE IInv'
<1>1. <<>> \in Chains /\ mishaps' \in Nat
  BY MishapCounts DEF LoseWatermark, IInv, TypeOK, Chains
<1>2. TypeOK'
  BY <1>1 DEF LoseWatermark, IInv, TypeOK
<1> QED
  BY <1>2 DEF LoseWatermark, IInv

-----------------------------------------------------------------------------
(* The theorems *)

\* Every step of the specification keeps the invariant.
LEMMA StepInv == IInv /\ [Next]_vars => IInv'
<1> SUFFICES ASSUME IInv, [Next]_vars PROVE IInv'
  OBVIOUS
<1>1. ASSUME NEW c \in Consumers, Refresh(c) PROVE IInv'
  BY <1>1, LoadWatermarkKeeps, InstallCheckpointKeeps, ReloadCheckpointKeeps, GetReferenceKeeps,
     PersistKeeps, PersistReloadKeeps DEF Refresh
<1>2. CASE Publish
  BY <1>2, PublishKeeps
<1>3. CASE StoreMishap
  BY <1>3, StoreMishapKeeps
<1>4. CASE MachineCrash
  BY <1>4, MachineCrashKeeps
<1>5. CASE LoseWatermark
  BY <1>5, LoseWatermarkKeeps
<1>6. ASSUME NEW c \in Consumers, ProcessCrash(c) PROVE IInv'
  BY <1>6, ProcessCrashKeeps
<1>7. CASE UNCHANGED vars
  BY Zenon, <1>7 DEF vars, IInv, TypeOK, Knows, Rests
<1> QED
  BY <1>1, <1>2, <1>3, <1>4, <1>5, <1>6, <1>7 DEF Next

\* The inductive invariant holds.
LEMMA InvHolds == Spec => []IInv
  BY InitInv, StepInv, PTL DEF Spec

\* Refresh exposes nothing before its watermark is durable, and nothing that does not descend from
\* the trusted checkpoint, for any number of consumers that share the watermark file and any
\* sequence of crashes, failed writes and answers of the store.
THEOREM ExposedAnchored == Spec => []ExposedIsAnchored
<1>1. IInv => ExposedIsAnchored
  BY Zenon DEF IInv, ExposedIsAnchored, DurableBeforeExposed, CheckpointHolds, Knows
<1> QED
  BY <1>1, InvHolds, PTL

\* The view of a consumer over one step of its refresh.
LEMMA RefreshMovesOn ==
  ASSUME IInv, NEW c \in Consumers, Refresh(c)
  PROVE  \E m : Become(c, m) /\ (m.cur = local[c].cur \/ (m.cur \in Refs /\ Moves(local[c], m.cur)))
<1> DEFINE l == local[c]
           Good(m) == m.cur = l.cur \/ (m.cur \in Refs /\ Moves(l, m.cur))
<1>1. l \in Locals
  BY LocalFacts
<1>2. ASSUME NEW k \in Locals, k.cur = l.cur PROVE Good(Return(k))
  BY <1>2 DEF Return, Locals
<1>3. ASSUME NEW r \in Refs, Adopt(c, l, r), Moves(l, r) PROVE \E m : Become(c, m) /\ Good(m)
  <2> DEFINE m == Return([l EXCEPT !.cur = r, !.wm = IF Len(r.commit) >= Len(@) THEN r.commit ELSE @])
  <2>1. m.cur = r
    BY <1>1 DEF Return, Locals
  <2>2. Become(c, m)
    BY <1>3 DEF Adopt
  <2> QED
    BY <1>3, <2>1, <2>2
<1>4. ASSUME NEW w \in Chains, WithWatermark(c, w) PROVE \E m : Become(c, m) /\ Good(m)
  <2> DEFINE k == [l EXCEPT !.wm = w, !.valid = IF Checkpoint[c] = <<>> THEN @ ELSE w]
             m == IF MayStart(k) THEN [k EXCEPT !.pc = "get"] ELSE Return(k)
  <2>1. m.cur = l.cur
    BY <1>1 DEF Return, Locals
  <2>2. Become(c, m)
    BY <1>4 DEF WithWatermark
  <2> QED
    BY Zenon, <2>1, <2>2
<1>5. ASSUME Become(c, Return(l)) PROVE \E m : Become(c, m) /\ Good(m)
  BY <1>1, <1>2, <1>5
<1>6. CASE LoadWatermark(c)
  <2> DEFINE m == IF Checkpoint[c] # <<>> THEN [l EXCEPT !.pc = "init", !.wm = <<>>]
                  ELSE IF FirstUse[c] /\ l.cur = None THEN [l EXCEPT !.pc = "get", !.wm = <<>>]
                  ELSE Return([l EXCEPT !.wm = <<>>])
  <2>1. m.cur = l.cur
    BY <1>1 DEF Return, Locals
  <2>2. Become(c, m) \/ WithWatermark(c, file) \/ Become(c, Return(l))
    BY <1>6 DEF LoadWatermark
  <2> HIDE DEF m
  <2> QED
    BY <1>4, <1>5, <2>1, <2>2, LocalFacts
<1>7. CASE InstallCheckpoint(c)
  <2> DEFINE k == [l EXCEPT !.wm = Checkpoint[c]]
             m == IF MayStart(k) THEN [k EXCEPT !.pc = "get"] ELSE Return(k)
             n == [l EXCEPT !.pc = "initload"]
  <2>1. m.cur = l.cur /\ n.cur = l.cur
    BY <1>1 DEF Return, Locals
  <2>2. Become(c, m) \/ Become(c, n)
    BY <1>7 DEF InstallCheckpoint
  <2> HIDE DEF m, n
  <2> QED
    BY <2>1, <2>2
<1>8. CASE ReloadCheckpoint(c)
  BY <1>4, <1>5, <1>8, LocalFacts DEF ReloadCheckpoint
<1>9. CASE GetReference(c)
  <2>1. ASSUME NEW r \in Refs, Consider(c, r) PROVE \E m : Become(c, m) /\ Good(m)
    <3>1. l.pc = "get"
      BY <1>9 DEF GetReference
    <3>2. CASE ReferenceVerdict(l, r) = "ok" /\ Adopt(c, l, r)
      BY <1>3, <3>1, <3>2, AcceptedFacts
    <3>3. CASE Become(c, [l EXCEPT !.pc = "persist", !.cand = r])
      <4>1. [l EXCEPT !.pc = "persist", !.cand = r].cur = l.cur
        BY <1>1 DEF Locals
      <4> QED
        BY Zenon, <3>3, <4>1
    <3>4. CASE ReferenceVerdict(l, r) = "same" /\ Become(c, Return([l EXCEPT !.cur = r]))
      <4>1. l.cur # None /\ r.commit = l.cur.commit /\ r.commit \in Chains
        BY <1>1, <3>4, SameCommit DEF Refs
      <4>2. Moves(l, r)
        BY <4>1, AncestorFacts DEF Moves
      <4>3. Return([l EXCEPT !.cur = r]).cur = r
        BY <1>1 DEF Return, Locals
      <4> QED
        BY <3>4, <4>2, <4>3
    <3> QED
      BY <1>5, <2>1, <3>2, <3>3, <3>4 DEF Consider
  <2>2. (ref # None => ref \in Refs) /\ history \subseteq Refs
    BY DEF IInv, TypeOK
  <2> QED
    BY <1>5, <1>9, <2>1, <2>2 DEF GetReference
<1>10. CASE Persist(c)
  <2>1. l.pc = "persist"
    BY <1>10 DEF Persist
  <2>2. [l EXCEPT !.pc = "persistload"].cur = l.cur
    BY <1>1 DEF Locals
  <2> QED
    BY Zenon, <1>3, <1>10, <2>1, <2>2, CandidateFacts DEF Persist
<1>11. CASE PersistReload(c)
  <2> DEFINE m == Return([l EXCEPT !.wm = IF Len(file) > Len(l.cand.commit) THEN file ELSE @])
  <2>1. l.pc = "persistload" /\ (Adopt(c, l, l.cand) \/ Become(c, m) \/ Become(c, Return(l)))
    BY <1>11 DEF PersistReload
  <2>2. m.cur = l.cur
    BY <1>1 DEF Return, Locals
  <2>3. l.cand \in Refs /\ Moves(l, l.cand)
    BY <2>1, CandidateFacts
  <2> HIDE DEF m
  <2>4. CASE Adopt(c, l, l.cand)
    BY <1>3, <2>3, <2>4
  <2>5. CASE Become(c, m)
    BY <2>2, <2>5
  <2> QED
    BY <1>5, <2>1, <2>4, <2>5
<1> QED
  BY <1>6, <1>7, <1>8, <1>9, <1>10, <1>11 DEF Refresh

\* A step that leaves a view as it is.
LEMMA SameView ==
  ASSUME IInv, NEW c \in Consumers, local'[c].cur \in {local[c].cur, None},
         local[c].cur # None, local'[c].cur # None
  PROVE  /\ Len(local[c].cur.commit) <= Len(local'[c].cur.commit)
         /\ Ancestor(local[c].cur.commit, local'[c].cur.commit)
<1>1. local'[c].cur = local[c].cur /\ local[c].cur.commit \in Chains
  BY LocalFacts
<1>2. ASSUME NEW s \in Chains PROVE Len(s) <= Len(s) /\ Ancestor(s, s)
  BY AncestorFacts
<1> QED
  BY <1>1, <1>2

\* Views move on in every step.
LEMMA StepMovesOn == IInv /\ [Next]_vars => [ViewsMoveOn]_vars
<1> SUFFICES ASSUME IInv, Next PROVE ViewsMoveOn
  OBVIOUS
<1>1. ASSUME NEW c \in Consumers, Refresh(c) PROVE ViewsMoveOn
  <2>1. PICK m : Become(c, m) /\ (m.cur = local[c].cur \/ (m.cur \in Refs /\ Moves(local[c], m.cur)))
    BY <1>1, RefreshMovesOn
  <2>2. local'[c] = m /\ \A d \in Consumers \ {c} : local'[d] = local[d]
    BY <2>1 DEF Become, IInv, TypeOK
  <2> QED
    BY <2>1, <2>2, SameView DEF ViewsMoveOn, Moves
<1>2. CASE Publish \/ StoreMishap \/ LoseWatermark
  <2>1. local' = local
    BY <1>2 DEF Publish, StoreMishap, LoseWatermark, SetReference
  <2> QED
    BY <2>1, SameView DEF ViewsMoveOn
<1>3. CASE MachineCrash
  BY <1>3 DEF MachineCrash, ViewsMoveOn, Fresh
<1>4. ASSUME NEW c \in Consumers, ProcessCrash(c) PROVE ViewsMoveOn
  <2>1. local'[c] = Fresh /\ \A d \in Consumers \ {c} : local'[d] = local[d]
    BY <1>4 DEF ProcessCrash, Become, IInv, TypeOK
  <2>2. Fresh.cur = None
    BY DEF Fresh
  <2> QED
    BY <2>1, <2>2, SameView DEF ViewsMoveOn
<1> QED
  BY <1>1, <1>2, <1>3, <1>4 DEF Next

\* Refresh never takes the users of a running consumer to an older generation, nor, while the
\* watermark file is not deleted under it, to another history, whatever references the store serves.
THEOREM ViewsNeverFork == Spec => ViewNeverForks
  BY InvHolds, StepMovesOn, PTL DEF Spec, ViewNeverForks

-----------------------------------------------------------------------------
(* The reader of a share *)

Ids == [revision : DOMAIN Signed, foreign : BOOLEAN]

\* Where polls are, and what they were sent with.
PollInv(c) ==
  /\ caller[c].pc \in {"ask", "answer"} => gate = c
  /\ caller[c].pc = "ask" /\ caller[c].tag # <<>> => S!HasCurrent
  /\ caller[c].pc = "answer" =>
       /\ \A r \in caller[c].got : r.bundle \in Ids
       /\ caller[c].got = {} => S!HasCurrent

ReaderShape ==
  /\ root.bundle \in Ids
  /\ S!HasCurrent => current.bundle \in Ids
  /\ setbacks \in Nat
  /\ DOMAIN caller = Callers /\ caller = [c \in Callers |-> caller[c]]
  /\ \A c \in Callers : PollInv(c)

\* Without setbacks: the root, the answers under way and the current bundle are in order.
InOrder ==
  /\ ~root.bundle.foreign
  /\ S!HasCurrent => ~current.bundle.foreign /\ current.bundle.revision <= root.bundle.revision
  /\ \A c \in Callers : caller[c].pc = "answer" => \A r \in caller[c].got :
       /\ ~r.bundle.foreign /\ r.bundle.revision <= root.bundle.revision
       /\ S!HasCurrent => current.bundle.revision <= r.bundle.revision

ReaderInv == ReaderShape /\ S!HandlesStayReadable

HonestInv == ReaderInv /\ S!NoFalseAlarm /\ (setbacks = 0 => InOrder)

-----------------------------------------------------------------------------
(* Installing a bundle *)

\* What installBundle may do to the state: nothing, or make b current, and then all that was
\* available stays available.
LEMMA InstallFacts ==
  ASSUME S!BundlesAreValid, ReaderShape, NEW b \in Ids, NEW tag, S!Install(b, tag)
  PROVE  /\ S!HasCurrent => S!HasCurrent'
         /\ S!Available \subseteq S!Available'
         /\ S!HasCurrent' => current'.bundle \in {b} \/ (S!HasCurrent /\ current' = current)
         /\ S!InstallError(b) = "ok" => S!HasCurrent'
         /\ S!HasCurrent' => DOMAIN S!Caps(current'.bundle) \subseteq S!Available'
         /\ S!InstallError(b) \in {"ok", "limit", "alarm"}
         /\ S!InstallError(b) = "alarm" => S!HasCurrent /\ S!Verdict(b) = "alarm"
         /\ S!HasCurrent /\ current'.bundle # current.bundle => S!Verdict(b) = "ok" /\ current'.bundle = b
<1> DEFINE caps == S!Caps(b)
           next == [revision |-> b.revision, bundle |-> b, tag |-> tag]
<1>1. b.revision \in Nat \ {0}
  BY DEF S!BundlesAreValid, Ids
<1>2. next # S!NoBundle /\ next.bundle = b
  <2>1. next.revision # 0 /\ S!NoBundle.revision = 0
    BY <1>1 DEF S!NoBundle
  <2> QED
    BY <2>1
<1>3. S!InstallError(b) \in {"ok", "limit", "alarm"}
  BY DEF S!InstallError
<1>4. CASE ~S!Fits(caps) /\ UNCHANGED S!state
  <2>1. S!InstallError(b) = "limit"
    BY <1>4 DEF S!InstallError
  <2> QED
    BY <1>3, <1>4, <2>1 DEF S!state, S!HasCurrent, S!Available
<1>5. CASE S!Fits(caps) /\ current = S!NoBundle /\ current' = next /\ UNCHANGED <<retained, retainedBytes>>
  <2>1. S!InstallError(b) = "ok"
    BY <1>5 DEF S!InstallError
  <2> QED
    BY <1>2, <1>3, <1>5, <2>1 DEF S!HasCurrent, S!Available
<1>6. CASE S!Fits(caps) /\ current # S!NoBundle /\ S!Verdict(b) = "alarm" /\ UNCHANGED S!state
  BY <1>3, <1>6 DEF S!state, S!HasCurrent, S!Available
<1>7. CASE /\ S!Fits(caps) /\ current # S!NoBundle /\ S!Verdict(b) = "same"
           /\ current' = next /\ UNCHANGED <<retained, retainedBytes>>
  <2>1. S!InstallError(b) = "ok"
    BY <1>7 DEF S!InstallError
  <2>2. b = current.bundle
    BY <1>7 DEF S!Verdict
  <2> QED
    BY <1>2, <1>3, <1>7, <2>1, <2>2 DEF S!HasCurrent, S!Available
<1>8. CASE /\ S!Fits(caps) /\ current # S!NoBundle /\ S!Verdict(b) = "ok" /\ UNCHANGED S!state
           /\ ~S!UnionFits(DOMAIN S!Kept(caps), S!KeptBytes(caps), caps)
  BY <1>3, <1>8 DEF S!InstallError, S!state, S!HasCurrent, S!Available
<1>9. CASE /\ S!Fits(caps) /\ current # S!NoBundle /\ S!Verdict(b) = "ok" /\ current' = next /\ retained' = S!Kept(caps)
           /\ S!UnionFits(DOMAIN S!Kept(caps), S!KeptBytes(caps), caps)
  <2>1. S!InstallError(b) = "ok"
    BY <1>9 DEF S!InstallError
  <2>2. DOMAIN retained' = (DOMAIN retained \union DOMAIN S!Caps(current.bundle)) \ DOMAIN caps
    BY <1>9 DEF S!Kept
  <2>3. S!Available' = DOMAIN retained' \union DOMAIN caps
    <3>1. S!HasCurrent'
      BY <1>2, <1>9 DEF S!HasCurrent
    <3>2. S!Caps(current.bundle)' = S!Caps(b)
      BY <1>2, <1>9 DEF S!Caps, S!Bundle
    <3> QED
      BY <3>1, <3>2 DEF S!Available
  <2>4. S!Available \subseteq S!Available'
    BY <2>2, <2>3 DEF S!Available
  <2> QED
    BY <1>2, <1>3, <1>9, <2>1, <2>3, <2>4 DEF S!HasCurrent
<1> QED
  BY <1>4, <1>5, <1>6, <1>7, <1>8, <1>9 DEF S!Install

-----------------------------------------------------------------------------
(* Steps *)

\* A step of one caller is a step of that caller.
LEMMA OneSteps ==
  ASSUME ReaderShape, NEW c \in Callers, NEW s, S!Step(c, s)
  PROVE  /\ caller'[c] = s /\ \A d \in Callers : d # c => caller'[d] = caller[d]
         /\ DOMAIN caller' = Callers /\ caller' = [d \in Callers |-> caller'[d]]
  BY DEF ReaderShape, S!Step

\* The answer of a caller that is told of a rollback or a split.
Alarmed(s) == s = S!Idle("alarm")

\* A step of a caller that installs nothing.
LEMMA QuietStep ==
  ASSUME S!BundlesAreValid, ReaderInv, NEW c \in Callers, NEW s, S!Step(c, s), UNCHANGED <<root, S!state, given, setbacks>>,
         gate' = gate \/ (gate = S!Nobody /\ gate' = c) \/ (gate = c /\ gate' = S!Nobody), PollInv(c)'
  PROVE  /\ ReaderInv'
         /\ HonestInv /\ ~Alarmed(s) /\ (s.pc = "answer" => s.got \subseteq {root}) => HonestInv'
<1>1. /\ caller'[c] = s /\ \A d \in Callers : d # c => caller'[d] = caller[d]
      /\ DOMAIN caller' = Callers /\ caller' = [d \in Callers |-> caller'[d]]
  BY OneSteps DEF ReaderInv
<1>2. current' = current /\ retained' = retained /\ S!HasCurrent' = S!HasCurrent /\ S!Available' = S!Available
  BY DEF S!state, S!HasCurrent, S!Available
<1>3. \A d \in Callers : PollInv(d)'
  <2> SUFFICES ASSUME NEW d \in Callers, d # c PROVE PollInv(d)'
    OBVIOUS
  <2>1. PollInv(d) /\ caller'[d] = caller[d]
    BY <1>1 DEF ReaderInv, ReaderShape
  <2>2. gate = d => gate' = d
    BY DEF S!BundlesAreValid
  <2> QED
    BY <1>2, <2>1, <2>2 DEF PollInv
<1>4. ReaderInv'
  BY <1>1, <1>2, <1>3 DEF ReaderInv, ReaderShape, S!HandlesStayReadable
<1>5. ASSUME HonestInv, ~Alarmed(s), s.pc = "answer" => s.got \subseteq {root} PROVE HonestInv'
  <2>1. S!NoFalseAlarm'
    BY <1>1, <1>5 DEF HonestInv, S!NoFalseAlarm, Alarmed
  <2>2. ASSUME setbacks = 0 PROVE InOrder'
    <3>1. InOrder
      BY <1>5, <2>2 DEF HonestInv
    <3>2. root.bundle.revision \in Nat
      BY DEF ReaderInv, ReaderShape, Ids, S!BundlesAreValid
    <3> QED
      BY <1>1, <1>2, <1>5, <3>1, <3>2 DEF InOrder
  <2> QED
    BY <1>4, <2>1, <2>2 DEF HonestInv
<1> QED
  BY <1>4, <1>5

\* A step of the root object.
LEMMA RootStep ==
  ASSUME S!BundlesAreValid, ReaderInv, root'.bundle \in Ids, setbacks' \in Nat, UNCHANGED <<S!state, gate, caller, given>>
  PROVE  /\ ReaderInv'
         /\ /\ HonestInv /\ setbacks \in Nat
            /\ \/ setbacks' = setbacks /\ (~root.bundle.foreign => ~root'.bundle.foreign)
                  /\ root.bundle.revision <= root'.bundle.revision
               \/ setbacks' = setbacks + 1
            => HonestInv'
<1>1. ReaderInv'
  BY DEF ReaderInv, ReaderShape, PollInv, S!HasCurrent, S!HandlesStayReadable, S!Available, S!state
<1>2. ASSUME HonestInv, setbacks \in Nat, setbacks' = setbacks + 1 PROVE HonestInv'
  BY <1>1, <1>2 DEF HonestInv, S!NoFalseAlarm
<1>3. ASSUME HonestInv, setbacks' = setbacks, ~root.bundle.foreign => ~root'.bundle.foreign,
             root.bundle.revision <= root'.bundle.revision
      PROVE  HonestInv'
  <2>1. S!NoFalseAlarm'
    BY <1>3 DEF HonestInv, S!NoFalseAlarm
  <2>2. ASSUME setbacks = 0 PROVE InOrder'
    <3>1. InOrder /\ S!HasCurrent' = S!HasCurrent /\ current' = current
      BY <1>3, <2>2 DEF HonestInv, S!HasCurrent, S!state
    <3>2. root.bundle.revision \in Nat /\ root'.bundle.revision \in Nat
      BY DEF ReaderInv, ReaderShape, Ids, S!BundlesAreValid
    <3>3. S!HasCurrent => current.bundle.revision \in Nat
      BY DEF ReaderInv, ReaderShape, Ids, S!BundlesAreValid
    <3>4. \A c \in Callers : caller[c].pc = "answer" => \A r \in caller[c].got : r.bundle.revision \in Nat
      BY DEF ReaderInv, ReaderShape, PollInv, Ids, S!BundlesAreValid
    <3> QED
      BY <1>3, <3>1, <3>2, <3>3, <3>4 DEF InOrder
  <2> QED
    BY <1>1, <1>3, <2>1, <2>2 DEF HonestInv
<1> QED
  BY <1>2, <1>3, <1>1

\* The publisher and everybody else who writes the root.
LEMMA RootKeeps ==
  ASSUME S!BundlesAreValid, ReaderInv, S!Publish \/ S!Rewrite \/ S!Setback \/ S!Expire
  PROVE  ReaderInv' /\ (HonestInv => HonestInv')
<1>1. root.bundle \in Ids /\ setbacks \in Nat /\ root.bundle.revision \in Nat
  BY DEF ReaderInv, ReaderShape, Ids, S!BundlesAreValid
<1>2. CASE S!Publish
  <2>1. /\ root'.bundle = [root.bundle EXCEPT !.revision = @ + 1] /\ root.bundle.revision < Len(Signed)
        /\ setbacks' = setbacks /\ UNCHANGED <<S!state, gate, caller, given>>
    BY <1>2 DEF S!Publish
  <2>2. /\ root'.bundle \in Ids /\ root'.bundle.foreign = root.bundle.foreign
        /\ root'.bundle.revision = root.bundle.revision + 1
    BY <1>1, <2>1 DEF Ids, S!BundlesAreValid
  <2> QED
    BY <1>1, <2>1, <2>2, RootStep
<1>3. CASE S!Rewrite
  <2>1. root' = [root EXCEPT !.seal = @ + 1] /\ setbacks' = setbacks /\ UNCHANGED <<S!state, gate, caller, given>>
    BY <1>3 DEF S!Rewrite
  <2>2. root'.bundle = root.bundle
    BY <2>1
  <2> QED
    BY <1>1, <2>1, <2>2, RootStep
<1>4. CASE S!Setback
  <2>1. root'.bundle \in Ids /\ setbacks' = setbacks + 1 /\ UNCHANGED <<S!state, gate, caller, given>>
    BY <1>4 DEF S!Setback, Ids
  <2> QED
    BY <1>1, <2>1, RootStep
<1>5. CASE S!Expire
  <2>1. root' = root /\ setbacks' = setbacks /\ UNCHANGED <<S!state, gate, caller, given>>
    BY <1>5 DEF S!Expire
  <2> QED
    BY <1>1, <2>1, RootStep
<1> QED
  BY <1>2, <1>3, <1>4, <1>5

\* Steps of a caller outside a poll, and the end of one that failed.
LEMMA OutsideKeeps ==
  ASSUME S!BundlesAreValid, ReaderInv, NEW c \in Callers,
         \/ S!GetReference(c) \/ S!PollFails(c) \/ S!GetImmutable(c) \/ S!Missed(c) \/ S!FindAgain(c) \/ S!Recheck(c) \/ S!Fetch(c)
  PROVE  ReaderInv' /\ (HonestInv => HonestInv')
<1>1. UNCHANGED <<root, S!state, given, setbacks>>
  BY DEF S!GetReference, S!PollFails, S!GetImmutable, S!Missed, S!FindAgain, S!Recheck, S!Fetch
<1>2. gate' = gate \/ (gate = c /\ gate' = S!Nobody)
  BY DEF S!GetReference, S!PollFails, S!GetImmutable, S!Missed, S!FindAgain, S!Recheck, S!Fetch
<1>3. PICK s : S!Step(c, s) /\ s.pc \notin {"ask", "answer"} /\ ~Alarmed(s)
  <2>1. ASSUME NEW pc \in {"gate", "fetch", "missed", "recheck", "find again"}, NEW want
        PROVE  [pc |-> pc, want |-> want].pc \notin {"ask", "answer"} /\ ~Alarmed([pc |-> pc, want |-> want])
    <3>1. [pc |-> pc, want |-> want].pc = pc /\ S!Idle("alarm").pc = "idle"
      BY DEF S!Idle
    <3> QED
      BY <3>1 DEF Alarmed
  <2>2. ASSUME NEW answer \in {"ok", "error", "denied"}
        PROVE  S!Idle(answer).pc \notin {"ask", "answer"} /\ ~Alarmed(S!Idle(answer))
    <3>1. S!Idle(answer).pc = "idle" /\ S!Idle(answer).answer = answer /\ S!Idle("alarm").answer = "alarm"
      BY DEF S!Idle
    <3> QED
      BY <3>1 DEF Alarmed
  <2>3. CASE S!GetReference(c)
    BY <2>1, <2>3 DEF S!GetReference
  <2>4. CASE S!PollFails(c)
    BY <2>2, <2>4 DEF S!PollFails
  <2>5. CASE S!GetImmutable(c)
    BY Zenon, <2>1, <2>5 DEF S!GetImmutable
  <2>6. CASE S!Missed(c)
    BY <2>1, <2>6 DEF S!Missed
  <2>7. CASE S!FindAgain(c)
    BY <2>1, <2>7 DEF S!FindAgain
  <2>8. CASE S!Recheck(c)
    BY Zenon, <2>1, <2>2, <2>8 DEF S!Recheck
  <2>9. CASE S!Fetch(c)
    BY Zenon, <2>2, <2>9 DEF S!Fetch
  <2> QED
    BY <2>3, <2>4, <2>5, <2>6, <2>7, <2>8, <2>9
<1>4. PollInv(c)'
  <2>1. caller'[c] = s
    BY <1>3, OneSteps DEF ReaderInv
  <2> QED
    BY <1>3, <2>1 DEF PollInv
<1> QED
  BY <1>1, <1>2, <1>3, <1>4, QuietStep

\* A caller acquires the gate.
LEMMA AcquireKeeps ==
  ASSUME S!BundlesAreValid, ReaderInv, NEW c \in Callers, S!Acquire(c)
  PROVE  ReaderInv' /\ (HonestInv => HonestInv')
<1>1. UNCHANGED <<root, S!state, given, setbacks>> /\ gate = S!Nobody /\ S!HasCurrent' = S!HasCurrent
  BY DEF S!Acquire, S!GateIsFree, S!HasCurrent, S!state
<1>2. S!Idle("alarm").pc = "idle"
  BY DEF S!Idle
<1>3. CASE S!Step(c, [pc |-> "find again", want |-> caller[c].want]) /\ UNCHANGED gate
  <2> DEFINE s == [pc |-> "find again", want |-> caller[c].want]
  <2>1. s.pc = "find again" /\ S!Step(c, s)
    BY <1>3
  <2> HIDE DEF s
  <2>2. caller'[c] = s
    BY <2>1, OneSteps DEF ReaderInv
  <2>3. PollInv(c)'
    BY <2>1, <2>2 DEF PollInv
  <2> QED
    BY <1>1, <1>2, <1>3, <2>1, <2>3, QuietStep DEF Alarmed
<1>4. CASE /\ S!Step(c, [pc |-> "ask", want |-> caller[c].want, tag |-> IF S!HasCurrent THEN current.tag ELSE <<>>])
           /\ gate' = c
  <2> DEFINE s == [pc |-> "ask", want |-> caller[c].want, tag |-> IF S!HasCurrent THEN current.tag ELSE <<>>]
  <2>1. s.pc = "ask" /\ S!Step(c, s) /\ (s.tag # <<>> => S!HasCurrent)
    BY <1>4
  <2> HIDE DEF s
  <2>2. caller'[c] = s
    BY <2>1, OneSteps DEF ReaderInv
  <2>3. PollInv(c)'
    BY <1>1, <1>4, <2>1, <2>2 DEF PollInv
  <2> QED
    BY <1>1, <1>2, <1>4, <2>1, <2>3, QuietStep DEF Alarmed
<1> QED
  BY <1>3, <1>4 DEF S!Acquire

\* The store answers a poll.
LEMMA RespondKeeps ==
  ASSUME S!BundlesAreValid, ReaderInv, NEW c \in Callers, S!Respond(c)
  PROVE  ReaderInv' /\ (HonestInv => HonestInv')
<1> DEFINE s == [pc |-> "answer", want |-> caller[c].want, got |-> IF caller[c].tag = S!Tag(root) THEN {} ELSE {root}]
<1>1. /\ UNCHANGED <<root, S!state, given, setbacks, gate>> /\ S!HasCurrent' = S!HasCurrent
      /\ caller[c].pc = "ask" /\ S!Step(c, s)
  BY DEF S!Respond, S!HasCurrent, S!state
<1>2. s.pc = "answer" /\ s.got \subseteq {root} /\ (s.got = {} => caller[c].tag = S!Tag(root))
  OBVIOUS
<1>3. S!Tag(root) # <<>>
  BY DEF S!Tag
<1>4. S!Idle("alarm").pc = "idle"
  BY DEF S!Idle
<1> HIDE DEF s
<1>5. caller'[c] = s
  BY <1>1, OneSteps DEF ReaderInv
<1>6. PollInv(c)'
  <2>1. PollInv(c) /\ root.bundle \in Ids
    BY DEF ReaderInv, ReaderShape
  <2> QED
    BY <1>1, <1>2, <1>3, <1>5, <2>1 DEF PollInv
<1> QED
  BY <1>1, <1>2, <1>4, <1>6, QuietStep DEF Alarmed

\* An answer of an honest publisher's root raises no alarm.
LEMMA NoAlarm ==
  ASSUME S!BundlesAreValid, S!HonestPublisher, S!HasCurrent, current.bundle \in Ids, NEW b \in Ids,
         ~b.foreign, ~current.bundle.foreign, current.bundle.revision <= b.revision
  PROVE  S!Verdict(b) # "alarm"
<1> DEFINE old == current.bundle
<1>1. /\ b.revision \in DOMAIN Signed /\ old.revision \in DOMAIN Signed
      /\ b.revision \in Nat /\ old.revision \in Nat
  BY DEF Ids, S!BundlesAreValid
<1>2. S!Bundle(b) = Signed[b.revision] /\ S!Bundle(old) = Signed[old.revision]
  BY DEF S!Bundle
<1>3. /\ S!Bundle(old).generation <= S!Bundle(b).generation
      /\ S!Bundle(b).generation = S!Bundle(old).generation => S!Bundle(b).commit = S!Bundle(old).commit
      /\ S!Bundle(old).generation \in Nat /\ S!Bundle(b).generation \in Nat
  BY <1>1, <1>2 DEF S!HonestPublisher, S!BundlesAreValid
<1>4. b.revision = old.revision => b = old
  <2>1. b = [revision |-> b.revision, foreign |-> FALSE] /\ old = [revision |-> old.revision, foreign |-> FALSE]
    BY Zenon DEF Ids
  <2> QED
    BY Zenon, <2>1
<1> QED
  BY <1>1, <1>3, <1>4 DEF S!Verdict

\* The end of a poll that keeps everything available, for any outcome of the installation.
LEMMA PollEnds ==
  ASSUME S!BundlesAreValid, ReaderInv, NEW c \in Callers, caller[c].pc = "answer",
         NEW error \in {"ok", "limit", "alarm"}, S!Finish(c, error),
         UNCHANGED <<root, setbacks>>,
         given' = IF caller'[c] = S!Idle("ok") THEN given \union {current'.bundle} ELSE given,
         S!Available \subseteq S!Available', S!HasCurrent' => current'.bundle \in Ids,
         S!HasCurrent' => DOMAIN S!Caps(current'.bundle) \subseteq S!Available', error = "ok" => S!HasCurrent'
  PROVE  /\ ReaderInv'
         /\ \A d \in Callers : caller'[d].pc \notin {"ask", "answer"}
         /\ HonestInv /\ error # "alarm" => S!NoFalseAlarm'
<1> DEFINE s == IF caller[c].want # S!Reference /\ error = "ok" THEN [pc |-> "find again", want |-> caller[c].want]
                ELSE S!Idle(error)
<1>1. S!Step(c, s)
  BY DEF S!Finish
<1>2. /\ s.pc \in {"find again", "idle"} /\ (s = S!Idle("ok") => error = "ok") /\ (s = S!Idle("alarm") => error = "alarm")
  <2>1. \A e, want : [pc |-> "find again", want |-> want] # S!Idle(e)
    <3> SUFFICES ASSUME NEW e, NEW want PROVE [pc |-> "find again", want |-> want] # S!Idle(e)
      OBVIOUS
    <3>1. [pc |-> "find again", want |-> want].pc = "find again" /\ S!Idle(e).pc = "idle"
      BY DEF S!Idle
    <3> QED
      BY <3>1
  <2>2. \A e, f : S!Idle(e) = S!Idle(f) => e = f
    <3> SUFFICES ASSUME NEW e, NEW f, S!Idle(e) = S!Idle(f) PROVE e = f
      OBVIOUS
    <3>1. S!Idle(e).answer = e /\ S!Idle(f).answer = f
      BY DEF S!Idle
    <3> QED
      BY <3>1
  <2>3. S!Idle(error).pc = "idle"
    BY DEF S!Idle
  <2> QED
    BY <2>1, <2>2, <2>3
<1> HIDE DEF s
<1>3. /\ caller'[c] = s /\ \A d \in Callers : d # c => caller'[d] = caller[d]
      /\ DOMAIN caller' = Callers /\ caller' = [d \in Callers |-> caller'[d]]
  BY <1>1, OneSteps DEF ReaderInv
<1>4. \A d \in Callers : caller'[d].pc \notin {"ask", "answer"}
  <2>1. gate = c /\ \A d \in Callers : caller[d].pc \in {"ask", "answer"} => gate = d
    BY DEF ReaderInv, ReaderShape, PollInv
  <2> QED
    BY <1>2, <1>3, <2>1
<1>5. \A d \in Callers : PollInv(d)'
  BY <1>4 DEF PollInv
<1>6. S!HandlesStayReadable'
  <2>1. \A b \in given : DOMAIN S!Caps(b) \subseteq S!Available
    BY DEF ReaderInv, S!HandlesStayReadable
  <2>2. \A b \in given' : b \in given \/ (b = current'.bundle /\ S!HasCurrent')
    BY <1>2, <1>3
  <2> QED
    BY <2>1, <2>2 DEF S!HandlesStayReadable, S!Caps, S!Bundle
<1>7. ReaderInv'
  BY <1>3, <1>5, <1>6 DEF ReaderInv, ReaderShape
<1>8. HonestInv /\ error # "alarm" => S!NoFalseAlarm'
  BY <1>2, <1>3 DEF HonestInv, S!NoFalseAlarm
<1> QED
  BY <1>4, <1>7, <1>8

\* The answer of a poll is installed.
LEMMA AnswerKeeps ==
  ASSUME S!BundlesAreValid, ReaderInv, NEW c \in Callers, S!Answer(c)
  PROVE  ReaderInv' /\ (S!HonestPublisher /\ HonestInv => HonestInv')
<1>1. /\ caller[c].pc = "answer" /\ UNCHANGED <<root, setbacks>>
      /\ given' = IF caller'[c] = S!Idle("ok") THEN given \union {current'.bundle} ELSE given
  BY DEF S!Answer
<1>2. /\ PollInv(c) /\ root.bundle \in Ids /\ (S!HasCurrent => current.bundle \in Ids) /\ ReaderShape
      /\ (S!HasCurrent => DOMAIN S!Caps(current.bundle) \subseteq S!Available)
  BY DEF ReaderInv, ReaderShape, S!Available
<1>3. CASE caller[c].got = {} /\ UNCHANGED S!state /\ S!Finish(c, "ok")
  <2>1. /\ S!HasCurrent /\ S!HasCurrent' /\ current' = current /\ S!Available' = S!Available
        /\ DOMAIN S!Caps(current'.bundle) \subseteq S!Available'
    BY <1>1, <1>2, <1>3 DEF PollInv, S!HasCurrent, S!Available, S!state
  <2>2. ReaderInv' /\ (\A d \in Callers : caller'[d].pc \notin {"ask", "answer"}) /\ (HonestInv => S!NoFalseAlarm')
    BY <1>1, <1>2, <1>3, <2>1, PollEnds
  <2>3. HonestInv /\ setbacks = 0 => InOrder'
    BY Zenon, <1>1, <2>1, <2>2 DEF HonestInv, InOrder
  <2> QED
    BY <1>1, <2>2, <2>3 DEF HonestInv
<1>4. ASSUME NEW r \in caller[c].got, S!Install(r.bundle, S!Tag(r)), S!Finish(c, S!InstallError(r.bundle))
      PROVE  ReaderInv' /\ (S!HonestPublisher /\ HonestInv => HonestInv')
  <2> DEFINE b == r.bundle
             error == S!InstallError(b)
  <2>1. b \in Ids
    BY Zenon, <1>1, <1>2, <1>4 DEF PollInv
  <2>2. /\ S!HasCurrent => S!HasCurrent'
        /\ S!Available \subseteq S!Available'
        /\ S!HasCurrent' => current'.bundle \in {b} \/ (S!HasCurrent /\ current' = current)
        /\ error = "ok" => S!HasCurrent'
        /\ S!HasCurrent' => DOMAIN S!Caps(current'.bundle) \subseteq S!Available'
        /\ error \in {"ok", "limit", "alarm"}
        /\ error = "alarm" => S!HasCurrent /\ S!Verdict(b) = "alarm"
    BY <1>2, <1>4, <2>1, InstallFacts
  <2>3. /\ ReaderInv' /\ (\A d \in Callers : caller'[d].pc \notin {"ask", "answer"})
        /\ (HonestInv /\ error # "alarm" => S!NoFalseAlarm')
    <3>1. S!HasCurrent' => current'.bundle \in Ids
      BY <1>2, <2>1, <2>2
    <3>2. S!Finish(c, error)
      BY <1>4
    <3> HIDE DEF error
    <3> QED
      BY <1>1, <2>2, <3>1, <3>2, PollEnds
  <2>4. ASSUME S!HonestPublisher, HonestInv PROVE HonestInv'
    <3>1. CASE setbacks = 0
      <4>1. /\ InOrder /\ ~b.foreign /\ b.revision <= root.bundle.revision
            /\ S!HasCurrent => current.bundle.revision <= b.revision /\ ~current.bundle.foreign
        BY Zenon, <1>1, <1>4, <2>4, <3>1 DEF HonestInv, InOrder
      <4>2. error # "alarm"
        BY <1>2, <2>1, <2>2, <2>4, <4>1, NoAlarm
      <4>3. InOrder'
        BY <1>1, <2>2, <2>3, <4>1 DEF InOrder
      <4> QED
        BY <2>3, <2>4, <4>2, <4>3 DEF HonestInv
    <3>2. CASE setbacks # 0
      BY <1>1, <2>3, <3>2 DEF HonestInv, S!NoFalseAlarm
    <3> QED
      BY <3>1, <3>2
  <2> QED
    BY <2>3, <2>4
<1> QED
  BY <1>3, <1>4 DEF S!Answer

-----------------------------------------------------------------------------
(* What the reader promises *)

\* A reader that has just been opened satisfies the invariants.
LEMMA ReaderInit ==
  ASSUME S!BundlesAreValid, S!Init
  PROVE  HonestInv
<1>1. root.bundle \in Ids /\ ~root.bundle.foreign
  BY DEF S!Init, Ids, S!BundlesAreValid
<1>2. ~S!HasCurrent
  BY DEF S!Init, S!HasCurrent
<1>3. \A c \in Callers : caller[c].pc = "idle" /\ caller[c] # S!Idle("alarm")
  <2>1. S!Idle("none").pc = "idle" /\ S!Idle("none").answer # S!Idle("alarm").answer
    BY DEF S!Idle
  <2> QED
    BY <2>1 DEF S!Init
<1>4. ReaderShape
  BY <1>1, <1>2, <1>3 DEF S!Init, ReaderShape, PollInv
<1>5. InOrder /\ S!NoFalseAlarm
  BY <1>1, <1>2, <1>3 DEF InOrder, S!NoFalseAlarm
<1> QED
  BY <1>4, <1>5 DEF S!Init, HonestInv, ReaderInv, S!HandlesStayReadable

\* Every step keeps them.
LEMMA ReaderStep ==
  ASSUME S!BundlesAreValid, ReaderInv, [S!Next]_S!vars
  PROVE  ReaderInv' /\ (S!HonestPublisher /\ HonestInv => HonestInv')
<1>1. CASE UNCHANGED S!vars
  BY <1>1 DEF S!vars, ReaderInv, HonestInv, ReaderShape, PollInv, S!HasCurrent, S!HandlesStayReadable, S!Available, S!NoFalseAlarm, InOrder
<1>2. CASE S!Publish \/ S!Rewrite \/ S!Setback \/ S!Expire
  BY <1>2, RootKeeps
<1>3. ASSUME NEW c \in Callers,
             \/ S!GetReference(c) \/ S!Acquire(c) \/ S!Respond(c) \/ S!Answer(c) \/ S!PollFails(c)
             \/ S!GetImmutable(c) \/ S!Missed(c) \/ S!FindAgain(c) \/ S!Recheck(c) \/ S!Fetch(c)
      PROVE  ReaderInv' /\ (S!HonestPublisher /\ HonestInv => HonestInv')
  BY <1>3, OutsideKeeps, AcquireKeeps, RespondKeeps, AnswerKeeps
<1> QED
  BY <1>1, <1>2, <1>3 DEF S!Next

\* Every object of every snapshot whose reference a caller was given stays readable (installBundle keeps
\* the union of all capabilities), whatever bundles come after it and whoever signed them.
THEOREM HandlesReadable ==
  ASSUME S!BundlesAreValid
  PROVE  S!Spec => []S!HandlesStayReadable
<1>1. S!Init => ReaderInv
  BY ReaderInit DEF HonestInv
<1>2. ReaderInv /\ [S!Next]_S!vars => ReaderInv'
  BY ReaderStep
<1>3. ReaderInv => S!HandlesStayReadable
  BY DEF ReaderInv
<1> QED
  BY <1>1, <1>2, <1>3, PTL DEF S!Spec

\* While the root is written only by a publisher whose revisions move on, no poll of any number of
\* overlapping ones reports a rollback or a split (refreshGate).
THEOREM HonestRaisesNoAlarm ==
  ASSUME S!BundlesAreValid, S!HonestPublisher
  PROVE  S!Spec => []S!NoFalseAlarm
<1>1. S!Init => HonestInv
  BY ReaderInit
<1>2. HonestInv /\ [S!Next]_S!vars => HonestInv'
  BY ReaderStep DEF HonestInv
<1>3. HonestInv => S!NoFalseAlarm
  BY DEF HonestInv
<1> QED
  BY <1>1, <1>2, <1>3, PTL DEF S!Spec

\* An installation moves on.
LEMMA InstallAdvances ==
  ASSUME S!BundlesAreValid, ReaderInv, NEW c \in Callers, S!Answer(c)
  PROVE  S!Advances
<1> SUFFICES ASSUME S!HasCurrent, current'.bundle # current.bundle
             PROVE  LET old == current.bundle
                        new == current'.bundle
                    IN /\ new.revision > old.revision
                       /\ \/ S!Bundle(new).generation > S!Bundle(old).generation
                          \/ /\ S!Bundle(new).generation = S!Bundle(old).generation
                             /\ S!Bundle(new).commit = S!Bundle(old).commit
  BY DEF S!Advances, S!HasCurrent
<1>1. PollInv(c) /\ ReaderShape /\ current.bundle \in Ids /\ caller[c].pc = "answer"
  BY DEF ReaderInv, ReaderShape, S!Answer
<1>2. PICK r \in caller[c].got : S!Install(r.bundle, S!Tag(r))
  BY DEF S!Answer, S!state
<1>3. r.bundle \in Ids
  BY <1>1, <1>2 DEF PollInv
<1>4. S!Verdict(r.bundle) = "ok" /\ current'.bundle = r.bundle
  BY <1>1, <1>2, <1>3, InstallFacts
<1>5. /\ r.bundle.revision \in Nat /\ current.bundle.revision \in Nat
      /\ S!Bundle(r.bundle).generation \in Nat /\ S!Bundle(current.bundle).generation \in Nat
  <2> SUFFICES ASSUME NEW b \in Ids PROVE b.revision \in Nat /\ S!Bundle(b).generation \in Nat
    BY Zenon, <1>1, <1>3
  <2>1. b.revision \in DOMAIN Signed
    BY DEF Ids
  <2>2. b.revision \in Nat /\ Signed[b.revision].generation \in Nat /\ Foreign[b.revision].generation \in Nat
    BY <2>1 DEF S!BundlesAreValid
  <2> QED
    BY <2>2 DEF S!Bundle
<1> HIDE DEF S!Bundle
<1>6. /\ r.bundle.revision > current.bundle.revision
      /\ \/ S!Bundle(r.bundle).generation > S!Bundle(current.bundle).generation
         \/ /\ S!Bundle(r.bundle).generation = S!Bundle(current.bundle).generation
            /\ S!Bundle(r.bundle).commit = S!Bundle(current.bundle).commit
  BY <1>4, <1>5 DEF S!Verdict
<1> QED
  BY <1>4, <1>6

\* A step of the reader takes its users forwards.
LEMMA ReaderMovesOn ==
  ASSUME S!BundlesAreValid, ReaderInv, S!Next
  PROVE  S!Advances
<1>1. ASSUME NEW c \in Callers, S!Answer(c) PROVE S!Advances
  BY <1>1, InstallAdvances
<1>2. CASE current' = current
  BY <1>2 DEF S!Advances
<1> QED
  BY Zenon, <1>1, <1>2 DEF S!Next, S!Publish, S!Rewrite, S!Setback, S!Expire, S!GetReference, S!Acquire, S!Respond,
    S!PollFails, S!GetImmutable, S!Missed, S!FindAgain, S!Recheck, S!Fetch, S!state

\* Whatever the root becomes, what the reader exposes never moves to an older revision or generation,
\* to other bytes of a revision or to another commit of a generation (installBundle).
THEOREM ExposedMovesOn ==
  ASSUME S!BundlesAreValid
  PROVE  S!Spec => S!ReaderAdvances
<1>1. S!Init => ReaderInv
  BY ReaderInit DEF HonestInv
<1>2. ReaderInv /\ [S!Next]_S!vars => ReaderInv'
  BY ReaderStep
<1>3. ReaderInv /\ [S!Next]_S!vars => [S!Advances]_S!vars
  BY ReaderMovesOn
<1> QED
  BY <1>1, <1>2, <1>3, PTL DEF S!Spec, S!ReaderAdvances

-----------------------------------------------------------------------------
(* Both together *)

\* A step of either part is a step of the consumers or none, and one of the reader or none.
LEMMA ViewsStep ==
  ASSUME [ViewsNext]_<<part, vars, reader>>
  PROVE  /\ part' = part /\ [Next]_vars
         /\ part = "reader" => [S!Next]_S!vars
<1>1. CASE part = "consumer" /\ Next /\ UNCHANGED <<part, reader>>
  BY <1>1
<1>2. CASE part = "reader" /\ S!Next /\ UNCHANGED <<part, vars>>
  BY <1>2
<1>3. CASE UNCHANGED <<part, vars, reader>>
  BY <1>3 DEF reader, S!vars
<1> QED
  BY <1>1, <1>2, <1>3 DEF ViewsNext

\* While the root of a share is written only by a publisher whose revisions move on, no poll of any
\* number of overlapping ones reports a rollback or a split (refreshGate).
THEOREM NoFalseAlarms ==
  ASSUME S!BundlesAreValid, S!HonestPublisher
  PROVE  ViewsSpec => []NoFalseAlarm
<1> DEFINE Inv == part = "reader" => HonestInv
<1>1. ViewsInit => Inv
  BY ReaderInit DEF ViewsInit
<1>2. Inv /\ [ViewsNext]_<<part, vars, reader>> => Inv'
  <2> SUFFICES ASSUME Inv, [ViewsNext]_<<part, vars, reader>>, part' = "reader" PROVE HonestInv'
    OBVIOUS
  <2>1. part = "reader" /\ [S!Next]_S!vars
    BY ViewsStep
  <2> QED
    BY <2>1, ReaderStep DEF HonestInv
<1>3. Inv => NoFalseAlarm
  BY DEF HonestInv, NoFalseAlarm
<1> HIDE DEF Inv
<1> QED
  BY <1>1, <1>2, <1>3, PTL DEF ViewsSpec

\* What consumers and readers of shares show their users only moves forwards: not to an older
\* generation, and not to another history (Refresh, installBundle).
THEOREM ViewsAdvancing ==
  ASSUME S!BundlesAreValid
  PROVE  ViewsSpec => ViewsAdvance
<1> DEFINE Inv == IInv /\ (part = "reader" => ReaderInv)
           A == ViewsMoveOn /\ (part = "reader" => S!Advances)
<1>1. ViewsInit => Inv
  BY InitInv, ReaderInit DEF ViewsInit, HonestInv
<1>2. Inv /\ [ViewsNext]_<<part, vars, reader>> => Inv'
  <2> SUFFICES ASSUME Inv, [ViewsNext]_<<part, vars, reader>> PROVE Inv'
    OBVIOUS
  <2>1. IInv'
    BY ViewsStep, StepInv
  <2>2. part' = "reader" => ReaderInv'
    BY ViewsStep, ReaderStep
  <2> QED
    BY <2>1, <2>2
<1>3. Inv /\ [ViewsNext]_<<part, vars, reader>> => [A]_<<vars, reader>>
  <2> SUFFICES ASSUME Inv, ViewsNext PROVE [A]_<<vars, reader>>
    BY DEF reader, vars
  <2>1. CASE part = "consumer" /\ Next /\ UNCHANGED <<part, reader>>
    <3>1. ViewsMoveOn \/ UNCHANGED vars
      BY <2>1, StepMovesOn
    <3> QED
      BY <2>1, <3>1
  <2>2. CASE part = "reader" /\ S!Next /\ UNCHANGED <<part, vars>>
    <3>1. S!Advances
      BY <2>2, ReaderMovesOn
    <3>2. ViewsMoveOn
      <4>1. local' = local
        BY <2>2 DEF vars
      <4> QED
        BY <4>1, SameView DEF ViewsMoveOn
    <3> QED
      BY <3>1, <3>2
  <2> QED
    BY <2>1, <2>2 DEF ViewsNext
<1>4. ViewsAdvance <=> [][A]_<<vars, reader>>
  BY DEF ViewsAdvance
<1> HIDE DEF Inv, A
<1> QED
  BY <1>1, <1>2, <1>3, <1>4, PTL DEF ViewsSpec

\* A caller is denied by the lookup under the gate only.
LEMMA DeniedAtRecheck ==
  ASSUME ReaderInv, NEW c \in Callers, S!Next, caller'[c] = S!Idle("denied"), caller[c].pc # "idle"
  PROVE  S!Recheck(c)
<1>1. \A e : S!Idle(e).pc = "idle" /\ S!Idle(e).answer = e
  BY DEF S!Idle
<1>2. caller' # caller
  BY <1>1
<1>3. ~(S!Publish \/ S!Rewrite \/ S!Setback \/ S!Expire)
  BY <1>2 DEF S!Publish, S!Rewrite, S!Setback, S!Expire
<1>4. ASSUME NEW d \in Callers, NEW s, S!Step(d, s) PROVE d = c /\ s = S!Idle("denied")
  BY <1>1, <1>4, OneSteps DEF ReaderInv
<1>5. ASSUME NEW d \in Callers, NEW pc \in {"gate", "fetch", "missed", "recheck", "find again"}, NEW want
      PROVE  ~S!Step(d, [pc |-> pc, want |-> want])
  <2>1. [pc |-> pc, want |-> want].pc # "idle"
    OBVIOUS
  <2> QED
    BY <1>1, <1>4, <2>1
<1>6. ASSUME NEW d \in Callers, NEW e \in {"ok", "error", "limit", "alarm"} PROVE ~S!Step(d, S!Idle(e))
  <2>1. S!Idle(e) # S!Idle("denied")
    BY <1>1
  <2> QED
    BY <1>4, <2>1
<1>7. ASSUME NEW d \in Callers, S!GetReference(d) \/ S!GetImmutable(d) \/ S!Missed(d) \/ S!FindAgain(d) PROVE FALSE
  BY <1>5, <1>7 DEF S!GetReference, S!GetImmutable, S!Missed, S!FindAgain
<1>8. ASSUME NEW d \in Callers, S!PollFails(d) \/ S!Fetch(d) PROVE FALSE
  BY Zenon, <1>6, <1>8 DEF S!PollFails, S!Fetch
<1>9. ASSUME NEW d \in Callers, S!Acquire(d) PROVE FALSE
  <2>1. \A want, tag : [pc |-> "ask", want |-> want, tag |-> tag].pc = "ask"
    OBVIOUS
  <2>2. \A want, tag : ~S!Step(d, [pc |-> "ask", want |-> want, tag |-> tag])
    BY <1>1, <1>4, <2>1
  <2> QED
    BY <1>5, <1>9, <2>2 DEF S!Acquire
<1>10. ASSUME NEW d \in Callers, S!Respond(d) PROVE FALSE
  <2>1. \A want, got : [pc |-> "answer", want |-> want, got |-> got].pc = "answer"
    OBVIOUS
  <2>2. \A want, got : ~S!Step(d, [pc |-> "answer", want |-> want, got |-> got])
    BY <1>1, <1>4, <2>1
  <2> QED
    BY <1>10, <2>2 DEF S!Respond
<1>11. ASSUME NEW d \in Callers, S!Answer(d) PROVE FALSE
  <2>1. ASSUME NEW e \in {"ok", "limit", "alarm"}, S!Finish(d, e) PROVE FALSE
    BY <1>5, <1>6, <2>1 DEF S!Finish
  <2>2. \A b : S!InstallError(b) \in {"ok", "limit", "alarm"}
    BY DEF S!InstallError
  <2> QED
    BY Zenon, <1>11, <2>1, <2>2 DEF S!Answer
<1>12. ASSUME NEW d \in Callers, S!Recheck(d) PROVE d = c
  BY <1>4, <1>12 DEF S!Recheck
<1> QED
  BY Zenon, <1>3, <1>7, <1>8, <1>9, <1>10, <1>11, <1>12 DEF S!Next

\* No caller is denied an object of a snapshot that was handed out, because all of them stay
\* available, nor one of a bundle that another caller has read and not installed yet, because the
\* gate is that caller's from its request to the installation (getImmutable, refreshGate).
THEOREM DenialsTrue ==
  ASSUME S!BundlesAreValid
  PROVE  ViewsSpec => DenialIsTrue
<1> DEFINE Inv == part = "reader" => ReaderInv
           A == part = "reader" => S!Denies
<1>1. ViewsInit => Inv
  BY ReaderInit DEF ViewsInit, HonestInv
<1>2. Inv /\ [ViewsNext]_<<part, vars, reader>> => Inv'
  BY ViewsStep, ReaderStep
<1>3. Inv /\ [ViewsNext]_<<part, vars, reader>> => [A]_reader
  <2> SUFFICES ASSUME ReaderInv, S!Next PROVE S!Denies
    BY ViewsStep DEF reader, S!vars
  <2> SUFFICES ASSUME NEW c \in Callers, caller'[c] = S!Idle("denied"), caller[c].pc # "idle", NEW b \in S!Known
               PROVE  caller[c].want \notin DOMAIN S!Caps(b)
    BY DEF S!Denies
  <2>1. S!Recheck(c)
    BY DeniedAtRecheck
  <2>2. [pc |-> "fetch", want |-> caller[c].want].pc = "fetch" /\ S!Idle("denied").pc = "idle"
    BY DEF S!Idle
  <2>3. \A s : S!Step(c, s) => caller'[c] = s
    BY OneSteps DEF ReaderInv
  <2>4. caller[c].want \notin S!Available /\ gate = S!Nobody
    BY <2>1, <2>2, <2>3 DEF S!Recheck, S!GateIsFree
  <2>5. \A d \in Callers : caller[d].pc # "answer"
    BY <2>4 DEF ReaderInv, ReaderShape, PollInv, S!BundlesAreValid
  <2>6. b \in given
    BY <2>5 DEF S!Known
  <2> QED
    BY <2>4, <2>6 DEF ReaderInv, S!HandlesStayReadable
<1>4. DenialIsTrue <=> [][A]_reader
  BY DEF DenialIsTrue
<1> HIDE DEF Inv, A
<1> QED
  BY <1>1, <1>2, <1>3, <1>4, PTL DEF ViewsSpec
=============================================================================
