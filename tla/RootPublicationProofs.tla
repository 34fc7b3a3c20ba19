----------------------- MODULE RootPublicationProofs -----------------------
(***************************************************************************)
(* The root of a share for any number of publishers with and without the   *)
(* journal, any closures, builds, faults and mishaps: nothing goes back,   *)
(* no revision is given to two bundles, the journal knows every write that *)
(* is under way, and reports are true.                                     *)
(*                                                                         *)
(* Every write carries the root it was built on, and its target succeeds   *)
(* that root; the store compares.  Every record that is being saved        *)
(* follows the record it was made from, and the journal's revision tells   *)
(* whether that is still the journal's.                                    *)
(***************************************************************************)
EXTENDS RootPublication, TLAPS

OptRoots == RootObjects \cup {None}
Records == [highest : Nat, committed : OptRoots, pending : Pendings \cup {None}]
JournalStates == [rec : Records, rev : Nat]
Operations == {"prepare", "create", "update", "recover"}
Saves == {"save", "resave", "conflict"}
Thens == {"none", "prepared", "look", "replay", "applied", "anchored", "settled", "overtaken"}
Locals == [pc : {"idle", "load", "look", "write", "observe"} \cup Saves, op : Operations \cup {"none"},
           wal : BOOLEAN, clo : Closures \cup {None}, rec : Records, jrev : Nat, obs : OptRoots,
           next : Records, then : Thens, cand : Nat, tries : Nat, ok : BOOLEAN]

\* The root t is a legal successor of the root o.
Succeeds(o, t) ==
  /\ t.rev = o.rev + 1
  /\ t.clo.gen >= o.clo.gen
  /\ t.clo.gen = o.clo.gen => t.clo.commit = o.clo.commit

\* A write is built on the root it expects.
Fits(w) == w.expected # None => Succeeds(w.expected, w.target)

\* The highest revision is that of the pending root, or else of the committed one, and the
\* pending write is built on the committed root.
Sound(rec) ==
  /\ rec.pending = None => rec.highest = (IF rec.committed = None THEN 0 ELSE rec.committed.rev)
  /\ rec.pending # None =>
       /\ rec.highest = rec.pending.target.rev
       /\ Fits(rec.pending)
       /\ rec.pending.expected # None =>
            rec.committed # None /\ Logical(rec.pending.expected) = Logical(rec.committed)

\* The committed root d does not fall behind c.
Keeps(c, d) == c # None => d # None /\ (d.rev > c.rev \/ (d.rev = c.rev /\ Logical(d) = Logical(c)))

\* The record next may replace rec.
Follows(rec, next) == rec.highest <= next.highest /\ Keeps(rec.committed, next.committed)

JournalInv(j) == j \in JournalStates /\ Sound(j.rec) /\ (j.rev = 0 => j.rec = Prepared)

\* What holds of a publisher wherever it is, with the journal j and the roots h there have been.
Core(l, j, h) ==
  /\ l \in Locals
  /\ l.op \in {"create", "update"} => l.clo \in Closures
  /\ l.obs # None => l.obs \in h
  /\ Sound(l.rec) /\ (~l.wal => l.rec = Prepared)
  /\ l.jrev <= j.rev /\ (l.jrev = j.rev => l.rec = j.rec) /\ l.rec.highest <= j.rec.highest
  /\ l.ok /\ l.op # "prepare" => l.obs # None
  /\ l.pc # "idle" => l.op \in Operations /\ ~l.ok

\* A record on its way to the journal, and what is known of the root it accepts.
Saveable(l) ==
  /\ l.wal /\ Sound(l.next) /\ Follows(l.rec, l.next)
  /\ l.then # "prepared" => l.op # "prepare"
  /\ l.then \in {"applied", "anchored", "settled", "overtaken"} => l.obs # None
  /\ l.then = "anchored" => l.next.committed = l.obs /\ l.next.pending = None
  /\ l.then = "replay" => l.next.pending # None

\* What holds of a publisher where it is.
Phase(l) ==
  /\ l.pc = "load" => l.wal /\ l.rec = Prepared
  /\ l.pc \in {"look", "write", "observe"} => l.op # "prepare"
  /\ l.pc \in Saves => Saveable(l)
  /\ l.pc \in {"write", "observe"} =>
       IF l.wal THEN l.rec.pending # None ELSE l.next.pending # None /\ Fits(l.next.pending)

LocalInv(l, j, h) == Core(l, j, h) /\ Phase(l)

\* A write that is under way.
LateInv(w, j) ==
  /\ w.target \in RootObjects /\ w.expected \in OptRoots /\ Fits(w)
  /\ w.wal => w.target.rev <= j.rec.highest

\* Without mishaps the root is the newest there has been.
Newest ==
  /\ root = None => history = {}
  /\ \A o \in history : o.rev <= root.rev /\ (o.rev = root.rev => o = root)

StoreInv ==
  /\ history \subseteq RootObjects /\ root \in history \cup {None}
  /\ mishaps \in Nat /\ builds \in Nat
  /\ mishaps = 0 => Newest
  /\ OneBundlePerRevision

PubInv == pub \in [Publishers -> Locals] /\ \A p \in Publishers : LocalInv(pub[p], journal, history)

IInv ==
  /\ StoreInv /\ JournalInv(journal) /\ PubInv
  /\ \A w \in late : LateInv(w, journal)

-----------------------------------------------------------------------------
(* Publishers *)

\* The publisher p goes on, in a state that is sound with the journal j and the roots h.
Moves(p, j, h) == pub' = [pub EXCEPT ![p] = pub'[p]] /\ LocalInv(pub'[p], j, h)

LEMMA BecomeMoves ==
  ASSUME PubInv, NEW p \in Publishers, NEW m, NEW j, NEW h, Become(p, m), LocalInv(m, j, h)
  PROVE  Moves(p, j, h)
<1>1. pub'[p] = m
  BY DEF Become, PubInv
<1> QED
  BY <1>1 DEF Become, Moves

LEMMA PreparedSound == Prepared \in Records /\ Sound(Prepared)
  BY RootAssumption DEF Prepared, Records, OptRoots, Sound

\* The ends of an operation.
LEMMA Ends ==
  ASSUME NEW j, NEW h, h \subseteq RootObjects, JournalInv(j)
  PROVE  /\ LocalInv(Idle, j, h)
         /\ LocalInv(RecoveryPrepared, j, h)
         /\ \A o \in h : LocalInv(Published(o), j, h)
<1>1. j.rev \in Nat /\ j.rec \in Records /\ j.rec.highest \in Nat /\ (j.rev = 0 => j.rec = Prepared)
  BY DEF JournalInv, JournalStates, Records
<1>2. Prepared.highest = 0
  BY DEF Prepared
<1>3. Idle \in Locals
  BY PreparedSound DEF Idle, Locals, Operations, Saves, Thens, OptRoots
<1>4. LocalInv(Idle, j, h)
  BY <1>1, <1>2, <1>3, PreparedSound DEF Idle, LocalInv, Core, Phase, Saves
<1>5. LocalInv(RecoveryPrepared, j, h)
  <2>1. RecoveryPrepared \in Locals
    BY PreparedSound DEF RecoveryPrepared, Idle, Locals, Operations, Saves, Thens, OptRoots
  <2> QED
    BY <2>1, <1>1, <1>2, PreparedSound DEF RecoveryPrepared, Idle, LocalInv, Core, Phase, Saves
<1>6. ASSUME NEW o \in h PROVE LocalInv(Published(o), j, h)
  <2>1. o \in RootObjects /\ o # None
    BY RootAssumption
  <2>2. Published(o) \in Locals
    BY <2>1, PreparedSound DEF Published, Idle, Locals, Operations, Saves, Thens, OptRoots
  <2> QED
    BY <2>1, <2>2, <1>1, <1>2, PreparedSound DEF Published, Idle, LocalInv, Core, Phase, Saves
<1> QED
  BY <1>4, <1>5, <1>6

\* The journal goes from j to k.
Succession(j, k) == k = j \/ (k.rev = j.rev + 1 /\ Follows(j.rec, k.rec))

\* A publisher is not disturbed when others advance the journal and the root.
LEMMA Undisturbed ==
  ASSUME NEW j, NEW k, NEW h, NEW i, NEW l, JournalInv(j), JournalInv(k), Succession(j, k), h \subseteq i,
         LocalInv(l, j, h)
  PROVE  LocalInv(l, k, i)
<1>1. /\ j.rev \in Nat /\ k.rev \in Nat /\ j.rec.highest \in Nat /\ k.rec.highest \in Nat
      /\ l.jrev \in Nat /\ l.rec.highest \in Nat
  BY DEF JournalInv, JournalStates, Records, LocalInv, Core, Locals
<1>2. l.jrev <= k.rev /\ (l.jrev = k.rev => l.rec = k.rec) /\ l.rec.highest <= k.rec.highest
  BY <1>1 DEF Succession, Follows, LocalInv, Core
<1> QED
  BY <1>2 DEF LocalInv, Core

\* An operation that calls saveRootRecovery next.
LEMMA ToSave ==
  ASSUME NEW l, NEW j, NEW h, NEW rec \in Records, NEW then \in Thens, Core(l, j, h), l.pc # "idle", l.wal,
         Sound(rec), Follows(l.rec, rec),
         then # "prepared" => l.op # "prepare",
         then \in {"applied", "anchored", "settled", "overtaken"} => l.obs # None,
         then = "anchored" => rec.committed = l.obs /\ rec.pending = None,
         then = "replay" => rec.pending # None
  PROVE  LocalInv(Saving(l, rec, then), j, h)
<1> DEFINE m == Saving(l, rec, then)
<1>1. l \in Locals
  BY DEF Core
<1>2. /\ m \in Locals
      /\ m.pc = "save" /\ m.next = rec /\ m.then = then /\ m.op = l.op /\ m.wal = l.wal /\ m.clo = l.clo
      /\ m.rec = l.rec /\ m.jrev = l.jrev /\ m.obs = l.obs /\ m.ok = l.ok
  BY <1>1 DEF Saving, Locals, Saves
<1> HIDE DEF m
<1>3. Core(m, j, h)
  BY <1>2 DEF Core
<1>4. Phase(m)
  BY <1>2 DEF Phase, Saveable, Saves
<1> QED
  BY <1>3, <1>4 DEF LocalInv, m

\* An operation that goes back to the root, having forgotten it or not.
LEMMA ToLook ==
  ASSUME NEW l, NEW j, NEW h, NEW m \in Locals, Core(l, j, h), l.pc # "idle", l.op # "prepare",
         m.pc = "look", m.op = l.op, m.wal = l.wal, m.clo = l.clo, m.rec = l.rec, m.jrev = l.jrev,
         m.obs \in {l.obs, None}, m.ok = l.ok
  PROVE  LocalInv(m, j, h)
<1>1. Core(m, j, h)
  BY DEF Core
<1>2. Phase(m)
  BY DEF Phase, Saves
<1> QED
  BY <1>1, <1>2 DEF LocalInv

\* An operation that sends the pending write.
LEMMA ToWrite ==
  ASSUME NEW l, NEW j, NEW h, h \subseteq RootObjects, JournalInv(j), Core(l, j, h), l.pc # "idle", l.op # "prepare",
         l.wal, l.rec.pending # None
  PROVE  LocalInv(Replaying(l), j, h)
<1>1. CASE Replaying(l) = Idle
  BY <1>1, Ends
<1>2. CASE Replaying(l) = [l EXCEPT !.pc = "write", !.obs = None]
  <2> DEFINE m == [l EXCEPT !.pc = "write", !.obs = None]
  <2>1. l \in Locals
    BY DEF Core
  <2>2. /\ m \in Locals
        /\ m.pc = "write" /\ m.op = l.op /\ m.wal = l.wal /\ m.clo = l.clo
        /\ m.rec = l.rec /\ m.jrev = l.jrev /\ m.obs = None /\ m.ok = l.ok
    BY <2>1 DEF Locals, OptRoots
  <2> HIDE DEF m
  <2>3. Core(m, j, h)
    BY <2>2 DEF Core
  <2>4. Phase(m)
    BY <2>2 DEF Phase, Saves
  <2> QED
    BY <2>3, <2>4, <1>2 DEF LocalInv, m
<1> QED
  BY <1>1, <1>2 DEF Replaying

\* The request a publisher sends fits, and the journal knows it.
LEMMA RequestFits ==
  ASSUME NEW l, NEW j, NEW h, JournalInv(j), LocalInv(l, j, h), l.pc \in {"write", "observe"}
  PROVE  /\ LateInv(Request(l), j)
         /\ l.wal => Request(l).target = l.rec.pending.target /\ l.rec.highest = Request(l).target.rev
<1>1. l \in Locals /\ l.rec \in Records /\ l.next \in Records /\ l.wal \in BOOLEAN
  BY DEF LocalInv, Core, Locals
<1>2. j.rec.highest \in Nat
  BY DEF JournalInv, JournalStates, Records
<1>3. CASE l.wal
  <2>1. l.rec.pending \in Pendings /\ Fits(l.rec.pending) /\ l.rec.highest = l.rec.pending.target.rev
    BY <1>1, <1>3 DEF LocalInv, Core, Phase, Sound, Records
  <2>2. l.rec.highest <= j.rec.highest
    BY DEF LocalInv, Core
  <2> QED
    BY <2>1, <2>2, <1>3 DEF Request, LateInv, Fits, Pendings, OptRoots
<1>4. CASE ~l.wal
  <2>1. l.next.pending \in Pendings /\ Fits(l.next.pending)
    BY <1>1, <1>4 DEF LocalInv, Phase, Records
  <2> QED
    BY <2>1, <1>4 DEF Request, LateInv, Fits, Pendings, OptRoots
<1> QED
  BY <1>3, <1>4

-----------------------------------------------------------------------------
(* Records *)

\* A root that validateObservationAgainstAnchor accepts, of no lower revision than the highest,
\* makes a record that follows.
LEMMA AnchoredFollows ==
  ASSUME NEW rec \in Records, NEW o \in RootObjects, Sound(rec), ObservationVerdict(rec, o) = "ok",
         rec.pending # None => o.rev >= rec.pending.target.rev
  PROVE  /\ Anchored(rec, o) \in Records /\ Sound(Anchored(rec, o)) /\ Follows(rec, Anchored(rec, o))
         /\ Anchored(rec, o).committed = o /\ Anchored(rec, o).pending = None
<1> DEFINE n == Anchored(rec, o)
<1>1. o # None /\ o.rev \in Nat
  BY RootAssumption DEF RootObjects
<1>2. n \in Records /\ n.highest = o.rev /\ n.committed = o /\ n.pending = None
  BY <1>1 DEF Anchored, Records, OptRoots
<1>3. Sound(n)
  BY <1>1, <1>2 DEF Sound
<1>4. rec.committed # None => rec.committed \in RootObjects /\ rec.committed.rev \in Nat
  BY DEF Records, OptRoots, RootObjects
<1>5. Keeps(rec.committed, o)
  BY <1>1, <1>4 DEF Keeps, ObservationVerdict
<1>6. rec.highest <= o.rev
  <2>1. CASE rec.pending # None
    BY <2>1, <1>1 DEF Sound
  <2>2. CASE rec.pending = None
    BY <2>2, <1>1, <1>4, <1>5 DEF Sound, Keeps
  <2> QED
    BY <2>1, <2>2
<1> QED
  BY <1>2, <1>3, <1>5, <1>6 DEF Follows

\* Logically equal roots have the same revision and closure.
LEMMA LogicalEqual ==
  ASSUME NEW o, NEW q, Logical(o) = Logical(q)
  PROVE  o.rev = q.rev /\ o.clo = q.clo /\ o.build = q.build
  BY DEF Logical

\* Building on the observed root.
LEMMA BuildMoves ==
  ASSUME PubInv, NEW p \in Publishers, NEW l, NEW j, NEW h, h \subseteq RootObjects, JournalInv(j), Core(l, j, h),
         l.pc # "idle", l.op \in {"create", "update"}, builds \in Nat,
         l.obs # None => RequestVerdict(l, l.obs) = "ok",
         l.wal => l.rec.committed = l.obs /\ l.rec.pending = None,
         Build(p, l)
  PROVE  Moves(p, j, h) /\ builds' \in Nat
<1> DEFINE target == [rev |-> NextRevision(l.obs), clo |-> l.clo, build |-> builds + 1, seal |-> 0]
           pending == [target |-> target, expected |-> l.obs, create |-> l.op = "create"]
           first == [l.rec EXCEPT !.highest = target.rev, !.pending = pending]
           unlogged == [l EXCEPT !.pc = "write", !.next = [Prepared EXCEPT !.pending = pending]]
<1>1. l \in Locals /\ l.rec \in Records /\ l.obs \in OptRoots /\ l.clo \in Closures
  BY DEF Core, Locals
<1>2. l.obs # None => l.obs \in RootObjects /\ l.obs.rev \in Nat /\ l.obs.clo \in Closures /\ l.obs.clo.gen \in Nat
  BY <1>1, RootAssumption DEF OptRoots, RootObjects
<1>3. l.clo.gen \in Nat
  BY <1>1, RootAssumption
<1>4. NextRevision(l.obs) \in Nat /\ (l.obs # None => NextRevision(l.obs) = l.obs.rev + 1)
  BY <1>2 DEF NextRevision
<1>5. target \in RootObjects /\ target.rev = NextRevision(l.obs) /\ target.clo = l.clo
  BY <1>1, <1>4 DEF RootObjects
<1>6. l.obs # None => Succeeds(l.obs, target)
  BY <1>2, <1>3, <1>4, <1>5 DEF Succeeds, RequestVerdict
<1> HIDE DEF target
<1>7. /\ pending \in Pendings /\ pending # None /\ Fits(pending)
      /\ pending.target = target /\ pending.expected = l.obs
  <2>1. pending.target = target /\ pending.expected = l.obs
    OBVIOUS
  <2>2. pending \in Pendings
    BY <1>1, <1>5 DEF Pendings, OptRoots
  <2> HIDE DEF pending
  <2>3. Fits(pending)
    BY <2>1, <1>6 DEF Fits
  <2> QED
    BY <2>1, <2>2, <2>3, RootAssumption
<1> HIDE DEF pending
<1>8. CASE l.wal
  <2>1. /\ first \in Records /\ first.highest = target.rev /\ first.pending = pending
        /\ first.committed = l.obs
    BY <1>1, <1>4, <1>5, <1>7, <1>8 DEF Records
  <2> HIDE DEF first
  <2>2. Sound(first)
    BY <2>1, <1>7 DEF Sound
  <2>3. l.rec.highest <= target.rev
    BY <1>2, <1>4, <1>5, <1>8 DEF Core, Sound
  <2>4. Keeps(l.obs, l.obs)
    BY DEF Keeps
  <2>5. Follows(l.rec, first)
    BY <2>1, <2>3, <2>4, <1>8 DEF Follows
  <2>6. LocalInv(Saving(l, first, "look"), j, h)
    <3>1. "look" \in Thens /\ l.op # "prepare"
      BY DEF Thens
    <3> QED
      BY <2>1, <2>2, <2>5, <3>1, <1>8, ToSave
  <2>7. JournalFirst(l, target) = Saving(l, first, "look")
    BY DEF JournalFirst, first, pending
  <2>8. Become(p, JournalFirst(l, target)) \/ Become(p, Idle)
    BY <1>8 DEF Build, target
  <2>9. builds' \in Nat
    BY DEF Build
  <2> QED
    BY <2>6, <2>7, <2>8, <2>9, BecomeMoves, Ends
<1>9. CASE ~l.wal
  <2>1. [Prepared EXCEPT !.pending = pending] \in Records
    BY PreparedSound, <1>7 DEF Records
  <2>2. [Prepared EXCEPT !.pending = pending].pending = pending
    BY DEF Prepared
  <2>3. /\ unlogged \in Locals
        /\ unlogged.pc = "write" /\ unlogged.next.pending = pending /\ unlogged.op = l.op
        /\ unlogged.wal = l.wal /\ unlogged.clo = l.clo /\ unlogged.rec = l.rec /\ unlogged.jrev = l.jrev
        /\ unlogged.obs = l.obs /\ unlogged.ok = l.ok
    BY <1>1, <2>1, <2>2 DEF Locals
  <2>4. Become(p, unlogged) \/ Become(p, Idle)
    BY <1>9 DEF Build, target, pending
  <2> HIDE DEF unlogged
  <2>5. Core(unlogged, j, h)
    BY <2>3 DEF Core
  <2>6. Phase(unlogged)
    BY <2>3, <1>7, <1>9 DEF Phase, Saves
  <2>7. builds' \in Nat
    BY DEF Build
  <2> QED
    BY <2>4, <2>5, <2>6, <2>7, BecomeMoves, Ends DEF LocalInv
<1> QED
  BY <1>8, <1>9

LEMMA AfterAnchorMoves ==
  ASSUME PubInv, NEW p \in Publishers, NEW l, NEW j, NEW h, h \subseteq RootObjects, JournalInv(j), Core(l, j, h),
         l.pc # "idle", l.op # "prepare", builds \in Nat, l.obs # None,
         l.wal => l.rec.committed = l.obs /\ l.rec.pending = None,
         AfterAnchor(p, l)
  PROVE  Moves(p, j, h) /\ builds' \in Nat
<1>1. l.obs \in h /\ l.op \in Operations
  BY DEF Core
<1>2. CASE Become(p, Published(l.obs)) /\ UNCHANGED builds
  BY <1>1, <1>2, BecomeMoves, Ends
<1>3. CASE Become(p, Idle) /\ UNCHANGED builds
  BY <1>3, BecomeMoves, Ends
<1>4. CASE l.op # "recover" /\ RequestVerdict(l, l.obs) = "ok" /\ Build(p, l)
  <2>1. l.op \in {"create", "update"}
    BY <1>1, <1>4 DEF Operations
  <2> QED
    BY <2>1, <1>4, BuildMoves
<1> QED
  BY <1>2, <1>3, <1>4 DEF AfterAnchor

-----------------------------------------------------------------------------
(* Looking at the root *)

LEMMA LookIdleMoves ==
  ASSUME PubInv, NEW p \in Publishers, NEW l, NEW j, NEW h, h \subseteq RootObjects, JournalInv(j), Core(l, j, h),
         l.pc # "idle", l.op # "prepare", builds \in Nat, l.rec.pending = None, LookIdle(p, l)
  PROVE  Moves(p, j, h) /\ builds' \in Nat
<1>1. l \in Locals /\ l.rec \in Records /\ l.obs \in OptRoots /\ Sound(l.rec) /\ l.op \in Operations
  BY DEF Core, Locals
<1>2. CASE Become(p, Idle) /\ UNCHANGED builds
  BY <1>2, BecomeMoves, Ends
<1>3. CASE /\ l.obs # None /\ ~(l.wal /\ ObservationVerdict(l.rec, l.obs) # "ok")
           /\ ~l.wal \/ Anchored(l.rec, l.obs) = l.rec
           /\ AfterAnchor(p, l)
  <2>1. l.wal => l.rec.committed = l.obs
    BY <1>1, <1>3, AnchoredFollows DEF OptRoots
  <2> QED
    BY <2>1, <1>3, AfterAnchorMoves
<1>4. CASE /\ l.obs # None /\ ~(l.wal /\ ObservationVerdict(l.rec, l.obs) # "ok")
           /\ ~(~l.wal \/ Anchored(l.rec, l.obs) = l.rec)
           /\ Become(p, Saving(l, Anchored(l.rec, l.obs), "anchored")) /\ UNCHANGED builds
  <2>1. l.wal /\ ObservationVerdict(l.rec, l.obs) = "ok" /\ l.obs \in RootObjects
    BY <1>1, <1>4 DEF OptRoots
  <2>2. /\ Anchored(l.rec, l.obs) \in Records /\ Sound(Anchored(l.rec, l.obs))
        /\ Follows(l.rec, Anchored(l.rec, l.obs))
        /\ Anchored(l.rec, l.obs).committed = l.obs /\ Anchored(l.rec, l.obs).pending = None
    BY <1>1, <2>1, AnchoredFollows
  <2>3. "anchored" \in Thens
    BY DEF Thens
  <2>4. LocalInv(Saving(l, Anchored(l.rec, l.obs), "anchored"), j, h)
    BY <1>4, <2>1, <2>2, <2>3, ToSave
  <2> QED
    BY <1>4, <2>4, BecomeMoves
<1>5. CASE l.obs = None /\ l.op = "create" /\ l.rec.committed = None /\ Build(p, l)
  BY <1>5, BuildMoves
<1> QED
  BY <1>2, <1>3, <1>4, <1>5 DEF LookIdle

LEMMA LookPendingMoves ==
  ASSUME NEW l, NEW j, NEW h, h \subseteq RootObjects, JournalInv(j), Core(l, j, h),
         l.pc # "idle", l.op # "prepare", l.rec.pending # None
  PROVE  LocalInv(LookPending(l), j, h)
<1> DEFINE pending == l.rec.pending
<1>1. /\ l \in Locals /\ l.rec \in Records /\ l.obs \in OptRoots /\ Sound(l.rec)
      /\ pending \in Pendings /\ pending.target \in RootObjects /\ pending.target.rev \in Nat
  BY DEF Core, Locals, Records, Pendings, RootObjects
<1>2. l.wal
  BY DEF Core, Prepared
<1>3. LocalInv(Idle, j, h) /\ LocalInv(Replaying(l), j, h)
  BY <1>2, Ends, ToWrite
<1>4. ASSUME l.obs # None, ObservationVerdict(l.rec, l.obs) = "ok", l.obs.rev >= pending.target.rev,
             NEW then \in {"settled", "overtaken"}
      PROVE  LocalInv(Saving(l, Anchored(l.rec, l.obs), then), j, h)
  <2>1. l.obs \in RootObjects
    BY <1>1, <1>4 DEF OptRoots
  <2>2. /\ Anchored(l.rec, l.obs) \in Records /\ Sound(Anchored(l.rec, l.obs))
        /\ Follows(l.rec, Anchored(l.rec, l.obs))
    BY <1>1, <1>4, <2>1, AnchoredFollows
  <2>3. then \in Thens /\ then # "anchored" /\ then # "replay"
    BY DEF Thens
  <2> QED
    BY <1>2, <1>4, <2>2, <2>3, ToSave
<1>5. ASSUME IsBase(l)
      PROVE  LocalInv(Saving(l, [l.rec EXCEPT !.committed = l.obs, !.pending.expected = l.obs], "replay"), j, h)
  <2> DEFINE n == [l.rec EXCEPT !.committed = l.obs, !.pending.expected = l.obs]
             c == l.rec.committed
  <2>1. /\ l.obs # None /\ pending.expected # None /\ c # None /\ Logical(l.obs) = Logical(c)
        /\ l.obs \in RootObjects /\ pending.expected \in RootObjects /\ c \in RootObjects
    BY <1>1, <1>5 DEF IsBase, OptRoots, Records, Pendings
  <2>2. Logical(pending.expected) = Logical(c) /\ Succeeds(pending.expected, pending.target)
    BY <1>1, <2>1 DEF Sound, Fits
  <2>3. /\ l.obs.rev = c.rev /\ l.obs.clo = c.clo
        /\ pending.expected.rev = c.rev /\ pending.expected.clo = c.clo
    BY <2>1, <2>2, LogicalEqual
  <2>4. Succeeds(l.obs, pending.target)
    BY <2>2, <2>3 DEF Succeeds
  <2>5. /\ n.highest = l.rec.highest /\ n.committed = l.obs
        /\ n.pending \in Pendings /\ n.pending.target = pending.target /\ n.pending.expected = l.obs
        /\ n \in Records
    BY <1>1, <2>1 DEF Records, Pendings, OptRoots
  <2> HIDE DEF n
  <2>6. n.pending # None
    BY <2>5, RootAssumption
  <2>7. Sound(n)
    BY <1>1, <2>1, <2>4, <2>5, <2>6 DEF Sound, Fits
  <2>8. Follows(l.rec, n)
    <3>1. l.rec.highest \in Nat
      BY <1>1 DEF Records
    <3> QED
      BY <3>1, <2>1, <2>3, <2>5 DEF Follows, Keeps
  <2>9. "replay" \in Thens
    BY DEF Thens
  <2>10. LocalInv(Saving(l, n, "replay"), j, h)
    BY <1>2, <2>5, <2>6, <2>7, <2>8, <2>9, ToSave
  <2> QED
    BY <2>10 DEF n
<1>6. l.obs # None => l.obs.rev \in Nat
  BY <1>1 DEF OptRoots, RootObjects
<1>7. \/ LookPending(l) \in {Idle, Replaying(l)}
      \/ /\ l.obs # None /\ ObservationVerdict(l.rec, l.obs) = "ok" /\ l.obs.rev >= pending.target.rev
         /\ LookPending(l) \in {Saving(l, Anchored(l.rec, l.obs), then) : then \in {"settled", "overtaken"}}
      \/ /\ IsBase(l)
         /\ LookPending(l) = Saving(l, [l.rec EXCEPT !.committed = l.obs, !.pending.expected = l.obs], "replay")
  BY <1>1, <1>6 DEF LookPending
<1> QED
  BY <1>3, <1>4, <1>5, <1>7

-----------------------------------------------------------------------------
(* Saved records *)

LEMMA SavedMoves ==
  ASSUME PubInv, NEW p \in Publishers, NEW l, NEW i, NEW j, NEW h, h \subseteq RootObjects, JournalInv(j),
         LocalInv(l, i, h), l.pc \in Saves, j.rec = l.next, builds \in Nat,
         Saved(p, [l EXCEPT !.rec = l.next, !.jrev = j.rev])
  PROVE  Moves(p, j, h) /\ builds' \in Nat
<1> DEFINE saved == [l EXCEPT !.rec = l.next, !.jrev = j.rev]
           m == [saved EXCEPT !.next = Prepared, !.then = "none", !.cand = 0]
<1>1. /\ l \in Locals /\ l.next \in Records /\ Saveable(l) /\ l.pc # "idle" /\ l.op \in Operations /\ ~l.ok
      /\ j.rev \in Nat /\ j.rec.highest \in Nat
  BY DEF LocalInv, Core, Phase, Locals, Saves, JournalInv, JournalStates, Records
<1>2. saved \in Locals /\ saved.then = l.then
  BY <1>1 DEF Locals
<1>3. /\ m \in Locals
      /\ m.pc = l.pc /\ m.op = l.op /\ m.wal = l.wal /\ m.clo = l.clo /\ m.rec = l.next
      /\ m.jrev = j.rev /\ m.obs = l.obs /\ m.ok = l.ok
  BY <1>1, PreparedSound DEF Locals, Thens
<1>4. Saved(p, saved)
  OBVIOUS
<1>5. \/ Become(p, RecoveryPrepared) /\ UNCHANGED builds
      \/ l.then # "prepared" /\ Become(p, Continue(m)) /\ UNCHANGED builds
      \/ l.then = "replay" /\ Become(p, Replaying(m)) /\ UNCHANGED builds
      \/ /\ l.then \in {"applied", "settled", "overtaken"} /\ Become(p, Published(m.obs))
         /\ UNCHANGED builds
      \/ l.then = "anchored" /\ AfterAnchor(p, m)
      \/ Become(p, Idle) /\ UNCHANGED builds
  BY <1>2, <1>4 DEF Saved
<1> HIDE DEF m, saved
<1>6. Core(m, j, h)
  BY <1>1, <1>3 DEF LocalInv, Core, Saveable
<1>7. CASE Become(p, RecoveryPrepared) /\ UNCHANGED builds
  BY <1>7, BecomeMoves, Ends
<1>8. CASE l.then # "prepared" /\ Become(p, Continue(m)) /\ UNCHANGED builds
  <2> DEFINE n == Continue(m)
  <2>1. /\ n \in Locals
        /\ n.pc = "look" /\ n.op = m.op /\ n.wal = m.wal /\ n.clo = m.clo /\ n.rec = m.rec
        /\ n.jrev = m.jrev /\ n.obs = None /\ n.ok = m.ok
    BY <1>3 DEF Continue, Locals, OptRoots
  <2> HIDE DEF n
  <2>2. m.op # "prepare" /\ m.pc # "idle"
    BY <1>1, <1>3, <1>8 DEF Saveable
  <2>3. LocalInv(n, j, h)
    BY <2>1, <2>2, <1>6, ToLook
  <2> QED
    BY <2>3, <1>8, BecomeMoves DEF n
<1>9. CASE l.then = "replay" /\ Become(p, Replaying(m)) /\ UNCHANGED builds
  <2>1. m.op # "prepare" /\ m.pc # "idle" /\ m.wal /\ m.rec.pending # None
    BY <1>1, <1>3, <1>9 DEF Saveable
  <2> QED
    BY <2>1, <1>6, <1>9, ToWrite, BecomeMoves
<1>10. CASE l.then \in {"applied", "settled", "overtaken"} /\ Become(p, Published(m.obs)) /\ UNCHANGED builds
  <2>1. m.obs \in h
    BY <1>1, <1>3, <1>6, <1>10 DEF Saveable, Core
  <2> QED
    BY <2>1, <1>10, Ends, BecomeMoves
<1>11. CASE l.then = "anchored" /\ AfterAnchor(p, m)
  <2>1. /\ m.op # "prepare" /\ m.pc # "idle" /\ m.obs # None /\ m.rec.committed = m.obs /\ m.rec.pending = None
    BY <1>1, <1>3, <1>11 DEF Saveable
  <2> QED
    BY <2>1, <1>6, <1>11, AfterAnchorMoves
<1>12. CASE Become(p, Idle) /\ UNCHANGED builds
  BY <1>12, Ends, BecomeMoves
<1> QED
  BY <1>5, <1>7, <1>8, <1>9, <1>10, <1>11, <1>12

-----------------------------------------------------------------------------
(* Steps *)

\* What every step preserves and promises.
StepOK ==
  /\ IInv'
  /\ root' # root /\ mishaps' = mishaps /\ root # None => Succeeds(root, root')
  /\ Keeps(journal.rec.committed, journal'.rec.committed)

LEMMA KeepsSame == ASSUME NEW c PROVE Keeps(c, c)
  BY DEF Keeps

\* The other publishers and the writes under way while p moves.
LEMMA OthersStay ==
  ASSUME IInv, NEW p \in Publishers, JournalInv(journal'), Succession(journal, journal'),
         history \subseteq history', Moves(p, journal', history')
  PROVE  PubInv'
<1>1. pub'[p] \in Locals
  BY DEF Moves, LocalInv, Core
<1>2. pub' \in [Publishers -> Locals]
  BY <1>1 DEF Moves, IInv, PubInv
<1>3. ASSUME NEW q \in Publishers PROVE LocalInv(pub'[q], journal', history')
  <2>1. CASE q = p
    BY <2>1 DEF Moves
  <2>2. CASE q # p
    <3>1. pub'[q] = pub[q]
      BY <2>2 DEF Moves, IInv, PubInv
    <3>2. LocalInv(pub[q], journal, history) /\ JournalInv(journal)
      BY DEF IInv, PubInv
    <3>3. LocalInv(pub[q], journal', history')
      BY <3>2, Undisturbed
    <3> QED
      BY <3>1, <3>3
  <2> QED
    BY <2>1, <2>2
<1> QED
  BY <1>2, <1>3 DEF PubInv

LEMMA LateStays ==
  ASSUME NEW j, NEW k, NEW w, JournalInv(j), JournalInv(k), Succession(j, k), LateInv(w, j)
  PROVE  LateInv(w, k)
<1>1. j.rec.highest \in Nat /\ k.rec.highest \in Nat
  BY DEF JournalInv, JournalStates, Records
<1>2. w.target.rev \in Nat
  BY DEF LateInv, RootObjects
<1>3. j.rec.highest <= k.rec.highest
  BY <1>1 DEF Succession, Follows
<1> QED
  BY <1>1, <1>2, <1>3 DEF LateInv

\* A publisher moves, and with it at most the number of builds.
LEMMA LocalStep ==
  ASSUME IInv, NEW p \in Publishers, Moves(p, journal, history), builds' \in Nat,
         UNCHANGED <<root, journal, late, history, mishaps>>
  PROVE  StepOK
<1>1. PubInv'
  BY OthersStay DEF IInv, Succession
<1>2. StoreInv'
  BY DEF IInv, StoreInv, Newest, OneBundlePerRevision
<1>3. JournalInv(journal)' /\ \A w \in late' : LateInv(w, journal')
  BY DEF IInv
<1> QED
  BY <1>1, <1>2, <1>3, KeepsSame DEF IInv, StepOK

\* The store applies a write that fits.
LEMMA InstallStep ==
  ASSUME IInv, NEW w, LateInv(w, journal), WriteMatches(w), Install(w.target), UNCHANGED <<mishaps, builds>>
  PROVE  StoreInv' /\ (root # None => Succeeds(root, root')) /\ history \subseteq history'
<1>1. /\ root = w.expected /\ root' = w.target /\ history' = history \union {w.target} /\ w.target \in RootObjects
      /\ w.target # None
  BY RootAssumption DEF WriteMatches, Install, LateInv
<1>2. root # None => Succeeds(root, root')
  BY <1>1 DEF LateInv, Fits
<1>3. history' \subseteq RootObjects /\ root' \in history' \cup {None}
  BY <1>1 DEF IInv, StoreInv
<1>4. \A o \in history' : o.rev \in Nat
  BY <1>3 DEF RootObjects
<1>5. ASSUME mishaps = 0 PROVE Newest' /\ \A o \in history : o.rev < root'.rev
  <2>1. CASE root = None
    <3>1. history' = {root'}
      BY <2>1, <1>1, <1>5 DEF IInv, StoreInv, Newest
    <3>2. history = {}
      BY <2>1, <1>5 DEF IInv, StoreInv, Newest
    <3> QED
      BY <3>1, <3>2, <1>1, <1>4 DEF Newest
  <2>2. CASE root # None
    <3>1. root'.rev = root.rev + 1 /\ root \in history
      BY <2>2, <1>2 DEF Succeeds, IInv, StoreInv
    <3>2. root.rev \in Nat /\ root'.rev \in Nat
      BY <3>1, <1>1, <1>4
    <3>3. \A o \in history : o.rev < root'.rev
      BY <3>1, <3>2, <1>1, <1>4, <1>5 DEF IInv, StoreInv, Newest
    <3> QED
      BY <3>2, <3>3, <1>1, <1>4 DEF Newest
  <2> QED
    BY <2>1, <2>2
<1>6. OneBundlePerRevision'
  <2> SUFFICES ASSUME mishaps' = 0, NEW o \in history', NEW q \in history', o.rev = q.rev
               PROVE  o = q
    BY DEF OneBundlePerRevision
  <2>1. \A x, y \in history : x.rev = y.rev => x = y
    BY DEF IInv, StoreInv, OneBundlePerRevision
  <2>2. \A x \in history : x.rev < root'.rev
    BY <1>5
  <2>3. o.rev \in Nat /\ q.rev \in Nat /\ root'.rev \in Nat
    BY <1>1, <1>4
  <2> QED
    BY <2>1, <2>2, <2>3, <1>1
<1> QED
  BY <1>1, <1>2, <1>3, <1>5, <1>6 DEF StoreInv, IInv

LEMMA Facts ==
  ASSUME IInv, NEW p \in Publishers
  PROVE  /\ PubInv /\ JournalInv(journal) /\ history \subseteq RootObjects /\ builds \in Nat
         /\ root \in history \cup {None} /\ LocalInv(pub[p], journal, history) /\ pub[p] \in Locals
  BY DEF IInv, StoreInv, PubInv

LEMMA BeginStep == ASSUME IInv, NEW p \in Publishers, Begin(p) PROVE StepOK
<1>1. ASSUME NEW m \in Locals, m.pc \in {"look", "load"}, m.op \in Operations, m.rec = Prepared, m.jrev = 0,
             m.obs = None, ~m.ok, m.op \in {"create", "update"} => m.clo \in Closures,
             m.pc = "look" => m.op # "prepare", m.pc = "load" => m.wal
      PROVE  LocalInv(m, journal, history)
  <2>1. Core(Idle, journal, history) /\ Idle.rec = Prepared /\ Idle.jrev = 0
    BY Facts, Ends DEF LocalInv, Idle
  <2>2. Core(m, journal, history)
    BY <1>1, <2>1 DEF Core
  <2>3. Phase(m)
    BY <1>1 DEF Phase, Saves
  <2> QED
    BY <2>2, <2>3 DEF LocalInv
<1>2. Moves(p, journal, history)
  <2>1. CASE \E op \in {"create", "update"}, clo \in Closures :
               Become(p, [Idle EXCEPT !.pc = "look", !.op = op, !.clo = clo])
    <3>1. PICK op \in {"create", "update"}, clo \in Closures :
               Become(p, [Idle EXCEPT !.pc = "look", !.op = op, !.clo = clo])
      BY <2>1
    <3> DEFINE m == [Idle EXCEPT !.pc = "look", !.op = op, !.clo = clo]
    <3>2. /\ m \in Locals
          /\ m.pc = "look" /\ m.op = op /\ m.clo = clo /\ m.rec = Prepared /\ m.jrev = 0
          /\ m.obs = None /\ ~m.ok
      BY PreparedSound DEF Idle, Locals, Operations, Saves, Thens, OptRoots
    <3>3. Become(p, m)
      BY <3>1
    <3> HIDE DEF m
    <3>4. LocalInv(m, journal, history)
      BY <1>1, <3>2 DEF Operations
    <3> QED
      BY <3>3, <3>4, Facts, BecomeMoves
  <2>2. CASE \E op \in {"create", "update"}, clo \in Closures :
               Become(p, [Idle EXCEPT !.pc = "load", !.op = op, !.clo = clo, !.wal = TRUE])
    <3>1. PICK op \in {"create", "update"}, clo \in Closures :
               Become(p, [Idle EXCEPT !.pc = "load", !.op = op, !.clo = clo, !.wal = TRUE])
      BY <2>2
    <3> DEFINE m == [Idle EXCEPT !.pc = "load", !.op = op, !.clo = clo, !.wal = TRUE]
    <3>2. /\ m \in Locals
          /\ m.pc = "load" /\ m.op = op /\ m.clo = clo /\ m.wal /\ m.rec = Prepared /\ m.jrev = 0
          /\ m.obs = None /\ ~m.ok
      BY PreparedSound DEF Idle, Locals, Operations, Saves, Thens, OptRoots
    <3>3. Become(p, m)
      BY <3>1
    <3> HIDE DEF m
    <3>4. LocalInv(m, journal, history)
      BY <1>1, <3>2 DEF Operations
    <3> QED
      BY <3>3, <3>4, Facts, BecomeMoves
  <2>3. CASE \E op \in {"prepare", "recover"} : Become(p, [Idle EXCEPT !.pc = "load", !.op = op, !.wal = TRUE])
    <3>1. PICK op \in {"prepare", "recover"} : Become(p, [Idle EXCEPT !.pc = "load", !.op = op, !.wal = TRUE])
      BY <2>3
    <3> DEFINE m == [Idle EXCEPT !.pc = "load", !.op = op, !.wal = TRUE]
    <3>2. /\ m \in Locals
          /\ m.pc = "load" /\ m.op = op /\ m.wal /\ m.rec = Prepared /\ m.jrev = 0
          /\ m.obs = None /\ ~m.ok
      BY PreparedSound DEF Idle, Locals, Operations, Saves, Thens, OptRoots
    <3>3. Become(p, m)
      BY <3>1
    <3> HIDE DEF m
    <3>4. LocalInv(m, journal, history)
      BY <1>1, <3>2 DEF Operations
    <3> QED
      BY <3>3, <3>4, Facts, BecomeMoves
  <2> QED
    BY <2>1, <2>2, <2>3 DEF Begin
<1> QED
  BY <1>2, Facts, LocalStep DEF Begin

LEMMA LoadStep == ASSUME IInv, NEW p \in Publishers, LoadJournal(p) PROVE StepOK
<1> DEFINE l == pub[p]
           m == [l EXCEPT !.pc = "look", !.rec = journal.rec, !.jrev = journal.rev]
<1>1. /\ l.pc = "load" /\ Core(l, journal, history) /\ Phase(l) /\ l \in Locals
      /\ journal.rec \in Records /\ journal.rev \in Nat /\ journal.rec.highest \in Nat
  BY Facts DEF LoadJournal, LocalInv, JournalInv, JournalStates, Records
<1>2. l.wal /\ l.rec = Prepared
  BY <1>1 DEF Phase
<1>3. CASE Become(p, RecoveryPrepared) \/ Become(p, Idle)
  BY <1>3, Facts, Ends, BecomeMoves, LocalStep DEF LoadJournal
<1>4. CASE l.op = "prepare" /\ Become(p, Saving(l, Prepared, "prepared"))
  <2>1. Follows(l.rec, Prepared)
    BY <1>2 DEF Follows, Keeps, Prepared
  <2>2. "prepared" \in Thens
    BY DEF Thens
  <2>3. LocalInv(Saving(l, Prepared, "prepared"), journal, history)
    BY <1>1, <1>2, <2>1, <2>2, PreparedSound, ToSave
  <2> QED
    BY <1>4, <2>3, Facts, BecomeMoves, LocalStep DEF LoadJournal
<1>5. CASE l.op # "prepare" /\ Become(p, m)
  <2>1. /\ m \in Locals
        /\ m.pc = "look" /\ m.op = l.op /\ m.wal = l.wal /\ m.clo = l.clo /\ m.rec = journal.rec
        /\ m.jrev = journal.rev /\ m.obs = l.obs /\ m.ok = l.ok
    BY <1>1 DEF Locals
  <2> HIDE DEF m
  <2>2. Core(m, journal, history)
    <3>1. Sound(journal.rec)
      BY Facts DEF JournalInv
    <3> QED
      BY <1>1, <1>2, <2>1, <3>1 DEF Core
  <2>3. Phase(m)
    BY <2>1, <1>5 DEF Phase, Saves
  <2> QED
    BY <1>5, <2>2, <2>3, Facts, BecomeMoves, LocalStep DEF LoadJournal, LocalInv
<1> QED
  BY <1>3, <1>4, <1>5 DEF LoadJournal

LEMMA LookStep == ASSUME IInv, NEW p \in Publishers, Look(p) PROVE StepOK
<1> DEFINE l == [pub[p] EXCEPT !.obs = root]
<1>1. /\ pub[p] \in Locals /\ Core(pub[p], journal, history) /\ Phase(pub[p])
      /\ root \in history \cup {None} /\ root \in OptRoots
  BY Facts DEF LocalInv, OptRoots
<1>2. /\ l \in Locals
      /\ l.pc = pub[p].pc /\ l.op = pub[p].op /\ l.wal = pub[p].wal /\ l.clo = pub[p].clo
      /\ l.rec = pub[p].rec /\ l.jrev = pub[p].jrev /\ l.obs = root /\ l.ok = pub[p].ok
  BY <1>1 DEF Locals
<1>3. /\ l.pc = "look"
      /\ \/ l.rec.pending = None /\ LookIdle(p, l)
         \/ l.rec.pending # None /\ Become(p, LookPending(l)) /\ UNCHANGED builds
         \/ Become(p, Idle) /\ UNCHANGED builds
      /\ UNCHANGED <<root, journal, bare, late, history, mishaps>>
  BY DEF Look
<1> HIDE DEF l
<1>4. Core(l, journal, history) /\ l.pc # "idle" /\ l.op # "prepare"
  BY <1>1, <1>2, <1>3 DEF Core, Phase
<1>5. Moves(p, journal, history) /\ builds' \in Nat
  <2>1. CASE l.rec.pending = None /\ LookIdle(p, l)
    BY <2>1, <1>4, Facts, LookIdleMoves
  <2>2. CASE l.rec.pending # None /\ Become(p, LookPending(l)) /\ UNCHANGED builds
    <3>1. LocalInv(LookPending(l), journal, history)
      BY <2>2, <1>4, Facts, LookPendingMoves
    <3> QED
      BY <2>2, <3>1, Facts, BecomeMoves
  <2>3. CASE Become(p, Idle) /\ UNCHANGED builds
    BY <2>3, Facts, Ends, BecomeMoves
  <2> QED
    BY <1>3, <2>1, <2>2, <2>3
<1> QED
  BY <1>3, <1>5, LocalStep

\* The journal accepts a record.
LEMMA JournalStep ==
  ASSUME IInv, NEW p \in Publishers, Moves(p, journal', history), builds' \in Nat, JournalInv(journal'),
         Succession(journal, journal'), UNCHANGED <<root, late, history, mishaps>>
  PROVE  StepOK
<1>1. PubInv'
  BY OthersStay
<1>2. StoreInv'
  BY DEF IInv, StoreInv, Newest, OneBundlePerRevision
<1>3. \A w \in late' : LateInv(w, journal')
  BY LateStays DEF IInv
<1>4. Keeps(journal.rec.committed, journal'.rec.committed)
  BY KeepsSame DEF Succession, Follows
<1> QED
  BY <1>1, <1>2, <1>3, <1>4 DEF IInv, StepOK

LEMMA SaveStep == ASSUME IInv, NEW p \in Publishers, Save(p) PROVE StepOK
<1> DEFINE l == pub[p]
           installed == [rec |-> l.next, rev |-> journal.rev + 1]
           again(cand) == [l EXCEPT !.pc = "resave", !.cand = cand]
           conflict == [l EXCEPT !.pc = "conflict"]
<1>1. /\ l.pc = "save" /\ Core(l, journal, history) /\ Saveable(l) /\ l \in Locals /\ l.next \in Records
      /\ journal \in JournalStates /\ journal.rev \in Nat /\ l.cand \in Nat
      /\ LocalInv(l, journal, history)
  BY Facts DEF Save, LocalInv, Phase, Saves, JournalInv, JournalStates, Locals
<1>2. ASSUME NEW m \in Locals, m.pc \in {"resave", "conflict"}, m.op = l.op, m.wal = l.wal, m.clo = l.clo, m.rec = l.rec,
             m.jrev = l.jrev, m.obs = l.obs, m.next = l.next, m.then = l.then, m.ok = l.ok
      PROVE  LocalInv(m, journal, history)
  <2>1. Core(m, journal, history)
    BY <1>1, <1>2 DEF Core
  <2>2. Phase(m)
    BY <1>1, <1>2 DEF Phase, Saves, Saveable
  <2> QED
    BY <2>1, <2>2 DEF LocalInv
<1>3. ASSUME NEW cand \in Nat PROVE LocalInv(again(cand), journal, history)
  <2> DEFINE m == again(cand)
  <2>1. /\ m \in Locals
        /\ m.pc = "resave" /\ m.op = l.op /\ m.wal = l.wal /\ m.clo = l.clo /\ m.rec = l.rec
        /\ m.jrev = l.jrev /\ m.obs = l.obs /\ m.next = l.next /\ m.then = l.then /\ m.ok = l.ok
    BY <1>1 DEF Locals, Saves
  <2> HIDE DEF m
  <2>2. LocalInv(m, journal, history)
    BY <2>1, <1>2
  <2> QED
    BY <2>2 DEF m
<1>4. LocalInv(conflict, journal, history)
  <2>1. /\ conflict \in Locals
        /\ conflict.pc = "conflict" /\ conflict.op = l.op /\ conflict.wal = l.wal /\ conflict.clo = l.clo
        /\ conflict.rec = l.rec /\ conflict.jrev = l.jrev /\ conflict.obs = l.obs
        /\ conflict.next = l.next /\ conflict.then = l.then /\ conflict.ok = l.ok
    BY <1>1 DEF Locals, Saves
  <2> QED
    BY <2>1, <1>2
<1>5. ASSUME SaveMatches(l), journal' = installed
      PROVE  JournalInv(journal') /\ Succession(journal, journal')
  <2>1. journal'.rec = l.next /\ journal'.rev = journal.rev + 1 /\ journal' \in JournalStates
    BY <1>1, <1>5 DEF JournalStates
  <2>2. l.rec = journal.rec
    BY <1>1, <1>5 DEF SaveMatches, Core
  <2>3. Follows(journal.rec, l.next) /\ Sound(l.next)
    BY <1>1, <2>2 DEF Saveable
  <2> QED
    BY <1>1, <2>1, <2>3 DEF JournalInv, Succession
<1>6. CASE SaveMatches(l) /\ journal' = installed /\ Saved(p, [l EXCEPT !.rec = l.next, !.jrev = journal.rev + 1])
  <2>1. journal'.rec = l.next /\ journal'.rev = journal.rev + 1
    BY <1>6
  <2>2. Saved(p, [l EXCEPT !.rec = l.next, !.jrev = journal'.rev])
    BY <1>6, <2>1
  <2>3. l.pc \in Saves
    BY <1>1 DEF Saves
  <2>4. Moves(p, journal', history) /\ builds' \in Nat
    BY <1>1, <1>5, <1>6, <2>1, <2>2, <2>3, Facts, SavedMoves
  <2> QED
    BY <2>4, <1>5, <1>6, JournalStep DEF Save
<1>7. CASE Become(p, conflict) /\ UNCHANGED <<journal, builds>>
  BY <1>4, <1>7, Facts, BecomeMoves, LocalStep DEF Save
<1>8. CASE SaveMatches(l) /\ journal' = installed /\ Become(p, again(journal.rev + 1)) /\ UNCHANGED builds
  <2>1. LocalInv(again(journal.rev + 1), journal, history)
    <3>1. journal.rev + 1 \in Nat
      BY <1>1
    <3> HIDE DEF again
    <3> QED
      BY <3>1, <1>3
  <2>2. LocalInv(again(journal.rev + 1), journal', history)
    BY <2>1, <1>5, <1>8, Facts, Undisturbed
  <2> QED
    BY <2>2, <1>5, <1>8, Facts, BecomeMoves, JournalStep DEF Save
<1>9. CASE Become(p, [l EXCEPT !.pc = "resave"]) /\ UNCHANGED <<journal, builds>>
  <2>1. [l EXCEPT !.pc = "resave"] = again(l.cand)
    BY <1>1 DEF Locals
  <2>2. LocalInv([l EXCEPT !.pc = "resave"], journal, history)
    BY <2>1, <1>1, <1>3
  <2> QED
    BY <2>2, <1>9, Facts, BecomeMoves, LocalStep DEF Save
<1> QED
  BY <1>6, <1>7, <1>8, <1>9 DEF Save

LEMMA ResaveStep == ASSUME IInv, NEW p \in Publishers, Resave(p) PROVE StepOK
<1> DEFINE l == pub[p]
<1>1. CASE Become(p, Idle) /\ UNCHANGED builds
  BY <1>1, Facts, Ends, BecomeMoves, LocalStep DEF Resave
<1>2. CASE Become(p, RecoveryPrepared) /\ UNCHANGED builds
  BY <1>2, Facts, Ends, BecomeMoves, LocalStep DEF Resave
<1>3. CASE journal.rec = l.next /\ Saved(p, [l EXCEPT !.rec = l.next, !.jrev = journal.rev])
  <2>1. l.pc \in Saves
    BY DEF Resave, Saves
  <2>2. Moves(p, journal, history) /\ builds' \in Nat
    BY <1>3, <2>1, Facts, SavedMoves
  <2> QED
    BY <2>2, LocalStep DEF Resave
<1> QED
  BY <1>1, <1>2, <1>3 DEF Resave

LEMMA WriteStep == ASSUME IInv, NEW p \in Publishers, Write(p) PROVE StepOK
<1> DEFINE l == [pub[p] EXCEPT !.tries = @ + 1]
           w == Request(l)
<1>1. /\ pub[p] \in Locals /\ Core(pub[p], journal, history) /\ Phase(pub[p])
  BY Facts DEF LocalInv
<1>2. /\ l \in Locals
      /\ l.pc = pub[p].pc /\ l.op = pub[p].op /\ l.wal = pub[p].wal /\ l.clo = pub[p].clo
      /\ l.rec = pub[p].rec /\ l.jrev = pub[p].jrev /\ l.obs = pub[p].obs /\ l.ok = pub[p].ok
      /\ l.next = pub[p].next /\ l.then = pub[p].then
  BY <1>1 DEF Locals
<1>3. /\ l.pc = "write"
      /\ \/ /\ WriteMatches(w) /\ Install(w.target) /\ Applied(p, l) /\ UNCHANGED late
         \/ Become(p, Retry(l)) /\ UNCHANGED <<root, history, late>>
         \/ /\ late' = late \union {w} /\ UNCHANGED <<root, history>>
            /\ Become(p, Unanswered(l)) \/ Become(p, Idle)
      /\ UNCHANGED <<journal, bare, builds, mishaps>>
  BY DEF Write
<1> HIDE DEF l
<1>4. Core(l, journal, history) /\ Phase(l) /\ l.pc # "idle" /\ l.op # "prepare"
  BY <1>1, <1>2, <1>3 DEF Core, Phase, Saveable
<1>5. LateInv(w, journal) /\ (l.wal => w.target = l.rec.pending.target /\ l.rec.highest = w.target.rev)
  BY <1>3, <1>4, Facts, RequestFits DEF LocalInv
<1> HIDE DEF w
<1>6. CASE WriteMatches(w) /\ Install(w.target) /\ Applied(p, l) /\ UNCHANGED late
  <2>1. StoreInv' /\ (root # None => Succeeds(root, root')) /\ history \subseteq history'
    BY <1>3, <1>5, <1>6, InstallStep
  <2>2. history' \subseteq RootObjects /\ w.target \in history' /\ w.target \in RootObjects /\ w.target # None
    BY <2>1, <1>5, <1>6, RootAssumption DEF StoreInv, Install, LateInv
  <2>3. Moves(p, journal, history')
    <3>1. CASE Become(p, Published(w.target)) \/ Become(p, Idle)
      BY <3>1, <2>2, Facts, Ends, BecomeMoves
    <3>2. CASE /\ l.wal /\ ObservationVerdict(l.rec, w.target) = "ok"
               /\ Become(p, Saving([l EXCEPT !.obs = w.target], Anchored(l.rec, w.target), "applied"))
      <4> DEFINE seen == [l EXCEPT !.obs = w.target]
      <4>1. /\ seen \in Locals
            /\ seen.pc = l.pc /\ seen.op = l.op /\ seen.wal = l.wal /\ seen.clo = l.clo
            /\ seen.rec = l.rec /\ seen.jrev = l.jrev /\ seen.obs = w.target /\ seen.ok = l.ok
        BY <1>2, <2>2 DEF Locals, OptRoots
      <4>2. Become(p, Saving(seen, Anchored(l.rec, w.target), "applied"))
        BY <3>2
      <4> HIDE DEF seen
      <4>3. Core(seen, journal, history')
        BY <4>1, <1>4, <2>2 DEF Core
      <4>4. l.rec \in Records /\ Sound(l.rec) /\ w.target.rev \in Nat
        BY <1>2, <1>4, <2>2 DEF Core, Locals, RootObjects
      <4>5. /\ Anchored(l.rec, w.target) \in Records /\ Sound(Anchored(l.rec, w.target))
            /\ Follows(l.rec, Anchored(l.rec, w.target))
        BY <4>4, <1>5, <2>2, <3>2, AnchoredFollows
      <4>6. "applied" \in Thens
        BY DEF Thens
      <4>7. LocalInv(Saving(seen, Anchored(l.rec, w.target), "applied"), journal, history')
        BY <4>1, <4>3, <4>5, <4>6, <1>4, <2>2, <3>2, ToSave
      <4> QED
        BY <4>2, <4>7, Facts, BecomeMoves
    <3> QED
      BY <1>6, <3>1, <3>2 DEF Applied, w
  <2>4. PubInv'
    BY <1>3, <2>1, <2>3, Facts, OthersStay DEF Succession
  <2>5. JournalInv(journal)' /\ \A x \in late' : LateInv(x, journal')
    BY <1>3, <1>6 DEF IInv
  <2> QED
    BY <1>3, <2>1, <2>4, <2>5, KeepsSame DEF StepOK, IInv
<1>7. LocalInv(Retry(l), journal, history)
  <2> DEFINE m == [l EXCEPT !.pc = "look", !.obs = None, !.next = Prepared]
  <2>1. /\ m \in Locals
        /\ m.pc = "look" /\ m.op = l.op /\ m.wal = l.wal /\ m.clo = l.clo /\ m.rec = l.rec
        /\ m.jrev = l.jrev /\ m.obs = None /\ m.ok = l.ok
    BY <1>2, PreparedSound DEF Locals, OptRoots
  <2>2. Retry(l) = m \/ Retry(l) = Idle
    BY DEF Retry
  <2> HIDE DEF m
  <2> QED
    BY <2>1, <2>2, <1>4, Facts, Ends, ToLook
<1>8. LocalInv(Unanswered(l), journal, history)
  <2>1. CASE l.wal
    <3> DEFINE m == [l EXCEPT !.pc = "look"]
    <3>1. /\ m \in Locals
          /\ m.pc = "look" /\ m.op = l.op /\ m.wal = l.wal /\ m.clo = l.clo /\ m.rec = l.rec
          /\ m.jrev = l.jrev /\ m.obs = l.obs /\ m.ok = l.ok
      BY <1>2 DEF Locals
    <3>2. Unanswered(l) = m
      BY <2>1 DEF Unanswered
    <3> HIDE DEF m
    <3> QED
      BY <3>1, <3>2, <1>4, ToLook
  <2>2. CASE ~l.wal
    <3> DEFINE m == [l EXCEPT !.pc = "observe"]
    <3>1. /\ m \in Locals
          /\ m.pc = "observe" /\ m.op = l.op /\ m.wal = l.wal /\ m.clo = l.clo /\ m.rec = l.rec
          /\ m.jrev = l.jrev /\ m.obs = l.obs /\ m.ok = l.ok /\ m.next = l.next
      BY <1>2 DEF Locals
    <3>2. Unanswered(l) = m
      BY <2>2 DEF Unanswered
    <3> HIDE DEF m
    <3>3. Core(m, journal, history)
      BY <3>1, <1>4 DEF Core
    <3>4. Phase(m)
      BY <3>1, <1>3, <1>4 DEF Phase, Saves
    <3> QED
      BY <3>2, <3>3, <3>4 DEF LocalInv
  <2> QED
    BY <2>1, <2>2
<1>9. CASE Become(p, Retry(l)) /\ UNCHANGED <<root, history, late>>
  BY <1>3, <1>7, <1>9, Facts, BecomeMoves, LocalStep
<1>10. CASE /\ late' = late \union {w} /\ UNCHANGED <<root, history>>
            /\ Become(p, Unanswered(l)) \/ Become(p, Idle)
  <2>1. Moves(p, journal, history)
    BY <1>8, <1>10, Facts, Ends, BecomeMoves
  <2>2. PubInv'
    BY <1>3, <1>10, <2>1, Facts, OthersStay DEF Succession
  <2>3. StoreInv'
    BY <1>3, <1>10 DEF IInv, StoreInv, Newest, OneBundlePerRevision
  <2>4. JournalInv(journal)' /\ \A x \in late' : LateInv(x, journal')
    BY <1>3, <1>5, <1>10 DEF IInv
  <2> QED
    BY <1>3, <1>10, <2>2, <2>3, <2>4, KeepsSame DEF IInv, StepOK
<1> QED
  BY <1>3, <1>6, <1>9, <1>10

LEMMA ObserveStep == ASSUME IInv, NEW p \in Publishers, Observe(p) PROVE StepOK
<1> DEFINE l == pub[p]
<1>1. l.pc = "observe" /\ l \in Locals /\ Core(l, journal, history) /\ Phase(l)
  BY Facts DEF Observe, LocalInv
<1>2. LocalInv(Retry(l), journal, history)
  <2> DEFINE m == [l EXCEPT !.pc = "look", !.obs = None, !.next = Prepared]
  <2>1. /\ m \in Locals
        /\ m.pc = "look" /\ m.op = l.op /\ m.wal = l.wal /\ m.clo = l.clo /\ m.rec = l.rec
        /\ m.jrev = l.jrev /\ m.obs = None /\ m.ok = l.ok
    BY <1>1, PreparedSound DEF Locals, OptRoots
  <2>2. Retry(l) = m \/ Retry(l) = Idle
    BY DEF Retry
  <2>3. l.pc # "idle" /\ l.op # "prepare"
    BY <1>1 DEF Phase
  <2> HIDE DEF m
  <2> QED
    BY <2>1, <2>2, <2>3, <1>1, Facts, Ends, ToLook
<1>3. Moves(p, journal, history)
  <2>1. root # None => root \in history
    BY Facts
  <2> QED
    BY <1>2, <2>1, Facts, Ends, BecomeMoves DEF Observe
<1> QED
  BY <1>3, Facts, LocalStep DEF Observe

LEMMA DeliverStep == ASSUME IInv, Deliver PROVE StepOK
<1>1. PICK w \in late : /\ late' = late \ {w}
                        /\ \/ WriteMatches(w) /\ Install(w.target)
                           \/ ~WriteMatches(w) /\ UNCHANGED <<root, history>>
  BY DEF Deliver
<1>2. UNCHANGED <<journal, pub, builds, mishaps>>
  BY DEF Deliver
<1>3. StoreInv' /\ history \subseteq history' /\ (root' # root /\ root # None => Succeeds(root, root'))
  <2>1. CASE WriteMatches(w) /\ Install(w.target)
    <3>1. LateInv(w, journal)
      BY DEF IInv
    <3> QED
      BY <2>1, <3>1, <1>2, InstallStep
  <2>2. CASE UNCHANGED <<root, history>>
    BY <2>2, <1>2 DEF IInv, StoreInv, Newest, OneBundlePerRevision
  <2> QED
    BY <1>1, <2>1, <2>2
<1>4. PubInv'
  <2>1. ASSUME NEW q \in Publishers PROVE LocalInv(pub[q], journal, history')
    BY <1>3, Facts, Undisturbed DEF Succession
  <2> QED
    BY <1>2, <2>1 DEF IInv, PubInv
<1>5. JournalInv(journal)' /\ \A x \in late' : LateInv(x, journal')
  BY <1>1, <1>2 DEF IInv
<1> QED
  BY <1>2, <1>3, <1>4, <1>5, KeepsSame DEF IInv, StepOK

LEMMA MishapStep == ASSUME IInv, RootMishap PROVE StepOK
<1>1. mishaps \in Nat /\ mishaps' = mishaps + 1 /\ UNCHANGED <<journal, pub, late, builds>>
  BY DEF RootMishap, IInv, StoreInv
<1>2. mishaps' # 0 /\ mishaps' # mishaps /\ mishaps' \in Nat
  BY <1>1
<1>3. history' \subseteq RootObjects /\ root' \in history' \cup {None} /\ history \subseteq history'
  <2>1. root \in RootObjects /\ history \subseteq RootObjects
    BY DEF RootMishap, IInv, StoreInv
  <2>2. root' = None \/ root' \in RootObjects
    BY <2>1 DEF RootMishap, RootObjects
  <2> QED
    BY <2>1, <2>2 DEF RootMishap
<1>4. StoreInv'
  BY <1>1, <1>2, <1>3 DEF IInv, StoreInv, OneBundlePerRevision
<1>5. PubInv'
  <2>1. ASSUME NEW q \in Publishers PROVE LocalInv(pub[q], journal, history')
    BY <1>3, Facts, Undisturbed DEF Succession
  <2> QED
    BY <1>1, <2>1 DEF IInv, PubInv
<1> QED
  BY <1>1, <1>2, <1>4, <1>5, KeepsSame DEF IInv, StepOK

LEMMA CrashStep == ASSUME IInv, NEW p \in Publishers, Crash(p) PROVE StepOK
  BY Facts, Ends, BecomeMoves, LocalStep DEF Crash

-----------------------------------------------------------------------------
(* Theorems *)

LEMMA InitOK == Init => IInv
<1> SUFFICES ASSUME Init PROVE IInv
  OBVIOUS
<1>1. JournalInv(journal)
  BY PreparedSound DEF Init, JournalInv, JournalStates
<1>2. LocalInv(Idle, journal, history)
  BY <1>1, Ends DEF Init
<1>3. PubInv
  BY <1>2 DEF Init, PubInv, LocalInv, Core
<1>4. StoreInv
  BY DEF Init, StoreInv, Newest, OneBundlePerRevision
<1> QED
  BY <1>1, <1>3, <1>4 DEF Init, IInv

LEMMA NextOK == IInv /\ [Next]_vars => StepOK
<1> SUFFICES ASSUME IInv, [Next]_vars PROVE StepOK
  OBVIOUS
<1>1. CASE UNCHANGED vars
  BY <1>1, KeepsSame DEF vars, StepOK, IInv, StoreInv, Newest, OneBundlePerRevision, PubInv
<1>2. ASSUME NEW p \in Publishers, Begin(p) \/ Work(p) \/ Crash(p) PROVE StepOK
  BY <1>2, BeginStep, LoadStep, LookStep, SaveStep, ResaveStep, WriteStep, ObserveStep, CrashStep DEF Work
<1>3. CASE Deliver \/ RootMishap
  BY <1>3, DeliverStep, MishapStep
<1> QED
  BY <1>1, <1>2, <1>3 DEF Next

LEMMA InvKnown == IInv => RootIsKnown
<1> SUFFICES ASSUME IInv PROVE RootIsKnown
  OBVIOUS
<1>1. OneBundlePerRevision
  BY DEF IInv, StoreInv
<1>2. JournalAhead
  BY DEF IInv, LateInv, JournalAhead
<1>3. ReportIsTrue
  BY DEF IInv, PubInv, LocalInv, Core, ReportIsTrue
<1> QED
  BY <1>1, <1>2, <1>3 DEF RootIsKnown

\* For all publishers, with the journal or without, and any faults and mishaps: no revision is
\* given to two bundles, the journal knows every write that outlives its sender, and what
\* Create, Update and RecoverPending report as published has been the root.
THEOREM RootKnown == Spec => []RootIsKnown
<1>1. IInv /\ [Next]_vars => IInv'
  BY NextOK DEF StepOK
<1> QED
  BY InitOK, InvKnown, <1>1, PTL DEF Spec

\* For all publishers and faults: without tampering the root of a share only moves to a legal
\* successor, and whatever happens to the bucket the root that saveRootRecovery has committed to
\* the journal never goes back or to another bundle of its revision.
THEOREM RootNeverGoesBack == Spec => NothingGoesBack
<1>1. IInv /\ [Next]_vars => IInv'
  BY NextOK DEF StepOK
<1>2. IInv /\ [Next]_vars =>
        [root' # root /\ mishaps' = mishaps /\ root # None =>
           /\ root'.rev = root.rev + 1
           /\ root'.clo.gen >= root.clo.gen
           /\ root'.clo.gen = root.clo.gen => root'.clo.commit = root.clo.commit]_vars
  BY NextOK DEF StepOK, Succeeds
<1>3. IInv /\ [Next]_vars =>
        [LET c == journal.rec.committed
             d == journal'.rec.committed
         IN c # None => d # None /\ (d.rev > c.rev \/ (d.rev = c.rev /\ Logical(d) = Logical(c)))]_vars
  BY NextOK DEF StepOK, Keeps
<1> QED
  BY InitOK, <1>1, <1>2, <1>3, PTL DEF Spec, NothingGoesBack, RootAdvances, AnchorAdvances
=============================================================================
