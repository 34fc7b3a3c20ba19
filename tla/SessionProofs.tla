---------------------------- MODULE SessionProofs ----------------------------
(***************************************************************************)
(* SessionIsSound and SessionOnlyAdvances of PublisherSession, for any     *)
(* number of processes, snapshots, failing calls, deaths and crashes.      *)
(*                                                                         *)
(* A process holds the lock for as long as it runs, and it goes on only    *)
(* with a session that is visible and durable, the one it has in memory.   *)
(* So no other process moves what it has found or done between an effect   *)
(* and the phase that records it, and a crash that sets the visible        *)
(* session or handoff file back also ends the process.  The visible        *)
(* session is at most one phase ahead of the durable one.                  *)
(***************************************************************************)
EXTENDS PublisherSession, TLAPS

Sessions == [phase : 0..7, checkpoint : Nat, digest : Nat]

Labels ==
  {"create", "recover", "repository", "repository ready", "journal", "journal ready", "publication",
   "publication ready", "root", "root ready", "handoff", "handoff ready", "finish", "watch"}

Running == [pc : Labels, loaded : Sessions]

TypeOK ==
  /\ once \in BOOLEAN /\ descriptor \in BOOLEAN /\ journal \in BOOLEAN /\ expired \in BOOLEAN
  /\ session \in Sessions /\ saved \in Sessions
  /\ reference \in Nat /\ root \in Nat /\ wal \in Nat /\ handoff \in Nat /\ installed \in Nat
  /\ lock \in Processes \cup {Nobody}
  /\ proc \in [Processes -> {Idle} \cup Running]
  /\ faults \in Nat /\ deaths \in Nat

\* One process runs at a time, with the session that is visible and durable.
Exclusive ==
  \A p \in Processes : ~At(p, "idle") => lock = p /\ proc[p].loaded = session /\ session = saved

\* t is s or the session after it.
Follows(s, t) ==
  \/ t = s
  \/ /\ t.phase = s.phase + 1
     /\ s.checkpoint # 0 => t.checkpoint = s.checkpoint
     /\ s.digest # 0 => t.digest = s.digest

\* What the phase of a session stands for.
Earned(s) ==
  /\ s.phase >= RepositoryReady => descriptor = TRUE
  /\ s.phase >= JournalReady => journal = TRUE
  /\ s.phase >= InitialPublicationReady => s.checkpoint \in 1..reference
  /\ s.phase >= InitialRootReady => root >= s.checkpoint /\ s.digest = s.checkpoint
  /\ s.phase >= HandoffReady => installed = s.checkpoint

\* The share root and its log keep up with the reference.
RootInOrder == root <= reference /\ (wal # 0 => root <= wal /\ wal <= reference)

\* The handoff file names the checkpoint.
HandoffInOrder ==
  /\ handoff # 0 => handoff = saved.checkpoint /\ saved.phase >= InitialRootReady
  /\ installed # 0 => installed = handoff

\* The phases a process may be in at pc.
Arrived(pc, s) ==
  /\ pc = "create" => s = NoSession
  /\ pc \in {"recover", "repository", "repository ready"} => s.phase >= Prepared
  /\ pc \in {"journal", "journal ready"} => s.phase >= RepositoryReady
  /\ pc \in {"publication", "publication ready"} => s.phase >= JournalReady
  /\ pc \in {"root", "root ready"} => s.phase >= InitialPublicationReady
  /\ pc \in {"handoff", "handoff ready"} => s.phase >= InitialRootReady
  /\ pc \in {"finish", "watch"} => s.phase >= HandoffReady

\* What a process has done by then, and the session does not say yet.
Done(pc, s) ==
  /\ pc = "repository ready" => descriptor = TRUE
  /\ pc = "journal ready" => journal = TRUE
  /\ pc = "publication ready" => reference # 0
  /\ pc = "root ready" => root >= s.checkpoint
  /\ pc = "handoff ready" => installed = s.checkpoint /\ handoff = s.checkpoint

Reached(pc, s) == Arrived(pc, s) /\ Done(pc, s)

IInv ==
  /\ TypeOK /\ Exclusive
  /\ Valid(session) /\ Valid(saved) /\ Follows(saved, session)
  /\ Earned(session) /\ Earned(saved)
  /\ RootInOrder /\ HandoffInOrder
  /\ \A p \in Processes : Reached(proc[p].pc, session)

-----------------------------------------------------------------------------
(* What steps have in common *)

\* What holds of a process that runs.
LEMMA Runs ==
  ASSUME IInv, NEW p \in Processes, ~At(p, "idle")
  PROVE  /\ proc[p] \in Running /\ lock = p /\ proc[p].loaded = session /\ session = saved
         /\ \A q \in Processes \ {p} : proc[q] = Idle
         /\ Reached(proc[p].pc, session)
<1>1. proc[p] \in Running /\ lock = p /\ proc[p].loaded = session /\ session = saved
  BY DEF IInv, TypeOK, Exclusive, At, Idle
<1>2. ASSUME NEW q \in Processes \ {p} PROVE proc[q] = Idle
  <2>1. At(q, "idle")
    BY <1>1 DEF IInv, Exclusive
  <2> QED
    BY <2>1 DEF IInv, TypeOK, At, Running, Labels
<1>3. Reached(proc[p].pc, session)
  BY DEF IInv
<1> QED
  BY <1>1, <1>2, <1>3

\* Nobody has the lock: all are idle.
LEMMA NobodyRuns ==
  ASSUME IInv, lock = Nobody
  PROVE  \A q \in Processes : proc[q] = Idle
<1> SUFFICES ASSUME NEW q \in Processes PROVE proc[q] = Idle
  OBVIOUS
<1>1. At(q, "idle")
  BY SessionAssumption DEF IInv, Exclusive
<1> QED
  BY <1>1 DEF IInv, TypeOK, At, Running, Labels

\* The step of the process that runs leaves it idle without the lock, or running with the session
\* that is visible and durable.
LEMMA RunnerStep ==
  ASSUME NEW p \in Processes, \A q \in Processes \ {p} : proc[q] = Idle, proc \in [Processes -> {Idle} \cup Running],
         NEW m, proc' = [proc EXCEPT ![p] = m],
         \/ m = Idle
         \/ m \in Running /\ lock' = p /\ m.loaded = session' /\ session' = saved' /\ Reached(m.pc, session)'
  PROVE  /\ Exclusive'
         /\ \A q \in Processes : Reached(proc[q].pc, session)'
         /\ proc' \in [Processes -> {Idle} \cup Running]
<1>1. proc' \in [Processes -> {Idle} \cup Running]
  OBVIOUS
<1>2. \A q \in Processes \ {p} : proc'[q] = Idle
  OBVIOUS
<1>3. proc'[p] = m
  OBVIOUS
<1>4. ASSUME NEW q \in Processes, proc'[q] = Idle PROVE At(q, "idle")' /\ Reached(proc[q].pc, session)'
  <2>1. proc'[q].pc = "idle"
    BY <1>4 DEF Idle
  <2>2. Reached("idle", session)'
    BY DEF Reached, Arrived, Done
  <2> QED
    BY <2>1, <2>2 DEF At, Reached, Arrived, Done
<1>5. Exclusive'
  BY <1>2, <1>3, <1>4 DEF Exclusive, At
<1>6. \A q \in Processes : Reached(proc[q].pc, session)'
  BY <1>2, <1>3, <1>4
<1> QED
  BY <1>1, <1>5, <1>6

\* What a session has earned stays.
LEMMA StaysEarned ==
  ASSUME TypeOK, TypeOK', NEW s \in Sessions, Earned(s), descriptor' \in {descriptor, TRUE}, journal' \in {journal, TRUE},
         reference <= reference', root <= root', s.phase >= HandoffReady => installed' = installed
  PROVE  Earned(s)'
<1>1. /\ s.phase \in Nat /\ s.checkpoint \in Nat /\ reference \in Nat /\ reference' \in Nat /\ root \in Nat /\ root' \in Nat
  BY DEF TypeOK, Sessions
<1>2. s.checkpoint \in 1..reference => s.checkpoint \in 1..reference'
  BY <1>1
<1>3. root >= s.checkpoint => root' >= s.checkpoint
  BY <1>1
<1>4. (descriptor = TRUE => descriptor' = TRUE) /\ (journal = TRUE => journal' = TRUE)
  OBVIOUS
<1> QED
  BY <1>2, <1>3, <1>4 DEF Earned

\* An effect outside of the session and the handoff file.
LEMMA EffectKeeps ==
  ASSUME IInv, NEW p \in Processes, ~At(p, "idle"), UNCHANGED <<once, sealed, file>>,
         descriptor' \in BOOLEAN, journal' \in BOOLEAN, expired' \in BOOLEAN, faults' \in Nat, deaths' \in Nat,
         descriptor' \in {descriptor, TRUE}, journal' \in {journal, TRUE},
         reference' \in Nat, root' \in Nat, wal' \in Nat,
         reference <= reference', root <= root', RootInOrder',
         NEW pc \in Labels,
         \/ Ends(p)
         \/ Goes(p, pc) /\ Reached(pc, session)' /\ UNCHANGED lock
         \/ UNCHANGED <<proc, lock>> /\ proc[p].pc = pc /\ Reached(pc, session)'
  PROVE  IInv'
<1>1. proc[p] \in Running /\ lock = p /\ proc[p].loaded = session /\ session = saved
      /\ \A q \in Processes \ {p} : proc[q] = Idle
  BY Runs
<1>2. UNCHANGED <<once, session, saved, handoff, installed>>
  BY DEF sealed, file
<1>3. PICK m : /\ proc' = [proc EXCEPT ![p] = m]
               /\ \/ m = Idle /\ lock' = Nobody
                  \/ m \in Running /\ lock' = p /\ m.loaded = session /\ Reached(m.pc, session)'
  <2>1. CASE Ends(p)
    BY <2>1 DEF Ends
  <2>2. CASE Goes(p, pc) /\ Reached(pc, session)' /\ UNCHANGED lock
    <3>1. proc' = [proc EXCEPT ![p] = [proc[p] EXCEPT !.pc = pc]]
      BY <2>2 DEF Goes
    <3>2. /\ [proc[p] EXCEPT !.pc = pc] \in Running
          /\ [proc[p] EXCEPT !.pc = pc].pc = pc /\ [proc[p] EXCEPT !.pc = pc].loaded = session
      BY <1>1 DEF Running
    <3> QED
      BY <1>1, <2>2, <3>1, <3>2
  <2>3. CASE UNCHANGED <<proc, lock>> /\ proc[p].pc = pc /\ Reached(pc, session)'
    <3>1. proc' = [proc EXCEPT ![p] = proc[p]]
      BY <2>3 DEF IInv, TypeOK
    <3> QED
      BY <1>1, <2>3, <3>1
  <2> QED
    BY <2>1, <2>2, <2>3
<1>4. Exclusive' /\ (\A q \in Processes : Reached(proc[q].pc, session)') /\ proc' \in [Processes -> {Idle} \cup Running]
  BY <1>1, <1>2, <1>3, RunnerStep DEF IInv, TypeOK
<1>5. TypeOK'
  BY <1>2, <1>3, <1>4 DEF IInv, TypeOK
<1>6. Earned(session)' /\ Earned(saved)'
  BY <1>2, <1>5, StaysEarned DEF IInv, TypeOK
<1>7. Valid(session)' /\ Valid(saved)' /\ Follows(saved, session)' /\ HandoffInOrder'
  BY <1>2 DEF IInv, Valid, Follows, HandoffInOrder
<1> QED
  BY <1>4, <1>5, <1>6, <1>7 DEF IInv
\* A process writes the session after the one it has (CompareAndSwap and reconciliation).
LEMMA WriteKeeps ==
  ASSUME IInv, NEW p \in Processes, ~At(p, "idle"), NEW next \in Sessions, NEW pc, Writes(p, next, pc),
         next.phase = session.phase + 1, Follows(session, next), Earned(next), Reached(pc, next),
         [pc |-> pc, loaded |-> next] \in Running,
         UNCHANGED <<once, bucket, journal, wal, file, expired, deaths>>
  PROVE  IInv'
<1>1. proc[p] \in Running /\ lock = p /\ proc[p].loaded = session /\ session = saved
      /\ \A q \in Processes \ {p} : proc[q] = Idle
  BY Runs
<1>2. UNCHANGED <<once, descriptor, reference, root, journal, wal, handoff, installed, expired, deaths>>
  BY DEF bucket, file
<1>3. session' = next /\ saved' \in {saved, next} /\ Valid(next)
  BY DEF Writes
<1>4. PICK m : /\ proc' = [proc EXCEPT ![p] = m]
               /\ \/ m = Idle /\ lock' = Nobody
                  \/ m = [pc |-> pc, loaded |-> next] /\ lock' = p /\ saved' = next
  BY <1>1 DEF Writes, FailsLate, Ends
<1>5. faults' \in Nat
  BY DEF Writes, FailsLate, IInv, TypeOK
<1>6. Reached(pc, session)'
  <2>1. Arrived(pc, next) /\ Done(pc, next)
    BY DEF Reached
  <2>2. Arrived(pc, session)'
    BY Zenon, <1>3, <2>1 DEF Arrived
  <2>3. Done(pc, session)'
    BY <1>2, <1>3, <2>1 DEF Done
  <2> QED
    BY <2>2, <2>3 DEF Reached
<1>7. Exclusive' /\ (\A q \in Processes : Reached(proc[q].pc, session)') /\ proc' \in [Processes -> {Idle} \cup Running]
  <2>1. m = Idle \/ (m \in Running /\ lock' = p /\ m.loaded = session' /\ session' = saved' /\ Reached(m.pc, session)')
    BY <1>3, <1>4, <1>6
  <2> QED
    BY <1>1, <1>4, <2>1, RunnerStep DEF IInv, TypeOK
<1>8. TypeOK'
  BY <1>2, <1>3, <1>4, <1>5, <1>7 DEF IInv, TypeOK
<1>9. Earned(session)' /\ Earned(saved)'
  BY <1>2, <1>3 DEF IInv, Earned
<1>10. Valid(session)' /\ Valid(saved)' /\ Follows(saved, session)'
  BY <1>1, <1>2, <1>3 DEF IInv, Valid, Follows
<1>11. HandoffInOrder'
  <2>1. handoff # 0 => saved.checkpoint # 0 /\ saved.phase >= InitialRootReady
    BY DEF IInv, HandoffInOrder
  <2>2. handoff # 0 => next.checkpoint = saved.checkpoint /\ next.phase >= InitialRootReady
    BY <1>1, <2>1 DEF Follows, Sessions, IInv, TypeOK, InitialRootReady
  <2> QED
    BY <1>2, <1>3, <2>2 DEF IInv, HandoffInOrder
<1>12. RootInOrder'
  BY <1>2 DEF IInv, RootInOrder
<1> QED
  BY <1>7, <1>8, <1>9, <1>10, <1>11, <1>12 DEF IInv
-----------------------------------------------------------------------------
(* The actions *)

\* A process that starts behaves like one that runs from here on.
LEMMA StartKeeps ==
  ASSUME IInv, NEW p \in Processes, lock = Nobody, lock' = p, saved' = session,
         NEW pc \in Labels, proc' = [proc EXCEPT ![p] = [pc |-> pc, loaded |-> session]], Reached(pc, session)',
         UNCHANGED <<once, session, bucket, journal, wal, file, bounds>>
  PROVE  IInv'
<1>1. UNCHANGED <<once, session, descriptor, reference, root, journal, wal, handoff, installed, expired, faults, deaths>>
  BY DEF bucket, file, bounds
<1>2. \A q \in Processes : proc[q] = Idle
  BY NobodyRuns
<1>3. session \in Sessions /\ saved \in Sessions
  BY DEF IInv, TypeOK
<1>4. Exclusive' /\ (\A q \in Processes : Reached(proc[q].pc, session)') /\ proc' \in [Processes -> {Idle} \cup Running]
  <2> DEFINE m == [pc |-> pc, loaded |-> session]
  <2>1. m \in Running /\ m.loaded = session' /\ m.pc = pc
    BY <1>1, <1>3 DEF Running
  <2>2. proc' = [proc EXCEPT ![p] = m]
    OBVIOUS
  <2> HIDE DEF m
  <2>3. proc \in [Processes -> {Idle} \cup Running]
    BY DEF IInv, TypeOK
  <2> QED
    BY <1>1, <1>2, <2>1, <2>2, <2>3, RunnerStep
<1>5. TypeOK'
  BY <1>1, <1>4 DEF IInv, TypeOK
<1>6. Earned(session)' /\ Earned(saved)'
  BY <1>1 DEF IInv, Earned
<1>7. Valid(session)' /\ Valid(saved)' /\ Follows(saved, session)' /\ RootInOrder'
  BY <1>1 DEF IInv, Valid, Follows, RootInOrder
<1>8. HandoffInOrder'
  <2>1. handoff # 0 => saved.checkpoint = handoff /\ saved.phase >= InitialRootReady
    BY DEF IInv, HandoffInOrder
  <2>2. handoff # 0 => session.checkpoint = handoff /\ session.phase >= InitialRootReady
    BY <1>3, <2>1 DEF Follows, Sessions, IInv, InitialRootReady
  <2> QED
    BY <1>1, <2>2 DEF IInv, HandoffInOrder
<1> QED
  BY <1>4, <1>5, <1>6, <1>7, <1>8 DEF IInv

\* publish starts where there is no session.
LEMMA PublishKeeps ==
  ASSUME IInv, NEW p \in Processes, Publish(p)
  PROVE  IInv'
<1>1. session = NoSession /\ UNCHANGED <<session, saved>>
  BY DEF Publish, sealed
<1>2. saved = session
  BY <1>1 DEF IInv, TypeOK, Sessions, Follows, NoSession
<1>3. Reached("create", session)'
  BY <1>1 DEF Reached, Arrived, Done
<1> QED
  BY <1>1, <1>2, <1>3, StartKeeps DEF Publish, Labels, sealed

\* resume starts with the session it loads.
LEMMA ResumeKeeps ==
  ASSUME IInv, NEW p \in Processes, Resume(p)
  PROVE  IInv'
<1>1. session # NoSession /\ UNCHANGED session
  BY DEF Resume
<1>2. session.phase >= Prepared
  BY <1>1 DEF IInv, TypeOK, Sessions, Valid, NoSession, Prepared, InitialPublicationReady, InitialRootReady
<1>3. Reached("recover", session)'
  BY <1>1, <1>2 DEF Reached, Arrived, Done
<1> QED
  BY <1>1, <1>3, StartKeeps DEF Resume, Labels

\* A process ends without an effect.
LEMMA EndKeeps ==
  ASSUME IInv, NEW p \in Processes, Unauthorized(p) \/ Fail(p) \/ Die(p)
  PROVE  IInv'
<1>1. /\ ~At(p, "idle") /\ Ends(p)
      /\ UNCHANGED <<once, sealed, file, descriptor, journal, reference, root, wal, expired>>
      /\ faults' \in Nat /\ deaths' \in Nat
  BY DEF Unauthorized, Fail, Die, bucket, bounds, IInv, TypeOK
<1>2. RootInOrder'
  BY <1>1 DEF IInv, RootInOrder
<1>3. "watch" \in Labels
  BY DEF Labels
<1>4. /\ descriptor' \in BOOLEAN /\ journal' \in BOOLEAN /\ expired' \in BOOLEAN
      /\ reference' \in Nat /\ root' \in Nat /\ wal' \in Nat /\ reference <= reference' /\ root <= root'
  BY <1>1 DEF IInv, TypeOK
<1> QED
  BY <1>1, <1>2, <1>3, <1>4, EffectKeeps

\* The first phase is written.
LEMMA CreateKeeps ==
  ASSUME IInv, NEW p \in Processes, Create(p)
  PROVE  IInv'
<1> DEFINE next == [phase |-> Prepared, checkpoint |-> 0, digest |-> 0]
<1>1. ~At(p, "idle") /\ proc[p].pc = "create"
  BY DEF Create, At
<1>2. session = NoSession
  BY <1>1, Runs DEF Reached, Arrived
<1>3. /\ next \in Sessions /\ next.phase = session.phase + 1 /\ Follows(session, next)
  BY <1>2 DEF Sessions, Prepared, NoSession, Follows
<1>4. Earned(next)
  BY DEF Earned, Prepared, RepositoryReady, JournalReady, InitialPublicationReady, InitialRootReady, HandoffReady
<1>5. Reached("repository", next)
  BY DEF Reached, Arrived, Done, Prepared
<1>6. [pc |-> "repository", loaded |-> next] \in Running
  BY <1>3 DEF Running, Labels
<1> QED
  BY <1>1, <1>3, <1>4, <1>5, <1>6, WriteKeeps DEF Create

\* The session after the one that is there, with the evidence of its phase.
LEMMA NextSessionFollows ==
  ASSUME NEW s \in Sessions, Valid(s), s.phase < Completed, NEW checkpoint \in Nat, NEW digest \in Nat
  PROVE  LET next == NextSession(s, checkpoint, digest) IN
         next \in Sessions /\ next.phase = s.phase + 1 /\ Follows(s, next)
<1> DEFINE next == NextSession(s, checkpoint, digest)
<1>1. next \in Sessions /\ next.phase = s.phase + 1
  BY DEF NextSession, Sessions, Completed
<1>2. s.checkpoint # 0 => s.phase >= InitialPublicationReady
  BY DEF Valid
<1>3. s.digest # 0 => s.phase >= InitialRootReady
  BY DEF Valid
<1>4. s.checkpoint # 0 => next.checkpoint = s.checkpoint
  BY <1>2 DEF NextSession, Sessions, InitialPublicationReady
<1>5. s.digest # 0 => next.digest = s.digest
  BY <1>3 DEF NextSession, Sessions, InitialRootReady
<1> QED
  BY <1>1, <1>4, <1>5 DEF Follows

\* A phase is recorded behind its effect, or was before.
LEMMA AdvanceKeeps ==
  ASSUME IInv, NEW p \in Processes, NEW pc \in Labels, NEW phase \in 2..6, NEW checkpoint \in Nat, NEW digest \in Nat,
         NEW then \in {"journal", "publication", "root", "handoff", "finish"}, Advance(p, pc, phase, checkpoint, digest, then),
         session.phase >= phase - 1,
         session.phase = phase - 1 => Earned(NextSession(session, checkpoint, digest)),
         \A s \in Sessions : s.phase >= phase => Arrived(then, s)
  PROVE  IInv'
<1>1. ~At(p, "idle") /\ session \in Sessions /\ Valid(session)
  BY DEF Advance, At, IInv, TypeOK, Labels
<1>2. proc[p].loaded = session
  BY <1>1, Runs
<1>3. UNCHANGED <<once, bucket, journal, wal, file, expired, deaths>>
  BY DEF Advance
<1>0. then \in Labels /\ Done(then, session)' /\ \A s \in Sessions : Done(then, s)
  BY DEF Labels, Done
<1>4. CASE session.phase = phase - 1
  <2> DEFINE next == NextSession(session, checkpoint, digest)
  <2>1. session.phase < Completed
    BY <1>4 DEF Completed
  <2>2. next \in Sessions /\ next.phase = session.phase + 1 /\ Follows(session, next)
    BY <1>1, <2>1, NextSessionFollows
  <2>3. Writes(p, next, then) /\ Earned(next)
    BY <1>2, <1>4 DEF Advance
  <2> HIDE DEF next
  <2>4. Reached(then, next)
    BY <1>4, <1>0, <2>2 DEF Reached
  <2>5. [pc |-> then, loaded |-> next] \in Running
    BY <1>0, <2>2 DEF Running
  <2> QED
    BY <1>1, <1>3, <2>2, <2>3, <2>4, <2>5, WriteKeeps
<1>5. CASE session.phase # phase - 1
  <2>1. Goes(p, then) /\ UNCHANGED <<sealed, lock, faults>>
    BY <1>2, <1>5 DEF Advance
  <2>2. session.phase >= phase
    BY <1>1, <1>5 DEF Sessions
  <2>3. UNCHANGED <<session, descriptor, journal, reference, root, wal, handoff, installed, expired, faults, deaths>>
    BY <1>3, <2>1 DEF sealed, bucket, file
  <2>4. Reached(then, session)'
    <3>1. Arrived(then, session)
      BY <1>1, <2>2
    <3>2. Arrived(then, session)'
      BY <2>3, <3>1 DEF Arrived
    <3> QED
      BY <1>0, <3>2 DEF Reached
  <2>5. RootInOrder'
    BY <2>3 DEF IInv, RootInOrder
  <2>6. /\ descriptor' \in BOOLEAN /\ journal' \in BOOLEAN /\ expired' \in BOOLEAN
        /\ faults' \in Nat /\ deaths' \in Nat
        /\ reference' \in Nat /\ root' \in Nat /\ wal' \in Nat /\ reference <= reference' /\ root <= root'
    BY <2>3 DEF IInv, TypeOK
  <2> QED
    BY <1>1, <1>3, <1>0, <2>1, <2>3, <2>4, <2>5, <2>6, EffectKeeps
<1> QED
  BY <1>4, <1>5

\* The phases in their order.
LEMMA Ranks ==
  /\ Prepared = 1 /\ RepositoryReady = 2 /\ JournalReady = 3 /\ InitialPublicationReady = 4
  /\ InitialRootReady = 5 /\ HandoffReady = 6 /\ Completed = 7
BY DEF Prepared, RepositoryReady, JournalReady, InitialPublicationReady, InitialRootReady, HandoffReady, Completed

\* What the effect of a stage has earned.
LEMMA StageFacts ==
  ASSUME IInv
  PROVE  /\ reference \in Nat /\ session.checkpoint \in Nat /\ 0 \in Nat
         /\ RepositoryReady \in 2..6 /\ JournalReady \in 2..6 /\ InitialPublicationReady \in 2..6
         /\ InitialRootReady \in 2..6 /\ HandoffReady \in 2..6
         /\ Reached("repository ready", session) =>
              /\ session.phase >= RepositoryReady - 1
              /\ session.phase = RepositoryReady - 1 => Earned(NextSession(session, 0, 0))
         /\ Reached("journal ready", session) =>
              /\ session.phase >= JournalReady - 1
              /\ session.phase = JournalReady - 1 => Earned(NextSession(session, 0, 0))
         /\ Reached("publication ready", session) =>
              /\ session.phase >= InitialPublicationReady - 1
              /\ session.phase = InitialPublicationReady - 1 => Earned(NextSession(session, reference, 0))
         /\ Reached("root ready", session) =>
              /\ session.phase >= InitialRootReady - 1
              /\ session.phase = InitialRootReady - 1 => Earned(NextSession(session, 0, session.checkpoint))
         /\ Reached("handoff ready", session) =>
              /\ session.phase >= HandoffReady - 1
              /\ session.phase = HandoffReady - 1 => Earned(NextSession(session, 0, 0))
<1>0. /\ session \in Sessions /\ reference \in Nat /\ Earned(session)
      /\ session.phase \in 0..7 /\ session.checkpoint \in Nat
  BY DEF IInv, TypeOK, Sessions
<1>1. ASSUME Reached("repository ready", session)
      PROVE  /\ session.phase >= RepositoryReady - 1
             /\ session.phase = RepositoryReady - 1 => Earned(NextSession(session, 0, 0))
  <2>1. session.phase >= 1 /\ descriptor = TRUE
    BY <1>1, Ranks DEF Reached, Arrived, Done
  <2>2. ASSUME session.phase = 1 PROVE Earned(NextSession(session, 0, 0))
    <3> DEFINE next == NextSession(session, 0, 0)
    <3>1. /\ next.phase = session.phase + 1
          /\ next.checkpoint = session.checkpoint /\ next.digest = session.digest
      BY <2>2, Ranks DEF NextSession
    <3> HIDE DEF next
    <3>2. Earned(next)
      BY <1>0, <2>1, <2>2, <3>1, Ranks DEF Earned
    <3> QED
      BY <3>2 DEF next
  <2> QED
    BY <2>1, <2>2, Ranks
<1>2. ASSUME Reached("journal ready", session)
      PROVE  /\ session.phase >= JournalReady - 1
             /\ session.phase = JournalReady - 1 => Earned(NextSession(session, 0, 0))
  <2>1. session.phase >= 2 /\ journal = TRUE
    BY <1>2, Ranks DEF Reached, Arrived, Done
  <2>2. ASSUME session.phase = 2 PROVE Earned(NextSession(session, 0, 0))
    <3> DEFINE next == NextSession(session, 0, 0)
    <3>1. /\ next.phase = session.phase + 1
          /\ next.checkpoint = session.checkpoint /\ next.digest = session.digest
      BY <2>2, Ranks DEF NextSession
    <3> HIDE DEF next
    <3>2. Earned(next)
      BY <1>0, <2>1, <2>2, <3>1, Ranks DEF Earned
    <3> QED
      BY <3>2 DEF next
  <2> QED
    BY <2>1, <2>2, Ranks
<1>3. ASSUME Reached("publication ready", session)
      PROVE  /\ session.phase >= InitialPublicationReady - 1
             /\ session.phase = InitialPublicationReady - 1 => Earned(NextSession(session, reference, 0))
  <2>1. session.phase >= 3 /\ reference # 0
    BY <1>3, Ranks DEF Reached, Arrived, Done
  <2>2. ASSUME session.phase = 3 PROVE Earned(NextSession(session, reference, 0))
    <3> DEFINE next == NextSession(session, reference, 0)
    <3>1. /\ next.phase = session.phase + 1
          /\ next.checkpoint = reference /\ next.digest = session.digest
      BY <2>2, Ranks DEF NextSession
    <3> HIDE DEF next
    <3>2. Earned(next)
      BY <1>0, <2>1, <2>2, <3>1, Ranks DEF Earned
    <3> QED
      BY <3>2 DEF next
  <2> QED
    BY <2>1, <2>2, Ranks
<1>4. ASSUME Reached("root ready", session)
      PROVE  /\ session.phase >= InitialRootReady - 1
             /\ session.phase = InitialRootReady - 1 => Earned(NextSession(session, 0, session.checkpoint))
  <2>1. session.phase >= 4 /\ root >= session.checkpoint
    BY <1>4, Ranks DEF Reached, Arrived, Done
  <2>2. ASSUME session.phase = 4 PROVE Earned(NextSession(session, 0, session.checkpoint))
    <3> DEFINE next == NextSession(session, 0, session.checkpoint)
    <3>1. /\ next.phase = session.phase + 1
          /\ next.checkpoint = session.checkpoint /\ next.digest = session.checkpoint
      BY <2>2, Ranks DEF NextSession
    <3> HIDE DEF next
    <3>2. Earned(next)
      BY <1>0, <2>1, <2>2, <3>1, Ranks DEF Earned
    <3> QED
      BY <3>2 DEF next
  <2> QED
    BY <2>1, <2>2, Ranks
<1>5. ASSUME Reached("handoff ready", session)
      PROVE  /\ session.phase >= HandoffReady - 1
             /\ session.phase = HandoffReady - 1 => Earned(NextSession(session, 0, 0))
  <2>1. session.phase >= 5 /\ installed = session.checkpoint
    BY <1>5, Ranks DEF Reached, Arrived, Done
  <2>2. ASSUME session.phase = 5 PROVE Earned(NextSession(session, 0, 0))
    <3> DEFINE next == NextSession(session, 0, 0)
    <3>1. /\ next.phase = session.phase + 1
          /\ next.checkpoint = session.checkpoint /\ next.digest = session.digest
      BY <2>2, Ranks DEF NextSession
    <3> HIDE DEF next
    <3>2. Earned(next)
      BY <1>0, <2>1, <2>2, <3>1, Ranks DEF Earned
    <3> QED
      BY <3>2 DEF next
  <2> QED
    BY <2>1, <2>2, Ranks
<1>6. /\ 0 \in Nat /\ RepositoryReady \in 2..6 /\ JournalReady \in 2..6 /\ InitialPublicationReady \in 2..6
      /\ InitialRootReady \in 2..6 /\ HandoffReady \in 2..6
  BY Ranks
<1> QED
  BY Zenon, <1>0, <1>1, <1>2, <1>3, <1>4, <1>5, <1>6

\* The five phases behind an effect.
LEMMA AdvancesKeep ==
  ASSUME IInv, NEW p \in Processes,
         \/ Advance(p, "repository ready", RepositoryReady, 0, 0, "journal")
         \/ Advance(p, "journal ready", JournalReady, 0, 0, "publication")
         \/ Advance(p, "publication ready", InitialPublicationReady, reference, 0, "root")
         \/ Advance(p, "root ready", InitialRootReady, 0, proc[p].loaded.checkpoint, "handoff")
         \/ Advance(p, "handoff ready", HandoffReady, 0, 0, "finish")
  PROVE  IInv'
<1>1. CASE Advance(p, "repository ready", RepositoryReady, 0, 0, "journal")
  <2>1. Reached("repository ready", session) /\ proc[p].loaded = session
    BY <1>1, Runs DEF Advance, At
  <2>2. \A s \in Sessions : s.phase >= RepositoryReady => Arrived("journal", s)
    BY DEF Arrived
  <2> QED
    BY <1>1, <2>1, <2>2, StageFacts, AdvanceKeeps DEF Labels
<1>2. CASE Advance(p, "journal ready", JournalReady, 0, 0, "publication")
  <2>1. Reached("journal ready", session) /\ proc[p].loaded = session
    BY <1>2, Runs DEF Advance, At
  <2>2. \A s \in Sessions : s.phase >= JournalReady => Arrived("publication", s)
    BY DEF Arrived
  <2> QED
    BY <1>2, <2>1, <2>2, StageFacts, AdvanceKeeps DEF Labels
<1>3. CASE Advance(p, "publication ready", InitialPublicationReady, reference, 0, "root")
  <2>1. Reached("publication ready", session) /\ proc[p].loaded = session
    BY <1>3, Runs DEF Advance, At
  <2>2. \A s \in Sessions : s.phase >= InitialPublicationReady => Arrived("root", s)
    BY DEF Arrived
  <2> QED
    BY <1>3, <2>1, <2>2, StageFacts, AdvanceKeeps DEF Labels
<1>4. CASE Advance(p, "root ready", InitialRootReady, 0, proc[p].loaded.checkpoint, "handoff")
  <2>1. Reached("root ready", session) /\ proc[p].loaded = session
    BY <1>4, Runs DEF Advance, At
  <2>2. \A s \in Sessions : s.phase >= InitialRootReady => Arrived("handoff", s)
    BY DEF Arrived
  <2> QED
    BY <1>4, <2>1, <2>2, StageFacts, AdvanceKeeps DEF Labels
<1>5. CASE Advance(p, "handoff ready", HandoffReady, 0, 0, "finish")
  <2>1. Reached("handoff ready", session) /\ proc[p].loaded = session
    BY <1>5, Runs DEF Advance, At
  <2>2. \A s \in Sessions : s.phase >= HandoffReady => Arrived("finish", s)
    BY DEF Arrived
  <2> QED
    BY <1>5, <2>1, <2>2, StageFacts, AdvanceKeeps DEF Labels
<1> QED
  BY <1>1, <1>2, <1>3, <1>4, <1>5
\* The effects on the bucket, the journal and the log.
LEMMA RecoverPendingKeeps ==
  ASSUME IInv, NEW p \in Processes, RecoverPending(p)
  PROVE  IInv'
<1>1. ~At(p, "idle") /\ proc[p].pc = "recover" /\ Reached("recover", session)
  BY Runs DEF RecoverPending, At
<1>2. /\ UNCHANGED <<once, sealed, file, session, descriptor, journal, reference, expired, deaths>>
      /\ root' = IF wal # 0 THEN wal ELSE root
      /\ wal' \in {0, wal}
  BY DEF RecoverPending, sealed
<1>3. (Goes(p, "repository") /\ UNCHANGED <<lock, faults>>) \/ (Ends(p) /\ faults' = faults + 1)
  BY DEF RecoverPending, Succeeds, FailsLate
<1>0. faults' \in {faults, faults + 1}
  BY DEF RecoverPending, Succeeds, FailsLate
<1>4. Reached("repository", session)'
  BY <1>1, <1>2 DEF Reached, Arrived, Done
<1>5. /\ root' \in Nat /\ wal' \in Nat /\ root <= root' /\ RootInOrder'
  BY <1>2 DEF IInv, TypeOK, RootInOrder
<1>6. /\ descriptor' \in BOOLEAN /\ journal' \in BOOLEAN /\ expired' \in BOOLEAN
      /\ faults' \in Nat /\ deaths' \in Nat /\ reference' \in Nat /\ reference <= reference'
  BY <1>0, <1>2 DEF IInv, TypeOK
<1>7. "repository" \in Labels
  BY DEF Labels
<1> QED
  BY <1>1, <1>2, <1>3, <1>4, <1>5, <1>6, <1>7, EffectKeeps

LEMMA RepositoryKeeps ==
  ASSUME IInv, NEW p \in Processes, Repository(p)
  PROVE  IInv'
<1>1. ~At(p, "idle") /\ proc[p].pc = "repository" /\ Reached("repository", session)
  BY Runs DEF Repository, At
<1>2. /\ UNCHANGED <<once, sealed, file, session, journal, reference, root, wal, expired, deaths>>
      /\ descriptor' = TRUE
  BY DEF Repository, sealed
<1>3. (Goes(p, "repository ready") /\ UNCHANGED <<lock, faults>>) \/ (Ends(p) /\ faults' = faults + 1)
  BY DEF Repository, Succeeds, FailsLate
<1>0. faults' \in {faults, faults + 1}
  BY DEF Repository, Succeeds, FailsLate
<1>4. Reached("repository ready", session)'
  BY <1>1, <1>2 DEF Reached, Arrived, Done
<1>5. RootInOrder'
  BY <1>2 DEF IInv, RootInOrder
<1>6. /\ descriptor' \in BOOLEAN /\ journal' \in BOOLEAN /\ expired' \in BOOLEAN /\ root' \in Nat /\ wal' \in Nat
      /\ faults' \in Nat /\ deaths' \in Nat /\ reference' \in Nat /\ reference <= reference' /\ root <= root'
  BY <1>0, <1>2 DEF IInv, TypeOK
<1>7. "repository ready" \in Labels
  BY DEF Labels
<1> QED
  BY <1>1, <1>2, <1>3, <1>4, <1>5, <1>6, <1>7, EffectKeeps

LEMMA RecoverPublicationKeeps ==
  ASSUME IInv, NEW p \in Processes, RecoverPublication(p)
  PROVE  IInv'
<1>1. ~At(p, "idle") /\ proc[p].pc = "journal" /\ Reached("journal", session)
  BY Runs DEF RecoverPublication, At
<1>2. /\ UNCHANGED <<once, sealed, file, session, descriptor, reference, root, wal, expired, deaths>>
      /\ journal' = TRUE
  BY DEF RecoverPublication, sealed, bucket
<1>3. (Goes(p, "journal ready") /\ UNCHANGED <<lock, faults>>) \/ (Ends(p) /\ faults' = faults + 1)
  BY DEF RecoverPublication, Succeeds, FailsLate
<1>0. faults' \in {faults, faults + 1}
  BY DEF RecoverPublication, Succeeds, FailsLate
<1>4. Reached("journal ready", session)'
  BY <1>1, <1>2 DEF Reached, Arrived, Done
<1>5. RootInOrder'
  BY <1>2 DEF IInv, RootInOrder
<1>6. /\ descriptor' \in BOOLEAN /\ journal' \in BOOLEAN /\ expired' \in BOOLEAN /\ root' \in Nat /\ wal' \in Nat
      /\ faults' \in Nat /\ deaths' \in Nat /\ reference' \in Nat /\ reference <= reference' /\ root <= root'
  BY <1>0, <1>2 DEF IInv, TypeOK
<1>7. "journal ready" \in Labels
  BY DEF Labels
<1> QED
  BY <1>1, <1>2, <1>3, <1>4, <1>5, <1>6, <1>7, EffectKeeps

LEMMA PublishSnapshotKeeps ==
  ASSUME IInv, NEW p \in Processes, PublishSnapshot(p)
  PROVE  IInv'
<1>1. ~At(p, "idle") /\ proc[p].pc = "publication" /\ Reached("publication", session)
  BY Runs DEF PublishSnapshot, At
<1>2. /\ UNCHANGED <<once, sealed, file, session, descriptor, journal, root, wal, expired, deaths>>
      /\ reference' = IF reference = 0 THEN 1 ELSE reference
  BY DEF PublishSnapshot, sealed
<1>3. (Goes(p, "publication ready") /\ UNCHANGED <<lock, faults>>) \/ (Ends(p) /\ faults' = faults + 1)
  BY DEF PublishSnapshot, Succeeds, FailsLate
<1>0. faults' \in {faults, faults + 1}
  BY DEF PublishSnapshot, Succeeds, FailsLate
<1>4. Reached("publication ready", session)'
  BY <1>1, <1>2 DEF Reached, Arrived, Done
<1>5. /\ RootInOrder' /\ reference' \in Nat /\ reference <= reference'
  BY <1>2 DEF IInv, TypeOK, RootInOrder
<1>6. /\ descriptor' \in BOOLEAN /\ journal' \in BOOLEAN /\ expired' \in BOOLEAN /\ root' \in Nat /\ wal' \in Nat
      /\ faults' \in Nat /\ deaths' \in Nat /\ root <= root'
  BY <1>0, <1>2 DEF IInv, TypeOK
<1>7. "publication ready" \in Labels
  BY DEF Labels
<1> QED
  BY <1>1, <1>2, <1>3, <1>4, <1>5, <1>6, <1>7, EffectKeeps

\* The share root is put, for the first time or by the watch.
LEMMA ShareRootKeeps ==
  ASSUME IInv, NEW p \in Processes, ShareRoot(p)
  PROVE  IInv'
<1>1. /\ ~At(p, "idle") /\ proc[p].pc = "root" /\ Reached("root", session)
      /\ proc[p].loaded = session /\ session.checkpoint \in 1..reference
  BY Runs DEF ShareRoot, At
<1>2. /\ UNCHANGED <<once, sealed, file, session, descriptor, journal, reference, expired, deaths>>
  BY DEF ShareRoot, sealed
<1>3. \/ root' = reference /\ wal' = 0 /\ Goes(p, "root ready") /\ UNCHANGED <<lock, faults>>
      \/ root' \in {root, reference} /\ wal' = reference /\ Ends(p) /\ faults' = faults + 1
  BY DEF ShareRoot, Succeeds, FailsLate
<1>0. faults' \in {faults, faults + 1} /\ ((root' = reference /\ wal' = 0) \/ (root' \in {root, reference} /\ wal' = reference))
  BY DEF ShareRoot, Succeeds, FailsLate
<1>4. root' = reference => Reached("root ready", session)'
  <2>1. session' = session /\ (root' = reference => root' >= session'.checkpoint)
    BY <1>1, <1>2 DEF IInv, TypeOK
  <2> QED
    BY <1>1, <2>1 DEF Reached, Arrived, Done
<1>5. /\ root' \in Nat /\ wal' \in Nat /\ root <= root' /\ RootInOrder'
  BY <1>0, <1>2 DEF IInv, TypeOK, RootInOrder
<1>6. /\ descriptor' \in BOOLEAN /\ journal' \in BOOLEAN /\ expired' \in BOOLEAN
      /\ faults' \in Nat /\ deaths' \in Nat /\ reference' \in Nat /\ reference <= reference'
  BY <1>0, <1>2 DEF IInv, TypeOK
<1>7. "root ready" \in Labels
  BY DEF Labels
<1> QED
  BY <1>1, <1>2, <1>3, <1>4, <1>5, <1>6, <1>7, EffectKeeps

LEMMA WatchKeeps ==
  ASSUME IInv, NEW p \in Processes, WatchPublishes(p) \/ WatchPutsRoot(p)
  PROVE  IInv'
<1>1. ~At(p, "idle") /\ proc[p].pc = "watch" /\ Reached("watch", session)
  BY Runs DEF WatchPublishes, WatchPutsRoot, At
<1>2. UNCHANGED <<once, sealed, file, session, descriptor, journal, expired, deaths>>
  BY DEF WatchPublishes, WatchPutsRoot, sealed, bounds
<1>3. \/ reference' = reference + 1 /\ UNCHANGED <<root, wal, lock, proc, faults>>
      \/ root' = reference /\ wal' = 0 /\ UNCHANGED <<reference, lock, proc, faults>>
      \/ root' \in {root, reference} /\ wal' = reference /\ UNCHANGED <<reference, lock, proc>>
      \/ root' \in {root, reference} /\ wal' = reference /\ Ends(p) /\ UNCHANGED reference
  BY DEF WatchPublishes, WatchPutsRoot, FailsLate, bounds
<1>0. faults' \in {faults, faults + 1}
  BY DEF WatchPublishes, WatchPutsRoot, FailsLate, bounds
<1>4. Reached("watch", session)'
  BY <1>1, <1>2 DEF Reached, Arrived, Done
<1>5. /\ root' \in Nat /\ wal' \in Nat /\ root <= root' /\ RootInOrder' /\ reference' \in Nat /\ reference <= reference'
  BY <1>3 DEF IInv, TypeOK, RootInOrder
<1>6. /\ descriptor' \in BOOLEAN /\ journal' \in BOOLEAN /\ expired' \in BOOLEAN
      /\ faults' \in Nat /\ deaths' \in Nat
  BY <1>0, <1>2 DEF IInv, TypeOK
<1>7. "watch" \in Labels
  BY DEF Labels
<1> QED
  BY <1>1, <1>2, <1>3, <1>4, <1>5, <1>6, <1>7, EffectKeeps

\* The handoff file is installed, or found as it has to be.
LEMMA InstallHandoffKeeps ==
  ASSUME IInv, NEW p \in Processes, InstallHandoff(p)
  PROVE  IInv'
<1>1. /\ ~At(p, "idle") /\ proc[p] \in Running /\ lock = p /\ proc[p].loaded = session /\ session = saved
      /\ (\A q \in Processes \ {p} : proc[q] = Idle) /\ Reached("handoff", session)
  BY Runs DEF InstallHandoff, At
<1>2. UNCHANGED <<once, session, saved, descriptor, journal, reference, root, wal, expired, deaths>>
  BY DEF InstallHandoff, sealed, bucket
<1>3. /\ handoff \in {0, session.checkpoint} /\ handoff' = session.checkpoint
      /\ installed' \in {installed, session.checkpoint}
      /\ faults' \in {faults, faults + 1}
  BY <1>1 DEF InstallHandoff, Succeeds, FailsLate
<1>4. session.phase \in 0..7 /\ session.phase >= InitialRootReady /\ session.checkpoint \in Nat
  BY <1>1 DEF Reached, Arrived, IInv, TypeOK, Sessions
<1>5. PICK m : /\ proc' = [proc EXCEPT ![p] = m]
               /\ \/ m = Idle /\ lock' = Nobody
                  \/ /\ m \in Running /\ lock' = p /\ m.loaded = session /\ m.pc = "handoff ready"
                     /\ installed' = session.checkpoint
  <2>1. CASE Ends(p)
    BY <2>1 DEF Ends
  <2>2. CASE Goes(p, "handoff ready") /\ UNCHANGED lock /\ installed' = session.checkpoint
    <3> DEFINE m == [proc[p] EXCEPT !.pc = "handoff ready"]
    <3>1. proc' = [proc EXCEPT ![p] = m]
      BY <2>2 DEF Goes
    <3>2. m \in Running /\ m.pc = "handoff ready" /\ m.loaded = session
      BY <1>1 DEF Running, Labels
    <3> HIDE DEF m
    <3> QED
      BY <1>1, <2>2, <3>1, <3>2
  <2> QED
    BY <1>1, <2>1, <2>2 DEF InstallHandoff, Succeeds, FailsLate
<1>6. installed' = session.checkpoint => Reached("handoff ready", session)'
  BY <1>1, <1>2, <1>3 DEF Reached, Arrived, Done
<1>7. Exclusive' /\ (\A q \in Processes : Reached(proc[q].pc, session)') /\ proc' \in [Processes -> {Idle} \cup Running]
  BY <1>1, <1>2, <1>5, <1>6, RunnerStep DEF IInv, TypeOK
<1>8. TypeOK'
  <2>1. handoff' \in Nat /\ installed' \in Nat /\ faults' \in Nat
    BY <1>3, <1>4 DEF IInv, TypeOK
  <2>2. lock' \in Processes \cup {Nobody}
    BY <1>5
  <2> QED
    BY <1>2, <1>7, <2>1, <2>2 DEF IInv, TypeOK
<1>9. Earned(session)' /\ Earned(saved)'
  <2>1. Earned(session) /\ (session.phase >= HandoffReady => installed = session.checkpoint)
    BY DEF IInv, Earned
  <2>2. session.phase >= HandoffReady => installed' = session.checkpoint
    BY <1>3, <2>1
  <2> QED
    BY <1>1, <1>2, <2>1, <2>2 DEF Earned
<1>10. Valid(session)' /\ Valid(saved)' /\ Follows(saved, session)' /\ RootInOrder'
  BY <1>2 DEF IInv, Valid, Follows, RootInOrder
<1>11. HandoffInOrder'
  <2>1. installed # 0 => installed = handoff
    BY DEF IInv, HandoffInOrder
  <2>2. installed' # 0 => installed' = handoff'
    BY <1>3, <2>1
  <2> QED
    BY <1>1, <1>2, <1>3, <1>4, <2>2 DEF HandoffInOrder
<1> QED
  BY <1>7, <1>8, <1>9, <1>10, <1>11 DEF IInv

\* A session that publishes once is completed, another one is watched.
LEMMA FinishKeeps ==
  ASSUME IInv, NEW p \in Processes, Finish(p)
  PROVE  IInv'
<1>1. ~At(p, "idle") /\ proc[p].pc = "finish" /\ Reached("finish", session) /\ proc[p].loaded = session
  BY Runs DEF Finish, At
<1>2. UNCHANGED <<once, bucket, journal, wal, file, expired, deaths>>
  BY DEF Finish
<1>3. /\ session \in Sessions /\ Valid(session) /\ Earned(session) /\ reference \in Nat
      /\ session.phase \in 6..7 /\ session.checkpoint \in Nat
  <2>1. session \in Sessions /\ Valid(session) /\ Earned(session) /\ reference \in Nat
    BY DEF IInv, TypeOK
  <2>2. session.phase >= HandoffReady
    BY <1>1 DEF Reached, Arrived
  <2> QED
    BY <2>1, <2>2, Ranks DEF Sessions
<1>4. ASSUME UNCHANGED <<sealed, faults>>, Ends(p) \/ (Goes(p, "watch") /\ UNCHANGED lock) PROVE IInv'
  <2>1. UNCHANGED <<session, descriptor, journal, reference, root, wal, handoff, installed, expired, faults, deaths>>
    BY <1>2, <1>4 DEF sealed, bucket, file
  <2>2. Reached("watch", session)'
    BY <1>1, <2>1 DEF Reached, Arrived, Done
  <2>3. RootInOrder'
    BY <2>1 DEF IInv, RootInOrder
  <2>4. /\ descriptor' \in BOOLEAN /\ journal' \in BOOLEAN /\ expired' \in BOOLEAN
        /\ faults' \in Nat /\ deaths' \in Nat
        /\ reference' \in Nat /\ root' \in Nat /\ wal' \in Nat /\ reference <= reference' /\ root <= root'
    BY <2>1 DEF IInv, TypeOK
  <2>5. "watch" \in Labels
    BY DEF Labels
  <2> QED
    BY <1>1, <1>2, <1>4, <2>1, <2>2, <2>3, <2>4, <2>5, EffectKeeps
<1>5. ASSUME session.phase # Completed, Writes(p, NextSession(session, 0, 0), "finish") PROVE IInv'
  <2> DEFINE next == NextSession(session, 0, 0)
  <2>1. session.phase < Completed /\ session.phase = 6
    BY <1>3, <1>5, Ranks
  <2>2. next \in Sessions /\ next.phase = session.phase + 1 /\ Follows(session, next)
    BY <1>3, <2>1, NextSessionFollows
  <2>3. next.checkpoint = session.checkpoint /\ next.digest = session.digest
    BY <2>1, Ranks DEF NextSession
  <2>4. Writes(p, next, "finish")
    BY <1>5
  <2> HIDE DEF next
  <2>5. Earned(next)
    BY <1>3, <2>1, <2>2, <2>3, Ranks DEF Earned
  <2>6. Reached("finish", next)
    BY <2>1, <2>2, Ranks DEF Reached, Arrived, Done
  <2>7. [pc |-> "finish", loaded |-> next] \in Running
    BY <2>2 DEF Running, Labels
  <2> QED
    BY <1>1, <1>2, <2>2, <2>4, <2>5, <2>6, <2>7, WriteKeeps
<1> QED
  BY <1>1, <1>4, <1>5 DEF Finish
\* A crash of the machine sets the session and the handoff file back to what is durable.
LEMMA CrashKeeps ==
  ASSUME IInv, Crash
  PROVE  IInv'
<1>1. /\ UNCHANGED <<once, descriptor, journal, reference, root, wal, expired, faults>>
      /\ session' \in {session, saved} /\ saved' = session'
      /\ handoff' \in {handoff, installed} /\ installed' = handoff'
      /\ deaths' \in Nat /\ lock' = Nobody
  BY DEF Crash, bucket, IInv, TypeOK
<1>2. proc' = [p \in Processes |-> Idle]
  BY DEF Crash
<1>3. TypeOK'
  BY <1>1, <1>2 DEF IInv, TypeOK
<1>4. \A p \in Processes : proc'[p].pc = "idle"
  BY <1>2 DEF Idle
<1>5. Exclusive' /\ \A p \in Processes : Reached(proc[p].pc, session)'
  BY <1>4 DEF Exclusive, At, Reached, Arrived, Done
<1>6. Valid(session)' /\ Valid(saved)' /\ Follows(saved, session)' /\ RootInOrder'
  BY <1>1 DEF IInv, Valid, Follows, RootInOrder
<1>7. /\ session \in Sessions /\ saved \in Sessions /\ installed \in Nat /\ handoff \in Nat
      /\ (handoff # 0 => handoff = saved.checkpoint /\ saved.phase >= InitialRootReady)
      /\ (installed # 0 => installed = handoff)
  BY DEF IInv, TypeOK, HandoffInOrder
<1>8. handoff # 0 => session.checkpoint = saved.checkpoint /\ session.phase >= InitialRootReady
  BY <1>7, Ranks DEF IInv, Follows, Sessions
<1>9. HandoffInOrder'
  BY <1>1, <1>7, <1>8 DEF HandoffInOrder
<1>10. ASSUME NEW s \in {session, saved}, s.phase >= HandoffReady PROVE installed' = s.checkpoint
  <2>1. installed = s.checkpoint /\ s.checkpoint # 0
    BY <1>7, <1>10, Ranks DEF IInv, Earned, Valid, Sessions
  <2> QED
    BY <1>1, <1>7, <2>1
<1>11. ASSUME NEW s \in {session, saved} PROVE Earned(s)'
  <2>1. Earned(s)
    BY DEF IInv
  <2> QED
    BY <1>1, <1>10, <2>1 DEF Earned
<1>12. Earned(session)' /\ Earned(saved)'
  <2>1. CASE session' = session
    BY <1>1, <1>11, <2>1 DEF Earned
  <2>2. CASE session' = saved
    BY <1>1, <1>11, <2>2 DEF Earned
  <2> QED
    BY <1>1, <2>1, <2>2
<1> QED
  BY <1>3, <1>5, <1>6, <1>9, <1>12 DEF IInv

\* Nothing but the bounds changes.
LEMMA StaysKeeps ==
  ASSUME IInv, expired' \in BOOLEAN, UNCHANGED <<once, session, saved, descriptor, journal, reference, root, wal,
                                                handoff, installed, lock, proc, faults, deaths>>
  PROVE  IInv'
<1>1. TypeOK' /\ Exclusive'
  BY DEF IInv, TypeOK, Exclusive, At
<1>2. Valid(session)' /\ Valid(saved)' /\ Follows(saved, session)' /\ RootInOrder' /\ HandoffInOrder'
  BY DEF IInv, Valid, Follows, RootInOrder, HandoffInOrder
<1>3. Earned(session)' /\ Earned(saved)'
  BY DEF IInv, Earned
<1>4. ASSUME NEW p \in Processes PROVE Reached(proc[p].pc, session)'
  <2>1. Arrived(proc[p].pc, session) /\ Done(proc[p].pc, session)
    BY DEF IInv, Reached
  <2>2. Arrived(proc[p].pc, session)'
    BY <2>1 DEF Arrived
  <2>3. Done(proc[p].pc, session)'
    BY <2>1 DEF Done
  <2> QED
    BY <2>2, <2>3 DEF Reached
<1> QED
  BY <1>1, <1>2, <1>3, <1>4 DEF IInv

-----------------------------------------------------------------------------
(* The theorems *)

\* Nothing is there at the start.
LEMMA InitInv == Init => IInv
<1> SUFFICES ASSUME Init PROVE IInv
  OBVIOUS
<1>1. TypeOK
  <2>1. once \in BOOLEAN /\ descriptor \in BOOLEAN /\ journal \in BOOLEAN /\ expired \in BOOLEAN
    BY DEF Init
  <2>2. NoSession \in Sessions
    BY DEF NoSession, Sessions
  <2>3. session \in Sessions /\ saved \in Sessions
    BY <2>2 DEF Init
  <2>4. /\ reference \in Nat /\ root \in Nat /\ wal \in Nat /\ handoff \in Nat /\ installed \in Nat
        /\ faults \in Nat /\ deaths \in Nat
    BY DEF Init
  <2>5. lock \in Processes \cup {Nobody} /\ proc \in [Processes -> {Idle} \cup Running]
    BY DEF Init
  <2> QED
    BY <2>1, <2>3, <2>4, <2>5 DEF TypeOK
<1>2. \A p \in Processes : proc[p].pc = "idle"
  BY DEF Init, Idle
<1>3. Exclusive /\ \A p \in Processes : Reached(proc[p].pc, session)
  BY <1>2 DEF Exclusive, At, Reached, Arrived, Done
<1>4. session = saved /\ session.phase = 0 /\ session.checkpoint = 0 /\ session.digest = 0
  BY DEF Init, NoSession
<1>5. Valid(session) /\ Valid(saved) /\ Follows(saved, session) /\ Earned(session) /\ Earned(saved)
  BY <1>4, Ranks DEF Valid, Follows, Earned
<1>6. RootInOrder /\ HandoffInOrder
  BY DEF Init, RootInOrder, HandoffInOrder
<1> QED
  BY <1>1, <1>3, <1>5, <1>6 DEF IInv

\* Every step keeps the invariant.
LEMMA StepInv == IInv /\ [Next]_vars => IInv'
<1> SUFFICES ASSUME IInv, [Next]_vars PROVE IInv'
  OBVIOUS
<1>1. ASSUME NEW p \in Processes,
             \/ Publish(p) \/ Resume(p) \/ Unauthorized(p) \/ Fail(p) \/ Die(p)
             \/ Proceed(p) \/ WatchPublishes(p)
      PROVE  IInv'
  <2>1. CASE Proceed(p)
    BY <2>1, CreateKeeps, RecoverPendingKeeps, RepositoryKeeps, RecoverPublicationKeeps, PublishSnapshotKeeps,
       ShareRootKeeps, InstallHandoffKeeps, AdvancesKeep, FinishKeeps, WatchKeeps DEF Proceed
  <2> QED
    BY <1>1, <2>1, PublishKeeps, ResumeKeeps, EndKeeps, WatchKeeps
<1>2. CASE Crash
  BY <1>2, CrashKeeps
<1>3. CASE Expire
  BY <1>3, StaysKeeps DEF Expire, sealed, bucket, file
<1>4. CASE UNCHANGED vars
  <2>1. expired' \in BOOLEAN
    BY <1>4 DEF vars, IInv, TypeOK
  <2> QED
    BY <1>4, <2>1, StaysKeeps DEF vars
<1> QED
  BY <1>1, <1>2, <1>3, <1>4 DEF Next

\* A phase that may be loaded after any crash is earned, and whoever finds the handoff file finds
\* the share root and the snapshot it names, for any number of processes that publish and
\* resume one after the other and any calls that fail (publish.go, resume.go).
THEOREM SessionsSound == Spec => []SessionIsSound
<1>1. IInv => SessionIsSound
  <2> SUFFICES ASSUME IInv PROVE SessionIsSound
    OBVIOUS
  <2>1. PhaseIsEarned
    BY DEF IInv, Earned, PhaseIsEarned
  <2>2. HandoffIsUsable
    <3>1. handoff # 0 => handoff = saved.checkpoint /\ saved.phase >= InitialRootReady
      BY DEF IInv, HandoffInOrder
    <3>2. root <= reference /\ root \in Nat /\ saved.checkpoint \in Nat
      BY DEF IInv, RootInOrder, TypeOK, Sessions
    <3>3. saved.phase >= InitialRootReady => root >= saved.checkpoint
      BY DEF IInv, Earned
    <3> QED
      BY <3>1, <3>2, <3>3 DEF HandoffIsUsable
  <2> QED
    BY <2>1, <2>2 DEF SessionIsSound
<1> QED
  BY <1>1, InitInv, StepInv, PTL DEF Spec
\* A session that is replaced by the one that follows it went on by one phase.
LEMMA FollowsIsOneOn ==
  ASSUME saved' \in {saved, session} \/ \E next : saved' = next /\ Follows(saved, next),
         Follows(saved, session)
  PROVE  OneOn
BY DEF Follows, OneOn

\* What a process writes follows the session that is durable.
LEMMA AdvanceFollows ==
  ASSUME IInv, NEW p \in Processes, NEW pc \in Labels, NEW phase \in 2..6, NEW checkpoint \in Nat, NEW digest \in Nat,
         NEW then, Advance(p, pc, phase, checkpoint, digest, then)
  PROVE  OneOn
<1>1. ~At(p, "idle") /\ session \in Sessions /\ Valid(session) /\ Follows(saved, session)
  BY DEF Advance, At, IInv, TypeOK, Labels
<1>2. proc[p].loaded = session /\ session = saved
  BY <1>1, Runs
<1>3. CASE session.phase = phase - 1
  <2> DEFINE next == NextSession(session, checkpoint, digest)
  <2>1. session.phase < Completed
    BY <1>3, Ranks
  <2>2. Follows(session, next)
    BY <1>1, <2>1, NextSessionFollows
  <2>3. Writes(p, next, then)
    BY <1>2, <1>3 DEF Advance
  <2> HIDE DEF next
  <2>4. saved' \in {saved, next}
    BY <2>3 DEF Writes
  <2> QED
    BY <1>1, <1>2, <2>2, <2>4, FollowsIsOneOn
<1>4. CASE session.phase # phase - 1
  BY <1>2, <1>4 DEF Advance, sealed, OneOn
<1> QED
  BY <1>3, <1>4

LEMMA AdvancesFollow ==
  ASSUME IInv, NEW p \in Processes,
         \/ Advance(p, "repository ready", RepositoryReady, 0, 0, "journal")
         \/ Advance(p, "journal ready", JournalReady, 0, 0, "publication")
         \/ Advance(p, "publication ready", InitialPublicationReady, reference, 0, "root")
         \/ Advance(p, "root ready", InitialRootReady, 0, proc[p].loaded.checkpoint, "handoff")
         \/ Advance(p, "handoff ready", HandoffReady, 0, 0, "finish")
  PROVE  OneOn
<1>1. CASE Advance(p, "repository ready", RepositoryReady, 0, 0, "journal")
  BY <1>1, StageFacts, AdvanceFollows DEF Labels
<1>2. CASE Advance(p, "journal ready", JournalReady, 0, 0, "publication")
  BY <1>2, StageFacts, AdvanceFollows DEF Labels
<1>3. CASE Advance(p, "publication ready", InitialPublicationReady, reference, 0, "root")
  BY <1>3, StageFacts, AdvanceFollows DEF Labels
<1>4. CASE Advance(p, "root ready", InitialRootReady, 0, proc[p].loaded.checkpoint, "handoff")
  <2>1. proc[p].loaded = session
    BY <1>4, Runs DEF Advance, At
  <2> QED
    BY <1>4, <2>1, StageFacts, AdvanceFollows DEF Labels
<1>5. CASE Advance(p, "handoff ready", HandoffReady, 0, 0, "finish")
  BY <1>5, StageFacts, AdvanceFollows DEF Labels
<1> QED
  BY <1>1, <1>2, <1>3, <1>4, <1>5

\* The first and the last phase.
LEMMA EndsFollow ==
  ASSUME IInv, NEW p \in Processes, Create(p) \/ Finish(p)
  PROVE  OneOn
<1>1. /\ ~At(p, "idle") /\ session \in Sessions /\ Valid(session) /\ Follows(saved, session)
      /\ proc[p].loaded = session /\ session = saved
  BY Runs DEF Create, Finish, At, IInv, TypeOK
<1>2. CASE Create(p)
  <2> DEFINE next == [phase |-> Prepared, checkpoint |-> 0, digest |-> 0]
  <2>1. session = NoSession
    BY <1>1, <1>2, Runs DEF Create, At, Reached, Arrived
  <2>2. Follows(session, next)
    BY <2>1, Ranks DEF Follows, NoSession
  <2>3. Writes(p, next, "repository")
    BY <1>2 DEF Create
  <2> HIDE DEF next
  <2>4. saved' \in {saved, next}
    BY <2>3 DEF Writes
  <2> QED
    BY <1>1, <2>2, <2>4, FollowsIsOneOn
<1>3. CASE Finish(p)
  <2>1. CASE UNCHANGED sealed
    BY <2>1 DEF sealed, OneOn
  <2>2. CASE session.phase # Completed /\ Writes(p, NextSession(session, 0, 0), "finish")
    <3> DEFINE next == NextSession(session, 0, 0)
    <3>1. session.phase < Completed
      BY <1>1, <2>2, Ranks DEF Sessions
    <3>2. Follows(session, next)
      BY <1>1, <3>1, NextSessionFollows
    <3>3. Writes(p, next, "finish")
      BY <2>2
    <3> HIDE DEF next
    <3>4. saved' \in {saved, next}
      BY <3>3 DEF Writes
    <3> QED
      BY <1>1, <3>2, <3>4, FollowsIsOneOn
  <2> QED
    BY <1>1, <1>3, <2>1, <2>2 DEF Finish
<1> QED
  BY <1>2, <1>3

\* The durable session goes through its phases one by one and never back, and keeps its
\* checkpoint and its handoff digest: whatever fails after its effect, whoever crashes, and
\* although a resumed process runs every stage again (CompareAndSwap, nextPublisherSession).
THEOREM SessionsAdvance == Spec => SessionOnlyAdvances
<1>1. ASSUME IInv, [Next]_vars PROVE [OneOn]_vars
  <2>1. Follows(saved, session)
    BY <1>1 DEF IInv
  <2>2. CASE saved' \in {saved, session}
    BY <2>1, <2>2, FollowsIsOneOn
  <2>3. ASSUME NEW p \in Processes, Proceed(p) PROVE OneOn
    <3>1. CASE UNCHANGED saved
      BY <3>1 DEF OneOn
    <3> QED
      BY <1>1, <2>3, <3>1, AdvancesFollow, EndsFollow
         DEF Proceed, sealed, RecoverPending, Repository, RecoverPublication, PublishSnapshot, ShareRoot, InstallHandoff, WatchPutsRoot
  <2>4. ASSUME NEW p \in Processes,
               Publish(p) \/ Resume(p) \/ Unauthorized(p) \/ Fail(p) \/ Die(p) \/ WatchPublishes(p)
        PROVE  saved' \in {saved, session}
    BY <2>4 DEF Publish, Resume, Unauthorized, Fail, Die, WatchPublishes, sealed
  <2>5. Crash \/ Expire \/ UNCHANGED vars => saved' \in {saved, session}
    BY DEF Crash, Expire, sealed, vars
  <2> QED
    BY <1>1, <2>2, <2>3, <2>4, <2>5 DEF Next
<1> QED
  BY <1>1, InitInv, StepInv, PTL DEF Spec, SessionOnlyAdvances
=============================================================================
