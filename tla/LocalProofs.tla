---------------------------- MODULE LocalProofs ----------------------------
(***************************************************************************)
(* The promises of the three parts of LocalFiles, for any number of        *)
(* processes, files, failing calls and crashes.                            *)
(*                                                                         *)
(* DurableFile: what a crash may leave lies between what was returned as   *)
(* durable and what is visible, and what is replaced was synced before.    *)
(*                                                                         *)
(* HandoffInstall: the path never changes once it is taken, except in a    *)
(* crash before it is synced, and a crash ends every installation.  So     *)
(* what an installer has found or done behind a barrier is still so when   *)
(* it concludes.                                                           *)
(*                                                                         *)
(* UnsignedCommit: a rejected commit is kept out not by what its sender    *)
(* does but by the chain: its place in the chain is taken, and the chain   *)
(* only grows.  So the invariant says of a rejected commit that the chain  *)
(* is at least as long, and Growth and OlderReference say what growing     *)
(* preserves.                                                              *)
(***************************************************************************)
EXTENDS LocalFiles, TLAPS


-----------------------------------------------------------------------------
(* DurableFile *)

Operations ==
  [pc : {"idle"}]
    \union [pc : {"loaded", "installed"}, revision : Nat]
    \union [pc : {"barrier", "compare", "install"}, next : Watermarks]

FileTypeOK ==
  /\ kind \in {"sealed", "journal", "watermark"}
  /\ visible \in Nat /\ pending \in SUBSET Nat /\ content \in Seq(Watermarks)
  /\ lock \in Processes \union {Nobody}
  /\ proc \in [Processes -> Operations]
  /\ known \in [Processes -> Nat]
  /\ acked \in Nat /\ faults \in Nat /\ deaths \in Nat

\* The lock is held during an operation.
Exclusive == \A p \in Processes : proc[p].pc # "idle" => lock = p

\* What a crash may leave lies between what was returned and what is visible.
Between ==
  /\ visible \in pending /\ visible <= Len(content)
  /\ \A i \in pending : acked <= i /\ i <= visible

\* An operation that is about to return a revision returns the visible one.
ReturnsVisible == \A p \in Processes : proc[p].pc \in {"loaded", "installed"} => proc[p].revision = visible

\* The users of the journal know only revisions that were returned as durable.
KnownWasReturned == kind = "journal" => \A p \in Processes : known[p] <= acked

\* What the sealed store compares, and what it and the journal replace, is durable.
BaseReady ==
  \A p \in Processes :
    (proc[p].pc = "compare" /\ kind = "sealed") \/ (proc[p].pc = "install" /\ kind # "watermark")
      => pending = {visible}

FileInv == FileTypeOK /\ Exclusive /\ Between /\ ReturnsVisible /\ KnownWasReturned /\ BaseReady

-----------------------------------------------------------------------------

\* A new store satisfies the invariant.
LEMMA FileInit == Init => FileInv
BY DurableFileAssumption
DEF Init, FileInv, FileTypeOK, Exclusive, Between, ReturnsVisible, KnownWasReturned, BaseReady, Operations, Idle

\* While one process holds the lock, all others are idle.
LEMMA OthersIdle ==
  ASSUME FileInv, NEW p \in Processes, lock = p
  PROVE  \A q \in Processes \ {p} : proc[q].pc = "idle"
BY DEF FileInv, Exclusive

\* While nobody holds the lock, all are idle.
LEMMA AllIdle ==
  ASSUME FileInv, lock = Nobody
  PROVE  \A q \in Processes : proc[q].pc = "idle"
BY DurableFileAssumption DEF FileInv, Exclusive

-----------------------------------------------------------------------------

\* Every step keeps the invariant.
LEMMA FileStep == FileInv /\ [Next]_vars => FileInv'
<1> SUFFICES ASSUME FileInv, [Next]_vars PROVE FileInv'
  OBVIOUS
<1> USE DurableFileAssumption
<1>1. ASSUME NEW p \in Processes, Load(p) PROVE FileInv'
  <2>1. \A q \in Processes : proc[q].pc = "idle"
    BY <1>1, AllIdle DEF Load
  <2>2. FileTypeOK'
    <3>1. proc' \in [Processes -> Operations]
      <4>1. visible # 0 => [pc |-> "loaded", revision |-> visible] \in Operations
        BY DEF FileInv, FileTypeOK, Operations
      <4>2. QED
        BY <1>1, <4>1 DEF Load, FileInv, FileTypeOK
    <3>2. QED
      BY <1>1, <3>1 DEF Load, FileInv, FileTypeOK
  <2>3. Exclusive' /\ ReturnsVisible'
    <3>1. CASE visible = 0
      BY <1>1, <2>1, <3>1 DEF Load, Exclusive, ReturnsVisible
    <3>2. CASE visible # 0
      <4>1. proc'[p] = [pc |-> "loaded", revision |-> visible] /\ lock' = p /\ visible' = visible
        BY <1>1, <3>2 DEF Load, FileInv, FileTypeOK
      <4>2. \A q \in Processes : q # p => proc'[q].pc = "idle"
        BY <1>1, <2>1, <3>2 DEF Load, FileInv, FileTypeOK
      <4>3. QED
        BY <4>1, <4>2 DEF Exclusive, ReturnsVisible
    <3>3. QED
      BY <3>1, <3>2
  <2>4. Between' /\ KnownWasReturned' /\ BaseReady'
    BY <1>1, <2>1 DEF Load, FileInv, FileTypeOK, Between, KnownWasReturned, BaseReady
  <2>5. QED
    BY <2>2, <2>3, <2>4 DEF FileInv
<1>2. ASSUME NEW p \in Processes, Fails(p, known[p]) \/ Fails(p, Candidate(p, proc[p].revision)),
             proc[p].pc \in {"loaded", "installed", "barrier", "install"},
             proc[p].pc # "installed" => Fails(p, known[p])
      PROVE  FileInv'
  <2>1. lock = p /\ \A q \in Processes \ {p} : proc[q].pc = "idle"
    BY <1>2, OthersIdle DEF FileInv, Exclusive
  <2>2. PICK r \in Nat : Fails(p, r) /\ (kind = "journal" => r = known[p])
    BY <1>2 DEF Candidate, FileInv, FileTypeOK, Operations
  <2>3. FileTypeOK'
    BY <2>2 DEF Fails, Fault, Return, Idle, FileInv, FileTypeOK, Operations
  <2>4. \A q \in Processes : proc'[q].pc = "idle"
    BY <2>1, <2>2 DEF Fails, Return, Idle, FileInv, FileTypeOK
  <2>5. Exclusive' /\ ReturnsVisible' /\ BaseReady'
    BY <2>4 DEF Exclusive, ReturnsVisible, BaseReady
  <2>6. Between' /\ KnownWasReturned'
    BY <2>2 DEF Fails, Return, FileInv, FileTypeOK, Between, KnownWasReturned
  <2>7. QED
    BY <2>3, <2>5, <2>6 DEF FileInv
<1>3. ASSUME NEW p \in Processes, SyncParent, Acknowledge(p, proc[p].revision),
             proc[p].pc \in {"loaded", "installed"}
      PROVE  FileInv'
  <2>1. lock = p /\ (\A q \in Processes \ {p} : proc[q].pc = "idle") /\ proc[p].revision = visible
    BY <1>3, OthersIdle DEF FileInv, Exclusive, ReturnsVisible
  <2>2. FileTypeOK'
    BY <1>3, <2>1 DEF SyncParent, Acknowledge, Return, Idle, FileInv, FileTypeOK, Operations
  <2>3. \A q \in Processes : proc'[q].pc = "idle"
    BY <1>3, <2>1 DEF Acknowledge, Return, Idle, FileInv, FileTypeOK
  <2>4. Exclusive' /\ ReturnsVisible' /\ BaseReady'
    BY <2>3 DEF Exclusive, ReturnsVisible, BaseReady
  <2>5. Between' /\ KnownWasReturned'
    BY <1>3, <2>1 DEF SyncParent, Acknowledge, Return, FileInv, FileTypeOK, Between, KnownWasReturned
  <2>6. QED
    BY <2>2, <2>4, <2>5 DEF FileInv
<1>4. ASSUME NEW p \in Processes, CompareAndSwap(p) PROVE FileInv'
  <2>1. lock = Nobody /\ lock' = p /\ \A q \in Processes : proc[q].pc = "idle"
    BY <1>4, AllIdle DEF CompareAndSwap, Locked
  <2>2. PICK next \in Watermarks :
          proc' = [proc EXCEPT ![p] =
            [pc |-> IF kind = "sealed" /\ visible # 0 THEN "barrier" ELSE "compare", next |-> next]]
    BY Zenon, <1>4 DEF CompareAndSwap
  <2>3. FileTypeOK'
    BY <1>4, <2>1, <2>2 DEF CompareAndSwap, FileInv, FileTypeOK, Operations
  <2>4. \A q \in Processes : q # p => proc'[q].pc = "idle"
    BY <2>1, <2>2 DEF FileInv, FileTypeOK
  <2>5. proc'[p].pc = (IF kind = "sealed" /\ visible # 0 THEN "barrier" ELSE "compare")
    BY <2>2 DEF FileInv, FileTypeOK
  <2>6. Exclusive' /\ ReturnsVisible'
    BY <2>1, <2>4, <2>5 DEF Exclusive, ReturnsVisible
  <2>7. Between' /\ KnownWasReturned'
    BY <1>4 DEF CompareAndSwap, FileInv, Between, KnownWasReturned
  <2>8. visible = 0 => pending = {visible}
    <3> SUFFICES ASSUME visible = 0 PROVE \A i \in pending : i = visible
      BY Zenon DEF FileInv, Between
    <3>1. QED
      BY DEF FileInv, FileTypeOK, Between
  <2>9. BaseReady'
    BY <1>4, <2>4, <2>5, <2>8 DEF CompareAndSwap, BaseReady
  <2>10. QED
    BY <2>3, <2>6, <2>7, <2>9 DEF FileInv
<1>5. ASSUME NEW p \in Processes, proc[p].pc = "barrier", BaseBarrier,
             proc' = [proc EXCEPT ![p].pc = "compare"],
             UNCHANGED <<kind, visible, content, lock, known, acked, faults, deaths>>
      PROVE  FileInv'
  <2>1. lock = p /\ \A q \in Processes \ {p} : proc[q].pc = "idle"
    BY <1>5, OthersIdle DEF FileInv, Exclusive
  <2>2. proc'[p].pc = "compare" /\ \A q \in Processes : q # p => proc'[q].pc = "idle"
    BY <1>5, <2>1 DEF FileInv, FileTypeOK, Operations
  <2>3. FileTypeOK'
    BY Zenon, <1>5 DEF BaseBarrier, SyncParent, FileInv, FileTypeOK, Operations
  <2>4. Exclusive' /\ ReturnsVisible'
    BY <1>5, <2>1, <2>2 DEF Exclusive, ReturnsVisible
  <2>5. Between' /\ KnownWasReturned' /\ BaseReady'
    BY <1>5 DEF BaseBarrier, SyncParent, FileInv, FileTypeOK, Between, KnownWasReturned, BaseReady
  <2>6. QED
    BY <2>3, <2>4, <2>5 DEF FileInv
<1>6. ASSUME NEW p \in Processes, Compare(p) PROVE FileInv'
  <2>1. lock = p /\ \A q \in Processes \ {p} : proc[q].pc = "idle"
    BY <1>6, OthersIdle DEF Compare, FileInv, Exclusive
  <2>2. UNCHANGED <<kind, visible, pending, content, acked, faults, deaths>> /\ proc[p].pc = "compare"
    BY <1>6 DEF Compare
  <2>3. CASE Return(p, known[p])
    <3>1. FileTypeOK'
      BY <2>2, <2>3 DEF Return, Idle, FileInv, FileTypeOK, Operations
    <3>2. \A q \in Processes : proc'[q].pc = "idle"
      BY <2>1, <2>3 DEF Return, Idle, FileInv, FileTypeOK
    <3>3. Exclusive' /\ ReturnsVisible' /\ BaseReady'
      BY <3>2 DEF Exclusive, ReturnsVisible, BaseReady
    <3>4. Between' /\ KnownWasReturned'
      BY <2>2, <2>3 DEF Return, FileInv, FileTypeOK, Between, KnownWasReturned
    <3>5. QED
      BY <3>1, <3>3, <3>4 DEF FileInv
  <2>4. CASE /\ proc' = [proc EXCEPT ![p] = [pc |-> "installed", revision |-> visible]]
             /\ UNCHANGED <<lock, known>>
    <3>1. FileTypeOK'
      BY <2>2, <2>4 DEF FileInv, FileTypeOK, Operations
    <3>2. proc'[p].pc = "installed" /\ proc'[p].revision = visible
          /\ \A q \in Processes : q # p => proc'[q].pc = "idle"
      BY <2>1, <2>4 DEF FileInv, FileTypeOK
    <3>3. Exclusive' /\ ReturnsVisible' /\ BaseReady'
      BY <2>1, <2>2, <2>4, <3>2 DEF Exclusive, ReturnsVisible, BaseReady
    <3>4. Between' /\ KnownWasReturned'
      BY <2>2, <2>4 DEF FileInv, Between, KnownWasReturned
    <3>5. QED
      BY <3>1, <3>3, <3>4 DEF FileInv
  <2>5. CASE /\ AsExpected(p)
             /\ proc' = [proc EXCEPT ![p] = [pc |-> "install", next |-> proc[p].next]]
             /\ UNCHANGED <<lock, known>>
    <3>1. FileTypeOK'
      BY <2>2, <2>5 DEF FileInv, FileTypeOK, Operations
    <3>2. proc'[p].pc = "install" /\ \A q \in Processes : q # p => proc'[q].pc = "idle"
      BY <2>1, <2>5 DEF FileInv, FileTypeOK
    <3>3. Exclusive' /\ ReturnsVisible'
      BY <2>1, <2>5, <3>2 DEF Exclusive, ReturnsVisible
    <3>4. Between' /\ KnownWasReturned'
      BY <2>2, <2>5 DEF FileInv, Between, KnownWasReturned
    <3>5. kind = "journal" => pending = {visible}
      BY <2>5 DEF AsExpected, FileInv, FileTypeOK, Between, KnownWasReturned
    <3>6. kind = "sealed" => pending = {visible}
      BY <2>2 DEF FileInv, BaseReady
    <3>7. BaseReady'
      BY <2>2, <3>2, <3>5, <3>6 DEF BaseReady, FileInv, FileTypeOK
    <3>8. QED
      BY <3>1, <3>3, <3>4, <3>7 DEF FileInv
  <2>6. QED
    BY <1>6, <2>3, <2>4, <2>5 DEF Compare
<1>7. ASSUME NEW p \in Processes, Install(p) PROVE FileInv'
  <2> DEFINE new == Len(content) + 1
  <2>1. lock = p /\ proc[p].pc = "install" /\ \A q \in Processes \ {p} : proc[q].pc = "idle"
    BY <1>7, OthersIdle DEF Install, FileInv, Exclusive
  <2>2. proc[p].next \in Watermarks /\ new \in Nat /\ visible < new
    BY <2>1 DEF FileInv, FileTypeOK, Operations, Between
  <2>3. CASE Fails(p, known[p])
    BY <1>2, <2>1, <2>3
  <2>4. ASSUME content' = Append(content, proc[p].next),
               (visible' = new /\ pending' = pending \union {new}) \/ UNCHANGED <<visible, pending>>,
               kind' = kind, acked' = acked
        PROVE  /\ Between' /\ content' \in Seq(Watermarks)
               /\ visible' \in Nat /\ pending' \in SUBSET Nat
    <3>1. content' \in Seq(Watermarks) /\ Len(content') = new
      BY <2>2, <2>4 DEF FileInv, FileTypeOK
    <3>2. visible' \in Nat /\ pending' \in SUBSET Nat
      BY Zenon, <2>2, <2>4 DEF FileInv, FileTypeOK
    <3>3. visible' \in pending' /\ visible' <= new
      BY <2>2, <2>4 DEF FileInv, FileTypeOK, Between
    <3>4. \A i \in pending' : acked' <= i /\ i <= visible'
      <4>1. acked \in Nat /\ visible \in Nat /\ pending \in SUBSET Nat /\ acked <= visible
        BY DEF FileInv, FileTypeOK, Between
      <4>2. \A i \in pending : acked <= i /\ i <= visible
        BY DEF FileInv, Between
      <4>3. CASE UNCHANGED <<visible, pending>>
        BY <2>4, <4>2, <4>3
      <4>4. CASE visible' = new /\ pending' = pending \union {new}
        <5>1. \A i \in pending : i \in Nat /\ acked <= i /\ i <= new
          BY <2>2, <4>1, <4>2
        <5>2. acked <= new /\ new <= new
          BY <2>2, <4>1
        <5> HIDE DEF new
        <5>3. QED
          BY <2>4, <4>4, <5>1, <5>2
      <4>5. QED
        BY <2>4, <4>3, <4>4
    <3>5. QED
      BY <3>1, <3>2, <3>3, <3>4 DEF Between
  <2>5. CASE /\ visible' = new /\ pending' = pending \union {new}
             /\ content' = Append(content, proc[p].next)
             /\ proc' = [proc EXCEPT ![p] = [pc |-> "installed", revision |-> new]]
             /\ UNCHANGED <<kind, lock, known, acked, faults, deaths>>
    <3>1. FileTypeOK' /\ Between'
      BY <2>2, <2>4, <2>5 DEF FileInv, FileTypeOK, Operations
    <3>2. proc'[p].pc = "installed" /\ proc'[p].revision = new
          /\ \A q \in Processes : q # p => proc'[q].pc = "idle"
      BY <2>1, <2>5 DEF FileInv, FileTypeOK
    <3>3. Exclusive' /\ ReturnsVisible' /\ BaseReady'
      BY <2>1, <2>5, <3>2 DEF Exclusive, ReturnsVisible, BaseReady
    <3>4. KnownWasReturned'
      BY <2>5 DEF FileInv, KnownWasReturned
    <3>5. QED
      BY <3>1, <3>3, <3>4 DEF FileInv
  <2>6. CASE /\ (visible' = new /\ pending' = pending \union {new}) \/ UNCHANGED <<visible, pending>>
             /\ content' = Append(content, proc[p].next)
             /\ Fault /\ Return(p, Candidate(p, new))
             /\ UNCHANGED <<kind, acked, deaths>>
    <3>1. Candidate(p, new) \in Nat
      BY <2>2 DEF Candidate, FileInv, FileTypeOK
    <3>2. FileTypeOK' /\ Between'
      BY <2>2, <2>4, <2>6, <3>1 DEF Fault, Return, Idle, FileInv, FileTypeOK, Operations
    <3>3. \A q \in Processes : proc'[q].pc = "idle"
      BY <2>1, <2>6 DEF Return, Idle, FileInv, FileTypeOK
    <3>4. Exclusive' /\ ReturnsVisible' /\ BaseReady'
      BY <3>3 DEF Exclusive, ReturnsVisible, BaseReady
    <3>5. KnownWasReturned'
      BY <2>6 DEF Return, Candidate, FileInv, FileTypeOK, KnownWasReturned
    <3>6. QED
      BY <3>2, <3>4, <3>5 DEF FileInv
  <2>7. QED
    BY <1>7, <2>3, <2>5, <2>6 DEF Install
<1>8. ASSUME NEW p \in Processes, Die(p) PROVE FileInv'
  <2>1. FileTypeOK'
    BY <1>8 DEF Die, Idle, FileInv, FileTypeOK, Operations
  <2>2. proc'[p].pc = "idle" /\ \A q \in Processes : q # p => proc'[q] = proc[q]
    BY <1>8 DEF Die, Idle, FileInv, FileTypeOK
  <2>3. Exclusive' /\ ReturnsVisible' /\ BaseReady'
    BY <1>8, <2>2 DEF Die, FileInv, Exclusive, ReturnsVisible, BaseReady
  <2>4. Between' /\ KnownWasReturned'
    BY <1>8 DEF Die, FileInv, FileTypeOK, Between, KnownWasReturned
  <2>5. QED
    BY <2>1, <2>3, <2>4 DEF FileInv
<1>9. CASE Crash
  <2>1. FileTypeOK' /\ \A p \in Processes : proc'[p].pc = "idle"
    BY <1>9 DEF Crash, Idle, FileInv, FileTypeOK, Operations
  <2>2. Exclusive' /\ ReturnsVisible' /\ BaseReady'
    BY <2>1 DEF Exclusive, ReturnsVisible, BaseReady
  <2>3. Between' /\ KnownWasReturned'
    BY <1>9 DEF Crash, FileInv, FileTypeOK, Between, KnownWasReturned
  <2>4. QED
    BY <2>1, <2>2, <2>3 DEF FileInv
<1>10. CASE UNCHANGED vars
  BY <1>10 DEF vars, FileInv, FileTypeOK, Exclusive, Between, ReturnsVisible, KnownWasReturned, BaseReady
<1>11. ASSUME NEW p \in Processes, LoadReturns(p) \/ Barrier(p) \/ Installed(p) PROVE FileInv'
  BY <1>2, <1>3, <1>5, <1>11 DEF LoadReturns, Barrier, Installed
<1>12. QED
  BY <1>1, <1>4, <1>6, <1>7, <1>8, <1>9, <1>10, <1>11 DEF Next, Step

\* The invariant holds throughout.
THEOREM DurableInvariance == Spec => []FileInv
<1>1. QED
  BY FileInit, FileStep, PTL DEF Spec

\* What Load or CompareAndSwap returned as durable survives every crash, for any number of
\* processes, faults and crashes.
THEOREM AcknowledgedIsDurable == Spec => []AcknowledgedSurvives
<1>1. FileInv => AcknowledgedSurvives
  BY DEF FileInv, Between, AcknowledgedSurvives, FileTypeOK
<1>2. QED
  BY <1>1, DurableInvariance, PTL

\* Journal and sealed state are replaced only when the replaced revision is durable.
THEOREM BasesAreDurable == Spec => BaseIsDurable
<1>1. FileInv /\ [Next]_vars =>
        [Len(content') > Len(content) /\ kind # "watermark" => pending = {visible}]_vars
  <2> SUFFICES ASSUME FileInv, Next, Len(content') > Len(content), kind # "watermark"
               PROVE  pending = {visible}
    BY DEF vars
  <2>1. content' # content
    BY DEF FileInv, FileTypeOK
  <2>2. PICK p \in Processes : Install(p)
    BY <2>1 DEF Next, Crash, Step, Load, LoadReturns, CompareAndSwap, Barrier, Compare, Installed, Die,
                Fails, Acknowledge
  <2>3. QED
    BY <2>2 DEF Install, FileInv, BaseReady
<1>2. QED
  BY <1>1, DurableInvariance, PTL DEF Spec, BaseIsDurable

-----------------------------------------------------------------------------
(* HandoffInstall *)

Busy ==
  [pc : {"write", "sync", "link", "clean", "settle", "conclude", "unconfirmed", "aliases", "barrier", "verify"},
   file : Nat, clean : BOOLEAN, error : BOOLEAN]

HandoffTypeOK ==
  /\ H!Made \subseteq Nat \ {0} /\ handoffs \in [H!Made -> Installers \cup {H!Partial}]
  /\ dest \in H!Made \cup {0} /\ savedDest \in H!Made \cup {0}
  /\ staged \subseteq H!Made /\ savedStaged \subseteq H!Made /\ synced \subseteq H!Made
  /\ installer \in [Installers -> {H!Idle} \cup Busy]
  /\ confirmed \subseteq Installers

\* The file that p has staged, 0 if none.
Own(p) == IF H!At(p, "idle") THEN 0 ELSE installer[p].file

\* The path and the directory on disk hold the one link to p's handoff.
Sealed(p) ==
  /\ dest # 0 /\ handoffs[dest] = p /\ savedDest = dest
  /\ dest \notin staged \cup savedStaged

\* Up to the link the file is p's alone, and then it is whole.
Staging(p) ==
  /\ installer[p].pc \in {"write", "sync", "link", "clean", "settle", "conclude"} => Own(p) # 0
  /\ installer[p].pc \in {"write", "sync", "link"} => Own(p) \notin {dest, savedDest}
  /\ installer[p].pc \in {"write", "sync", "link", "clean"} => ~installer[p].clean
  /\ installer[p].pc \in {"sync", "link"} => handoffs[Own(p)] = p
  /\ H!At(p, "link") => Own(p) \in synced

\* What p knows once the link was tried.
Settled(p) ==
  /\ H!At(p, "settle") /\ installer[p].clean => Own(p) \notin staged
  /\ H!At(p, "conclude") => Own(p) \notin staged \cup savedStaged /\ (dest = Own(p) => savedDest = dest)

\* What p knows of a file that it has found at the path.
Found(p) ==
  /\ installer[p].pc \in {"aliases", "barrier", "verify"} => dest # 0 /\ dest # Own(p)
  /\ H!At(p, "barrier") /\ installer[p].clean => dest \notin staged
  /\ H!At(p, "verify") /\ Own(p) = 0 => dest \notin staged \cup savedStaged /\ savedDest = dest

\* An installer that has staged a file finds its own handoff at the path only in that file.
NoOlder(p) == Own(p) # 0 /\ dest # 0 /\ handoffs[dest] = p => dest = Own(p)

Knows(p) == Own(p) \in H!Made \cup {0} /\ Staging(p) /\ Settled(p) /\ Found(p) /\ NoOlder(p)

HandoffInv ==
  /\ HandoffTypeOK
  /\ \A p \in Installers : Knows(p)
  /\ \A p, q \in Installers : p # q /\ Own(p) # 0 => Own(p) # Own(q)
  /\ H!HandoffIsWhole
  /\ \A p \in confirmed : Sealed(p)

-----------------------------------------------------------------------------
(* Steps of one installer *)

\* What a step of q may do to what others rely on: it makes new files, writes its own while that
\* is not at the path, links it to a free path, removes staging names, and syncs the directory.
Gentle(q) ==
  /\ H!Made \subseteq H!Made'
  /\ \A n \in H!Made : n # Own(q) => handoffs'[n] = handoffs[n]
  /\ dest # 0 => handoffs'[dest] = handoffs[dest]
  /\ savedDest # 0 => handoffs'[savedDest] = handoffs[savedDest]
  /\ synced \subseteq synced'
  /\ staged' \cap H!Made \subseteq staged
  /\ \/ dest' = dest
     \/ dest = 0 /\ dest' = Own(q) /\ dest' # 0 /\ handoffs'[dest'] = q /\ dest' \in synced
  /\ \/ savedDest' = savedDest /\ savedStaged' = savedStaged
     \/ savedDest' = dest /\ savedStaged' = staged /\ dest' = dest

\* A step of q keeps what another installer knows.
LEMMA OthersKnow ==
  ASSUME HandoffInv, NEW q \in Installers, NEW p \in Installers, p # q, installer'[p] = installer[p], Gentle(q)
  PROVE  Knows(p)'
<1>1. /\ Own(p)' = Own(p) /\ (H!At(p, "idle") <=> H!At(p, "idle")')
      /\ Own(p) \in H!Made \cup {0} /\ dest \in H!Made \cup {0} /\ savedDest \in H!Made \cup {0}
      /\ 0 \notin H!Made /\ (Own(p) # 0 => Own(p) # Own(q)) /\ savedStaged \subseteq H!Made /\ staged \subseteq H!Made
  BY DEF HandoffInv, HandoffTypeOK, Knows, Own, H!At
<1>2. Own(p)' \in H!Made' \cup {0}
  BY <1>1 DEF Gentle
<1>3. Staging(p)'
  <2>1. Own(p) # 0 => handoffs'[Own(p)] = handoffs[Own(p)]
    BY <1>1 DEF Gentle
  <2>2. Own(p) # 0 /\ Own(p) \notin {dest, savedDest} => Own(p) \notin {dest', savedDest'}
    BY <1>1 DEF Gentle
  <2>3. Staging(p) /\ synced \subseteq synced'
    BY DEF HandoffInv, Knows, Gentle
  <2> QED
    BY <1>1, <2>1, <2>2, <2>3 DEF Staging, H!At
<1>4. Settled(p)'
  <2>1. Own(p) # 0 /\ Own(p) \notin staged => Own(p) \notin staged'
    BY <1>1 DEF Gentle
  <2>2. Own(p) \notin staged \cup savedStaged => Own(p) \notin savedStaged'
    BY DEF Gentle
  <2>3. Own(p) # 0 /\ (dest = Own(p) => savedDest = dest) => (dest' = Own(p) => savedDest' = dest')
    BY <1>1 DEF Gentle
  <2>4. Settled(p) /\ Staging(p)
    BY DEF HandoffInv, Knows
  <2>5. H!At(p, "settle") /\ installer[p].clean => Own(p) \notin staged /\ Own(p) # 0
    BY <2>4 DEF Settled, Staging, H!At
  <2>6. H!At(p, "conclude") => Own(p) \notin staged \cup savedStaged /\ (dest = Own(p) => savedDest = dest) /\ Own(p) # 0
    BY <2>4 DEF Settled, Staging, H!At
  <2> QED
    BY <1>1, <2>1, <2>2, <2>3, <2>5, <2>6 DEF Settled, H!At
<1>5. Found(p)'
  <2>1. Found(p)
    BY DEF HandoffInv, Knows
  <2>2. dest # 0 => dest' = dest /\ (dest \notin staged => dest \notin staged')
    BY <1>1 DEF Gentle
  <2>3. dest # 0 /\ dest \notin staged \cup savedStaged /\ savedDest = dest
          => dest' \notin staged' \cup savedStaged' /\ savedDest' = dest'
    BY <1>1 DEF Gentle
  <2>4. H!At(p, "verify") => dest # 0
    BY <2>1 DEF Found, H!At
  <2>5. H!At(p, "barrier") => dest # 0
    BY <2>1 DEF Found, H!At
  <2> QED
    BY <1>1, <2>1, <2>2, <2>3, <2>4, <2>5 DEF Found, H!At
<1>6. NoOlder(p)'
  <2>1. NoOlder(p)
    BY DEF HandoffInv, Knows
  <2> QED
    BY <1>1, <2>1 DEF NoOlder, Gentle
<1> QED
  BY <1>2, <1>3, <1>4, <1>5, <1>6 DEF Knows

\* A step of q that leaves others alone, keeps what it knows itself and confirms only what is sealed.
LEMMA InstallerStep ==
  ASSUME HandoffInv, NEW q \in Installers, NEW m \in {H!Idle} \cup Busy, installer' = [installer EXCEPT ![q] = m],
         Gentle(q), HandoffTypeOK', Knows(q)', Own(q)' \in {0, Own(q)} \/ Own(q)' \notin H!Made,
         confirmed' = confirmed \/ (confirmed' = confirmed \cup {q} /\ Sealed(q)')
  PROVE  HandoffInv'
<1>1. installer'[q] = m /\ \A p \in Installers : p # q => installer'[p] = installer[p] /\ Own(p)' = Own(p)
  BY DEF HandoffInv, HandoffTypeOK, Own, H!At
<1>2. \A p \in Installers : Knows(p)'
  BY <1>1, OthersKnow
<1>3. \A p, r \in Installers : p # r /\ Own(p)' # 0 => Own(p)' # Own(r)'
  <2>1. \A p \in Installers : Own(p) \in H!Made \cup {0}
    BY DEF HandoffInv, Knows
  <2>2. \A p, r \in Installers : p # r /\ Own(p) # 0 => Own(p) # Own(r)
    BY DEF HandoffInv
  <2> QED
    BY <1>1, <2>1, <2>2
<1>4. H!HandoffIsWhole'
  <2>1. H!HandoffIsWhole /\ dest \in H!Made \cup {0} /\ savedDest \in H!Made \cup {0}
    BY DEF HandoffInv, HandoffTypeOK
  <2>2. dest' # 0 => handoffs'[dest'] \in Installers /\ dest' \in synced'
    BY <2>1 DEF Gentle, H!HandoffIsWhole
  <2>3. savedDest' # 0 => handoffs'[savedDest'] \in Installers /\ savedDest' \in synced'
    BY <2>1 DEF Gentle, H!HandoffIsWhole
  <2> QED
    BY <2>2, <2>3 DEF H!HandoffIsWhole
<1>5. \A p \in confirmed' : Sealed(p)'
  <2> SUFFICES ASSUME NEW p \in confirmed PROVE Sealed(p)'
    OBVIOUS
  <2>1. Sealed(p) /\ dest \in H!Made \cup {0}
    BY DEF HandoffInv, HandoffTypeOK
  <2>2. dest' = dest /\ dest \notin staged' /\ handoffs'[dest] = p
    BY <2>1 DEF Sealed, Gentle
  <2>3. savedDest' = dest /\ dest \notin savedStaged'
    BY <2>1 DEF Sealed, Gentle
  <2> QED
    BY <2>1, <2>2, <2>3 DEF Sealed
<1> QED
  BY <1>2, <1>3, <1>4, <1>5 DEF HandoffInv

\* A call that ends before or without success.
LEMMA ReturnKeeps ==
  ASSUME HandoffInv, NEW q \in Installers, H!Returns(q), staged' \subseteq staged,
         UNCHANGED <<dest, H!savedDirectory, H!files, confirmed>>
  PROVE  HandoffInv'
<1>1. installer'[q] = H!Idle /\ Own(q)' = 0 /\ installer' = [installer EXCEPT ![q] = H!Idle]
  BY DEF H!Returns, HandoffInv, HandoffTypeOK, Own, H!At, H!Idle
<1>2. HandoffTypeOK'
  BY <1>1 DEF HandoffInv, HandoffTypeOK, H!Made, H!savedDirectory, H!files
<1>3. Gentle(q)
  BY DEF Gentle, H!Made, H!savedDirectory, H!files
<1>4. Knows(q)'
  BY <1>1 DEF Knows, Staging, Settled, Found, NoOlder, H!At, H!Idle
<1> QED
  BY Zenon, <1>1, <1>2, <1>3, <1>4, InstallerStep

\* The parts of a busy installer after a step that moves it to a label.
LEMMA GoesTo ==
  ASSUME HandoffInv, NEW q \in Installers, ~H!At(q, "idle"), NEW pc, H!Goes(q, pc)
  PROVE  /\ installer[q] \in Busy
         /\ installer' = [installer EXCEPT ![q] = [installer[q] EXCEPT !.pc = pc]]
         /\ installer'[q].pc = pc /\ installer'[q].file = installer[q].file /\ installer'[q].clean = installer[q].clean
         /\ installer'[q].error = installer[q].error
         /\ pc # "idle" => Own(q)' = Own(q)
<1>1. installer[q] \in Busy /\ installer \in [Installers -> {H!Idle} \cup Busy]
  BY DEF HandoffInv, HandoffTypeOK, H!At, H!Idle
<1>2. installer' = [installer EXCEPT ![q] = [installer[q] EXCEPT !.pc = pc]]
  BY <1>1 DEF H!Goes, Busy
<1>3. installer'[q] = [installer[q] EXCEPT !.pc = pc]
  BY <1>1, <1>2
<1>4. /\ installer'[q].pc = pc /\ installer'[q].file = installer[q].file /\ installer'[q].clean = installer[q].clean
      /\ installer'[q].error = installer[q].error
  BY <1>1, <1>3 DEF Busy
<1> QED
  BY <1>1, <1>2, <1>4 DEF Own, H!At

-----------------------------------------------------------------------------
(* One lemma per action *)

\* Types of what an installer holds.
LEMMA InstallerFacts ==
  ASSUME HandoffInv, NEW q \in Installers
  PROVE  /\ installer \in [Installers -> {H!Idle} \cup Busy] /\ (~H!At(q, "idle") => installer[q] \in Busy)
         /\ H!Made \subseteq Nat \ {0} /\ handoffs \in [H!Made -> Installers \cup {H!Partial}] /\ 0 \notin H!Made
         /\ dest \in H!Made \cup {0} /\ savedDest \in H!Made \cup {0}
         /\ staged \subseteq H!Made /\ savedStaged \subseteq H!Made /\ synced \subseteq H!Made
         /\ confirmed \subseteq Installers
         /\ Knows(q) /\ H!HandoffIsWhole /\ (~H!At(q, "idle") => Own(q) = installer[q].file)
  BY DEF HandoffInv, HandoffTypeOK, H!At, H!Idle, Own

\* The installation starts.
LEMMA BeginKeeps ==
  ASSUME MaxFiles \in Nat, HandoffInv, NEW q \in Installers, H!Begin(q)
  PROVE  HandoffInv'
<1>1. UNCHANGED <<dest, savedDest, savedStaged, synced, confirmed>> /\ H!At(q, "idle")
  BY DEF H!Begin, H!savedDirectory
<1>2. CASE /\ dest # 0 /\ UNCHANGED <<staged, handoffs>>
           /\ installer' = [installer EXCEPT ![q] = [pc |-> "aliases", file |-> 0, clean |-> TRUE, error |-> FALSE]]
  <2> DEFINE m == [pc |-> "aliases", file |-> 0, clean |-> TRUE, error |-> FALSE]
  <2>1. m \in Busy /\ installer'[q] = m
    BY <1>2, InstallerFacts DEF Busy
  <2>2. Own(q)' = 0 /\ installer'[q].pc = "aliases" /\ installer'[q].clean
    BY <2>1 DEF Own, H!At
  <2>3. HandoffTypeOK'
    BY <1>1, <1>2, <2>1, InstallerFacts DEF HandoffTypeOK, H!Made
  <2>4. Gentle(q)
    BY <1>1, <1>2 DEF Gentle, H!Made
  <2>5. Knows(q)'
    BY <1>1, <1>2, <2>2 DEF Knows, Staging, Settled, Found, NoOlder, H!At
  <2> QED
    BY Zenon, <1>1, <1>2, <2>1, <2>2, <2>3, <2>4, <2>5, InstallerStep
<1>3. ASSUME dest = 0, NEW new \in (1..MaxFiles) \ H!Made,
             handoffs' = [n \in H!Made \cup {new} |-> IF n = new THEN H!Partial ELSE handoffs[n]],
             staged' = staged \cup {new},
             installer' = [installer EXCEPT ![q] = [pc |-> "write", file |-> new, clean |-> FALSE, error |-> FALSE]]
      PROVE  HandoffInv'
  <2> DEFINE m == [pc |-> "write", file |-> new, clean |-> FALSE, error |-> FALSE]
  <2>1. new \in Nat \ {0} /\ new \notin H!Made
    BY <1>3
  <2>2. m \in Busy /\ installer'[q] = m
    BY <1>3, <2>1, InstallerFacts DEF Busy
  <2>3. Own(q)' = new /\ installer'[q].pc = "write" /\ ~installer'[q].clean
    BY <2>2 DEF Own, H!At
  <2>4. H!Made' = H!Made \cup {new}
    BY <1>3 DEF H!Made
  <2>5. HandoffTypeOK'
    <3>1. handoffs' \in [H!Made' -> Installers \cup {H!Partial}]
      BY <1>3, <2>4, InstallerFacts
    <3>2. installer' \in [Installers -> {H!Idle} \cup Busy]
      BY <1>3, <2>2, InstallerFacts
    <3> QED
      BY <1>1, <1>3, <2>1, <2>4, <3>1, <3>2, InstallerFacts DEF HandoffTypeOK
  <2>6. Gentle(q)
    <3>1. \A n \in H!Made : handoffs'[n] = handoffs[n]
      BY <1>3, <2>1
    <3> QED
      BY <1>1, <1>3, <2>1, <2>4, <3>1, InstallerFacts DEF Gentle
  <2>7. Knows(q)'
    BY <1>1, <1>3, <2>1, <2>3, <2>4, InstallerFacts DEF Knows, Staging, Settled, Found, NoOlder, H!At
  <2> QED
    BY Zenon, <1>1, <1>3, <2>1, <2>2, <2>3, <2>5, <2>6, <2>7, InstallerStep
<1> QED
  BY Zenon, <1>2, <1>3 DEF H!Begin

\* The installer writes its file.
LEMMA WriteKeeps ==
  ASSUME HandoffInv, NEW q \in Installers, H!Write(q)
  PROVE  HandoffInv'
<1> DEFINE m == [installer[q] EXCEPT !.pc = "sync"]
<1>1. /\ H!At(q, "write") /\ ~H!At(q, "idle") /\ H!Goes(q, "sync") /\ handoffs' = [handoffs EXCEPT ![Own(q)] = q]
      /\ UNCHANGED <<dest, staged, savedDest, savedStaged, synced, confirmed>>
  BY DEF H!Write, H!At, Own, H!directory, H!savedDirectory
<1>2. /\ installer[q] \in Busy /\ installer' = [installer EXCEPT ![q] = m] /\ installer'[q].pc = "sync"
      /\ installer'[q].clean = installer[q].clean /\ Own(q)' = Own(q)
  BY <1>1, GoesTo
<1>3. m \in Busy
  BY <1>2 DEF Busy
<1>4. Own(q) \in H!Made /\ Own(q) \notin {dest, savedDest} /\ ~installer[q].clean
  BY <1>1, InstallerFacts DEF Knows, Staging, H!At
<1>5. H!Made' = H!Made /\ handoffs' \in [H!Made -> Installers \cup {H!Partial}] /\ handoffs'[Own(q)] = q
  BY <1>1, <1>4, InstallerFacts DEF H!Made
<1>6. \A n \in H!Made : n # Own(q) => handoffs'[n] = handoffs[n]
  BY <1>1, <1>4, InstallerFacts
<1>7. HandoffTypeOK'
  BY <1>1, <1>2, <1>3, <1>5, InstallerFacts DEF HandoffTypeOK
<1>8. Gentle(q)
  BY <1>1, <1>4, <1>5, <1>6, InstallerFacts DEF Gentle
<1>9. Knows(q)'
  <2>1. NoOlder(q)'
    BY <1>1, <1>2, <1>4, <1>6, InstallerFacts DEF NoOlder, Knows
  <2> QED
    BY <1>1, <1>2, <1>4, <1>5, <2>1, InstallerFacts DEF Knows, Staging, Settled, Found, H!At
<1> QED
  BY Zenon, <1>1, <1>2, <1>3, <1>7, <1>8, <1>9, InstallerStep

\* The installer syncs its file.
LEMMA SyncFileKeeps ==
  ASSUME HandoffInv, NEW q \in Installers, H!SyncFile(q)
  PROVE  HandoffInv'
<1> DEFINE m == [installer[q] EXCEPT !.pc = "link"]
<1>1. /\ H!At(q, "sync") /\ ~H!At(q, "idle") /\ H!Goes(q, "link") /\ synced' = synced \cup {Own(q)}
      /\ UNCHANGED <<dest, staged, savedDest, savedStaged, handoffs, confirmed>>
  BY Zenon DEF H!SyncFile, H!At, Own, H!directory, H!savedDirectory
<1>2. /\ installer[q] \in Busy /\ installer' = [installer EXCEPT ![q] = m] /\ installer'[q].pc = "link"
      /\ installer'[q].clean = installer[q].clean /\ Own(q)' = Own(q)
  BY <1>1, GoesTo
<1>3. m \in Busy
  BY <1>2 DEF Busy
<1>4. Own(q) \in H!Made /\ Own(q) \notin {dest, savedDest} /\ ~installer[q].clean /\ handoffs[Own(q)] = q
  BY <1>1, InstallerFacts DEF Knows, Staging, H!At
<1>5. HandoffTypeOK'
  BY <1>1, <1>2, <1>3, <1>4, InstallerFacts DEF HandoffTypeOK, H!Made
<1>6. Gentle(q)
  BY <1>1, InstallerFacts DEF Gentle, H!Made
<1>7. Knows(q)'
  BY <1>1, <1>2, <1>4, InstallerFacts DEF Knows, Staging, Settled, Found, NoOlder, H!At, H!Made
<1> QED
  BY Zenon, <1>1, <1>2, <1>3, <1>5, <1>6, <1>7, InstallerStep

\* The installer links its file, or finds the path taken, or does not know.
LEMMA LinkKeeps ==
  ASSUME HandoffInv, NEW q \in Installers, H!Link(q)
  PROVE  HandoffInv'
<1>1. /\ H!At(q, "link") /\ ~H!At(q, "idle")
      /\ UNCHANGED <<staged, savedDest, savedStaged, handoffs, synced, confirmed>>
  BY DEF H!Link, H!At, H!savedDirectory, H!files
<1>2. /\ Own(q) \in H!Made /\ Own(q) \notin {dest, savedDest} /\ ~installer[q].clean /\ handoffs[Own(q)] = q
      /\ Own(q) \in synced /\ installer[q] \in Busy /\ Own(q) = installer[q].file
  BY <1>1, InstallerFacts DEF Knows, Staging, H!At
<1>3. dest' = dest \/ (dest = 0 /\ dest' = Own(q))
  BY <1>2 DEF H!Link
<1>4. PICK error \in BOOLEAN : installer' = [installer EXCEPT ![q] = [installer[q] EXCEPT !.pc = "clean", !.error = error]]
  <2>1. CASE H!Goes(q, "clean")
    <3>1. installer' = [installer EXCEPT ![q] = [installer[q] EXCEPT !.pc = "clean"]]
      BY <1>1, <2>1, GoesTo
    <3>2. [installer[q] EXCEPT !.pc = "clean"] = [installer[q] EXCEPT !.pc = "clean", !.error = installer[q].error]
          /\ installer[q].error \in BOOLEAN
      BY Zenon, <1>2 DEF Busy
    <3> QED
      BY Zenon, <3>1, <3>2
  <2>2. CASE installer' = [installer EXCEPT ![q].pc = "clean", ![q].error = TRUE]
    <3>1. installer' = [installer EXCEPT ![q] = [installer[q] EXCEPT !.pc = "clean", !.error = TRUE]]
      BY Zenon, <1>2, <2>2, InstallerFacts DEF Busy
    <3> QED
      BY Zenon, <3>1
  <2> QED
    BY Zenon, <2>1, <2>2 DEF H!Link
<1> DEFINE m == [installer[q] EXCEPT !.pc = "clean", !.error = error]
<1>5. m \in Busy /\ m.pc = "clean" /\ m.file = installer[q].file /\ m.clean = installer[q].clean /\ installer'[q] = m
  BY Zenon, <1>2, <1>4, InstallerFacts DEF Busy
<1>6. Own(q)' = Own(q)
  BY <1>2, <1>5 DEF Own, H!At
<1>7. HandoffTypeOK'
  BY <1>1, <1>2, <1>3, <1>4, <1>5, InstallerFacts DEF HandoffTypeOK, H!Made
<1>8. Gentle(q)
  BY <1>1, <1>2, <1>3, InstallerFacts DEF Gentle, H!Made
<1> HIDE DEF m
<1>9. Knows(q)'
  <2>1. NoOlder(q)'
    BY <1>1, <1>3, <1>6, InstallerFacts DEF NoOlder, Knows
  <2> QED
    BY <1>1, <1>2, <1>5, <1>6, <2>1, InstallerFacts DEF Knows, Staging, Settled, Found, H!At, H!Made
<1> QED
  BY Zenon, <1>1, <1>4, <1>5, <1>6, <1>7, <1>8, <1>9, InstallerStep DEF m

\* The installer removes its staging name.
LEMMA CleanKeeps ==
  ASSUME HandoffInv, NEW q \in Installers, H!Clean(q)
  PROVE  HandoffInv'
<1>1. /\ H!At(q, "clean") /\ ~H!At(q, "idle")
      /\ UNCHANGED <<dest, savedDest, savedStaged, handoffs, synced, confirmed>>
  BY DEF H!Clean, H!At, H!savedDirectory, H!files
<1>2. Own(q) \in H!Made /\ ~installer[q].clean /\ installer[q] \in Busy /\ Own(q) = installer[q].file
  BY <1>1, InstallerFacts DEF Knows, Staging, H!At
<1>3. PICK clean \in BOOLEAN :
        /\ installer' = [installer EXCEPT ![q] = [installer[q] EXCEPT !.pc = "settle", !.clean = clean]]
        /\ staged' \subseteq staged /\ (clean => Own(q) \notin staged')
  <2>1. CASE staged' = staged \ {installer[q].file} /\ installer' = [installer EXCEPT ![q].pc = "settle", ![q].clean = TRUE]
    <3>1. installer' = [installer EXCEPT ![q] = [installer[q] EXCEPT !.pc = "settle", !.clean = TRUE]]
      BY <1>2, <2>1, InstallerFacts DEF Busy
    <3> QED
      BY Zenon, <1>2, <2>1, <3>1
  <2>2. CASE staged' = staged /\ H!Goes(q, "settle")
    <3>1. installer' = [installer EXCEPT ![q] = [installer[q] EXCEPT !.pc = "settle"]]
      BY <1>1, <2>2, GoesTo
    <3>2. [installer[q] EXCEPT !.pc = "settle"] = [installer[q] EXCEPT !.pc = "settle", !.clean = FALSE]
      BY Zenon, <1>2 DEF Busy
    <3> QED
      BY Zenon, <2>2, <3>1, <3>2
  <2> QED
    BY Zenon, <2>1, <2>2 DEF H!Clean
<1> DEFINE m == [installer[q] EXCEPT !.pc = "settle", !.clean = clean]
<1>4. m \in Busy /\ m.pc = "settle" /\ m.file = installer[q].file /\ m.clean = clean /\ installer'[q] = m
  BY Zenon, <1>2, <1>3, InstallerFacts DEF Busy
<1>5. Own(q)' = Own(q)
  BY <1>2, <1>4 DEF Own, H!At
<1>6. HandoffTypeOK'
  BY <1>1, <1>3, <1>4, InstallerFacts DEF HandoffTypeOK, H!Made
<1>7. Gentle(q)
  BY <1>1, <1>3, InstallerFacts DEF Gentle, H!Made
<1> HIDE DEF m
<1>8. Knows(q)'
  BY <1>1, <1>2, <1>3, <1>4, <1>5, InstallerFacts DEF Knows, Staging, Settled, Found, NoOlder, H!At, H!Made
<1> QED
  BY Zenon, <1>1, <1>3, <1>4, <1>5, <1>6, <1>7, <1>8, InstallerStep DEF m

\* What the sync of the directory does.
LEMMA DirectorySynced ==
  ASSUME HandoffInv, NEW q \in Installers, ~H!At(q, "idle"), NEW ok, H!SyncDirectory(q, ok, "unconfirmed")
  PROVE  \E pc \in {ok, "unconfirmed"} :
           /\ H!Goes(q, pc)
           /\ \/ savedDest' = dest /\ savedStaged' = staged
              \/ pc = "unconfirmed" /\ savedDest' = savedDest /\ savedStaged' = savedStaged
  BY DEF H!SyncDirectory, H!savedDirectory

\* A step that moves q to the label pc and at most syncs the directory.
LEMMA LabelStep ==
  ASSUME HandoffInv, NEW q \in Installers, ~H!At(q, "idle"),
         NEW pc \in {"conclude", "unconfirmed", "verify", "aliases"}, H!Goes(q, pc),
         UNCHANGED <<dest, staged, handoffs, synced, confirmed>>,
         \/ savedDest' = dest /\ savedStaged' = staged
         \/ savedDest' = savedDest /\ savedStaged' = savedStaged,
         Settled(q)', Found(q)', pc = "conclude" => Own(q) # 0
  PROVE  HandoffInv'
<1> DEFINE m == [installer[q] EXCEPT !.pc = pc]
<1>1. /\ installer[q] \in Busy /\ installer' = [installer EXCEPT ![q] = m] /\ installer'[q].pc = pc /\ Own(q)' = Own(q)
  BY GoesTo
<1>2. m \in Busy
  BY <1>1 DEF Busy
<1>3. HandoffTypeOK'
  BY <1>1, <1>2, InstallerFacts DEF HandoffTypeOK, H!Made
<1>4. Gentle(q)
  BY InstallerFacts DEF Gentle, H!Made
<1>5. Knows(q)'
  <2>1. Own(q)' \in H!Made' \cup {0} /\ Staging(q)' /\ NoOlder(q)'
    BY <1>1, InstallerFacts DEF Knows, Staging, NoOlder, H!At, H!Made
  <2> QED
    BY <2>1 DEF Knows
<1> QED
  BY Zenon, <1>1, <1>2, <1>3, <1>4, <1>5, InstallerStep

\* The directory is synced after the removal of the staging name.
LEMMA SettleKeeps ==
  ASSUME HandoffInv, NEW q \in Installers, H!Settle(q)
  PROVE  HandoffInv'
<1> DEFINE ok == IF installer[q].clean THEN "conclude" ELSE "unconfirmed"
<1>1. /\ H!At(q, "settle") /\ ~H!At(q, "idle") /\ UNCHANGED <<dest, staged, handoffs, synced, confirmed>>
      /\ H!SyncDirectory(q, ok, "unconfirmed")
  BY DEF H!Settle, H!At, H!directory, H!files
<1>2. PICK pc \in {ok, "unconfirmed"} :
        /\ H!Goes(q, pc)
        /\ \/ savedDest' = dest /\ savedStaged' = staged
           \/ pc = "unconfirmed" /\ savedDest' = savedDest /\ savedStaged' = savedStaged
  BY <1>1, DirectorySynced
<1>3. Own(q) # 0 /\ (installer[q].clean => Own(q) \notin staged)
  BY <1>1, InstallerFacts DEF Knows, Staging, Settled, H!At
<1>4. installer'[q].pc = pc /\ Own(q)' = Own(q) /\ pc \in {"conclude", "unconfirmed"} /\ (pc = "conclude" => installer[q].clean)
  BY <1>1, <1>2, GoesTo
<1>5. Settled(q)'
  BY <1>1, <1>2, <1>3, <1>4 DEF Settled, H!At
<1>6. Found(q)'
  BY <1>4 DEF Found, H!At
<1> QED
  BY <1>1, <1>2, <1>3, <1>4, <1>5, <1>6, LabelStep

\* A call returns success where the handoff is sealed.
LEMMA SuccessKeeps ==
  ASSUME HandoffInv, NEW q \in Installers, H!ReturnsNil(q), Sealed(q),
         UNCHANGED <<H!directory, H!savedDirectory, H!files>>
  PROVE  HandoffInv'
<1>1. installer'[q] = H!Idle /\ Own(q)' = 0 /\ installer' = [installer EXCEPT ![q] = H!Idle] /\ confirmed' = confirmed \cup {q}
  BY InstallerFacts DEF H!ReturnsNil, H!Returns, Own, H!At, H!Idle
<1>2. HandoffTypeOK'
  BY <1>1, InstallerFacts DEF HandoffTypeOK, H!Made, H!directory, H!savedDirectory, H!files
<1>3. Gentle(q)
  BY DEF Gentle, H!Made, H!directory, H!savedDirectory, H!files
<1>4. Knows(q)'
  BY <1>1 DEF Knows, Staging, Settled, Found, NoOlder, H!At, H!Idle
<1>5. Sealed(q)'
  BY DEF Sealed, H!directory, H!savedDirectory, H!files
<1> QED
  BY Zenon, <1>1, <1>2, <1>3, <1>4, <1>5, InstallerStep

\* The installer concludes from what is at the path.
LEMMA ConcludeKeeps ==
  ASSUME HandoffInv, NEW q \in Installers, H!Conclude(q)
  PROVE  HandoffInv'
<1>1. H!At(q, "conclude") /\ ~H!At(q, "idle") /\ UNCHANGED <<H!directory, H!savedDirectory, H!files>>
  BY Zenon DEF H!Conclude, H!At
<1>2. /\ Own(q) = installer[q].file /\ Own(q) # 0 /\ Own(q) \notin staged \cup savedStaged
      /\ dest = Own(q) => savedDest = dest
  BY <1>1, InstallerFacts DEF Knows, Staging, Settled, H!At
<1>3. CASE dest = installer[q].file /\ H!Verified(q) /\ H!ReturnsNil(q)
  <2>1. Sealed(q)
    BY <1>2, <1>3 DEF Sealed, H!Verified, H!SingleLink
  <2> QED
    BY <1>1, <1>3, <2>1, SuccessKeeps
<1>4. CASE H!ReturnsError(q)
  BY <1>1, <1>4, ReturnKeeps DEF H!ReturnsError, H!directory
<1>5. ASSUME NEW pc \in {"aliases", "verify"}, H!Goes(q, pc), dest # 0, dest # installer[q].file, UNCHANGED confirmed
      PROVE  HandoffInv'
  <2>1. installer'[q].pc = pc /\ Own(q)' = Own(q)
    BY <1>1, <1>5, GoesTo
  <2>2. Settled(q)' /\ Found(q)'
    BY <1>1, <1>2, <1>5, <2>1 DEF Settled, Found, H!At, H!directory
  <2> QED
    BY <1>1, <1>5, <2>2, LabelStep DEF H!directory, H!savedDirectory, H!files
<1> QED
  BY Zenon, <1>3, <1>4, <1>5 DEF H!Conclude, H!SingleLink

\* The installer removes the staging names of the file it has found.
LEMMA RemoveAliasesKeeps ==
  ASSUME HandoffInv, NEW q \in Installers, H!RemoveAliases(q)
  PROVE  HandoffInv'
<1>1. /\ H!At(q, "aliases") /\ ~H!At(q, "idle")
      /\ UNCHANGED <<dest, savedDest, savedStaged, handoffs, synced, confirmed>>
  BY DEF H!RemoveAliases, H!At, H!savedDirectory, H!files
<1>2. dest # 0 /\ dest # Own(q) /\ installer[q] \in Busy /\ Own(q) = installer[q].file
  BY <1>1, InstallerFacts DEF Knows, Found, H!At
<1>3. PICK clean \in BOOLEAN :
        /\ installer' = [installer EXCEPT ![q] = [installer[q] EXCEPT !.pc = "barrier", !.clean = clean]]
        /\ staged' \subseteq staged /\ (clean => dest \notin staged')
  <2>1. CASE staged' = staged \ H!StagingAliases /\ H!Goes(q, "barrier")
    <3>1. installer' = [installer EXCEPT ![q] = [installer[q] EXCEPT !.pc = "barrier"]]
      BY <1>1, <2>1, GoesTo
    <3>2. [installer[q] EXCEPT !.pc = "barrier"] = [installer[q] EXCEPT !.pc = "barrier", !.clean = installer[q].clean]
          /\ installer[q].clean \in BOOLEAN
      BY Zenon, <1>2 DEF Busy
    <3> QED
      BY Zenon, <2>1, <3>1, <3>2 DEF H!StagingAliases
  <2>2. CASE staged' = staged /\ installer' = [installer EXCEPT ![q].pc = "barrier", ![q].clean = FALSE]
    <3>1. installer' = [installer EXCEPT ![q] = [installer[q] EXCEPT !.pc = "barrier", !.clean = FALSE]]
      BY Zenon, <1>2, <2>2, InstallerFacts DEF Busy
    <3> QED
      BY Zenon, <2>2, <3>1
  <2> QED
    BY Zenon, <2>1, <2>2 DEF H!RemoveAliases
<1> DEFINE m == [installer[q] EXCEPT !.pc = "barrier", !.clean = clean]
<1>4. m \in Busy /\ m.pc = "barrier" /\ m.file = installer[q].file /\ m.clean = clean /\ installer'[q] = m
  BY Zenon, <1>2, <1>3, InstallerFacts DEF Busy
<1>5. Own(q)' = Own(q)
  BY <1>2, <1>4 DEF Own, H!At
<1>6. HandoffTypeOK'
  BY <1>1, <1>3, <1>4, InstallerFacts DEF HandoffTypeOK, H!Made
<1>7. Gentle(q)
  BY <1>1, <1>3, InstallerFacts DEF Gentle, H!Made
<1> HIDE DEF m
<1>8. Knows(q)'
  BY <1>1, <1>2, <1>3, <1>4, <1>5, InstallerFacts DEF Knows, Staging, Settled, Found, NoOlder, H!At, H!Made
<1> QED
  BY Zenon, <1>1, <1>3, <1>4, <1>5, <1>6, <1>7, <1>8, InstallerStep DEF m

\* The directory is synced after the removal of those names.
LEMMA BarrierKeeps ==
  ASSUME HandoffInv, NEW q \in Installers, H!Barrier(q)
  PROVE  HandoffInv'
<1> DEFINE ok == IF installer[q].clean THEN "verify" ELSE "unconfirmed"
<1>1. /\ H!At(q, "barrier") /\ ~H!At(q, "idle") /\ UNCHANGED <<dest, staged, handoffs, synced, confirmed>>
      /\ H!SyncDirectory(q, ok, "unconfirmed")
  BY DEF H!Barrier, H!At, H!directory, H!files
<1>2. PICK pc \in {ok, "unconfirmed"} :
        /\ H!Goes(q, pc)
        /\ \/ savedDest' = dest /\ savedStaged' = staged
           \/ pc = "unconfirmed" /\ savedDest' = savedDest /\ savedStaged' = savedStaged
  BY <1>1, DirectorySynced
<1>3. dest # 0 /\ dest # Own(q) /\ (installer[q].clean => dest \notin staged)
  BY <1>1, InstallerFacts DEF Knows, Found, H!At
<1>4. installer'[q].pc = pc /\ Own(q)' = Own(q) /\ pc \in {"verify", "unconfirmed"} /\ (pc = "verify" => installer[q].clean)
  BY <1>1, <1>2, GoesTo
<1>5. Settled(q)'
  BY <1>4 DEF Settled, H!At
<1>6. Found(q)'
  BY <1>1, <1>2, <1>3, <1>4 DEF Found, H!At
<1> QED
  BY <1>1, <1>2, <1>4, <1>5, <1>6, LabelStep

\* The installer compares the bytes at the path with its own.
LEMMA VerifyKeeps ==
  ASSUME HandoffInv, NEW q \in Installers, H!Verify(q)
  PROVE  HandoffInv'
<1>1. H!At(q, "verify") /\ ~H!At(q, "idle") /\ UNCHANGED <<H!directory, H!savedDirectory, H!files>>
  BY DEF H!Verify, H!At
<1>2. CASE H!Verified(q) /\ H!ReturnsNil(q)
  <2>1. dest # 0 /\ handoffs[dest] = q /\ dest # Own(q)
    BY <1>1, <1>2, InstallerFacts DEF H!Verified, H!SingleLink, Knows, Found, H!At
  <2>2. Own(q) = 0
    BY <2>1, InstallerFacts DEF Knows, NoOlder
  <2>3. Sealed(q)
    BY <1>1, <2>1, <2>2, InstallerFacts DEF Knows, Found, Sealed
  <2> QED
    BY <1>1, <1>2, <2>3, SuccessKeeps
<1>3. CASE H!ReturnsError(q)
  BY <1>1, <1>3, ReturnKeeps DEF H!ReturnsError, H!directory
<1> QED
  BY <1>2, <1>3 DEF H!Verify

\* The machine crashes.
LEMMA CrashKeeps ==
  ASSUME HandoffInv, H!Crash
  PROVE  HandoffInv'
<1>1. /\ dest' \in {dest, savedDest} /\ savedDest' = dest' /\ savedStaged' = staged'
      /\ staged' \subseteq staged \cup savedStaged
      /\ handoffs' = [n \in H!Made |-> IF n \in synced THEN handoffs[n] ELSE H!Partial]
      /\ installer' = [p \in Installers |-> H!Idle] /\ synced' = synced /\ confirmed' = confirmed
  BY DEF H!Crash
<1>2. /\ H!Made' = H!Made /\ (\A n \in synced : handoffs'[n] = handoffs[n])
      /\ HandoffTypeOK
  BY <1>1 DEF HandoffInv, HandoffTypeOK, H!Made
<1>3. HandoffTypeOK'
  <2>1. handoffs' \in [H!Made' -> Installers \cup {H!Partial}]
    BY <1>1, <1>2 DEF HandoffTypeOK
  <2>2. installer' \in [Installers -> {H!Idle} \cup Busy]
    BY <1>1
  <2> QED
    BY <1>1, <1>2, <2>1, <2>2 DEF HandoffTypeOK
<1>4. \A p \in Installers : installer'[p].pc = "idle" /\ Own(p)' = 0
  BY <1>1 DEF Own, H!At, H!Idle
<1>5. \A p \in Installers : Knows(p)'
  BY <1>4 DEF Knows, Staging, Settled, Found, NoOlder, H!At
<1>6. H!HandoffIsWhole'
  BY <1>1, <1>2 DEF HandoffInv, H!HandoffIsWhole
<1>7. \A p \in confirmed' : Sealed(p)'
  <2> SUFFICES ASSUME NEW p \in confirmed PROVE Sealed(p)'
    BY <1>1
  <2>1. Sealed(p) /\ dest \in synced
    BY DEF HandoffInv, Sealed, H!HandoffIsWhole
  <2> QED
    BY <1>1, <1>2, <2>1 DEF Sealed
<1> QED
  BY <1>3, <1>4, <1>5, <1>6, <1>7 DEF HandoffInv

-----------------------------------------------------------------------------
(* The theorem *)

\* An empty directory satisfies the invariant.
LEMMA HandoffInit == H!Init => HandoffInv
<1> SUFFICES ASSUME H!Init PROVE HandoffInv
  OBVIOUS
<1>1. H!Made = {} /\ handoffs \in [H!Made -> Installers \cup {H!Partial}]
  BY DEF H!Init, H!Made
<1>2. HandoffTypeOK
  BY <1>1 DEF H!Init, HandoffTypeOK
<1>3. \A p \in Installers : installer[p].pc = "idle" /\ Own(p) = 0
  BY DEF H!Init, Own, H!At, H!Idle
<1>4. \A p \in Installers : Knows(p)
  BY <1>3 DEF Knows, Staging, Settled, Found, NoOlder, H!At
<1> QED
  BY <1>2, <1>3, <1>4 DEF H!Init, HandoffInv, H!HandoffIsWhole

\* Every step keeps the invariant.
LEMMA HandoffStep ==
  ASSUME MaxFiles \in Nat, HandoffInv, [H!Next]_H!vars
  PROVE  HandoffInv'
<1>1. ASSUME NEW p \in Installers, H!Abandon(p) \/ H!Unconfirmed(p) \/ H!Die(p) PROVE HandoffInv'
  <2>1. H!Returns(p) /\ staged' \subseteq staged /\ UNCHANGED <<dest, H!savedDirectory, H!files, confirmed>>
    BY <1>1 DEF H!Abandon, H!Unconfirmed, H!Die, H!ReturnsError, H!directory
  <2> QED
    BY <2>1, ReturnKeeps
<1>2. ASSUME NEW p \in Installers,
             \/ H!Begin(p) \/ H!Write(p) \/ H!SyncFile(p) \/ H!Link(p) \/ H!Clean(p) \/ H!Settle(p)
             \/ H!Conclude(p) \/ H!RemoveAliases(p) \/ H!Barrier(p) \/ H!Verify(p)
      PROVE  HandoffInv'
  BY <1>2, BeginKeeps, WriteKeeps, SyncFileKeeps, LinkKeeps, CleanKeeps, SettleKeeps, ConcludeKeeps,
     RemoveAliasesKeeps, BarrierKeeps, VerifyKeeps
<1>3. CASE H!Crash
  BY <1>3, CrashKeeps
<1>4. CASE UNCHANGED H!vars
  <2>1. UNCHANGED <<dest, staged, savedDest, savedStaged, handoffs, synced, installer, confirmed>>
    BY <1>4 DEF H!vars
  <2>2. HandoffTypeOK' /\ H!HandoffIsWhole' /\ \A p \in confirmed' : Sealed(p)'
    BY <2>1 DEF HandoffInv, HandoffTypeOK, H!Made, H!HandoffIsWhole, Sealed
  <2>3. ASSUME NEW p \in Installers PROVE Own(p)' = Own(p) /\ Knows(p)'
    <3>1. Own(p)' = Own(p) /\ Knows(p)
      BY Zenon, <2>1 DEF HandoffInv, Own, H!At
    <3> QED
      BY Zenon, <2>1, <3>1 DEF Knows, Staging, Settled, Found, NoOlder, H!At, H!Made
  <2> QED
    BY <2>2, <2>3 DEF HandoffInv
<1> QED
  BY <1>1, <1>2, <1>3, <1>4 DEF H!Next

-----------------------------------------------------------------------------
(* UnsignedCommit *)

\* The place of the commit in the chain is taken by another one.
Displaced(commit, ref) == Len(commit) <= Len(ref) /\ ~U!InChain(commit, ref)

CommitInv ==
  /\ U!TypeOK
  /\ \A p \in Publishers : publisher[p].pc \in {"staged", "swap", "reconcile"} => publisher[p].staged # <<>>
  /\ \A commit \in flying : commit # <<>>
  /\ \A commit \in accepted : U!InChain(commit, reference)
  /\ \A commit \in rejected : Displaced(commit, reference)

\* What the prefix of a chain is.
LEMMA Prefix ==
  ASSUME NEW ref \in U!Chains, NEW n \in 0..Len(ref)
  PROVE  /\ Len(SubSeq(ref, 1, n)) = n /\ n <= Len(ref) /\ n \in Nat /\ Len(ref) \in Nat
         /\ \A i \in 1..n : SubSeq(ref, 1, n)[i] = ref[i]
         /\ SubSeq(ref, 1, n) \in U!Chains
  BY DEF U!Chains

\* A staged commit is a chain.
LEMMA Longer ==
  ASSUME NEW ref \in U!Chains, NEW m \in Manifests
  PROVE  Append(ref, m) \in U!Chains /\ Append(ref, m) # <<>>
<1>1. Append(ref, m) \in U!Chains /\ Len(Append(ref, m)) = Len(ref) + 1 /\ Len(ref) \in Nat
  BY DEF U!Chains
<1>2. Len(Append(ref, m)) # 0
  BY <1>1
<1> QED
  BY <1>1, <1>2

\* A chain that grows by a commit keeps what it has and what it excludes.
LEMMA Growth ==
  ASSUME NEW commit \in U!Chains, commit # <<>>, NEW other \in U!Chains, NEW ref, ref = U!Base(commit)
  PROVE  /\ U!InChain(other, ref) => U!InChain(other, commit)
         /\ Displaced(other, ref) => Displaced(other, commit)
         /\ U!InChain(commit, commit)
<1>0. Len(commit) \in Nat \ {0}
  BY DEF U!Chains
<1>1. /\ Len(ref) = Len(commit) - 1
      /\ \A i \in 1..(Len(commit) - 1) : ref[i] = commit[i]
  <2>1. Len(commit) - 1 \in 0..Len(commit)
    BY <1>0
  <2> QED
    BY Zenon, <2>1, Prefix DEF U!Base
<1>2. Len(other) \in Nat
  BY DEF U!Chains
<1> QED
  BY <1>0, <1>1, <1>2 DEF U!InChain, Displaced

\* What a read of an older reference shows holds of the current one.
LEMMA OlderReference ==
  ASSUME NEW ref \in U!Chains, NEW n \in 0..Len(ref), NEW commit \in U!Chains
  PROVE  /\ U!InChain(commit, SubSeq(ref, 1, n)) => U!InChain(commit, ref)
         /\ Displaced(commit, SubSeq(ref, 1, n)) => Displaced(commit, ref)
<1>1. Len(commit) \in Nat
  BY DEF U!Chains
<1> QED
  BY <1>1, Prefix DEF U!InChain, Displaced

\* A verdict says where the commit stands in the reference it was read from.
LEMMA Verdicts ==
  ASSUME NEW commit \in U!Chains, NEW ref, Len(ref) \in Nat
  PROVE  /\ U!Outcome(commit, ref) = "applied" => U!InChain(commit, ref)
         /\ U!Outcome(commit, ref) = "rejected" => Displaced(commit, ref)
<1>1. Len(commit) \in Nat
  BY DEF U!Chains
<1>2. ~(Len(ref) < Len(commit)) => Len(commit) <= Len(ref)
  BY <1>1
<1> QED
  BY <1>2 DEF U!Outcome, Displaced

\* A publisher that has staged nothing.
LEMMA IdlePublisher == U!Idle \in [pc : {"idle"}, staged : U!Chains]
<1>1. <<>> \in U!Chains
  BY DEF U!Chains
<1> QED
  BY <1>1 DEF U!Idle

LEMMA CommitInit == U!Init => CommitInv
  BY DEF U!Init, CommitInv, U!TypeOK, U!Idle, U!Chains

\* A write that matches is a step the chain can take.
LEMMA Applied ==
  ASSUME CommitInv, NEW commit \in U!Chains, commit # <<>>, U!SwapMatches(commit)
  PROVE  /\ \A other \in accepted : U!InChain(other, commit)
         /\ \A other \in rejected : Displaced(other, commit)
         /\ U!InChain(commit, commit)
  BY Growth DEF CommitInv, U!TypeOK, U!SwapMatches

\* Every step preserves the invariant.
LEMMA CommitStep == CommitInv /\ [U!Next]_U!vars => CommitInv'
<1> SUFFICES ASSUME CommitInv, [U!Next]_U!vars PROVE CommitInv'
  OBVIOUS
<1> DEFINE Keeps ==
      /\ \A commit \in accepted : U!InChain(commit, reference')
      /\ \A commit \in rejected : Displaced(commit, reference')
<1>a. reference' = reference => Keeps
  BY DEF CommitInv
<1>1. ASSUME NEW p \in Publishers, U!Stage(p) PROVE CommitInv'
  <2>1. \A ref \in U!Chains, m \in Manifests : Append(ref, m) \in U!Chains /\ Append(ref, m) # <<>>
    BY Longer
  <2>a. \A n \in 0..Len(reference) : SubSeq(reference, 1, n) \in U!Chains
    BY Prefix DEF CommitInv, U!TypeOK
  <2>2. UNCHANGED <<reference, flying, accepted, rejected, mishaps>>
    BY <1>1 DEF U!Stage
  <2>3. PICK now \in [pc : {"staged", "unchanged"}, staged : U!Chains] :
          /\ publisher' = [publisher EXCEPT ![p] = now]
          /\ now.staged # <<>>
    BY Zenon, <1>1, <2>1, <2>a DEF U!Stage, CommitInv, U!TypeOK
  <2> QED
    BY <2>2, <2>3, <1>a DEF CommitInv, U!TypeOK
<1>2. ASSUME NEW p \in Publishers, U!CommitUnchanged(p) PROVE CommitInv'
  <2>1. publisher[p].staged \in U!Chains /\ reference \in U!Chains /\ U!Idle \in [pc : {"idle"}, staged : U!Chains]
    BY IdlePublisher DEF CommitInv, U!TypeOK
  <2>2. CASE U!Seen(publisher[p].staged) /\ U!Accept(p) /\ UNCHANGED <<rejected, mishaps>>
    <3>1. U!InChain(publisher[p].staged, reference)
      <4>1. Len(reference) \in Nat
        BY <2>1 DEF U!Chains
      <4>2. U!InChain(reference, reference)
        BY <4>1 DEF U!InChain
      <4> QED
        BY <2>2, <4>2 DEF U!Seen
    <3> QED
      BY <1>2, <2>1, <2>2, <3>1, <1>a DEF U!CommitUnchanged, U!Accept, U!Forget, CommitInv, U!TypeOK, U!Idle
  <2>3. CASE U!Forget(p) /\ UNCHANGED <<accepted, rejected>> /\ mishaps' \in Nat
    BY <1>2, <2>1, <2>3, <1>a DEF U!CommitUnchanged, U!Forget, CommitInv, U!TypeOK, U!Idle
  <2> QED
    BY <1>2, <2>2, <2>3 DEF U!CommitUnchanged, U!Fault, CommitInv, U!TypeOK
<1>3. ASSUME NEW p \in Publishers, U!Commit(p) PROVE CommitInv'
  BY <1>3, <1>a DEF U!Commit, U!Goes, CommitInv, U!TypeOK
<1>4. ASSUME NEW p \in Publishers, U!Swap(p) PROVE CommitInv'
  <2> DEFINE commit == publisher[p].staged
  <2>1. commit \in U!Chains /\ commit # <<>> /\ U!Idle \in [pc : {"idle"}, staged : U!Chains]
    BY <1>4, IdlePublisher DEF U!Swap, CommitInv, U!TypeOK
  <2>2. CASE U!SwapMatches(commit) /\ reference' = commit /\ U!Accept(p) /\ UNCHANGED <<flying, rejected, mishaps>>
    BY <2>1, <2>2, Applied DEF U!Accept, U!Forget, CommitInv, U!TypeOK, U!Idle
  <2>3. CASE U!Goes(p, "reconcile") /\ UNCHANGED <<accepted, rejected>> /\ mishaps' \in Nat
    <3>1. Keeps /\ reference' \in U!Chains
      BY <1>4, <2>1, <1>a, Applied DEF U!Swap, CommitInv, U!TypeOK
    <3>2. \A c \in flying' : c \in U!Chains /\ c # <<>>
      BY <1>4, <2>1 DEF U!Swap, CommitInv, U!TypeOK
    <3> QED
      BY <1>4, <2>1, <2>3, <3>1, <3>2 DEF U!Swap, U!Goes, CommitInv, U!TypeOK
  <2> QED
    BY <1>4, <2>2, <2>3 DEF U!Swap, U!Fault, CommitInv, U!TypeOK
<1>5. ASSUME NEW p \in Publishers, U!Reconcile(p) PROVE CommitInv'
  <2> DEFINE commit == publisher[p].staged
  <2>1. commit \in U!Chains /\ reference \in U!Chains /\ U!Idle \in [pc : {"idle"}, staged : U!Chains]
    BY IdlePublisher DEF CommitInv, U!TypeOK
  <2>2. CASE U!Goes(p, "staged") /\ UNCHANGED <<accepted, rejected>> /\ mishaps' \in Nat
    BY <1>5, <2>2, <1>a DEF U!Reconcile, U!Goes, CommitInv, U!TypeOK
  <2>3. ASSUME NEW n \in 0..Len(reference), UNCHANGED mishaps,
               U!Outcome(commit, SubSeq(reference, 1, n)) = "applied", U!Accept(p), UNCHANGED rejected
        PROVE  CommitInv'
    <3>1. U!InChain(commit, reference)
      BY Zenon, <2>1, <2>3, OlderReference DEF U!Outcome
    <3> QED
      BY <1>5, <2>1, <2>3, <3>1, <1>a DEF U!Reconcile, U!Accept, U!Forget, CommitInv, U!TypeOK, U!Idle
  <2>4. ASSUME NEW n \in 0..Len(reference), UNCHANGED mishaps,
               U!Outcome(commit, SubSeq(reference, 1, n)) = "rejected", U!Reject(p), UNCHANGED accepted
        PROVE  CommitInv'
    <3>1. Len(SubSeq(reference, 1, n)) \in Nat
      BY <2>1, Prefix
    <3>2. Displaced(commit, SubSeq(reference, 1, n))
      BY <2>1, <2>4, <3>1, Verdicts
    <3>3. Displaced(commit, reference)
      BY <2>1, <3>2, OlderReference
    <3> QED
      BY <1>5, <2>1, <2>4, <3>3, <1>a DEF U!Reconcile, U!Reject, U!Forget, CommitInv, U!TypeOK, U!Idle
  <2> QED
    BY <1>5, <2>2, <2>3, <2>4 DEF U!Reconcile, U!Fault, CommitInv, U!TypeOK
<1>6. ASSUME NEW p \in Publishers, U!Crash(p) PROVE CommitInv'
  <2>1. publisher[p].staged \in U!Chains /\ U!Idle \in [pc : {"idle"}, staged : U!Chains]
    BY IdlePublisher DEF CommitInv, U!TypeOK
  <2> QED
    BY <1>6, <2>1, <1>a DEF U!Crash, U!Fault, U!Forget, CommitInv, U!TypeOK, U!Idle
<1>7. ASSUME U!Deliver PROVE CommitInv'
  <2>1. PICK commit \in flying : /\ flying' = flying \ {commit}
                                /\ reference' = IF U!SwapMatches(commit) THEN commit ELSE reference
    BY <1>7 DEF U!Deliver
  <2>2. commit \in U!Chains /\ commit # <<>>
    BY DEF CommitInv, U!TypeOK
  <2>3. Keeps /\ reference' \in U!Chains
    BY <2>1, <2>2, <1>a, Applied DEF CommitInv, U!TypeOK
  <2> QED
    BY <1>7, <2>1, <2>3 DEF U!Deliver, CommitInv, U!TypeOK
<1>8. CASE UNCHANGED U!vars
  BY <1>8 DEF U!vars, CommitInv, U!TypeOK
<1> QED
  BY <1>1, <1>2, <1>3, <1>4, <1>5, <1>6, <1>7, <1>8 DEF U!Next

\* A commit extends its base by one manifest.
LEMMA BaseAndLast ==
  ASSUME NEW commit \in U!Chains, commit # <<>>
  PROVE  \E m \in Manifests : commit = Append(U!Base(commit), m)
<1>1. Len(commit) \in Nat \ {0} /\ commit \in Seq(Manifests)
  BY DEF U!Chains
<1> DEFINE m == commit[Len(commit)]
           n == Len(commit) - 1
           base == SubSeq(commit, 1, n)
           whole == Append(base, m)
<1>2. m \in Manifests /\ n \in Nat /\ n \in 0..Len(commit)
  BY <1>1
<1>3. base \in Seq(Manifests) /\ Len(base) = n /\ \A i \in 1..n : base[i] = commit[i]
  BY Zenon, <1>2, Prefix DEF U!Chains
<1> HIDE DEF base
<1>4. /\ whole \in Seq(Manifests) /\ Len(whole) = n + 1 /\ whole[n + 1] = m
      /\ \A i \in 1..n : whole[i] = base[i]
  BY <1>2, <1>3
<1> HIDE DEF whole
<1>5. Len(whole) = Len(commit) /\ \A i \in 1..Len(commit) : whole[i] = commit[i]
  BY <1>1, <1>2, <1>3, <1>4
<1>6. whole = commit
  BY <1>1, <1>4, <1>5
<1> QED
  BY <1>2, <1>6 DEF whole, base, U!Base

\* Any number of publishers without a journal implement the channel, whatever requests are
\* lost, repeated or late: the published chain only ever grows by one commit.
THEOREM ChannelGrows == U!Spec => U!ImplementsChannel
<1>1. U!Init => U!C!Init
  BY DEF U!Init, U!C!Init
<1>2. CommitInv /\ [U!Next]_U!vars => [U!C!Next]_<<reference, 0>>
  <2> SUFFICES ASSUME CommitInv, [U!Next]_U!vars, reference' # reference PROVE U!C!Publish
    BY DEF U!C!Next
  <2>1. ASSUME NEW commit \in U!Chains, commit # <<>>, U!SwapMatches(commit), reference' = commit PROVE U!C!Publish
    BY <2>1, BaseAndLast DEF U!SwapMatches, U!C!Publish
  <2>2. ASSUME NEW p \in Publishers, U!Swap(p) PROVE U!C!Publish
    <3> DEFINE commit == publisher[p].staged
    <3>1. commit \in U!Chains /\ commit # <<>>
      BY <2>2 DEF U!Swap, CommitInv, U!TypeOK
    <3>2. U!SwapMatches(commit) /\ reference' = commit
      BY <2>2 DEF U!Swap
    <3> QED
      BY <2>1, <3>1, <3>2
  <2>3. CASE U!Deliver
    <3>1. PICK commit \in flying : U!SwapMatches(commit) /\ reference' = commit
      BY <2>3 DEF U!Deliver
    <3>2. commit \in U!Chains /\ commit # <<>>
      BY DEF CommitInv, U!TypeOK
    <3> QED
      BY <2>1, <3>1, <3>2
  <2>4. ASSUME NEW p \in Publishers, ~U!Swap(p),
               U!Stage(p) \/ U!CommitUnchanged(p) \/ U!Commit(p) \/ U!Swap(p) \/ U!Reconcile(p) \/ U!Crash(p)
        PROVE  FALSE
    BY Zenon, <2>4 DEF U!Stage, U!CommitUnchanged, U!Commit, U!Reconcile, U!Crash
  <2> QED
    BY <2>2, <2>3, <2>4 DEF U!Next, U!vars
<1> QED
  BY <1>1, <1>2, CommitInit, CommitStep, PTL DEF U!Spec, U!ImplementsChannel, U!C!Spec

-----------------------------------------------------------------------------
(* The parts side by side *)

\* A step of LocalFiles is a step of one part, and none of the other two.
LEMMA PartSteps ==
  ASSUME [FilesNext]_filesVars
  PROVE  [H!Next]_H!vars /\ [U!Next]_U!vars
BY DEF FilesNext, filesVars, handoff, channel, H!vars, U!vars

\* Where installHandoff has returned success the path holds exactly that handoff for good, and
\* nothing but one whole handoff is ever seen there, also after a crash; for any number of
\* installers of one path and any faults.
THEOREM HandoffsHold ==
  ASSUME MaxFiles \in Nat
  PROVE  FilesSpec => []HandoffIsConfirmed
<1>1. HandoffInv => HandoffIsConfirmed
  BY DEF HandoffInv, Sealed, H!HandoffIsConfirmed, HandoffIsConfirmed
<1>2. FilesInit => HandoffInv
  BY HandoffInit DEF FilesInit
<1>3. HandoffInv /\ [FilesNext]_filesVars => HandoffInv'
  BY HandoffStep, PartSteps
<1> QED
  BY <1>1, <1>2, <1>3, PTL DEF FilesSpec

\* What Commit of an unsigned publisher reports stays true, whatever number of publishers
\* race, however often they retry the same staged snapshot and whenever lost requests arrive.
THEOREM ReportsHold == FilesSpec => []ReportIsFinal
<1>1. CommitInv => ReportIsFinal
  BY DEF CommitInv, U!ReportIsFinal, Displaced, ReportIsFinal
<1>2. FilesInit => CommitInv
  BY CommitInit DEF FilesInit
<1>3. CommitInv /\ [FilesNext]_filesVars => CommitInv'
  BY CommitStep, PartSteps
<1> QED
  BY <1>1, <1>2, <1>3, PTL DEF FilesSpec
=============================================================================
