------------------------- MODULE WeightedSemaphore -------------------------
(***************************************************************************)
(* syncutil.WeightedSemaphore: the FIFO byte budget of a consumer's        *)
(* downloads.  Every critical section under the semaphore's mutex is one   *)
(* step; the select of Acquire between the grant and the caller's context  *)
(* is the choice between Take and Cancel.                                  *)
(***************************************************************************)
EXTENDS Naturals, Sequences, SequencesExt

CONSTANTS
  Callers,   \* goroutines that reserve bytes, each at most one reservation at a time
  Capacity,  \* the byte budget
  Weight     \* what each caller asks for, positive

VARIABLES
  used,      \* bytes reserved
  waiters,   \* queued callers, first in first out
  sem        \* where each caller is in Acquire

semVars == <<used, waiters, sem>>

SemInit == used = 0 /\ waiters = <<>> /\ sem = [c \in Callers |-> "none"]

\* Bytes asked for by the first n waiters of q.
Demand(q, n) == FoldLeft(LAMBDA sum, c : sum + Weight[c], 0, SubSeq(q, 1, n))

\* grantLocked: how many waiters are granted from the head of the queue.
GrantCount(u, q) == Max({n \in 0..Len(q) : u + Demand(q, n) <= Capacity})

\* grantLocked on the remaining queue q with u bytes used; c leaves with state s.
Granting(c, s, u, q) ==
  LET n == GrantCount(u, q)
      woken == {q[i] : i \in 1..n}
  IN /\ used' = u + Demand(q, n)
     /\ waiters' = SubSeq(q, n + 1, Len(q))
     /\ sem' = [d \in Callers |-> IF d = c THEN s ELSE IF d \in woken THEN "ready" ELSE sem[d]]

\* A fast path that does not look at the queue.
Barging(c) == Weight[c] <= Capacity - used
\* The fast path of Acquire: nobody waits and the weight fits.
FastPath(c) == waiters = <<>> /\ Weight[c] <= Capacity - used

\* Acquire up to the select; a weight above the capacity is refused.
Acquire(c) ==
  /\ sem[c] = "none" /\ Weight[c] <= Capacity
  /\ \/ /\ FastPath(c)
        /\ used' = used + Weight[c] /\ sem' = [sem EXCEPT ![c] = "held"]
        /\ UNCHANGED waiters
     \/ /\ ~FastPath(c)
        /\ waiters' = Append(waiters, c) /\ sem' = [sem EXCEPT ![c] = "queued"]
        /\ UNCHANGED used

\* The select finds waiter.ready closed.
Take(c) ==
  /\ sem[c] = "ready"
  /\ sem' = [sem EXCEPT ![c] = "held"]
  /\ UNCHANGED <<used, waiters>>

\* What a cancelled caller gives back: the grant that raced with it.
ReturnGrant(c) == IF sem[c] = "ready" THEN used - Weight[c] ELSE used

\* The select finds the context done.
Cancel(c) ==
  /\ sem[c] \in {"queued", "ready"}
  /\ Granting(c, "none", ReturnGrant(c), SelectSeq(waiters, LAMBDA d : d # c))

Release(c) ==
  /\ sem[c] = "held"
  /\ Granting(c, "none", used - Weight[c], waiters)

SemNext == \E c \in Callers : Acquire(c) \/ Take(c) \/ Cancel(c) \/ Release(c)

-----------------------------------------------------------------------------
Holders == {c \in Callers : sem[c] \in {"ready", "held"}}

\* The books balance: the bytes in use are exactly those of the callers that
\* hold or have just been granted a reservation, never more than the budget, so
\* Release never panics and nothing leaks when a cancellation races with a grant.
UsedIsHeld ==
  /\ used = FoldFunctionOnSet(LAMBDA w, sum : w + sum, 0, Weight, Holders)
  /\ used <= Capacity

\* No wakeup is lost: while somebody waits, the head of the queue does not fit.
HeadDoesNotFit == waiters # <<>> => used + Weight[waiters[1]] > Capacity

\* First come, first served: a caller is granted only when everybody who queued
\* before it has been granted or has left.
NoOvertaking ==
  [][\A c \in Callers : c \notin Holders /\ sem'[c] \in {"ready", "held"} =>
       \A i \in 1..Len(waiters) :
         (\A k \in 1..i : waiters[k] # c) => sem'[waiters[i]] # "queued"]_semVars
=============================================================================
