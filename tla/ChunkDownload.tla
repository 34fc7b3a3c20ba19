---------------------------- MODULE ChunkDownload ----------------------------
(***************************************************************************)
(* Reading chunks (consumer.go): readers of ReadAtContext share one load   *)
(* per chunk through the FlightGroup (internal/syncutil/flight.go); every  *)
(* load is admitted by acquireDownload, a count of slots and a byte budget *)
(* (WeightedSemaphore), and its reservation is handed to the lease of the  *)
(* readers, which gives it back when the last of them has copied.          *)
(*                                                                         *)
(* A step is one critical section of the group's or the semaphore's mutex, *)
(* one channel operation, or one outside effect.  The nth load of a chunk  *)
(* is the flight <<chunk, n>>.  A cancelled load may still succeed: the    *)
(* load may be past its last look at the context, and abandon cancels it   *)
(* only after it has unlocked.                                             *)
(***************************************************************************)
EXTENDS Naturals, Sequences, FiniteSets

CONSTANTS
  Readers,     \* goroutines in ReadAtContext
  Plan,        \* the chunks each of them reads, in order
  ChunkBytes,  \* the size of each chunk
  MaxBytes,    \* MaxConcurrentDownloadBytes, at least the size of any chunk
  MaxSlots,    \* MaxConcurrentDownloads
  Impatient,   \* readers whose context may be cancelled
  MaxFaults    \* bound on loads that fail by themselves

VARIABLES
  calls,       \* FlightGroup.calls: the number of the current load of a chunk, 0 if none
  flight,      \* flightCall and its loader goroutine
  slots,       \* flights that occupy a download slot
  reader,      \* the readers
  faults,      \* loads that failed so far
  used, waiters, sem  \* the byte budget

Chunks == DOMAIN ChunkBytes

\* Bound on the loads of one chunk; no plan names a chunk twice, so it is never reached.
MaxCalls == Cardinality(Readers)

Flights == Chunks \X (1..MaxCalls)

INSTANCE WeightedSemaphore WITH
  Callers <- Flights, Capacity <- MaxBytes, Weight <- [f \in Flights |-> ChunkBytes[f[1]]]

vars == <<calls, flight, slots, reader, faults, used, waiters, sem>>

Unborn == [pc |-> "unborn", users |-> 0, data |-> FALSE, err |-> "", completed |-> FALSE,
           finalized |-> FALSE, cancelled |-> FALSE]

Init ==
  /\ calls = [k \in Chunks |-> 0]
  /\ flight = [f \in Flights |-> Unborn]
  /\ slots = {}
  /\ reader = [r \in Readers |-> [pc |-> "get", at |-> 1, on |-> <<>>, cancelled |-> FALSE, err |-> ""]]
  /\ faults = 0
  /\ SemInit

-----------------------------------------------------------------------------
(* Readers *)

\* ReadAtContext returns with an error.
Fail(s, err) == [s EXCEPT !.pc = "end", !.err = err]

\* ReadAtContext goes on to its next chunk, if there is one.
Advance(r, s) ==
  [s EXCEPT !.pc = IF s.at = Len(Plan[r]) THEN "end" ELSE "get", !.at = s.at + 1]

CancelReader(r) ==
  /\ r \in Impatient
  /\ reader[r].pc # "end" /\ ~reader[r].cancelled
  /\ reader' = [reader EXCEPT ![r].cancelled = TRUE]
  /\ UNCHANGED <<calls, flight, slots, faults, used, waiters, sem>>

\* Do joins a load only while somebody still waits for it.
Joinable(k) == calls[k] # 0 /\ flight[<<k, calls[k]>>].users > 0

\* FlightGroup.Do up to wait.
Do(r) ==
  LET s == reader[r]
      k == Plan[r][s.at]
      current == <<k, calls[k]>>
      fresh == CHOOSE n \in 1..MaxCalls :
                 /\ flight[<<k, n>>].pc = "unborn"
                 /\ \A m \in 1..(n - 1) : flight[<<k, m>>].pc # "unborn"
  IN /\ s.pc = "get"
     /\ \/ /\ s.cancelled
           /\ reader' = [reader EXCEPT ![r] = Fail(s, "cancelled")]
           /\ UNCHANGED <<calls, flight>>
        \/ /\ ~s.cancelled /\ Joinable(k)
           /\ flight' = [flight EXCEPT ![current].users = @ + 1]
           /\ reader' = [reader EXCEPT ![r] = [s EXCEPT !.pc = "wait", !.on = current]]
           /\ UNCHANGED calls
        \/ /\ ~s.cancelled /\ ~Joinable(k)
           /\ calls' = [calls EXCEPT ![k] = fresh]
           /\ flight' = [flight EXCEPT ![<<k, fresh>>] = [Unborn EXCEPT !.pc = "slot", !.users = 1]]
           /\ reader' = [reader EXCEPT ![r] = [s EXCEPT !.pc = "wait", !.on = <<k, fresh>>]]
     /\ UNCHANGED <<slots, faults, used, waiters, sem>>

\* A finalizer due as soon as the load has completed.
FinalizeAtOnce(c) == ~c.finalized /\ c.completed
\* A finalizer that is left to the readers even if none is there any more.
FinalizeByReader(c) == ~c.finalized /\ c.completed /\ (c.err # "" \/ c.users = 0) /\ c.pc = "closed"
\* takeFinalizerLocked returns a finalizer.
FinalizerDue(c) == ~c.finalized /\ c.completed /\ (c.err # "" \/ c.users = 0)

\* takeFinalizerLocked; the caller of it runs the finalizer if it was due.
Finalized(c) == [c EXCEPT !.finalized = @ \/ FinalizerDue(c)]

\* A finalizer gives a reservation back only where the load succeeded.
MustFree(c) == FinalizerDue(c) /\ c.err = ""

\* One user less, and the data dropped with the last one.
Left(c) == [c EXCEPT !.users = @ - 1, !.data = @ /\ c.users > 1]

\* wait finds the load done.
WaitDone(r) ==
  LET s == reader[r]
      c == flight[s.on]
  IN /\ s.pc = "wait" /\ c.pc = "closed"
     /\ reader' = [reader EXCEPT ![r] = IF c.err = "" THEN [s EXCEPT !.pc = "lease"] ELSE Fail(s, c.err)]
     /\ UNCHANGED <<calls, flight, slots, faults, used, waiters, sem>>

\* abandon cancels a load nobody waits for any more.
CancelsLoad(c) == ~c.completed /\ c.users = 0

\* wait finds the context done, and abandons the load.
Abandon(r) ==
  LET s == reader[r]
      left == Left(flight[s.on])
  IN /\ s.pc = "wait" /\ s.cancelled
     /\ flight' = [flight EXCEPT ![s.on] =
                     [Finalized(left) EXCEPT !.cancelled = @ \/ CancelsLoad(left)]]
     /\ reader' = [reader EXCEPT ![r] =
                     IF MustFree(left) THEN [s EXCEPT !.pc = "free", !.err = "cancelled"]
                                       ELSE Fail(s, "cancelled")]
     /\ UNCHANGED <<calls, slots, faults, used, waiters, sem>>

\* copyChunkLease: look at the context, copy, release the lease (releaseUser).
CopyAndRelease(r) ==
  LET s == reader[r]
      left == Left(flight[s.on])
      err == IF s.cancelled THEN "cancelled" ELSE ""
  IN /\ s.pc = "lease"
     /\ flight' = [flight EXCEPT ![s.on] = Finalized(left)]
     /\ reader' = [reader EXCEPT ![r] =
                     IF MustFree(left) THEN [s EXCEPT !.pc = "free", !.err = err]
                     ELSE IF s.cancelled THEN Fail(s, err) ELSE Advance(r, s)]
     /\ UNCHANGED <<calls, slots, faults, used, waiters, sem>>

\* acquireDownload's release: the bytes, then the slot.
FreeDownload(f) == Release(f) /\ slots' = slots \ {f}

\* The finalizer, run by the last reader to leave.
ReaderFrees(r) ==
  LET s == reader[r]
  IN /\ s.pc = "free"
     /\ FreeDownload(s.on)
     /\ reader' = [reader EXCEPT ![r] = IF s.err # "" THEN Fail(s, s.err) ELSE Advance(r, s)]
     /\ UNCHANGED <<calls, flight, faults>>

-----------------------------------------------------------------------------
(* The loader goroutine of a flight: FlightGroup.run with the load of getChunk *)

LoadFails(f, err) == flight' = [flight EXCEPT ![f].pc = "complete", ![f].err = err]

GoTo(f, pc) == flight' = [flight EXCEPT ![f].pc = pc]

\* acquireDownload: a slot, or the end of the load's context.
TakeSlot(f) ==
  /\ flight[f].pc = "slot"
  /\ \/ /\ Cardinality(slots) < MaxSlots
        /\ slots' = slots \union {f} /\ GoTo(f, "bytes")
     \/ /\ flight[f].cancelled
        /\ LoadFails(f, "cancelled") /\ UNCHANGED slots
  /\ UNCHANGED <<calls, reader, faults, used, waiters, sem>>

\* A failed byte reservation that keeps the slot.
SlotKept(f) == slots
\* A failed byte reservation gives the slot back.
SlotReturned(f) == slots \ {f}

\* acquireDownload: ask for the bytes.  NewConsumer sees to it that every chunk fits
\* the budget, so Acquire's refusal of an oversized weight is not reached.
AskBytes(f) ==
  /\ flight[f].pc = "bytes" /\ sem[f] = "none"
  /\ \/ /\ flight[f].cancelled
        /\ LoadFails(f, "cancelled") /\ slots' = SlotReturned(f)
        /\ UNCHANGED <<used, waiters, sem>>
     \/ /\ ~flight[f].cancelled
        /\ Acquire(f)
        /\ GoTo(f, IF FastPath(f) THEN "load" ELSE "bytes") /\ UNCHANGED slots
  /\ UNCHANGED <<calls, reader, faults>>

BytesGranted(f) ==
  /\ flight[f].pc = "bytes"
  /\ Take(f) /\ GoTo(f, "load")
  /\ UNCHANGED <<calls, slots, reader, faults>>

BytesCancelled(f) ==
  /\ flight[f].pc = "bytes" /\ flight[f].cancelled
  /\ Cancel(f) /\ LoadFails(f, "cancelled") /\ slots' = SlotReturned(f)
  /\ UNCHANGED <<calls, reader, faults>>

\* getChunk between admission and return: the cache or the store has the chunk,
\* or the load fails and its deferred release frees the reservation.
Load(f) ==
  /\ flight[f].pc = "load"
  /\ \/ /\ flight' = [flight EXCEPT ![f].pc = "complete", ![f].data = TRUE]
        /\ UNCHANGED <<slots, faults, used, waiters, sem>>
     \/ /\ flight[f].cancelled
        /\ LoadFails(f, "cancelled") /\ FreeDownload(f) /\ UNCHANGED faults
     \/ /\ faults < MaxFaults
        /\ LoadFails(f, "failed") /\ FreeDownload(f) /\ faults' = faults + 1
  /\ UNCHANGED <<calls, reader>>

\* run deletes the group's entry only if it is still its own.
Forgotten(f) == [calls EXCEPT ![f[1]] = IF @ = f[2] THEN 0 ELSE @]

\* run's critical section.
Complete(f) ==
  LET c == [flight[f] EXCEPT !.completed = TRUE, !.cancelled = TRUE]
  IN /\ flight[f].pc = "complete"
     /\ calls' = Forgotten(f)
     /\ flight' = [flight EXCEPT ![f] = [Finalized(c) EXCEPT !.pc = IF MustFree(c) THEN "free" ELSE "close"]]
     /\ UNCHANGED <<slots, reader, faults, used, waiters, sem>>

\* The finalizer, run by a loader nobody waits for any more.
LoaderFrees(f) ==
  /\ flight[f].pc = "free"
  /\ FreeDownload(f) /\ GoTo(f, "close")
  /\ UNCHANGED <<calls, reader, faults>>

CloseDone(f) ==
  /\ flight[f].pc = "close"
  /\ GoTo(f, "closed")
  /\ UNCHANGED <<calls, slots, reader, faults, used, waiters, sem>>

ReaderStep(r) == Do(r) \/ WaitDone(r) \/ Abandon(r) \/ CopyAndRelease(r) \/ ReaderFrees(r)

LoaderStep(f) ==
  \/ TakeSlot(f) \/ AskBytes(f) \/ BytesGranted(f) \/ BytesCancelled(f)
  \/ Load(f) \/ Complete(f) \/ LoaderFrees(f) \/ CloseDone(f)

Quiet == (\A r \in Readers : reader[r].pc = "end") /\ (\A f \in Flights : flight[f].pc \in {"unborn", "closed"})

\* Every read has returned and every loader goroutine has ended.
Finished == Quiet /\ UNCHANGED vars

Next ==
  \/ \E r \in Readers : CancelReader(r)
  \/ \E r \in Readers : ReaderStep(r)
  \/ \E f \in Flights : LoaderStep(f)
  \/ Finished

Spec == Init /\ [][Next]_vars

\* Goroutines run; a slot is a channel send and the Go runtime queues senders in
\* order, so a loader that waits for a slot gets one that is freed again and again.
FairSpec ==
  /\ Spec
  /\ \A r \in Readers : WF_vars(ReaderStep(r))
  /\ \A f \in Flights : SF_vars(LoaderStep(f))

-----------------------------------------------------------------------------
(* Properties; UsedIsHeld, HeadDoesNotFit and NoOvertaking are those of the budget *)

\* Readers that are users of flight f.
UsersOf(f) == {r \in Readers : reader[r].on = f /\ reader[r].pc \in {"wait", "lease"}}

\* While a reader copies from a lease the bytes are there and are still charged
\* against the budget and the slots, whatever the other readers of the same load
\* have done: the memory a consumer pins never exceeds its configured limits.
LeaseIsReserved ==
  \A r \in Readers : reader[r].pc = "lease" =>
    LET f == reader[r].on
    IN flight[f].data /\ ~flight[f].finalized /\ sem[f] = "held" /\ f \in slots

\* Reservations are freed exactly once: a flight occupies a slot exactly from its
\* admission until its finalizer, and a finished system holds nothing.
ReservationsReturn ==
  /\ \A f \in Flights : sem[f] # "none" => f \in slots
  /\ Quiet => slots = {} /\ used = 0 /\ waiters = <<>>

\* Nobody inherits a cancellation: a read whose own context is live never fails
\* because somebody else's context was cancelled.
OwnCancellationOnly ==
  \A r \in Readers : reader[r].err = "cancelled" => reader[r].cancelled

\* Loads are shared: two loads of one chunk that somebody still waits for never
\* run at the same time.
OneLoadPerChunk ==
  \A f, g \in Flights :
    /\ f[1] = g[1] /\ f # g
    /\ ~flight[f].completed /\ ~flight[g].completed
    => UsersOf(f) = {} \/ UsersOf(g) = {}

\* Every read returns, and every loader goroutine ends.
EveryReadReturns == <>Quiet
=============================================================================
