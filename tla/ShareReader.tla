------------------------------ MODULE ShareReader ------------------------------
(***************************************************************************)
(* The recipient's reader of a share (presignedshare/reader.go): Get of    *)
(* the reference polls the root bundle with the ETag of the bundle it has, *)
(* verifies it and installs it; Get of an immutable object goes through a  *)
(* capability of a bundle that was installed.  One gate serialises the     *)
(* polls; the state they install into has a lock of its own.               *)
(*                                                                         *)
(* A bundle is one of two variants of a revision: the one the publisher    *)
(* signed, or one that another history signed.  The root object is written *)
(* forwards by the publisher, encrypted anew at will (a new ETag over the  *)
(* same bundle), and, as mishaps, set back or replaced by the other        *)
(* variant.  An ETag names the bundle and its encryption.                  *)
(***************************************************************************)
EXTENDS Naturals, Sequences, FiniteSets, FiniteSetsExt

CONSTANTS
  Callers,        \* goroutines that call Get
  Signed,         \* the bundles by revision: generation, commit and the charge of each capability
  Foreign,        \* the other variant of each revision
  MaxCaps,        \* maxRetainedCapabilities
  MaxCapBytes,    \* maxRetainedCapabilityBytes
  MaxUpsets,      \* bound on mishaps at the root and new encryptions of what it holds
  MaxFailures     \* bound on requests that fail or contexts that end

VARIABLES
  root,       \* the root object: a bundle and the number of its encryption
  current,    \* state.current: the bundle and its ETag, or NoBundle
  retained,   \* state.retainedCapabilities, with the charge of each
  retainedBytes,
  gate,       \* the caller that holds refreshGate, or none
  caller,     \* the goroutines
  given,      \* bundles whose reference a caller has been given
  expired,    \* the fixed authorization has ended
  setbacks, failures

vars == <<root, current, retained, retainedBytes, gate, caller, given, expired, setbacks, failures>>

state == <<current, retained, retainedBytes>>

Bundle(b) == IF b.foreign THEN Foreign[b.revision] ELSE Signed[b.revision]
Caps(b) == Bundle(b).caps

Keys == UNION {DOMAIN Signed[r].caps \union DOMAIN Foreign[r].caps : r \in DOMAIN Signed}

NoBundle == [revision |-> 0]
Nobody == "nobody"
\* What a caller wants: the reference, or the object of a key.
Reference == "reference"
Idle(answer) == [pc |-> "idle", answer |-> answer]

Charge(caps, S) == MapThenSumSet(LAMBDA k : caps[k], S)

Init ==
  /\ root = [bundle |-> [revision |-> 1, foreign |-> FALSE], seal |-> 0]
  /\ current = NoBundle /\ retained = <<>> /\ retainedBytes = 0
  /\ gate = Nobody
  /\ caller = [c \in Callers |-> Idle("none")]
  /\ given = {}
  /\ expired = FALSE
  /\ setbacks = 0 /\ failures = 0

-----------------------------------------------------------------------------
(* The root object *)

\* The publisher replaces the root by its next revision.
Publish ==
  /\ ~root.bundle.foreign /\ root.bundle.revision < Len(Signed)
  /\ root' = [bundle |-> [root.bundle EXCEPT !.revision = @ + 1], seal |-> 0]
  /\ UNCHANGED <<state, gate, caller, given, expired, setbacks, failures>>

\* The same bundle is written again under a new encryption.
Rewrite ==
  /\ root.seal + setbacks < MaxUpsets
  /\ root' = [root EXCEPT !.seal = @ + 1]
  /\ UNCHANGED <<state, gate, caller, given, expired, setbacks, failures>>

\* The root is set back, or replaced by the bundle of another history.
Setback ==
  /\ root.seal + setbacks < MaxUpsets /\ setbacks' = setbacks + 1
  /\ \E r \in DOMAIN Signed, f \in BOOLEAN :
       root' = [bundle |-> [revision |-> r, foreign |-> f], seal |-> 0]
  /\ UNCHANGED <<state, gate, caller, given, expired, failures>>

Expire ==
  /\ ~expired /\ expired' = TRUE
  /\ UNCHANGED <<root, state, gate, caller, given, setbacks, failures>>

-----------------------------------------------------------------------------
(* Installing a bundle *)

\* The union of old and new capabilities is within both budgets.
UnionFits(kept, keptBytes, caps) ==
  /\ Cardinality(kept) + Cardinality(DOMAIN caps) <= MaxCaps
  /\ keptBytes + Charge(caps, DOMAIN caps) <= MaxCapBytes

Fits(caps) == UnionFits({}, 0, caps)

\* Capabilities of the bundle before are dropped when a new one comes.
ForgetOlder(caps) == [k \in DOMAIN retained \ DOMAIN caps |-> retained[k]]
\* The older capabilities that a bundle with these does not bring itself.
Kept(caps) ==
  LET before == Caps(current.bundle)
  IN [k \in (DOMAIN retained \union DOMAIN before) \ DOMAIN caps |->
        IF k \in DOMAIN retained THEN retained[k] ELSE before[k]]

\* Their bytes: what was retained, what the current bundle adds, less what the new one takes over.
KeptBytes(caps) ==
  LET before == Caps(current.bundle)
      charge(k) == IF k \in DOMAIN retained THEN retained[k] ELSE before[k]
      all == DOMAIN retained \union DOMAIN before
  IN retainedBytes + Charge(before, DOMAIN before \ DOMAIN retained)
       - MapThenSumSet(charge, DOMAIN caps \cap all)

\* A reader that compares revisions only.
RevisionOnly(b) == IF b.revision < current.bundle.revision THEN "alarm" ELSE "ok"
\* The checks of installBundle against the current bundle, in their order.  Other bytes under the
\* same ETag, which it checks next, cannot come: an ETag names its bundle.
Verdict(b) ==
  LET old == current.bundle
      new == Bundle(b)
      was == Bundle(old)
  IN CASE b.revision < old.revision -> "alarm"
       [] b.revision = old.revision -> IF b = old THEN "same" ELSE "alarm"
       [] new.generation < was.generation -> "alarm"
       [] new.generation = was.generation /\ new.commit # was.commit -> "alarm"
       [] OTHER -> "ok"

\* installBundle: the outcome, and the state after it.
Install(b, tag) ==
  LET caps == Caps(b)
      next == [revision |-> b.revision, bundle |-> b, tag |-> tag]
  IN \/ ~Fits(caps) /\ UNCHANGED state
     \/ /\ Fits(caps) /\ current = NoBundle
        /\ current' = next /\ UNCHANGED <<retained, retainedBytes>>
     \/ /\ Fits(caps) /\ current # NoBundle
        /\ \/ Verdict(b) = "alarm" /\ UNCHANGED state
           \/ Verdict(b) = "same" /\ current' = next /\ UNCHANGED <<retained, retainedBytes>>
           \/ /\ Verdict(b) = "ok" /\ ~UnionFits(DOMAIN Kept(caps), KeptBytes(caps), caps)
              /\ UNCHANGED state
           \/ /\ Verdict(b) = "ok" /\ UnionFits(DOMAIN Kept(caps), KeptBytes(caps), caps)
              /\ current' = next
              /\ retained' = Kept(caps)
              /\ retainedBytes' = KeptBytes(caps)

\* What installBundle returns.
InstallError(b) ==
  LET caps == Caps(b)
  IN IF ~Fits(caps) THEN "limit"
     ELSE IF current = NoBundle \/ Verdict(b) = "same" THEN "ok"
     ELSE IF Verdict(b) = "alarm" THEN "alarm"
     ELSE IF UnionFits(DOMAIN Kept(caps), KeptBytes(caps), caps) THEN "ok" ELSE "limit"

-----------------------------------------------------------------------------
(* Get *)

Step(c, s) == caller' = [caller EXCEPT ![c] = s]

\* A gate that lets everybody in.
OpenGate == TRUE
\* acquireRefresh finds the gate free.
GateIsFree == gate = Nobody

HasCurrent == current # NoBundle
Available == DOMAIN retained \union (IF HasCurrent THEN DOMAIN Caps(current.bundle) ELSE {})

\* Get of the reference, up to the gate.
GetReference(c) ==
  /\ caller[c].pc = "idle" /\ ~expired
  /\ Step(c, [pc |-> "gate", want |-> Reference])
  /\ UNCHANGED <<root, state, gate, given, expired, setbacks, failures>>

\* acquireRefresh, and the ETag the poll is sent with.  A bootstrap that finds a bundle
\* installed by somebody else gives the gate back and polls nothing.
Acquire(c) ==
  /\ caller[c].pc = "gate" /\ GateIsFree
  /\ \/ /\ caller[c].want # Reference /\ HasCurrent
        /\ Step(c, [pc |-> "find again", want |-> caller[c].want]) /\ UNCHANGED gate
     \/ /\ caller[c].want = Reference \/ ~HasCurrent
        /\ Step(c, [pc |-> "ask", want |-> caller[c].want, tag |-> IF HasCurrent THEN current.tag ELSE <<>>])
        /\ gate' = c
  /\ UNCHANGED <<root, state, given, expired, setbacks, failures>>

Tag(r) == <<r.bundle, r.seal>>

\* The store answers the poll: not modified, or the root as it is now.
Respond(c) ==
  /\ caller[c].pc = "ask" /\ ~expired
  /\ Step(c, [pc |-> "answer", want |-> caller[c].want,
              got |-> IF caller[c].tag = Tag(root) THEN {} ELSE {root}])
  /\ UNCHANGED <<root, state, gate, given, expired, setbacks, failures>>

\* The poll is over: the gate is free, and a bootstrap that succeeded looks for its key again.
Finish(c, error) ==
  /\ gate' = IF gate = c THEN Nobody ELSE gate
  /\ Step(c, IF caller[c].want # Reference /\ error = "ok" THEN [pc |-> "find again", want |-> caller[c].want]
             ELSE Idle(error))

\* The rest of getReferenceLocked: install what was read, and answer from the current bundle.
Answer(c) ==
  /\ caller[c].pc = "answer"
  /\ \/ /\ caller[c].got = {} /\ UNCHANGED state
        /\ Finish(c, "ok")
     \/ \E r \in caller[c].got :
          /\ Install(r.bundle, Tag(r))
          /\ Finish(c, InstallError(r.bundle))
  /\ given' = IF caller'[c] = Idle("ok") THEN given \union {current'.bundle} ELSE given
  /\ UNCHANGED <<root, expired, setbacks, failures>>

\* The request fails, the root cannot be verified, or the context ends at the gate or later.
PollFails(c) ==
  /\ caller[c].pc \in {"gate", "ask", "answer", "recheck"}
  /\ \/ failures < MaxFailures /\ failures' = failures + 1
     \/ expired /\ UNCHANGED failures
  /\ gate' = IF gate = c THEN Nobody ELSE gate
  /\ Step(c, Idle("error"))
  /\ UNCHANGED <<root, state, given, expired, setbacks>>

\* getImmutable, first lookup.
GetImmutable(c) ==
  /\ caller[c].pc = "idle" /\ ~expired
  /\ \E k \in Keys :
       Step(c, IF k \in Available THEN [pc |-> "fetch", want |-> k] ELSE [pc |-> "missed", want |-> k])
  /\ UNCHANGED <<root, state, gate, given, expired, setbacks, failures>>

\* It was not found: bootstrap if there is no bundle at all, otherwise synchronise with a poll.
Missed(c) ==
  /\ caller[c].pc = "missed"
  /\ Step(c, IF HasCurrent THEN [pc |-> "recheck", want |-> caller[c].want]
             ELSE [pc |-> "gate", want |-> caller[c].want])
  /\ UNCHANGED <<root, state, gate, given, expired, setbacks, failures>>

\* The lookup after a bootstrap.
FindAgain(c) ==
  /\ caller[c].pc = "find again"
  /\ Step(c, [pc |-> IF caller[c].want \in Available THEN "fetch" ELSE "recheck", want |-> caller[c].want])
  /\ UNCHANGED <<root, state, gate, given, expired, setbacks, failures>>

\* A bug to catch: the denial does not wait for the poll that is under way.
RecheckAtOnce(c) ==
  /\ caller[c].pc = "recheck"
  /\ Step(c, IF caller[c].want \in Available THEN [pc |-> "fetch", want |-> caller[c].want] ELSE Idle("denied"))
  /\ UNCHANGED <<root, state, gate, given, expired, setbacks, failures>>

\* The lookup under the gate, and the denial if it fails.
Recheck(c) ==
  /\ caller[c].pc = "recheck" /\ GateIsFree
  /\ Step(c, IF caller[c].want \in Available THEN [pc |-> "fetch", want |-> caller[c].want] ELSE Idle("denied"))
  /\ UNCHANGED <<root, state, gate, given, expired, setbacks, failures>>

\* The object is read through its capability, or the request fails.
Fetch(c) ==
  /\ caller[c].pc = "fetch"
  /\ \/ ~expired /\ Step(c, Idle("ok")) /\ UNCHANGED failures
     \/ expired /\ Step(c, Idle("error")) /\ UNCHANGED failures
     \/ failures < MaxFailures /\ failures' = failures + 1 /\ Step(c, Idle("error"))
  /\ UNCHANGED <<root, state, gate, given, expired, setbacks>>

Next ==
  \/ Publish \/ Rewrite \/ Setback \/ Expire
  \/ \E c \in Callers :
       \/ GetReference(c) \/ Acquire(c) \/ Respond(c) \/ Answer(c) \/ PollFails(c)
       \/ GetImmutable(c) \/ Missed(c) \/ FindAgain(c) \/ Recheck(c) \/ Fetch(c)

Spec == Init /\ [][Next]_vars

\* What the parser of a bundle and the reader guarantee of the constants.
BundlesAreValid ==
  /\ Nobody \notin Callers
  /\ Len(Signed) \in Nat \ {0} /\ DOMAIN Signed = 1..Len(Signed)
  /\ \A r \in DOMAIN Signed : Signed[r].generation \in Nat /\ Foreign[r].generation \in Nat

\* The publisher does what it promises: its revisions never go back to an older generation or to
\* another commit of the same one.
HonestPublisher ==
  \A i, j \in DOMAIN Signed : i <= j =>
    /\ Signed[i].generation <= Signed[j].generation
    /\ Signed[i].generation = Signed[j].generation => Signed[i].commit = Signed[j].commit

-----------------------------------------------------------------------------
(* Properties *)

\* Every object of every snapshot whose reference was handed out stays readable through the
\* reader, whatever bundles came after it; a bundle for which that cannot be afforded is refused
\* as a whole (installBundle keeps the union of all capabilities).
HandlesStayReadable == \A b \in given : DOMAIN Caps(b) \subseteq Available

\* The retained capabilities are charged for exactly, are not charged twice when the current
\* bundle brings them too, and stay within both budgets together with the current bundle.
RetentionIsAccounted ==
  /\ retainedBytes = Charge(retained, DOMAIN retained)
  /\ HasCurrent =>
       /\ DOMAIN retained \cap DOMAIN Caps(current.bundle) = {}
       /\ Cardinality(Available) <= MaxCaps
       /\ retainedBytes + Charge(Caps(current.bundle), DOMAIN Caps(current.bundle)) <= MaxCapBytes

\* What the reader exposes only moves forwards: not to an older revision or generation, not to
\* other bytes of a revision, not to another commit of a generation, whatever the root becomes.
Advances ==
  current # NoBundle =>
    LET old == current.bundle
        new == current'.bundle
    IN \/ new = old
       \/ /\ new.revision > old.revision
          /\ \/ Bundle(new).generation > Bundle(old).generation
             \/ /\ Bundle(new).generation = Bundle(old).generation
                /\ Bundle(new).commit = Bundle(old).commit
ReaderAdvances == [][Advances]_vars

\* While nobody tampers with the root no caller is told of a rollback or a split: polls that
\* overlap cannot install their answers in the wrong order (refreshGate).
NoFalseAlarm == setbacks = 0 => \A c \in Callers : caller[c] # Idle("alarm")

\* The bundles a denial has to know of: those whose reference was handed out, and those that the
\* store has answered a poll with.
Known == given \union {r.bundle : r \in UNION {caller[d].got : d \in {e \in Callers : caller[e].pc = "answer"}}}

\* No caller is denied an object of a snapshot that was handed out, whatever came after it, nor
\* one of a bundle that another caller has read already and is about to install: getImmutable
\* waits for the poll that is under way before it denies (refreshGate).
Denies ==
  \A c \in Callers :
    caller'[c] = Idle("denied") /\ caller[c].pc # "idle" => \A b \in Known : caller[c].want \notin DOMAIN Caps(b)
DenialIsTrue == [][Denies]_vars
=============================================================================
