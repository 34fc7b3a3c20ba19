------------------------------- MODULE Views -------------------------------
(***************************************************************************)
(* What readers are shown: by consumers of the signed channel (Consumer)   *)
(* and by the reader of a presigned share (ShareReader).  A behaviour is   *)
(* one of the two, named by part; in the other one the variables of        *)
(* Consumer keep their initial values and those of ShareReader are 0.      *)
(***************************************************************************)
EXTENDS Consumer

CONSTANTS Callers, Signed, Foreign, MaxCaps, MaxCapBytes, MaxUpsets, MaxFailures

VARIABLES
  part,
  root, current, retained, retainedBytes, gate, caller, given, expired, setbacks, failures

S == INSTANCE ShareReader

reader == <<root, current, retained, retainedBytes, gate, caller, given, expired, setbacks, failures>>

NoReader ==
  /\ root = 0 /\ current = 0 /\ retained = 0 /\ retainedBytes = 0 /\ gate = 0
  /\ caller = 0 /\ given = 0 /\ expired = 0 /\ setbacks = 0 /\ failures = 0

ViewsInit ==
  /\ Init
  /\ \/ part = "consumer" /\ NoReader
     \/ part = "reader" /\ S!Init

ViewsNext ==
  \/ part = "consumer" /\ Next /\ UNCHANGED <<part, reader>>
  \/ part = "reader" /\ S!Next /\ UNCHANGED <<part, vars>>

ViewsSpec == ViewsInit /\ [][ViewsNext]_<<part, vars, reader>>

-----------------------------------------------------------------------------
(* Properties *)

\* Views only move forwards: a consumer never takes its users to an older generation or another
\* history (Refresh), and neither does a share reader, whatever the root becomes (installBundle).
ViewsAdvance == [][ViewsMoveOn /\ (part = "reader" => S!Advances)]_<<vars, reader>>

\* Every object of every snapshot a caller was given stays readable, and what is retained for
\* that is charged for exactly and within the budgets (installBundle).
HandlesStayReadable == part = "reader" => S!HandlesStayReadable /\ S!RetentionIsAccounted

\* While nobody tampers with the root no caller is told of a rollback or a split: polls that
\* overlap cannot install their answers in the wrong order (refreshGate).
NoFalseAlarm == part = "reader" => S!NoFalseAlarm

\* No caller is denied an object of a snapshot that was handed out, nor one of a bundle that
\* another caller has read already and is about to install (getImmutable waits for refreshGate).
DenialIsTrue == [][part = "reader" => S!Denies]_reader
=============================================================================
