----------------------------- MODULE MCMountSet -----------------------------
(***************************************************************************)
(* An instance of MountSet for TLC: two workspaces that are apart.         *)
(***************************************************************************)
EXTENDS MountSet

Pair == <<"a", "b">>
Entry(s, m) == [share |-> s, mountpoint |-> <<m>>, handoff |-> <<"h">>, dirs |-> {<<"s">>}]
Apart == {[a |-> Entry(1, "x"), b |-> Entry(2, "y")]}
Path == <<"h">>
=============================================================================
