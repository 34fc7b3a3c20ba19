-------------------------- MODULE SnapshotClosure --------------------------
(***************************************************************************)
(* Repository.ResolveSnapshotClosure (snapshot_closure.go): the exact keys *)
(* a share has to grant.  The walk adds every commit back to generation    *)
(* one and then, depth first over a stack, everything the current root     *)
(* reaches, and charges what it meets to three budgets.  An object that is *)
(* reached many times is walked and charged once; a reference to it is an  *)
(* edge every time.                                                        *)
(*                                                                         *)
(* An object is its kind and digest; a directory refers to its entries and *)
(* a file to its chunks.  Objects are immutable, so the graph is fixed in  *)
(* Init; it may be one a correct publisher would not write, in which an    *)
(* entry states a wrong size or a commit is not the one its child needs.   *)
(* Every manifest counts as one byte.                                      *)
(***************************************************************************)
EXTENDS Naturals, Sequences, FiniteSets, SequencesExt

CONSTANTS
  Root,         \* the object that is the current root
  Trees,        \* the graphs to walk: from every manifest to its references, in order
  SizeOf,       \* the size a file or symlink manifest states
  Generations,  \* generations of the reference
  Limits,       \* the budgets: objects, edges and bytes of metadata
  MaxDepth      \* maxLookupDepth

VARIABLES
  tree,         \* the objects of the store
  generation,   \* of the reference
  broken,       \* the generation whose commit does not validate, 0 if there is none
  limits,       \* MaxObjects, MaxEdges, MaxMetadataBytes
  walker,       \* snapshotClosureWalker and the error it ended with
  commit,       \* the generation the loop over the ancestry has reached
  at            \* "start", "ancestry", "walk" or "end"

vars == <<tree, generation, broken, limits, walker, commit, at>>
input == <<tree, generation, broken, limits>>

Commit(g) == [kind |-> "commit", generation |-> g]
Object(ref) == [kind |-> ref.kind, digest |-> ref.digest]

Init ==
  /\ tree \in Trees /\ generation \in Generations /\ limits \in Limits
  /\ broken \in 0..generation
  /\ walker = [keys |-> {}, scheduled |-> {}, sizes |-> {}, work |-> <<>>, edges |-> 0, bytes |-> 0, err |-> ""]
  /\ commit = generation /\ at = "start"

-----------------------------------------------------------------------------
(* The walker: each operation leaves a walker that has failed alone. *)

Fails(w, err) == [w EXCEPT !.err = err]

AddKey(w, object) ==
  IF w.err # "" \/ object \in w.keys THEN w
  ELSE IF Cardinality(w.keys) >= limits.objects THEN Fails(w, "limit")
  ELSE [w EXCEPT !.keys = @ \cup {object}]

AddEdge(w) ==
  IF w.err # "" THEN w
  ELSE IF w.edges >= limits.edges THEN Fails(w, "limit")
  ELSE [w EXCEPT !.edges = @ + 1]

GetManifest(w) ==
  IF w.err # "" THEN w
  ELSE IF limits.bytes - w.bytes < 1 THEN Fails(w, "limit")
  ELSE [w EXCEPT !.bytes = @ + 1]

\* A bug to catch: an object is walked for every reference to it.
WalkAgain(w, object) == TRUE
\* schedule walks an object once.
Unscheduled(w, object) == object \notin w.scheduled

\* fileSizes and linkSizes: all references agree on the size.
Conflicting(w, ref) ==
  ref.kind # "dir" /\ \E known \in w.sizes : known.digest = ref.digest /\ known.kind = ref.kind /\ known.size # ref.size

Schedule(w, ref, depth) ==
  LET noted == IF ref.kind = "dir" THEN w ELSE [w EXCEPT !.sizes = @ \cup {ref}]
      added == AddKey(noted, Object(ref))
  IN IF w.err # "" THEN w
     ELSE IF depth > MaxDepth THEN Fails(w, "limit")
     ELSE IF Conflicting(w, ref) THEN Fails(w, "corrupt")
     ELSE IF ~Unscheduled(w, Object(ref)) THEN noted
     ELSE IF added.err # "" THEN added
     ELSE [added EXCEPT !.scheduled = @ \cup {Object(ref)},
                        !.work = Append(@, [ref |-> ref, depth |-> depth])]

\* The entries of a directory, in order.
WalkDirectory(w, item) ==
  FoldLeft(LAMBDA acc, ref : Schedule(AddEdge(acc), ref, item.depth + 1), GetManifest(w), tree[Object(item.ref)])

\* The chunks of a file: keys, and edges even where they repeat.
WalkFile(w, item) ==
  LET read == GetManifest(w)
      sized == IF read.err = "" /\ item.ref.size # SizeOf[item.ref.digest] THEN Fails(read, "corrupt") ELSE read
  IN FoldLeft(LAMBDA acc, ref : AddKey(AddEdge(acc), Object(ref)), sized, tree[Object(item.ref)])

WalkSymlink(w, item) ==
  LET read == GetManifest(w)
  IN IF read.err = "" /\ item.ref.size # SizeOf[item.ref.digest] THEN Fails(read, "corrupt") ELSE read

-----------------------------------------------------------------------------
(* The steps *)

Continue(w, then) == walker' = w /\ at' = (IF w.err # "" THEN "end" ELSE then) /\ UNCHANGED input

\* validateCommitManifest of the commit of generation g, and that it has a parent.
Validated(w, g) == IF w.err = "" /\ broken = g THEN Fails(w, "corrupt") ELSE w

\* The reference and its commit.
Start ==
  /\ at = "start"
  /\ Continue(IF generation > limits.objects THEN Fails(walker, "limit")
              ELSE Validated(GetManifest(walker), generation), "ancestry")
  /\ UNCHANGED commit

\* The ancestry is read back to generation one.
FirstCommit(g) == g = 1

\* One turn of the loop over the ancestry.
Ancestry ==
  /\ at = "ancestry"
  /\ LET added == AddKey(walker, Commit(commit))
         parent == Validated(GetManifest(added), commit - 1)
     IN \/ /\ FirstCommit(commit) /\ UNCHANGED commit
           /\ Continue(Schedule(added, Root, 0), "walk")
        \/ /\ ~FirstCommit(commit) /\ commit' = commit - 1
           /\ Continue(parent, "ancestry")

Walk ==
  /\ at = "walk" /\ walker.work # <<>>
  /\ LET item == Last(walker.work)
         popped == [walker EXCEPT !.work = Front(@)]
     IN Continue(CASE item.ref.kind = "dir" -> WalkDirectory(popped, item)
                   [] item.ref.kind = "file" -> WalkFile(popped, item)
                   [] item.ref.kind = "symlink" -> WalkSymlink(popped, item), "walk")
  /\ UNCHANGED commit

Return == at = "walk" /\ walker.work = <<>> /\ at' = "end" /\ UNCHANGED <<input, walker, commit>>

Next == Start \/ Ancestry \/ Walk \/ Return

Spec == Init /\ [][Next]_vars

-----------------------------------------------------------------------------
(* Properties *)

TypeOK ==
  /\ at \in {"start", "ancestry", "walk", "end"} /\ commit \in 1..generation
  /\ walker.err \in {"", "limit", "corrupt"} /\ walker.edges \in Nat /\ walker.bytes \in Nat

\* What is reachable, by rounds over the graph instead of by a stack.
Refs(objects) == UNION {Range(tree[o]) : o \in objects \cap DOMAIN tree}
Reachable ==
  LET round[n \in 0..Cardinality(DOMAIN tree)] ==
        IF n = 0 THEN {Object(Root)} ELSE round[n - 1] \cup {Object(ref) : ref \in Refs(round[n - 1])}
  IN round[Cardinality(DOMAIN tree)]
DirectoryObjects == Reachable \cap DOMAIN tree
AllEdges == FoldLeft(LAMBDA sum, o : sum + Len(tree[o]), 0, SetToSeq(DirectoryObjects))

\* Objects that a path of n entries leads to.
Below[n \in 0..(MaxDepth + 1)] ==
  IF n = 0 THEN {Object(Root)} ELSE {Object(ref) : ref \in {r \in Refs(Below[n - 1]) : r.kind # "chunk"}}

\* The closure is the commits back to the first one and exactly what the root reaches,
\* within its budgets; and the walk gives up only where the exact closure is above a
\* budget or the objects contradict each other (ObjectKeys: "the exact immutable object
\* keys needed to consume it").
ClosureIsExact ==
  at = "end" =>
    LET exact == Reachable \cup {Commit(g) : g \in 1..generation}
        entries == {ref \in Refs(DirectoryObjects) : ref.kind \in {"file", "symlink"}}
        above == \/ Cardinality(exact) > limits.objects
                 \/ AllEdges > limits.edges
                 \/ Cardinality(DirectoryObjects) + generation > limits.bytes
                 \/ Below[MaxDepth + 1] # {}
        wrong == broken # 0 \/ \E ref \in entries : ref.size # SizeOf[ref.digest]
    IN /\ walker.err = "" => walker.keys = exact /\ ~wrong
       /\ walker.err = "limit" => above
       /\ walker.err = "corrupt" => wrong
=============================================================================
