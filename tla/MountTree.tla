------------------------------- MODULE MountTree -------------------------------
(***************************************************************************)
(* The inodes of a mount (mount/mount_unix.go): LOOKUP makes an inode that *)
(* is bound to the snapshot it was looked up in, OPEN and READDIR answer   *)
(* from that snapshot or with ESTALE, FORGET gives the inode number back   *)
(* to the registry but never to another inode.  The consumer moves on to   *)
(* later snapshots between any two steps of a request.                     *)
(*                                                                         *)
(* The tree is a directory dir below the root with one file in it, file.   *)
(* Snapshots are generations, an entry is the generation it was read from. *)
(* The go-fuse bridge (external) keeps the inodes the kernel refers to and *)
(* the children of each.                                                   *)
(***************************************************************************)
EXTENDS Naturals, FiniteSets

CONSTANTS
  Requests,        \* FUSE requests that may be in progress together
  MaxGeneration,   \* bound on the snapshots
  MaxHandles,      \* bound on the open handles
  Attempts,        \* openSnapshotAttempts
  Limit,           \* MaxInodeIdentities; the bytes of an identity are not counted
  MaxInode,        \* bound on the inode numbers that are handed out
  dir, file, top,  \* the paths; top is the root
  FileIn           \* the generations file exists in

VARIABLES
  snapshot,   \* the consumer's current snapshot
  registry,   \* the registry: the number of each key <<generation, path>>
  next,       \* registry.next
  live,       \* inodes the kernel refers to
  links,      \* the children of the inodes
  handles,    \* open file and directory handles
  request     \* the requests in progress, with their locals

vars == <<snapshot, registry, next, live, links, handles, request>>

Root == [ino |-> 1, path |-> top, snap |-> 0, entry |-> 0]
Idle == [pc |-> "idle"]

Init ==
  /\ snapshot = 1
  /\ registry = <<>> /\ next = 2
  /\ live = {Root} /\ links = {} /\ handles = {}
  /\ request = [r \in Requests |-> Idle]

\* What the consumer's Stat, ListDir and Open find in generation g.
Exists(g, path) == path = file => g \in FileIn

\* Consumer.Refresh.
Advance ==
  /\ snapshot < MaxGeneration /\ snapshot' = snapshot + 1
  /\ UNCHANGED <<registry, next, live, links, handles, request>>

-----------------------------------------------------------------------------
(* The bracket around every answer: statPinned, listDirPinned, openPinned *)

\* A node of a snapshot that is not the current one any more.
staleBoundSnapshot(n) == n.snap # 0 /\ n.snap # snapshot

Bound(node, identity) == node.snap # 0 /\ node.snap # identity

\* A request starts on an inode; that of a stale one is answered with ESTALE and leaves no trace.
Begin(r) ==
  /\ request[r].pc = "idle"
  /\ \E n \in live, op \in {"lookup", "open"} :
       /\ ~staleBoundSnapshot(n)
       /\ op = "lookup" => n.path # file
       /\ request' = [request EXCEPT ![r] =
            [pc |-> "before", op |-> op, node |-> n, tries |-> 0,
             path |-> IF op = "open" THEN n.path ELSE IF n.path = top THEN dir ELSE file]]
  /\ UNCHANGED <<snapshot, registry, next, live, links, handles>>

Before(r) ==
  LET q == request[r]
  IN /\ q.pc = "before"
     /\ request' = [request EXCEPT ![r] =
          [pc |-> "stat", op |-> q.op, node |-> q.node, tries |-> q.tries, path |-> q.path, before |-> snapshot]]
     /\ UNCHANGED <<snapshot, registry, next, live, links, handles>>

\* Stat, of whatever snapshot is current now.
Stat(r) ==
  LET q == request[r]
  IN /\ q.pc = "stat"
     /\ request' = [request EXCEPT ![r] =
          [pc |-> IF q.op = "open" /\ Exists(snapshot, q.path) THEN "open" ELSE "after",
           op |-> q.op, node |-> q.node, tries |-> q.tries, path |-> q.path, before |-> q.before,
           found |-> Exists(snapshot, q.path), entry |-> snapshot, content |-> snapshot]]
     /\ UNCHANGED <<snapshot, registry, next, live, links, handles>>

\* Open or ListDir, of whatever snapshot is current by then.
OpenContent(r) ==
  /\ request[r].pc = "open"
  /\ request' = [request EXCEPT ![r].pc = "after", ![r].content = snapshot,
                                ![r].found = Exists(snapshot, request[r].path)]
  /\ UNCHANGED <<snapshot, registry, next, live, links, handles>>

\* The answer is taken whatever the consumer did meanwhile.
Unbracketed(q) == TRUE
\* The snapshot after the answer is the one before it.
Bracketed(q) == q.before = snapshot

\* The answer is of another snapshot than the inode.
Foreign(q) == Bound(q.node, q.before)

\* The end of the bracket: retry, give up, ESTALE or ENOENT, or go on with the answer.
After(r) ==
  LET q == request[r]
      ends == request' = [request EXCEPT ![r] = Idle] /\ UNCHANGED handles
  IN /\ q.pc = "after"
     /\ \/ /\ ~Bracketed(q) /\ q.tries + 1 < Attempts
           /\ request' = [request EXCEPT ![r] =
                [pc |-> "before", op |-> q.op, node |-> q.node, tries |-> q.tries + 1, path |-> q.path]]
           /\ UNCHANGED handles
        \/ ~Bracketed(q) /\ q.tries + 1 = Attempts /\ ends
        \/ Bracketed(q) /\ (Foreign(q) \/ ~q.found) /\ ends
        \/ /\ Bracketed(q) /\ ~Foreign(q) /\ q.found /\ q.op = "lookup"
           /\ request' = [request EXCEPT ![r] =
                [pc |-> "child", node |-> q.node, path |-> q.path, identity |-> q.before, entry |-> q.entry]]
           /\ UNCHANGED handles
        \/ /\ Bracketed(q) /\ ~Foreign(q) /\ q.found /\ q.op = "open"
           /\ Cardinality(handles) < MaxHandles
           /\ handles' = handles \union
                {[ino |-> q.node.ino, path |-> q.path, snap |-> q.node.snap, entry |-> q.entry, content |-> q.content]}
           /\ request' = [request EXCEPT ![r] = Idle]
     /\ UNCHANGED <<snapshot, registry, next, live, links>>

-----------------------------------------------------------------------------
(* LOOKUP *)

\* GetChild finds a child of the same snapshot, or an inode number has to be found.
Child(r) ==
  LET q == request[r]
      same == {n \in live : n.snap = q.identity /\ [parent |-> q.node.ino, path |-> q.path, ino |-> n.ino] \in links}
  IN /\ q.pc = "child"
     /\ \/ \E n \in same : request' = [request EXCEPT ![r] = [pc |-> "reply", node |-> q.node, child |-> n]]
        \/ same = {} /\ request' = [request EXCEPT ![r].pc = "number"]
     /\ UNCHANGED <<snapshot, registry, next, live, links, handles>>

\* The number after all that were handed out.
FreshNumber == next

\* registry.stableAttr: the number of the key, a fresh one, or ErrInodeIdentityLimit, which a new key
\* meets at the limit of identities, at that of their bytes, or when the numbers are used up.
StableAttr(r) ==
  LET q == request[r]
      key == <<q.identity, q.path>>
      to(i) == request' = [request EXCEPT ![r] =
                 [pc |-> "reply", node |-> q.node,
                  child |-> [ino |-> i, path |-> q.path, snap |-> q.identity, entry |-> q.entry]]]
  IN /\ q.pc = "number"
     /\ \/ key \in DOMAIN registry /\ to(registry[key]) /\ UNCHANGED <<registry, next>>
        \/ /\ key \notin DOMAIN registry /\ Cardinality(DOMAIN registry) < Limit /\ next <= MaxInode
           /\ to(FreshNumber)
           /\ registry' = [k \in DOMAIN registry \union {key} |-> IF k = key THEN FreshNumber ELSE registry[k]]
           /\ next' = next + 1
        \/ /\ key \notin DOMAIN registry
           /\ request' = [request EXCEPT ![r] = Idle] /\ UNCHANGED <<registry, next>>
     /\ UNCHANGED <<snapshot, live, links, handles>>

\* The bridge adds the child: an inode with the same number and generation is kept, and the
\* child takes the place of another one of the same name.
Reply(r) ==
  LET q == request[r]
      child == q.child
  IN /\ q.pc = "reply"
     /\ live' = IF \E n \in live : n.ino = child.ino /\ n.snap = child.snap THEN live ELSE live \union {child}
     /\ links' = {l \in links : ~(l.parent = q.node.ino /\ l.path = child.path)}
                   \union {[parent |-> q.node.ino, path |-> child.path, ino |-> child.ino]}
     /\ request' = [request EXCEPT ![r] = Idle]
     /\ UNCHANGED <<snapshot, registry, next, handles>>

-----------------------------------------------------------------------------
(* FORGET and RELEASE *)

\* registry.release: the key goes only while it names this very number.
Released(n) ==
  LET gone == {k \in DOMAIN registry : k = <<n.snap, n.path>> /\ registry[k] = n.ino}
  IN [k \in DOMAIN registry \ gone |-> registry[k]]

\* The kernel drops an inode that no request uses and that has no children; OnForget.
OnForget(n) ==
  /\ n \in live /\ n # Root
  /\ \A r \in Requests : request[r].pc # "idle" => request[r].node # n
  /\ \A l \in links : l.parent # n.ino
  /\ live' = live \ {n}
  /\ links' = {l \in links : l.ino # n.ino}
  /\ registry' = Released(n)
  /\ UNCHANGED <<snapshot, next, handles, request>>

Release(h) ==
  /\ h \in handles /\ handles' = handles \ {h}
  /\ UNCHANGED <<snapshot, registry, next, live, links, request>>

-----------------------------------------------------------------------------

Next ==
  \/ Advance
  \/ \E r \in Requests :
       \/ Begin(r) \/ Before(r) \/ Stat(r) \/ OpenContent(r) \/ After(r)
       \/ Child(r) \/ StableAttr(r) \/ Reply(r)
  \/ \E n \in live : OnForget(n)
  \/ \E h \in handles : Release(h)

Spec == Init /\ [][Next]_vars

-----------------------------------------------------------------------------
(* Properties *)

\* What an inode shows never changes and never mixes snapshots: the attributes of an inode are
\* those of its snapshot, a child lies below a parent of the same snapshot, and a handle has
\* attributes and content of one snapshot, that of its inode.
ViewIsPinned ==
  /\ \A n \in live : n.entry = n.snap
  /\ \A l \in links, p, c \in live : l.parent = p.ino /\ l.ino = c.ino /\ p # Root => p.snap = c.snap
  /\ \A h \in handles : h.entry = h.content /\ (h.ino # 1 => h.content = h.snap)

\* An inode number means one path in one snapshot for as long as an inode or an open handle has it,
\* although numbers are given back by FORGET while handles stay open.
InodesAreUnique ==
  \A x, y \in live \union handles : x.ino = y.ino => x.path = y.path /\ x.snap = y.snap

\* The registry keeps a number only for an inode that is live or about to be: no order of lookups,
\* repeated lookups and forgets uses up the identity limit for inodes that are gone.
IdentitiesAreReclaimed ==
  \A k \in DOMAIN registry :
    \/ \E n \in live : n.ino = registry[k]
    \/ \E r \in Requests : request[r].pc = "reply" /\ request[r].child.ino = registry[k]
=============================================================================
