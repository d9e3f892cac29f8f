--------------------------- MODULE ProcessController ---------------------------
(***************************************************************************)
(* processController (process.go): the monitored processes with the socket *)
(* inodes each was seen to hold, and the map from inode to pid.  Rescan    *)
(* reads the system without a lock and then replaces both under the lock.  *)
(* A process without sockets is not in the dict: its inode set is empty.   *)
(***************************************************************************)
EXTENDS Integers

CONSTANTS Pids, Conns

VARIABLES
    dict,           \* dict[p]: pp.inodes, {} when p is not in the map
    inodePidMap     \* a function from some inodes to pids

ControllerTypeOK ==
    /\ dict \in [Pids -> SUBSET Conns]
    /\ DOMAIN inodePidMap \subseteq Conns
    /\ inodePidMap \in [DOMAIN inodePidMap -> Pids]

NewProcessController ==
    /\ dict = [p \in Pids |-> {}]
    /\ inodePidMap = [c \in {} |-> {}]

Monitored == {p \in Pids : dict[p] # {}}

Seen(ps) == UNION {ps[p] : p \in Pids}

\* The locked part of Rescan: new pids are added, the inodes of known ones
\* replaced, missing pids deleted, and the inode map is built anew. Go iterates
\* over ps in random order, so any pid that has the inode may end up as its owner.
Rescan(ps) ==
    /\ dict' = ps
    /\ \E owner \in [Seen(ps) -> Pids] :
          /\ \A c \in Seen(ps) : c \in ps[owner[c]]
          /\ inodePidMap' = owner

\* GetProcessByInode: the pid whose Process is returned, as a set of at most one.
GetProcessByInode(inode) ==
    IF inode \in DOMAIN inodePidMap
    THEN {inodePidMap[inode]} \cap Monitored
    ELSE {}
=============================================================================
