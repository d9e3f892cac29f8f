------------------------------- MODULE Resolver -------------------------------
(***************************************************************************)
(* How netflow finds the process of a packet (netflow.go): the resource    *)
(* syncer rescans the system, one goroutine filling connInodeHash from     *)
(* /proc/net/tcp and one filling the process controller from /proc, while  *)
(* the kernel goes on changing and a third goroutine cleans connInodeHash. *)
(*                                                                         *)
(* A scan reads the system piece by piece: a socket's line and a process'  *)
(* descriptor are each read at a moment of their own.  Lines are read in   *)
(* blocks and handled later, so any number of them may be in the buffer.   *)
(***************************************************************************)
EXTENDS Kernel, Sequences

CONSTANTS
    NoInode,        \* the inode "0" of a connection that was not accepted yet
    ScanMayFail     \* whether reading /proc/net/tcp may end in an error

ASSUME NoInodeAssumption == NoInode \notin Conns
ASSUME ScanMayFailAssumption == ScanMayFail \in BOOLEAN

VARIABLES
    connInodeHash, dict, inodePidMap,
    scanning,       \* whether rescanResouce is running
    unread,         \* sockets whose line the connection scan has yet to read
    lines,          \* lines read: the [key, inode] pairs still to be added, in order
    unreadFds,      \* pairs <<pid, socket>> GetProcesses has yet to look at
    ps,             \* what GetProcesses found so far: pid -> set of inodes
    procScan        \* whether the process goroutine is running

Inodes == Conns \cup {NoInode}

INSTANCE Mapping
INSTANCE ProcessController

tableVars == <<connInodeHash, dict, inodePidMap>>

scanVars == <<scanning, unread, lines, unreadFds, ps, procScan>>

NoProcesses == [p \in Pids |-> {}]

AllFds == Pids \X Conns

\* A line handled by rescanConns comes down to its two Adds.
Line == [key : Keys, inode : Inodes]

-----------------------------------------------------------------------------
ScanTypeOK ==
    /\ scanning \in BOOLEAN
    /\ unread \subseteq Conns
    /\ lines \in Seq(Line)
    /\ unreadFds \subseteq AllFds
    /\ ps \in [Pids -> SUBSET Conns]
    /\ procScan \in BOOLEAN

ScanInit ==
    /\ scanning = FALSE
    /\ unread = {}
    /\ lines = <<>>
    /\ unreadFds = {}
    /\ ps = NoProcesses
    /\ procScan = FALSE

\* rescanResouce starts its two goroutines.
StartRescan ==
    /\ ~ scanning
    /\ scanning' = TRUE
    /\ unread' = Conns
    /\ unreadFds' = AllFds
    /\ procScan' = TRUE
    /\ UNCHANGED <<lines, ps, tableVars>>

\* Mutant of inodeOf: the wrong column of the line.
inodeLost(c) == NoInode

\* rescanConns, one line: getConnectionItem keeps established connections.
inodeOf(c) == IF sock[c] = "pending" THEN NoInode ELSE c

\* Mutant of ReadLine: the mirrored pair is not added.
ReadLineOneWay(c) ==
    /\ c \in unread
    /\ unread' = unread \ {c}
    /\ lines' = IF Established(c)
                THEN Append(lines, [key |-> Addr[c], inode |-> inodeOf(c)])
                ELSE lines
    /\ UNCHANGED <<scanning, unreadFds, ps, procScan, tableVars>>

ReadLine(c) ==
    /\ c \in unread
    /\ unread' = unread \ {c}
    /\ lines' = IF Established(c)
                THEN lines \o <<[key |-> Addr[c], inode |-> inodeOf(c)],
                                [key |-> Reverse[Addr[c]], inode |-> inodeOf(c)]>>
                ELSE lines
    /\ UNCHANGED <<scanning, unreadFds, ps, procScan, tableVars>>

AddLine ==
    /\ lines # <<>>
    /\ AddIfMissing(Head(lines).key, Head(lines).inode)
    /\ lines' = Tail(lines)
    /\ UNCHANGED <<scanning, unread, unreadFds, ps, procScan, dict, inodePidMap>>

\* parseNetworkLines fails, at the open or later: the rest is not read, and the
\* error is dropped by startResourceSyncer.
FailRead ==
    /\ ScanMayFail
    /\ unread # {}
    /\ unread' = {}
    /\ UNCHANGED <<scanning, lines, unreadFds, ps, procScan, tableVars>>

\* GetProcesses, one descriptor.
ReadFd(p, c) ==
    /\ <<p, c>> \in unreadFds
    /\ unreadFds' = unreadFds \ {<<p, c>>}
    /\ ps' = IF p \in holders[c] THEN [ps EXCEPT ![p] = @ \cup {c}] ELSE ps
    /\ UNCHANGED <<scanning, unread, lines, procScan, tableVars>>

\* Mutant of CommitProcesses: what a scan found is still there in the next one.
CommitKeepsFound ==
    /\ procScan /\ unreadFds = {}
    /\ Rescan(ps)
    /\ procScan' = FALSE
    /\ UNCHANGED <<ps, scanning, unread, lines, unreadFds, connInodeHash>>

\* The locked part of processController.Rescan.
CommitProcesses ==
    /\ procScan /\ unreadFds = {}
    /\ Rescan(ps)
    /\ procScan' = FALSE
    /\ ps' = NoProcesses
    /\ UNCHANGED <<scanning, unread, lines, unreadFds, connInodeHash>>

\* Mutant of FinishRescan: it does not wait for the process goroutine.
FinishEarly ==
    /\ scanning /\ unread = {} /\ lines = <<>>
    /\ scanning' = FALSE
    /\ UNCHANGED <<unread, lines, unreadFds, ps, procScan, tableVars>>

\* wg.Wait returns.
FinishRescan ==
    /\ scanning /\ unread = {} /\ lines = <<>> /\ ~ procScan
    /\ scanning' = FALSE
    /\ UNCHANGED <<unread, lines, unreadFds, ps, procScan, tableVars>>

ScanStep ==
    \/ \E c \in Conns : ReadLine(c)
    \/ AddLine
    \/ \E p \in Pids, c \in Conns : ReadFd(p, c)

CleanupStep == Cleanup /\ UNCHANGED <<dict, inodePidMap, scanVars>>

\* A packet with pair k may belong to socket c: either end may have seen it.
Uses(c, k) == k \in {Addr[c], Reverse[Addr[c]]}

\* getProcessByAddr: the pid found for an address pair, as a set of at most one.
getProcessByAddr(k) ==
    IF k \in DOMAIN connInodeHash
    THEN GetProcessByInode(connInodeHash[k].value)
    ELSE {}
=============================================================================
