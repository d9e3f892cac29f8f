-------------------------------- MODULE Kernel --------------------------------
(***************************************************************************)
(* What netflow reads of the operating system: the sockets of the host and *)
(* the processes that hold them.  This is not code of the repository; it   *)
(* is modelled from what /proc/net/tcp (netstat.go) and /proc/<pid>/fd     *)
(* (process.go, GetProcesses) can show.  A socket is identified by its     *)
(* inode and never comes back once it is closed; its address pair may be   *)
(* used again by another socket.                                           *)
(***************************************************************************)
EXTENDS Integers, FiniteSets

CONSTANTS
    Conns,      \* sockets, by inode
    Pids,       \* processes that may hold sockets
    Keys,       \* address pairs "ip:port_ip:port"
    Addr,       \* Addr[c]: the pair as seen from socket c
    Reverse     \* Reverse[k]: the pair with its two sides exchanged

ASSUME AddrAssumption ==
    /\ Addr \in [Conns -> Keys]
    /\ Reverse \in [Keys -> Keys]
    /\ \A k \in Keys : Reverse[Reverse[k]] = k

VARIABLES
    sock,       \* state of each socket
    holders     \* the processes with a descriptor of each socket

kernelVars == <<sock, holders>>

\* "pending": established but not accepted yet, shown with inode 0;
\* "closing": no longer ESTABLISHED, but a descriptor is still open.
SockStates == {"new", "pending", "open", "closing", "closed"}

Established(c) == sock[c] \in {"pending", "open"}

Live(c) == sock[c] \in {"pending", "open", "closing"}

KernelTypeOK ==
    /\ sock \in [Conns -> SockStates]
    /\ holders \in [Conns -> SUBSET Pids]

KernelInit ==
    /\ sock = [c \in Conns |-> "new"]
    /\ holders = [c \in Conns |-> {}]

TupleFree(c) == \A d \in Conns : Live(d) => Addr[d] # Addr[c]

\* A client connects: the socket has an inode and a holder at once.
Connect(c, p) ==
    /\ sock[c] = "new" /\ TupleFree(c)
    /\ sock' = [sock EXCEPT ![c] = "open"]
    /\ holders' = [holders EXCEPT ![c] = {p}]

\* A connection is established in a listen queue, without an inode ...
Arrive(c) ==
    /\ sock[c] = "new" /\ TupleFree(c)
    /\ sock' = [sock EXCEPT ![c] = "pending"]
    /\ UNCHANGED holders

\* ... until a process accepts it.
Accept(c, p) ==
    /\ sock[c] = "pending"
    /\ sock' = [sock EXCEPT ![c] = "open"]
    /\ holders' = [holders EXCEPT ![c] = {p}]

\* fork, or a descriptor passed over a unix socket.
Inherit(c, p) ==
    /\ holders[c] # {} /\ p \notin holders[c]
    /\ holders' = [holders EXCEPT ![c] = @ \cup {p}]
    /\ UNCHANGED sock

\* One side shuts the connection down.
Shutdown(c) ==
    /\ sock[c] = "open"
    /\ sock' = [sock EXCEPT ![c] = "closing"]
    /\ UNCHANGED holders

\* A holder closes its descriptor, or exits.
CloseFd(c, p) ==
    /\ p \in holders[c]
    /\ holders' = [holders EXCEPT ![c] = @ \ {p}]
    /\ sock' = [sock EXCEPT ![c] = IF holders[c] = {p} THEN "closed" ELSE @]

KernelStep ==
    \/ \E c \in Conns : Arrive(c) \/ Shutdown(c)
    \/ \E c \in Conns, p \in Pids :
          Connect(c, p) \/ Accept(c, p) \/ Inherit(c, p) \/ CloseFd(c, p)
=============================================================================
