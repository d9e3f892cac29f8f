-------------------------------- MODULE Account --------------------------------
(***************************************************************************)
(* What netflow promises about the packets of a host, without queues,      *)
(* tables, goroutines or scans: a packet is outside, then perhaps taken    *)
(* in, and settled once: given up, or charged to a process that is liable  *)
(* for it.  Liable is who had a connection with its address pair of late   *)
(* when the packet was taken in, or gets hold of it later.  How long a     *)
(* process is remembered is left open: Netflow, which implements this      *)
(* specification, remembers from the start of the scan in use.             *)
(***************************************************************************)
EXTENDS Integers, Sequences

CONSTANTS
    Packets, Conns, Pids,
    PacketConns     \* PacketConns[m]: the connections m may be a packet of

VARIABLES
    outside,    \* packets nobody has seen
    charges,    \* the bill: [pkt, pid], in the order of the charges
    dropped,    \* the packets that were given up
    held,       \* held[c]: the processes that had connection c of late
    liable      \* liable[m]: the processes that may be charged for m

vars == <<outside, charges, dropped, held, liable>>

Init ==
    /\ outside = Packets
    /\ charges = <<>> /\ dropped = {}
    /\ held = [c \in Conns |-> {}]
    /\ liable = [m \in Packets |-> {}]

Leave(m) ==
    /\ m \in outside
    /\ outside' = outside \ {m}
    /\ liable' = [liable EXCEPT ![m] = UNION {held[c] : c \in PacketConns[m]}]
    /\ UNCHANGED <<charges, held>>

TakeIn(m) == Leave(m) /\ UNCHANGED dropped

Refuse(m) == Leave(m) /\ dropped' = dropped \cup {m}

\* Taken in and not settled yet.
Pending(m) ==
    m \notin outside \cup dropped /\ \A i \in DOMAIN charges : charges[i].pkt # m

Charge(m, p) ==
    /\ charges' = Append(charges, [pkt |-> m, pid |-> p])
    /\ Pending(m)
    /\ p \in liable[m]
    /\ UNCHANGED <<outside, dropped, held, liable>>

GiveUp(m) ==
    /\ UNCHANGED <<outside, charges, held, liable>>
    /\ Pending(m)
    /\ dropped' = dropped \cup {m}

\* A process gets hold of a connection, and of the packets of it that are inside.
Own(c, p) ==
    /\ UNCHANGED <<outside, charges, dropped>>
    /\ held' = [held EXCEPT ![c] = @ \cup {p}]
    /\ liable' = [m \in Packets |-> IF m \notin outside /\ c \in PacketConns[m]
                                    THEN liable[m] \cup {p} ELSE liable[m]]

\* Processes that had a connection are forgotten, but for the packets inside.
Forget ==
    /\ UNCHANGED <<outside, charges, liable, dropped>>
    /\ held' \in [Conns -> SUBSET Pids] /\ \A c \in Conns : held'[c] \subseteq held[c]

Next ==
    \/ Forget
    \/ \E c \in Conns, p \in Pids : Own(c, p)
    \/ \E m \in Packets : TakeIn(m) \/ Refuse(m) \/ GiveUp(m)
    \/ \E m \in Packets, p \in Pids : Charge(m, p)

Spec == Init /\ [][Next]_vars
=============================================================================
