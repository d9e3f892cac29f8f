---------------------------- MODULE NetflowProofs ----------------------------
(***************************************************************************)
(* Proofs about Netflow, for every number of devices, workers, packets,    *)
(* sockets and processes, every capacity of the queues and every           *)
(* interleaving of the goroutines with the kernel.                         *)
(*                                                                         *)
(* The invariant is kept in parts, one for each group of variables, so     *)
(* that a step has to be looked at only where it writes.                   *)
(***************************************************************************)
EXTENDS Netflow, ResolverProofs, FiniteSetTheorems

\* The tables hold what was true of the kernel at some time.
TablesOK ==
    /\ KernelTypeOK /\ TablesInv /\ ScanIdle
    /\ since \in [Conns -> SUBSET Pids]
    /\ base \in [Conns -> SUBSET Pids]
    /\ HeldIn(since)
    /\ FoundIn(since)
    /\ OwnersIn(base)
    /\ \A c \in Conns : since[c] \subseteq base[c]

\* A forwarder has a packet in hand exactly while it sends.
CaptureOK ==
    /\ wire \subseteq Packets
    /\ packetChan \in [Devices -> Seq(Packets)]
    /\ capturing \in [Devices -> BOOLEAN]
    /\ forwarder \in [Devices -> FwdStates]
    /\ \A d \in Devices : forwarder[d].pc = "send" <=> forwarder[d].pkt # None

QueueOK == packetQueue \in Seq(Packets) /\ counter \in Nat

Resolving == {"inode", "proc", "charge", "push"}

\* A worker has a packet in hand from the queue to its charge; the inode it found
\* has the packet's pair.
WorkersOK ==
    /\ worker \in [Workers -> WorkerStates]
    /\ \A w \in Workers :
          /\ worker[w].pc \in Resolving <=> worker[w].pkt # None
          /\ worker[w].pc = "proc" =>
                /\ worker[w].inode \in Inodes
                /\ worker[w].inode \in Conns => Uses(worker[w].inode, PacketAddr[worker[w].pkt])
          /\ worker[w].pc = "charge" => worker[w].pid \in Pids

DelayOK ==
    /\ delayQueue \in Seq(Packets)
    /\ stamp \in [Packets -> {None, "before", "during", "after"}]
    /\ syncer \in {"start", "first", "wait", "rescan", "drain", "exit"}
    /\ entry \in Packets \cup {None}

EndOK ==
    /\ ledger \in Seq([pkt : Packets, pid : Pids])
    /\ lost \subseteq [pkt : Packets, why : Reasons]

ClockOK == changes \in 0 .. MaxChanges /\ quiet \in BOOLEAN /\ done \in BOOLEAN

LiableOK == liable \in [Packets -> SUBSET Pids]

\* The inductive invariant behind TypeOK.
NetInv ==
    /\ TablesOK /\ CaptureOK /\ QueueOK /\ WorkersOK /\ DelayOK /\ EndOK /\ ClockOK
    /\ LiableOK

-----------------------------------------------------------------------------
\* A part of the invariant stays true while its variables keep their values.
LEMMA PartsStutter ==
    /\ TablesOK /\ UNCHANGED <<kernelVars, tableVars, scanVars, since, base>> => TablesOK'
    /\ CaptureOK /\ UNCHANGED <<wire, packetChan, capturing, forwarder>> => CaptureOK'
    /\ QueueOK /\ UNCHANGED <<packetQueue, counter>> => QueueOK'
    /\ WorkersOK /\ UNCHANGED worker => WorkersOK'
    /\ DelayOK /\ UNCHANGED <<delayQueue, stamp, syncer, entry>> => DelayOK'
    /\ EndOK /\ UNCHANGED <<ledger, lost>> => EndOK'
    /\ ClockOK /\ UNCHANGED <<changes, quiet, done>> => ClockOK'
    /\ LiableOK /\ UNCHANGED liable => LiableOK'
<1>1. ASSUME TablesOK, UNCHANGED <<kernelVars, tableVars, scanVars, since, base>> PROVE TablesOK'
  <2>1. UNCHANGED <<sock, holders, connInodeHash, dict, inodePidMap, since, base>>
        /\ UNCHANGED <<scanning, unread, lines, unreadFds, ps, procScan>>
    BY <1>1 DEF kernelVars, tableVars, scanVars
  <2>2. TablesInv'
    BY <1>1, <2>1
    DEF TablesOK, TablesInv, MappingTypeOK, ControllerTypeOK, ScanTypeOK, HashRight, LinesRight,
        Uses
  <2>3. KernelTypeOK' /\ HeldIn(since)' /\ FoundIn(since)' /\ OwnersIn(base)' /\ ScanIdle'
    BY <1>1, <2>1 DEF TablesOK, KernelTypeOK, HeldIn, FoundIn, OwnersIn, ScanIdle, NoProcesses
  <2> QED
    BY <1>1, <2>1, <2>2, <2>3 DEF TablesOK
<1>2. ASSUME CaptureOK, UNCHANGED <<wire, packetChan, capturing, forwarder>> PROVE CaptureOK'
  BY <1>2 DEF CaptureOK
<1>3. ASSUME QueueOK, UNCHANGED <<packetQueue, counter>> PROVE QueueOK'
  BY <1>3 DEF QueueOK
<1>4. ASSUME WorkersOK, UNCHANGED worker PROVE WorkersOK'
  BY <1>4 DEF WorkersOK, Uses, Inodes
<1>5. ASSUME DelayOK, UNCHANGED <<delayQueue, stamp, syncer, entry>> PROVE DelayOK'
  BY <1>5 DEF DelayOK
<1>6. ASSUME EndOK, UNCHANGED <<ledger, lost>> PROVE EndOK'
  BY <1>6 DEF EndOK
<1>7. ASSUME ClockOK, UNCHANGED <<changes, quiet, done>> PROVE ClockOK'
  BY <1>7 DEF ClockOK
<1>8. ASSUME LiableOK, UNCHANGED liable PROVE LiableOK'
  BY <1>8 DEF LiableOK
<1> QED
  BY <1>1, <1>2, <1>3, <1>4, <1>5, <1>6, <1>7, <1>8

\* Nothing is captured, queued or charged yet.
LEMMA NetInvInit == Init => NetInv
<1> SUFFICES ASSUME Init PROVE NetInv
  OBVIOUS
<1>1. KernelTypeOK /\ TablesInv
  BY TablesInit DEF Init
<1>2. TablesOK
  BY <1>1
  DEF Init, KernelInit, ScanInit, NoProcesses, NewProcessController, TablesOK, HeldIn, FoundIn,
      OwnersIn, ScanIdle
<1>3. CaptureOK
  <2>1. \A d \in Devices : packetChan[d] \in Seq(Packets)
    BY EmptySeq DEF Init, Start, startNetworkSniffer
  <2>2. wire \subseteq Packets /\ packetChan \in [Devices -> Seq(Packets)]
        /\ capturing \in [Devices -> BOOLEAN]
    BY <2>1 DEF Init, Start, startNetworkSniffer, buildPcapHandler
  <2>3. \A d \in Devices :
           forwarder[d] \in FwdStates /\ forwarder[d].pc # "send" /\ forwarder[d].pkt = None
    BY DEF Init, Start, startNetworkSniffer, buildPcapHandler, FwdStates
  <2>4. forwarder \in [Devices -> FwdStates]
    BY <2>3 DEF Init, Start, startNetworkSniffer, buildPcapHandler
  <2> QED
    BY <2>2, <2>3, <2>4 DEF CaptureOK
<1>4. QueueOK
  BY EmptySeq DEF Init, QueueOK
<1>5. WorkersOK
  BY DEF Init, Start, startNetworkSniffer, idle, WorkersOK, WorkerStates, Resolving
<1>6. DelayOK
  BY EmptySeq DEF Init, Start, DelayOK
<1>7. EndOK
  BY EmptySeq DEF Init, EndOK
<1>8. ClockOK
  <2>1. changes \in 0 .. MaxChanges
    BY CapsAssumption DEF Init
  <2>2. quiet \in BOOLEAN /\ done \in BOOLEAN
    BY Zenon DEF Init
  <2> QED
    BY <2>1, <2>2 DEF ClockOK
<1>9. LiableOK
  BY DEF Init, LiableOK
<1> QED
  BY <1>2, <1>3, <1>4, <1>5, <1>6, <1>7, <1>8, <1>9 DEF NetInv

-----------------------------------------------------------------------------
(* captureDevice and its forwarder.                                        *)

\* A packet is read from the device, or its channel is closed.
LEMMA CaptureKeeps ==
    ASSUME NetInv, NEW d \in Devices, (\E m \in Packets : Capture(d, m)) \/ CaptureExit(d)
    PROVE  NetInv'
<1>1. /\ UNCHANGED <<kernelVars, tableVars, scanVars, since, base, packetQueue, counter, worker>>
      /\ UNCHANGED <<delayQueue, stamp, syncer, entry, ledger, changes, quiet, done, forwarder>>
  BY DEF Capture, CaptureExit, Claim, delayVars, histVars, claimVars, endVars
<1>2. TablesOK' /\ QueueOK' /\ WorkersOK' /\ DelayOK' /\ ClockOK'
  BY <1>1, PartsStutter DEF NetInv, claimVars
<1>3. CASE CaptureExit(d)
  <2>1. capturing' \in [Devices -> BOOLEAN] /\ UNCHANGED <<wire, packetChan, lost, liable>>
    BY <1>3 DEF CaptureExit, endVars, histVars, claimVars, NetInv, CaptureOK
  <2> QED
    BY <1>1, <1>2, <2>1, PartsStutter DEF NetInv, CaptureOK
<1>4. ASSUME NEW m \in Packets, Capture(d, m) PROVE NetInv'
  <2>1. /\ wire' = wire \ {m} /\ capturing' = capturing
        /\ \/ packetChan' = [packetChan EXCEPT ![d] = Append(@, m)] /\ lost' = lost
           \/ packetChan' = packetChan /\ lost' = lost \cup {[pkt |-> m, why |-> "chan"]}
    BY <1>4 DEF Capture, giveUp
  <2>2. packetChan \in [Devices -> Seq(Packets)] /\ Append(packetChan[d], m) \in Seq(Packets)
    BY AppendProperties DEF NetInv, CaptureOK
  <2>3. CaptureOK'
    BY <1>1, <2>1, <2>2 DEF NetInv, CaptureOK
  <2>4. EndOK'
    BY <1>1, <2>1 DEF NetInv, EndOK, Reasons
  <2>5. LiableOK'
    <3>1. liable' = [liable EXCEPT ![m] = HeldLately(m)]
      BY <1>4 DEF Capture, Claim
    <3>2. HeldLately(m) \subseteq Pids
      BY DEF HeldLately, PacketConns, NetInv, TablesOK
    <3> QED
      BY <3>1, <3>2 DEF NetInv, LiableOK
  <2> QED
    BY <1>2, <2>3, <2>4, <2>5 DEF NetInv
<1> QED
  BY <1>3, <1>4

\* The forwarder takes a packet, sends it, counts it or returns.
LEMMA ForwarderKeeps ==
    ASSUME NetInv, NEW d \in Devices,
           Receive(d) \/ enqueue(d) \/ incrCounter(d) \/ ForwarderExit(d)
    PROVE  NetInv'
<1>1. /\ UNCHANGED <<kernelVars, tableVars, scanVars, claimVars, wire, capturing, worker>>
      /\ UNCHANGED <<delayQueue, stamp, syncer, entry, ledger, changes, quiet, done>>
  BY DEF Receive, enqueue, incrCounter, ForwarderExit, delayVars, histVars, claimVars, endVars
<1>2. TablesOK' /\ WorkersOK' /\ DelayOK' /\ ClockOK' /\ LiableOK'
  BY <1>1, PartsStutter DEF NetInv, claimVars
<1>3. /\ forwarder \in [Devices -> FwdStates]
      /\ \A e \in Devices : forwarder[e].pc = "send" <=> forwarder[e].pkt # None
      /\ forwarder[d] \in FwdStates
      /\ packetChan \in [Devices -> Seq(Packets)] /\ packetChan[d] \in Seq(Packets)
  BY DEF NetInv, CaptureOK
<1>4. CASE Receive(d)
  <2>1. /\ packetChan[d] # <<>>
        /\ forwarder' = [forwarder EXCEPT ![d] = [pc |-> "send", pkt |-> Head(packetChan[d])]]
        /\ packetChan' = [packetChan EXCEPT ![d] = Tail(packetChan[d])]
        /\ UNCHANGED <<packetQueue, counter, lost>>
    BY <1>4 DEF Receive, endVars
  <2>2. Head(packetChan[d]) \in Packets /\ Tail(packetChan[d]) \in Seq(Packets)
    BY <1>3, <2>1, HeadTailProperties, EmptySeq
  <2>3. [pc |-> "send", pkt |-> Head(packetChan[d])] \in FwdStates /\ Head(packetChan[d]) # None
    BY <2>2, PacketsAssumption DEF FwdStates
  <2>4. CaptureOK'
    BY <1>1, <1>3, <2>1, <2>2, <2>3 DEF NetInv, CaptureOK
  <2> QED
    BY <1>1, <1>2, <2>1, <2>4, PartsStutter DEF NetInv
<1>5. CASE enqueue(d)
  <2>1. forwarder[d].pkt \in Packets
    BY <1>3, <1>5 DEF enqueue, FwdStates
  <2>2. /\ \/ /\ packetQueue' = Append(packetQueue, forwarder[d].pkt) /\ lost' = lost
              /\ forwarder' = [forwarder EXCEPT ![d] = [pc |-> "count", pkt |-> None]]
           \/ /\ packetQueue' = packetQueue
              /\ lost' = lost \cup {[pkt |-> forwarder[d].pkt, why |-> "queue"]}
              /\ forwarder' = [forwarder EXCEPT ![d] = [pc |-> "idle", pkt |-> None]]
        /\ UNCHANGED <<packetChan, counter>>
    BY <1>5 DEF enqueue, giveUp
  <2>3. PICK new \in FwdStates :
           forwarder' = [forwarder EXCEPT ![d] = new] /\ new.pc # "send" /\ new.pkt = None
    <3>1. /\ [pc |-> "count", pkt |-> None] \in FwdStates
          /\ [pc |-> "idle", pkt |-> None] \in FwdStates
      BY DEF FwdStates
    <3> QED
      BY <2>2, <3>1
  <2>4. CaptureOK'
    BY <1>1, <1>3, <2>2, <2>3 DEF NetInv, CaptureOK
  <2>5. QueueOK'
    BY <2>1, <2>2, AppendProperties DEF NetInv, QueueOK
  <2>6. EndOK'
    BY <1>1, <2>1, <2>2 DEF NetInv, EndOK, Reasons
  <2> QED
    BY <1>2, <2>4, <2>5, <2>6 DEF NetInv
<1>6. CASE incrCounter(d) \/ ForwarderExit(d)
  <2>1. /\ forwarder[d].pc # "send"
        /\ \E pc \in {"idle", "exit"} : forwarder' = [forwarder EXCEPT ![d].pc = pc]
        /\ counter' = counter \/ counter' = counter + 1
        /\ UNCHANGED <<packetChan, packetQueue, lost>>
    BY <1>6 DEF incrCounter, ForwarderExit, endVars
  <2>2. /\ forwarder' \in [Devices -> FwdStates]
        /\ forwarder'[d].pc # "send" /\ forwarder'[d].pkt = None
        /\ \A e \in Devices \ {d} : forwarder'[e] = forwarder[e]
    BY <1>3, <2>1 DEF FwdStates
  <2>3. CaptureOK'
    BY <1>1, <1>3, <2>1, <2>2 DEF NetInv, CaptureOK
  <2>4. QueueOK'
    BY <2>1 DEF NetInv, QueueOK
  <2> QED
    BY <1>1, <1>2, <2>1, <2>3, <2>4, PartsStutter DEF NetInv
<1> QED
  BY <1>4, <1>5, <1>6

-----------------------------------------------------------------------------
(* loopHandlePacket.                                                       *)

\* Replacing one worker's state by a right one keeps the workers right.
LEMMA OneWorkerMoves ==
    ASSUME WorkersOK, NEW w \in Workers, NEW new \in WorkerStates, to(w, new),
           new.pc \in Resolving <=> new.pkt # None,
           new.pc = "proc" =>
              /\ new.inode \in Inodes
              /\ new.inode \in Conns => Uses(new.inode, PacketAddr[new.pkt]),
           new.pc = "charge" => new.pid \in Pids
    PROVE  WorkersOK'
<1>1. /\ worker' \in [Workers -> WorkerStates]
      /\ worker'[w] = new
      /\ \A v \in Workers : v # w => worker'[v] = worker[v]
  BY DEF WorkersOK, to
<1>2. ASSUME NEW v \in Workers
      PROVE  /\ worker'[v].pc \in Resolving <=> worker'[v].pkt # None
             /\ worker'[v].pc = "proc" =>
                   /\ worker'[v].inode \in Inodes
                   /\ worker'[v].inode \in Conns
                         => Uses(worker'[v].inode, PacketAddr[worker'[v].pkt])
             /\ worker'[v].pc = "charge" => worker'[v].pid \in Pids
  <2>1. CASE v = w
    BY <1>1, <2>1
  <2>2. CASE v # w
    BY <1>1, <2>2 DEF WorkersOK
  <2> QED
    BY <2>1, <2>2
<1> QED
  BY <1>1, <1>2 DEF WorkersOK, Uses, Inodes, Resolving

\* A worker takes a packet, ignores one that is not IPv4 TCP, or returns.
LEMMA DequeueKeeps ==
    ASSUME NetInv, NEW w \in Workers, dequeue(w) \/ WorkerExit(w)
    PROVE  NetInv'
<1>1. /\ UNCHANGED <<kernelVars, tableVars, scanVars, claimVars, wire, packetChan, capturing>>
      /\ UNCHANGED <<forwarder, counter, delayQueue, stamp, syncer, entry, ledger>>
      /\ UNCHANGED <<changes, quiet, done>>
  BY DEF dequeue, WorkerExit, pipeVars, delayVars, histVars, claimVars, endVars
<1>2. TablesOK' /\ CaptureOK' /\ DelayOK' /\ ClockOK' /\ LiableOK'
  BY <1>1, PartsStutter DEF NetInv, claimVars
<1>3. CASE dequeue(w)
  <2> DEFINE m == Head(packetQueue)
             new == [idle EXCEPT !.pc = "inode", !.pkt = m]
  <2>1. packetQueue # <<>> /\ packetQueue' = Tail(packetQueue)
    BY <1>3 DEF dequeue
  <2>2. m \in Packets /\ packetQueue' \in Seq(Packets)
    BY <2>1, HeadTailProperties, EmptySeq DEF NetInv, QueueOK
  <2>3. QueueOK'
    BY <1>1, <2>2 DEF NetInv, QueueOK
  <2>4. CASE PacketAddr[m] = None
    <3>1. worker' = worker /\ lost' = lost \cup {[pkt |-> m, why |-> "ignored"]}
      BY <1>3, <2>4 DEF dequeue, giveUp
    <3>2. EndOK'
      BY <1>1, <2>2, <3>1 DEF NetInv, EndOK, Reasons
    <3> QED
      BY <1>1, <1>2, <2>3, <3>1, <3>2, PartsStutter DEF NetInv
  <2>5. CASE PacketAddr[m] # None
    <3>1. to(w, new) /\ lost' = lost
      BY <1>3, <2>5 DEF dequeue
    <3>2. idle \in WorkerStates
      BY DEF idle, WorkerStates
    <3>3. new \in WorkerStates /\ new.pc = "inode" /\ new.pkt # None
      BY <2>2, <3>2, PacketsAssumption DEF WorkerStates
    <3> HIDE DEF new
    <3>4. WorkersOK'
      BY <1>1, <3>1, <3>3, OneWorkerMoves DEF NetInv, Resolving
    <3> QED
      BY <1>1, <1>2, <2>3, <3>1, <3>4, PartsStutter DEF NetInv
  <2> QED
    BY <2>4, <2>5
<1>4. CASE WorkerExit(w)
  <2> DEFINE new == [idle EXCEPT !.pc = "exit"]
  <2>1. to(w, new) /\ UNCHANGED <<packetQueue, lost>>
    BY <1>4 DEF WorkerExit, pipeVars, endVars
  <2>2. new = [pc |-> "exit", pkt |-> None, inode |-> None, pid |-> None]
    BY DEF idle
  <2>3. new \in WorkerStates /\ new.pc = "exit" /\ new.pkt = None
    BY <2>2 DEF WorkerStates
  <2> HIDE DEF new
  <2>4. WorkersOK'
    BY <1>1, <2>1, <2>3, OneWorkerMoves DEF NetInv, Resolving
  <2> QED
    BY <1>1, <1>2, <2>1, <2>4, PartsStutter DEF NetInv
<1> QED
  BY <1>3, <1>4

\* A stamp is set when a packet is about to be delayed.
LEMMA StampKeeps ==
    ASSUME DelayOK, NEW m \in Packets, delayed(m) \/ UNCHANGED stamp,
           UNCHANGED <<delayQueue, syncer, entry>>
    PROVE  DelayOK'
BY DEF DelayOK, delayed

\* It is none again when the entry is gone.
LEMMA GoneKeeps ==
    ASSUME DelayOK, NEW m \in Packets, gone(m) \/ UNCHANGED stamp
    PROVE  stamp' \in [Packets -> {None, "before", "during", "after"}]
BY DEF DelayOK, gone

\* getProcessByAddr, in two critical sections: the inode that is found has the
\* packet's pair.
LEMMA LookupKeeps ==
    ASSUME NetInv, NEW w \in Workers, LookupInode(w) \/ LookupProcess(w)
    PROVE  NetInv'
<1>1. /\ UNCHANGED <<kernelVars, tableVars, scanVars, claimVars, wire, packetChan, capturing>>
      /\ UNCHANGED <<forwarder, packetQueue, counter, delayQueue, syncer, entry, ledger, lost>>
      /\ UNCHANGED <<changes, quiet, done>>
  BY DEF LookupInode, LookupProcess, pipeVars, histVars, claimVars, endVars
<1>2. TablesOK' /\ CaptureOK' /\ QueueOK' /\ EndOK' /\ ClockOK' /\ LiableOK'
  BY <1>1, PartsStutter DEF NetInv, claimVars
<1> DEFINE r == worker[w]
           m == r.pkt
           k == PacketAddr[m]
<1>3. r \in WorkerStates /\ r.pc \in {"inode", "proc"} /\ r.pc \in Resolving
  BY DEF NetInv, WorkersOK, LookupInode, LookupProcess, Resolving
<1>4. m \in Packets /\ m # None
  BY <1>3, PacketsAssumption DEF WorkerStates, NetInv, WorkersOK
<1>5. ASSUME NEW new \in WorkerStates, to(w, new), new.pkt = m, new.pc \in {"proc", "push", "charge"},
             new.pc = "proc" =>
                new.inode \in Inodes /\ (new.inode \in Conns => Uses(new.inode, k)),
             new.pc = "charge" => new.pid \in Pids,
             delayed(m) \/ UNCHANGED stamp
      PROVE  NetInv'
  <2>1. WorkersOK'
    BY <1>1, <1>4, <1>5, OneWorkerMoves DEF NetInv, Resolving
  <2>2. DelayOK'
    BY <1>1, <1>4, <1>5, StampKeeps DEF NetInv
  <2> QED
    BY <1>2, <2>1, <2>2 DEF NetInv
<1>6. CASE LookupInode(w)
  <2>1. CASE k \in DOMAIN connInodeHash
    <3> DEFINE new == [r EXCEPT !.pc = "proc", !.inode = connInodeHash[k].value]
    <3>1. to(w, new) /\ UNCHANGED stamp
      BY <1>6, <2>1 DEF LookupInode
    <3>2. connInodeHash[k].value \in Inodes
      BY <2>1 DEF NetInv, TablesOK, TablesInv, MappingTypeOK, Entry
    <3>3. new \in WorkerStates /\ new.pkt = m /\ new.pc = "proc"
          /\ new.inode = connInodeHash[k].value
      BY <1>3, <3>2 DEF WorkerStates
    <3>4. new.inode \in Conns => Uses(new.inode, k)
      BY <2>1, <3>3 DEF NetInv, TablesOK, TablesInv, HashRight
    <3> QED
      BY <1>5, <3>1, <3>2, <3>3, <3>4
  <2>2. CASE k \notin DOMAIN connInodeHash
    <3> DEFINE new == [r EXCEPT !.pc = "push"]
    <3>1. to(w, new) /\ delayed(m)
      BY <1>6, <2>2 DEF LookupInode
    <3>2. new \in WorkerStates /\ new.pkt = m /\ new.pc = "push"
      BY <1>3 DEF WorkerStates
    <3> QED
      BY <1>5, <3>1, <3>2
  <2> QED
    BY <2>1, <2>2
<1>7. CASE LookupProcess(w)
  <2>1. ASSUME NEW p \in GetProcessByInode(r.inode),
               to(w, [r EXCEPT !.pc = "charge", !.inode = None, !.pid = p]),
               UNCHANGED stamp
        PROVE  NetInv'
    <3> DEFINE new == [r EXCEPT !.pc = "charge", !.inode = None, !.pid = p]
    <3>1. r.inode \in DOMAIN inodePidMap /\ p = inodePidMap[r.inode]
      BY <2>1 DEF GetProcessByInode
    <3>2. p \in Pids
      BY <3>1 DEF NetInv, TablesOK, TablesInv, ControllerTypeOK
    <3>3. new \in WorkerStates /\ new.pkt = m /\ new.pc = "charge" /\ new.pid = p
      BY <1>3, <3>2 DEF WorkerStates
    <3> QED
      BY <1>5, <2>1, <3>2, <3>3
  <2>2. ASSUME to(w, [r EXCEPT !.pc = "push", !.inode = None]), delayed(m)
        PROVE  NetInv'
    <3> DEFINE new == [r EXCEPT !.pc = "push", !.inode = None]
    <3>1. new \in WorkerStates /\ new.pkt = m /\ new.pc = "push"
      BY <1>3 DEF WorkerStates
    <3> QED
      BY <1>5, <2>2, <3>1
  <2> QED
    BY <1>7, <2>1, <2>2 DEF LookupProcess
<1> QED
  BY <1>6, <1>7

\* A charge keeps the types of the ledger.
LEMMA ChargeKeepsLedger ==
    ASSUME EndOK, NEW m \in Packets, NEW p \in Pids,
           ledger' = Append(ledger, [pkt |-> m, pid |-> p]), UNCHANGED lost
    PROVE  EndOK'
BY AppendProperties DEF EndOK

\* The worker charges the process it found, or delays its packet.
LEMMA ChargeKeeps ==
    ASSUME NetInv, NEW w \in Workers, Charge(w) \/ pushDelayQueue(w)
    PROVE  NetInv'
<1>1. /\ UNCHANGED <<kernelVars, tableVars, scanVars, claimVars, wire, packetChan, capturing>>
      /\ UNCHANGED <<forwarder, packetQueue, counter, syncer, entry>>
      /\ UNCHANGED <<changes, quiet, done>>
      /\ to(w, idle)
      /\ gone(worker[w].pkt) \/ UNCHANGED stamp
  BY DEF Charge, pushDelayQueue, pipeVars, delayVars, histVars, claimVars
<1>2. TablesOK' /\ CaptureOK' /\ QueueOK' /\ ClockOK' /\ LiableOK'
  BY <1>1, PartsStutter DEF NetInv, claimVars
<1>3. idle \in WorkerStates /\ idle.pc = "idle" /\ idle.pkt = None
  BY DEF idle, WorkerStates
<1>4. WorkersOK'
  BY <1>1, <1>3, OneWorkerMoves DEF NetInv, Resolving
<1>5. worker[w].pkt \in Packets
  BY DEF NetInv, WorkersOK, WorkerStates, Charge, pushDelayQueue, Resolving
<1>6. CASE Charge(w)
  <2>1. /\ ledger' = Append(ledger, [pkt |-> worker[w].pkt, pid |-> worker[w].pid])
        /\ UNCHANGED <<lost, delayQueue, stamp>>
    BY <1>6 DEF Charge, delayVars
  <2>2. worker[w].pid \in Pids
    BY <1>6 DEF Charge, NetInv, WorkersOK
  <2>3. EndOK'
    BY <1>1, <1>5, <2>1, <2>2, ChargeKeepsLedger DEF NetInv
  <2> QED
    BY <1>1, <1>2, <1>4, <2>1, <2>3, PartsStutter DEF NetInv
<1>7. CASE pushDelayQueue(w)
  <2>1. /\ \/ delayQueue' = Append(delayQueue, worker[w].pkt) /\ lost' = lost
           \/ /\ delayQueue' = delayQueue
              /\ lost' = lost \cup {[pkt |-> worker[w].pkt, why |-> "delay"]}
        /\ ledger' = ledger
    BY <1>7 DEF pushDelayQueue, giveUp
  <2>2. DelayOK'
    BY <1>1, <1>5, <2>1, GoneKeeps, AppendProperties DEF NetInv, DelayOK
  <2>3. EndOK'
    BY <1>1, <1>5, <2>1 DEF NetInv, EndOK, Reasons
  <2> QED
    BY <1>2, <1>4, <2>2, <2>3 DEF NetInv
<1> QED
  BY <1>6, <1>7

-----------------------------------------------------------------------------
(* startResourceSyncer, the cleaner, the kernel and Stop.                  *)

\* A rescan begins, reads, commits, fails or ends: what it found is held or was.
LEMMA RescanKeeps ==
    ASSUME NetInv, FirstRescan \/ Tick \/ Scan \/ ScanError \/ Commit \/ EndRescan
    PROVE  NetInv'
<1>1. /\ UNCHANGED <<sock, holders, liable, wire, packetChan, capturing, forwarder, worker>>
      /\ UNCHANGED <<packetQueue, counter, delayQueue, entry, ledger, lost, changes, done>>
  BY DEF FirstRescan, Tick, BeginRescan, Scan, ScanError, Commit, EndRescan, pipeVars, delayVars, endVars,
         kernelVars, histVars, claimVars
<1>2. CaptureOK' /\ QueueOK' /\ WorkersOK' /\ EndOK' /\ LiableOK'
  BY <1>1, PartsStutter DEF NetInv
<1>3. syncer' \in {"start", "first", "wait", "rescan", "drain", "exit"}
  BY DEF FirstRescan, Tick, BeginRescan, Scan, ScanError, Commit, EndRescan, NetInv, DelayOK
<1>4. stamp' \in [Packets -> {None, "before", "during", "after"}]
  BY DEF FirstRescan, Tick, BeginRescan, Scan, ScanError, Commit, EndRescan, delayVars, NetInv, DelayOK
<1>5. DelayOK'
  BY <1>1, <1>3, <1>4 DEF NetInv, DelayOK
<1>6. ClockOK'
  <2>1. quiet' = quiet \/ quiet' = TRUE \/ quiet' = FALSE
    BY DEF FirstRescan, Tick, BeginRescan, Scan, ScanError, Commit, EndRescan, histVars, claimVars
  <2>2. quiet' \in BOOLEAN
    BY <2>1, Zenon DEF NetInv, ClockOK
  <2> QED
    BY <1>1, <2>2 DEF NetInv, ClockOK
<1>7. TablesOK'
  <2>1. CASE FirstRescan \/ Tick
    <3>1. /\ TablesInv' /\ UNCHANGED <<inodePidMap, ps, base>> /\ since' = holders
          /\ ~ scanning /\ StartRescan
      BY <2>1, OtherScanStepsKeep
      DEF FirstRescan, Tick, BeginRescan, StartRescan, NetInv, TablesOK
    <3>2. ps' = NoProcesses /\ ScanIdle'
      BY <3>1, ScanStaysIdle DEF NetInv, TablesOK, TablesInv, ScanIdle
    <3>3. FoundIn(since)' /\ HeldIn(since)' /\ OwnersIn(base)'
      BY <1>1, <3>1, <3>2 DEF NetInv, TablesOK, FoundIn, HeldIn, OwnersIn, NoProcesses
    <3>4. \A c \in Conns : since'[c] \subseteq base'[c]
      BY <3>1 DEF NetInv, TablesOK, HeldIn
    <3> QED
      BY <1>1, <3>1, <3>2, <3>3, <3>4 DEF NetInv, TablesOK, KernelTypeOK
  <2>2. CASE Scan
    <3>1. /\ TablesInv' /\ inodePidMap' = inodePidMap /\ UNCHANGED <<since, base>>
          /\ \A q \in Pids : \A d \in ps'[q] : d \in ps[q] \/ q \in holders[d]
      BY <2>2, ScanStepKeeps DEF Scan, NetInv, TablesOK, histVars, claimVars
    <3>2. \A q \in Pids : ps'[q] \subseteq Conns
      BY <3>1 DEF TablesInv, ScanTypeOK
    <3>3. FoundIn(since)' /\ HeldIn(since)' /\ OwnersIn(base)'
      BY <1>1, <3>1, <3>2 DEF NetInv, TablesOK, FoundIn, HeldIn, OwnersIn
    <3>4. ScanIdle'
      BY <2>2, ScanStaysIdle DEF Scan, NetInv, TablesOK, TablesInv
    <3> QED
      BY <1>1, <3>1, <3>3, <3>4 DEF NetInv, TablesOK, KernelTypeOK
  <2>3. CASE Commit
    <3>1. /\ TablesInv' /\ ps' = NoProcesses /\ since' = since /\ base' = since
          /\ \A c \in DOMAIN inodePidMap' :
                c \in Conns /\ inodePidMap'[c] \in Pids /\ c \in ps[inodePidMap'[c]]
      BY <2>3, CommitKeeps DEF Commit, NetInv, TablesOK, CommitProcesses
    <3>2. FoundIn(since)' /\ HeldIn(since)' /\ OwnersIn(base)'
      BY <1>1, <3>1 DEF NetInv, TablesOK, FoundIn, HeldIn, OwnersIn, NoProcesses
    <3>3. ScanIdle'
      BY <2>3, ScanStaysIdle DEF Commit, NetInv, TablesOK, TablesInv
    <3> QED
      BY <1>1, <3>1, <3>2, <3>3 DEF NetInv, TablesOK, KernelTypeOK
  <2>4. CASE ScanError \/ EndRescan
    <3>1. TablesInv' /\ UNCHANGED <<inodePidMap, ps, since, base>>
      BY <2>4, OtherScanStepsKeep
      DEF ScanError, EndRescan, NetInv, TablesOK, histVars, claimVars
    <3>2. ScanIdle'
      BY <2>4, ScanStaysIdle DEF ScanError, EndRescan, NetInv, TablesOK, TablesInv
    <3> QED
      BY <1>1, <3>1, <3>2 DEF NetInv, TablesOK, KernelTypeOK, FoundIn, HeldIn, OwnersIn
  <2> QED
    BY <2>1, <2>2, <2>3, <2>4
<1> QED
  BY <1>2, <1>5, <1>6, <1>7 DEF NetInv

\* The syncer takes a delayed packet in hand, retries it, keeps it or returns.
LEMMA DrainKeeps ==
    ASSUME NetInv, consumeDelayQueue \/ handleDelayEntry \/ DrainEnds \/ SyncerExit
    PROVE  NetInv'
<1>1. /\ UNCHANGED <<kernelVars, tableVars, scanVars, claimVars, wire, packetChan, capturing>>
      /\ UNCHANGED <<forwarder, packetQueue, counter, worker, changes, quiet, done>>
  BY DEF consumeDelayQueue, handleDelayEntry, DrainEnds, SyncerExit, pipeVars, delayVars, histVars, claimVars
<1>2. TablesOK' /\ CaptureOK' /\ QueueOK' /\ WorkersOK' /\ ClockOK' /\ LiableOK'
  BY <1>1, PartsStutter DEF NetInv, claimVars
<1>3. CASE consumeDelayQueue
  <2>1. /\ delayQueue # <<>> /\ entry' = Head(delayQueue) /\ delayQueue' = Tail(delayQueue)
        /\ UNCHANGED <<syncer, stamp, ledger, lost>>
    BY <1>3 DEF consumeDelayQueue, endVars
  <2>2. entry' \in Packets /\ delayQueue' \in Seq(Packets)
    BY <2>1, HeadTailProperties, EmptySeq DEF NetInv, DelayOK
  <2>3. DelayOK'
    BY <1>1, <2>1, <2>2 DEF NetInv, DelayOK
  <2> QED
    BY <1>1, <1>2, <2>1, <2>3, PartsStutter DEF NetInv
<1>4. CASE handleDelayEntry
  <2>1. entry # None /\ entry' = None /\ gone(entry) /\ UNCHANGED <<syncer, delayQueue>>
    BY <1>4 DEF handleDelayEntry
  <2>2. entry \in Packets /\ DelayOK'
    BY <1>1, <2>1, GoneKeeps DEF NetInv, DelayOK
  <2>3. ASSUME NEW p \in getProcessByAddr(PacketAddr[entry]),
               ledger' = Append(ledger, [pkt |-> entry, pid |-> p]), UNCHANGED lost
        PROVE  EndOK'
    <3>1. p \in Pids
      BY LookupFindsOwner DEF NetInv, TablesOK
    <3> QED
      BY <1>1, <2>2, <2>3, <3>1, ChargeKeepsLedger DEF NetInv
  <2>4. ASSUME giveUp(entry, "unresolved"), UNCHANGED ledger
        PROVE  EndOK'
    BY <1>1, <2>2, <2>4 DEF NetInv, EndOK, Reasons, giveUp
  <2>5. EndOK'
    BY <1>4, <2>3, <2>4 DEF handleDelayEntry
  <2> QED
    BY <1>2, <2>2, <2>5 DEF NetInv
<1>5. CASE DrainEnds \/ SyncerExit
  <2>1. syncer' \in {"wait", "exit"} /\ UNCHANGED <<delayQueue, stamp, entry, ledger, lost>>
    BY <1>5 DEF DrainEnds, SyncerExit, delayVars, endVars
  <2>2. DelayOK'
    BY <1>1, <2>1 DEF NetInv, DelayOK
  <2> QED
    BY <1>1, <1>2, <2>1, <2>2, PartsStutter DEF NetInv
<1> QED
  BY <1>3, <1>4, <1>5

\* Stop closes ctx.Done; the cleaner takes entries away; nothing else changes.
LEMMA StopAndCleanKeep ==
    ASSUME NetInv, Stop \/ Clean \/ UNCHANGED vars
    PROVE  NetInv'
<1>1. /\ UNCHANGED <<sock, holders, claimVars, wire, packetChan, capturing, forwarder, packetQueue>>
      /\ UNCHANGED <<counter, worker, delayQueue, stamp, syncer, entry, ledger, lost>>
  BY DEF Stop, Clean, vars, pipeVars, delayVars, endVars, kernelVars, histVars, claimVars
<1>2. CaptureOK' /\ QueueOK' /\ WorkersOK' /\ DelayOK' /\ EndOK' /\ LiableOK'
  BY <1>1, PartsStutter DEF NetInv, claimVars
<1>3. ClockOK'
  <2>1. changes' \in 0 .. MaxChanges
    BY CapsAssumption DEF Stop, Clean, Disturb, vars, histVars, claimVars, NetInv, ClockOK
  <2>2. (quiet' = quiet \/ quiet' = FALSE) /\ (done' = done \/ done' = TRUE)
    BY DEF Stop, Clean, Disturb, vars, histVars, claimVars
  <2>3. quiet' \in BOOLEAN /\ done' \in BOOLEAN
    BY <2>2, Zenon DEF NetInv, ClockOK
  <2> QED
    BY <2>1, <2>3 DEF ClockOK
<1>4. TablesInv'
  BY CleanupKeeps, OtherScanStepsKeep DEF Stop, Clean, vars, NetInv, TablesOK
<1>5. UNCHANGED scanVars /\ inodePidMap' = inodePidMap
  BY DEF Stop, Clean, CleanupStep, vars, tableVars
<1>6. ScanIdle'
  BY <1>5, ScanStaysIdle DEF NetInv, TablesOK, TablesInv
<1>7. TablesOK'
  BY <1>1, <1>4, <1>5, <1>6
  DEF NetInv, TablesOK, KernelTypeOK, HeldIn, FoundIn, OwnersIn, scanVars, claimVars
<1> QED
  BY <1>2, <1>3, <1>7 DEF NetInv

\* The kernel changes no table; who has held a socket goes on having held it.
LEMMA KernelKeeps ==
    ASSUME NetInv, KernelChanges
    PROVE  NetInv'
<1>1. /\ UNCHANGED <<connInodeHash, dict, inodePidMap, wire, packetChan, capturing, forwarder>>
      /\ UNCHANGED <<scanning, unread, lines, unreadFds, ps, procScan, packetQueue, counter>>
      /\ UNCHANGED <<worker, delayQueue, stamp, syncer, entry, ledger, lost, done>>
  BY DEF KernelChanges, pipeVars, delayVars, endVars, tableVars, scanVars
<1>2. CaptureOK' /\ QueueOK' /\ WorkersOK' /\ DelayOK' /\ EndOK'
  BY <1>1, PartsStutter DEF NetInv, claimVars
<1>3. ClockOK'
  <2>1. changes' \in 0 .. MaxChanges
    BY CapsAssumption DEF KernelChanges, Disturb, NetInv, ClockOK
  <2>2. quiet' = FALSE
    BY DEF KernelChanges, Disturb
  <2>3. quiet' \in BOOLEAN
    BY <2>2, Zenon
  <2> QED
    BY <1>1, <2>1, <2>3 DEF NetInv, ClockOK
<1>4. KernelTypeOK'
  BY KernelStepTypes DEF KernelChanges, NetInv, TablesOK
<1>5. /\ since' = [c \in Conns |-> since[c] \cup holders'[c]]
      /\ base' = [c \in Conns |-> base[c] \cup holders'[c]]
  BY DEF KernelChanges
<1>6. /\ since' \in [Conns -> SUBSET Pids] /\ base' \in [Conns -> SUBSET Pids]
      /\ HeldIn(since)'
      /\ \A c \in Conns : since'[c] \subseteq base'[c]
  BY <1>4, <1>5 DEF NetInv, TablesOK, KernelTypeOK, HeldIn
<1>7. \A c \in Conns : since[c] \subseteq since'[c] /\ base[c] \subseteq base'[c]
  BY <1>5
<1>8. TablesInv'
  BY <1>1, OtherScanStepsKeep DEF NetInv, TablesOK, tableVars, scanVars
<1>9. FoundIn(since)' /\ OwnersIn(base)'
  <2>1. ASSUME NEW p \in Pids, NEW c \in ps[p] PROVE p \in since'[c]
    BY <1>7 DEF NetInv, TablesOK, TablesInv, ScanTypeOK, FoundIn
  <2>2. ASSUME NEW c \in DOMAIN inodePidMap PROVE inodePidMap[c] \in base'[c]
    BY <1>7 DEF NetInv, TablesOK, TablesInv, ControllerTypeOK, OwnersIn
  <2> QED
    BY <1>1, <2>1, <2>2 DEF FoundIn, OwnersIn
<1>10. ScanIdle'
  BY <1>1, ScanStaysIdle DEF NetInv, TablesOK, TablesInv, scanVars
<1>11. LiableOK'
  <2>1. \A m \in Packets : HeldLately(m)' \subseteq Pids
    BY <1>6 DEF HeldLately, PacketConns
  <2>2. liable' = [m \in Packets |->
                     IF m \in wire THEN liable[m] ELSE liable[m] \cup HeldLately(m)']
    BY DEF KernelChanges
  <2> QED
    BY <2>1, <2>2 DEF NetInv, LiableOK
<1> QED
  BY <1>2, <1>3, <1>4, <1>6, <1>8, <1>9, <1>10, <1>11 DEF NetInv, TablesOK

\* Every step preserves the invariant.
LEMMA NetInvStep == NetInv /\ [Next]_vars => NetInv'
<1> SUFFICES ASSUME NetInv, [Next]_vars PROVE NetInv'
  OBVIOUS
<1>1. ASSUME NEW d \in Devices, DeviceStep(d) PROVE NetInv'
  BY <1>1, CaptureKeeps, ForwarderKeeps DEF DeviceStep
<1>2. ASSUME NEW w \in Workers, WorkerStep(w) PROVE NetInv'
  BY <1>2, DequeueKeeps, LookupKeeps, ChargeKeeps DEF WorkerStep
<1>3. CASE SyncerStep
  BY <1>3, RescanKeeps, DrainKeeps DEF SyncerStep
<1>4. CASE KernelChanges
  BY <1>4, KernelKeeps
<1>5. CASE Stop \/ Clean \/ UNCHANGED vars
  BY <1>5, StopAndCleanKeep
<1> QED
  BY <1>1, <1>2, <1>3, <1>4, <1>5 DEF Next

\* The inductive invariant holds in every reachable state.
THEOREM NetflowInvariant == Spec => []NetInv
BY NetInvInit, NetInvStep, PTL DEF Spec

\* Tables, queues, goroutines and the ledger keep their types: every lookup, send
\* and charge of netflow.go works on a packet, an inode or a pid it really has.
THEOREM TypeCorrect == Spec => []TypeOK
<1>1. NetInv => TypeOK
  BY DEF NetInv, TypeOK, TablesOK, TablesInv, CaptureOK, QueueOK, WorkersOK, DelayOK, EndOK, ClockOK,
         LiableOK
<1> QED
  BY <1>1, NetflowInvariant, PTL

-----------------------------------------------------------------------------
(* Where a packet is.  Every step that touches a packet moves one packet   *)
(* from one place to another; EachPacketOnce, CounterExact and the         *)
(* refinement of Account all follow from that.                             *)

In(s, x) == \E i \in 1 .. Len(s) : s[i] = x

NoRepeat(s) == \A i, j \in 1 .. Len(s) : s[i] = s[j] => i = j

Billed(m) == \E i \in 1 .. Len(ledger) : ledger[i].pkt = m

Dropped(m, why) == [pkt |-> m, why |-> why] \in lost

\* Packet m is at the place `at` of device, worker or reason `who`.
Home(m, at, who) ==
    \/ at = "wire" /\ who = None /\ m \in wire
    \/ at = "packetChan" /\ who \in Devices /\ In(packetChan[who], m)
    \/ at = "forwarder" /\ who \in Devices /\ forwarder[who].pkt = m
    \/ at = "packetQueue" /\ who = None /\ In(packetQueue, m)
    \/ at = "worker" /\ who \in Workers /\ worker[who].pkt = m
    \/ at = "delayQueue" /\ who = None /\ In(delayQueue, m)
    \/ at = "entry" /\ who = None /\ entry = m
    \/ at = "ledger" /\ who = None /\ Billed(m)
    \/ at = "lost" /\ who \in Reasons /\ Dropped(m, who)

OnePlace ==
    \A m \in Packets :
        /\ \E at, who : Home(m, at, who)
        /\ \A at1, who1, at2, who2 :
              Home(m, at1, who1) /\ Home(m, at2, who2) => at1 = at2 /\ who1 = who2

Unrepeated ==
    /\ \A d \in Devices : NoRepeat(packetChan[d])
    /\ NoRepeat(packetQueue)
    /\ NoRepeat(delayQueue)
    /\ \A i, j \in 1 .. Len(ledger) : ledger[i].pkt = ledger[j].pkt => i = j

\* The inductive invariant behind EachPacketOnce.
PlaceInv == OnePlace /\ Unrepeated

\* A step moves packet m, and no other.
Moves(m, at1, who1, at2, who2) ==
    \A x \in Packets : \A at, who :
        Home(x, at, who)' <=>
            \/ Home(x, at, who) /\ ~ (x = m /\ at = at1 /\ who = who1)
            \/ x = m /\ at = at2 /\ who = who2

\* A step moves nothing.
Rests == \A x \in Packets : \A at, who : Home(x, at, who)' <=> Home(x, at, who)

\* The head of a queue without repetitions is not in its tail.
LEMMA TailIn ==
    ASSUME NEW S, NEW s \in Seq(S), s # <<>>, NoRepeat(s)
    PROVE  /\ Head(s) \in S /\ In(s, Head(s))
           /\ Tail(s) \in Seq(S) /\ Len(Tail(s)) = Len(s) - 1 /\ Len(s) \in Nat
           /\ NoRepeat(Tail(s))
           /\ \A x : In(Tail(s), x) <=> In(s, x) /\ x # Head(s)
<1>1. /\ Len(s) \in Nat /\ Len(s) >= 1 /\ Head(s) = s[1] /\ Head(s) \in S
      /\ Tail(s) \in Seq(S) /\ Len(Tail(s)) = Len(s) - 1
      /\ \A i \in 1 .. Len(s) - 1 : Tail(s)[i] = s[i + 1]
  BY HeadTailProperties, LenProperties, EmptySeq
<1>2. In(s, Head(s))
  BY <1>1 DEF In
<1>3. NoRepeat(Tail(s))
  BY <1>1 DEF NoRepeat
<1>4. ASSUME NEW x, In(Tail(s), x) PROVE In(s, x) /\ x # Head(s)
  <2>1. PICK i \in 1 .. Len(s) - 1 : s[i + 1] = x
    BY <1>1, <1>4 DEF In
  <2> QED
    BY <1>1, <2>1 DEF In, NoRepeat
<1>5. ASSUME NEW x, In(s, x), x # Head(s) PROVE In(Tail(s), x)
  <2>1. PICK i \in 1 .. Len(s) : s[i] = x
    BY <1>5 DEF In
  <2>2. i - 1 \in 1 .. Len(s) - 1 /\ Tail(s)[i - 1] = x
    BY <1>1, <1>5, <2>1
  <2> QED
    BY <1>1, <2>2 DEF In
<1> QED
  BY <1>1, <1>2, <1>3, <1>4, <1>5

\* A queue with one more element holds that element too.
LEMMA AppendIn ==
    ASSUME NEW S, NEW s \in Seq(S), NEW y \in S
    PROVE  /\ \A x : In(Append(s, y), x) <=> In(s, x) \/ x = y
           /\ NoRepeat(s) /\ ~ In(s, y) => NoRepeat(Append(s, y))
           /\ Len(Append(s, y)) = Len(s) + 1 /\ Len(s) \in Nat
<1> DEFINE t == Append(s, y)
<1>1. /\ Len(s) \in Nat /\ Len(t) = Len(s) + 1
      /\ \A i \in 1 .. Len(s) : t[i] = s[i]
      /\ t[Len(s) + 1] = y
  BY AppendProperties, LenProperties
<1> HIDE DEF t
<1>2. ASSUME NEW x PROVE In(t, x) <=> In(s, x) \/ x = y
  BY <1>1 DEF In
<1>3. ASSUME NoRepeat(s), ~ In(s, y) PROVE NoRepeat(t)
  <2> SUFFICES ASSUME NEW i \in 1 .. Len(s) + 1, NEW j \in 1 .. Len(s) + 1, t[i] = t[j]
               PROVE  i = j
    BY <1>1 DEF NoRepeat
  <2>1. CASE i \in 1 .. Len(s) /\ j \in 1 .. Len(s)
    BY <1>1, <1>3, <2>1 DEF NoRepeat
  <2>2. CASE i = Len(s) + 1 /\ j \in 1 .. Len(s)
    BY <1>1, <1>3, <2>2 DEF In
  <2>3. CASE i \in 1 .. Len(s) /\ j = Len(s) + 1
    BY <1>1, <1>3, <2>3 DEF In
  <2> QED
    BY <1>1, <2>1, <2>2, <2>3
<1> QED
  BY <1>1, <1>2, <1>3 DEF t

\* A charge bills one more packet.
LEMMA ChargeBills ==
    ASSUME EndOK, NEW m \in Packets, NEW p \in Pids, ~ Billed(m),
           \A i, j \in 1 .. Len(ledger) : ledger[i].pkt = ledger[j].pkt => i = j,
           ledger' = Append(ledger, [pkt |-> m, pid |-> p])
    PROVE  /\ \A x : Billed(x)' <=> Billed(x) \/ x = m
           /\ \A i, j \in 1 .. Len(ledger') : ledger'[i].pkt = ledger'[j].pkt => i = j
<1> DEFINE r == [pkt |-> m, pid |-> p]
<1>1. r \in [pkt : Packets, pid : Pids] /\ r.pkt = m
  OBVIOUS
<1> HIDE DEF r
<1>2. ledger \in Seq([pkt : Packets, pid : Pids]) /\ ledger' = Append(ledger, r)
  BY DEF EndOK, r
<1>3. /\ Len(ledger) \in Nat /\ Len(ledger') = Len(ledger) + 1
      /\ \A i \in 1 .. Len(ledger) : ledger'[i] = ledger[i]
      /\ ledger'[Len(ledger) + 1] = r
  BY <1>1, <1>2, AppendProperties, LenProperties
<1>4. ASSUME NEW x PROVE Billed(x)' <=> Billed(x) \/ x = m
  BY <1>1, <1>3 DEF Billed
<1>5. ASSUME NEW i \in 1 .. Len(ledger) + 1, NEW j \in 1 .. Len(ledger) + 1,
             ledger'[i].pkt = ledger'[j].pkt
      PROVE  i = j
  <2>1. CASE i \in 1 .. Len(ledger) /\ j \in 1 .. Len(ledger)
    BY <1>3, <1>5, <2>1
  <2>2. CASE i = Len(ledger) + 1 /\ j \in 1 .. Len(ledger)
    BY <1>1, <1>3, <1>5, <2>2 DEF Billed
  <2>3. CASE i \in 1 .. Len(ledger) /\ j = Len(ledger) + 1
    BY <1>1, <1>3, <1>5, <2>3 DEF Billed
  <2> QED
    BY <1>3, <1>5, <2>1, <2>2, <2>3
<1> QED
  BY <1>3, <1>4, <1>5

\* A packet that moves is in one place again.
LEMMA MovesKeeps ==
    ASSUME OnePlace, NEW m \in Packets, NEW at1, NEW who1, NEW at2, NEW who2,
           Home(m, at1, who1), Moves(m, at1, who1, at2, who2)
    PROVE  OnePlace'
<1>1. ASSUME NEW x \in Packets, x # m PROVE \A at, who : Home(x, at, who)' <=> Home(x, at, who)
  BY <1>1 DEF Moves
<1>2. \A at, who : Home(m, at, who)' <=> at = at2 /\ who = who2
  BY DEF Moves, OnePlace
<1>3. ASSUME NEW x \in Packets
      PROVE  /\ \E at, who : Home(x, at, who)'
             /\ \A a1, w1, a2, w2 : Home(x, a1, w1)' /\ Home(x, a2, w2)' => a1 = a2 /\ w1 = w2
  <2>1. CASE x = m
    BY <1>2, <2>1
  <2>2. CASE x # m
    <3>1. PICK at, who : Home(x, at, who)
      BY DEF OnePlace
    <3>2. Home(x, at, who)'
      BY <1>1, <2>2, <3>1
    <3>3. ASSUME NEW a1, NEW w1, NEW a2, NEW w2, Home(x, a1, w1)', Home(x, a2, w2)'
          PROVE  a1 = a2 /\ w1 = w2
      <4>1. Home(x, a1, w1) /\ Home(x, a2, w2)
        BY <1>1, <2>2, <3>3
      <4> QED
        BY <4>1 DEF OnePlace
    <3> QED
      BY <3>2, <3>3
  <2> QED
    BY <2>1, <2>2
<1> QED
  BY <1>3, Zenon DEF OnePlace

\* So is one that rests.
LEMMA RestsKeeps == OnePlace /\ Rests => OnePlace'
<1> SUFFICES ASSUME OnePlace, Rests PROVE OnePlace'
  OBVIOUS
<1>1. ASSUME NEW x \in Packets
      PROVE  /\ \E at, who : Home(x, at, who)'
             /\ \A a1, w1, a2, w2 : Home(x, a1, w1)' /\ Home(x, a2, w2)' => a1 = a2 /\ w1 = w2
  <2>1. PICK at, who : Home(x, at, who)
    BY DEF OnePlace
  <2>2. Home(x, at, who)'
    BY <2>1 DEF Rests
  <2>3. ASSUME NEW a1, NEW w1, NEW a2, NEW w2, Home(x, a1, w1)', Home(x, a2, w2)'
        PROVE  a1 = a2 /\ w1 = w2
    <3>1. Home(x, a1, w1) /\ Home(x, a2, w2)
      BY <2>3 DEF Rests
    <3> QED
      BY <3>1 DEF OnePlace
  <2> QED
    BY <2>2, <2>3
<1> QED
  BY <1>1, Zenon DEF OnePlace

\* giveUp drops one packet for one reason.
LEMMA GiveUpDrops ==
    ASSUME NEW m, NEW why, giveUp(m, why)
    PROVE  \A x, y : Dropped(x, y)' <=> Dropped(x, y) \/ (x = m /\ y = why)
<1> SUFFICES ASSUME NEW x, NEW y
             PROVE  Dropped(x, y)' <=> Dropped(x, y) \/ (x = m /\ y = why)
  OBVIOUS
<1> DEFINE r == [pkt |-> x, why |-> y]
           q == [pkt |-> m, why |-> why]
<1>1. r.pkt = x /\ r.why = y /\ q.pkt = m /\ q.why = why
  OBVIOUS
<1>2. r = q <=> (x = m /\ y = why)
  <2>1. ASSUME r = q PROVE x = m /\ y = why
    <3> HIDE DEF r, q
    <3> QED
      BY <1>1, <2>1
  <2> QED
    BY <2>1
<1>3. lost' = lost \cup {q}
  BY DEF giveUp
<1> HIDE DEF r, q
<1>4. r \in lost' <=> r \in lost \/ r = q
  BY <1>3
<1> QED
  <2>1. (Dropped(x, y) <=> r \in lost) /\ (Dropped(x, y)' <=> r \in lost')
    BY Zenon DEF Dropped, r
  <2> QED
    BY <1>2, <1>4, <2>1, Zenon
\* A packet of a device goes from the wire to the device's channel, or is dropped.
LEMMA CaptureMoves ==
    ASSUME NetInv, PlaceInv, NEW d \in Devices, NEW m \in Packets, Capture(d, m)
    PROVE  /\ Home(m, "wire", None) /\ Unrepeated'
           /\ \/ Moves(m, "wire", None, "packetChan", d) /\ UNCHANGED lost
              \/ Moves(m, "wire", None, "lost", "chan") /\ giveUp(m, "chan")
<1>1. /\ m \in wire /\ wire' = wire \ {m}
      /\ UNCHANGED <<forwarder, packetQueue, worker, delayQueue, entry, ledger>>
  BY DEF Capture, delayVars
<1>2. Home(m, "wire", None) /\ packetChan \in [Devices -> Seq(Packets)]
  BY <1>1 DEF Home, NetInv, CaptureOK
<1>3. ~ In(packetChan[d], m)
  <2>1. ~ Home(m, "packetChan", d)
    BY <1>2 DEF PlaceInv, OnePlace
  <2> QED
    BY <2>1 DEF Home
<1>4. CASE packetChan' = [packetChan EXCEPT ![d] = Append(packetChan[d], m)] /\ lost' = lost
  <2>1. /\ \A x : In(packetChan'[d], x) <=> In(packetChan[d], x) \/ x = m
        /\ NoRepeat(packetChan'[d])
    BY <1>2, <1>3, <1>4, AppendIn DEF PlaceInv, Unrepeated
  <2>2. \A e \in Devices : e # d => packetChan'[e] = packetChan[e]
    BY <1>2, <1>4
  <2>3. Unrepeated'
    BY <1>1, <2>1, <2>2 DEF PlaceInv, Unrepeated, NoRepeat
  <2>4. Moves(m, "wire", None, "packetChan", d)
    BY <1>1, <1>4, <2>1, <2>2 DEF Moves, Home, Billed, Dropped, In
  <2> QED
    BY <1>2, <1>4, <2>3, <2>4
<1>5. CASE packetChan' = packetChan /\ giveUp(m, "chan")
  <2>1. Unrepeated'
    BY <1>1, <1>5 DEF PlaceInv, Unrepeated, NoRepeat
  <2>2. Moves(m, "wire", None, "lost", "chan")
    <3>1. \A x, y : Dropped(x, y)' <=> Dropped(x, y) \/ (x = m /\ y = "chan")
      BY <1>5, GiveUpDrops
    <3>2. "chan" \in Reasons
      BY DEF Reasons
    <3>3. \A x : Billed(x)' <=> Billed(x)
      BY <1>1 DEF Billed
    <3> QED
      BY <1>1, <1>5, <3>1, <3>2, <3>3 DEF Moves, Home
  <2> QED
    BY <1>2, <1>5, <2>1, <2>2
<1> QED
  BY <1>4, <1>5 DEF Capture

\* The forwarder takes the oldest packet of its channel in hand.
LEMMA ReceiveMoves ==
    ASSUME NetInv, PlaceInv, NEW d \in Devices, Receive(d)
    PROVE  LET m == Head(packetChan[d])
           IN  /\ m \in Packets /\ Home(m, "packetChan", d) /\ Unrepeated'
               /\ Moves(m, "packetChan", d, "forwarder", d)
<1> DEFINE m == Head(packetChan[d])
<1>1. /\ UNCHANGED <<wire, packetQueue, worker, delayQueue, entry, ledger, lost>>
      /\ packetChan[d] # <<>> /\ forwarder[d].pc = "idle"
      /\ forwarder' = [forwarder EXCEPT ![d] = [pc |-> "send", pkt |-> m]]
      /\ packetChan' = [packetChan EXCEPT ![d] = Tail(packetChan[d])]
  BY DEF Receive, delayVars, endVars
<1>2. /\ packetChan \in [Devices -> Seq(Packets)] /\ forwarder \in [Devices -> FwdStates]
      /\ forwarder[d].pkt = None
  BY <1>1 DEF NetInv, CaptureOK
<1>3. /\ m \in Packets /\ In(packetChan[d], m)
      /\ \A x : In(packetChan'[d], x) <=> In(packetChan[d], x) /\ x # m
      /\ NoRepeat(packetChan'[d])
  BY <1>1, <1>2, TailIn DEF PlaceInv, Unrepeated
<1>4. /\ \A e \in Devices : e # d => packetChan'[e] = packetChan[e] /\ forwarder'[e] = forwarder[e]
      /\ forwarder'[d].pkt = m
  BY <1>1, <1>2
<1> HIDE DEF m
<1>5. Unrepeated'
  BY <1>1, <1>3, <1>4 DEF PlaceInv, Unrepeated, NoRepeat
<1>6. \A x : (Billed(x)' <=> Billed(x)) /\ \A y : Dropped(x, y)' <=> Dropped(x, y)
  BY <1>1 DEF Billed, Dropped
<1>7. None \notin Packets
  BY PacketsAssumption
<1>8. Moves(m, "packetChan", d, "forwarder", d)
  <2> SUFFICES ASSUME NEW x \in Packets, NEW at, NEW who
               PROVE  Home(x, at, who)' <=>
                         \/ Home(x, at, who) /\ ~ (x = m /\ at = "packetChan" /\ who = d)
                         \/ x = m /\ at = "forwarder" /\ who = d
    BY DEF Moves
  <2>1. CASE at = "packetChan"
    BY <1>3, <1>4, <2>1 DEF Home
  <2>2. CASE at = "forwarder"
    BY <1>2, <1>4, <1>7, <2>2 DEF Home
  <2>3. CASE at \notin {"packetChan", "forwarder"}
    BY <1>1, <1>6, <2>3 DEF Home
  <2> QED
    BY <2>1, <2>2, <2>3
<1> QED
  BY <1>3, <1>5, <1>8 DEF Home, m

\* It sends the packet to packetQueue, or drops it.
LEMMA EnqueueMoves ==
    ASSUME NetInv, PlaceInv, NEW d \in Devices, enqueue(d)
    PROVE  LET m == forwarder[d].pkt
           IN  /\ m \in Packets /\ Home(m, "forwarder", d) /\ Unrepeated'
               /\ \/ /\ Moves(m, "forwarder", d, "packetQueue", None)
                     /\ packetQueue' = Append(packetQueue, m) /\ UNCHANGED lost
                     /\ forwarder' = [forwarder EXCEPT ![d] = [pc |-> "count", pkt |-> None]]
                  \/ /\ Moves(m, "forwarder", d, "lost", "queue")
                     /\ UNCHANGED packetQueue /\ giveUp(m, "queue")
                     /\ forwarder' = [forwarder EXCEPT ![d] = [pc |-> "idle", pkt |-> None]]
<1> DEFINE m == forwarder[d].pkt
<1>1. /\ UNCHANGED <<wire, packetChan, worker, delayQueue, entry, ledger>>
      /\ forwarder[d].pc = "send"
  BY DEF enqueue, delayVars
<1>2. forwarder \in [Devices -> FwdStates] /\ packetQueue \in Seq(Packets) /\ m \in Packets
  BY <1>1 DEF NetInv, CaptureOK, QueueOK, FwdStates
<1>3. Home(m, "forwarder", d)
  BY DEF Home
<1>4. ~ In(packetQueue, m)
  <2>1. ~ Home(m, "packetQueue", None)
    BY <1>2, <1>3 DEF PlaceInv, OnePlace
  <2> QED
    BY <2>1 DEF Home
<1>5. None \notin Packets
  BY PacketsAssumption
<1>6. \A x : Billed(x)' <=> Billed(x)
  BY <1>1 DEF Billed
<1>7. CASE /\ packetQueue' = Append(packetQueue, m) /\ lost' = lost
           /\ forwarder' = [forwarder EXCEPT ![d] = [pc |-> "count", pkt |-> None]]
  <2>1. forwarder'[d].pkt = None /\ \A e \in Devices : e # d => forwarder'[e] = forwarder[e]
    BY <1>2, <1>7
  <2>2. /\ \A x : In(packetQueue', x) <=> In(packetQueue, x) \/ x = m
        /\ NoRepeat(packetQueue')
    BY <1>2, <1>4, <1>7, AppendIn DEF PlaceInv, Unrepeated
  <2>3. Unrepeated'
    BY <1>1, <2>2 DEF PlaceInv, Unrepeated, NoRepeat
  <2>4. \A x, y : Dropped(x, y)' <=> Dropped(x, y)
    BY <1>7 DEF Dropped
  <2>5. Moves(m, "forwarder", d, "packetQueue", None)
    BY <1>1, <1>5, <1>6, <2>1, <2>2, <2>4 DEF Moves, Home
  <2> QED
    BY <1>2, <1>3, <1>7, <2>3, <2>5
<1>8. CASE /\ packetQueue' = packetQueue /\ giveUp(m, "queue")
           /\ forwarder' = [forwarder EXCEPT ![d] = [pc |-> "idle", pkt |-> None]]
  <2>1. forwarder'[d].pkt = None /\ \A e \in Devices : e # d => forwarder'[e] = forwarder[e]
    BY <1>2, <1>8
  <2>2. Unrepeated'
    BY <1>1, <1>8 DEF PlaceInv, Unrepeated, NoRepeat
  <2>3. \A x, y : Dropped(x, y)' <=> Dropped(x, y) \/ (x = m /\ y = "queue")
    BY <1>8, GiveUpDrops
  <2>4. "queue" \in Reasons
    BY DEF Reasons
  <2>5. Moves(m, "forwarder", d, "lost", "queue")
    BY <1>1, <1>5, <1>6, <1>8, <2>1, <2>3, <2>4 DEF Moves, Home
  <2> QED
    BY <1>2, <1>3, <1>8, <2>2, <2>5
<1> QED
  BY <1>7, <1>8 DEF enqueue

\* A worker takes the oldest packet of packetQueue in hand, or ignores it.
LEMMA DequeueMoves ==
    ASSUME NetInv, PlaceInv, NEW w \in Workers, dequeue(w)
    PROVE  LET m == Head(packetQueue)
           IN  /\ m \in Packets /\ Home(m, "packetQueue", None) /\ Unrepeated'
               /\ packetQueue \in Seq(Packets) /\ packetQueue # <<>>
               /\ packetQueue' = Tail(packetQueue)
               /\ \/ Moves(m, "packetQueue", None, "worker", w) /\ UNCHANGED lost
                  \/ Moves(m, "packetQueue", None, "lost", "ignored") /\ giveUp(m, "ignored")
<1> DEFINE m == Head(packetQueue)
<1>1. /\ UNCHANGED <<wire, packetChan, forwarder, delayQueue, entry, ledger>>
      /\ worker[w].pc = "idle" /\ packetQueue # <<>> /\ packetQueue' = Tail(packetQueue)
  BY DEF dequeue, delayVars
<1>2. /\ worker \in [Workers -> WorkerStates] /\ packetQueue \in Seq(Packets)
      /\ worker[w].pkt = None
  BY <1>1 DEF NetInv, WorkersOK, QueueOK, Resolving
<1>3. /\ m \in Packets /\ In(packetQueue, m)
      /\ \A x : In(packetQueue', x) <=> In(packetQueue, x) /\ x # m
      /\ NoRepeat(packetQueue')
  BY <1>1, <1>2, TailIn DEF PlaceInv, Unrepeated
<1>4. Unrepeated' /\ Home(m, "packetQueue", None)
  BY <1>1, <1>3 DEF PlaceInv, Unrepeated, NoRepeat, Home
<1>5. None \notin Packets
  BY PacketsAssumption
<1>6. \A x : Billed(x)' <=> Billed(x)
  BY <1>1 DEF Billed
<1>7. CASE to(w, [idle EXCEPT !.pc = "inode", !.pkt = m]) /\ UNCHANGED lost
  <2> DEFINE new == [idle EXCEPT !.pc = "inode", !.pkt = m]
  <2>1. new.pkt = m
    BY DEF idle
  <2> HIDE DEF m, new
  <2>2. worker'[w].pkt = m /\ \A v \in Workers : v # w => worker'[v] = worker[v]
    BY <1>2, <1>7, <2>1 DEF to, new
  <2>3. \A x, y : Dropped(x, y)' <=> Dropped(x, y)
    BY <1>7 DEF Dropped
  <2>4. Moves(m, "packetQueue", None, "worker", w)
    BY <1>1, <1>2, <1>3, <1>5, <1>6, <2>2, <2>3 DEF Moves, Home
  <2> QED
    BY <1>1, <1>2, <1>3, <1>4, <1>7, <2>4 DEF m
<1>8. CASE giveUp(m, "ignored") /\ UNCHANGED worker
  <2> HIDE DEF m
  <2>1. \A x, y : Dropped(x, y)' <=> Dropped(x, y) \/ (x = m /\ y = "ignored")
    BY <1>8, GiveUpDrops
  <2>2. "ignored" \in Reasons
    BY DEF Reasons
  <2>3. Moves(m, "packetQueue", None, "lost", "ignored")
    BY <1>1, <1>3, <1>6, <1>8, <2>1, <2>2 DEF Moves, Home
  <2> QED
    BY <1>1, <1>2, <1>3, <1>4, <1>8, <2>3 DEF m
<1> QED
  BY <1>7, <1>8 DEF dequeue

\* A worker puts the packet it has in hand into the ledger or into delayQueue, or
\* drops it.
LEMMA ChargeMoves ==
    ASSUME NetInv, PlaceInv, NEW w \in Workers, Charge(w) \/ pushDelayQueue(w)
    PROVE  LET m == worker[w].pkt
           IN  /\ m \in Packets /\ Home(m, "worker", w) /\ Unrepeated'
               /\ \/ Moves(m, "worker", w, "ledger", None) /\ Charge(w)
                  \/ Moves(m, "worker", w, "delayQueue", None) /\ UNCHANGED <<ledger, lost>>
                  \/ Moves(m, "worker", w, "lost", "delay") /\ giveUp(m, "delay")
                     /\ UNCHANGED ledger
<1> DEFINE m == worker[w].pkt
<1>1. /\ UNCHANGED <<wire, packetChan, forwarder, packetQueue, entry>>
      /\ to(w, idle) /\ worker[w].pc \in {"charge", "push"}
  BY DEF Charge, pushDelayQueue, pipeVars
<1>2. /\ worker \in [Workers -> WorkerStates] /\ m \in Packets /\ delayQueue \in Seq(Packets)
      /\ worker[w].pc = "charge" => worker[w].pid \in Pids
  BY <1>1 DEF NetInv, WorkersOK, DelayOK, WorkerStates, Resolving
<1>3. Home(m, "worker", w)
  BY DEF Home
<1>4. ~ In(delayQueue, m) /\ ~ Billed(m)
  <2>1. ~ Home(m, "delayQueue", None) /\ ~ Home(m, "ledger", None)
    BY <1>2, <1>3 DEF PlaceInv, OnePlace
  <2> QED
    BY <2>1 DEF Home
<1>5. None \notin Packets
  BY PacketsAssumption
<1>6. worker'[w].pkt = None /\ \A v \in Workers : v # w => worker'[v] = worker[v]
  BY <1>1, <1>2 DEF to, idle
<1>7. CASE Charge(w)
  <2>1. /\ ledger' = Append(ledger, [pkt |-> m, pid |-> worker[w].pid])
        /\ UNCHANGED <<delayQueue, lost>> /\ worker[w].pid \in Pids
    BY <1>2, <1>7 DEF Charge, delayVars
  <2>2. /\ \A x : Billed(x)' <=> Billed(x) \/ x = m
        /\ \A i, j \in 1 .. Len(ledger') : ledger'[i].pkt = ledger'[j].pkt => i = j
    BY <1>2, <1>4, <2>1, ChargeBills DEF NetInv, PlaceInv, Unrepeated
  <2>3. Unrepeated'
    BY <1>1, <2>1, <2>2 DEF PlaceInv, Unrepeated, NoRepeat
  <2>4. \A x, y : Dropped(x, y)' <=> Dropped(x, y)
    BY <2>1 DEF Dropped
  <2>5. Moves(m, "worker", w, "ledger", None)
    BY <1>1, <1>5, <1>6, <2>1, <2>2, <2>4 DEF Moves, Home
  <2> QED
    BY <1>2, <1>3, <1>7, <2>3, <2>5
<1>8. CASE pushDelayQueue(w)
  <2>1. /\ \/ delayQueue' = Append(delayQueue, m) /\ lost' = lost
           \/ delayQueue' = delayQueue /\ giveUp(m, "delay")
        /\ ledger' = ledger
    BY <1>8 DEF pushDelayQueue
  <2>2. \A x : Billed(x)' <=> Billed(x)
    BY <2>1 DEF Billed
  <2>3. CASE delayQueue' = Append(delayQueue, m) /\ lost' = lost
    <3>1. /\ \A x : In(delayQueue', x) <=> In(delayQueue, x) \/ x = m
          /\ NoRepeat(delayQueue')
      BY <1>2, <1>4, <2>3, AppendIn DEF PlaceInv, Unrepeated
    <3>2. Unrepeated'
      BY <1>1, <2>1, <3>1 DEF PlaceInv, Unrepeated, NoRepeat
    <3>3. \A x, y : Dropped(x, y)' <=> Dropped(x, y)
      BY <2>3 DEF Dropped
    <3>4. Moves(m, "worker", w, "delayQueue", None)
      BY <1>1, <1>5, <1>6, <2>2, <3>1, <3>3 DEF Moves, Home
    <3> QED
      BY <1>2, <1>3, <2>1, <2>3, <3>2, <3>4
  <2>4. CASE delayQueue' = delayQueue /\ giveUp(m, "delay")
    <3>1. Unrepeated'
      BY <1>1, <2>1, <2>4 DEF PlaceInv, Unrepeated, NoRepeat
    <3>2. \A x, y : Dropped(x, y)' <=> Dropped(x, y) \/ (x = m /\ y = "delay")
      BY <2>4, GiveUpDrops
    <3>3. "delay" \in Reasons
      BY DEF Reasons
    <3>4. Moves(m, "worker", w, "lost", "delay")
      BY <1>1, <1>5, <1>6, <2>2, <2>4, <3>2, <3>3 DEF Moves, Home
    <3> QED
      BY <1>2, <1>3, <2>1, <2>4, <3>1, <3>4
  <2> QED
    BY <2>1, <2>3, <2>4
<1> QED
  BY <1>7, <1>8

\* The syncer takes the oldest delayed packet in hand.
LEMMA ConsumeMoves ==
    ASSUME NetInv, PlaceInv, consumeDelayQueue
    PROVE  LET m == Head(delayQueue)
           IN  /\ m \in Packets /\ Home(m, "delayQueue", None) /\ Unrepeated'
               /\ Moves(m, "delayQueue", None, "entry", None)
<1> DEFINE m == Head(delayQueue)
<1>1. /\ UNCHANGED <<wire, packetChan, forwarder, packetQueue, worker, ledger, lost>>
      /\ entry = None /\ entry' = m /\ delayQueue # <<>> /\ delayQueue' = Tail(delayQueue)
  BY DEF consumeDelayQueue, pipeVars, endVars
<1>2. delayQueue \in Seq(Packets)
  BY DEF NetInv, DelayOK
<1>3. /\ m \in Packets /\ In(delayQueue, m)
      /\ \A x : In(delayQueue', x) <=> In(delayQueue, x) /\ x # m
      /\ NoRepeat(delayQueue')
  BY <1>1, <1>2, TailIn DEF PlaceInv, Unrepeated
<1> HIDE DEF m
<1>4. Unrepeated' /\ Home(m, "delayQueue", None)
  BY <1>1, <1>3 DEF PlaceInv, Unrepeated, NoRepeat, Home
<1>5. \A x : (Billed(x)' <=> Billed(x)) /\ \A y : Dropped(x, y)' <=> Dropped(x, y)
  BY <1>1 DEF Billed, Dropped
<1>6. None \notin Packets
  BY PacketsAssumption
<1>7. Moves(m, "delayQueue", None, "entry", None)
  <2> SUFFICES ASSUME NEW x \in Packets, NEW at, NEW who
               PROVE  Home(x, at, who)' <=>
                         \/ Home(x, at, who) /\ ~ (x = m /\ at = "delayQueue" /\ who = None)
                         \/ x = m /\ at = "entry" /\ who = None
    BY DEF Moves
  <2>1. CASE at = "delayQueue"
    BY <1>3, <2>1 DEF Home
  <2>2. CASE at = "entry"
    BY <1>1, <1>6, <2>2 DEF Home
  <2>3. CASE at \notin {"delayQueue", "entry"}
    BY <1>1, <1>5, <2>3 DEF Home
  <2> QED
    BY <2>1, <2>2, <2>3
<1> QED
  BY <1>3, <1>4, <1>7 DEF m

\* It charges the packet it has in hand to the process found now, or drops it.
LEMMA HandleMoves ==
    ASSUME NetInv, PlaceInv, handleDelayEntry
    PROVE  /\ entry \in Packets /\ Home(entry, "entry", None) /\ Unrepeated'
           /\ \/ /\ Moves(entry, "entry", None, "ledger", None) /\ UNCHANGED lost
                 /\ \E p \in getProcessByAddr(PacketAddr[entry]) :
                       ledger' = Append(ledger, [pkt |-> entry, pid |-> p])
              \/ /\ Moves(entry, "entry", None, "lost", "unresolved")
                 /\ giveUp(entry, "unresolved") /\ UNCHANGED ledger
<1>1. /\ UNCHANGED <<wire, packetChan, forwarder, packetQueue, worker, delayQueue>>
      /\ entry # None /\ entry' = None
  BY DEF handleDelayEntry, pipeVars, delayVars
<1>2. entry \in Packets /\ Home(entry, "entry", None) /\ None \notin Packets
  BY <1>1, PacketsAssumption DEF NetInv, DelayOK, Home
<1>3. ~ Billed(entry)
  <2>1. ~ Home(entry, "ledger", None)
    BY <1>2 DEF PlaceInv, OnePlace
  <2> QED
    BY <2>1 DEF Home
<1>4. ASSUME NEW p \in getProcessByAddr(PacketAddr[entry]),
             ledger' = Append(ledger, [pkt |-> entry, pid |-> p]), UNCHANGED lost
      PROVE  Moves(entry, "entry", None, "ledger", None) /\ Unrepeated'
  <2>1. p \in Pids
    BY LookupFindsOwner DEF NetInv, TablesOK
  <2>2. /\ \A x : Billed(x)' <=> Billed(x) \/ x = entry
        /\ \A i, j \in 1 .. Len(ledger') : ledger'[i].pkt = ledger'[j].pkt => i = j
    BY <1>2, <1>3, <1>4, <2>1, ChargeBills DEF NetInv, PlaceInv, Unrepeated
  <2>3. Unrepeated'
    BY <1>1, <2>2 DEF PlaceInv, Unrepeated, NoRepeat
  <2>4. \A x, y : Dropped(x, y)' <=> Dropped(x, y)
    BY <1>4 DEF Dropped
  <2>5. Moves(entry, "entry", None, "ledger", None)
    BY <1>1, <1>2, <2>2, <2>4 DEF Moves, Home
  <2> QED
    BY <2>3, <2>5
<1>5. ASSUME giveUp(entry, "unresolved"), UNCHANGED ledger
      PROVE  Moves(entry, "entry", None, "lost", "unresolved") /\ Unrepeated'
  <2>1. Unrepeated'
    BY <1>1, <1>5 DEF PlaceInv, Unrepeated, NoRepeat
  <2>2. \A x, y : Dropped(x, y)' <=> Dropped(x, y) \/ (x = entry /\ y = "unresolved")
    BY <1>5, GiveUpDrops
  <2>3. "unresolved" \in Reasons /\ \A x : Billed(x)' <=> Billed(x)
    BY <1>5 DEF Reasons, Billed
  <2>4. Moves(entry, "entry", None, "lost", "unresolved")
    BY <1>1, <1>2, <2>2, <2>3 DEF Moves, Home
  <2> QED
    BY <2>1, <2>4
<1> QED
  BY <1>2, <1>4, <1>5 DEF handleDelayEntry

\* The steps that touch no packet.
Quiet ==
    \/ \E d \in Devices : CaptureExit(d) \/ incrCounter(d) \/ ForwarderExit(d)
    \/ \E w \in Workers : WorkerExit(w) \/ LookupInode(w) \/ LookupProcess(w)
    \/ FirstRescan \/ Tick \/ Scan \/ ScanError \/ Commit \/ EndRescan \/ DrainEnds \/ SyncerExit
    \/ Stop \/ Clean \/ KernelChanges
    \/ UNCHANGED vars

\* In all other steps every packet stays where it is.
LEMMA QuietRests ==
    ASSUME NetInv, PlaceInv, Quiet
    PROVE  /\ Rests /\ Unrepeated'
           /\ UNCHANGED <<wire, packetChan, packetQueue, delayQueue, entry, ledger, lost>>
           /\ \A w \in Workers : worker'[w].pkt = worker[w].pkt
<1>1. UNCHANGED <<wire, packetChan, packetQueue, delayQueue, entry, ledger, lost>>
  BY DEF Quiet, CaptureExit, incrCounter, ForwarderExit, WorkerExit, LookupInode, LookupProcess,
         FirstRescan, Tick, BeginRescan, Scan, ScanError, Commit, EndRescan, DrainEnds, SyncerExit, Stop,
         Clean, KernelChanges, vars, pipeVars, delayVars, endVars
<1>2. \A d \in Devices : forwarder'[d].pkt = forwarder[d].pkt
  <2>1. \/ forwarder' = forwarder
        \/ \E d \in Devices, pc \in {"idle", "exit"} : forwarder' = [forwarder EXCEPT ![d].pc = pc]
    BY DEF Quiet, CaptureExit, incrCounter, ForwarderExit, WorkerExit, LookupInode, LookupProcess,
           FirstRescan, Tick, BeginRescan, Scan, ScanError, Commit, EndRescan, DrainEnds, SyncerExit, Stop,
           Clean, KernelChanges, vars, pipeVars
  <2>2. forwarder \in [Devices -> FwdStates]
    BY DEF NetInv, CaptureOK
  <2> QED
    BY <2>1, <2>2 DEF FwdStates
<1>3. \A w \in Workers : worker'[w].pkt = worker[w].pkt
  <2>1. worker \in [Workers -> WorkerStates]
    BY DEF NetInv, WorkersOK
  <2>2. ASSUME NEW w \in Workers, WorkerExit(w)
        PROVE  \A v \in Workers : worker'[v].pkt = worker[v].pkt
    <3>1. worker[w].pkt = None
      BY <2>2 DEF WorkerExit, NetInv, WorkersOK, Resolving
    <3>2. [idle EXCEPT !.pc = "exit"].pkt = None
      BY DEF idle
    <3> QED
      BY <2>1, <2>2, <3>1, <3>2 DEF WorkerExit, to
  <2>3. ASSUME NEW w \in Workers, LookupInode(w) \/ LookupProcess(w)
        PROVE  \A v \in Workers : worker'[v].pkt = worker[v].pkt
    <3>1. PICK new : to(w, new) /\ new.pkt = worker[w].pkt
      <4>1. worker[w] \in WorkerStates
        BY <2>1
      <4>2. ASSUME NEW i, NEW p
            PROVE  /\ [worker[w] EXCEPT !.pc = "proc", !.inode = i].pkt = worker[w].pkt
                   /\ [worker[w] EXCEPT !.pc = "push"].pkt = worker[w].pkt
                   /\ [worker[w] EXCEPT !.pc = "push", !.inode = None].pkt = worker[w].pkt
                   /\ [worker[w] EXCEPT !.pc = "charge", !.inode = None, !.pid = p].pkt
                         = worker[w].pkt
        BY <4>1 DEF WorkerStates
      <4> QED
        BY <2>3, <4>2 DEF LookupInode, LookupProcess
    <3> QED
      BY <2>1, <3>1 DEF to
  <2>4. \/ worker' = worker
        \/ \E w \in Workers : WorkerExit(w) \/ LookupInode(w) \/ LookupProcess(w)
    BY DEF Quiet, CaptureExit, incrCounter, ForwarderExit, FirstRescan, Tick, BeginRescan, Scan,
           ScanError, Commit, EndRescan, DrainEnds, SyncerExit, Stop, Clean, KernelChanges, vars
  <2> QED
    BY <2>2, <2>3, <2>4
<1>4. \A x : (Billed(x)' <=> Billed(x)) /\ \A y : Dropped(x, y)' <=> Dropped(x, y)
  BY <1>1 DEF Billed, Dropped
<1>5. Rests
  BY <1>1, <1>2, <1>3, <1>4 DEF Rests, Home
<1>6. Unrepeated'
  BY <1>1 DEF PlaceInv, Unrepeated, NoRepeat
<1> QED
  BY <1>1, <1>3, <1>5, <1>6

\* Initially every packet is on the wire.
LEMMA PlaceInvInit == Init => PlaceInv
<1> SUFFICES ASSUME Init PROVE PlaceInv
  OBVIOUS
<1>1. /\ wire = Packets /\ packetChan = [d \in Devices |-> <<>>] /\ packetQueue = <<>>
      /\ delayQueue = <<>> /\ entry = None /\ ledger = <<>> /\ lost = {}
      /\ \A d \in Devices : forwarder[d].pkt = None
      /\ \A w \in Workers : worker[w].pkt = None
  BY DEF Init, Start, startNetworkSniffer, buildPcapHandler, idle
<1>2. \A x : ~ In(<<>>, x) /\ ~ Billed(x) /\ \A y : ~ Dropped(x, y)
  BY <1>1 DEF In, Billed, Dropped
<1>3. None \notin Packets
  BY PacketsAssumption
<1>4. \A m \in Packets : \A at, who : Home(m, at, who) <=> at = "wire" /\ who = None
  <2>1. \A m \in Packets : Home(m, "wire", None)
    BY <1>1 DEF Home
  <2>2. ASSUME NEW m \in Packets, NEW at, NEW who, Home(m, at, who)
        PROVE  at = "wire" /\ who = None
    <3>1. /\ \A d \in Devices : ~ In(packetChan[d], m) /\ forwarder[d].pkt # m
          /\ \A w \in Workers : worker[w].pkt # m
      BY <1>1, <1>2, <1>3
    <3>2. /\ ~ In(packetQueue, m) /\ ~ In(delayQueue, m) /\ entry # m
          /\ ~ Billed(m) /\ ~ Dropped(m, who)
      BY <1>1, <1>2, <1>3
    <3> QED  BY <2>2, <3>1, <3>2 DEF Home
  <2> QED  BY <2>1, <2>2
<1>5. OnePlace
  BY <1>4 DEF OnePlace
<1>6. Unrepeated
  BY <1>1 DEF Unrepeated, NoRepeat
<1> QED
  BY <1>5, <1>6 DEF PlaceInv

\* A step of the program either touches no packet or moves one.
LEMMA StepMoves ==
    ASSUME [Next]_vars
    PROVE  \/ \E d \in Devices : (\E m \in Packets : Capture(d, m)) \/ Receive(d) \/ enqueue(d)
           \/ \E w \in Workers : dequeue(w) \/ Charge(w) \/ pushDelayQueue(w)
           \/ consumeDelayQueue \/ handleDelayEntry
           \/ Quiet
BY DEF Next, DeviceStep, WorkerStep, SyncerStep, Quiet

\* Every step keeps every packet in one place.
LEMMA PlaceInvStep == NetInv /\ PlaceInv /\ [Next]_vars => PlaceInv'
<1> SUFFICES ASSUME NetInv, PlaceInv, [Next]_vars PROVE PlaceInv'
  OBVIOUS
<1>1. OnePlace
  BY DEF PlaceInv
<1>2. ASSUME NEW d \in Devices, NEW m \in Packets, Capture(d, m) PROVE PlaceInv'
  BY <1>1, <1>2, CaptureMoves, MovesKeeps DEF PlaceInv
<1>3. ASSUME NEW d \in Devices, Receive(d) PROVE PlaceInv'
  BY <1>1, <1>3, ReceiveMoves, MovesKeeps DEF PlaceInv
<1>4. ASSUME NEW d \in Devices, enqueue(d) PROVE PlaceInv'
  BY <1>1, <1>4, EnqueueMoves, MovesKeeps DEF PlaceInv
<1>5. ASSUME NEW w \in Workers, dequeue(w) PROVE PlaceInv'
  BY <1>1, <1>5, DequeueMoves, MovesKeeps DEF PlaceInv
<1>6. ASSUME NEW w \in Workers, Charge(w) \/ pushDelayQueue(w) PROVE PlaceInv'
  BY <1>1, <1>6, ChargeMoves, MovesKeeps DEF PlaceInv
<1>7. CASE consumeDelayQueue
  BY <1>1, <1>7, ConsumeMoves, MovesKeeps DEF PlaceInv
<1>8. CASE handleDelayEntry
  BY <1>1, <1>8, HandleMoves, MovesKeeps DEF PlaceInv
<1>9. CASE Quiet
  BY <1>1, <1>9, QuietRests, RestsKeeps DEF PlaceInv
<1> QED
  BY <1>2, <1>3, <1>4, <1>5, <1>6, <1>7, <1>8, <1>9, StepMoves

\* Places hold, in every reachable state.
THEOREM PlaceInvariant == Spec => [](NetInv /\ PlaceInv)
BY NetInvInit, NetInvStep, PlaceInvInit, PlaceInvStep, PTL DEF Spec

\* A queue without repetitions has a packet at one position or at none.
LEMMA PositionsOne ==
    ASSUME NEW S, NEW s \in Seq(S), NoRepeat(s), NEW m
    PROVE  IF In(s, m) THEN \E i : Positions(s, m) = {i} ELSE Positions(s, m) = {}
<1>1. DOMAIN s = 1 .. Len(s)
  BY LenProperties
<1>2. CASE In(s, m)
  <2>1. PICK i \in 1 .. Len(s) : s[i] = m
    BY <1>2 DEF In
  <2>2. \A j \in 1 .. Len(s) : s[j] = m <=> j = i
    BY <2>1 DEF NoRepeat
  <2>3. Positions(s, m) = {i}
    BY <1>1, <2>1, <2>2 DEF Positions
  <2> QED
    BY <1>2, <2>3
<1>3. CASE ~ In(s, m)
  BY <1>1, <1>3 DEF In, Positions
<1> QED
  BY <1>2, <1>3

\* A packet that has one home has one place.
LEMMA OneHomeOnePlace ==
    ASSUME NetInv, PlaceInv, NEW m \in Packets
    PROVE  \E x : Places(m) = {x}
<1> DEFINE W == wire \cap {m}
           C == UNION {{d} \X Positions(packetChan[d], m) : d \in Devices}
           F == {d \in Devices : forwarder[d].pkt = m}
           Q == Positions(packetQueue, m)
           K == {w \in Workers : worker[w].pkt = m}
           D == Positions(delayQueue, m)
           E == {entry} \cap {m}
           L == Charges(m)
           G == GivenUp(m)
<1>1. PICK at, who : /\ Home(m, at, who)
                     /\ \A a, w : Home(m, a, w) => a = at /\ w = who
  BY DEF PlaceInv, OnePlace
<1>2. IF at = "wire" THEN \E x : W = {x} ELSE W = {}
  <2>1. m \in wire <=> at = "wire"
    BY <1>1 DEF Home
  <2> QED
    BY <2>1
<1>3. IF at = "packetChan" THEN \E x : C = {x} ELSE C = {}
  <2>1. ASSUME NEW d \in Devices
        PROVE  IF at = "packetChan" /\ who = d THEN \E i : Positions(packetChan[d], m) = {i}
                                               ELSE Positions(packetChan[d], m) = {}
    <3>1. In(packetChan[d], m) <=> at = "packetChan" /\ who = d
      BY <1>1 DEF Home
    <3>2. packetChan[d] \in Seq(Packets) /\ NoRepeat(packetChan[d])
      BY DEF NetInv, CaptureOK, PlaceInv, Unrepeated
    <3> QED
      BY <3>1, <3>2, PositionsOne
  <2>2. CASE at = "packetChan"
    <3>1. who \in Devices
      BY <1>1, <2>2 DEF Home
    <3>2. PICK i : Positions(packetChan[who], m) = {i}
      BY <2>1, <2>2, <3>1
    <3>3. \A d \in Devices : d # who => Positions(packetChan[d], m) = {}
      BY <2>1
    <3>4. C = {<<who, i>>}
      BY <3>1, <3>2, <3>3
    <3> QED
      BY <2>2, <3>4
  <2>3. CASE at # "packetChan"
    BY <2>1, <2>3
  <2> QED
    BY <2>2, <2>3
<1>4. IF at = "forwarder" THEN \E x : F = {x} ELSE F = {}
  <2>1. \A d \in Devices : forwarder[d].pkt = m <=> at = "forwarder" /\ d = who
    BY <1>1 DEF Home
  <2>2. at = "forwarder" => who \in Devices
    BY <1>1 DEF Home
  <2>3. at = "forwarder" => F = {who}
    BY <2>1, <2>2
  <2> QED
    BY <2>1, <2>3
<1>5. IF at = "packetQueue" THEN \E x : Q = {x} ELSE Q = {}
  <2>1. In(packetQueue, m) <=> at = "packetQueue"
    BY <1>1 DEF Home
  <2> QED
    BY <2>1, PositionsOne DEF NetInv, QueueOK, PlaceInv, Unrepeated
<1>6. IF at = "worker" THEN \E x : K = {x} ELSE K = {}
  <2>1. \A w \in Workers : worker[w].pkt = m <=> at = "worker" /\ w = who
    BY <1>1 DEF Home
  <2>2. at = "worker" => who \in Workers
    BY <1>1 DEF Home
  <2>3. at = "worker" => K = {who}
    BY <2>1, <2>2
  <2> QED
    BY <2>1, <2>3
<1>7. IF at = "delayQueue" THEN \E x : D = {x} ELSE D = {}
  <2>1. In(delayQueue, m) <=> at = "delayQueue"
    BY <1>1 DEF Home
  <2> QED
    BY <2>1, PositionsOne DEF NetInv, DelayOK, PlaceInv, Unrepeated
<1>8. IF at = "entry" THEN \E x : E = {x} ELSE E = {}
  <2>1. entry = m <=> at = "entry"
    BY <1>1 DEF Home
  <2> QED
    BY <2>1
<1>9. IF at = "ledger" THEN \E x : L = {x} ELSE L = {}
  <2>1. Billed(m) <=> at = "ledger"
    BY <1>1 DEF Home
  <2>2. DOMAIN ledger = 1 .. Len(ledger)
    BY LenProperties DEF NetInv, EndOK
  <2>3. CASE at = "ledger"
    <3>1. PICK i \in 1 .. Len(ledger) : ledger[i].pkt = m
      BY <2>1, <2>3 DEF Billed
    <3>2. \A j \in 1 .. Len(ledger) : ledger[j].pkt = m <=> j = i
      BY <3>1 DEF PlaceInv, Unrepeated
    <3>3. L = {i}
      BY <2>2, <3>1, <3>2 DEF Charges
    <3> QED
      BY <2>3, <3>3
  <2>4. CASE at # "ledger"
    BY <2>1, <2>2, <2>4 DEF Billed, Charges
  <2> QED
    BY <2>3, <2>4
<1>10. IF at = "lost" THEN \E x : G = {x} ELSE G = {}
  <2>1. ASSUME NEW r \in lost, r.pkt = m
        PROVE  r.why \in Reasons /\ r = [pkt |-> m, why |-> r.why] /\ Home(m, "lost", r.why)
    <3>1. r \in [pkt : Packets, why : Reasons]
      BY DEF NetInv, EndOK
    <3>2. r.why \in Reasons /\ r = [pkt |-> m, why |-> r.why]
      BY <2>1, <3>1
    <3> QED
      BY <3>2 DEF Home, Dropped
  <2>2. CASE at = "lost"
    <3>1. [pkt |-> m, why |-> who] \in lost
      BY <1>1, <2>2 DEF Home, Dropped
    <3> DEFINE q == [pkt |-> m, why |-> who]
    <3>2. q \in lost /\ q.pkt = m
      BY <3>1
    <3>3. \A r \in lost : r.pkt = m => r = q
      BY <1>1, <2>1
    <3> HIDE DEF q
    <3>4. G = {q}
      BY <3>2, <3>3 DEF GivenUp
    <3> QED
      BY <2>2, <3>4
  <2>3. CASE at # "lost"
    BY <1>1, <2>1, <2>3 DEF GivenUp
  <2> QED
    BY <2>2, <2>3
<1>11. at \in {"wire", "packetChan", "forwarder", "packetQueue", "worker", "delayQueue", "entry",
               "ledger", "lost"}
  BY <1>1 DEF Home
<1>12. Places(m) = ({"wire"} \X W) \cup ({"packetChan"} \X C) \cup ({"forwarder"} \X F)
                   \cup ({"packetQueue"} \X Q) \cup ({"worker"} \X K) \cup ({"delayQueue"} \X D)
                   \cup ({"entry"} \X E) \cup ({"ledger"} \X L) \cup ({"lost"} \X G)
  BY DEF Places
<1>13. ASSUME NEW k, NEW S, IF at = k THEN \E x : S = {x} ELSE S = {}
       PROVE  IF at = k THEN \E x : {k} \X S = {x} ELSE {k} \X S = {}
  <2>1. {k} \X {} = {} /\ \A x : {k} \X {x} = {<<k, x>>}
    OBVIOUS
  <2> QED
    BY <1>13, <2>1
<1> HIDE DEF W, C, F, Q, K, D, E, L, G
<1> DEFINE PW == {"wire"} \X W
           PC == {"packetChan"} \X C
           PF == {"forwarder"} \X F
           PQ == {"packetQueue"} \X Q
           PK == {"worker"} \X K
           PD == {"delayQueue"} \X D
           PE == {"entry"} \X E
           PL == {"ledger"} \X L
           PG == {"lost"} \X G
<1>14. /\ IF at = "wire" THEN \E x : PW = {x} ELSE PW = {}
       /\ IF at = "packetChan" THEN \E x : PC = {x} ELSE PC = {}
       /\ IF at = "forwarder" THEN \E x : PF = {x} ELSE PF = {}
       /\ IF at = "packetQueue" THEN \E x : PQ = {x} ELSE PQ = {}
       /\ IF at = "worker" THEN \E x : PK = {x} ELSE PK = {}
       /\ IF at = "delayQueue" THEN \E x : PD = {x} ELSE PD = {}
       /\ IF at = "entry" THEN \E x : PE = {x} ELSE PE = {}
       /\ IF at = "ledger" THEN \E x : PL = {x} ELSE PL = {}
       /\ IF at = "lost" THEN \E x : PG = {x} ELSE PG = {}
  BY <1>2, <1>3, <1>4, <1>5, <1>6, <1>7, <1>8, <1>9, <1>10, <1>13
<1>15. Places(m) = PW \cup PC \cup PF \cup PQ \cup PK \cup PD \cup PE \cup PL \cup PG
  BY <1>12
<1> HIDE DEF PW, PC, PF, PQ, PK, PD, PE, PL, PG
<1> QED
  BY <1>11, <1>14, <1>15

\* No packet is charged twice, charged and dropped, or forgotten: it is always in
\* exactly one place, whatever the number of devices and workers and the sizes of
\* the queues (netflow.go:483-847).
THEOREM PacketsAreKeptOnce == Spec => []EachPacketOnce
<1>1. NetInv /\ PlaceInv => EachPacketOnce
  BY OneHomeOnePlace, FS_Singleton DEF EachPacketOnce
<1> QED
  BY <1>1, PlaceInvariant, PTL

-----------------------------------------------------------------------------
(* Who is liable for a packet.                                             *)

\* The inductive invariant behind ChargedToOwner: for a packet inside, all who held
\* its connection since the scan in use began are liable, and so is the process
\* that a worker has found, and the one that was charged.
OwnerInv ==
    /\ \A m \in Packets \ wire : HeldLately(m) \subseteq liable[m]
    /\ \A w \in Workers : worker[w].pc = "charge" => worker[w].pid \in liable[worker[w].pkt]
    /\ \A i \in 1 .. Len(ledger) : ledger[i].pid \in liable[ledger[i].pkt]

\* Nothing is captured yet.
LEMMA OwnerInvInit == Init => OwnerInv
<1> SUFFICES ASSUME Init PROVE OwnerInv
  OBVIOUS
<1>1. wire = Packets /\ Len(ledger) = 0 /\ \A w \in Workers : worker[w].pc = "idle"
  BY EmptySeq DEF Init, Start, startNetworkSniffer, idle
<1> QED
  BY <1>1 DEF OwnerInv

\* A packet in a worker's hand, in the syncer's hand or in the ledger is inside.
LEMMA InHandIsInside ==
    ASSUME NetInv, PlaceInv
    PROVE  /\ \A w \in Workers : worker[w].pc \in Resolving =>
                 worker[w].pkt \in Packets \ wire
           /\ entry # None => entry \in Packets \ wire
           /\ \A i \in 1 .. Len(ledger) : ledger[i].pkt \in Packets \ wire
<1>1. ASSUME NEW m \in Packets, NEW at, NEW who, Home(m, at, who), at # "wire"
      PROVE  m \notin wire
  <2>1. m \in wire => Home(m, "wire", None)
    BY DEF Home
  <2> QED
    BY <1>1, <2>1 DEF PlaceInv, OnePlace
<1>2. ASSUME NEW w \in Workers, worker[w].pc \in Resolving
      PROVE  worker[w].pkt \in Packets \ wire
  <2>1. worker[w].pkt \in Packets
    BY <1>2 DEF NetInv, WorkersOK, WorkerStates
  <2>2. Home(worker[w].pkt, "worker", w)
    BY DEF Home
  <2> QED
    BY <1>1, <2>1, <2>2
<1>3. ASSUME entry # None PROVE entry \in Packets \ wire
  <2>1. entry \in Packets /\ Home(entry, "entry", None)
    BY <1>3 DEF NetInv, DelayOK, Home
  <2> QED
    BY <1>1, <2>1
<1>4. ASSUME NEW i \in 1 .. Len(ledger) PROVE ledger[i].pkt \in Packets \ wire
  <2> DEFINE Bills == [pkt : Packets, pid : Pids]
  <2>a. ledger \in Seq(Bills)
    BY DEF NetInv, EndOK
  <2>b. ledger[i] \in Bills
    <3> HIDE DEF Bills
    <3> QED
      BY <1>4, <2>a, LenProperties, ElementOfSeq
  <2>1. ledger[i] \in [pkt : Packets, pid : Pids]
    BY <2>b
  <2>2. Home(ledger[i].pkt, "ledger", None)
    BY DEF Home, Billed
  <2> QED
    BY <1>1, <2>1, <2>2
<1> QED
  BY <1>2, <1>3, <1>4

\* A process that the tables name for a packet inside is liable for it.
LEMMA NamedIsLiable ==
    ASSUME NetInv, OwnerInv, NEW m \in Packets \ wire, NEW c \in Conns,
           Uses(c, PacketAddr[m]), NEW p \in base[c]
    PROVE  p \in liable[m]
<1>1. p \in HeldLately(m)
  BY DEF HeldLately, PacketConns
<1> QED
  BY <1>1 DEF OwnerInv

\* A charge to who is liable keeps the ledger right.
LEMMA BillGrows ==
    ASSUME NetInv, OwnerInv, NEW m \in Packets, NEW p \in liable[m], p \in Pids,
           ledger' = Append(ledger, [pkt |-> m, pid |-> p]), UNCHANGED liable
    PROVE  \A i \in 1 .. Len(ledger') : ledger'[i].pid \in liable'[ledger'[i].pkt]
<1> DEFINE r == [pkt |-> m, pid |-> p]
<1>1. r \in [pkt : Packets, pid : Pids] /\ r.pkt = m /\ r.pid = p
  OBVIOUS
<1>2. ledger \in Seq([pkt : Packets, pid : Pids]) /\ ledger' = Append(ledger, r)
  BY DEF NetInv, EndOK
<1> HIDE DEF r
<1>3. /\ Len(ledger) \in Nat /\ Len(ledger') = Len(ledger) + 1
      /\ \A i \in 1 .. Len(ledger) : ledger'[i] = ledger[i]
      /\ ledger'[Len(ledger) + 1] = r
  BY <1>1, <1>2, AppendProperties, LenProperties
<1> SUFFICES ASSUME NEW i \in 1 .. Len(ledger')
             PROVE  ledger'[i].pid \in liable[ledger'[i].pkt]
  OBVIOUS
<1>4. CASE i \in 1 .. Len(ledger)
  BY <1>3, <1>4 DEF OwnerInv
<1>5. CASE i = Len(ledger) + 1
  BY <1>1, <1>3, <1>5
<1> QED
  BY <1>3, <1>4, <1>5

\* Every step preserves the invariant.
LEMMA OwnerInvStep == NetInv /\ PlaceInv /\ OwnerInv /\ [Next]_vars => OwnerInv'
<1> SUFFICES ASSUME NetInv, PlaceInv, OwnerInv, [Next]_vars PROVE OwnerInv'
  OBVIOUS
<1>1. ASSUME UNCHANGED base PROVE \A m \in Packets : HeldLately(m)' = HeldLately(m)
  BY <1>1 DEF HeldLately, PacketConns, Uses
<1>2. ASSUME UNCHANGED <<base, liable, wire, worker, ledger>> PROVE OwnerInv'
  BY <1>1, <1>2 DEF OwnerInv
<1>3. ASSUME NEW d \in Devices, NEW m \in Packets, Capture(d, m) PROVE OwnerInv'
  <2>1. /\ m \in wire /\ wire' = wire \ {m} /\ UNCHANGED <<base, worker, ledger>>
        /\ liable' = [liable EXCEPT ![m] = HeldLately(m)]
    BY <1>3 DEF Capture, Claim
  <2>2. /\ liable'[m] = HeldLately(m)
        /\ \A x \in Packets : x # m => liable'[x] = liable[x]
    BY <2>1 DEF NetInv, LiableOK
  <2>3. ASSUME NEW x \in Packets \ wire' PROVE HeldLately(x)' \subseteq liable'[x]
    BY <1>1, <2>1, <2>2 DEF OwnerInv
  <2>4. ASSUME NEW w \in Workers, worker'[w].pc = "charge"
        PROVE  worker'[w].pid \in liable'[worker'[w].pkt]
    BY <2>1, <2>2, <2>4, InHandIsInside DEF OwnerInv, Resolving
  <2>5. ASSUME NEW i \in 1 .. Len(ledger') PROVE ledger'[i].pid \in liable'[ledger'[i].pkt]
    BY <2>1, <2>2, InHandIsInside DEF OwnerInv
  <2> QED
    BY <2>3, <2>4, <2>5 DEF OwnerInv
<1>4. ASSUME NEW d \in Devices,
             CaptureExit(d) \/ Receive(d) \/ enqueue(d) \/ incrCounter(d) \/ ForwarderExit(d)
      PROVE  OwnerInv'
  BY <1>2, <1>4
  DEF CaptureExit, Receive, enqueue, incrCounter, ForwarderExit, histVars, claimVars, endVars
<1>5. ASSUME NEW w \in Workers, NEW new, to(w, new), UNCHANGED <<base, liable, wire>>,
             new.pc = "charge" => new.pid \in liable[new.pkt],
             \A i \in 1 .. Len(ledger') : ledger'[i].pid \in liable'[ledger'[i].pkt]
      PROVE  OwnerInv'
  <2>1. \A v \in Workers : worker'[v] = IF v = w THEN new ELSE worker[v]
    BY <1>5 DEF to, NetInv, WorkersOK
  <2>2. ASSUME NEW v \in Workers, worker'[v].pc = "charge"
        PROVE  worker'[v].pid \in liable'[worker'[v].pkt]
    BY <1>5, <2>1, <2>2 DEF OwnerInv
  <2>3. \A x \in Packets \ wire' : HeldLately(x)' \subseteq liable'[x]
    BY <1>1, <1>5 DEF OwnerInv
  <2> QED
    BY <1>5, <2>2, <2>3 DEF OwnerInv
<1>6. ASSUME NEW w \in Workers,
             dequeue(w) \/ WorkerExit(w) \/ LookupInode(w) \/ pushDelayQueue(w)
      PROVE  OwnerInv'
  <2>1. /\ UNCHANGED <<base, liable, wire, ledger>>
        /\ worker' = worker \/ \E new : to(w, new) /\ new.pc # "charge"
    <3>1. UNCHANGED <<base, liable, wire, ledger>>
      BY <1>6 DEF dequeue, WorkerExit, LookupInode, pushDelayQueue, histVars, claimVars,
                  endVars, pipeVars
    <3>2. worker[w] \in WorkerStates
      BY DEF NetInv, WorkersOK
    <3>3. /\ [idle EXCEPT !.pc = "exit"].pc = "exit" /\ idle.pc = "idle"
          /\ \A m : [idle EXCEPT !.pc = "inode", !.pkt = m].pc = "inode"
          /\ [worker[w] EXCEPT !.pc = "push"].pc = "push"
          /\ \A v : [worker[w] EXCEPT !.pc = "proc", !.inode = v].pc = "proc"
      BY <3>2 DEF idle, WorkerStates
    <3>4. CASE dequeue(w)
      BY <3>1, <3>3, <3>4 DEF dequeue
    <3>5. CASE WorkerExit(w) \/ pushDelayQueue(w)
      BY <3>1, <3>3, <3>5 DEF WorkerExit, pushDelayQueue
    <3>6. CASE LookupInode(w)
      BY <3>1, <3>3, <3>6 DEF LookupInode
    <3> QED
      BY <1>6, <3>4, <3>5, <3>6
  <2>2. \A i \in 1 .. Len(ledger') : ledger'[i].pid \in liable'[ledger'[i].pkt]
    BY <2>1 DEF OwnerInv
  <2> QED
    BY <1>2, <1>5, <2>1, <2>2
<1>7. ASSUME NEW w \in Workers, LookupProcess(w) PROVE OwnerInv'
  <2>1. UNCHANGED <<base, liable, wire, ledger>> /\ worker[w] \in WorkerStates
    BY <1>7 DEF LookupProcess, histVars, claimVars, endVars, pipeVars, NetInv, WorkersOK
  <2>2. \A i \in 1 .. Len(ledger') : ledger'[i].pid \in liable'[ledger'[i].pkt]
    BY <2>1 DEF OwnerInv
  <2>3. ASSUME NEW p \in GetProcessByInode(worker[w].inode),
               to(w, [worker[w] EXCEPT !.pc = "charge", !.inode = None, !.pid = p])
        PROVE  OwnerInv'
    <3> DEFINE new == [worker[w] EXCEPT !.pc = "charge", !.inode = None, !.pid = p]
    <3>1. worker[w].inode \in DOMAIN inodePidMap /\ p = inodePidMap[worker[w].inode]
      BY <2>3 DEF GetProcessByInode
    <3>2. worker[w].inode \in Conns /\ p \in base[worker[w].inode]
      BY <3>1 DEF NetInv, TablesOK, TablesInv, ControllerTypeOK, OwnersIn
    <3>3. Uses(worker[w].inode, PacketAddr[worker[w].pkt])
      BY <1>7, <3>2 DEF NetInv, WorkersOK, LookupProcess
    <3>4. worker[w].pkt \in Packets \ wire
      BY <1>7, InHandIsInside DEF LookupProcess, Resolving
    <3>5. p \in liable[worker[w].pkt]
      BY <3>2, <3>3, <3>4, NamedIsLiable
    <3>6. new.pid = p /\ new.pkt = worker[w].pkt
      BY <2>1 DEF WorkerStates
    <3> QED
      BY <1>5, <2>1, <2>2, <2>3, <3>5, <3>6
  <2>4. ASSUME to(w, [worker[w] EXCEPT !.pc = "push", !.inode = None]) PROVE OwnerInv'
    <3>1. [worker[w] EXCEPT !.pc = "push", !.inode = None].pc = "push"
      BY <2>1 DEF WorkerStates
    <3> QED
      BY <1>5, <2>1, <2>2, <2>4, <3>1
  <2> QED
    BY <1>7, <2>3, <2>4 DEF LookupProcess
<1>8. ASSUME NEW w \in Workers, Charge(w) PROVE OwnerInv'
  <2>1. /\ UNCHANGED <<base, liable, wire>> /\ to(w, idle) /\ idle.pc = "idle"
        /\ ledger' = Append(ledger, [pkt |-> worker[w].pkt, pid |-> worker[w].pid])
    BY <1>8 DEF Charge, histVars, claimVars, pipeVars, idle
  <2>2. /\ worker[w].pkt \in Packets /\ worker[w].pid \in Pids
        /\ worker[w].pid \in liable[worker[w].pkt]
    BY <1>8, InHandIsInside DEF Charge, NetInv, WorkersOK, OwnerInv, Resolving
  <2>3. \A i \in 1 .. Len(ledger') : ledger'[i].pid \in liable'[ledger'[i].pkt]
    BY <2>1, <2>2, BillGrows
  <2> QED
    BY <1>5, <2>1, <2>3
<1>9. CASE handleDelayEntry
  <2>1. UNCHANGED <<base, liable, wire, worker>> /\ entry # None
    BY <1>9 DEF handleDelayEntry, histVars, claimVars, pipeVars
  <2>2. entry \in Packets \ wire
    BY <2>1, InHandIsInside
  <2>3. ASSUME NEW p \in getProcessByAddr(PacketAddr[entry]),
               ledger' = Append(ledger, [pkt |-> entry, pid |-> p])
        PROVE  \A i \in 1 .. Len(ledger') : ledger'[i].pid \in liable'[ledger'[i].pkt]
    <3>1. PICK c \in Conns : Uses(c, PacketAddr[entry]) /\ p \in base[c] /\ p \in Pids
      BY LookupFindsOwner DEF NetInv, TablesOK
    <3>2. p \in liable[entry]
      BY <2>2, <3>1, NamedIsLiable
    <3> QED
      BY <2>1, <2>2, <2>3, <3>1, <3>2, BillGrows
  <2>4. \A i \in 1 .. Len(ledger') : ledger'[i].pid \in liable'[ledger'[i].pkt]
    BY <1>9, <2>1, <2>3 DEF handleDelayEntry, OwnerInv
  <2> QED
    BY <1>1, <2>1, <2>4 DEF OwnerInv
<1>10. CASE KernelChanges
  <2>1. /\ UNCHANGED <<wire, worker, ledger>>
        /\ liable' = [m \in Packets |->
                        IF m \in wire THEN liable[m] ELSE liable[m] \cup HeldLately(m)']
    BY <1>10 DEF KernelChanges, pipeVars, endVars
  <2>2. \A m \in Packets : liable[m] \subseteq liable'[m]
    BY <2>1
  <2>3. \A m \in Packets \ wire' : HeldLately(m)' \subseteq liable'[m]
    BY <2>1
  <2>4. ASSUME NEW w \in Workers, worker'[w].pc = "charge"
        PROVE  worker'[w].pid \in liable'[worker'[w].pkt]
    BY <2>1, <2>2, <2>4, InHandIsInside DEF OwnerInv, Resolving
  <2>5. ASSUME NEW i \in 1 .. Len(ledger') PROVE ledger'[i].pid \in liable'[ledger'[i].pkt]
    BY <2>1, <2>2, InHandIsInside DEF OwnerInv
  <2> QED
    BY <2>3, <2>4, <2>5 DEF OwnerInv
<1>11. CASE Commit
  <2>1. base' = since /\ UNCHANGED <<liable, wire, worker, ledger>>
    BY <1>11 DEF Commit, pipeVars, endVars
  <2>2. \A m \in Packets : HeldLately(m)' \subseteq HeldLately(m)
    BY <2>1 DEF HeldLately, PacketConns, NetInv, TablesOK
  <2> QED
    BY <2>1, <2>2 DEF OwnerInv
<1>12. CASE \/ FirstRescan \/ Tick \/ Scan \/ ScanError \/ EndRescan
            \/ consumeDelayQueue \/ DrainEnds \/ SyncerExit \/ Stop \/ Clean \/ UNCHANGED vars
  BY <1>2, <1>12
  DEF FirstRescan, Tick, BeginRescan, Scan, ScanError, EndRescan, consumeDelayQueue, DrainEnds,
      SyncerExit, Stop, Clean, vars, histVars, claimVars, pipeVars, endVars
<1> QED
  BY <1>3, <1>4, <1>6, <1>7, <1>8, <1>9, <1>10, <1>11, <1>12
  DEF Next, DeviceStep, WorkerStep, SyncerStep

\* The inductive invariant holds in every reachable state.
THEOREM OwnerInvariant == Spec => [](NetInv /\ PlaceInv /\ OwnerInv)
BY OwnerInvInit, OwnerInvStep, PlaceInvariant, PTL DEF Spec

\* Whoever is charged for a packet has held a socket with its address pair or the
\* mirrored one when the packet was captured or later, or since the scan began that
\* was in use at its capture, although the inode, the pid and the charge belong to
\* three different moments (netflow.go:803-847).
THEOREM ChargesAreOwned == Spec => []ChargedToOwner
<1>1. NetInv /\ OwnerInv => ChargedToOwner
  BY LenProperties DEF NetInv, EndOK, OwnerInv, ChargedToOwner
<1> QED
  BY <1>1, OwnerInvariant, PTL

-----------------------------------------------------------------------------
(* Netflow implements Account.                                             *)

\* Nothing has happened yet in Account either.
LEMMA AccountInit == Init => A!Init
BY DEF Init, KernelInit, A!Init, Given

\* A packet inside the pipeline is not settled yet.
LEMMA InsideIsPending ==
    ASSUME NetInv, PlaceInv, NEW m \in Packets, NEW at, NEW who, Home(m, at, who),
           at \notin {"wire", "ledger", "lost"}
    PROVE  A!Pending(m)
<1>1. \A a, w : Home(m, a, w) => a = at
  BY DEF PlaceInv, OnePlace
<1>2. m \notin wire /\ ~ Billed(m)
  BY <1>1 DEF Home
<1>3. m \notin Given
  <2>1. ASSUME NEW r \in lost, r.pkt = m PROVE FALSE
    <3>1. r \in [pkt : Packets, why : Reasons]
      BY DEF NetInv, EndOK
    <3>2. r.why \in Reasons /\ r = [pkt |-> m, why |-> r.why]
      BY <2>1, <3>1
    <3>3. Home(m, "lost", r.why)
      BY <3>2 DEF Home, Dropped
    <3> QED
      BY <1>1, <3>3
  <2> QED
    BY <2>1 DEF Given
<1>4. DOMAIN ledger = 1 .. Len(ledger)
  BY LenProperties DEF NetInv, EndOK
<1> QED
  BY <1>2, <1>3, <1>4 DEF A!Pending, Billed

\* What is given up is dropped.
LEMMA GiveUpGives ==
    ASSUME NEW m, NEW why, giveUp(m, why)
    PROVE  Given' = Given \cup {m}
<1> DEFINE q == [pkt |-> m, why |-> why]
<1>1. q.pkt = m
  OBVIOUS
<1>2. lost' = lost \cup {q}
  BY DEF giveUp
<1> HIDE DEF q
<1> QED
  BY <1>1, <1>2 DEF Given

\* A step of the kernel lets at most one process get hold of one socket.
LEMMA KernelOwns ==
    ASSUME NetInv, OwnerInv, KernelChanges
    PROVE  (\E c \in Conns, p \in Pids : A!Own(c, p)) \/ UNCHANGED A!vars
<1>1. /\ UNCHANGED <<wire, ledger, lost>> /\ KernelStep
      /\ base' = [c \in Conns |-> base[c] \cup holders'[c]]
      /\ liable' = [m \in Packets |->
                      IF m \in wire THEN liable[m] ELSE liable[m] \cup HeldLately(m)']
  BY DEF KernelChanges, pipeVars, endVars
<1>2. /\ base \in [Conns -> SUBSET Pids] /\ holders \in [Conns -> SUBSET Pids]
      /\ \A c \in Conns : holders[c] \subseteq base[c]
      /\ liable \in [Packets -> SUBSET Pids]
  BY DEF NetInv, TablesOK, KernelTypeOK, HeldIn, LiableOK
<1>3. Given' = Given
  BY <1>1 DEF Given
<1>4. ASSUME \A c \in Conns : holders'[c] \subseteq holders[c]
      PROVE  UNCHANGED A!vars
  <2>1. \A c \in Conns : base[c] \cup holders'[c] = base[c]
    BY <1>2, <1>4
  <2>2. base' = base
    BY <1>1, <1>2, <2>1
  <2>3. \A m \in Packets : HeldLately(m)' = HeldLately(m)
    BY <2>2 DEF HeldLately
  <2>4. \A m \in Packets \ wire : liable[m] \cup HeldLately(m)' = liable[m]
    BY <2>3 DEF OwnerInv
  <2>5. liable' = liable
    BY <1>1, <1>2, <2>4
  <2> QED
    BY <1>1, <1>3, <2>2, <2>5 DEF A!vars
<1>5. ASSUME NEW c \in Conns, NEW p \in Pids, p \in holders'[c],
             holders'[c] \subseteq holders[c] \cup {p},
             \A e \in Conns : e # c => holders'[e] = holders[e]
      PROVE  A!Own(c, p)
  <2>1. base[c] \cup holders'[c] = base[c] \cup {p}
    BY <1>2, <1>5
  <2>2. \A e \in Conns : e # c => base[e] \cup holders'[e] = base[e]
    BY <1>2, <1>5
  <2>3. base' = [base EXCEPT ![c] = base[c] \cup {p}]
    BY <1>1, <1>2, <2>1, <2>2
  <2>4. ASSUME NEW m \in Packets
        PROVE  HeldLately(m)' = IF c \in PacketConns[m] THEN HeldLately(m) \cup {p}
                                ELSE HeldLately(m)
    <3>1. \A e \in PacketConns[m] : e \in Conns
      BY DEF PacketConns
    <3>2. \A e \in Conns : base'[e] = IF e = c THEN base[e] \cup {p} ELSE base[e]
      BY <1>2, <2>3
    <3> QED
      BY <3>1, <3>2 DEF HeldLately
  <2>5. ASSUME NEW m \in Packets
        PROVE  liable'[m] = IF m \notin wire /\ c \in PacketConns[m]
                            THEN liable[m] \cup {p} ELSE liable[m]
    BY <1>1, <2>4 DEF OwnerInv
  <2>6. liable' = [m \in Packets |-> IF m \notin wire /\ c \in PacketConns[m]
                                     THEN liable[m] \cup {p} ELSE liable[m]]
    BY <1>1, <2>5
  <2> QED
    BY <1>1, <1>3, <2>3, <2>6 DEF A!Own
<1>6. ASSUME NEW c \in Conns, Arrive(c) \/ Shutdown(c) PROVE UNCHANGED A!vars
  BY <1>4, <1>6 DEF Arrive, Shutdown
<1>7. ASSUME NEW c \in Conns, NEW p \in Pids, Connect(c, p) \/ Accept(c, p) \/ Inherit(c, p)
      PROVE  A!Own(c, p)
  BY <1>2, <1>5, <1>7 DEF Connect, Accept, Inherit
<1>8. ASSUME NEW c \in Conns, NEW p \in Pids, CloseFd(c, p) PROVE UNCHANGED A!vars
  BY <1>2, <1>4, <1>8 DEF CloseFd
<1> QED
  BY <1>1, <1>6, <1>7, <1>8 DEF KernelStep

\* A commit forgets who held a socket before the scan began.
LEMMA CommitForgets ==
    ASSUME NetInv, Commit
    PROVE  A!Forget
<1>1. UNCHANGED <<wire, ledger, lost, liable>> /\ base' = since
  BY DEF Commit, pipeVars, endVars
<1> QED
  BY <1>1 DEF A!Forget, Given, NetInv, TablesOK

\* A charge of a taken-in packet to an owner is a charge of Account.
LEMMA ChargeIsCharge ==
    ASSUME NetInv, PlaceInv, NEW m \in Packets, NEW at, NEW who, Home(m, at, who),
           at \notin {"wire", "ledger", "lost"}, NEW p \in Pids, p \in liable[m],
           ledger' = Append(ledger, [pkt |-> m, pid |-> p]),
           UNCHANGED <<wire, lost, base, liable>>
    PROVE  A!Next
<1>1. A!Pending(m)
  BY InsideIsPending
<1>2. Given' = Given
  BY DEF Given
<1>3. A!Charge(m, p)
  BY <1>1, <1>2 DEF A!Charge
<1> QED
  BY <1>3 DEF A!Next

\* Giving up a taken-in packet is giving up in Account.
LEMMA GiveUpIsGiveUp ==
    ASSUME NetInv, PlaceInv, NEW m \in Packets, NEW at, NEW who, Home(m, at, who),
           at \notin {"wire", "ledger", "lost"}, NEW why, giveUp(m, why),
           UNCHANGED <<wire, ledger, base, liable>>
    PROVE  A!Next
<1>1. A!Pending(m) /\ Given' = Given \cup {m}
  BY InsideIsPending, GiveUpGives
<1>2. A!GiveUp(m)
  BY <1>1 DEF A!GiveUp
<1> QED
  BY <1>2 DEF A!Next

\* Every step of netflow is a step of Account or is not seen there.
LEMMA AccountStep == NetInv /\ PlaceInv /\ OwnerInv /\ [Next]_vars => [A!Next]_A!vars
<1> SUFFICES ASSUME NetInv, PlaceInv, OwnerInv, [Next]_vars PROVE A!Next \/ UNCHANGED A!vars
  OBVIOUS
<1>1. ASSUME UNCHANGED <<wire, ledger, lost, base, liable>> PROVE UNCHANGED A!vars
  BY <1>1 DEF A!vars, Given
<1>2. ASSUME NEW d \in Devices, NEW m \in Packets, Capture(d, m) PROVE A!Next
  <2>1. m \in wire /\ wire' = wire \ {m} /\ UNCHANGED <<ledger, base>>
        /\ liable' = [liable EXCEPT ![m] = UNION {base[c] : c \in PacketConns[m]}]
    BY <1>2 DEF Capture, Claim, HeldLately
  <2>2. CASE lost' = lost
    <3>1. A!TakeIn(m)
      BY <2>1, <2>2 DEF A!TakeIn, A!Leave, Given
    <3> QED
      BY <3>1 DEF A!Next
  <2>3. CASE giveUp(m, "chan")
    <3>1. A!Refuse(m)
      BY <2>1, <2>3, GiveUpGives DEF A!Refuse, A!Leave
    <3> QED
      BY <3>1 DEF A!Next
  <2> QED
    BY <1>2, <2>2, <2>3 DEF Capture
<1>3. ASSUME NEW d \in Devices, Receive(d) PROVE UNCHANGED A!vars
  BY <1>1, <1>3 DEF Receive, endVars, histVars, claimVars
<1>4. ASSUME NEW d \in Devices, enqueue(d) PROVE A!Next \/ UNCHANGED A!vars
  <2>1. UNCHANGED <<wire, ledger, base, liable>>
    BY <1>4 DEF enqueue, histVars, claimVars
  <2> DEFINE m == forwarder[d].pkt
  <2>2. m \in Packets /\ Home(m, "forwarder", d) /\ (lost' = lost \/ giveUp(m, "queue"))
    BY <1>4, EnqueueMoves
  <2> HIDE DEF m
  <2> QED
    BY <1>1, <2>1, <2>2, GiveUpIsGiveUp
<1>5. ASSUME NEW w \in Workers, dequeue(w) PROVE A!Next \/ UNCHANGED A!vars
  <2>1. UNCHANGED <<wire, ledger, base, liable>>
    BY <1>5 DEF dequeue, histVars, claimVars
  <2> DEFINE m == Head(packetQueue)
  <2>2. m \in Packets /\ Home(m, "packetQueue", None) /\ (lost' = lost \/ giveUp(m, "ignored"))
    BY <1>5, DequeueMoves
  <2> HIDE DEF m
  <2> QED
    BY <1>1, <2>1, <2>2, GiveUpIsGiveUp
<1>6. ASSUME NEW w \in Workers, Charge(w) \/ pushDelayQueue(w)
      PROVE  A!Next \/ UNCHANGED A!vars
  <2> DEFINE m == worker[w].pkt
  <2>1. UNCHANGED <<wire, base, liable>>
    BY <1>6 DEF Charge, pushDelayQueue, pipeVars, histVars, claimVars
  <2>2. /\ m \in Packets /\ Home(m, "worker", w)
        /\ \/ Charge(w)
           \/ UNCHANGED <<ledger, lost>>
           \/ giveUp(m, "delay") /\ UNCHANGED ledger
    BY <1>6, ChargeMoves
  <2>3. CASE Charge(w)
    <3>1. /\ ledger' = Append(ledger, [pkt |-> m, pid |-> worker[w].pid]) /\ lost' = lost
          /\ worker[w].pid \in Pids /\ worker[w].pid \in liable[m]
      BY <2>3 DEF Charge, NetInv, WorkersOK, OwnerInv
    <3> HIDE DEF m
    <3> QED
      BY <2>1, <2>2, <3>1, ChargeIsCharge
  <2>4. CASE giveUp(m, "delay") /\ UNCHANGED ledger
    <3> HIDE DEF m
    <3> QED
      BY <2>1, <2>2, <2>4, GiveUpIsGiveUp
  <2> QED
    BY <1>1, <2>1, <2>2, <2>3, <2>4
<1>7. CASE consumeDelayQueue
  BY <1>1, <1>7 DEF consumeDelayQueue, pipeVars, endVars, histVars, claimVars
<1>8. CASE handleDelayEntry
  <2>1. UNCHANGED <<wire, base, liable>>
    BY <1>8 DEF handleDelayEntry, pipeVars, histVars, claimVars
  <2>2. entry \in Packets /\ Home(entry, "entry", None)
    BY <1>8, HandleMoves
  <2>3. ASSUME NEW p \in getProcessByAddr(PacketAddr[entry]),
               ledger' = Append(ledger, [pkt |-> entry, pid |-> p]), UNCHANGED lost
        PROVE  A!Next
    <3>1. PICK c \in Conns : Uses(c, PacketAddr[entry]) /\ p \in base[c] /\ p \in Pids
      BY LookupFindsOwner DEF NetInv, TablesOK
    <3>2. entry \in Packets \ wire
      BY <1>8, InHandIsInside DEF handleDelayEntry
    <3>3. p \in liable[entry]
      BY <3>1, <3>2, NamedIsLiable
    <3> QED
      BY <2>1, <2>2, <2>3, <3>1, <3>3, ChargeIsCharge
  <2>4. ASSUME giveUp(entry, "unresolved"), UNCHANGED ledger
        PROVE  A!Next
    BY <2>1, <2>2, <2>4, GiveUpIsGiveUp
  <2> QED
    BY <1>8, <2>3, <2>4 DEF handleDelayEntry
<1>9. CASE Quiet
  <2>1. UNCHANGED <<wire, ledger, lost>>
    BY <1>9, QuietRests
  <2>2. KernelChanges \/ Commit \/ UNCHANGED <<base, liable>>
    BY <1>9
    DEF Quiet, CaptureExit, incrCounter, ForwarderExit, WorkerExit, LookupInode, LookupProcess,
        FirstRescan, Tick, BeginRescan, Scan, ScanError, Commit, EndRescan, DrainEnds, SyncerExit, Stop,
        Clean, vars, histVars, claimVars
  <2>3. CASE KernelChanges
    <3>1. ASSUME NEW c \in Conns, NEW p \in Pids, A!Own(c, p) PROVE A!Next
      BY <3>1 DEF A!Next
    <3> QED
      BY <2>3, <3>1, KernelOwns
  <2>4. CASE Commit
    BY <2>4, CommitForgets DEF A!Next
  <2> QED
    BY <1>1, <2>1, <2>2, <2>3, <2>4
<1> QED
  BY <1>2, <1>3, <1>4, <1>5, <1>6, <1>7, <1>8, <1>9, StepMoves

\* Netflow implements Account: seen from outside, every packet is taken in or
\* refused, and settled once, on a process that is liable for it; a
\* queue, a worker, the syncer, a scan or a cleanup does nothing else.
THEOREM NetflowIsAnAccount == Spec => ImplementsAccount
<1>1. Spec => A!Init /\ [][A!Next]_A!vars
  BY AccountInit, AccountStep, OwnerInvariant, PTL DEF Spec
<1> QED
  BY <1>1 DEF ImplementsAccount, A!Spec

-----------------------------------------------------------------------------
(* LoadCounter.                                                            *)

\* Places behind packetQueue.
Late(at, who) ==
    \/ at \in {"worker", "delayQueue", "entry", "ledger"}
    \/ at = "lost" /\ who \notin {"chan", "queue"}

\* Handled, by homes.
Taken == {m \in Packets : \E at, who : Late(at, who) /\ Home(m, at, who)}

\* The inductive invariant behind CounterExact.
CountInv == IsFiniteSet(Counting) /\ IsFiniteSet(Handled) /\ CounterExact

\* The packets that left packetQueue are those with a home behind it.
LEMMA HandledIsTaken == NetInv => Handled = Taken
<1> SUFFICES ASSUME NetInv, NEW m \in Packets PROVE m \in Handled <=> m \in Taken
  BY DEF Handled, Taken
<1>1. Positions(delayQueue, m) # {} <=> In(delayQueue, m)
  <2>1. DOMAIN delayQueue = 1 .. Len(delayQueue)
    BY LenProperties DEF NetInv, DelayOK
  <2> QED
    BY <2>1 DEF Positions, In
<1>2. Charges(m) # {} <=> Billed(m)
  <2>1. DOMAIN ledger = 1 .. Len(ledger)
    BY LenProperties DEF NetInv, EndOK
  <2> QED
    BY <2>1 DEF Charges, Billed
<1>3. (\E r \in GivenUp(m) : r.why \notin {"chan", "queue"})
          <=> \E y \in Reasons : Dropped(m, y) /\ y \notin {"chan", "queue"}
  <2>1. ASSUME NEW r \in GivenUp(m), r.why \notin {"chan", "queue"}
        PROVE  \E y \in Reasons : Dropped(m, y) /\ y \notin {"chan", "queue"}
    <3>1. r \in lost /\ r \in [pkt : Packets, why : Reasons] /\ r.pkt = m
      BY DEF GivenUp, NetInv, EndOK
    <3>2. r = [pkt |-> m, why |-> r.why] /\ r.why \in Reasons
      BY <3>1
    <3> QED
      BY <2>1, <3>1, <3>2 DEF Dropped
  <2>2. ASSUME NEW y \in Reasons, Dropped(m, y), y \notin {"chan", "queue"}
        PROVE  \E r \in GivenUp(m) : r.why \notin {"chan", "queue"}
    <3> DEFINE r == [pkt |-> m, why |-> y]
    <3>1. r \in lost /\ r.pkt = m /\ r.why = y
      BY <2>2 DEF Dropped
    <3> HIDE DEF r
    <3> QED
      BY <2>2, <3>1 DEF GivenUp
  <2> QED
    BY <2>1, <2>2
<1>4. m \in Handled <=>
         \/ \E w \in Workers : worker[w].pkt = m
         \/ In(delayQueue, m) \/ entry = m \/ Billed(m)
         \/ \E y \in Reasons : Dropped(m, y) /\ y \notin {"chan", "queue"}
  BY <1>1, <1>2, <1>3 DEF Handled
<1>5. m \in Taken <=>
         \/ \E w \in Workers : worker[w].pkt = m
         \/ In(delayQueue, m) \/ entry = m \/ Billed(m)
         \/ \E y \in Reasons : Dropped(m, y) /\ y \notin {"chan", "queue"}
  <2>1. m \in Taken <=> \E at, who : Late(at, who) /\ Home(m, at, who)
    BY DEF Taken
  <2>2. ASSUME NEW at, NEW who, Late(at, who), Home(m, at, who)
        PROVE  \/ \E w \in Workers : worker[w].pkt = m
               \/ In(delayQueue, m) \/ entry = m \/ Billed(m)
               \/ \E y \in Reasons : Dropped(m, y) /\ y \notin {"chan", "queue"}
    BY <2>2 DEF Late, Home
  <2>3. ASSUME NEW w \in Workers, worker[w].pkt = m PROVE m \in Taken
    <3>1. Late("worker", w) /\ Home(m, "worker", w)
      BY <2>3 DEF Late, Home
    <3> QED
      BY <2>1, <3>1
  <2>4. ASSUME In(delayQueue, m) PROVE m \in Taken
    <3>1. Late("delayQueue", None) /\ Home(m, "delayQueue", None)
      BY <2>4 DEF Late, Home
    <3> QED
      BY <2>1, <3>1
  <2>5. ASSUME entry = m PROVE m \in Taken
    <3>1. Late("entry", None) /\ Home(m, "entry", None)
      BY <2>5 DEF Late, Home
    <3> QED
      BY <2>1, <3>1
  <2>6. ASSUME Billed(m) PROVE m \in Taken
    <3>1. Late("ledger", None) /\ Home(m, "ledger", None)
      BY <2>6 DEF Late, Home
    <3> QED
      BY <2>1, <3>1
  <2>7. ASSUME NEW y \in Reasons, Dropped(m, y), y \notin {"chan", "queue"} PROVE m \in Taken
    <3>1. Late("lost", y) /\ Home(m, "lost", y)
      BY <2>7 DEF Late, Home
    <3> QED
      BY <2>1, <3>1
  <2> QED
    BY <2>1, <2>2, <2>3, <2>4, <2>5, <2>6, <2>7
<1> QED
  BY <1>4, <1>5

\* A packet that moves on one side of packetQueue changes nothing.
LEMMA TakenStays ==
    ASSUME NEW m \in Packets, NEW at1, NEW who1, NEW at2, NEW who2,
           Home(m, at1, who1), Moves(m, at1, who1, at2, who2),
           Late(at1, who1) <=> Late(at2, who2)
    PROVE  Taken' = Taken
<1>1. ASSUME NEW x \in Packets, x \in Taken PROVE x \in Taken'
  <2>1. PICK at, who : Late(at, who) /\ Home(x, at, who)
    BY <1>1 DEF Taken
  <2>2. CASE x = m /\ at = at1 /\ who = who1
    <3>1. Late(at2, who2) /\ Home(x, at2, who2)'
      BY <2>1, <2>2 DEF Moves
    <3> QED
      BY <3>1 DEF Taken, Late
  <2>3. CASE ~ (x = m /\ at = at1 /\ who = who1)
    <3>1. Home(x, at, who)'
      BY <2>1, <2>3 DEF Moves
    <3> QED
      BY <2>1, <3>1 DEF Taken, Late
  <2> QED
    BY <2>2, <2>3
<1>2. ASSUME NEW x \in Packets, x \in Taken' PROVE x \in Taken
  <2>1. PICK at, who : Late(at, who) /\ Home(x, at, who)'
    BY <1>2 DEF Taken, Late
  <2>2. CASE Home(x, at, who)
    BY <2>1, <2>2 DEF Taken
  <2>3. CASE x = m /\ at = at2 /\ who = who2
    BY <2>1, <2>3 DEF Taken
  <2> QED
    BY <2>1, <2>2, <2>3 DEF Moves
<1> QED
  BY <1>1, <1>2 DEF Taken

\* A packet that crosses it is added.
LEMMA TakenGrows ==
    ASSUME OnePlace, NEW m \in Packets, NEW at1, NEW who1, NEW at2, NEW who2,
           Home(m, at1, who1), Moves(m, at1, who1, at2, who2),
           ~ Late(at1, who1), Late(at2, who2)
    PROVE  m \notin Taken /\ Taken' = Taken \cup {m}
<1>1. m \notin Taken
  BY DEF OnePlace, Taken
<1>2. ASSUME NEW x \in Packets, x \in Taken PROVE x \in Taken'
  <2>1. PICK at, who : Late(at, who) /\ Home(x, at, who)
    BY <1>2 DEF Taken
  <2>2. Home(x, at, who)'
    BY <1>1, <1>2, <2>1 DEF Moves
  <2> QED
    BY <2>1, <2>2 DEF Taken, Late
<1>3. m \in Taken'
  <2>1. Home(m, at2, who2)'
    BY DEF Moves
  <2> QED
    BY <2>1 DEF Taken, Late
<1>4. ASSUME NEW x \in Packets, x \in Taken', x # m PROVE x \in Taken
  <2>1. PICK at, who : Late(at, who) /\ Home(x, at, who)'
    BY <1>4 DEF Taken, Late
  <2>2. Home(x, at, who)
    BY <1>4, <2>1 DEF Moves
  <2> QED
    BY <2>1, <2>2 DEF Taken
<1> QED
  BY <1>1, <1>2, <1>3, <1>4 DEF Taken

\* A step that moves nothing adds nothing.
LEMMA TakenRests == Rests => Taken' = Taken
BY DEF Rests, Taken, Late

\* The counter stays exact when nothing it counts changes.
LEMMA CountRests ==
    ASSUME CountInv, Counting' = Counting, Handled' = Handled, UNCHANGED counter,
           Len(packetQueue') = Len(packetQueue)
    PROVE  CountInv'
BY DEF CountInv, CounterExact

\* Nobody counts yet, and nothing was handled.
LEMMA CountInit == Init => CountInv
<1> SUFFICES ASSUME Init PROVE CountInv
  OBVIOUS
<1>1. \A d \in Devices : forwarder[d].pc # "count"
  BY DEF Init, Start, startNetworkSniffer, buildPcapHandler
<1>2. Counting = {}
  BY <1>1 DEF Counting
<1>3. /\ delayQueue = <<>> /\ ledger = <<>> /\ lost = {} /\ entry = None
      /\ \A w \in Workers : worker[w].pkt = None
  BY DEF Init, Start, startNetworkSniffer, idle
<1>4. Handled = {}
  BY <1>3, PacketsAssumption DEF Handled, Positions, Charges, GivenUp
<1>5. counter = 0 /\ Len(packetQueue) = 0
  BY DEF Init
<1> QED
  BY <1>2, <1>4, <1>5, FS_EmptySet DEF CountInv, CounterExact

\* The counter is behind by the forwarders that have sent and not yet counted.
LEMMA CountStep == NetInv /\ PlaceInv /\ CountInv /\ [Next]_vars => CountInv'
<1> SUFFICES ASSUME NetInv, PlaceInv, CountInv, [Next]_vars PROVE CountInv'
  OBVIOUS
<1>1. NetInv' /\ OnePlace
  BY NetInvStep DEF PlaceInv
<1>2. Handled = Taken
  BY HandledIsTaken
<1>3. Handled' = Taken'
  <2>1. (NetInv => Handled = Taken)'
    BY HandledIsTaken, PTL
  <2> QED
    BY <1>1, <2>1
<1>4. forwarder \in [Devices -> FwdStates] /\ counter \in Nat
  BY DEF NetInv, CaptureOK, QueueOK
<1>5. ASSUME NEW d \in Devices, NEW m \in Packets, Capture(d, m) PROVE CountInv'
  <2>1. UNCHANGED <<forwarder, packetQueue, counter>>
    BY <1>5 DEF Capture
  <2>2. Home(m, "wire", None)
        /\ \/ Moves(m, "wire", None, "packetChan", d)
           \/ Moves(m, "wire", None, "lost", "chan")
    BY <1>5, CaptureMoves
  <2>3. Taken' = Taken
    BY <2>2, TakenStays DEF Late
  <2>4. Counting' = Counting
    BY <2>1 DEF Counting
  <2> QED
    BY <1>2, <1>3, <2>1, <2>3, <2>4, CountRests
<1>6. ASSUME NEW d \in Devices, Receive(d) PROVE CountInv'
  <2> DEFINE m == Head(packetChan[d])
  <2>1. /\ UNCHANGED <<packetQueue, counter>> /\ forwarder[d].pc = "idle"
        /\ forwarder' = [forwarder EXCEPT ![d] = [pc |-> "send", pkt |-> m]]
    BY <1>6 DEF Receive
  <2>2. m \in Packets /\ Home(m, "packetChan", d) /\ Moves(m, "packetChan", d, "forwarder", d)
    BY <1>6, ReceiveMoves
  <2> HIDE DEF m
  <2>3. Taken' = Taken
    BY <2>2, TakenStays DEF Late
  <2>4. Counting' = Counting
    BY <1>4, <2>1 DEF Counting
  <2> QED
    BY <1>2, <1>3, <2>1, <2>3, <2>4, CountRests
<1>7. ASSUME NEW d \in Devices, enqueue(d) PROVE CountInv'
  <2> DEFINE m == forwarder[d].pkt
  <2>1. UNCHANGED counter /\ forwarder[d].pc = "send"
    BY <1>7 DEF enqueue
  <2>2. /\ m \in Packets /\ Home(m, "forwarder", d)
        /\ \/ /\ Moves(m, "forwarder", d, "packetQueue", None)
              /\ packetQueue' = Append(packetQueue, m)
              /\ forwarder' = [forwarder EXCEPT ![d] = [pc |-> "count", pkt |-> None]]
           \/ /\ Moves(m, "forwarder", d, "lost", "queue")
              /\ UNCHANGED packetQueue
              /\ forwarder' = [forwarder EXCEPT ![d] = [pc |-> "idle", pkt |-> None]]
    BY <1>7, EnqueueMoves
  <2> HIDE DEF m
  <2>3. Taken' = Taken
    BY <2>2, TakenStays DEF Late
  <2>4. CASE /\ packetQueue' = Append(packetQueue, m)
             /\ forwarder' = [forwarder EXCEPT ![d] = [pc |-> "count", pkt |-> None]]
    <3>1. d \notin Counting /\ Counting' = Counting \cup {d}
      BY <1>4, <2>1, <2>4 DEF Counting
    <3>2. IsFiniteSet(Counting') /\ Cardinality(Counting') = Cardinality(Counting) + 1
      BY <3>1, FS_AddElement DEF CountInv
    <3>3. Len(packetQueue') = Len(packetQueue) + 1 /\ Len(packetQueue) \in Nat
      BY <2>2, <2>4, AppendIn DEF NetInv, QueueOK
    <3>4. Cardinality(Counting) \in Nat /\ Cardinality(Handled) \in Nat
      BY FS_CardinalityType DEF CountInv
    <3> QED
      BY <1>2, <1>3, <1>4, <2>1, <2>3, <3>2, <3>3, <3>4 DEF CountInv, CounterExact
  <2>5. CASE /\ UNCHANGED packetQueue
             /\ forwarder' = [forwarder EXCEPT ![d] = [pc |-> "idle", pkt |-> None]]
    <3>1. Counting' = Counting
      BY <1>4, <2>1, <2>5 DEF Counting
    <3> QED
      BY <1>2, <1>3, <2>1, <2>3, <2>5, <3>1, CountRests
  <2> QED
    BY <2>2, <2>4, <2>5
<1>8. ASSUME NEW d \in Devices, incrCounter(d) PROVE CountInv'
  <2>1. /\ forwarder[d].pc = "count" /\ counter' = counter + 1 /\ UNCHANGED packetQueue
        /\ forwarder' = [forwarder EXCEPT ![d].pc = "idle"]
    BY <1>8 DEF incrCounter
  <2>2. Taken' = Taken
    BY <1>8, QuietRests, TakenRests DEF Quiet
  <2>3. d \in Counting /\ Counting' = Counting \ {d}
    BY <1>4, <2>1 DEF Counting
  <2>4. IsFiniteSet(Counting') /\ Cardinality(Counting') = Cardinality(Counting) - 1
    BY <2>3, FS_RemoveElement DEF CountInv
  <2>5. Cardinality(Counting) \in Nat /\ Cardinality(Handled) \in Nat /\ Len(packetQueue) \in Nat
    BY FS_CardinalityType, LenProperties DEF CountInv, NetInv, QueueOK
  <2> QED
    BY <1>2, <1>3, <1>4, <2>1, <2>2, <2>4, <2>5 DEF CountInv, CounterExact
<1>9. ASSUME NEW w \in Workers, dequeue(w) PROVE CountInv'
  <2> DEFINE m == Head(packetQueue)
  <2>1. UNCHANGED <<forwarder, counter>>
    BY <1>9 DEF dequeue
  <2>2. /\ m \in Packets /\ Home(m, "packetQueue", None)
        /\ packetQueue \in Seq(Packets) /\ packetQueue # <<>> /\ packetQueue' = Tail(packetQueue)
        /\ \/ Moves(m, "packetQueue", None, "worker", w)
           \/ Moves(m, "packetQueue", None, "lost", "ignored")
    BY <1>9, DequeueMoves
  <2>3. Len(packetQueue') = Len(packetQueue) - 1 /\ Len(packetQueue) \in Nat
    BY <2>2, TailIn DEF PlaceInv, Unrepeated
  <2> HIDE DEF m
  <2>4. m \notin Taken /\ Taken' = Taken \cup {m}
    BY <1>1, <2>2, TakenGrows DEF Late
  <2>5. IsFiniteSet(Handled') /\ Cardinality(Handled') = Cardinality(Handled) + 1
    BY <1>2, <1>3, <2>4, FS_AddElement DEF CountInv
  <2>6. Counting' = Counting
    BY <2>1 DEF Counting
  <2>7. Cardinality(Counting) \in Nat /\ Cardinality(Handled) \in Nat
    BY FS_CardinalityType DEF CountInv
  <2> QED
    BY <1>4, <2>1, <2>3, <2>5, <2>6, <2>7 DEF CountInv, CounterExact
<1>10. ASSUME NEW w \in Workers, Charge(w) \/ pushDelayQueue(w) PROVE CountInv'
  <2> DEFINE m == worker[w].pkt
  <2>1. UNCHANGED <<forwarder, packetQueue, counter>>
    BY <1>10 DEF Charge, pushDelayQueue, pipeVars
  <2>2. /\ m \in Packets /\ Home(m, "worker", w)
        /\ \/ Moves(m, "worker", w, "ledger", None)
           \/ Moves(m, "worker", w, "delayQueue", None)
           \/ Moves(m, "worker", w, "lost", "delay")
    BY <1>10, ChargeMoves
  <2> HIDE DEF m
  <2>3. Taken' = Taken
    BY <2>2, TakenStays DEF Late
  <2>4. Counting' = Counting
    BY <2>1 DEF Counting
  <2> QED
    BY <1>2, <1>3, <2>1, <2>3, <2>4, CountRests
<1>11. CASE consumeDelayQueue \/ handleDelayEntry
  <2>1. UNCHANGED <<forwarder, packetQueue, counter>>
    BY <1>11 DEF consumeDelayQueue, handleDelayEntry, pipeVars
  <2>2. CASE consumeDelayQueue
    <3> DEFINE m == Head(delayQueue)
    <3>1. m \in Packets /\ Home(m, "delayQueue", None) /\ Moves(m, "delayQueue", None, "entry", None)
      BY <2>2, ConsumeMoves
    <3> HIDE DEF m
    <3>2. Taken' = Taken
      BY <3>1, TakenStays DEF Late
    <3>3. Counting' = Counting
      BY <2>1 DEF Counting
    <3> QED
      BY <1>2, <1>3, <2>1, <3>2, <3>3, CountRests
  <2>3. CASE handleDelayEntry
    <3>1. /\ entry \in Packets /\ Home(entry, "entry", None)
          /\ \/ Moves(entry, "entry", None, "ledger", None)
             \/ Moves(entry, "entry", None, "lost", "unresolved")
      BY <2>3, HandleMoves
    <3>2. Taken' = Taken
      BY <3>1, TakenStays DEF Late
    <3>3. Counting' = Counting
      BY <2>1 DEF Counting
    <3> QED
      BY <1>2, <1>3, <2>1, <3>2, <3>3, CountRests
  <2> QED
    BY <1>11, <2>2, <2>3
<1>12. CASE Quiet /\ ~ \E d \in Devices : incrCounter(d)
  <2>1. Rests /\ UNCHANGED packetQueue
    BY <1>12, QuietRests
  <2>2. UNCHANGED counter
    BY <1>12
    DEF Quiet, CaptureExit, ForwarderExit, WorkerExit, LookupInode, LookupProcess, FirstRescan,
        Tick, BeginRescan, Scan, ScanError, Commit, EndRescan, DrainEnds, SyncerExit, Stop, Clean,
        KernelChanges, vars, pipeVars
  <2>3. \A d \in Devices : forwarder'[d].pc = "count" <=> forwarder[d].pc = "count"
    <3>1. \/ forwarder' = forwarder
          \/ \E d \in Devices : ForwarderExit(d)
      BY <1>12
      DEF Quiet, CaptureExit, WorkerExit, LookupInode, LookupProcess, FirstRescan,
          Tick, BeginRescan, Scan, ScanError, Commit, EndRescan, DrainEnds, SyncerExit, Stop, Clean,
          KernelChanges, vars, pipeVars
    <3> QED
      BY <1>4, <3>1 DEF ForwarderExit, FwdStates
  <2>4. Counting' = Counting
    BY <2>3 DEF Counting
  <2> QED
    BY <1>2, <1>3, <2>1, <2>2, <2>4, TakenRests, CountRests
<1> QED
  BY <1>5, <1>6, <1>7, <1>8, <1>9, <1>10, <1>11, <1>12, StepMoves

\* LoadCounter never runs ahead of the packets that were queued, and lags behind
\* by the forwarders that are between their send and their increment
\* (netflow.go:290, netflow.go:546).
THEOREM CounterIsExact == Spec => []CounterExact
<1>1. CountInv => CounterExact
  BY DEF CountInv
<1>2. Spec => []CountInv
  BY CountInit, CountStep, PlaceInvariant, PTL DEF Spec
<1> QED
  BY <1>1, <1>2, PTL

-----------------------------------------------------------------------------
(* DelayedIsFound.  The syncer runs the scan and the drain itself, so when *)
(* it retries a packet the scan before is over; if nothing disturbed that  *)
(* scan, the tables hold every open connection.                            *)

\* The inductive invariant behind DelayedIsFound: how far an undisturbed scan is.
SyncInv ==
    /\ KernelLive
    /\ ScanIdle
    /\ scanning <=> syncer \in {"first", "rescan"}
    /\ quiet => /\ LinesFresh /\ Scanned
                /\ procScan => FoundExact
                /\ ~ procScan => TablesExact

\* Initially no scan has run.
LEMMA SyncInvInit == Init => SyncInv
BY DEF Init, Start, KernelInit, ScanInit, SyncInv, KernelLive, ScanIdle

\* Devices, workers and the drain touch neither the tables nor the scan.
LEMMA OutsideScan ==
    ASSUME \/ \E d \in Devices : DeviceStep(d)
           \/ \E w \in Workers : WorkerStep(w)
           \/ consumeDelayQueue \/ handleDelayEntry \/ DrainEnds \/ SyncerExit
           \/ Stop \/ UNCHANGED vars
    PROVE  /\ UNCHANGED <<kernelVars, tableVars, scanVars, quiet>>
           /\ syncer' = syncer \/ (syncer \in {"wait", "drain"} /\ syncer' \in {"wait", "exit"})
<1>1. ASSUME NEW d \in Devices, DeviceStep(d)
      PROVE  UNCHANGED <<kernelVars, tableVars, scanVars, quiet, syncer>>
  <2>1. ASSUME NEW m \in Packets, Capture(d, m)
        PROVE  UNCHANGED <<kernelVars, tableVars, scanVars, quiet, syncer>>
    BY <2>1 DEF Capture, Claim
  <2>2. CASE CaptureExit(d) \/ Receive(d) \/ ForwarderExit(d)
    BY <2>2 DEF CaptureExit, Receive, ForwarderExit, histVars
  <2>3. CASE enqueue(d) \/ incrCounter(d)
    BY <2>3 DEF enqueue, incrCounter, histVars
  <2> QED
    BY <1>1, <2>1, <2>2, <2>3 DEF DeviceStep
<1>2. ASSUME NEW w \in Workers, WorkerStep(w)
      PROVE  UNCHANGED <<kernelVars, tableVars, scanVars, quiet, syncer>>
  BY <1>2
  DEF WorkerStep, dequeue, WorkerExit, LookupInode, LookupProcess, Charge, pushDelayQueue, histVars, claimVars
<1>3. CASE consumeDelayQueue \/ handleDelayEntry \/ Stop \/ UNCHANGED vars
  BY <1>3 DEF consumeDelayQueue, handleDelayEntry, Stop, vars, histVars, claimVars
<1>4. CASE DrainEnds \/ SyncerExit
  BY <1>4 DEF DrainEnds, SyncerExit, histVars, claimVars
<1> QED
  BY <1>1, <1>2, <1>3, <1>4

\* Every step preserves the invariant.
LEMMA SyncInvStep == NetInv /\ SyncInv /\ [Next]_vars => SyncInv'
<1> SUFFICES ASSUME NetInv, SyncInv, [Next]_vars PROVE SyncInv'
  OBVIOUS
<1>1. KernelTypeOK /\ TablesInv /\ ScanTypeOK /\ ScanIdle
  BY DEF NetInv, TablesOK, TablesInv, SyncInv
<1>2. UNCHANGED kernelVars => KernelLive'
  BY DEF SyncInv, KernelLive, kernelVars
<1>3. CASE KernelChanges
  <2>1. UNCHANGED <<scanVars, syncer>> /\ KernelLive' /\ quiet' = FALSE
    BY <1>1, <1>3, KernelStaysLive DEF KernelChanges, Disturb, SyncInv
  <2>2. ScanIdle' /\ scanning' = scanning
    BY <1>1, <2>1, ScanStaysIdle DEF scanVars
  <2> QED
    BY <2>1, <2>2 DEF SyncInv
<1>4. CASE Clean
  <2>1. UNCHANGED <<scanVars, syncer>> /\ KernelLive' /\ quiet' = FALSE
    BY <1>2, <1>4 DEF Clean, CleanupStep, Disturb
  <2>2. ScanIdle' /\ scanning' = scanning
    BY <1>1, <2>1, ScanStaysIdle DEF scanVars
  <2> QED
    BY <2>1, <2>2 DEF SyncInv
<1>5. CASE FirstRescan \/ Tick
  <2>1. /\ UNCHANGED kernelVars /\ StartRescan
        /\ scanning' = TRUE /\ procScan' = TRUE /\ syncer' \in {"first", "rescan"}
    BY <1>5 DEF FirstRescan, Tick, BeginRescan, StartRescan
  <2>2. LinesFresh' /\ Scanned' /\ FoundExact'
    BY <1>1, <2>1, StartIsFresh
  <2>3. ScanIdle'
    BY <1>1, <2>1, ScanStaysIdle
  <2> QED
    BY <1>2, <2>1, <2>2, <2>3 DEF SyncInv
<1>6. CASE Scan
  <2>1. UNCHANGED <<kernelVars, quiet, syncer>>
    BY <1>6 DEF Scan, histVars
  <2>2. ScanIdle'
    BY <1>1, <1>6, ScanStaysIdle DEF Scan
  <2>3. UNCHANGED <<scanning, procScan>>
    BY <1>6 DEF Scan, ScanStep, ReadLine, AddLine, ReadFd
  <2>4. CASE quiet
    BY <1>1, <1>2, <1>6, <2>1, <2>2, <2>3, <2>4, ScanStepIsFresh DEF Scan, SyncInv
  <2>5. CASE ~ quiet
    BY <1>2, <2>1, <2>2, <2>3, <2>5 DEF SyncInv
  <2> QED
    BY <2>4, <2>5
<1>7. CASE Commit
  <2>1. /\ UNCHANGED <<kernelVars, connInodeHash, quiet, syncer, unread, lines, scanning>>
        /\ procScan /\ procScan' = FALSE
    BY <1>7 DEF Commit, CommitProcesses
  <2>2. FoundExact => TablesExact'
    BY <1>1, <1>7, <2>1, CommitIsFresh DEF Commit
  <2>3. (LinesFresh => LinesFresh') /\ (Scanned => Scanned')
    BY <2>1, FreshStutters
  <2>4. ScanIdle'
    BY <1>1, <1>7, ScanStaysIdle DEF Commit
  <2> QED
    BY <1>2, <2>1, <2>2, <2>3, <2>4 DEF SyncInv
<1>8. CASE ScanError
  <2>1. UNCHANGED <<kernelVars, syncer, scanning>> /\ FailRead /\ quiet' = FALSE
    BY <1>8 DEF ScanError, FailRead
  <2>2. ScanIdle'
    BY <1>1, <2>1, ScanStaysIdle
  <2> QED
    BY <1>2, <2>1, <2>2 DEF SyncInv
<1>9. CASE EndRescan
  <2>1. /\ UNCHANGED <<kernelVars, connInodeHash, dict, inodePidMap, quiet>>
        /\ UNCHANGED <<unread, lines, unreadFds, ps, procScan>>
        /\ FinishRescan /\ scanning' = FALSE /\ syncer' \in {"wait", "drain"}
    BY <1>9 DEF EndRescan, FinishRescan, tableVars, histVars, claimVars
  <2>2. /\ LinesFresh => LinesFresh'
        /\ Scanned => Scanned'
        /\ FoundExact => FoundExact'
        /\ TablesExact => TablesExact'
    BY <2>1, FreshStutters
  <2>3. ScanIdle'
    BY <1>1, <2>1, ScanStaysIdle
  <2> QED
    BY <1>2, <2>1, <2>2, <2>3 DEF SyncInv
<1>10. CASE \/ \E d \in Devices : DeviceStep(d)
            \/ \E w \in Workers : WorkerStep(w)
            \/ consumeDelayQueue \/ handleDelayEntry \/ DrainEnds \/ SyncerExit
            \/ Stop \/ UNCHANGED vars
  <2>1. /\ UNCHANGED <<kernelVars, connInodeHash, dict, inodePidMap, quiet>>
        /\ UNCHANGED <<scanning, unread, lines, unreadFds, ps, procScan>>
        /\ UNCHANGED scanVars
        /\ syncer' = syncer \/ (syncer \in {"wait", "drain"} /\ syncer' \in {"wait", "exit"})
    BY <1>10, OutsideScan DEF tableVars, scanVars
  <2>2. /\ LinesFresh => LinesFresh'
        /\ Scanned => Scanned'
        /\ FoundExact => FoundExact'
        /\ TablesExact => TablesExact'
    BY <2>1, FreshStutters
  <2>3. ScanIdle'
    BY <1>1, <2>1, ScanStaysIdle
  <2> QED
    BY <1>2, <2>1, <2>2, <2>3 DEF SyncInv
<1> QED
  BY <1>3, <1>4, <1>5, <1>6, <1>7, <1>8, <1>9, <1>10 DEF Next, SyncerStep

\* Only handleDelayEntry empties the syncer's hand.
LEMMA EntryIsHandled ==
    ASSUME [Next]_vars, entry # None, entry' = None
    PROVE  handleDelayEntry
<1>1. ASSUME NEW d \in Devices, DeviceStep(d) PROVE UNCHANGED entry
  BY <1>1
  DEF DeviceStep, Capture, CaptureExit, Receive, enqueue, incrCounter, ForwarderExit
<1>2. ASSUME NEW w \in Workers, WorkerStep(w) PROVE UNCHANGED entry
  BY <1>2 DEF WorkerStep, dequeue, WorkerExit, LookupInode, LookupProcess, Charge, pushDelayQueue
<1>3. CASE \/ FirstRescan \/ Tick \/ Scan \/ ScanError \/ Commit \/ EndRescan \/ DrainEnds \/ SyncerExit
           \/ Stop \/ Clean \/ KernelChanges \/ UNCHANGED vars
  BY <1>3
  DEF FirstRescan, Tick, BeginRescan, Scan, ScanError, Commit, EndRescan, DrainEnds, SyncerExit, Stop,
      Clean, KernelChanges, vars
<1>4. ~ consumeDelayQueue
  BY DEF consumeDelayQueue
<1> QED
  BY <1>1, <1>2, <1>3, <1>4 DEF Next, SyncerStep

\* One retry is enough: a delayed packet of a connection that is open is charged
\* after the next scan, unless the kernel changed or the cleaner ran since that
\* scan began (netflow.go:403, netflow.go:793).
THEOREM RetryIsEnough == Spec => DelayedIsFound
<1> DEFINE Retried(m) ==
              /\ entry = m /\ entry' = None
              /\ stamp[m] = "before" /\ quiet /\ Connected(m)
              /\ \A c \in Conns : sock[c] # "pending"
<1>1. ASSUME NetInv, SyncInv, [Next]_vars, NEW m \in Packets, Retried(m)
      PROVE  Len(ledger') = Len(ledger) + 1
  <2>1. m # None /\ handleDelayEntry
    BY <1>1, EntryIsHandled, PacketsAssumption
  <2>2. PICK c \in Conns : sock[c] = "open" /\ Uses(c, PacketAddr[m])
    BY <1>1 DEF Connected
  <2>3. PacketAddr[m] \in Keys
    BY <2>2, AddrAssumption DEF Uses
  <2>4. ~ scanning
    BY <1>1, <2>1 DEF SyncInv, handleDelayEntry
  <2>5. AllNamed /\ TablesExact /\ KernelLive
    BY <1>1, <2>4, AllRead DEF SyncInv, ScanIdle
  <2>6. KernelTypeOK /\ TablesInv
    BY <1>1 DEF NetInv, TablesOK
  <2>7. getProcessByAddr(PacketAddr[m]) # {}
    BY <1>1, <2>2, <2>3, <2>5, <2>6, QuietLookup
  <2>8. PICK p : ledger' = Append(ledger, [pkt |-> entry, pid |-> p])
    BY <1>1, <2>1, <2>7 DEF handleDelayEntry
  <2>9. ledger \in Seq([pkt : Packets, pid : Pids])
    BY <1>1 DEF NetInv, EndOK
  <2> QED
    BY <2>8, <2>9, LenProperties
<1>2. NetInv /\ SyncInv /\ [Next]_vars
        => [\A m \in Packets : Retried(m) => Len(ledger') = Len(ledger) + 1]_vars
  BY <1>1
<1>3. Spec => []SyncInv
  BY SyncInvInit, SyncInvStep, NetflowInvariant, PTL DEF Spec
<1> QED
  BY <1>2, <1>3, NetflowInvariant, PTL DEF Spec, DelayedIsFound
=============================================================================
