-------------------------------- MODULE Netflow --------------------------------
(***************************************************************************)
(* The packet pipeline of Netflow (netflow.go).  For every device a        *)
(* capture goroutine puts packets into packetChan and a forwarder moves    *)
(* them to packetQueue; workers take them from there, look up the process  *)
(* and charge it.  A packet whose process is not found goes to delayQueue, *)
(* which the resource syncer drains after each rescan.  Every queue is     *)
(* bounded and drops what does not fit; everything stops on ctx.Done.      *)
(*                                                                         *)
(* A packet is an identity with an address pair.  `stamp` says when it was *)
(* delayed, relative to the rescans: before the last one began, while it   *)
(* ran, or after lastTime was taken at its end.                            *)
(***************************************************************************)
EXTENDS Resolver

CONSTANTS
    Devices, Workers, Packets,
    PacketAddr,     \* PacketAddr[m]: source_destination, None if not IPv4 TCP
    ChanCap,        \* capacity of packetChan, 10000000 in the code
    defaultQueueSize,
    qsize,          \* what WithQueueSize set
    MaxChanges,     \* bound: steps of the kernel and of the cleaner
    None

ASSUME PacketsAssumption ==
    /\ None \notin Packets \cup Keys \cup Pids \cup Inodes
    /\ PacketAddr \in [Packets -> Keys \cup {None}]
ASSUME CapsAssumption ==
    ChanCap \in Nat /\ defaultQueueSize \in Nat /\ qsize \in Nat /\ MaxChanges \in Nat

VARIABLES
    wire,           \* packets the devices have not delivered yet
    packetChan,     \* packetChan[d]
    capturing,      \* capturing[d]: captureDevice(d) has not returned
    forwarder,      \* forwarder[d]: [pc, pkt]
    packetQueue,
    counter,
    worker,         \* worker[w]: [pc, pkt, inode, pid]
    delayQueue,
    stamp,          \* stamp[m]: when m was delayed
    syncer,         \* program counter of startResourceSyncer
    entry,          \* the delayed packet the syncer has in hand
    done,           \* ctx.Done is closed
    ledger,         \* the charges made, in order
    lost,           \* packets that were given up, with the reason
    changes,        \* steps of the kernel and of the cleaner so far
    since,          \* history: holders of a socket since the last rescan began
    base,           \* history: the same, since the scan began that inodePidMap comes from
    liable,         \* history: liable[m]: who may be charged for m
    quiet           \* history: no change since the last rescan began

pipeVars  == <<wire, packetChan, capturing, forwarder, packetQueue, counter>>
delayVars == <<delayQueue, stamp>>
endVars   == <<ledger, lost>>
claimVars == <<since, base, liable>>
histVars  == <<changes, claimVars, quiet>>

vars == <<kernelVars, tableVars, scanVars, pipeVars, worker, delayVars, syncer, entry,
          done, endVars, histVars>>

idle == [pc |-> "idle", pkt |-> None, inode |-> None, pid |-> None]

FwdStates == [pc : {"idle", "send", "count", "exit"}, pkt : Packets \cup {None}]

WorkerStates ==
    [pc : {"idle", "inode", "proc", "charge", "push", "exit"}, pkt : Packets \cup {None},
     inode : Inodes \cup {None}, pid : Pids \cup {None}]

Reasons == {"chan", "queue", "ignored", "delay", "unresolved"}

\* Type invariant: tables, queues and goroutines hold what their types allow.
TypeOK ==
    /\ KernelTypeOK /\ MappingTypeOK /\ ControllerTypeOK /\ ScanTypeOK
    /\ wire \subseteq Packets
    /\ packetChan \in [Devices -> Seq(Packets)]
    /\ capturing \in [Devices -> BOOLEAN]
    /\ forwarder \in [Devices -> FwdStates]
    /\ packetQueue \in Seq(Packets)
    /\ counter \in Nat
    /\ worker \in [Workers -> WorkerStates]
    /\ delayQueue \in Seq(Packets)
    /\ stamp \in [Packets -> {None, "before", "during", "after"}]
    /\ syncer \in {"start", "first", "wait", "rescan", "drain", "exit"}
    /\ entry \in Packets \cup {None}
    /\ done \in BOOLEAN
    /\ ledger \in Seq([pkt : Packets, pid : Pids])
    /\ lost \subseteq [pkt : Packets, why : Reasons]
    /\ changes \in 0 .. MaxChanges
    /\ since \in [Conns -> SUBSET Pids]
    /\ base \in [Conns -> SUBSET Pids]
    /\ liable \in [Packets -> SUBSET Pids]
    /\ quiet \in BOOLEAN

\* captureDevice returns at once where buildPcapHandler fails, before it starts
\* its forwarder.
buildPcapHandler ==
    /\ capturing \in [Devices -> BOOLEAN]
    /\ forwarder = [d \in Devices |-> [pc  |-> IF capturing[d] THEN "idle" ELSE "exit",
                                       pkt |-> None]]

startNetworkSniffer ==
    /\ packetChan = [d \in Devices |-> <<>>]
    /\ buildPcapHandler
    /\ worker = [w \in Workers |-> idle]

Start == syncer = "start" /\ entry = None /\ startNetworkSniffer

Init ==
    /\ KernelInit /\ NewMapping /\ NewProcessController /\ ScanInit
    /\ wire = Packets
    /\ Start
    /\ packetQueue = <<>>
    /\ counter = 0
    /\ delayQueue = <<>>
    /\ stamp = [m \in Packets |-> None]
    /\ done = FALSE
    /\ ledger = <<>>
    /\ lost = {}
    /\ changes = 0
    /\ since = holders /\ base = holders
    /\ liable = [m \in Packets |-> {}]
    /\ quiet = FALSE

giveUp(m, why) == lost' = lost \cup {[pkt |-> m, why |-> why]}

\* The connections m may be a packet of.
PacketConns == [m \in Packets |-> {c \in Conns : Uses(c, PacketAddr[m])}]

\* When m is captured: the processes that held its connection since the scan began
\* whose result is in use.
HeldLately(m) == UNION {base[c] : c \in PacketConns[m]}

Claim(m) ==
    /\ liable' = [liable EXCEPT ![m] = HeldLately(m)]
    /\ UNCHANGED <<changes, since, base, quiet>>

-----------------------------------------------------------------------------
(* captureDevice and its forwarder.                                        *)

\* Mutant of Capture: a packet may be read again, after it was read before.
CaptureAgain(d, m) ==
    /\ capturing[d] /\ m \in wire
    /\ wire' \in {wire, wire \ {m}}
    /\ \/ /\ Len(packetChan[d]) < ChanCap
          /\ packetChan' = [packetChan EXCEPT ![d] = Append(@, m)]
          /\ UNCHANGED lost
       \/ /\ Len(packetChan[d]) >= ChanCap
          /\ giveUp(m, "chan")
          /\ UNCHANGED packetChan
    /\ Claim(m)
    /\ UNCHANGED <<capturing, forwarder, packetQueue, counter, worker, delayVars, syncer, entry,
                   done, ledger, kernelVars, tableVars, scanVars>>

\* The select takes a packet even when ctx is done, if both are ready.
Capture(d, m) ==
    /\ capturing[d] /\ m \in wire
    /\ wire' = wire \ {m}
    /\ \/ /\ Len(packetChan[d]) < ChanCap
          /\ packetChan' = [packetChan EXCEPT ![d] = Append(@, m)]
          /\ UNCHANGED lost
       \/ /\ Len(packetChan[d]) >= ChanCap
          /\ giveUp(m, "chan")
          /\ UNCHANGED packetChan
    /\ Claim(m)
    /\ UNCHANGED <<capturing, forwarder, packetQueue, counter, worker, delayVars, syncer, entry,
                   done, ledger, kernelVars, tableVars, scanVars>>

\* ctx.Done: packetChan is closed.
CaptureExit(d) ==
    /\ capturing[d] /\ done
    /\ capturing' = [capturing EXCEPT ![d] = FALSE]
    /\ UNCHANGED <<wire, packetChan, forwarder, packetQueue, counter, worker, delayVars, syncer,
                   entry, done, endVars, kernelVars, tableVars, scanVars, histVars>>

\* for pkt := range packetChan
Receive(d) ==
    /\ forwarder[d].pc = "idle" /\ packetChan[d] # <<>>
    /\ forwarder' = [forwarder EXCEPT ![d] = [pc |-> "send", pkt |-> Head(packetChan[d])]]
    /\ packetChan' = [packetChan EXCEPT ![d] = Tail(@)]
    /\ UNCHANGED <<wire, capturing, packetQueue, counter, worker, delayVars, syncer, entry, done,
                   endVars, kernelVars, tableVars, scanVars, histVars>>

ForwarderExit(d) ==
    /\ forwarder[d].pc = "idle" /\ packetChan[d] = <<>> /\ ~ capturing[d]
    /\ forwarder' = [forwarder EXCEPT ![d].pc = "exit"]
    /\ UNCHANGED <<wire, packetChan, capturing, packetQueue, counter, worker, delayVars, syncer,
                   entry, done, endVars, kernelVars, tableVars, scanVars, histVars>>

\* The channel was made before the options ran: its capacity is the default.
cap == defaultQueueSize

\* Mutant of enqueue: a dropped packet is counted too.
enqueueCountsDrops(d) ==
    /\ forwarder[d].pc = "send"
    /\ forwarder' = [forwarder EXCEPT ![d] = [pc |-> "count", pkt |-> None]]
    /\ IF Len(packetQueue) < cap
       THEN packetQueue' = Append(packetQueue, forwarder[d].pkt) /\ UNCHANGED lost
       ELSE giveUp(forwarder[d].pkt, "queue") /\ UNCHANGED packetQueue
    /\ UNCHANGED <<wire, packetChan, capturing, counter, worker, delayVars, syncer, entry, done,
                   ledger, kernelVars, tableVars, scanVars, histVars>>

\* Mutant of enqueue: the select has no default, so a full queue blocks.
enqueueBlocks(d) ==
    /\ forwarder[d].pc = "send" /\ Len(packetQueue) < cap
    /\ packetQueue' = Append(packetQueue, forwarder[d].pkt)
    /\ forwarder' = [forwarder EXCEPT ![d] = [pc |-> "count", pkt |-> None]]
    /\ UNCHANGED <<wire, packetChan, capturing, counter, worker, delayVars, syncer, entry, done,
                   endVars, kernelVars, tableVars, scanVars, histVars>>

enqueue(d) ==
    /\ forwarder[d].pc = "send"
    /\ \/ /\ Len(packetQueue) < cap
          /\ packetQueue' = Append(packetQueue, forwarder[d].pkt)
          /\ forwarder' = [forwarder EXCEPT ![d] = [pc |-> "count", pkt |-> None]]
          /\ UNCHANGED lost
       \/ /\ Len(packetQueue) >= cap
          /\ giveUp(forwarder[d].pkt, "queue")
          /\ forwarder' = [forwarder EXCEPT ![d] = [pc |-> "idle", pkt |-> None]]
          /\ UNCHANGED packetQueue
    /\ UNCHANGED <<wire, packetChan, capturing, counter, worker, delayVars, syncer, entry, done,
                   ledger, kernelVars, tableVars, scanVars, histVars>>

\* Mutant of incrCounter: the wrong sign.
decrCounter(d) ==
    /\ forwarder[d].pc = "count"
    /\ counter' = counter - 1
    /\ forwarder' = [forwarder EXCEPT ![d].pc = "idle"]
    /\ UNCHANGED <<wire, packetChan, capturing, packetQueue, worker, delayVars, syncer, entry, done,
                   endVars, kernelVars, tableVars, scanVars, histVars>>

incrCounter(d) ==
    /\ forwarder[d].pc = "count"
    /\ counter' = counter + 1
    /\ forwarder' = [forwarder EXCEPT ![d].pc = "idle"]
    /\ UNCHANGED <<wire, packetChan, capturing, packetQueue, worker, delayVars, syncer, entry, done,
                   endVars, kernelVars, tableVars, scanVars, histVars>>

-----------------------------------------------------------------------------
(* loopHandlePacket: the lookups are two critical sections, and the charge *)
(* is made outside both.                                                   *)

to(w, r) == worker' = [worker EXCEPT ![w] = r]

dequeue(w) ==
    /\ worker[w].pc = "idle" /\ packetQueue # <<>>
    /\ packetQueue' = Tail(packetQueue)
    /\ LET m == Head(packetQueue)
       IN  IF PacketAddr[m] = None
           THEN giveUp(m, "ignored") /\ UNCHANGED worker
           ELSE to(w, [idle EXCEPT !.pc = "inode", !.pkt = m]) /\ UNCHANGED lost
    /\ UNCHANGED <<wire, packetChan, capturing, forwarder, counter, delayVars, syncer, entry, done,
                   ledger, kernelVars, tableVars, scanVars, histVars>>

WorkerExit(w) ==
    /\ worker[w].pc = "idle" /\ done
    /\ to(w, [idle EXCEPT !.pc = "exit"])
    /\ UNCHANGED <<pipeVars, delayVars, syncer, entry, done, endVars, kernelVars, tableVars,
                   scanVars, histVars>>

\* increaseTraffic's else branch: the packet is stamped now and pushed next.
\* (During a rescan the stamp is earlier than the lastTime taken at its end.)
delayed(m) ==
    stamp' = [stamp EXCEPT ![m] = IF scanning THEN "during" ELSE "after"]

\* The delay entry of m, and its time with it, is gone.
gone(m) == stamp' = [stamp EXCEPT ![m] = None]

\* getProcessByAddr, first half: connInodeHash.Get
LookupInode(w) ==
    /\ worker[w].pc = "inode"
    /\ LET m == worker[w].pkt
           k == PacketAddr[m]
       IN  IF k \in DOMAIN connInodeHash
           THEN /\ to(w, [worker[w] EXCEPT !.pc = "proc", !.inode = connInodeHash[k].value])
                /\ UNCHANGED stamp
           ELSE /\ to(w, [worker[w] EXCEPT !.pc = "push"])
                /\ delayed(m)
    /\ UNCHANGED <<pipeVars, delayQueue, syncer, entry, done, endVars, kernelVars, tableVars,
                   scanVars, histVars>>

\* getProcessByAddr, second half: processHash.GetProcessByInode
LookupProcess(w) ==
    /\ worker[w].pc = "proc"
    /\ \/ \E p \in GetProcessByInode(worker[w].inode) :
             /\ to(w, [worker[w] EXCEPT !.pc = "charge", !.inode = None, !.pid = p])
             /\ UNCHANGED stamp
       \/ /\ GetProcessByInode(worker[w].inode) = {}
          /\ to(w, [worker[w] EXCEPT !.pc = "push", !.inode = None])
          /\ delayed(worker[w].pkt)
    /\ UNCHANGED <<pipeVars, delayQueue, syncer, entry, done, endVars, kernelVars, tableVars,
                   scanVars, histVars>>

\* increaseProcessTraffic, on the Process that was found earlier.
Charge(w) ==
    /\ worker[w].pc = "charge"
    /\ ledger' = Append(ledger, [pkt |-> worker[w].pkt, pid |-> worker[w].pid])
    /\ to(w, idle)
    /\ UNCHANGED <<pipeVars, delayVars, syncer, entry, done, lost, kernelVars, tableVars, scanVars,
                   histVars>>

pushDelayQueue(w) ==
    /\ worker[w].pc = "push"
    /\ to(w, idle)
    /\ \/ /\ Len(delayQueue) < cap
          /\ delayQueue' = Append(delayQueue, worker[w].pkt)
          /\ UNCHANGED <<lost, stamp>>
       \/ /\ Len(delayQueue) >= cap
          /\ giveUp(worker[w].pkt, "delay") /\ gone(worker[w].pkt)
          /\ UNCHANGED delayQueue
    /\ UNCHANGED <<pipeVars, syncer, entry, done, ledger, kernelVars, tableVars, scanVars,
                   histVars>>
-----------------------------------------------------------------------------
(* startResourceSyncer.                                                    *)

\* rescanResouce begins, on start or on a tick: what was delayed so far was
\* delayed before it.
BeginRescan(from, at) ==
    /\ syncer = from /\ syncer' = at
    /\ StartRescan
    /\ stamp' = [m \in Packets |-> IF stamp[m] = None THEN None ELSE "before"]
    /\ since' = holders /\ quiet' = TRUE
    /\ UNCHANGED <<pipeVars, worker, delayQueue, entry, done, endVars, kernelVars, changes, base,
                   liable>>

FirstRescan == BeginRescan("start", "first")

Tick == BeginRescan("wait", "rescan")

Scan ==
    /\ ScanStep
    /\ UNCHANGED <<pipeVars, worker, delayVars, syncer, entry, done, endVars, kernelVars, histVars>>

Commit ==
    /\ CommitProcesses
    /\ base' = since
    /\ UNCHANGED <<pipeVars, worker, delayVars, syncer, entry, done, endVars, kernelVars, changes,
                   since, liable, quiet>>

ScanError ==
    /\ FailRead
    /\ quiet' = FALSE
    /\ UNCHANGED <<pipeVars, worker, delayVars, syncer, entry, done, endVars, kernelVars, changes,
                   claimVars>>

\* rescanResouce returns. Only the rescans of the loop are followed by a drain.
EndRescan ==
    /\ FinishRescan
    /\ syncer' = IF syncer = "first" THEN "wait" ELSE "drain"
    /\ UNCHANGED <<pipeVars, worker, delayVars, entry, done, endVars, kernelVars, histVars>>

consumeDelayQueue ==
    /\ syncer = "drain" /\ entry = None /\ delayQueue # <<>>
    /\ entry' = Head(delayQueue)
    /\ delayQueue' = Tail(delayQueue)
    /\ UNCHANGED <<pipeVars, worker, stamp, syncer, done, endVars, kernelVars, tableVars, scanVars,
                   histVars>>

\* Mutant of AfterLastTime: the comparison is turned round.
BeforeLastTime(m) == stamp[m] # "after"

\* entry.timestamp.After(lastTime)
AfterLastTime(m) == stamp[m] = "after"

\* The queue is empty or ctx is done, or the entry is too young and is kept.
DrainEnds ==
    /\ syncer = "drain"
    /\ \/ entry = None /\ (delayQueue = <<>> \/ done)
       \/ entry # None /\ AfterLastTime(entry)
    /\ syncer' = "wait"
    /\ UNCHANGED <<pipeVars, worker, delayVars, entry, done, endVars, kernelVars, tableVars,
                   scanVars, histVars>>

\* Mutant of handleDelayEntry: the variable is not set to nil afterwards.
handleDelayKeeps ==
    /\ syncer = "drain" /\ entry # None /\ ~ AfterLastTime(entry)
    /\ \E p \in getProcessByAddr(PacketAddr[entry]) :
          ledger' = Append(ledger, [pkt |-> entry, pid |-> p])
    /\ UNCHANGED <<pipeVars, worker, delayVars, syncer, entry, done, lost, kernelVars, tableVars,
                   scanVars, histVars>>

\* The syncer's lookups and its charge are one step: what it looks at is changed
\* by Rescan, which the syncer itself runs, and by Cleanup, which a lookup sees
\* or does not see as a whole.
handleDelayEntry ==
    /\ syncer = "drain" /\ entry # None /\ ~ AfterLastTime(entry)
    /\ \/ \E p \in getProcessByAddr(PacketAddr[entry]) :
             /\ ledger' = Append(ledger, [pkt |-> entry, pid |-> p])
             /\ UNCHANGED lost
       \/ /\ getProcessByAddr(PacketAddr[entry]) = {}
          /\ giveUp(entry, "unresolved")
          /\ UNCHANGED ledger
    /\ entry' = None /\ gone(entry)
    /\ UNCHANGED <<pipeVars, worker, delayQueue, syncer, done, kernelVars, tableVars, scanVars,
                   histVars>>

SyncerExit ==
    /\ syncer = "wait" /\ done
    /\ syncer' = "exit"
    /\ UNCHANGED <<pipeVars, worker, delayVars, entry, done, endVars, kernelVars, tableVars,
                   scanVars, histVars>>

-----------------------------------------------------------------------------
\* Stop, called by the user or by the timer of captureTimeout.
Stop ==
    /\ ~ done /\ done' = TRUE
    /\ UNCHANGED <<pipeVars, worker, delayVars, syncer, entry, endVars, kernelVars, tableVars,
                   scanVars, histVars>>

Disturb ==
    /\ changes < MaxChanges /\ changes' = changes + 1
    /\ quiet' = FALSE

\* The goroutine of New; it does not stop with ctx.
Clean ==
    /\ Disturb
    /\ CleanupStep
    /\ UNCHANGED <<pipeVars, worker, delayVars, syncer, entry, done, endVars, kernelVars,
                   claimVars>>

KernelChanges ==
    /\ Disturb
    /\ KernelStep
    /\ since' = [c \in Conns |-> since[c] \cup holders'[c]]
    /\ base' = [c \in Conns |-> base[c] \cup holders'[c]]
    /\ liable' = [m \in Packets |->
                     IF m \in wire THEN liable[m] ELSE liable[m] \cup HeldLately(m)']
    /\ UNCHANGED <<pipeVars, worker, delayVars, syncer, entry, done, endVars, tableVars, scanVars>>

DeviceStep(d) ==
    \/ \E m \in Packets : Capture(d, m)
    \/ CaptureExit(d)
    \/ Receive(d) \/ enqueue(d) \/ incrCounter(d) \/ ForwarderExit(d)

WorkerStep(w) ==
    \/ dequeue(w) \/ WorkerExit(w)
    \/ LookupInode(w) \/ LookupProcess(w) \/ Charge(w) \/ pushDelayQueue(w)

SyncerStep ==
    \/ FirstRescan \/ Tick \/ Scan \/ ScanError \/ Commit \/ EndRescan
    \/ consumeDelayQueue \/ handleDelayEntry \/ DrainEnds \/ SyncerExit

Next ==
    \/ \E d \in Devices : DeviceStep(d)
    \/ \E w \in Workers : WorkerStep(w)
    \/ SyncerStep
    \/ Stop \/ Clean \/ KernelChanges

Spec == Init /\ [][Next]_vars

\* Every goroutine runs when it can. A select with several ready cases chooses
\* among them at random, so a case that is ready again and again is taken: the
\* Done case of the syncer, which competes with the ticker, is strongly fair.
\* Packets, kernel and Stop are not forced.
Fairness ==
    /\ \A d \in Devices :
          /\ WF_vars(CaptureExit(d))
          /\ WF_vars(Receive(d) \/ enqueue(d) \/ incrCounter(d) \/ ForwarderExit(d))
    /\ \A w \in Workers :
          /\ WF_vars(dequeue(w) \/ LookupInode(w) \/ LookupProcess(w) \/ Charge(w)
                     \/ pushDelayQueue(w))
          /\ SF_vars(WorkerExit(w))
    /\ WF_vars(FirstRescan \/ Tick \/ Scan \/ Commit \/ EndRescan \/ consumeDelayQueue
               \/ handleDelayEntry \/ DrainEnds)
    /\ SF_vars(SyncerExit)

FairSpec == Spec /\ Fairness

-----------------------------------------------------------------------------
(* Properties.                                                             *)

Positions(s, m) == {i \in DOMAIN s : s[i] = m}

Charges(m) == {i \in DOMAIN ledger : ledger[i].pkt = m}

GivenUp(m) == {r \in lost : r.pkt = m}

\* The places a packet is in.
Places(m) ==
    ({"wire"} \X (wire \cap {m}))
    \cup ({"packetChan"} \X UNION {{d} \X Positions(packetChan[d], m) : d \in Devices})
    \cup ({"forwarder"} \X {d \in Devices : forwarder[d].pkt = m})
    \cup ({"packetQueue"} \X Positions(packetQueue, m))
    \cup ({"worker"} \X {w \in Workers : worker[w].pkt = m})
    \cup ({"delayQueue"} \X Positions(delayQueue, m))
    \cup ({"entry"} \X ({entry} \cap {m}))
    \cup ({"ledger"} \X Charges(m))
    \cup ({"lost"} \X GivenUp(m))

Given == {r.pkt : r \in lost}

A == INSTANCE Account WITH
        outside <- wire,
        charges <- ledger,
        dropped <- Given,
        held <- base

\* Netflow implements Account: seen from outside, every step of a queue, a worker,
\* the syncer, a scan or the kernel is nothing, or takes one packet in, or
\* settles one packet that was not settled, on a process that is liable for it, or
\* changes who is liable for packets to come; nothing that was settled is ever
\* taken back.
ImplementsAccount == A!Spec

\* No packet is charged twice, charged and dropped, or forgotten: through two
\* channels, a forwarder, the workers, the delay queue and the entry that the
\* syncer keeps from one tick to the next, it is always in exactly one place.
EachPacketOnce == \A m \in Packets : Cardinality(Places(m)) = 1

\* Whoever is charged for a packet has held a socket with its address pair or
\* the mirrored one, and not only in the past: when the packet was captured or
\* later, or since the scan began that was in use at its capture. The inode, the
\* pid and the charge are looked up and made at three different moments, with
\* rescans and cleanups between them, or once more after a delay (netflow.go:811).
ChargedToOwner ==
    \A i \in DOMAIN ledger : ledger[i].pid \in liable[ledger[i].pkt]

Counting == {d \in Devices : forwarder[d].pc = "count"}

\* Packets that left packetQueue, by where they went.
Handled ==
    {m \in Packets : \/ \E w \in Workers : worker[w].pkt = m
                     \/ Positions(delayQueue, m) # {}
                     \/ entry = m
                     \/ Charges(m) # {}
                     \/ \E r \in GivenUp(m) : r.why \notin {"chan", "queue"}}

\* LoadCounter is the number of packets that were put into packetQueue, less the
\* ones whose forwarder is between the send and the increment; it lags behind
\* the workers and never runs ahead of the queue.
CounterExact ==
    counter + Cardinality(Counting) = Len(packetQueue) + Cardinality(Handled)

Connected(m) ==
    \E c \in Conns : sock[c] = "open" /\ Uses(c, PacketAddr[m])

\* A packet that was delayed before a rescan began, whose connection is accepted
\* and open, is not given up after that rescan, unless the kernel changed or the
\* cleaner ran meanwhile: one retry is enough.
DelayedIsFound ==
    [][\A m \in Packets :
          /\ entry = m /\ entry' = None
          /\ stamp[m] = "before" /\ quiet /\ Connected(m)
          /\ \A c \in Conns : sock[c] # "pending"
          => Len(ledger') = Len(ledger) + 1]_vars

\* Once a packet is captured it is charged or given up, or netflow is stopped:
\* no packet waits for ever in a queue or in the syncer's hand.
PacketsSettle ==
    \A m \in Packets :
        m \notin wire ~> (Charges(m) # {} \/ GivenUp(m) # {} \/ done)

\* After Stop every goroutine of the pipeline ends, whatever it was doing.
StopEndsAll ==
    done ~> /\ syncer = "exit"
            /\ \A w \in Workers : worker[w].pc = "exit"
            /\ \A d \in Devices : ~ capturing[d] /\ forwarder[d].pc = "exit"

\* README.md:166, of WithQueueSize: "set pcap queue size. if the queue is full,
\* new packet is thrown away." (What the code does instead: the channels are
\* made with the default size before the option runs.)
QueueWithinConfigured == Len(packetQueue) <= qsize
=============================================================================
