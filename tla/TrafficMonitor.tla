---------------------------- MODULE TrafficMonitor ----------------------------
(***************************************************************************)
(* TrafficMonitor (utils/helper.go), which the second agent uses: one      *)
(* goroutine moves the packets of a port from pcap to a channel, one adds  *)
(* their lengths to TotalTxBytes, and GetUploadTraffic takes the sum and   *)
(* sets it to zero.  Both read TotalTxBytes and write it later, and hold   *)
(* the mutex meanwhile.  A packet counts as one byte here.                 *)
(***************************************************************************)
EXTENDS Integers

CONSTANTS
    MonitorCap,     \* capacity of packetChan, 100 in the code
    MaxPackets      \* bound: packets that pcap delivers

ASSUME MonitorAssumption == MonitorCap \in Nat \ {0} /\ MaxPackets \in Nat

VARIABLES
    monitor,        \* "none", or "open" after NewTrafficMonitor
    delivered,      \* packets that pcap delivered
    hand,           \* packets in the hand of the first goroutine
    packetChan,     \* packets in the channel
    mu,             \* the mutex: "free", or who holds it
    adding,         \* where processPackets is: "range", "lock" or "add"
    old,            \* the TotalTxBytes that it is adding to
    uploadBytes,    \* the TotalTxBytes that GetUploadTraffic has read
    ignored,        \* packets without a network or transport layer
    TotalTxBytes,
    uploaded        \* what GetUploadTraffic returned, in all

countVars   == <<mu, adding, old, uploadBytes, TotalTxBytes, uploaded>>
monitorVars == <<monitor, delivered, hand, packetChan, ignored, countVars>>

MonitorTypeOK ==
    /\ monitor \in {"none", "open"}
    /\ {delivered, ignored, TotalTxBytes, uploaded, old, uploadBytes} \subseteq 0 .. MaxPackets
    /\ hand \in {0, 1} /\ packetChan \in 0 .. MonitorCap
    /\ mu \in {"free", "adder", "getter"} /\ adding \in {"range", "lock", "add"}

MonitorInit ==
    /\ monitor = "none"
    /\ delivered = 0 /\ hand = 0 /\ packetChan = 0 /\ ignored = 0
    /\ mu = "free" /\ adding = "range" /\ old = 0 /\ uploadBytes = 0
    /\ TotalTxBytes = 0 /\ uploaded = 0

NewTrafficMonitor ==
    /\ monitor = "none" /\ monitor' = "open"
    /\ UNCHANGED <<delivered, hand, packetChan, ignored, countVars>>

\* for packet := range packetSource.Packets()
Deliver ==
    /\ monitor = "open" /\ hand = 0
    /\ delivered < MaxPackets /\ delivered' = delivered + 1
    /\ hand' = 1
    /\ UNCHANGED <<monitor, packetChan, ignored, countVars>>

\* monitor.packetChan <- packet: a full channel blocks.
Forward ==
    /\ hand = 1 /\ packetChan < MonitorCap
    /\ hand' = 0 /\ packetChan' = packetChan + 1
    /\ UNCHANGED <<monitor, delivered, ignored, countVars>>

\* Mutant of Lock: the mutex is not locked.
LockNothing(who) == mu' = who

Lock(who) == mu = "free" /\ mu' = who

Unlock == mu' = "free"

\* for packet := range tm.packetChan
NextPacket ==
    /\ adding = "range"
    /\ packetChan > 0 /\ packetChan' = packetChan - 1
    /\ \/ adding' = "lock" /\ UNCHANGED ignored
       \/ ignored' = ignored + 1 /\ UNCHANGED adding
    /\ UNCHANGED <<monitor, delivered, hand, mu, old, uploadBytes, TotalTxBytes, uploaded>>

\* TotalTxBytes += n: it is read ...
ReadTotal ==
    /\ adding = "lock" /\ adding' = "add"
    /\ Lock("adder")
    /\ old' = TotalTxBytes
    /\ UNCHANGED <<monitor, delivered, hand, packetChan, ignored, uploadBytes, TotalTxBytes,
                   uploaded>>

\* ... and written.
AddToTotal ==
    /\ adding = "add" /\ adding' = "range"
    /\ TotalTxBytes' = old + 1 /\ old' = 0
    /\ Unlock
    /\ UNCHANGED <<monitor, delivered, hand, packetChan, ignored, uploadBytes, uploaded>>

processPackets == NextPacket \/ ReadTotal \/ AddToTotal

\* GetUploadTraffic reads the sum ...
GetUploadTraffic ==
    /\ Lock("getter")
    /\ uploadBytes' = TotalTxBytes
    /\ UNCHANGED <<monitor, delivered, hand, packetChan, ignored, adding, old, TotalTxBytes,
                   uploaded>>

\* ... sets it to zero, and returns what it read.
ResetTotal ==
    /\ TotalTxBytes' = 0
    /\ uploaded' = uploaded + uploadBytes /\ uploadBytes' = 0
    /\ Unlock
    /\ UNCHANGED <<monitor, delivered, hand, packetChan, ignored, adding, old>>

MonitorStep == Deliver \/ Forward \/ processPackets

\* The packet that processPackets has taken from the channel and not yet added.
InLoop == IF adding = "range" THEN 0 ELSE 1

\* utils/helper.go:157: GetUploadTraffic returns the traffic since its last call.
\* Over all calls every packet is counted once, although the sum is read, added to
\* and set to zero in steps of two goroutines: a packet is on its way, in the sum,
\* was returned by one call, or has no layers to count (utils/helper.go:147-165).
UploadOnce ==
    delivered = hand + packetChan + InLoop + TotalTxBytes + uploaded + ignored
=============================================================================
