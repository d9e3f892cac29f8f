------------------------------- MODULE CoreProofs -------------------------------
(***************************************************************************)
(* Proofs about the two agents, for every capacity of the channel of the   *)
(* traffic monitor and every number of packets and signals.                *)
(*                                                                         *)
(* MinuteStamps bounds the reports of a minute by what was owed when it    *)
(* began, but a report may be sent long after its tick.  Allowance follows *)
(* a tick from the channel of the ticker through the ranking goroutine to  *)
(* its report: ticks on their way and reports that were stamped are        *)
(* together no more than the ticks there have been to account for.         *)
(*                                                                         *)
(* UploadOnce rests on the mutex: who holds a figure that was read from    *)
(* TotalTxBytes and is still to be written back, or to be returned, is the *)
(* one who holds the mutex, so that the figure is still true (Exclusive).  *)
(***************************************************************************)
EXTENDS Core, TLAPS

\* A tick waits in the channel of the ticker.
Waiting == IF tick THEN 1 ELSE 0

\* A tick was taken, and its report does not bear a minute yet.
AtWork == IF ranking \in {"rank", "upload", "reset"} THEN 1 ELSE 0

\* The tick of this minute.
Due == IF ticked THEN 1 ELSE 0

Allowance == stamped + Waiting + AtWork <= owed + Due

\* What was read of TotalTxBytes under the mutex is what it holds.
Exclusive ==
    /\ adding = "add" => mu = "adder" /\ old = TotalTxBytes
    /\ ranking = "reset" => mu = "getter" /\ uploadBytes = TotalTxBytes

\* The inductive invariant.
CoreInv == TypeOK /\ UploadOnce /\ Exclusive /\ Allowance

\* What TypeOK says of the variables of Core itself.
AgentTypeOK ==
    /\ agent \in Agents
    /\ main \in {"new", "started", "notified", "select", "return",
                 "exited", "failed", "killed"}
    /\ handler \in {"none", "range", "cancel", "returned"}
    /\ ranking \in {"none", "select", "rank", "loop", "upload", "reset", "report", "returned"}
    /\ sigch \in {0, 1}
    /\ tick \in BOOLEAN /\ cancelled \in BOOLEAN /\ ticked \in BOOLEAN
    /\ capture \in {"no", "running", "stopped"}
    /\ signals \in 0 .. MaxSignals
    /\ stamped \in Nat /\ owed \in 0 .. 2

\* At most one tick of each kind.
LEMMA Sizes == {Waiting, AtWork, Due} \subseteq {0, 1}
  BY DEF Waiting, AtWork, Due

\* TypeOK is about the monitor and about the agent, one after the other.
LEMMA TypeParts == TypeOK <=> MonitorTypeOK /\ AgentTypeOK
  BY DEF TypeOK, AgentTypeOK

-----------------------------------------------------------------------------
(* The traffic monitor.                                                    *)

\* A step of the monitor beside the agent, or of the agent on the monitor, or of
\* the agent alone.
MonitorAction ==
    \/ MonitorStep /\ ranking' = ranking
    \/ NewTrafficMonitor /\ ranking' # "reset"
    \/ GetUploadTraffic
    \/ ranking = "reset" /\ ResetTotal /\ ranking' # "reset"
    \/ UNCHANGED monitorVars /\ (ranking' = "reset" => ranking = "reset")

\* What the monitor has of a packet, in any step of it: a packet is moved, or the
\* sum is taken, never both and never a packet twice. That no figure exceeds the
\* packets delivered follows from UploadOnce.
LEMMA MonitorKeeps ==
    ASSUME MonitorTypeOK, UploadOnce, Exclusive, MonitorAction
    PROVE  MonitorTypeOK' /\ UploadOnce' /\ Exclusive'
<1>0. /\ MonitorCap \in Nat /\ MaxPackets \in Nat
      /\ delivered \in 0 .. MaxPackets /\ ignored \in 0 .. MaxPackets
      /\ TotalTxBytes \in 0 .. MaxPackets /\ uploaded \in 0 .. MaxPackets
      /\ old \in 0 .. MaxPackets /\ uploadBytes \in 0 .. MaxPackets
      /\ hand \in {0, 1} /\ packetChan \in 0 .. MonitorCap
      /\ mu \in {"free", "adder", "getter"} /\ adding \in {"range", "lock", "add"}
      /\ delivered = hand + packetChan + InLoop + TotalTxBytes + uploaded + ignored
      /\ InLoop = IF adding = "range" THEN 0 ELSE 1
  BY MonitorAssumption DEF MonitorTypeOK, UploadOnce, InLoop
<1>1. CASE UNCHANGED monitorVars /\ (ranking' = "reset" => ranking = "reset")
  <2>1. UNCHANGED <<monitor, delivered, hand, packetChan, ignored, mu, adding, old, uploadBytes,
                    TotalTxBytes, uploaded>>
    BY <1>1 DEF monitorVars, countVars
  <2>2. QED
    BY <1>1, <2>1 DEF MonitorTypeOK, UploadOnce, InLoop, Exclusive
<1>2. CASE NewTrafficMonitor /\ ranking' # "reset"
  BY <1>0, <1>2 DEF NewTrafficMonitor, countVars, MonitorTypeOK, UploadOnce, InLoop, Exclusive
<1>3. CASE Deliver /\ ranking' = ranking
  BY <1>0, <1>3 DEF Deliver, countVars, MonitorTypeOK, UploadOnce, InLoop, Exclusive
<1>4. CASE Forward /\ ranking' = ranking
  BY <1>0, <1>4 DEF Forward, countVars, MonitorTypeOK, UploadOnce, InLoop, Exclusive
<1>5. CASE NextPacket /\ ranking' = ranking
  BY <1>0, <1>5 DEF NextPacket, MonitorTypeOK, UploadOnce, InLoop, Exclusive
<1>6. CASE ReadTotal /\ ranking' = ranking
  BY <1>0, <1>6 DEF ReadTotal, Lock, MonitorTypeOK, UploadOnce, InLoop, Exclusive
<1>7. CASE AddToTotal /\ ranking' = ranking
  <2>1. mu = "adder" /\ old = TotalTxBytes /\ ranking # "reset"
    BY <1>7 DEF AddToTotal, Exclusive
  <2>2. QED
    BY <1>0, <1>7, <2>1 DEF AddToTotal, Unlock, MonitorTypeOK, UploadOnce, InLoop, Exclusive
<1>8. CASE GetUploadTraffic
  BY <1>0, <1>8 DEF GetUploadTraffic, Lock, MonitorTypeOK, UploadOnce, InLoop, Exclusive
<1>9. CASE ranking = "reset" /\ ResetTotal /\ ranking' # "reset"
  <2>1. mu = "getter" /\ uploadBytes = TotalTxBytes /\ adding # "add"
    BY <1>9 DEF Exclusive
  <2>2. QED
    BY <1>0, <1>9, <2>1 DEF ResetTotal, Unlock, MonitorTypeOK, UploadOnce, InLoop, Exclusive
<1>10. QED
  BY <1>1, <1>2, <1>3, <1>4, <1>5, <1>6, <1>7, <1>8, <1>9
  DEF MonitorAction, MonitorStep, processPackets

-----------------------------------------------------------------------------
(* The agent.                                                              *)

\* Nothing was delivered, and no tick is owed.
LEMMA CoreInit == Init => CoreInv
<1> SUFFICES ASSUME Init PROVE CoreInv
  OBVIOUS
<1>1. MonitorTypeOK /\ UploadOnce /\ Exclusive
  BY MonitorAssumption DEF Init, MonitorInit, MonitorTypeOK, UploadOnce, InLoop, Exclusive
<1>2. AgentTypeOK
  <2>1. signals \in 0 .. MaxSignals
    BY CoreAssumption DEF Init
  <2>2. tick \in BOOLEAN /\ cancelled \in BOOLEAN /\ ticked \in BOOLEAN
    BY Zenon DEF Init
  <2>3. owed \in 0 .. 2
    BY DEF Init
  <2>4. QED
    BY <2>1, <2>2, <2>3 DEF Init, AgentTypeOK
<1>3. stamped = 0 /\ owed = 0 /\ Waiting = 0 /\ AtWork = 0 /\ Due = 1
  BY DEF Init, Waiting, AtWork, Due
<1>4. Allowance
  BY <1>3 DEF Allowance
<1>5. QED
  BY <1>1, <1>2, <1>4, TypeParts DEF CoreInv

\* Every step leaves the monitor alone or is one of its own.
LEMMA StepMonitor ==
    ASSUME CoreInv, [Next]_vars
    PROVE  MonitorTypeOK' /\ UploadOnce' /\ Exclusive'
<1>1. MonitorAction
  <2>1. CASE Upload
    BY <2>1 DEF Upload, MonitorAction
  <2>2. CASE Uploaded
    BY <2>2 DEF Uploaded, stamp, MonitorAction
  <2>3. CASE OpenMonitor
    BY <2>3 DEF OpenMonitor, Ranked, MonitorAction
  <2>4. CASE MonitorRuns
    BY <2>4 DEF MonitorRuns, MonitorAction
  <2>5. CASE \/ StartNetflow \/ Notify \/ Spawn \/ MainSignal \/ MainTimeout
             \/ DeferredCancel \/ DeferredStop \/ TakeSignal \/ CancelReports
             \/ RankingDone \/ RankingTick \/ Rank \/ LoopTick \/ Reported
             \/ Signal \/ Ticker \/ Minute \/ CaptureTimeout \/ PprofFails \/ UNCHANGED vars
    BY <2>5 DEF MonitorAction, vars, StartNetflow, Notify, Spawn, MainSignal, MainTimeout,
           DeferredCancel, DeferredStop, TakeSignal, CancelReports, RankingDone, RankingTick,
           Rank, stamp, LoopTick, Reported, Signal, Ticker, Minute, CaptureTimeout, PprofFails
  <2>6. QED
    BY <2>1, <2>2, <2>3, <2>4, <2>5 DEF Next
<1>2. QED
  BY <1>1, MonitorKeeps, TypeParts DEF CoreInv

\* Start, handleSignals and the surroundings: no tick and no report is involved.
Bystander ==
    \/ StartNetflow \/ Notify \/ Spawn
    \/ MainSignal \/ MainTimeout \/ DeferredCancel \/ DeferredStop
    \/ TakeSignal \/ CancelReports
    \/ RankingDone \/ Reported
    \/ Signal \/ MonitorRuns \/ CaptureTimeout \/ PprofFails

\* Such a step leaves the allowance alone.
LEMMA BystanderStep ==
    ASSUME CoreInv, Bystander \/ UNCHANGED vars
    PROVE  AgentTypeOK' /\ Allowance'
<1>0. AgentTypeOK /\ Allowance
  BY TypeParts DEF CoreInv
<1>1. /\ UNCHANGED <<agent, tick, ticked, stamped, owed>>
      /\ \/ ranking' = ranking
         \/ {ranking, ranking'} \cap {"rank", "upload", "reset"} = {}
  BY DEF Bystander, vars, clockVars, StartNetflow, Notify, Spawn, MainSignal, MainTimeout,
         DeferredCancel, DeferredStop, TakeSignal, CancelReports, RankingDone, Reported, Signal,
         MonitorRuns, CaptureTimeout, PprofFails
<1>2. /\ main' \in {"new", "started", "notified", "select", "return",
                    "exited", "failed", "killed"}
      /\ handler' \in {"none", "range", "cancel", "returned"}
      /\ ranking' \in {"none", "select", "rank", "loop", "upload", "reset", "report", "returned"}
      /\ sigch' \in {0, 1}
      /\ capture' \in {"no", "running", "stopped"}
      /\ signals' \in 0 .. MaxSignals
  BY <1>0, CoreAssumption
  DEF AgentTypeOK, Bystander, vars, StartNetflow, Notify, Spawn, MainSignal, MainTimeout,
      DeferredCancel, DeferredStop, TakeSignal, CancelReports, RankingDone, Reported, Signal,
      MonitorRuns, CaptureTimeout, PprofFails
<1>3. cancelled' = cancelled \/ cancelled' = TRUE
  BY DEF Bystander, vars, StartNetflow, Notify, Spawn, MainSignal, MainTimeout, DeferredCancel,
         DeferredStop, TakeSignal, CancelReports, RankingDone, Reported, Signal, MonitorRuns,
         CaptureTimeout, PprofFails
<1>4. cancelled' \in BOOLEAN
  BY <1>0, <1>3, Zenon DEF AgentTypeOK
<1>5. AgentTypeOK'
  BY <1>0, <1>1, <1>2, <1>4 DEF AgentTypeOK
<1>6. Allowance'
  BY <1>0, <1>1 DEF Allowance, Waiting, AtWork, Due
<1>7. QED
  BY <1>5, <1>6

\* A tick on its way: from the channel to the goroutine, or to a report; core2
\* drops one with the ticker that it gives up.
LEMMA TickStep ==
    ASSUME CoreInv, RankingTick \/ LoopTick \/ Rank \/ Upload \/ Uploaded \/ OpenMonitor
    PROVE  AgentTypeOK' /\ Allowance'
<1>0. AgentTypeOK /\ Allowance
  BY TypeParts DEF CoreInv
<1>1. /\ UNCHANGED <<agent, handler, sigch, cancelled, capture, signals, owed>>
      /\ main' \in {main, "killed"}
  BY DEF RankingTick, LoopTick, Rank, Upload, Uploaded, OpenMonitor, clockVars
<1>2. CASE RankingTick \/ LoopTick
  <2>1. /\ UNCHANGED <<stamped, ticked>>
        /\ tick = TRUE /\ tick' = FALSE
        /\ ranking \in {"select", "loop"} /\ ranking' \in {"rank", "upload", "reset"}
    BY <1>0, <1>2 DEF RankingTick, LoopTick, clockVars, AgentTypeOK
  <2>2. AgentTypeOK'
    BY <1>0, <1>1, <2>1 DEF AgentTypeOK
  <2>3. Waiting = 1 /\ Waiting' = 0 /\ AtWork = 0 /\ AtWork' = 1 /\ Due' = Due
    BY <2>1 DEF Waiting, AtWork, Due
  <2>4. Allowance'
    BY <1>0, <1>1, <2>1, <2>3, Sizes DEF Allowance, AgentTypeOK
  <2>5. QED
    BY <2>2, <2>4
<1>3. CASE Rank \/ Uploaded
  <2>1. /\ UNCHANGED <<tick, ticked>>
        /\ ranking \in {"rank", "upload", "reset"} /\ ranking' = "report"
        /\ stamped' = stamped + 1
    BY <1>3 DEF Rank, Uploaded, Ranked, stamp
  <2>2. AgentTypeOK'
    BY <1>0, <1>1, <2>1 DEF AgentTypeOK
  <2>3. Waiting' = Waiting /\ AtWork = 1 /\ AtWork' = 0 /\ Due' = Due
    BY <2>1 DEF Waiting, AtWork, Due
  <2>4. Allowance'
    BY <1>0, <1>1, <2>1, <2>3, Sizes DEF Allowance, AgentTypeOK
  <2>5. QED
    BY <2>2, <2>4
<1>4. CASE OpenMonitor
  <2>1. /\ stamped' = stamped /\ tick' = FALSE /\ ticked' = TRUE
        /\ ranking = "rank" /\ ranking' \in {"rank", "loop"}
    BY <1>4 DEF OpenMonitor, Ranked
  <2>2. AgentTypeOK'
    BY <1>0, <1>1, <2>1 DEF AgentTypeOK
  <2>3. Waiting' = 0 /\ AtWork = 1 /\ AtWork' \in {0, 1} /\ Due' = 1
    BY <2>1 DEF Waiting, AtWork, Due
  <2>4. stamped \in Nat /\ owed \in 0 .. 2 /\ owed' = owed /\ stamped' = stamped
    BY <1>0, <1>1, <2>1 DEF AgentTypeOK
  <2>5. stamped + 1 <= owed + 1
    BY <1>0, <2>3, <2>4, Sizes DEF Allowance
  <2>6. Allowance'
    <3> DEFINE a == AtWork'
    <3>1. a \in {0, 1} /\ stamped \in Nat /\ owed \in Nat
      BY <2>3, <2>4
    <3> HIDE DEF a
    <3>2. stamped + 0 + a <= owed + 1
      BY <3>1, <2>5
    <3>3. QED
      BY <2>3, <2>4, <3>2 DEF Allowance, a
  <2>7. QED
    BY <2>2, <2>6
<1>5. CASE Upload
  <2>1. /\ UNCHANGED <<tick, ticked, stamped, owed>>
        /\ ranking = "upload" /\ ranking' = "reset"
    BY <1>5 DEF Upload, clockVars
  <2>2. AgentTypeOK'
    BY <1>0, <1>1, <2>1 DEF AgentTypeOK
  <2>3. Waiting' = Waiting /\ AtWork = 1 /\ AtWork' = 1 /\ Due' = Due
    BY <2>1 DEF Waiting, AtWork, Due
  <2>4. Allowance'
    BY <1>0, <2>1, <2>3 DEF Allowance
  <2>5. QED
    BY <2>2, <2>4
<1>6. QED
  BY <1>2, <1>3, <1>4, <1>5

\* The ticker ticks once in a minute, and a minute begins with what is on its way.
LEMMA ClockStep ==
    ASSUME CoreInv, Ticker \/ Minute
    PROVE  AgentTypeOK' /\ Allowance'
<1>0. AgentTypeOK /\ Allowance
  BY TypeParts DEF CoreInv
<1>1. UNCHANGED <<agent, main, handler, ranking, sigch, cancelled, capture, signals>>
  BY DEF Ticker, Minute
<1>2. CASE Ticker
  <2>1. /\ UNCHANGED <<stamped, owed>>
        /\ ticked = FALSE /\ ticked' = TRUE /\ tick' = TRUE
    BY <1>0, <1>2 DEF Ticker, AgentTypeOK
  <2>2. AgentTypeOK'
    BY <1>0, <1>1, <2>1 DEF AgentTypeOK
  <2>3. Waiting' = 1 /\ AtWork' = AtWork /\ Due = 0 /\ Due' = 1
    BY <1>1, <2>1 DEF Waiting, AtWork, Due
  <2>4. Allowance'
    BY <1>0, <1>1, <2>1, <2>3, Sizes DEF Allowance, AgentTypeOK
  <2>5. QED
    BY <2>2, <2>4
<1>3. CASE Minute
  <2>1. /\ tick' = tick /\ ticked' = FALSE /\ stamped' = 0
        /\ owed' = Waiting + AtWork
    BY <1>3 DEF Minute, Waiting, AtWork
  <2>2. AgentTypeOK'
    <3>1. owed' \in 0 .. 2
      BY <2>1, Sizes
    <3>2. tick' \in BOOLEAN /\ ticked' \in BOOLEAN /\ stamped' \in Nat
      <4>1. tick \in BOOLEAN  BY <1>0 DEF AgentTypeOK
      <4>2. QED  BY <2>1, <4>1
    <3>3. /\ agent' = agent /\ main' = main /\ handler' = handler /\ ranking' = ranking
          /\ sigch' = sigch /\ cancelled' = cancelled /\ capture' = capture /\ signals' = signals
      BY <1>1
    <3>4. QED
      BY <1>0, <3>1, <3>2, <3>3 DEF AgentTypeOK
  <2>3. Waiting' = Waiting /\ AtWork' = AtWork /\ Due' = 0
    BY <1>1, <2>1 DEF Waiting, AtWork, Due
  <2>4. Allowance'
    BY <2>1, <2>3, Sizes DEF Allowance
  <2>5. QED
    BY <2>2, <2>4
<1>4. QED
  BY <1>2, <1>3

-----------------------------------------------------------------------------
(* Theorems.                                                               *)

\* Ticks are accounted for until their report is sent, and packets until their
\* bytes are returned (core/blocking.go:63-180, core2/blocking.go, utils/helper.go).
THEOREM CoreInvariant == Spec => []CoreInv
<1>1. Init => CoreInv
  BY CoreInit
<1>2. CoreInv /\ [Next]_vars => CoreInv'
  <2> SUFFICES ASSUME CoreInv, [Next]_vars PROVE CoreInv'
    OBVIOUS
  <2>1. MonitorTypeOK' /\ UploadOnce' /\ Exclusive'
    BY StepMonitor
  <2>2. AgentTypeOK' /\ Allowance'
    BY BystanderStep, TickStep, ClockStep DEF Next, Bystander
  <2>3. QED
    BY <2>1, <2>2, TypeParts DEF CoreInv, TypeOK, AgentTypeOK
<1>3. QED
  BY <1>1, <1>2, PTL DEF Spec

\* No channel holds more than it has room for, and no counter of the monitor
\* exceeds the packets there were.
THEOREM TypeCorrect == Spec => []TypeOK
<1>1. CoreInv => TypeOK
  BY DEF CoreInv
<1>2. QED
  BY <1>1, CoreInvariant, PTL

\* A minute bears one report beside the ones that were owed when it began, however
\* slow the server is (core/blocking.go:142-152).
THEOREM StampsAreBounded == Spec => []MinuteStamps
<1>1. CoreInv => MinuteStamps
  BY DEF CoreInv, TypeOK, Allowance, Waiting, AtWork, Due, MinuteStamps
<1>2. QED
  BY <1>1, CoreInvariant, PTL

\* Over all calls GetUploadTraffic returns every packet once, because it and
\* processPackets hold the mutex from the read of the sum to its write
\* (utils/helper.go:147-165).
THEOREM UploadsAreExact == Spec => []UploadOnce
<1>1. CoreInv => UploadOnce
  BY DEF CoreInv
<1>2. QED
  BY <1>1, CoreInvariant, PTL
=============================================================================
