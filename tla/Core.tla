--------------------------------- MODULE Core ---------------------------------
(***************************************************************************)
(* The agents around netflow: core.Start, which cmd/main.go runs, and      *)
(* core2.StartOut.  Both start netflow and wait for a signal or a timeout; *)
(* one goroutine waits for a signal on the same channel and cancels the    *)
(* context of the reports; one ranks the processes on a tick and reports   *)
(* to a server.  In core it does so on every tick.  In core2 it ranks      *)
(* once, and then reports the traffic of a port (TrafficMonitor) on every  *)
(* tick of a second ticker, without looking at the context again.          *)
(* The process ends when Start returns, or at once when log.Fatal is       *)
(* called or a signal arrives that nobody asked for yet.                   *)
(*                                                                         *)
(* A report is stamped with the minute in which it is sent.  A ticker of   *)
(* 60 seconds ticks once in every minute of the clock.                     *)
(***************************************************************************)
EXTENDS TrafficMonitor

CONSTANTS
    Agents,         \* which of "core" and "core2" are considered
    recentSeconds,  \* recentSeconds[a]: the window it ranks, 5 and 60 in the code
    maxRingSize,    \* the largest window that GetProcessRank accepts, 61
    MaxSignals      \* bound: signals sent

ASSUME CoreAssumption ==
    /\ Agents \subseteq {"core", "core2"}
    /\ recentSeconds \in [Agents -> Nat] /\ maxRingSize \in Nat /\ MaxSignals \in Nat
    /\ \A a \in Agents : recentSeconds[a] <= maxRingSize   \* GetProcessRank never fails

VARIABLES
    agent,      \* which agent this is
    main,       \* where Start is
    handler,    \* where handleSignals is
    ranking,    \* where processRanking is
    sigch,      \* signals in the channel, whose capacity is 1
    tick,       \* a tick is in the channel of the ticker, whose capacity is 1
    cancelled,  \* ctx of the reports is done
    capture,    \* whether netflow captures
    signals,    \* signals sent so far
    ticked,     \* the ticker has ticked in this minute of the clock
    stamped,    \* reports that bear this minute
    owed        \* ticks of earlier minutes whose reports were not yet stamped
                \* when this minute began

clockVars == <<ticked, stamped, owed>>

vars == <<agent, main, handler, ranking, sigch, tick, cancelled, capture, signals, clockVars,
          monitorVars>>

\* What parseResponse may return: nil, an error of reading or decoding the body,
\* an HttpError for a status outside 200 .. 299, a ServerError for a code that is
\* not serverSuccessCode.
parseResponse == {"nil", "read", "json", "HttpError", "ServerError"}

\* ... or the request was not answered at all.
doExecuteRequest == parseResponse \cup {"transport"}

Over == main \in {"exited", "failed", "killed"}

\* Type invariant: every goroutine is at one of its blocking points, and neither
\* channel holds more than it has room for.
TypeOK ==
    /\ MonitorTypeOK
    /\ agent \in Agents
    /\ main \in {"new", "started", "notified", "select", "return",
                 "exited", "failed", "killed"}
    /\ handler \in {"none", "range", "cancel", "returned"}
    /\ ranking \in {"none", "select", "rank", "loop", "upload", "reset", "report", "returned"}
    /\ sigch \in {0, 1}
    /\ tick \in BOOLEAN /\ cancelled \in BOOLEAN /\ ticked \in BOOLEAN
    /\ capture \in {"no", "running", "stopped"}
    /\ signals \in 0 .. MaxSignals
    /\ stamped \in Nat /\ owed \in 0 .. 2

Init ==
    /\ agent \in Agents
    /\ main = "new" /\ handler = "none" /\ ranking = "none"
    /\ sigch = 0 /\ tick = FALSE /\ cancelled = FALSE
    /\ capture = "no" /\ signals = 0
    /\ ticked = TRUE /\ stamped = 0 /\ owed = 0
    /\ MonitorInit

-----------------------------------------------------------------------------
(* Start.                                                                  *)

\* netflow.New and nf.Start. After an error log.Fatalf ends the process: the
\* nf.Stop below it is not reached.
StartNetflow ==
    /\ main = "new"
    /\ \/ main' = "started" /\ capture' = "running"
       \/ main' = "failed" /\ UNCHANGED capture
    /\ UNCHANGED <<agent, handler, ranking, sigch, tick, cancelled, signals, clockVars, monitorVars>>

\* The ticker, whose first tick is in the next minute, and signal.Notify.
Notify ==
    /\ main = "started" /\ main' = "notified"
    /\ UNCHANGED <<agent, handler, ranking, sigch, tick, cancelled, capture, signals, clockVars,
                   monitorVars>>

Spawn ==
    /\ main = "notified" /\ main' = "select"
    /\ handler' = "range" /\ ranking' = "select"
    /\ UNCHANGED <<agent, sigch, tick, cancelled, capture, signals, clockVars, monitorVars>>

\* Mutant of MainSignal: the loop that is commented out around the select.
MainLoops ==
    /\ main = "select" /\ sigch > 0
    /\ sigch' = sigch - 1
    /\ UNCHANGED <<agent, main, handler, ranking, tick, cancelled, capture, signals, clockVars,
                   monitorVars>>

MainSignal ==
    /\ main = "select" /\ sigch > 0
    /\ sigch' = sigch - 1
    /\ main' = "return"
    /\ UNCHANGED <<agent, handler, ranking, tick, cancelled, capture, signals, clockVars,
                   monitorVars>>

MainTimeout ==
    /\ main = "select" /\ main' = "return"
    /\ UNCHANGED <<agent, handler, ranking, sigch, tick, cancelled, capture, signals, clockVars,
                   monitorVars>>

\* The deferred calls, in their order: first cancel, then nf.Stop and the end.
DeferredCancel ==
    /\ main = "return" /\ ~ cancelled
    /\ cancelled' = TRUE
    /\ UNCHANGED <<agent, main, handler, ranking, sigch, tick, capture, signals, clockVars,
                   monitorVars>>

DeferredStop ==
    /\ main = "return" /\ cancelled
    /\ main' = "exited" /\ capture' = "stopped"
    /\ UNCHANGED <<agent, handler, ranking, sigch, tick, cancelled, signals, clockVars, monitorVars>>

-----------------------------------------------------------------------------
(* handleSignals: it receives from the channel that main waits on.         *)

TakeSignal ==
    /\ ~ Over /\ handler = "range" /\ sigch > 0
    /\ sigch' = sigch - 1 /\ handler' = "cancel"
    /\ UNCHANGED <<agent, main, ranking, tick, cancelled, capture, signals, clockVars, monitorVars>>

\* Mutant of CancelReports: the cancel function is not called.
CancelForgotten ==
    /\ ~ Over /\ handler = "cancel"
    /\ handler' = "returned"
    /\ UNCHANGED <<agent, main, ranking, sigch, tick, cancelled, capture, signals, clockVars,
                   monitorVars>>

CancelReports ==
    /\ ~ Over /\ handler = "cancel"
    /\ handler' = "returned" /\ cancelled' = TRUE
    /\ UNCHANGED <<agent, main, ranking, sigch, tick, capture, signals, clockVars, monitorVars>>

-----------------------------------------------------------------------------
(* processRanking.                                                         *)

RankingDone ==
    /\ ~ Over /\ ranking = "select" /\ cancelled
    /\ ranking' = "returned"
    /\ UNCHANGED <<agent, main, handler, sigch, tick, cancelled, capture, signals, clockVars,
                   monitorVars>>

RankingTick ==
    /\ ~ Over /\ ranking = "select" /\ tick
    /\ tick' = FALSE /\ ranking' = "rank"
    /\ UNCHANGED <<agent, main, handler, sigch, cancelled, capture, signals, clockVars, monitorVars>>

\* GetProcessRank accepts the windows of both agents (CoreAssumption), so that the
\* `continue` on its error is never taken.
Ranked == ~ Over /\ ranking = "rank"

\* reportHandler begins: the minute is read from the clock.
stamp == ranking' = "report" /\ stamped' = stamped + 1

\* core: showTable adds up the rates and reports.
Rank ==
    /\ Ranked /\ agent = "core"
    /\ stamp
    /\ UNCHANGED <<agent, main, handler, sigch, tick, cancelled, capture, signals, ticked, owed,
                   monitorVars>>

\* core2: showTable opens the monitor, or ends the process, and makes a ticker of
\* its own. Nobody receives from the other one any more.
OpenMonitor ==
    /\ Ranked /\ agent = "core2"
    /\ \/ NewTrafficMonitor /\ ranking' = "loop" /\ UNCHANGED main
       \/ main' = "killed" /\ UNCHANGED <<ranking, monitorVars>>
    /\ tick' = FALSE /\ ticked' = TRUE
    /\ UNCHANGED <<agent, handler, sigch, cancelled, capture, signals, stamped, owed>>

\* for range ticker.C
LoopTick ==
    /\ ~ Over /\ ranking = "loop" /\ tick
    /\ tick' = FALSE /\ ranking' = "upload"
    /\ UNCHANGED <<agent, main, handler, sigch, cancelled, capture, signals, clockVars, monitorVars>>

\* The sum of the monitor is taken, in two steps under its mutex ...
Upload ==
    /\ ~ Over /\ ranking = "upload" /\ ranking' = "reset"
    /\ GetUploadTraffic
    /\ UNCHANGED <<agent, main, handler, sigch, tick, cancelled, capture, signals, clockVars>>

\* ... and its rate is reported, beside the figures of the one rank.
Uploaded ==
    /\ ~ Over /\ ranking = "reset"
    /\ ResetTotal
    /\ stamp
    /\ UNCHANGED <<agent, main, handler, sigch, tick, cancelled, capture, signals, ticked, owed>>

\* Mutant of Reported: a failed report ends the goroutine.
ReportAborts ==
    /\ ~ Over /\ ranking = "report"
    /\ \E err \in doExecuteRequest : ranking' = IF err = "nil" THEN "select" ELSE "returned"
    /\ UNCHANGED <<agent, main, handler, sigch, tick, cancelled, capture, signals, clockVars,
                   monitorVars>>

\* Mutant of Reported: a failed report is sent again at once.
ReportRetries ==
    /\ ~ Over /\ ranking = "report"
    /\ \E err \in doExecuteRequest :
          IF err = "nil" THEN ranking' = "select" /\ UNCHANGED stamped ELSE stamp
    /\ UNCHANGED <<agent, main, handler, sigch, tick, cancelled, capture, signals, ticked, owed,
                   monitorVars>>

\* The request has neither a timeout nor a context that anyone cancels; whatever
\* comes back, an error is printed and forgotten.
Reported ==
    /\ ~ Over /\ ranking = "report"
    /\ \E err \in doExecuteRequest : ranking' = IF agent = "core" THEN "select" ELSE "loop"
    /\ UNCHANGED <<agent, main, handler, sigch, tick, cancelled, capture, signals, clockVars,
                   monitorVars>>

-----------------------------------------------------------------------------
(* The surroundings.                                                       *)

\* Mutant of Signal: as if the channel had room for every signal.
SignalUnbounded ==
    /\ ~ Over /\ signals < MaxSignals /\ signals' = signals + 1
    /\ sigch' = sigch + 1
    /\ UNCHANGED <<agent, main, handler, ranking, tick, cancelled, capture, clockVars, monitorVars>>

\* Before Notify a signal kills the process; later the runtime puts it into the
\* channel, or drops it when the channel is full.
Signal ==
    /\ ~ Over /\ signals < MaxSignals /\ signals' = signals + 1
    /\ IF main \in {"new", "started"}
       THEN main' = "killed" /\ UNCHANGED sigch
       ELSE sigch' = 1 /\ UNCHANGED main
    /\ UNCHANGED <<agent, handler, ranking, tick, cancelled, capture, clockVars, monitorVars>>

\* A tick that finds the channel full is dropped.
Ticker ==
    /\ ~ Over /\ main \in {"notified", "select"}
    /\ ~ ticked /\ ticked' = TRUE
    /\ tick' = TRUE
    /\ UNCHANGED <<agent, main, handler, ranking, sigch, cancelled, capture, signals, stamped, owed,
                   monitorVars>>

Minute ==
    /\ ~ Over /\ main \in {"notified", "select"}
    /\ ticked /\ ticked' = FALSE
    /\ stamped' = 0
    /\ owed' = (IF tick THEN 1 ELSE 0) + (IF ranking \in {"rank", "upload", "reset"} THEN 1 ELSE 0)
    /\ UNCHANGED <<agent, main, handler, ranking, sigch, tick, cancelled, capture, signals,
                   monitorVars>>

MonitorRuns ==
    /\ ~ Over /\ MonitorStep
    /\ UNCHANGED <<agent, main, handler, ranking, sigch, tick, cancelled, capture, signals,
                   clockVars>>

\* The part of it that holds the mutex.
AddUp == MonitorRuns /\ adding = "add"

\* captureTimeout: netflow stops itself; nobody here looks at nf.Done.
CaptureTimeout ==
    /\ ~ Over /\ capture = "running" /\ capture' = "stopped"
    /\ UNCHANGED <<agent, main, handler, ranking, sigch, tick, cancelled, signals, clockVars,
                   monitorVars>>

\* The pprof server cannot listen: log.Fatal.
PprofFails ==
    /\ ~ Over /\ main' = "killed"
    /\ UNCHANGED <<agent, handler, ranking, sigch, tick, cancelled, capture, signals, clockVars,
                   monitorVars>>

Next ==
    \/ StartNetflow \/ Notify \/ Spawn
    \/ MainSignal \/ MainTimeout \/ DeferredCancel \/ DeferredStop
    \/ TakeSignal \/ CancelReports
    \/ RankingDone \/ RankingTick \/ Rank \/ OpenMonitor \/ LoopTick
    \/ Upload \/ Uploaded \/ Reported
    \/ Signal \/ Ticker \/ Minute \/ MonitorRuns \/ CaptureTimeout \/ PprofFails

\* Each goroutine runs when it can, and the clock goes on. The select of
\* processRanking chooses among its ready cases at random, hence strong fairness
\* of both; a goroutine that holds the monitor's mutex unlocks it, and sync.Mutex
\* lets nobody wait for ever, hence strong fairness of Upload. Signals, timeouts,
\* packets and the server's answer are not forced.
Fairness ==
    /\ WF_vars(StartNetflow \/ Notify \/ Spawn \/ MainSignal \/ DeferredCancel \/ DeferredStop)
    /\ WF_vars(TakeSignal \/ CancelReports)
    /\ SF_vars(RankingDone) /\ SF_vars(RankingTick)
    /\ WF_vars(Rank \/ OpenMonitor \/ LoopTick \/ Uploaded)
    /\ SF_vars(Upload) /\ WF_vars(AddUp)
    /\ WF_vars(Ticker) /\ WF_vars(Minute)

Spec == Init /\ [][Next]_vars /\ Fairness

-----------------------------------------------------------------------------
(* Properties.                                                             *)

\* The server answers every report (ReportMonitorInfo has no timeout).
ServerAnswers == []<>(ranking # "report")

\* Whichever of the two receivers a signal reaches, the reports of core end: the
\* ranking goroutine returns or the process is over, even if ticks keep coming.
SignalStopsReports ==
    ServerAnswers => (agent = "core" /\ sigch = 1 ~> (ranking = "returned" \/ Over))

\* A signal that arrives after handleSignals returned reaches main: the second
\* attempt to stop an agent ends it, even while a report hangs, and also core2,
\* which goes on reporting after the first.
LaterSignalExits == (handler = "returned" /\ sigch = 1) ~> Over

\* As long as nobody cancels them the reports go on, although each may fail,
\* ticks are dropped while one takes long, and netflow may have stopped itself.
ReportsGoOn ==
    (ServerAnswers /\ []~ Over /\ []~ cancelled) => []<>(ranking = "report")

\* The minute of a report is that of its sending, not of its tick. So a minute may
\* bear several reports, but no more than one beside those that were owed when it
\* began, two at most: a slow server or a stalled rank never makes them pile up
\* (core/blocking.go:142-152).
MinuteStamps == stamped <= owed + 1
=============================================================================
