------------------------------- MODULE Lifecycle -------------------------------
(***************************************************************************)
(* A Netflow from New to Stop (netflow.go, cgroup_linux.go): the options,  *)
(* the pcap file and the cgroup that Start acquires, the goroutines it     *)
(* starts without waiting for them, the timer that one of them sets, and   *)
(* Stop, which the client and the timer may both run.  The client here is  *)
(* any program: it calls Start once at most, and Stop whenever it likes.   *)
(***************************************************************************)
EXTENDS Integers

CONSTANTS
    Numbers,                \* sizes, counts and durations that options are given
    minQueueSize,           \* 1000 in the code
    defaultQueueSize, defaultWorkerNum, defaultSyncInterval, defaultCaptureTimeout,
    MaxOptions,             \* bound: options of a call of New
    MaxStops                \* bound: calls of Stop by the client

ASSUME LifecycleAssumption ==
    /\ Numbers \subseteq Int /\ minQueueSize \in Nat \ {0}
    /\ {defaultQueueSize, defaultWorkerNum, defaultSyncInterval, defaultCaptureTimeout}
          \subseteq Nat \ {0}
    /\ MaxOptions \in Nat /\ MaxStops \in Nat

VARIABLES
    nf,         \* how far the client got with New and Start
    conf,       \* the fields that options set
    options,    \* options applied so far
    cleaner,    \* the cleanup goroutine of New runs
    done,       \* ctx is done
    file,       \* the pcap file
    cgroup,     \* the cgroup "/netflow"; "freed" once Delete was called on it
    exitFunc,   \* finalize has a function that frees the cgroup
    sniffer,    \* startNetworkSniffer
    syncer,     \* startResourceSyncer
    timer,      \* nf.timer
    stop,       \* stop[s]: where the Stop of s is, and how much it was in time for
    stops,      \* calls of Stop by the client
    unseen      \* history: a Stop found nf.timer unset after Start had returned

vars == <<nf, conf, options, cleaner, done, file, cgroup, exitFunc, sniffer, syncer, timer, stop,
          stops, unseen>>

Stoppers == {"client", "timer"}

Positive == Nat \ {0}

Conf == [qsize : Positive, workerNum : Positive, syncInterval : Positive,
         captureTimeout : {n \in Int : n <= defaultCaptureTimeout},
         store : BOOLEAN, limited : BOOLEAN, callersCtx : BOOLEAN]

\* Type invariant: goroutines, resources and calls are in one of their states.
\* Whatever the options are given, and in whatever order, the fields are such
\* that the channels, the workers and the ticker can be made of them.
TypeOK ==
    /\ nf \in {"new", "rejected", "created", "cgroup", "failed", "started"}
    /\ conf \in Conf /\ options \in 0 .. MaxOptions
    /\ cleaner \in BOOLEAN /\ done \in BOOLEAN /\ exitFunc \in BOOLEAN /\ unseen \in BOOLEAN
    /\ file \in {"none", "open", "closed"} /\ cgroup \in {"none", "held", "freed"}
    /\ sniffer \in {"none", "ready", "returned"}
    /\ syncer \in {"none", "ready", "running"}
    /\ timer \in {"unset", "armed", "stopped", "fired"}
    /\ stop \in [Stoppers -> [pc : {"idle", "cancelled", "finalized", "returned"},
                              complete : BOOLEAN]]
    /\ stops \in 0 .. MaxStops

Init ==
    /\ nf = "new" /\ options = 0
    /\ conf = [qsize |-> defaultQueueSize, workerNum |-> defaultWorkerNum,
               syncInterval |-> defaultSyncInterval, captureTimeout |-> defaultCaptureTimeout,
               store |-> FALSE, limited |-> FALSE, callersCtx |-> FALSE]
    /\ cleaner = FALSE /\ done = FALSE
    /\ file = "none" /\ cgroup = "none" /\ exitFunc = FALSE
    /\ sniffer = "none" /\ syncer = "none" /\ timer = "unset"
    /\ stop = [s \in Stoppers |-> [pc |-> "idle", complete |-> FALSE]]
    /\ stops = 0 /\ unseen = FALSE

-----------------------------------------------------------------------------
(* The options, on the fields that they set.  `ok` is FALSE for those that *)
(* return an error.                                                        *)

accept(c) == [ok |-> TRUE, conf |-> c]
reject(c) == [ok |-> FALSE, conf |-> c]

WithCaptureTimeout(c, dur) ==
    accept([c EXCEPT !.captureTimeout = IF dur > defaultCaptureTimeout
                                        THEN defaultCaptureTimeout ELSE dur])

\* Mutant of WithSyncInterval: zero is let through.
WithSyncIntervalZero(c, dur) ==
    IF dur < 0 THEN reject(c) ELSE accept([c EXCEPT !.syncInterval = dur])

WithSyncInterval(c, dur) ==
    IF dur <= 0 THEN reject(c) ELSE accept([c EXCEPT !.syncInterval = dur])

WithWorkerNum(c, num) ==
    accept([c EXCEPT !.workerNum = IF num <= 0 THEN defaultWorkerNum ELSE num])

WithQueueSize(c, size) ==
    accept([c EXCEPT !.qsize = IF size < minQueueSize THEN defaultQueueSize ELSE size])

\* WithBindIPs and WithBindDevices, given `len` names, which are not used here.
WithBind(c, len) == IF len <= 0 THEN reject(c) ELSE accept(c)

WithStorePcap(c) == accept([c EXCEPT !.store = TRUE])

WithLimitCgroup(c, num) == accept([c EXCEPT !.limited = (num # 0)])

\* The context is derived from the caller's, and replaces the one of New.
WithCtx(c) == accept([c EXCEPT !.callersCtx = TRUE])

Results(c) ==
    {WithStorePcap(c), WithCtx(c)} \cup
    UNION {{WithCaptureTimeout(c, n), WithSyncInterval(c, n), WithWorkerNum(c, n),
            WithQueueSize(c, n), WithBind(c, n), WithLimitCgroup(c, n)} : n \in Numbers}

-----------------------------------------------------------------------------
(* New.                                                                    *)

\* The first option that fails ends New: there is no Netflow, and no goroutine.
ApplyOption ==
    /\ nf = "new" /\ options < MaxOptions /\ options' = options + 1
    /\ \E r \in Results(conf) :
          /\ conf' = r.conf
          /\ nf' = IF r.ok THEN "new" ELSE "rejected"
    /\ UNCHANGED <<cleaner, done, file, cgroup, exitFunc, sniffer, syncer, timer, stop, stops,
                   unseen>>

New ==
    /\ nf = "new" /\ nf' = "created"
    /\ cleaner' = TRUE
    /\ UNCHANGED <<conf, options, done, file, cgroup, exitFunc, sniffer, syncer, timer, stop,
                   stops, unseen>>

-----------------------------------------------------------------------------
(* Start, called by the client while it is not in Stop.                    *)

ClientFree == stop["client"].pc \in {"idle", "returned"}

configurePersist ==
    /\ nf = "created" /\ ClientFree
    /\ \/ ~ conf.store /\ nf' = "cgroup" /\ UNCHANGED file
       \/ conf.store /\ nf' = "failed" /\ UNCHANGED file        \* os.Create
       \/ conf.store /\ nf' = "cgroup" /\ file' = "open"
    /\ UNCHANGED <<conf, options, cleaner, done, cgroup, exitFunc, sniffer, syncer, timer, stop,
                   stops, unseen>>

\* The goroutines are started, not waited for.
started == nf' = "started" /\ sniffer' = "ready" /\ syncer' = "ready"

\* cgroupsLimiter.configure: the control may not be created; or it is, and the
\* process may not be added to it.
configure ==
    \/ cgroup' = "none" /\ nf' = "failed" /\ UNCHANGED <<sniffer, syncer>>
    \/ cgroup' = "held" /\ nf' = "failed" /\ UNCHANGED <<sniffer, syncer>>
    \/ cgroup' = "held" /\ started

\* Mutant of configureCgroups: on an error it returns before exitFunc is set.
configureReturnsEarly ==
    /\ nf = "cgroup"
    /\ \/ ~ conf.limited /\ started /\ UNCHANGED <<cgroup, exitFunc>>
       \/ conf.limited /\ configure /\ exitFunc' = (nf' # "failed")
    /\ UNCHANGED <<conf, options, cleaner, done, file, timer, stop, stops, unseen>>

\* exitFunc is appended before the error is returned.
configureCgroups ==
    /\ nf = "cgroup"
    /\ \/ ~ conf.limited /\ started /\ UNCHANGED <<cgroup, exitFunc>>
       \/ conf.limited /\ configure /\ exitFunc' = TRUE
    /\ UNCHANGED <<conf, options, cleaner, done, file, timer, stop, stops, unseen>>

\* Mutant of startNetworkSniffer: nothing is started for a ctx that is done.
sniffUnlessDone ==
    /\ sniffer = "ready" /\ sniffer' = "returned"
    /\ timer' = IF done THEN timer ELSE "armed"
    /\ UNCHANGED <<nf, conf, options, cleaner, done, file, cgroup, exitFunc, syncer, stop, stops,
                   unseen>>

\* Devices and workers are started (Netflow is about them); the timer is last.
startNetworkSniffer ==
    /\ sniffer = "ready" /\ sniffer' = "returned"
    /\ timer' = "armed"
    /\ UNCHANGED <<nf, conf, options, cleaner, done, file, cgroup, exitFunc, syncer, stop, stops,
                   unseen>>

\* time.NewTicker(nf.syncInterval), which would panic for an interval that is not
\* positive.
startResourceSyncer ==
    /\ syncer = "ready" /\ conf.syncInterval > 0
    /\ syncer' = "running"
    /\ UNCHANGED <<nf, conf, options, cleaner, done, file, cgroup, exitFunc, sniffer, timer, stop,
                   stops, unseen>>

-----------------------------------------------------------------------------
(* Stop.                                                                   *)

\* nf.cancel(). `complete`: Start had returned, so that this Stop can see all
\* that it acquired.
cancel(s) ==
    /\ done' = TRUE
    /\ stop' = [stop EXCEPT ![s] = [pc |-> "cancelled", complete |-> nf \in {"failed", "started"}]]

StopCalled ==
    /\ nf \in {"created", "failed", "started"} /\ ClientFree
    /\ stops < MaxStops /\ stops' = stops + 1
    /\ cancel("client")
    /\ UNCHANGED <<nf, conf, options, cleaner, file, cgroup, exitFunc, sniffer, syncer, timer,
                   unseen>>

\* The function of time.AfterFunc runs in a goroutine of its own.
TimerFires ==
    /\ timer = "armed" /\ timer' = "fired"
    /\ cancel("timer")
    /\ UNCHANGED <<nf, conf, options, cleaner, file, cgroup, exitFunc, sniffer, syncer, stops,
                   unseen>>

\* cgroupsLimiter.free, which calls Delete and ignores what it returns: whether the
\* system removes a group that this process is still in is not in this model.
runExitFuncs == cgroup' = IF exitFunc /\ cgroup = "held" THEN "freed" ELSE cgroup

\* finalize: the timer, if it is set by now, and the exit functions.
finalize(s) ==
    /\ stop[s].pc = "cancelled"
    /\ timer' = IF timer = "armed" THEN "stopped" ELSE timer
    /\ runExitFuncs
    /\ unseen' = (unseen \/ (timer = "unset" /\ nf = "started"))
    /\ stop' = [stop EXCEPT ![s].pc = "finalized"]
    /\ UNCHANGED <<nf, conf, options, cleaner, done, file, exitFunc, sniffer, syncer, stops>>

\* A second Close returns an error that is ignored.
CloseFile(s) ==
    /\ stop[s].pc = "finalized"
    /\ file' = IF file = "open" THEN "closed" ELSE file
    /\ stop' = [stop EXCEPT ![s].pc = "returned"]
    /\ UNCHANGED <<nf, conf, options, cleaner, done, cgroup, exitFunc, sniffer, syncer, timer,
                   stops, unseen>>

\* The caller of WithCtx cancels its context: nobody calls Stop.
ParentCancelled ==
    /\ nf \notin {"new", "rejected"} /\ conf.callersCtx /\ ~ done
    /\ done' = TRUE
    /\ UNCHANGED <<nf, conf, options, cleaner, file, cgroup, exitFunc, sniffer, syncer, timer,
                   stop, stops, unseen>>

Next ==
    \/ ApplyOption \/ New
    \/ configurePersist \/ configureCgroups \/ startNetworkSniffer \/ startResourceSyncer
    \/ StopCalled \/ TimerFires \/ ParentCancelled
    \/ \E s \in Stoppers : finalize(s) \/ CloseFile(s)

\* Goroutines run, calls that were made go on, and a timer fires in the end. The
\* client need not call anything.
Fairness ==
    /\ WF_vars(configureCgroups) /\ WF_vars(startNetworkSniffer) /\ WF_vars(TimerFires)
    /\ \A s \in Stoppers : WF_vars(finalize(s)) /\ WF_vars(CloseFile(s))

Spec == Init /\ [][Next]_vars /\ Fairness

-----------------------------------------------------------------------------
(* Properties.                                                             *)

Released == done /\ file # "open" /\ cgroup # "held"

\* A Stop that comes after Start leaves nothing behind, however far Start got: if
\* it failed half-way, if the timer's Stop runs beside the client's, if one of
\* them is repeated. It may leave a timer that will still fire, but only if the
\* goroutine that sets it had not run yet when a Stop looked for it
\* (netflow.go:298-368, 753, cgroup_linux.go:18-66).
StopReleases ==
    \A s \in Stoppers :
        stop[s].pc = "returned" /\ stop[s].complete =>
            Released /\ (timer = "armed" => unseen)

\* netflow.go:226: "when ctx.cancel() or timeout, notify done." A Netflow that was
\* started is done in the end and gives back what it holds, even if the client
\* never stops it, or cancels its own context and forgets about it.
StartedIsReleased == nf = "started" ~> Released
=============================================================================
