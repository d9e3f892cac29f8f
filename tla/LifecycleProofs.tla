---------------------------- MODULE LifecycleProofs ----------------------------
(***************************************************************************)
(* Proofs about a Netflow from New to Stop, for every set of numbers that  *)
(* the options may be given, every sequence of options and every number of *)
(* Stops, those of the client and the one of the timer side by side.       *)
(*                                                                         *)
(* StopReleases speaks of the moment a Stop returns; what makes it true is *)
(* spread over the steps before.  LifeInv says what Start has acquired by  *)
(* each of its steps and who is then in charge of giving it back, and what *)
(* a Stop that came after Start has given back at each step of its own.    *)
(***************************************************************************)
EXTENDS Lifecycle, TLAPS

\* Start acquires in an order, the cgroup never without a function that frees it
\* (netflow.go:298-368), and nothing runs before Start has got to the end.
Acquired ==
    /\ nf \in {"new", "rejected", "created", "cgroup"} =>
          cgroup = "none" /\ sniffer = "none"
    /\ cgroup = "held" => exitFunc
    /\ sniffer # "none" => nf = "started"
    /\ timer # "unset" => sniffer = "returned"

\* A Stop begins with the cancellation, and one that counts as complete began
\* when Start had returned.
Cancelled ==
    \A s \in Stoppers :
        /\ stop[s].pc # "idle" => done
        /\ stop[s].complete => nf \in {"failed", "started"}

\* The timer will not fire again, or a Stop looked for it too early.
Disarmed == nf = "started" /\ timer \in {"unset", "armed"} => unseen

\* What a complete Stop has given back by each of its steps stays given back.
GivenBack ==
    \A s \in Stoppers :
        stop[s].complete =>
            /\ stop[s].pc \in {"finalized", "returned"} => cgroup # "held" /\ Disarmed
            /\ stop[s].pc = "returned" => file # "open"

\* The inductive invariant.
LifeInv == TypeOK /\ Acquired /\ Cancelled /\ GivenBack

-----------------------------------------------------------------------------
(* The options.                                                            *)

\* An option leaves the fields such that channels, workers and a ticker can be
\* made of them, whatever number it is given and whatever came before it
\* (netflow.go:90-208).
LEMMA OptionsKeepConf ==
    ASSUME NEW c \in Conf, NEW r \in Results(c)
    PROVE  r.conf \in Conf
<1>0. /\ Numbers \subseteq Int /\ minQueueSize \in Nat \ {0}
      /\ defaultQueueSize \in Positive /\ defaultWorkerNum \in Positive
      /\ defaultSyncInterval \in Positive /\ defaultCaptureTimeout \in Positive
  BY LifecycleAssumption DEF Positive
<1>1. CASE r = WithStorePcap(c)
  BY <1>1 DEF WithStorePcap, accept, Conf
<1>2. CASE r = WithCtx(c)
  BY <1>2 DEF WithCtx, accept, Conf
<1>3. ASSUME NEW n \in Numbers, r = WithCaptureTimeout(c, n)
      PROVE  r.conf \in Conf
  BY <1>0, <1>3 DEF WithCaptureTimeout, accept, Conf, Positive
<1>4. ASSUME NEW n \in Numbers, r = WithSyncInterval(c, n)
      PROVE  r.conf \in Conf
  BY <1>0, <1>4 DEF WithSyncInterval, accept, reject, Conf, Positive
<1>5. ASSUME NEW n \in Numbers, r = WithWorkerNum(c, n)
      PROVE  r.conf \in Conf
  BY <1>0, <1>5 DEF WithWorkerNum, accept, Conf, Positive
<1>6. ASSUME NEW n \in Numbers, r = WithQueueSize(c, n)
      PROVE  r.conf \in Conf
  BY <1>0, <1>6 DEF WithQueueSize, accept, Conf, Positive
<1>7. ASSUME NEW n \in Numbers, r = WithBind(c, n)
      PROVE  r.conf \in Conf
  BY <1>7 DEF WithBind, accept, reject
<1>8. ASSUME NEW n \in Numbers, r = WithLimitCgroup(c, n)
      PROVE  r.conf \in Conf
  BY <1>8 DEF WithLimitCgroup, accept, Conf
<1>9. QED
  BY <1>1, <1>2, <1>3, <1>4, <1>5, <1>6, <1>7, <1>8 DEF Results

-----------------------------------------------------------------------------
(* Initial states and steps.                                               *)

\* Nothing was acquired, and no Stop was called.
LEMMA LifeInit == Init => LifeInv
<1> SUFFICES ASSUME Init PROVE LifeInv
  OBVIOUS
<1>1. conf \in Conf
  BY LifecycleAssumption DEF Init, Conf, Positive
<1>2. /\ options \in 0 .. MaxOptions /\ stops \in 0 .. MaxStops
      /\ stop \in [Stoppers -> [pc : {"idle", "cancelled", "finalized", "returned"},
                                complete : BOOLEAN]]
  BY LifecycleAssumption DEF Init
<1>3. TypeOK
  BY <1>1, <1>2 DEF Init, TypeOK
<1>4. Acquired /\ Cancelled /\ GivenBack
  BY DEF Init, Acquired, Cancelled, GivenBack, Stoppers
<1>5. QED
  BY <1>3, <1>4 DEF LifeInv

\* New and its options come before anything is acquired.
LEMMA NewStep ==
    LifeInv /\ (ApplyOption \/ New) => LifeInv'
<1> SUFFICES ASSUME LifeInv, ApplyOption \/ New PROVE LifeInv'
  OBVIOUS
<1>0. /\ UNCHANGED <<done, file, cgroup, exitFunc, sniffer, syncer, timer, stop, stops, unseen>>
      /\ nf = "new" /\ nf' \in {"new", "rejected", "created"} /\ cleaner' \in BOOLEAN
  BY DEF ApplyOption, New, LifeInv, TypeOK
<1>1. conf' \in Conf
  BY OptionsKeepConf DEF LifeInv, TypeOK, ApplyOption, New
<1>2. options' \in 0 .. MaxOptions
  BY LifecycleAssumption DEF LifeInv, TypeOK, ApplyOption, New
<1>3. TypeOK'
  BY <1>0, <1>1, <1>2 DEF LifeInv, TypeOK
<1>4. Acquired' /\ Cancelled' /\ GivenBack'
  BY <1>0 DEF LifeInv, Acquired, Cancelled, GivenBack, Disarmed
<1>5. QED
  BY <1>3, <1>4 DEF LifeInv

\* Start: while it runs there is no complete Stop to give anything back.
LEMMA StartStep ==
    LifeInv /\ (configurePersist \/ configureCgroups) => LifeInv'
<1> SUFFICES ASSUME LifeInv, configurePersist \/ configureCgroups PROVE LifeInv'
  OBVIOUS
<1>0. /\ UNCHANGED <<conf, options, cleaner, done, timer, stop, stops, unseen>>
      /\ nf \in {"created", "cgroup"} /\ nf' \in {"cgroup", "failed", "started"}
  BY DEF configurePersist, configureCgroups, configure, started
<1>1. TypeOK'
  <2>1. /\ file' \in {"none", "open", "closed"} /\ cgroup' \in {"none", "held", "freed"}
        /\ sniffer' \in {"none", "ready", "returned"} /\ syncer' \in {"none", "ready", "running"}
    BY DEF configurePersist, configureCgroups, configure, started, LifeInv, TypeOK
  <2>2. exitFunc' = exitFunc \/ exitFunc' = TRUE
    BY DEF configurePersist, configureCgroups
  <2>3. exitFunc' \in BOOLEAN
    BY <2>2, Zenon DEF LifeInv, TypeOK
  <2>4. QED
    BY <1>0, <2>1, <2>3 DEF LifeInv, TypeOK
<1>2. Acquired'
  BY <1>0 DEF configurePersist, configureCgroups, configure, started, LifeInv, Acquired
<1>3. \A s \in Stoppers : ~ stop[s].complete
  BY <1>0 DEF LifeInv, Cancelled
<1>4. Cancelled' /\ GivenBack'
  BY <1>0, <1>3 DEF LifeInv, Cancelled, GivenBack
<1>5. QED
  BY <1>1, <1>2, <1>4 DEF LifeInv

\* The two goroutines. The timer that the first one sets was unset, so a Stop
\* that is past finalize has seen it unset.
LEMMA GoroutineStep ==
    LifeInv /\ (startNetworkSniffer \/ startResourceSyncer) => LifeInv'
<1> SUFFICES ASSUME LifeInv, startNetworkSniffer \/ startResourceSyncer PROVE LifeInv'
  OBVIOUS
<1>0. UNCHANGED <<nf, conf, options, cleaner, done, file, cgroup, exitFunc, stop, stops, unseen>>
  BY DEF startNetworkSniffer, startResourceSyncer
<1>1. \/ sniffer = "ready" /\ sniffer' = "returned" /\ timer' = "armed" /\ syncer' = syncer
      \/ sniffer' = sniffer /\ timer' = timer /\ syncer' = "running"
  BY DEF startNetworkSniffer, startResourceSyncer
<1>2. TypeOK'
  BY <1>0, <1>1 DEF LifeInv, TypeOK
<1>3. Acquired' /\ Cancelled'
  BY <1>0, <1>1 DEF LifeInv, Acquired, Cancelled
<1>4. Disarmed => Disarmed'
  BY <1>0, <1>1 DEF LifeInv, Acquired, Disarmed
<1>5. GivenBack'
  BY <1>0, <1>4 DEF LifeInv, GivenBack
<1>6. QED
  BY <1>2, <1>3, <1>5 DEF LifeInv

\* cancel: the stop that begins has given nothing back yet.
LEMMA CancelStep ==
    LifeInv /\ (StopCalled \/ TimerFires) => LifeInv'
<1> SUFFICES ASSUME LifeInv, StopCalled \/ TimerFires PROVE LifeInv'
  OBVIOUS
<1>0. UNCHANGED <<nf, conf, options, cleaner, file, cgroup, exitFunc, sniffer, syncer, unseen>>
  BY DEF StopCalled, TimerFires
<1>1. PICK s \in Stoppers : cancel(s)
  BY DEF StopCalled, TimerFires, Stoppers
<1>2. timer' = timer \/ (timer = "armed" /\ timer' = "fired")
  BY DEF StopCalled, TimerFires
<1>3. stops' \in 0 .. MaxStops
  BY LifecycleAssumption DEF StopCalled, TimerFires, LifeInv, TypeOK
<1> DEFINE new == [pc |-> "cancelled", complete |-> nf \in {"failed", "started"}]
<1>4. /\ done' = TRUE
      /\ stop' = [stop EXCEPT ![s] = new]
  BY <1>1 DEF cancel
<1>5. /\ new \in [pc : {"idle", "cancelled", "finalized", "returned"}, complete : BOOLEAN]
      /\ new.pc = "cancelled"
      /\ new.complete => nf \in {"failed", "started"}
  <2>1. (nf \in {"failed", "started"}) = TRUE \/ (nf \in {"failed", "started"}) = FALSE
    OBVIOUS
  <2>2. QED
    BY <2>1
<1> HIDE DEF new
<1>6. /\ stop'[s] = new
      /\ \A r \in Stoppers \ {s} : stop'[r] = stop[r]
  BY <1>4 DEF LifeInv, TypeOK
<1>7. TypeOK'
  BY <1>0, <1>2, <1>3, <1>4, <1>5 DEF LifeInv, TypeOK
<1>8. Acquired'
  BY <1>0, <1>2 DEF LifeInv, Acquired
<1>9. Cancelled'
  BY <1>0, <1>4, <1>5, <1>6 DEF LifeInv, Cancelled
<1>10. Disarmed => Disarmed'
  BY <1>0, <1>2 DEF Disarmed
<1>11. GivenBack'
  BY <1>0, <1>5, <1>6, <1>10 DEF LifeInv, GivenBack
<1>12. QED
  BY <1>7, <1>8, <1>9, <1>11 DEF LifeInv

\* finalize disarms the timer or counts as having come too early for it, and frees
\* the cgroup, which is never held without its function.
LEMMA FinalizeStep ==
    ASSUME LifeInv, NEW s \in Stoppers, finalize(s)
    PROVE  LifeInv'
<1>0. /\ UNCHANGED <<nf, conf, options, cleaner, done, file, exitFunc, sniffer, syncer, stops>>
      /\ stop[s].pc = "cancelled"
      /\ stop' = [stop EXCEPT ![s].pc = "finalized"]
      /\ timer' = IF timer = "armed" THEN "stopped" ELSE timer
      /\ cgroup' = IF exitFunc /\ cgroup = "held" THEN "freed" ELSE cgroup
      /\ unseen' = (unseen \/ (timer = "unset" /\ nf = "started"))
  BY DEF finalize, runExitFuncs
<1>1. /\ stop'[s].pc = "finalized" /\ stop'[s].complete = stop[s].complete
      /\ \A r \in Stoppers \ {s} : stop'[r] = stop[r]
      /\ stop' \in [Stoppers -> [pc : {"idle", "cancelled", "finalized", "returned"},
                                 complete : BOOLEAN]]
  BY <1>0 DEF LifeInv, TypeOK
<1>2. unseen' \in BOOLEAN /\ (unseen => unseen')
  BY <1>0, Zenon DEF LifeInv, TypeOK
<1>3. TypeOK'
  BY <1>0, <1>1, <1>2 DEF LifeInv, TypeOK
<1>4. Acquired'
  BY <1>0 DEF LifeInv, Acquired
<1>5. Cancelled'
  BY <1>0, <1>1 DEF LifeInv, Cancelled
<1>6. cgroup' # "held" /\ Disarmed'
  BY <1>0 DEF LifeInv, Acquired, Disarmed
<1>7. GivenBack'
  BY <1>0, <1>1, <1>6 DEF LifeInv, GivenBack
<1>8. QED
  BY <1>3, <1>4, <1>5, <1>7 DEF LifeInv

\* Stop closes the pcap file, its last step.
LEMMA CloseFileStep ==
    ASSUME LifeInv, NEW s \in Stoppers, CloseFile(s)
    PROVE  LifeInv'
<1>0. /\ UNCHANGED <<nf, conf, options, cleaner, done, cgroup, exitFunc, sniffer, syncer, timer,
                     stops, unseen>>
      /\ stop[s].pc = "finalized"
      /\ stop' = [stop EXCEPT ![s].pc = "returned"]
      /\ file' = IF file = "open" THEN "closed" ELSE file
  BY DEF CloseFile
<1>1. /\ stop'[s].pc = "returned" /\ stop'[s].complete = stop[s].complete
      /\ \A r \in Stoppers \ {s} : stop'[r] = stop[r]
      /\ stop' \in [Stoppers -> [pc : {"idle", "cancelled", "finalized", "returned"},
                                 complete : BOOLEAN]]
  BY <1>0 DEF LifeInv, TypeOK
<1>2. TypeOK'
  BY <1>0, <1>1 DEF LifeInv, TypeOK
<1>3. Acquired' /\ Cancelled'
  BY <1>0, <1>1 DEF LifeInv, Acquired, Cancelled
<1>4. GivenBack'
  BY <1>0, <1>1 DEF LifeInv, GivenBack, Disarmed
<1>5. QED
  BY <1>2, <1>3, <1>4 DEF LifeInv

\* The caller's context is cancelled, or nothing happens.
LEMMA OtherStep ==
    LifeInv /\ (ParentCancelled \/ UNCHANGED vars) => LifeInv'
<1> SUFFICES ASSUME LifeInv, ParentCancelled \/ UNCHANGED vars PROVE LifeInv'
  OBVIOUS
<1>1. /\ UNCHANGED <<nf, conf, options, cleaner, file, cgroup, exitFunc, sniffer, syncer, timer,
                     stop, stops, unseen>>
      /\ done' = done \/ done' = TRUE
  BY DEF ParentCancelled, vars
<1>2. done' \in BOOLEAN /\ (done => done')
  BY <1>1, Zenon DEF LifeInv, TypeOK
<1>3. QED
  BY <1>1, <1>2 DEF LifeInv, TypeOK, Acquired, Cancelled, GivenBack, Disarmed

-----------------------------------------------------------------------------
(* Theorems.                                                               *)

\* What Start acquired is in somebody's charge in every reachable state, however
\* the client's Stop, the timer's Stop and the goroutines of Start interleave.
THEOREM LifecycleInvariant == Spec => []LifeInv
<1>1. Init => LifeInv
  BY LifeInit
<1>2. LifeInv /\ [Next]_vars => LifeInv'
  BY NewStep, StartStep, GoroutineStep, CancelStep, FinalizeStep, CloseFileStep, OtherStep
  DEF Next
<1>3. QED
  BY <1>1, <1>2, PTL DEF Spec

\* The fields that the options set are positive whatever the options are given
\* (netflow.go:90-208), and calls, goroutines and resources are in their states.
THEOREM TypeCorrect == Spec => []TypeOK
<1>1. LifeInv => TypeOK
  BY DEF LifeInv
<1>2. QED
  BY <1>1, LifecycleInvariant, PTL

\* A Stop that comes after Start leaves no file open, no cgroup held and no
\* context alive, also when it is repeated or runs beside the timer's; a timer
\* that is still armed then was set behind its back (netflow.go:298-368).
THEOREM StopGivesBack == Spec => []StopReleases
<1>1. LifeInv => StopReleases
  <2> SUFFICES ASSUME LifeInv, NEW s \in Stoppers,
                      stop[s].pc = "returned", stop[s].complete
               PROVE  Released /\ (timer = "armed" => unseen)
    BY DEF StopReleases
  <2>1. done /\ file # "open" /\ cgroup # "held" /\ Disarmed
    BY DEF LifeInv, Cancelled, GivenBack
  <2>2. timer = "armed" => nf = "started"
    BY DEF LifeInv, Acquired
  <2>3. QED
    BY <2>1, <2>2 DEF Released, Disarmed
<1>2. QED
  BY <1>1, LifecycleInvariant, PTL
=============================================================================
