------------------------------- MODULE Process -------------------------------
(***************************************************************************)
(* The traffic history of one monitored process (process.go, Process):     *)
(* a slice `Ring` of per-second counters, extended by IncreaseInput and    *)
(* IncreaseOutput when a packet is attributed to the process, cut by       *)
(* `shrink`, and summed by analyseStats over the window that the caller of *)
(* GetProcessRank asks for.                                                *)
(*                                                                         *)
(* The variable `traffic` is not in the code: it records what was really   *)
(* attributed in every second, and is what Ring and TrafficStats are       *)
(* judged against.  Calls are atomic here: this module is about the data   *)
(* structure, not about goroutines that share it.                          *)
(***************************************************************************)
EXTENDS Integers, Sequences, Functions

CONSTANTS
    MaxRingSize,    \* maxRingSize, 61 in the code
    Lengths,        \* lengths a TCP packet may have: headers included, so > 0
    MaxTime,        \* bound: the last second of the clock
    MaxBytes        \* bound: bytes per second, both directions

ASSUME RingSizeAssumption == MaxRingSize \in Nat /\ MaxRingSize >= 2
ASSUME LengthsAssumption  == Lengths \subseteq Nat \ {0}
ASSUME BoundsAssumption   == MaxTime \in Nat /\ MaxBytes \in Nat

VARIABLES
    now,            \* time.Now().Unix()
    Ring,           \* the slice of trafficEntry, oldest first
    TrafficStats,   \* what analyseStats computed last
    traffic         \* history: the bytes attributed in each second

vars == <<now, Ring, TrafficStats, traffic>>

Seconds == 0 .. MaxTime

Volume == [In : Nat, Out : Nat]

NoVolume == [In |-> 0, Out |-> 0]

trafficEntry == [Timestamp : Seconds, In : Nat, Out : Nat]

trafficStatsEntry == [In : Nat, Out : Nat, InRate : Nat, OutRate : Nat]

-----------------------------------------------------------------------------
(* Operations on the slice.                                                *)

\* Two variants of shrink with an off-by-one, used as mutants.
shrinkLate(ring)  == IF Len(ring) > MaxRingSize THEN Tail(ring) ELSE ring
shrinkEarly(ring) == IF Len(ring) >= MaxRingSize - 1 THEN Tail(ring) ELSE ring

\* shrink: a full slice loses its oldest entry.
shrink(ring) == IF Len(ring) >= MaxRingSize THEN Tail(ring) ELSE ring

\* Mutant of increase: every packet gets an entry of its own.
increaseUnmerged(ring, t, v) ==
    LET fresh == [Timestamp |-> t, In |-> v.In, Out |-> v.Out]
    IN  Append(shrink(ring), fresh)

\* Mutant of increase: the clock is read in milliseconds.
increaseMillis(ring, t, v) ==
    Append(shrink(ring), [Timestamp |-> 1000 * t, In |-> v.In, Out |-> v.Out])

\* The common text of IncreaseInput and IncreaseOutput: `v` is the volume to
\* add in second t. The slice is cut before the entry's second is compared.
increase(ring, t, v) ==
    LET fresh == [Timestamp |-> t, In |-> v.In, Out |-> v.Out]
        cut   == shrink(ring)
        last  == cut[Len(cut)]
    IN  IF ring = <<>>
        THEN <<fresh>>
        ELSE IF last.Timestamp = t
             THEN [cut EXCEPT ![Len(cut)] = [Timestamp |-> t,
                                             In  |-> last.In + v.In,
                                             Out |-> last.Out + v.Out]]
             ELSE Append(cut, fresh)

plus(u, v) == [In |-> u.In + v.In, Out |-> u.Out + v.Out]

\* Mutants of window: a strict comparison; no comparison.
windowStrict(ring, thold) == {i \in DOMAIN ring : ring[i].Timestamp > thold}
windowAll(ring, thold)    == DOMAIN ring

\* analyseStats' loop: the entries that are not older than thold.
window(ring, thold) == {i \in DOMAIN ring : ring[i].Timestamp >= thold}

sumIn(ring, thold) ==
    SumFunctionOnSet([i \in DOMAIN ring |-> ring[i].In], window(ring, thold))
sumOut(ring, thold) ==
    SumFunctionOnSet([i \in DOMAIN ring |-> ring[i].Out], window(ring, thold))

-----------------------------------------------------------------------------
Init ==
    /\ now = 0
    /\ Ring = <<>>
    /\ TrafficStats = [In |-> 0, Out |-> 0, InRate |-> 0, OutRate |-> 0]
    /\ traffic = [t \in Seconds |-> NoVolume]

Tick ==
    /\ now < MaxTime
    /\ now' = now + 1
    /\ UNCHANGED <<Ring, TrafficStats, traffic>>

IncreaseInput(n) ==
    /\ traffic[now].In + traffic[now].Out + n <= MaxBytes
    /\ Ring' = increase(Ring, now, [In |-> n, Out |-> 0])
    /\ traffic' = [traffic EXCEPT ![now] = plus(@, [In |-> n, Out |-> 0])]
    /\ UNCHANGED <<now, TrafficStats>>

IncreaseOutput(n) ==
    /\ traffic[now].In + traffic[now].Out + n <= MaxBytes
    /\ Ring' = increase(Ring, now, [In |-> 0, Out |-> n])
    /\ traffic' = [traffic EXCEPT ![now] = plus(@, [In |-> 0, Out |-> n])]
    /\ UNCHANGED <<now, TrafficStats>>

\* analyseStats(0) returns before it assigns anything, so only sec > 0 moves.
analyseStats(sec) ==
    /\ sec # 0
    /\ LET in  == sumIn(Ring, now - sec)
           out == sumOut(Ring, now - sec)
       IN  TrafficStats' = [In |-> in, Out |-> out,
                            InRate |-> in \div sec, OutRate |-> out \div sec]
    /\ UNCHANGED <<now, Ring, traffic>>

\* The windows GetProcessRank lets through: recentSeconds <= maxRingSize.
Accepted == 0 .. MaxRingSize

Next ==
    \/ Tick
    \/ \E n \in Lengths : IncreaseInput(n) \/ IncreaseOutput(n)
    \/ \E sec \in Accepted : analyseStats(sec)

Spec == Init /\ [][Next]_vars

-----------------------------------------------------------------------------
(* Properties.                                                             *)

\* The part of the type invariant that is about the slice and the clock.
RingTypeOK ==
    /\ now \in Seconds
    /\ Ring \in Seq(trafficEntry)
    /\ traffic \in [Seconds -> Volume]

\* Type invariant: the slice holds per-second counters of the clock's past,
\* and the computed statistics are natural numbers.
TypeOK == RingTypeOK /\ TrafficStats \in trafficStatsEntry

\* The slice never outgrows maxRingSize, whatever the pace of the packets
\* (process.go:66, shrink): memory per process is bounded.
RingBounded == Len(Ring) <= MaxRingSize

\* `shrink` runs before the same-second test, so a full slice gives up an entry
\* even when nothing is appended. What survives: every second with traffic among
\* the last MaxRingSize - 1 seconds, the current one included, still has an
\* entry, with exactly the bytes that were attributed in it.
RecentKept ==
    \A t \in Seconds :
        /\ traffic[t] # NoVolume
        /\ t >= now - (MaxRingSize - 2)
        => \E i \in DOMAIN Ring :
              /\ Ring[i].Timestamp = t
              /\ Ring[i].In = traffic[t].In
              /\ Ring[i].Out = traffic[t].Out

\* No byte is in the slice twice: the entries are in strictly increasing order
\* of time, each at most now, and hold what was attributed in their second.
RingFaithful ==
    /\ \A i, j \in DOMAIN Ring : i < j => Ring[i].Timestamp < Ring[j].Timestamp
    /\ \A i \in DOMAIN Ring :
          /\ Ring[i].Timestamp <= now
          /\ traffic[Ring[i].Timestamp] = [In |-> Ring[i].In, Out |-> Ring[i].Out]

\* The bytes really attributed in the closed interval from..to of seconds.
TrueVolume(from, to) ==
    LET span == {t \in Seconds : from <= t /\ t <= to}
    IN  [In  |-> SumFunctionOnSet([t \in Seconds |-> traffic[t].In], span),
         Out |-> SumFunctionOnSet([t \in Seconds |-> traffic[t].Out], span)]

\* For every window of at most maxRingSize - 2 seconds the statistics are exact:
\* analyseStats(sec) reports all bytes of the seconds now-sec .. now, although
\* the slice may have been cut meanwhile.
StatsExact ==
    [][\A sec \in 1 .. (MaxRingSize - 2) :
          analyseStats(sec) =>
              LET true == TrueVolume(now - sec, now)
              IN  /\ TrafficStats'.In = true.In
                  /\ TrafficStats'.Out = true.Out
                  /\ TrafficStats'.InRate = true.In \div sec
                  /\ TrafficStats'.OutRate = true.Out \div sec]_vars

\* Whatever window GetProcessRank accepts, a byte that did not flow in it is
\* never reported: neither an older one nor the same one twice.
StatsNeverInvent ==
    [][\A sec \in Accepted \ {0} :
          analyseStats(sec) =>
              LET true == TrueVolume(now - sec, now)
              IN  TrafficStats'.In <= true.In /\ TrafficStats'.Out <= true.Out]_vars
=============================================================================
