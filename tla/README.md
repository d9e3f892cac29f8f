# TLA+ models of go-netflow

go-netflow captures the TCP packets of a host, finds the process that each one
belongs to, keeps per-second byte counters for every process and lets a caller
rank the processes by traffic. An agent (`cmd/main.go`, `core/`) reports the sums
to a server every minute. This directory holds TLA+ models of it, the TLC runs
that check them, and TLAPS proofs of every safety property the passing runs
check but one, for all values of the constants. (That one, `SoloKept`, is proved for two
overlapping calls and checked for three.) Paths are relative to the repository.

## The system

| Part | State | Operations | Source |
|---|---|---|---|
| Process | `Ring`, `TrafficStats` | `IncreaseInput`, `IncreaseOutput`, `shrink`, `analyseStats` | `process.go` |
| processController | `dict`, `inodePidMap`, `sortedProcesses` | `Rescan`, `GetProcessByInode`, `Sort`, `GetRank` | `process.go` |
| Mapping | `dict`: address pair -> inode, time | `Add`, `Exists`, `Get`, `Cleanup` | `types.go` |
| netstat | none | `parseNetworkLines`, `getConnectionItem` | `netstat.go` |
| Netflow | `packetChan` per device, `packetQueue`, `delayQueue`, `counter`, ctx | capture, forward, handle, delay, rescan, `Stop` | `netflow.go` |
| agent | signal channel, ticker, report context | `Start`, `handleSignals`, `processRanking`, `reportHandler` | `core/blocking.go`, `cmd/main.go` |
| set-up | options, pcap file, cgroup, timer | `New`, `With...`, `Start`, `Stop` | `netflow.go`, `cgroup_linux.go` |
| rpc client | none | `ReportMonitorInfo`, ... | `rpc/` |
| second agent | byte counter of one port | `StartOut`, `TrafficMonitor`, `showTable` | `core2/`, `utils/` |
| ring queue | `buf`, `head`, `tail`, `count` | `Add`, `Remove`, `Peek` | `ringqueue.go` (unused) |

How they interact. `captureDevice` runs once per device and hands packets to a
forwarder through `packetChan`; the forwarder puts them into `packetQueue`; a
worker takes them out, looks the address pair up in the Mapping and the inode in
the controller, and increases the counters of the Process found. A packet that
is not found goes to `delayQueue`. The resource syncer rescans the host every
second, two goroutines at a time (connections into the Mapping, descriptors into
the controller), and then retries the delayed packets. A goroutine made by `New`
cleans the Mapping every two minutes. All queues drop what does not fit, and all
goroutines but the cleaner stop when the context is done. The agent calls
`GetProcessRank` on a ticker and sends the result.

What is hard in it: the scans read a host that changes while they read it; the
two lookups and the charge of a packet are three critical sections; a delayed
packet may be kept over a tick in a local variable; entries are cleaned while
they are still valid; shutdown is a `select` among ready cases; the slice of a
Process is cut even when it is not extended, and is written by several goroutines
without a lock; a Process outlives its pid in the hands of a worker, and a pid
outlives its process in the dict; `Start` may fail half-way and leaves the timer to
a goroutine that `Stop` may overtake; and two goroutines of the agent wait for the
same signal. `PROJECT.json` lists these hazards line by line with the
properties that cover them.

What makes each part correct. Process: bounded memory, and sums that are the
bytes of the window. Attribution: a packet is charged only to a process that had
the connection, and an open connection is found. Pipeline: each packet is
accounted for exactly once, nothing waits for ever, `Stop` ends it. Set-up: what
`Start` acquired is given back. Agent: it reports until it is told to stop, and
then stops.

## Modules

| Module | Models | Notes |
|---|---|---|
| `Process` | one `Process` | `traffic` is a history of the bytes attributed in every second; calls are atomic |
| `ProcessRace` | one `Process` as goroutines share it | every shared read and write is a step; slices are headers on arrays of references to entries; it stops where a header or an entry cannot be used |
| `Kernel` | the host, external | sockets with inodes that are not reused, holders, address pairs that are reused |
| `Mapping` | `types.go` | an entry is young or old relative to the last `Cleanup`, which is called with the period of its own loop |
| `ProcessController` | `Rescan`, `GetProcessByInode` | map iteration order is a choice of the owner of a shared inode |
| `Resolver` | `rescanResouce`, `rescanConns`, `GetProcesses`, `getProcessByAddr` | composes `Kernel`, `Mapping` and `ProcessController`; each line, key and descriptor is a step of its own |
| `Attribution` | the syncer and the cleaner for ever beside the kernel | histories: who held a socket since the scan in use began, whether anything changed |
| `Account` | what the pipeline promises | abstract: a packet is outside, taken in, and given up or charged to a process that is liable for it, once |
| `Netflow` | the packet pipeline | extends `Resolver`; one action per step of each goroutine; histories of who held a socket since which scan and who is liable for a packet; implements `Account` |
| `History` | a `Process` over rescans and pid reuse | follows one pid; the generations of processes under it, objects, workers that charge late |
| `Rank` | `GetProcessRank`, `Sort`, `GetRank` | several callers under the read lock, rescans in between; races on the shared list are choices |
| `Lifecycle` | options, `New`, `Start`, `Stop`, timer, cgroup, pcap file | any client; the timer's `Stop` runs beside the client's |
| `TrafficMonitor` | `TrafficMonitor` of `utils/helper.go` | two goroutines and a sum that one adds to and another reads and resets, each read and write a step, under a mutex that is a variable |
| `Core` | both agents | `Start` or `StartOut`, `handleSignals`, `processRanking`, signals, ticker, minutes, timeouts; extends `TrafficMonitor` |
| `ResolverProofs` | lemmas | what the steps of `Resolver` do to the tables and to what is on its way into them |
| `ProcessProofs`, `AttributionProofs`, `NetflowProofs`, `RankProofs`, `HistoryProofs`, `LifecycleProofs`, `CoreProofs` | proofs | the theorems about the module of that name |
| `MCAttribution`, `MCNetflow`, `MCRank`, `MCProcessRace`, `MCHistory`, `MCCore` | instances | address pairs, volumes, windows, symmetry |

`increase` is the common text of `IncreaseInput` and `IncreaseOutput`. Time is
abstracted: `Process` has a clock in seconds; `Mapping` has two ages; `Netflow`
remembers only whether a packet was delayed before, during or after the last
rescan, which is what the comparison with `lastTime` distinguishes. A packet is an
identity with an address pair, or with none when it is not IPv4 TCP; its length
and direction are passed through unchanged and are not in `Netflow`. The syncer's
lookups of a delayed entry are one step: the syncer itself is the only one to
rescan, and a cleanup is seen as a whole or not at all. A failed lookup and the
`time.Now()` of the delay entry (netflow.go:832-835) are one step, too: a rescan that
begins or ends between them only changes which of the three times is stamped, and the
properties speak of the stamp, whenever the lookup failed. `AllFds` of `Resolver` lists the
descriptors of every pid, as `getMatchingPIDs` does for an empty filter; the filter is
in `History`. The kernel shows a
connection that was not accepted yet with inode 0, `NoInode`. A device may fail
to open, so `capturing` starts with any value.

The refinement. `Netflow` maps to `Account` with `outside <- wire`,
`charges <- ledger`, `dropped <- Given` (the packets of `lost`), `held <- base`, and
`liable` as it is. `base` is who held each socket since the scan began whose result is
in use (and from before, what `since` then began with); when a packet is captured, they
are liable for it, and so is who gets hold of the connection while the packet is inside.
A capture is `TakeIn`, or `Refuse` when `packetChan` is full; a charge of a worker or
of the syncer is `Charge`; the drops of the queues, an ignored packet and an
unresolved entry are `GiveUp`; a kernel step is `Own` or nothing; `Commit`, the end of
the process scan, is `Forget`: who held a socket before the new scan, and no longer,
may be charged for packets that are inside, not for those that come. All else stutters.

`ProcessRace` splits an increase at its accesses to `po.Ring` and to an entry. A
slice is a header of three words, `[arr, off, len]`, on one of the `arrays`. `append`
works on the header that was read: if its array has room, the next place of that array
is written and of `po.Ring` only the length word (`extend`), as the compiled code
does; otherwise the slice is copied and all words are stored (`grow`). So headers that
were read earlier share their array with later ones, and a late store may bring back a
length that is gone. Where nothing sensible can follow the model stops, with `broken`
naming who came to harm: a call or the reader indexes an empty slice, meets an entry
that is nil, a length that does not fit its array, or words of two headers because
another goroutine is storing one. `solo` and `overlap` are histories that separate the
calls that ran alone from those that did not.

`History` numbers the processes under one pid. An inode belongs to the process that
opened it. A scan reads the name of the pid first and its descriptors later, the
first and the last of them as two steps. `missed` and `retired` remember what the
last empty scan found.

In `Lifecycle` an option is an operator on the fields it sets, and `complete` marks a
`Stop` that was called after `Start` had returned. "freed" means that `Delete` was
called for the cgroup; its error is ignored by the code, and what the system makes
of it is outside the model.

`Core` has a clock in minutes, with one tick of the ticker in each. The two agents
differ in the window they rank and in `showTable`; `agent` says which one runs.

Operators whose names end in a deviation (`shrinkLate`, `ReadLineOneWay`,
`enqueueBlocks`, ...) are mutants: what the code would be with a plausible bug. No
specification uses them; each is named under "mutants" in `PROJECT.json` with the
property that notices it.

## Runs

| Run | Shows | Bounds |
|---|---|---|
| `process` | `RingBounded`, `RingFaithful`, `RecentKept`, `StatsExact`, `StatsNeverInvent` | slice of 4, 5 seconds, 2 bytes per second |
| `process_race` | `NothingInvented`, `SoloKept`, `HarmOnlyByOverlap` | 3 writers, 1 reader, slice of 2, any length at the start, arrays with 0 or 1 places left, 3 calls, 1 tick |
| `attribution_twin` | `AttributionSound`, `FoundWhenQuiet` | both ends of a loopback connection, 2 processes, 4 kernel steps, scan errors |
| `attribution_reuse` | `FoundWhenQuiet`, `ClosedPurged`, `OpenFoundAgain` | 2 sockets with one pair, 1 process, 5 kernel steps |
| `netflow` | `EachPacketOnce`, `ChargedToOwner`, `CounterExact`, `DelayedIsFound`, `ImplementsAccount` | 2 packets, 2 processes, 1 device, 1 worker, queues of 1, 2 steps of kernel or cleaner |
| `netflow_live` | `PacketsSettle`, `StopEndsAll` | 2 packets, one of them ignored, 1 process, 1 change |
| `netflow_queue` | counterexample to `QueueWithinConfigured` | default size 2, configured size 1 |
| `rank` | `RankExact`, `NoCrashAlone` | 2 callers, 3 Process objects, windows 0, 1, 2, limits 1, 2, any number of calls |
| `rank_own` | counterexample to `ResultIsOwn` | as `rank` |
| `history` | `SeenIsComplete`, `NotInherited`, `OnlyNamed` | 3 processes under the pid, 3 objects, 2 workers, 3 packets, any number of scans |
| `lifecycle` | `StopReleases`, `StartedIsReleased` | 3 options with arguments 0, 1, 3 around the limits, 2 calls of `Stop` |
| `core` | `MinuteStamps`, `UploadOnce`, `SignalStopsReports`, `LaterSignalExits`, `ReportsGoOn` | both agents, 3 signals, 2 packets of the monitor, any number of minutes |

Why the bounds are enough. A slice of 4 with 5 seconds is filled and cut both
while it grows and in place; the proofs cover every size. Four or five kernel
steps open, pass on, close and reopen a connection in the middle of a scan, and
the scans themselves are not bounded. The pipeline's default is one worker; queues of
one with two packets are full, empty and overtaken in every combination. Three
signals are one for each receiver and one that the full channel drops. Three writers
and three calls let three calls overlap, or two overlap and one run alone before or
after them; the slice starts with any length up to the full one, on an array with or
without room. Three processes under a pid are one that exits before a
scan, one during it and one after it. Three options are two that set a field twice
and one that fails.

What the passing runs say in short:

- analyseStats is exact for windows of at most `maxRingSize - 2` = 59 seconds, and
  never counts a byte that did not flow in its window. `GetProcessRank` accepts 61
  (its message says 60); such a window may miss a second that `shrink` took. A window
  of n seconds is n + 1 clock seconds, divided by n.
- Goroutines that race on one Process never count a byte twice, and lose bytes of their
  own calls: a race of at most three calls loses none of a call that ran alone. (A
  fourth may: an append that comes late stores the length of a slice that was shorter,
  and leaves an older entry out. `SoloKept` is stated for three.) A crash or a slice
  longer than `maxRingSize` takes overlapping calls.
- A lookup never names a process that had nothing to do with the address pair
  since the scan began. After a scan in which nothing changed, every accepted
  connection is found by both pairs, except one whose loopback peer still waits to
  be accepted: its line maps the pairs to inode 0.
- Entries of closed sockets disappear for good; open connections whose entries
  Cleanup took away are found again.
- Who is charged for a packet held its connection while the packet was inside, or since
  the scan began that was in use at its capture. Between lookup and charge any number
  of rescans may come; a later holder may be charged for the packet of an earlier one
  (addresses are used again), a process that was forgotten before the capture may not.
- Every packet is in exactly one place, charged once or given up once; one retry after
  an undisturbed rescan is enough for an entry that was delayed before it. Seen from
  outside the pipeline is `Account`.
- As long as every scan finds a process, the Process in the dict holds all that was
  charged to it, also under a pid that changed hands between two scans. After a scan
  that found nothing, a successor starts from zero and late charges go to the old
  object. A process is charged without bearing the filter's name only if it got the
  pid between the two looks of a scan.
- A `Stop` after `Start` gives back context, file and cgroup, even if `Start` failed
  half-way; a Netflow that nobody stops, or whose caller only cancels its context,
  gives them back when the timer fires.
- GetProcessRank returns the exact top of its window while callers take turns, and does
  not panic. Callers that overlap may make GetRank, which reads the list twice, panic
  after a rescan.
- A minute bears at most one report more than the ticks that were owed when it began.
  The second agent ignores the cancelled context; the second signal ends it.
- After `Stop` every goroutine of the pipeline ends. Packets may be left in
  `packetQueue` and `delayQueue`.

Two runs end in a violation. They state what a comment or the README says, and show
that the code does otherwise:

- `netflow_queue`. README.md:166 says of `WithQueueSize`: "if the queue is full, new
  packet is thrown away". In the trace more packets are queued than were configured,
  because `New` makes the channels before the options run.
- `rank_own`. process.go:321 says "copy object", and netflow.go:231 says of
  `recentSeconds`: "the average of the last few seconds' value". In the trace a caller
  has its result, or is about to get it, when another one sorts for another window and
  replaces the figures: `Sort` writes those of all processes under the read lock, and
  `GetRank` drops its copies and returns the processes themselves.

Other hazards are bounded by a property rather than caught, because the code does
what the hazard says: the property tells how far the harm goes, and what lies within
the bound does happen in these models.

- A rate is that of n + 1 seconds divided by n (`StatsExact` takes the closed window).
- Calls that overlap on one Process lose bytes, or crash (`HarmOnlyByOverlap`), and so may
  two callers of GetRank (`NoCrashAlone`).
- A process that has no socket when a scan looks is deleted with its history; a process
  that was given the pid of another with no scan between goes on with the other's
  object (`SeenIsComplete`, `NotInherited`); one that got it within a scan may be charged
  under the other's name (`OnlyNamed`).
- `lastTime` is taken after the rescan although netflow.go:398 says "only hanlde entry
  before rescan": an entry that was delayed while the rescan ran is tried with tables
  that may have missed it, and given up (`DelayedIsFound` is about entries delayed
  before).
- A signal that `handleSignals` takes cancels the reports and does not end the process;
  one after it does (`SignalStopsReports`, `LaterSignalExits`).
- Two reports may bear one minute (`MinuteStamps`).
- After `captureTimeout` an agent goes on to report zeros, and the second agent adds the
  rate of the whole port once for every process: the reports are in `Core`, their figures
  are not.

`CHECK_DEADLOCK FALSE` is set where the system may really stop: `Process` when the
clock has reached its bound, `ProcessRace` and `History` when their bounds are used up,
`Netflow` and `Lifecycle` after `Stop`, `Core` after the exit.

## Fairness

Goroutines are scheduled fairly, so each one's own steps are weakly fair. Go
chooses at random among the ready cases of a `select`; a case that is ready again
and again is taken some time, which is strong fairness of the `Done` cases of
workers and syncer and of both cases of `processRanking`. A goroutine that waits for a
mutex gets it in the end although others lock it again and again (Go's mutex turns to
first come, first served after a millisecond): the `Lock` of the second agent's
`GetUploadTraffic` is strongly fair. In `Attribution` the
syncer's steps and the cleaner are weakly fair, with a kernel that may do
nothing. In `Lifecycle` the goroutines and the timer go on, and a call of `Stop` that
was made ends; the client need not call anything. In `Core` the clock and the ticker
are weakly fair. Packets, kernel steps, `Stop`, signals, timeouts and scan errors are never
forced. The server's answer is not assumed by the specification: the request has
no timeout, so the two properties that need it say so (`ServerAnswers`).

## Proofs

Each theorem holds for every value of the constants that the assumptions of the
modules allow, and for behaviours of any length. No property below is inductive as
it stands; each proof has an invariant that is, with one step or lemma per action.
The runs' own properties, and the inductive invariants of the scans, were put to TLC
before they were proved.

| Theorem | States | From |
|---|---|---|
| `ProcessProofs` `RingIsBounded`, `RingIsFaithful`, `RecentIsKept` | `RingBounded`, `RingFaithful`, `RecentKept` | `RingInv` |
| `ProcessProofs` `TypeCorrect` | `TypeOK` of `Process` | `RingInv` |
| `ProcessProofs` `StatsAreExact`, `StatsInventNothing` | `StatsExact`, `StatsNeverInvent` | `RingInv` |
| `ProcessProofs` `RaceTypeCorrect` | `RaceTypeOK` | `Shape` |
| `ProcessProofs` `HarmTakesOverlap` | `HarmOnlyByOverlap` | `RaceInv` |
| `ProcessProofs` `NothingIsInvented` | `NothingInvented` | `Shape`, `Unique`, `Balanced` |
| `ProcessProofs` `TwoKeepSolo` | `SoloKept`, with two calls instead of three | `RaceInv`, `Unique`, `Met`, `Kept` |
| `AttributionProofs` `TypeCorrect`, `AttributionIsSound` | `TypeOK`, `AttributionSound` | `AttrInv` |
| `AttributionProofs` `QuietIsFound` | `FoundWhenQuiet` | `AttrInv`, `QuietInv` |
| `NetflowProofs` `TypeCorrect` | `TypeOK` | `NetInv` |
| `NetflowProofs` `PacketsAreKeptOnce` | `EachPacketOnce` | `NetInv`, `PlaceInv` |
| `NetflowProofs` `ChargesAreOwned`, `NetflowIsAnAccount` | `ChargedToOwner`, `ImplementsAccount` | `NetInv`, `PlaceInv`, `OwnerInv` |
| `NetflowProofs` `CounterIsExact` | `CounterExact` | `NetInv`, `PlaceInv`, `CountInv` |
| `NetflowProofs` `RetryIsEnough` | `DelayedIsFound` | `NetInv`, `SyncInv` |
| `RankProofs` `TypeCorrect`, `RankIsExact`, `AloneIsSafe` | `TypeOK`, `RankExact`, `NoCrashAlone` | `RankInv` |
| `HistoryProofs` `TypeCorrect`, `NothingIsMissing`, `NothingIsInherited`, `OthersAreNotCharged` | `TypeOK`, `SeenIsComplete`, `NotInherited`, `OnlyNamed` | `HistoryInv` |
| `LifecycleProofs` `TypeCorrect`, `StopGivesBack` | `TypeOK`, `StopReleases` | `LifeInv` |
| `CoreProofs` `TypeCorrect`, `StampsAreBounded`, `UploadsAreExact` | `TypeOK`, `MinuteStamps`, `UploadOnce` | `CoreInv` |

**Process.** `RingInv` adds that entries are spaced at least a second apart, that
nothing has flowed in the future, that the slice is a suffix of the seconds with
traffic (`Suffix`), and that a slice which has lost a second still has
`MaxRingSize - 1` entries (`CutIsLong`): `shrink` takes from a full slice only. With
distinct seconds, `MaxRingSize - 1` entries reach back `MaxRingSize - 2` seconds,
which is `RecentKept`. `ShrinkCuts` says what the cut returns, `IncreasePreserves`
what an increase does to the invariant. `MaxRingSize >= 2` is assumed.

**Sums.** `analyseStats` adds up entries; the properties speak of sums over seconds.
Both are `SumFunctionOnSet`, and what such a sum is cannot be had from the library's
induction theorems, which take an operator. The first lemmas of `ProcessProofs` go
around that: a property of all subsets of a finite set is written as the set of those
that have it, and that this is all of them follows from the least element of the rest
(`SetInduction`, `SubsetInduction`). From there: the recursive function in the
definition exists and is unique (`SumRecExists`, `SumRecUnique`), any element may be
taken out first (`SumRemove`), and a map that is one to one carries a sum over
(`SumLess`, `SumSame`). The map here is that of an entry to its second: `RingInv` makes
it one to one, and tells which seconds of a window it does not reach (`WindowSum`).

**Shared slices.** Four invariants of `ProcessRace`, each with `RaceTypeOK` and `Shape`
(a call that cuts has something to cut, one that adds has an entry):

- `RaceInv`, for `HarmOnlyByOverlap`. A call that is not overlapped finds at each
  access what its last one left, in particular the very header it has read (`Alone`). No
  header that is stored or held is longer than the overlapped calls explain
  (`Lengthy`): an append makes it longer by one than the header it had read, which is
  covered either by `Alone` or by its own overlap. Until the first overlap slices have
  no holes (`Whole`); so a call that breaks was overlapped.
- `Unique`: no array refers to an entry twice. What is written is new, and a copy of a
  slice repeats nothing that the slice does not.
- `Balanced`: there are books, `cin` and `cout`, of what ended calls charged to each
  entry, which come to no more than `billed`. An entry never holds more than its books,
  nor does a value that a call has read and is about to add to; the reader has seen each
  of the entries in its sum once, because the places it still has to read hold none of
  them, even when an append writes one of those places.
- `Kept`, for `TwoKeepSolo`. As long as two calls at most have been overlapped, no
  third runs beside them (`Met`, `AtMostTwo`); so a header that is about to be stored is
  behind by one other call. There is a set of entries that the slice has, and has in
  places that every header still to be stored covers (`Safe`); and lower books, of what
  the calls that ran alone charged to each entry, say that their bytes are in these
  entries or in ones that were cut (`Owed`). No append writes one of their places
  (`KeepsPlaces`), even through another header on the same array. A cut takes one entry
  out of the set, an append that runs alone puts one in.

They hold for any number of goroutines and calls, and for any room that the runtime
leaves in an array.

**The two scans.** `ResolverProofs` has two groups of lemmas about `Resolver`, used for
`Attribution` and for `Netflow`. The first (`TablesInv`) is about soundness: entries
(`HashRight`) and lines still to be added (`LinesRight`) name a socket with the pair,
and, against a history of holders, what the process scan found (`FoundIn`) and the
owners of the inode map (`OwnersIn`) did hold the socket. `LookupFindsOwner` draws the
conclusion for a lookup. The second is about completeness while nothing changes:
lines show what the kernel has (`LinesFresh`), the pairs of every socket whose line was
read are in the table or on their way (`Scanned`), the process scan found exactly what
there is where it has looked (`FoundExact`), so that in the end every established
socket is named (`AllNamed`) and the process table is the kernel's (`TablesExact`).
`QuietLookup` draws the conclusion. It needs that no socket with the pair is still
unaccepted: such a socket's line hides the pair behind inode 0.

`AttrInv` puts the first group together with the histories `since` and `base`, and
with `ScanIdle`: a scan starts with nothing left over from the one before. `QuietInv`
puts the second group together with `quiet` and `synced`; `synced` survives into the
next scan, so that scan, too, must be known to add nothing wrong, even one that ends
in an error.

**The pipeline.** `NetInv` is in parts, one per group of variables, so that a step
is looked at only where it writes: the tables and scans against `since` and `base`,
the forwarders, the queues, the workers (what each has in hand at each step of its
lookup, `WorkersOK`), the delay queue, the ledger. `PlaceInv` says that each packet
has one home and that no queue and no ledger repeats a packet; `Moves` says that a
step takes one packet from one home to another, and each action of the pipeline is
shown to be a `Moves` or to leave every home alone. The one place of
`EachPacketOnce`, the steps of `Account`, and the sets that `CounterExact` counts
all follow from the same `Moves` facts. `OwnerInv` says that all whom `base` names
for a packet inside are liable for it, and so are the process that a worker has
found and the one that was charged: a lookup names one of `base` (`NamedIsLiable`),
whatever follows takes nobody out of `liable`, and a commit, which makes `base`
smaller, leaves `liable` alone. It needs `PlaceInv`: a packet in a worker's hand or
in the ledger is not on the wire, so that it is not captured, and its liables
chosen, again (`InHandIsInside`). For the refinement, initial states map to initial
states (`AccountInit`) and every step to a step or a stutter (`AccountStep`).
`SyncInv` ties `scanning` to the program counter of the syncer: when a delayed
packet is retried the scan is over, and `QuietLookup` applies.

**Rank.** A rank is read from figures and a list that all callers share. `RankInv` says
that nobody is in a call beside one that is alone (`Exclusive`), that the loop of `Sort`
takes every process once (`Gathering`), and what the shared variables are to a caller
that is alone (`Own`): its figures measured, its list sorted and complete. A rescan
between `Sort` and `GetRank` changes neither. The dict is a finite set, which
`RankAssumption` says.

**History.** `HistoryInv` follows a generation of the pid from the host through the scan
and the table into the hands of a worker: generations are numbered as they start
(`Numbered`), one that was gone when a scan found nothing does not come back (`Buried`),
what a scan finds bore the name or came between its two looks (`Checked`), a worker's
object is the one in the dict unless a scan has found nothing since (`Held`), and what
was charged is shown (`Accounted`).

**Set-up.** `LifeInv` says what `Start` has acquired by each of its steps (`Acquired`),
that a `Stop` begins with the cancellation (`Cancelled`), and what a complete one has
given back by each of its own (`GivenBack`). That the options keep the fields positive
(`OptionsKeepConf`) needs `minQueueSize > 0`, which is 1000 in the code.

**Agents.** A report may be stamped long after its tick. `Allowance` follows the tick
through the ticker's channel and the ranking goroutine: what was stamped, what waits and
what is at work are together at most what was owed and is due. `UploadOnce` is inductive
with the types and `Exclusive`: only who holds the mutex has a figure in hand that was
read from `TotalTxBytes`, so that what he writes back or returns is still true.

Assumptions on the constants are in the modules that declare them and are evaluated
by the runs: `RingSizeAssumption`, `LengthsAssumption`, `BoundsAssumption`
(Process); `RaceAssumption` (ProcessRace: finitely many goroutines, a slice of at
least 2); `AddrAssumption`, `NoInodeAssumption`, `ScanMayFailAssumption` (Kernel,
Resolver); `MaxChangesAssumption` (Attribution); `PacketsAssumption`,
`CapsAssumption` (Netflow); `RankAssumption`, `HistoryAssumption`,
`LifecycleAssumption`, `MonitorAssumption`, `CoreAssumption`. They give the
constants their types; beyond that they say that `Reverse` undoes itself, that
`None` and `NoInode` are no real values, and that the sizes named above are not
zero.

Only model-checked:

- liveness: `ClosedPurged`, `OpenFoundAgain`, `PacketsSettle`, `StopEndsAll`,
  `StartedIsReleased`, `SignalStopsReports`, `LaterSignalExits`, `ReportsGoOn`. The
  prover does not reason about fairness;
- `SoloKept` of `ProcessRace` for three overlapping calls. `Safe` lets a header be behind
  by one other call. With three, two others may cut and append while a call holds a
  header, and the proof would have to count the cuts and appends of each; TLC
  enumerates them.

## Not modelled

Packet decoding beyond the address pair, the direction of a packet, the hexadecimal
columns of `/proc/net/tcp`, the pcap file's contents (its writes are commented out in
the code), the limits of the cgroup, the figures of a report, URL building and
signing, configuration, logging and tables of output. These are conversions of data
that no control depends on. The other calls of the rpc client, `ringqueue.go`,
`GetProcesses1` and several methods of `Mapping` and the controller have no callers.

## Plan

Done: `Process`, `ProcessRace`, `Resolver` with `Attribution`, `Account` and `Netflow`,
`Rank`, `History`, `Lifecycle`, `Core` with `TrafficMonitor`, the proofs above.
What would come next: netstat, with the columns of a line as operators, checked
against their meaning.
