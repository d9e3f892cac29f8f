------------------------------ MODULE ProcessRace ------------------------------
(***************************************************************************)
(* The traffic history of one Process (process.go) as goroutines share it: *)
(* workers and the resource syncer run IncreaseInput and IncreaseOutput    *)
(* (netflow.go, increaseProcessTraffic) and a caller of GetProcessRank     *)
(* runs analyseStats, all without a lock of the Process.                   *)
(*                                                                         *)
(* Every access to shared memory is a step.  A slice is a header: an array *)
(* of references to entries, an offset into it and a length.  append       *)
(* writes the next place of the array it has read the header of, and only  *)
(* the length word of po.Ring; or, when that array has no room, all words  *)
(* of a header of a new array.  So a header that was read earlier shares   *)
(* its array with later ones, and a late store may mix words of two slices.*)
(* When words do not fit together at all, or nil is dereferenced, the      *)
(* program crashes or worse: the model stops there (`broken`).             *)
(***************************************************************************)
EXTENDS Integers, Sequences, FiniteSets, Functions

CONSTANTS
    Writers,        \* goroutines that charge this process
    RingSize,       \* maxRingSize, 61 in the code
    Sizes,          \* lengths of packets
    LastSecond,     \* bound: the last second of the clock
    MaxCalls,       \* bound: calls of IncreaseInput and IncreaseOutput
    MaxRoom         \* bound: places that a new array has left

ASSUME RaceAssumption ==
    /\ IsFiniteSet(Writers)
    /\ RingSize \in Nat /\ RingSize >= 2
    /\ Sizes \subseteq Nat
    /\ LastSecond \in Nat /\ MaxCalls \in Nat /\ MaxRoom \in Nat

VARIABLES
    clock,      \* time.Now().Unix()
    poRing,     \* po.Ring, a header [arr, off, len]
    arrays,     \* the arrays behind slices: references to entries, or nil
    heap,       \* the entries: heap[o] = [Timestamp, In, Out]
    pc,         \* pc[w]: the next shared access of w's call
    my,         \* my[w]: w's arguments and locals
    reader,     \* analyseStats: its slice, the index it is at and its sum
    broken,     \* who used words that do not fit: "no", "writer" or "reader"
    calls,      \* calls begun
    evicted,    \* history: entries that shrink cut off
    overlap,    \* history: overlap[w]: another call ran during w's call
    overlaps,   \* history: calls that ended and were overlapped
    billed,     \* history: bytes of the calls that ended
    solo        \* history: bytes of the calls that ended and ran alone

memory    == <<poRing, arrays, heap>>
histories == <<evicted, overlap, overlaps, billed, solo>>
raceVars  == <<clock, memory, pc, my, reader, broken, calls, histories>>

nil == 0

Objects == DOMAIN heap

Entry == [Timestamp : Int, In : Nat, Out : Nat]

Header == [arr : DOMAIN arrays, off : Nat, len : Nat]

noSlice == [arr |-> 1, off |-> 0, len |-> 0]

Locals == [t : 0 .. LastSecond, dir : {"In", "Out"}, n : Nat, slice : Header,
           item : Objects \cup {nil}, old : Nat]

locals == [t |-> 0, dir |-> "In", n |-> 0, slice |-> noSlice, item |-> nil, old |-> 0]

\* The references of a slice.
view(s) == [i \in 1 .. s.len |-> arrays[s.arr][s.off + i]]

fits(s) == s.off + s.len <= Len(arrays[s.arr])

\* cap(s) > len(s)
hasRoom(s) == s.off + s.len < Len(arrays[s.arr])

\* Type invariant: a header lies within its array, references lead to entries and
\* every goroutine is at one of its shared accesses.
RaceTypeOK ==
    /\ clock \in 0 .. LastSecond
    /\ heap \in Seq(Entry)
    /\ arrays \in Seq(Seq(Objects \cup {nil}))
    /\ poRing \in Header /\ fits(poRing)
    /\ pc \in [Writers -> {"idle", "empty", "full", "cut", "cutStore", "last", "load",
                           "store", "append", "appendStore"}]
    /\ my \in [Writers -> Locals]
    /\ \A w \in Writers : fits(my[w].slice)
    /\ reader \in [pc : {"idle", "loop"}, slice : Header, next : Nat \ {0}, In : Nat]
    /\ fits(reader.slice)
    /\ broken \in {"no", "writer", "reader"}
    /\ calls \in 0 .. MaxCalls
    /\ evicted \subseteq Objects
    /\ overlap \in [Writers -> BOOLEAN]
    /\ overlaps \in Nat /\ billed \in Nat /\ solo \in Nat

\* A slice as earlier calls, one at a time, may have left it: any length, one
\* entry for each of the last seconds. The first slice is nil.
RaceInit ==
    /\ clock = 0
    /\ \E k \in 0 .. RingSize, room \in 0 .. MaxRoom :
          /\ k = 0 => room = 0
          /\ poRing = [arr |-> 1, off |-> 0, len |-> k]
          /\ arrays = <<[i \in 1 .. k + room |-> IF i <= k THEN i ELSE nil]>>
          /\ heap = [i \in 1 .. k |-> [Timestamp |-> i - k - 1, In |-> 1, Out |-> 0]]
          /\ billed = k /\ solo = k
    /\ pc = [w \in Writers |-> "idle"]
    /\ my = [w \in Writers |-> locals]
    /\ reader = [pc |-> "idle", slice |-> noSlice, next |-> 1, In |-> 0]
    /\ broken = "no" /\ calls = 0
    /\ evicted = {} /\ overlap = [w \in Writers |-> FALSE] /\ overlaps = 0

-----------------------------------------------------------------------------
(* One call of IncreaseInput (dir = "In") or IncreaseOutput ("Out").       *)

at(w, here) == broken = "no" /\ pc[w] = here

goto(w, there) == pc' = [pc EXCEPT ![w] = there]

Running == {w \in Writers : pc[w] # "idle"}

\* now := time.Now().Unix()
Call(w, dir, n) ==
    /\ at(w, "idle") /\ calls < MaxCalls
    /\ calls' = calls + 1
    /\ goto(w, "empty")
    /\ my' = [my EXCEPT ![w] = [locals EXCEPT !.t = clock, !.dir = dir, !.n = n]]
    /\ overlap' = [v \in Writers |-> overlap[v] \/ (Running # {} /\ v \in Running \cup {w})]
    /\ UNCHANGED <<clock, memory, reader, broken, evicted, overlaps, billed, solo>>

\* The goroutine is back: its call was overlapped, or ran alone.
return(w) ==
    /\ goto(w, "idle")
    /\ my' = [my EXCEPT ![w] = locals]
    /\ billed' = billed + my[w].n
    /\ IF overlap[w]
       THEN overlaps' = overlaps + 1 /\ UNCHANGED solo
       ELSE solo' = solo + my[w].n /\ UNCHANGED overlaps
    /\ overlap' = [overlap EXCEPT ![w] = FALSE]

\* len(po.Ring) == 0
TestEmpty(w) ==
    /\ at(w, "empty")
    /\ goto(w, IF poRing.len = 0 THEN "append" ELSE "full")
    /\ UNCHANGED <<clock, memory, my, reader, broken, calls, histories>>

\* Mutant of tooLong: one entry more is let in.
tooLongLate == poRing.len > RingSize

\* shrink: len(po.Ring) >= maxRingSize
tooLong == poRing.len >= RingSize

TestFull(w) ==
    /\ at(w, "full")
    /\ goto(w, IF tooLong THEN "cut" ELSE "last")
    /\ UNCHANGED <<clock, memory, my, reader, broken, calls, histories>>

\* The header is read for po.Ring[1:], which needs an entry, or for append.
LoadSlice(w, here, there) ==
    /\ at(w, here) /\ (here = "cut" => poRing.len > 0)
    /\ goto(w, there)
    /\ my' = [my EXCEPT ![w].slice = poRing]
    /\ UNCHANGED <<clock, memory, reader, broken, calls, histories>>

\* Mutant of cutOff: the newest entry is cut.
cutNewest(s) == [s EXCEPT !.len = @ - 1]

cutOff(s) == [s EXCEPT !.off = @ + 1, !.len = @ - 1]

\* po.Ring = po.Ring[1:], all three words.
StoreCut(w) ==
    /\ at(w, "cutStore")
    /\ poRing' = cutOff(my[w].slice)
    /\ evicted' = evicted \cup ({view(my[w].slice)[1]} \ {nil})
    /\ goto(w, "last")
    /\ my' = [my EXCEPT ![w].slice = noSlice]
    /\ UNCHANGED <<clock, arrays, heap, reader, broken, calls, overlap, overlaps, billed, solo>>

\* The last entry of po.Ring can be read.
HasLast == poRing.len > 0 /\ view(poRing)[poRing.len] # nil

\* item := po.Ring[len(po.Ring)-1], and its Timestamp, which is never written.
ReadLast(w) ==
    /\ at(w, "last") /\ HasLast
    /\ LET o == view(poRing)[poRing.len]
       IN  IF heap[o].Timestamp = my[w].t
           THEN goto(w, "load") /\ my' = [my EXCEPT ![w].item = o]
           ELSE goto(w, "append") /\ UNCHANGED my
    /\ UNCHANGED <<clock, memory, reader, broken, calls, histories>>

\* item.In += n, the read ...
LoadItem(w) ==
    /\ at(w, "load") /\ goto(w, "store")
    /\ my' = [my EXCEPT ![w].old = heap[my[w].item][my[w].dir]]
    /\ UNCHANGED <<clock, memory, reader, broken, calls, histories>>

\* ... and the write.
StoreItem(w) ==
    /\ at(w, "store")
    /\ heap' = [heap EXCEPT ![my[w].item][my[w].dir] = my[w].old + my[w].n]
    /\ return(w)
    /\ UNCHANGED <<clock, poRing, arrays, reader, broken, calls, evicted>>

\* Mutant of newItem: the length is subtracted.
itemNegated(w) ==
    [[Timestamp |-> my[w].t, In |-> 0, Out |-> 0] EXCEPT ![my[w].dir] = 0 - my[w].n]

newItem(w) == [[Timestamp |-> my[w].t, In |-> 0, Out |-> 0] EXCEPT ![my[w].dir] = my[w].n]

\* Mutant of afterAppend: the return after the first append is missing.
afterAppendOn(w) ==
    IF my[w].slice.len = 0
    THEN goto(w, "full") /\ UNCHANGED <<my, overlap, overlaps, billed, solo>>
    ELSE return(w)

afterAppend(w) == return(w)

\* po.Ring with the length word of append's result.
lengthened(s) == [poRing EXCEPT !.len = s.len + 1]

\* append in place: the next place of the array that was read, and the length.
extend(s, o) ==
    /\ hasRoom(s) /\ fits(lengthened(s))
    /\ arrays' = [arrays EXCEPT ![s.arr][s.off + s.len + 1] = o]
    /\ poRing' = lengthened(s)

\* append with a new array, into which the slice is copied.
grow(s, o, room) ==
    /\ ~ hasRoom(s)
    /\ arrays' = Append(arrays, [i \in 1 .. s.len + 1 + room |->
                                    IF i <= s.len THEN view(s)[i]
                                    ELSE IF i = s.len + 1 THEN o ELSE nil])
    /\ poRing' = [arr |-> Len(arrays) + 1, off |-> 0, len |-> s.len + 1]

\* po.Ring = append(po.Ring, item)
StoreAppend(w) ==
    /\ at(w, "appendStore")
    /\ heap' = Append(heap, newItem(w))
    /\ \/ extend(my[w].slice, Len(heap) + 1)
       \/ \E room \in 0 .. MaxRoom : grow(my[w].slice, Len(heap) + 1, room)
    /\ afterAppend(w)
    /\ UNCHANGED <<clock, reader, broken, calls, evicted>>

\* v is about to store all words of a header.
StoresHeader(v) ==
    pc[v] = "cutStore" \/ (pc[v] = "appendStore" /\ ~ hasRoom(my[v].slice))

\* A read of the header while v stores one, or lengthens the slice before it
\* writes the entry, may find words that do not fit or an entry that is nil.
Storing(v) == pc[v] \in {"cutStore", "appendStore"}

\* The ways in which a call goes wrong: [1:] of an empty slice, no last entry,
\* a length that is too long for the array it meets, and words of two stores.
Break(w) ==
    /\ \/ /\ at(w, "cut")
          /\ poRing.len = 0 \/ \E v \in Writers : StoresHeader(v)
       \/ at(w, "append") /\ \E v \in Writers : Storing(v)
       \/ /\ at(w, "last")
          /\ ~ HasLast \/ \E v \in Writers : Storing(v)
       \/ /\ at(w, "appendStore") /\ hasRoom(my[w].slice)
          /\ ~ fits(lengthened(my[w].slice))
       \/ broken = "no" /\ StoresHeader(w) /\ \E v \in Writers \ {w} : StoresHeader(v)
    /\ broken' = "writer"
    /\ UNCHANGED <<clock, memory, pc, my, reader, calls, histories>>

Step(w) ==
    \/ TestEmpty(w) \/ TestFull(w)
    \/ LoadSlice(w, "cut", "cutStore") \/ StoreCut(w)
    \/ ReadLast(w) \/ LoadItem(w) \/ StoreItem(w)
    \/ LoadSlice(w, "append", "appendStore") \/ StoreAppend(w)
    \/ Break(w)

-----------------------------------------------------------------------------
(* analyseStats: the header is read once, the entries one by one.  The     *)
(* window reaches back before the clock's start, so that no entry with     *)
(* traffic is skipped.  The sum of Out is made the same way as that of In. *)

StatsBegin ==
    /\ broken = "no" /\ reader.pc = "idle"
    /\ reader' = [pc |-> "loop", slice |-> poRing, next |-> 1, In |-> 0]
    /\ UNCHANGED <<clock, memory, pc, my, broken, calls, histories>>

StatsItem ==
    /\ broken = "no" /\ reader.pc = "loop" /\ reader.next <= reader.slice.len
    /\ LET o == view(reader.slice)[reader.next]
       IN  /\ o # nil
           /\ reader' = [reader EXCEPT !.next = @ + 1, !.In = @ + heap[o].In]
    /\ UNCHANGED <<clock, memory, pc, my, broken, calls, histories>>

\* p.TrafficStats = stats, which none of these goroutines reads.
StatsEnd ==
    /\ broken = "no" /\ reader.pc = "loop" /\ reader.next > reader.slice.len
    /\ reader' = [pc |-> "idle", slice |-> noSlice, next |-> 1, In |-> 0]
    /\ UNCHANGED <<clock, memory, pc, my, broken, calls, histories>>

\* The reader meets a header that is being stored, or a nil.
StatsBreak ==
    /\ broken = "no"
    /\ \/ reader.pc = "idle" /\ \E v \in Writers : Storing(v)
       \/ /\ reader.pc = "loop" /\ reader.next <= reader.slice.len
          /\ view(reader.slice)[reader.next] = nil
    /\ broken' = "reader"
    /\ UNCHANGED <<clock, memory, pc, my, reader, calls, histories>>

RaceTick ==
    /\ broken = "no" /\ clock < LastSecond /\ clock' = clock + 1
    /\ UNCHANGED <<memory, pc, my, reader, broken, calls, histories>>

RaceNext ==
    \/ \E w \in Writers, dir \in {"In", "Out"}, n \in Sizes : Call(w, dir, n)
    \/ \E w \in Writers : Step(w)
    \/ StatsBegin \/ StatsItem \/ StatsEnd \/ StatsBreak
    \/ RaceTick

RaceSpec == RaceInit /\ [][RaceNext]_raceVars

-----------------------------------------------------------------------------
(* Properties.                                                             *)

\* The bytes of the entries in S.
bytes(S) == SumFunctionOnSet([o \in Objects |-> heap[o].In + heap[o].Out], S)

\* However the reads and writes of the callers and of analyseStats fall, no byte
\* is counted twice: the slice never refers to an entry twice, and neither the
\* entries nor the statistics hold more than was charged (process.go:42-124).
NothingInvented ==
    /\ \A i, j \in 1 .. poRing.len :
          view(poRing)[i] = view(poRing)[j] /\ view(poRing)[i] # nil => i = j
    /\ bytes(Objects) <= billed
    /\ reader.In <= billed

\* The calls that were overlapped, ended or not.
involved == overlaps + Cardinality({w \in Writers : overlap[w]})

\* A race of at most three calls costs their own bytes and no others: what a call
\* added while no other ran stays in the slice, or was cut off by shrink. (With
\* more calls the length that a late append stores may leave older entries out.)
SoloKept ==
    involved <= 3 => bytes((Range(view(poRing)) \ {nil}) \cup evicted) >= solo

\* What goes wrong takes overlapping calls. Without them no call finds the slice
\* empty after shrink, or words that do not fit, and a reader only if it reads
\* during a call; and the slice outgrows maxRingSize by at most one entry for each
\* call that was overlapped. (It can: two callers see room for one, and two that
\* cut the slice may cut it once.)
HarmOnlyByOverlap ==
    /\ broken = "writer" => involved > 0
    /\ broken = "reader" => involved > 0 \/ Running # {}
    /\ poRing.len <= RingSize + involved
=============================================================================
