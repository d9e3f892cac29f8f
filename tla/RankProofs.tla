------------------------------- MODULE RankProofs -------------------------------
(***************************************************************************)
(* Proofs about GetProcessRank, for every number of callers, processes,    *)
(* windows and limits, and every traffic.                                  *)
(*                                                                         *)
(* A rank is right when its caller ran alone, but what it returns is read  *)
(* from variables that all callers share, in a later critical section than *)
(* the one that filled them.  RankInv says what those variables are to a   *)
(* caller at each point of its call, and that nobody else is in the middle *)
(* of a call while a caller counts as alone.                               *)
(***************************************************************************)
EXTENDS Rank, SequenceTheorems, FiniteSetTheorems, TLAPS

\* A goroutine that calls GetProcessRank.
Goroutine == [pc : States, sec : Windows \cup {0}, limit : Limits \cup {0},
              seen : SUBSET Procs, todo : SUBSET Procs, pos : Seq(Procs), rank : Seq(Procs)]

\* Nobody is in a call beside one that is alone.
Exclusive == \A c \in Callers : alone[c] => \A d \in Callers \ {c} : ~ Busy(d)

\* Sort's loop takes every process of the dict once.
Gathering(c) ==
    /\ caller[c].pc = "sort" =>
          /\ caller[c].todo \cup ToSet(caller[c].pos) = caller[c].seen
          /\ caller[c].todo \cap ToSet(caller[c].pos) = {}
          /\ IsInjective(caller[c].pos)
    /\ caller[c].pc # "sort" => caller[c].pos = <<>>

\* The figures of S are those of c's window.
Measured(c, S) == caller[c].sec # 0 => \A o \in S : stats[o] = volume(c, o)

\* The list has the larger figures first.
Ordered(list) == \A i, j \in DOMAIN list : i < j => stats[list[i]] >= stats[list[j]]

\* The list in the controller is the sorted dict that c saw.
Listed(c) ==
    /\ IsInjective(sortedProcesses) /\ ToSet(sortedProcesses) = caller[c].seen
    /\ Ordered(sortedProcesses)

\* What a caller that is alone finds at each point of its call.
Own(c) ==
    /\ caller[c].pc = "sort" => Measured(c, ToSet(caller[c].pos))
    /\ caller[c].pc \in {"sorted", "slice"} => Listed(c) /\ Measured(c, caller[c].seen)
    /\ caller[c].pc = "slice" => Len(sortedProcesses) > caller[c].limit
    /\ caller[c].pc # "crashed"
    /\ caller[c].pc = "idle" /\ caller[c].sec # 0 =>
          /\ TopOf(c, caller[c].rank)
          /\ \A i \in DOMAIN caller[c].rank : stats[caller[c].rank[i]] = volume(c, caller[c].rank[i])

\* The inductive invariant.
RankInv ==
    /\ dict \subseteq Procs /\ fresh \subseteq Procs
    /\ stats \in [Procs -> Nat] /\ sortedProcesses \in Seq(Procs)
    /\ caller \in [Callers -> Goroutine] /\ alone \in [Callers -> BOOLEAN]
    /\ Exclusive
    /\ \A c \in Callers : Gathering(c) /\ (alone[c] => Own(c))

\* What a caller has.
LEMMA CallerFields ==
    ASSUME RankInv, NEW c \in Callers
    PROVE  /\ caller[c].pc \in States
           /\ caller[c].sec \in Windows \cup {0}
           /\ caller[c].limit \in Limits \cup {0} /\ caller[c].limit \in Nat
           /\ caller[c].seen \subseteq Procs /\ caller[c].todo \subseteq Procs
           /\ caller[c].pos \in Seq(Procs) /\ caller[c].rank \in Seq(Procs)
<1>1. caller[c] \in Goroutine
  BY DEF RankInv
<1>2. Limits \subseteq Nat
  BY RankAssumption
<1>3. /\ caller[c].pc \in States
      /\ caller[c].sec \in Windows \cup {0} /\ caller[c].limit \in Limits \cup {0}
      /\ caller[c].seen \in SUBSET Procs /\ caller[c].todo \in SUBSET Procs
      /\ caller[c].pos \in Seq(Procs) /\ caller[c].rank \in Seq(Procs)
  BY <1>1 DEF Goroutine
<1>4. caller[c].limit \in Nat
  BY <1>2, <1>3
<1>5. caller[c].seen \subseteq Procs /\ caller[c].todo \subseteq Procs
  BY <1>3
<1>6. QED
  BY <1>3, <1>4, <1>5

-----------------------------------------------------------------------------
(* Lists.                                                                  *)

\* A list without repetitions is as long as the set of its elements is large.
LEMMA InjectiveLen ==
    ASSUME NEW s \in Seq(Procs), IsInjective(s)
    PROVE  /\ IsFiniteSet(ToSet(s)) /\ ToSet(s) \subseteq Procs
           /\ Cardinality(ToSet(s)) = Len(s)
<1>1. Len(s) \in Nat /\ s \in [1 .. Len(s) -> Procs] /\ DOMAIN s = 1 .. Len(s)
  BY LenProperties
<1>2. IsFiniteSet(1 .. Len(s)) /\ Cardinality(1 .. Len(s)) = Len(s)
  BY <1>1, FS_Interval
<1>3. s \in Surjection(1 .. Len(s), ToSet(s)) /\ s \in Injection(1 .. Len(s), ToSet(s))
  BY <1>1 DEF Surjection, Injection, ToSet, IsInjective
<1>4. /\ IsFiniteSet(ToSet(s))
      /\ Cardinality(ToSet(s)) = Cardinality(1 .. Len(s)) <=> s \in Injection(1 .. Len(s), ToSet(s))
  BY <1>2, <1>3, FS_Surjection
<1>5. ToSet(s) \subseteq Procs
  BY <1>1 DEF ToSet
<1>6. QED
  BY <1>2, <1>3, <1>4, <1>5

\* What sort.Sort makes of a set of processes has all of them, each once.
LEMMA SortedHasAll ==
    ASSUME NEW S, S \subseteq Procs, NEW order \in SetToSeqs(S)
    PROVE  order \in Seq(Procs) /\ IsInjective(order) /\ ToSet(order) = S
<1>1. IsFiniteSet(S) /\ Cardinality(S) \in Nat
  BY RankAssumption, FS_Subset, FS_CardinalityType
<1>2. /\ order \in [1 .. Cardinality(S) -> S]
      /\ \A i, j \in 1 .. Cardinality(S) : i # j => order[i] # order[j]
  BY DEF SetToSeqs
<1>3. IsInjective(order)
  BY <1>2 DEF IsInjective
<1>4. order \in Injection(1 .. Cardinality(S), S)
  BY <1>2, <1>3 DEF Injection, IsInjective
<1>5. Cardinality(1 .. Cardinality(S)) = Cardinality(S)
  BY <1>1, FS_Interval
<1>6. order \in Surjection(1 .. Cardinality(S), S)
  BY <1>1, <1>4, <1>5, FS_Injection
<1>7. ToSet(order) = S
  BY <1>2, <1>6 DEF Surjection, ToSet
<1>8. order \in Seq(Procs)
  BY <1>1, <1>2, IsASeq
<1>9. QED
  BY <1>3, <1>7, <1>8

\* The smaller of two numbers.
LEMMA MinOfTwo ==
    ASSUME NEW m \in Nat, NEW n \in Nat
    PROVE  Min({m, n}) = IF m <= n THEN m ELSE n
<1> DEFINE x == IF m <= n THEN m ELSE n
<1>1. x \in {m, n} /\ \A y \in {m, n} : x <= y
  OBVIOUS
<1>2. \A z \in {m, n} : (\A y \in {m, n} : z <= y) => z = x
  OBVIOUS
<1> HIDE DEF x
<1>3. Min({m, n}) = x
  BY <1>1, <1>2 DEF Min
<1>4. QED
  BY <1>3 DEF x

\* The first entries of a sorted list of measured processes are the top of them.
LEMMA PrefixIsTop ==
    ASSUME RankInv, NEW c \in Callers, NEW k \in 0 .. Len(sortedProcesses),
           Listed(c), Measured(c, caller[c].seen), caller[c].sec # 0,
           k = caller[c].limit \/ (k = Len(sortedProcesses) /\ k <= caller[c].limit)
    PROVE  LET list == SubSeq(sortedProcesses, 1, k)
           IN  /\ TopOf(c, list)
               /\ \A i \in DOMAIN list : stats[list[i]] = volume(c, list[i])
<1> DEFINE s == sortedProcesses
           list == SubSeq(sortedProcesses, 1, k)
<1>1. /\ s \in Seq(Procs) /\ Len(s) \in Nat /\ DOMAIN s = 1 .. Len(s)
      /\ \A i \in 1 .. Len(s) : s[i] \in Procs
      /\ k \in Nat /\ k <= Len(s)
  BY LenProperties, ElementOfSeq DEF RankInv
<1>2. /\ list \in Seq(Procs) /\ Len(list) = k
      /\ \A i \in 1 .. k : list[i] = s[i]
  BY <1>1, SubSeqProperties
<1>3. DOMAIN list = 1 .. k
  BY <1>2, LenProperties
<1>4. Cardinality(caller[c].seen) = Len(s)
  BY <1>1, InjectiveLen DEF Listed
<1>5. caller[c].limit \in Nat
  BY CallerFields
<1>6. k = Min({caller[c].limit, Len(s)})
  <2> DEFINE limit == caller[c].limit
             n == Len(s)
  <2>1. /\ limit \in Nat /\ n \in Nat /\ k \in Nat
        /\ k <= n /\ (k = limit \/ (k = n /\ k <= limit))
    BY <1>1, <1>5
  <2> HIDE DEF limit, n
  <2>2. Min({limit, n}) = IF limit <= n THEN limit ELSE n
    BY <2>1, MinOfTwo
  <2>3. k = IF limit <= n THEN limit ELSE n
    BY <2>1
  <2> QED
    BY <2>2, <2>3 DEF limit, n
<1>7. \A i \in 1 .. Len(s) : s[i] \in caller[c].seen /\ stats[s[i]] = volume(c, s[i])
  BY <1>1 DEF Listed, ToSet, Measured
<1>8. \A i, j \in 1 .. Len(s) : i < j => volume(c, s[i]) >= volume(c, s[j])
  BY <1>1, <1>7 DEF Listed, Ordered
<1>9. \A i, j \in 1 .. Len(s) : s[i] = s[j] => i = j
  BY <1>1 DEF Listed, IsInjective
<1> HIDE DEF s, list
<1>10. IsInjective(list)
  BY <1>1, <1>2, <1>3, <1>9 DEF IsInjective
<1>11. ToSet(list) \subseteq caller[c].seen
  BY <1>1, <1>2, <1>3, <1>7 DEF ToSet
<1>12. \A i, j \in DOMAIN list : i < j => volume(c, list[i]) >= volume(c, list[j])
  BY <1>1, <1>2, <1>3, <1>8
<1>13. ASSUME NEW i \in DOMAIN list, NEW o \in caller[c].seen \ ToSet(list)
       PROVE  volume(c, list[i]) >= volume(c, o)
  <2>1. PICK j \in 1 .. Len(s) : o = s[j]
    BY <1>1 DEF Listed, ToSet, s
  <2>2. j > k
    BY <1>1, <1>2, <1>3, <2>1 DEF ToSet
  <2>3. QED
    BY <1>1, <1>2, <1>3, <1>8, <2>1, <2>2
<1>14. TopOf(c, list)
  BY <1>2, <1>4, <1>6, <1>10, <1>11, <1>12, <1>13 DEF TopOf
<1>15. \A i \in DOMAIN list : stats[list[i]] = volume(c, list[i])
  BY <1>1, <1>2, <1>3, <1>7
<1>16. QED
  BY <1>14, <1>15 DEF list

-----------------------------------------------------------------------------
(* Initial states and steps.                                               *)

\* No caller is in a call, and the list is empty.
LEMMA RankInit == Init => RankInv
<1> SUFFICES ASSUME Init PROVE RankInv
  OBVIOUS
<1> DEFINE new == [pc |-> "idle", sec |-> 0, limit |-> 0, seen |-> {}, todo |-> {},
                   pos |-> <<>>, rank |-> <<>>]
<1>1. <<>> \in Seq(Procs)
  BY EmptySeq
<1>2. new \in Goroutine
  BY <1>1 DEF Goroutine, States
<1>3. caller = [c \in Callers |-> new] /\ alone = [c \in Callers |-> FALSE]
  BY DEF Init
<1>4. \A c \in Callers : caller[c] = new /\ ~ alone[c]
  BY <1>3
<1>5. caller \in [Callers -> Goroutine] /\ alone \in [Callers -> BOOLEAN]
  BY <1>2, <1>3
<1>6. \A c \in Callers : caller[c].pc = "idle" /\ caller[c].pos = <<>>
  BY <1>4
<1> HIDE DEF new
<1>7. Exclusive /\ \A c \in Callers : Gathering(c) /\ (alone[c] => Own(c))
  BY <1>4, <1>6 DEF Exclusive, Gathering
<1>8. QED
  BY <1>1, <1>5, <1>7 DEF Init, RankInv

\* A step of a caller in its call: nobody else is alone then, so that what it does
\* to the variables that are shared matters to itself only.
LEMMA OwnStep ==
    ASSUME RankInv, NEW c \in Callers, Busy(c),
           dict' = dict, fresh' = fresh, alone' = alone,
           stats' \in [Procs -> Nat], sortedProcesses' \in Seq(Procs),
           caller' \in [Callers -> Goroutine],
           \A d \in Callers \ {c} : caller'[d] = caller[d],
           Gathering(c)', alone[c] => Own(c)'
    PROVE  RankInv'
<1>1. \A d \in Callers \ {c} : ~ alone[d]
  BY DEF RankInv, Exclusive
<1>2. Exclusive'
  BY <1>1 DEF RankInv, Exclusive, Busy
<1>3. \A d \in Callers : Gathering(d)'
  BY DEF RankInv, Gathering
<1>4. \A d \in Callers : alone'[d] => Own(d)'
  BY <1>1
<1>5. QED
  BY <1>2, <1>3, <1>4 DEF RankInv

\* Rescan changes the dict; callers have their own copy of what they need of it.
LEMMA RescanStep ==
    ASSUME RankInv, Rescan \/ UNCHANGED vars
    PROVE  RankInv'
<1>1. /\ UNCHANGED <<stats, sortedProcesses, caller, alone>>
      /\ dict' \subseteq Procs /\ fresh' \subseteq Procs
  BY DEF Rescan, vars, RankInv
<1>2. \A c \in Callers : (Gathering(c)' <=> Gathering(c)) /\ (Own(c)' <=> Own(c))
  BY <1>1 DEF Gathering, Own, Measured, Listed, Ordered, TopOf, volume
<1>3. Exclusive'
  BY <1>1 DEF RankInv, Exclusive, Busy
<1>4. QED
  BY <1>1, <1>2, <1>3 DEF RankInv

\* A call begins: it is alone if no other is running, and no other call is.
LEMMA CallStep ==
    ASSUME RankInv, NEW c \in Callers, NEW sec \in Windows, NEW limit \in Limits,
           Call(c, sec, limit)
    PROVE  RankInv'
<1> DEFINE new == [pc |-> "sort", sec |-> sec, limit |-> limit, seen |-> dict, todo |-> dict,
                   pos |-> <<>>, rank |-> <<>>]
<1>1. /\ UNCHANGED <<dict, fresh, stats, sortedProcesses>>
      /\ caller' = [caller EXCEPT ![c] = new]
      /\ alone' = [d \in Callers |-> d = c /\ \A e \in Callers \ {c} : ~ Busy(e)]
  BY DEF Call, begins
<1>2. /\ new \in Goroutine
      /\ new.pc = "sort" /\ new.seen = dict /\ new.todo = dict /\ new.pos = <<>>
  BY EmptySeq DEF Goroutine, States, RankInv
<1> HIDE DEF new
<1>3. /\ caller' \in [Callers -> Goroutine] /\ caller'[c] = new
      /\ \A d \in Callers \ {c} : caller'[d] = caller[d]
  BY <1>1, <1>2 DEF RankInv
<1>4. /\ alone' \in [Callers -> BOOLEAN]
      /\ \A d \in Callers \ {c} : ~ alone'[d]
      /\ alone'[c] => \A e \in Callers \ {c} : ~ Busy(e)
  <2>1. \A d \in Callers : alone'[d] = (d = c /\ \A e \in Callers \ {c} : ~ Busy(e))
    BY <1>1, Zenon
  <2>2. alone' \in [Callers -> BOOLEAN]
    BY <1>1, Zenon
  <2>3. QED
    BY <2>1, <2>2, Zenon
<1>5. Exclusive'
  BY <1>3, <1>4 DEF Exclusive, Busy
<1>6. ToSet(<<>>) = {} /\ IsInjective(<<>>)
  BY DEF ToSet, IsInjective
<1>7. Gathering(c)'
  BY <1>2, <1>3, <1>6 DEF Gathering
<1>8. \A d \in Callers : Gathering(d)'
  BY <1>3, <1>7 DEF RankInv, Gathering
<1>9. Own(c)'
  BY <1>2, <1>3, <1>6 DEF Own, Measured
<1>10. QED
  BY <1>1, <1>3, <1>4, <1>5, <1>8, <1>9 DEF RankInv

\* A round of Sort's loop takes a process that is not in the list yet, and leaves
\* the figures of those that are.
LEMMA SortOneStep ==
    ASSUME RankInv, NEW c \in Callers, NEW o \in Procs, SortOne(c, o)
    PROVE  RankInv'
<1>0. /\ caller[c].pos \in Seq(Procs) /\ caller[c].sec \in Windows \cup {0}
      /\ caller[c].todo \subseteq Procs
      /\ caller[c] \in Goroutine
  BY CallerFields DEF RankInv
<1>1. /\ UNCHANGED <<dict, fresh, sortedProcesses, alone>>
      /\ caller[c].pc = "sort" /\ o \in caller[c].todo
      /\ stats' = IF caller[c].sec = 0 THEN stats
                  ELSE [stats EXCEPT ![o] = Volume[o][caller[c].sec]]
  BY DEF SortOne
<1> DEFINE longer == Append(caller[c].pos, o)
<1>2. /\ longer \in Seq(Procs)
      /\ ToSet(longer) = ToSet(caller[c].pos) \cup {o}
      /\ o \notin ToSet(caller[c].pos) /\ IsInjective(caller[c].pos) => IsInjective(longer)
  <2>1. /\ longer \in Seq(Procs) /\ Len(longer) = Len(caller[c].pos) + 1
        /\ \A i \in 1 .. Len(caller[c].pos) : longer[i] = caller[c].pos[i]
        /\ longer[Len(caller[c].pos) + 1] = o
    BY <1>0, AppendProperties
  <2>2. /\ Len(caller[c].pos) \in Nat /\ DOMAIN caller[c].pos = 1 .. Len(caller[c].pos)
        /\ DOMAIN longer = 1 .. Len(caller[c].pos) + 1
    BY <1>0, <2>1, LenProperties
  <2> HIDE DEF longer
  <2>3. ToSet(longer) = ToSet(caller[c].pos) \cup {o}
    BY <2>1, <2>2 DEF ToSet
  <2>4. o \notin ToSet(caller[c].pos) /\ IsInjective(caller[c].pos) => IsInjective(longer)
    <3> SUFFICES ASSUME o \notin ToSet(caller[c].pos), IsInjective(caller[c].pos),
                        NEW i \in 1 .. Len(caller[c].pos) + 1, NEW j \in 1 .. Len(caller[c].pos) + 1,
                        longer[i] = longer[j], i < j
                 PROVE  FALSE
      BY <2>2 DEF IsInjective
    <3>1. i \in 1 .. Len(caller[c].pos)
      BY <2>2
    <3>2. j \in 1 .. Len(caller[c].pos) \/ j = Len(caller[c].pos) + 1
      BY <2>2
    <3>3. CASE j = Len(caller[c].pos) + 1
      BY <2>1, <2>2, <3>1, <3>3 DEF ToSet
    <3>4. CASE j \in 1 .. Len(caller[c].pos)
      <4>1. caller[c].pos[i] = caller[c].pos[j]
        BY <2>1, <3>1, <3>4
      <4>2. i = j
        BY <2>2, <3>1, <3>4, <4>1 DEF IsInjective
      <4>3. QED
        BY <2>2, <4>2
    <3>5. QED
      BY <3>2, <3>3, <3>4
  <2>5. QED
    BY <2>1, <2>3, <2>4
<1>3. caller' = [caller EXCEPT ![c].todo = caller[c].todo \ {o}, ![c].pos = longer]
  BY DEF SortOne
<1> HIDE DEF longer
<1>4. /\ caller' \in [Callers -> Goroutine]
      /\ \A d \in Callers \ {c} : caller'[d] = caller[d]
      /\ caller'[c].pc = "sort" /\ caller'[c].sec = caller[c].sec
      /\ caller'[c].seen = caller[c].seen
      /\ caller'[c].todo = caller[c].todo \ {o} /\ caller'[c].pos = longer
  BY <1>0, <1>1, <1>2, <1>3 DEF RankInv, Goroutine
<1>5. Gathering(c)'
  BY <1>1, <1>2, <1>4 DEF RankInv, Gathering
<1>6. stats' \in [Procs -> Nat] /\ \A q \in Procs \ {o} : stats'[q] = stats[q]
  BY <1>0, <1>1, RankAssumption DEF RankInv
<1>7. caller[c].sec # 0 => stats'[o] = volume(c, o)
  BY <1>1 DEF RankInv, volume
<1>8. ASSUME alone[c] PROVE Own(c)'
  <2>1. Measured(c, ToSet(caller[c].pos)) /\ o \notin ToSet(caller[c].pos)
    BY <1>1, <1>8 DEF RankInv, Own, Gathering
  <2>2. ToSet(caller[c].pos) \subseteq Procs
    BY <1>0, ElementOfSeq, LenProperties DEF ToSet
  <2>3. \A q \in Procs : volume(c, q)' = volume(c, q)
    BY <1>4 DEF volume
  <2>4. Measured(c, ToSet(caller[c].pos))'
    BY <1>2, <1>4, <1>6, <1>7, <2>1, <2>2, <2>3 DEF Measured
  <2>5. QED
    BY <1>4, <2>4 DEF Own
<1>9. Busy(c)
  BY <1>1 DEF Busy
<1>10. QED
  BY <1>1, <1>4, <1>5, <1>6, <1>8, <1>9, OwnStep DEF RankInv

\* The list is sorted and stored. Beside another caller any order may come out; a
\* caller that is alone gets the order of its figures.
LEMMA SortEndStep ==
    ASSUME RankInv, NEW c \in Callers, SortEnd(c)
    PROVE  RankInv'
<1>0. /\ caller[c].pos \in Seq(Procs) /\ caller[c].seen \subseteq Procs
      /\ caller[c] \in Goroutine
  BY CallerFields DEF RankInv
<1>1. /\ UNCHANGED <<dict, fresh, stats, alone>>
      /\ caller[c].pc = "sort" /\ caller[c].todo = {}
      /\ caller' = [caller EXCEPT ![c].pc = "sorted", ![c].pos = <<>>]
  BY DEF SortEnd, Sorting
<1>2. PICK order \in SetToSeqs(ToSet(caller[c].pos)) :
         /\ \/ \E d \in Callers \ {c} : Sorting(d)
            \/ \A i, j \in DOMAIN order : i < j => ~ Less(order[j], order[i])
         /\ sortedProcesses' = order
  BY DEF SortEnd
<1>3. ToSet(caller[c].pos) = caller[c].seen
  BY <1>1 DEF RankInv, Gathering
<1>4. order \in Seq(Procs) /\ IsInjective(order) /\ ToSet(order) = caller[c].seen
  BY <1>0, <1>2, <1>3, SortedHasAll
<1>5. /\ caller' \in [Callers -> Goroutine]
      /\ \A d \in Callers \ {c} : caller'[d] = caller[d]
      /\ caller'[c].pc = "sorted" /\ caller'[c].pos = <<>>
      /\ caller'[c].sec = caller[c].sec /\ caller'[c].seen = caller[c].seen
  <2>1. <<>> \in Seq(Procs)
    BY EmptySeq
  <2>2. QED
    BY <1>0, <1>1, <2>1 DEF RankInv, Goroutine, States
<1>6. Gathering(c)'
  BY <1>5 DEF Gathering
<1>7. ASSUME alone[c] PROVE Own(c)'
  <2>1. \A d \in Callers \ {c} : ~ Sorting(d)
    BY <1>7 DEF RankInv, Exclusive, Busy, Sorting
  <2>2. \A i, j \in DOMAIN order : i < j => ~ Less(order[j], order[i])
    BY <1>2, <2>1
  <2>3. \A i \in DOMAIN order : order[i] \in Procs
    BY <1>4, LenProperties, ElementOfSeq
  <2>4. \A i, j \in DOMAIN order : i < j => stats[order[i]] >= stats[order[j]]
    BY <2>2, <2>3 DEF Less, RankInv
  <2>5. Listed(c)'
    BY <1>1, <1>2, <1>4, <1>5, <2>4 DEF Listed, Ordered
  <2>6. Measured(c, caller[c].seen)
    BY <1>1, <1>3, <1>7 DEF RankInv, Own
  <2>7. Measured(c, caller[c].seen)'
    BY <1>1, <1>5, <2>6 DEF Measured, volume
  <2>8. QED
    BY <1>5, <2>5, <2>7 DEF Own
<1>8. Busy(c)
  BY <1>1 DEF Busy
<1>9. sortedProcesses' \in Seq(Procs)
  BY <1>2, <1>4
<1>10. QED
  BY <1>1, <1>5, <1>6, <1>7, <1>8, <1>9, OwnStep DEF RankInv

\* A caller returns its part of the list: all of it, or as many as the limit
\* allows.
LEMMA ReturnStep ==
    ASSUME RankInv, NEW c \in Callers, NEW k \in 0 .. Len(sortedProcesses),
           caller[c].pc \in {"sorted", "slice"},
           k = caller[c].limit \/ (k = Len(sortedProcesses) /\ k <= caller[c].limit),
           returns(c, SubSeq(sortedProcesses, 1, k)),
           UNCHANGED <<dict, fresh, stats, sortedProcesses, alone>>
    PROVE  RankInv'
<1> DEFINE list == SubSeq(sortedProcesses, 1, k)
<1>0. caller[c] \in Goroutine
  BY DEF RankInv
<1>1. list \in Seq(Procs)
  <2>1. /\ sortedProcesses \in Seq(Procs) /\ Len(sortedProcesses) \in Nat
        /\ \A i \in 1 .. Len(sortedProcesses) : sortedProcesses[i] \in Procs
    BY LenProperties, ElementOfSeq DEF RankInv
  <2>2. QED
    BY <2>1, SubSeqProperties
<1>2. caller' = [caller EXCEPT ![c].pc = "idle", ![c].rank = list]
  BY DEF returns
<1>3. ASSUME alone[c], caller[c].sec # 0
      PROVE  /\ TopOf(c, list)
             /\ \A i \in DOMAIN list : stats[list[i]] = volume(c, list[i])
  <2>1. Listed(c) /\ Measured(c, caller[c].seen)
    BY <1>3 DEF RankInv, Own
  <2>2. QED
    BY <1>3, <2>1, PrefixIsTop
<1> HIDE DEF list
<1>4. /\ caller' \in [Callers -> Goroutine]
      /\ \A d \in Callers \ {c} : caller'[d] = caller[d]
      /\ caller'[c].pc = "idle" /\ caller'[c].rank = list
      /\ caller'[c].sec = caller[c].sec /\ caller'[c].limit = caller[c].limit
      /\ caller'[c].seen = caller[c].seen /\ caller'[c].pos = caller[c].pos
  BY <1>0, <1>1, <1>2 DEF RankInv, Goroutine, States
<1>5. Gathering(c)'
  BY <1>4 DEF RankInv, Gathering
<1>6. ASSUME alone[c] PROVE Own(c)'
  <2>1. caller[c].sec # 0 =>
           /\ TopOf(c, list)
           /\ \A i \in DOMAIN list : stats[list[i]] = volume(c, list[i])
    BY <1>3, <1>6
  <2>2. /\ TopOf(c, caller[c].rank)' <=> TopOf(c, list)
        /\ \A o : volume(c, o)' = volume(c, o)
    BY <1>4 DEF TopOf, volume
  <2>3. stats' = stats
    OBVIOUS
  <2>4. QED
    BY <1>4, <2>1, <2>2, <2>3 DEF Own
<1>7. Busy(c)
  BY DEF Busy
<1>8. QED
  BY <1>4, <1>5, <1>6, <1>7, OwnStep DEF RankInv

\* GetRank goes on to cut a list that was too long; or it read the list's header
\* while another caller stored one, and crashed.
LEMMA MoveStep ==
    ASSUME RankInv, NEW c \in Callers, NEW to \in {"slice", "crashed"},
           caller[c].pc \in {"sorted", "slice"},
           caller' = [caller EXCEPT ![c].pc = to],
           to = "slice" => caller[c].pc = "sorted" /\ Len(sortedProcesses) > caller[c].limit,
           to = "crashed" => ~ alone[c],
           UNCHANGED <<dict, fresh, stats, sortedProcesses, alone>>
    PROVE  RankInv'
<1>0. caller[c] \in Goroutine
  BY DEF RankInv
<1>1. /\ caller' \in [Callers -> Goroutine]
      /\ \A d \in Callers \ {c} : caller'[d] = caller[d]
      /\ caller'[c].pc = to
      /\ caller'[c].sec = caller[c].sec /\ caller'[c].limit = caller[c].limit
      /\ caller'[c].seen = caller[c].seen /\ caller'[c].pos = caller[c].pos
  BY <1>0 DEF RankInv, Goroutine, States
<1>2. Gathering(c)'
  BY <1>1 DEF RankInv, Gathering
<1>3. ASSUME alone[c] PROVE Own(c)'
  <2>1. to = "slice" /\ Listed(c) /\ Measured(c, caller[c].seen)
    BY <1>3 DEF RankInv, Own
  <2>2. Listed(c)' /\ Measured(c, caller[c].seen)'
    BY <1>1, <2>1 DEF Listed, Ordered, Measured, volume
  <2>3. QED
    BY <1>1, <2>1, <2>2 DEF Own
<1>4. Busy(c)
  BY DEF Busy
<1>5. QED
  BY <1>1, <1>2, <1>3, <1>4, OwnStep DEF RankInv

\* The three steps of GetRank. A caller that is alone finds the list as long as it
\* was at the first read, and nobody storing another.
LEMMA GetRankStep ==
    ASSUME RankInv, NEW c \in Callers, GetRank(c) \/ GetRankCut(c) \/ TornRead(c)
    PROVE  RankInv'
<1>0. /\ sortedProcesses \in Seq(Procs) /\ Len(sortedProcesses) \in Nat
      /\ caller[c].limit \in Nat
  BY CallerFields, LenProperties DEF RankInv
<1>1. UNCHANGED <<dict, fresh, stats, sortedProcesses, alone>>
  BY DEF GetRank, GetRankCut, TornRead
<1>2. CASE GetRank(c)
  <2>1. caller[c].pc = "sorted"
    BY <1>2 DEF GetRank
  <2>2. CASE Len(sortedProcesses) > caller[c].limit
    BY <1>1, <1>2, <2>1, <2>2, MoveStep DEF GetRank
  <2>3. CASE Len(sortedProcesses) <= caller[c].limit
    <3>1. returns(c, SubSeq(sortedProcesses, 1, Len(sortedProcesses)))
      <4>1. ~ Len(sortedProcesses) > caller[c].limit
        BY <1>0, <2>3
      <4>2. returns(c, sortedProcesses)
        BY <1>2, <4>1 DEF GetRank
      <4>3. SubSeq(sortedProcesses, 1, Len(sortedProcesses)) = sortedProcesses
        BY <1>0, SubSeqFull
      <4>4. QED
        BY <4>2, <4>3
    <3>2. QED
      BY <1>0, <1>1, <2>1, <2>3, <3>1, ReturnStep
  <2>4. QED
    BY <1>0, <2>2, <2>3
<1>3. CASE GetRankCut(c)
  <2>1. caller[c].pc = "slice"
    BY <1>3 DEF GetRankCut
  <2>2. CASE Len(sortedProcesses) >= caller[c].limit
    <3>1. returns(c, SubSeq(sortedProcesses, 1, caller[c].limit))
      BY <1>3, <2>2 DEF GetRankCut
    <3>2. caller[c].limit \in 0 .. Len(sortedProcesses)
      BY <1>0, <2>2
    <3>3. QED
      BY <1>0, <1>1, <2>1, <3>1, <3>2, ReturnStep
  <2>3. CASE ~ Len(sortedProcesses) >= caller[c].limit
    <3>1. ~ alone[c]
      BY <1>0, <2>1, <2>3 DEF RankInv, Own
    <3>2. caller' = [caller EXCEPT ![c].pc = "crashed"]
      BY <1>3, <2>3 DEF GetRankCut
    <3>3. QED
      BY <1>1, <2>1, <3>1, <3>2, MoveStep
  <2>4. QED
    BY <2>2, <2>3
<1>4. CASE TornRead(c)
  <2>1. /\ caller[c].pc \in {"sorted", "slice"}
        /\ caller' = [caller EXCEPT ![c].pc = "crashed"]
    BY <1>4 DEF TornRead
  <2>2. ~ alone[c]
    BY <1>4 DEF TornRead, RankInv, Exclusive, Busy, Sorting
  <2>3. QED
    BY <1>1, <2>1, <2>2, MoveStep
<1>5. QED
  BY <1>2, <1>3, <1>4

-----------------------------------------------------------------------------
(* Theorems.                                                               *)

\* What the shared list and figures are to a caller at each point of its call.
THEOREM RankInvariant == Spec => []RankInv
<1>1. Init => RankInv
  BY RankInit
<1>2. RankInv /\ [Next]_vars => RankInv'
  BY RescanStep, CallStep, SortOneStep, SortEndStep, GetRankStep DEF Next
<1>3. QED
  BY <1>1, <1>2, PTL DEF Spec

\* Lists are of processes, and none is longer than there are processes.
THEOREM TypeCorrect == Spec => []TypeOK
<1>1. RankInv => TypeOK
  <2> SUFFICES ASSUME RankInv, NEW c \in Callers
               PROVE  Len(caller[c].pos) <= Cardinality(Procs)
    BY CallerFields DEF TypeOK, RankInv
  <2>1. caller[c].pos \in Seq(Procs) /\ IsInjective(caller[c].pos)
    <3>1. IsInjective(<<>>)
      BY DEF IsInjective
    <3>2. QED
      BY <3>1, CallerFields DEF RankInv, Gathering
  <2>2. /\ ToSet(caller[c].pos) \subseteq Procs
        /\ Cardinality(ToSet(caller[c].pos)) = Len(caller[c].pos)
    BY <2>1, InjectiveLen
  <2>3. QED
    BY <2>2, RankAssumption, FS_Subset
<1>2. QED
  BY <1>1, RankInvariant, PTL

\* A caller that ran alone has the processes with the most traffic in its window,
\* whatever rescans came between its two critical sections, and the figures in
\* them stay those of its window until somebody asks again (process.go:312-343).
THEOREM RankIsExact == Spec => []RankExact
<1>1. RankInv => RankExact
  BY DEF RankInv, Own, RankExact
<1>2. QED
  BY <1>1, RankInvariant, PTL

\* A caller that is alone never cuts a list that is too short
\* (process.go:329-343).
THEOREM AloneIsSafe == Spec => []NoCrashAlone
<1>1. RankInv => NoCrashAlone
  BY DEF RankInv, Own, NoCrashAlone
<1>2. QED
  BY <1>1, RankInvariant, PTL
=============================================================================
