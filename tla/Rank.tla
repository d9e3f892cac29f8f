--------------------------------- MODULE Rank ---------------------------------
(***************************************************************************)
(* GetProcessRank (netflow.go) with Sort and GetRank (process.go).  Sort   *)
(* computes the statistics of every process for the caller's window and    *)
(* stores the sorted list in the controller; GetRank reads the list back.  *)
(* Both hold the read lock only, so callers run beside each other and      *)
(* write what they share; Rescan, which holds the lock, comes in between.  *)
(*                                                                         *)
(* A Process is an object: one that Rescan removed does not come back, a   *)
(* new one takes its place.  Its traffic does not change here, so that a   *)
(* rank can be judged: Volume[o][sec] are the bytes of o in the window.    *)
(***************************************************************************)
EXTENDS Integers, Sequences, SequencesExt, FiniteSets

CONSTANTS
    Callers,
    Procs,      \* Process objects
    Windows,    \* values of recentSeconds that GetProcessRank accepts
    Limits,     \* values of limit
    Volume      \* Volume[o][sec]

ASSUME RankAssumption ==
    /\ IsFiniteSet(Procs)
    /\ Windows \subseteq Nat /\ Limits \subseteq Nat
    /\ Volume \in [Procs -> [Windows -> Nat]]

VARIABLES
    dict,               \* the objects in the controller's dict
    fresh,              \* objects that were not created yet
    stats,              \* stats[o]: In + Out of its TrafficStats
    sortedProcesses,    \* the list that Sort stored last
    caller,             \* caller[c]: the goroutine's state and its last result
    alone               \* alone[c]: no other call since c's last call began

vars == <<dict, fresh, stats, sortedProcesses, caller, alone>>

States == {"idle", "sort", "sorted", "slice", "crashed"}

\* Type invariant: a list has no more entries than there are objects.
TypeOK ==
    /\ dict \subseteq Procs /\ fresh \subseteq Procs
    /\ stats \in [Procs -> Nat]
    /\ sortedProcesses \in Seq(Procs)
    /\ \A c \in Callers :
          /\ caller[c].pc \in States
          /\ caller[c].sec \in Windows \cup {0} /\ caller[c].limit \in Limits \cup {0}
          /\ caller[c].seen \subseteq Procs /\ caller[c].todo \subseteq Procs
          /\ caller[c].pos \in Seq(Procs) /\ Len(caller[c].pos) <= Cardinality(Procs)
          /\ caller[c].rank \in Seq(Procs)
    /\ alone \in [Callers -> BOOLEAN]

Init ==
    /\ dict = {} /\ fresh = Procs
    /\ stats = [o \in Procs |-> 0]
    /\ sortedProcesses = <<>>
    /\ caller = [c \in Callers |->
                    [pc |-> "idle", sec |-> 0, limit |-> 0, seen |-> {}, todo |-> {},
                     pos |-> <<>>, rank |-> <<>>]]
    /\ alone = [c \in Callers |-> FALSE]

\* The read lock is held.
Reading(c) == caller[c].pc \in {"sort", "slice"}

\* Rescan, under the write lock: objects leave the dict and new ones enter.
Rescan ==
    /\ \A c \in Callers : ~ Reading(c)
    /\ \E gone \in SUBSET dict, new \in SUBSET fresh :
          /\ dict' = (dict \ gone) \cup new
          /\ fresh' = fresh \ new
    /\ UNCHANGED <<stats, sortedProcesses, caller, alone>>

Busy(c) == caller[c].pc \notin {"idle", "crashed"}

begins(c) == alone' = [d \in Callers |-> d = c /\ \A e \in Callers \ {c} : ~ Busy(e)]

\* Mutant of Call: Sort appends to the list of the last call.
CallKeepsList(c, sec, limit) ==
    /\ caller[c].pc = "idle"
    /\ caller' = [caller EXCEPT ![c] =
          [pc |-> "sort", sec |-> sec, limit |-> limit, seen |-> dict, todo |-> dict,
           pos |-> sortedProcesses, rank |-> <<>>]]
    /\ begins(c)
    /\ UNCHANGED <<dict, fresh, stats, sortedProcesses>>

\* GetProcessRank is called, and Sort takes the read lock.
Call(c, sec, limit) ==
    /\ caller[c].pc = "idle"
    /\ caller' = [caller EXCEPT ![c] =
          [pc |-> "sort", sec |-> sec, limit |-> limit, seen |-> dict, todo |-> dict,
           pos |-> <<>>, rank |-> <<>>]]
    /\ begins(c)
    /\ UNCHANGED <<dict, fresh, stats, sortedProcesses>>

\* One round of Sort's loop: analyseStats, which does nothing when sec is 0.
SortOne(c, o) ==
    /\ caller[c].pc = "sort" /\ o \in caller[c].todo
    /\ caller' = [caller EXCEPT ![c].todo = @ \ {o}, ![c].pos = Append(@, o)]
    /\ stats' = IF caller[c].sec = 0 THEN stats
                ELSE [stats EXCEPT ![o] = Volume[o][caller[c].sec]]
    /\ UNCHANGED <<dict, fresh, sortedProcesses, alone>>

\* Mutant of Less: the comparison is turned round.
More(o, q) == stats[o] < stats[q]

Less(o, q) == stats[o] > stats[q]

Sorting(c) == caller[c].pc = "sort"

\* sort.Sort and the store. It compares statistics that another Sort may be
\* replacing, and then any order may come out.
SortEnd(c) ==
    /\ Sorting(c) /\ caller[c].todo = {}
    /\ \E order \in SetToSeqs(ToSet(caller[c].pos)) :
          /\ \/ \E d \in Callers \ {c} : Sorting(d)
             \/ \A i, j \in DOMAIN order : i < j => ~ Less(order[j], order[i])
          /\ sortedProcesses' = order
    /\ caller' = [caller EXCEPT ![c].pc = "sorted", ![c].pos = <<>>]
    /\ UNCHANGED <<dict, fresh, stats, alone>>

returns(c, list) == caller' = [caller EXCEPT ![c].pc = "idle", ![c].rank = list]

\* Mutant of GetRank: the length is not compared with the limit.
GetRankSlices(c) ==
    /\ caller[c].pc = "sorted"
    /\ caller' = [caller EXCEPT ![c].pc = "slice"]
    /\ UNCHANGED <<dict, fresh, stats, sortedProcesses, alone>>

\* GetRank reads the list once for its length ...
GetRank(c) ==
    /\ caller[c].pc = "sorted"
    /\ IF Len(sortedProcesses) > caller[c].limit
       THEN caller' = [caller EXCEPT ![c].pc = "slice"]
       ELSE returns(c, sortedProcesses)
    /\ UNCHANGED <<dict, fresh, stats, sortedProcesses, alone>>

\* ... and once more to cut it. A shorter list panics, in the slice expression or
\* when the nil beyond its end is copied. The copies are made and dropped: the
\* objects themselves are returned.
GetRankCut(c) ==
    /\ caller[c].pc = "slice"
    /\ IF Len(sortedProcesses) >= caller[c].limit
       THEN returns(c, SubSeq(sortedProcesses, 1, caller[c].limit))
       ELSE caller' = [caller EXCEPT ![c].pc = "crashed"]
    /\ UNCHANGED <<dict, fresh, stats, sortedProcesses, alone>>

\* The list's header is three words. Read while another caller stores a list, its
\* pointer and its length may be of different lists, and memory is read that
\* belongs to neither.
TornRead(c) ==
    /\ caller[c].pc \in {"sorted", "slice"}
    /\ \E d \in Callers \ {c} : Sorting(d) /\ caller[d].todo = {}
    /\ caller' = [caller EXCEPT ![c].pc = "crashed"]
    /\ UNCHANGED <<dict, fresh, stats, sortedProcesses, alone>>

Next ==
    \/ Rescan
    \/ \E c \in Callers :
          \/ \E sec \in Windows, limit \in Limits : Call(c, sec, limit)
          \/ \E o \in Procs : SortOne(c, o)
          \/ SortEnd(c) \/ GetRank(c) \/ GetRankCut(c) \/ TornRead(c)

Spec == Init /\ [][Next]_vars

-----------------------------------------------------------------------------
(* Properties.                                                             *)

volume(c, o) == Volume[o][caller[c].sec]

\* `list` are the processes of c's call with the most traffic in its window, as
\* many as the limit allows, the largest first.
TopOf(c, list) ==
    /\ IsInjective(list) /\ ToSet(list) \subseteq caller[c].seen
    /\ Len(list) = Min({caller[c].limit, Cardinality(caller[c].seen)})
    /\ \A i, j \in DOMAIN list : i < j => volume(c, list[i]) >= volume(c, list[j])
    /\ \A i \in DOMAIN list, o \in caller[c].seen \ ToSet(list) :
          volume(c, list[i]) >= volume(c, o)

\* A rank is right as long as callers take turns, although Sort and GetRank are
\* two critical sections with rescans between them: it is the top of the
\* processes that Sort saw, and the figures in it stay those of its window until
\* somebody asks again (process.go:312-343).
RankExact ==
    \A c \in Callers :
        caller[c].pc = "idle" /\ alone[c] /\ caller[c].sec # 0 =>
            /\ TopOf(c, caller[c].rank)
            /\ \A i \in DOMAIN caller[c].rank :
                  stats[caller[c].rank[i]] = volume(c, caller[c].rank[i])

\* The second read of the list in GetRank is safe for a caller that runs alone:
\* no sequence of calls and rescans makes it cut a list that is too short. (With
\* two callers it is not: one may store a shorter list between the two reads.)
NoCrashAlone == \A c \in Callers : caller[c].pc = "crashed" => ~ alone[c]

\* process.go:321, in GetRank: "copy object"; netflow.go:231, of recentSeconds: "the
\* average of the last few seconds' value". What a caller holds are figures of the
\* window that it asked for, until it asks again. (What the code does instead: Sort
\* writes the figures of all processes under the read lock, so that another caller
\* may replace them before GetRank reads the list; and GetRank drops its copies and
\* returns the processes themselves, so that another may replace them afterwards.)
ResultIsOwn ==
    \A c \in Callers :
        caller[c].pc = "idle" /\ caller[c].sec # 0 =>
            \A i \in DOMAIN caller[c].rank :
                stats[caller[c].rank[i]] = volume(c, caller[c].rank[i])
=============================================================================
