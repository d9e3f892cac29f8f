-------------------------------- MODULE History --------------------------------
(***************************************************************************)
(* Which traffic a Process object ends up with (process.go, netflow.go):   *)
(* Rescan keeps the object of a pid that it sees again and deletes the one *)
(* of a pid that it does not see, with its history; workers look an object *)
(* up under the lock and charge it later, without; and the system gives    *)
(* the pid of a process that exited to another one.                        *)
(*                                                                         *)
(* The module follows one pid: entries of other pids have other keys.  A   *)
(* process is a generation of the pid.  Its sockets are its own here       *)
(* (Attribution is about shared ones), so that a socket inode stands for   *)
(* the generation that opened it.                                          *)
(***************************************************************************)
EXTENDS Integers, Sequences

CONSTANTS
    Workers,
    MaxGens,        \* bound: processes started
    MaxObjects,     \* bound: Process objects made
    MaxCharges      \* bound: packets looked up

ASSUME HistoryAssumption ==
    MaxGens \in Nat /\ MaxObjects \in Nat /\ MaxCharges \in Nat

VARIABLES
    host,       \* the process that runs under the pid: [gen, match, sock]
    gens,       \* processes started so far
    scan,       \* where Rescan is
    matched,    \* getMatchingPIDs has the pid in its list
    ps,         \* the generations of which GetProcesses found sockets
    dict,       \* the Process of the pid, 0 if there is none
    inodePidMap,\* the generations whose inodes lead to the pid
    heap,       \* heap[o][g]: packets of generation g charged to Process o
    worker,     \* worker[w]: the generation of its packet and the Process found
    lookups,    \* packets looked up so far
    named,      \* history: generations that bore the filter's name some time
    heirs,      \* history: those started after a scan read the pid's name
    missed,     \* history: generations up to the last scan that found nothing
    retired,    \* history: those of them that had exited by then
    charged     \* history: charged[g]: packets of g charged to any object

hostVars  == <<host, gens, named, heirs>>
scanVars  == <<scan, matched, ps>>
tableVars == <<dict, inodePidMap>>
pastVars  == <<missed, retired, charged>>
workVars  == <<heap, worker, lookups>>

vars == <<hostVars, scanVars, tableVars, workVars, pastVars>>

Gens == 1 .. MaxGens

NoProcess == [gen |-> 0, match |-> FALSE, sock |-> FALSE]

idle == [gen |-> 0, obj |-> 0]

NoTraffic == [g \in Gens |-> 0]

\* Type invariant: references lead to objects, and an inode that is known leads
\* to a pid that is in the dict.
TypeOK ==
    /\ host \in [gen : Gens \cup {0}, match : BOOLEAN, sock : BOOLEAN]
    /\ gens \in 0 .. MaxGens
    /\ scan \in {"wait", "name", "first", "last", "commit"}
    /\ matched \in BOOLEAN /\ ps \subseteq Gens
    /\ heap \in Seq([Gens -> Nat])
    /\ dict \in 0 .. Len(heap)
    /\ inodePidMap \subseteq Gens /\ (inodePidMap # {} => dict # 0)
    /\ worker \in [Workers -> [gen : Gens \cup {0}, obj : 0 .. Len(heap)]]
    /\ lookups \in 0 .. MaxCharges
    /\ named \subseteq Gens /\ heirs \subseteq Gens
    /\ missed \subseteq Gens /\ retired \subseteq missed
    /\ charged \in [Gens -> Nat]

Init ==
    /\ host = NoProcess /\ gens = 0
    /\ scan = "wait" /\ matched = FALSE /\ ps = {}
    /\ dict = 0 /\ inodePidMap = {}
    /\ heap = <<>> /\ worker = [w \in Workers |-> idle] /\ lookups = 0
    /\ named = {} /\ heirs = {} /\ missed = {} /\ retired = {}
    /\ charged = NoTraffic

-----------------------------------------------------------------------------
(* The host.                                                               *)

Running == host.gen # 0

Spawn(match) ==
    /\ ~ Running /\ gens < MaxGens
    /\ gens' = gens + 1
    /\ host' = [gen |-> gens', match |-> match, sock |-> FALSE]
    /\ named' = IF match THEN named \cup {gens'} ELSE named
    /\ heirs' = IF scan \in {"first", "last"} /\ matched THEN heirs \cup {gens'} ELSE heirs
    /\ UNCHANGED <<scanVars, tableVars, workVars, pastVars>>

\* exec of a program with another name; the sockets stay.
Exec ==
    /\ Running
    /\ host' = [host EXCEPT !.match = ~ @]
    /\ named' = named \cup {host.gen}
    /\ UNCHANGED <<gens, heirs, scanVars, tableVars, workVars, pastVars>>

\* The first socket is opened, or the last one closed.
Socket ==
    /\ Running
    /\ host' = [host EXCEPT !.sock = ~ @]
    /\ UNCHANGED <<gens, named, heirs, scanVars, tableVars, workVars, pastVars>>

Exit ==
    /\ Running
    /\ host' = NoProcess
    /\ UNCHANGED <<gens, named, heirs, scanVars, tableVars, workVars, pastVars>>

-----------------------------------------------------------------------------
(* processController.Rescan, run by the resource syncer.                   *)

\* GetProcesses calls getMatchingPIDs.
BeginRescan ==
    /\ scan = "wait" /\ scan' = "name"
    /\ UNCHANGED <<hostVars, matched, ps, tableVars, workVars, pastVars>>

\* Mutant of nameMatches: the filter is not applied.
nameMatchesAny == Running

\* pname == nameFilter
nameMatches == Running /\ host.match

\* getMatchingPIDs, for this pid: its directory is listed and its exe is read.
getMatchingPIDs ==
    /\ scan = "name" /\ scan' = "first"
    /\ matched' = nameMatches
    /\ UNCHANGED <<hostVars, ps, tableVars, workVars, pastVars>>

\* The descriptors of a pid in the list are read one by one, whoever runs under
\* it by then: the first and the last stand for all. Name is set to the filter,
\* it is not read again.
ReadFd(here, there) ==
    /\ scan = here /\ scan' = there
    /\ ps' = IF matched /\ host.sock THEN ps \cup {host.gen} ELSE ps
    /\ UNCHANGED <<hostVars, matched, tableVars, workVars, pastVars>>

Made == Len(heap) + 1

\* Mutants of renewed: the object just made always replaces the old one; a pid
\* that was not found keeps its object; a pid that is new is not added.
renewedAlways == IF ps = {} THEN 0 ELSE Made
renewedKeeps  == IF ps # {} /\ dict = 0 THEN Made ELSE dict
renewedNoAdd  == IF ps = {} THEN 0 ELSE dict

\* The pid's entry after Rescan: a known pid keeps its object, a new one gets the
\* object just made, and the entry of a pid that was not found is deleted.
renewed == IF ps = {} THEN 0 ELSE IF dict # 0 THEN dict ELSE Made

\* The locked part of Rescan.
Commit ==
    /\ scan = "commit" /\ scan' = "wait"
    /\ renewed <= MaxObjects
    /\ dict' = renewed
    /\ heap' = IF renewed = Made THEN Append(heap, NoTraffic) ELSE heap
    /\ inodePidMap' = ps
    /\ matched' = FALSE /\ ps' = {}
    /\ missed' = IF ps = {} THEN 1 .. gens ELSE missed
    /\ retired' = IF ps = {} THEN (1 .. gens) \ {host.gen} ELSE retired
    /\ UNCHANGED <<hostVars, worker, lookups, charged>>

-----------------------------------------------------------------------------
(* A packet of generation g: the lookup, and later the charge.             *)

\* GetProcessByInode, under the read lock. A packet may be late, its process gone.
Lookup(w, g) ==
    /\ worker[w] = idle /\ lookups < MaxCharges
    /\ g \in inodePidMap
    /\ worker' = [worker EXCEPT ![w] = [gen |-> g, obj |-> dict]]
    /\ lookups' = lookups + 1
    /\ UNCHANGED <<hostVars, scanVars, tableVars, heap, pastVars>>

\* The object that the lookup returned.
chargee(w) == worker[w].obj

\* increaseProcessTraffic on it, without the lock.
Charge(w) ==
    /\ worker[w] # idle
    /\ LET g == worker[w].gen
           o == chargee(w)
       IN  /\ heap' = IF o = 0 THEN heap ELSE [heap EXCEPT ![o][g] = @ + 1]
           /\ charged' = [charged EXCEPT ![g] = @ + 1]
    /\ worker' = [worker EXCEPT ![w] = idle]
    /\ UNCHANGED <<hostVars, scanVars, tableVars, lookups, missed, retired>>

Next ==
    \/ \E match \in BOOLEAN : Spawn(match)
    \/ Exec \/ Socket \/ Exit
    \/ BeginRescan \/ getMatchingPIDs
    \/ ReadFd("first", "last") \/ ReadFd("last", "commit") \/ Commit
    \/ \E w \in Workers : Charge(w) \/ \E g \in Gens : Lookup(w, g)

Spec == Init /\ [][Next]_vars

-----------------------------------------------------------------------------
(* Properties.                                                             *)

\* What the rank shows of a process is complete, as long as every scan found it:
\* no packet that was charged to it is missing from the object in the dict, not
\* even one whose worker held the object over several rescans, or one of a
\* process that took over the object with the pid (process.go:466-480,
\* netflow.go:845).
SeenIsComplete ==
    dict # 0 => \A g \in (1 .. gens) \ missed : heap[dict][g] = charged[g]

\* Once a scan found nothing under the pid, the traffic of a process that had
\* exited by then never shows again, under whatever process gets the pid: a
\* worker that is late charges the old object (process.go:480).
NotInherited ==
    dict # 0 => \A g \in retired : heap[dict][g] = 0

\* Only processes that bore the name of the filter are ever charged, or one that
\* got the pid between the two looks that a scan takes at it: the name is read
\* first, the descriptors later (process.go:163-170, 204-225).
OnlyNamed ==
    \A o \in DOMAIN heap, g \in Gens : heap[o][g] > 0 => g \in named \cup heirs
=============================================================================
