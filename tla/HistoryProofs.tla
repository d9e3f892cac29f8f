----------------------------- MODULE HistoryProofs -----------------------------
(***************************************************************************)
(* Proofs about the history that a Process object ends up with, for every  *)
(* number of workers, processes, objects and packets.                      *)
(*                                                                         *)
(* The three properties are about the object in the dict, but a worker may *)
(* charge an object long after it looked it up, and a scan enters what it  *)
(* gathered long before.  HistoryInv therefore follows a generation of the *)
(* pid from the host through the scan and the table into the hands of the  *)
(* workers: which of those places it can be in, and under which name.      *)
(***************************************************************************)
EXTENDS History, SequenceTheorems, TLAPS

\* The generations that may be charged.
Admitted == named \cup heirs

\* What a rank shows of generation g.
Shown(g) == IF dict = 0 THEN 0 ELSE heap[dict][g]

\* Generations are numbered in the order in which they start, and nothing is
\* known of one that has not.
Numbered ==
    /\ host.gen \in 0 .. gens
    /\ host.match \/ host.sock => Running
    /\ ps \cup inodePidMap \cup missed \subseteq 1 .. gens
    /\ \A g \in Gens : g > gens => charged[g] = 0

\* A generation that had exited when a scan found nothing does not come back.
Buried == ({host.gen} \cup ps \cup inodePidMap) \cap retired = {}

\* Names are checked before sockets are looked for: what a scan finds bore the
\* name, or came between.
Checked ==
    /\ host.match => host.gen \in named
    /\ scan \in {"first", "last"} /\ matched /\ Running => host.gen \in Admitted
    /\ ps \cup inodePidMap \subseteq Admitted

\* A worker that holds an object: it is the one in the dict, unless a scan has
\* found nothing since; and it is not, if the packet's process was gone by then.
Held ==
    \A w \in Workers :
        worker[w] # idle =>
            /\ worker[w].gen \in 1 .. gens /\ worker[w].obj \in 1 .. Len(heap)
            /\ worker[w].gen \in Admitted
            /\ worker[w].gen \notin missed => worker[w].obj = dict
            /\ worker[w].gen \in retired => worker[w].obj # dict

\* What was charged is shown, unless a scan has found nothing; also while there is
\* no object to show anything.
Accounted == \A g \in Gens \ missed : Shown(g) = charged[g]

\* The inductive invariant.
HistoryInv ==
    /\ TypeOK
    /\ Numbered
    /\ Buried
    /\ Checked
    /\ Held
    /\ Accounted
    /\ NotInherited
    /\ OnlyNamed

-----------------------------------------------------------------------------
(* Initial states.                                                         *)

\* No process runs under the pid, and nothing was charged.
LEMMA HistoryInit == Init => HistoryInv
<1> SUFFICES ASSUME Init PROVE HistoryInv
  OBVIOUS
<1>0. MaxGens \in Nat /\ MaxObjects \in Nat /\ MaxCharges \in Nat
  BY HistoryAssumption
<1>1. heap \in Seq([Gens -> Nat]) /\ Len(heap) = 0 /\ DOMAIN heap = {}
  BY EmptySeq DEF Init
<1>2. /\ host \in [gen : Gens \cup {0}, match : BOOLEAN, sock : BOOLEAN]
      /\ host.gen = 0 /\ ~ host.match /\ ~ host.sock
  BY DEF Init, NoProcess
<1>3. worker \in [Workers -> [gen : Gens \cup {0}, obj : 0 .. Len(heap)]]
  BY <1>1 DEF Init, idle
<1>4. charged \in [Gens -> Nat] /\ \A g \in Gens : charged[g] = 0
  BY DEF Init, NoTraffic
<1>5. TypeOK
  <2>1. matched \in BOOLEAN
    BY Zenon DEF Init
  <2>2. gens \in 0 .. MaxGens /\ lookups \in 0 .. MaxCharges /\ dict \in 0 .. Len(heap)
    BY <1>0, <1>1 DEF Init
  <2>3. QED
    BY <1>1, <1>2, <1>3, <1>4, <2>1, <2>2 DEF Init, TypeOK
<1>6. Numbered /\ Buried /\ Checked
  BY <1>2, <1>4 DEF Init, Numbered, Buried, Checked
<1>7. Held /\ Accounted /\ NotInherited /\ OnlyNamed
  BY <1>1, <1>4 DEF Init, Held, Accounted, Shown, NotInherited, OnlyNamed
<1>8. QED
  BY <1>5, <1>6, <1>7 DEF HistoryInv

-----------------------------------------------------------------------------
(* The host.                                                               *)

\* A process starts under the pid: its number is new, and if a scan is between
\* the two looks that it takes at the pid it is an heir.
LEMMA SpawnStep ==
    ASSUME HistoryInv, NEW match \in BOOLEAN, Spawn(match)
    PROVE  HistoryInv'
<1>0. MaxGens \in Nat
  BY HistoryAssumption
<1>1. /\ UNCHANGED <<scan, matched, ps, dict, inodePidMap, heap, worker, lookups, missed, retired,
                     charged>>
      /\ gens' = gens + 1 /\ gens < MaxGens /\ gens \in Nat
  BY <1>0 DEF Spawn, scanVars, tableVars, workVars, pastVars, HistoryInv, TypeOK
<1>2. /\ host' = [gen |-> gens + 1, match |-> match, sock |-> FALSE]
      /\ named' = IF match THEN named \cup {gens + 1} ELSE named
      /\ heirs' = IF scan \in {"first", "last"} /\ matched THEN heirs \cup {gens + 1} ELSE heirs
  BY DEF Spawn
<1>3. /\ host'.gen = gens + 1 /\ host'.match = match /\ host'.sock = FALSE
      /\ gens + 1 \in Gens
      /\ host' \in [gen : Gens \cup {0}, match : BOOLEAN, sock : BOOLEAN]
  BY <1>0, <1>1, <1>2 DEF Gens
<1>4. named \subseteq named' /\ heirs \subseteq heirs' /\ Admitted \subseteq Admitted'
  BY <1>2 DEF Admitted
<1>5. TypeOK'
  <2>1. named' \subseteq Gens /\ heirs' \subseteq Gens
    BY <1>2, <1>3 DEF HistoryInv, TypeOK
  <2>2. QED
    BY <1>0, <1>1, <1>3, <2>1 DEF HistoryInv, TypeOK
<1>6. Numbered'
  BY <1>1, <1>3 DEF HistoryInv, Numbered, Running, Gens
<1>7. Buried'
  <2>1. gens + 1 \notin retired
    BY <1>1 DEF HistoryInv, TypeOK, Numbered
  <2>2. QED
    BY <1>1, <1>3, <2>1 DEF HistoryInv, Buried
<1>8. Checked'
  BY <1>1, <1>2, <1>3, <1>4 DEF HistoryInv, Checked, Admitted
<1>9. Held' /\ OnlyNamed'
  BY <1>1, <1>4 DEF HistoryInv, Held, OnlyNamed, Admitted
<1>10. Accounted' /\ NotInherited'
  BY <1>1 DEF HistoryInv, Accounted, Shown, NotInherited
<1>11. QED
  BY <1>5, <1>6, <1>7, <1>8, <1>9, <1>10 DEF HistoryInv

\* The process changes its name or its sockets, or exits.
LEMMA HostStep ==
    ASSUME HistoryInv, Exec \/ Socket \/ Exit
    PROVE  HistoryInv'
<1>1. /\ UNCHANGED <<gens, heirs, scan, matched, ps, dict, inodePidMap, heap, worker, lookups,
                     missed, retired, charged>>
      /\ Running
  BY DEF Exec, Socket, Exit, scanVars, tableVars, workVars, pastVars
<1>2. /\ host' \in [gen : Gens \cup {0}, match : BOOLEAN, sock : BOOLEAN]
      /\ \/ host'.gen = host.gen
         \/ host'.gen = 0 /\ ~ host'.match /\ ~ host'.sock
      /\ host'.match => host.match \/ host.gen \in named'
  <2>0. host \in [gen : Gens \cup {0}, match : BOOLEAN, sock : BOOLEAN]
    BY DEF HistoryInv, TypeOK
  <2>1. CASE Exec
    BY <2>0, <2>1 DEF Exec
  <2>2. CASE Socket
    BY <2>0, <2>2 DEF Socket
  <2>3. CASE Exit
    BY <2>3 DEF Exit, NoProcess
  <2>4. QED
    BY <2>1, <2>2, <2>3
<1>3. named \subseteq named' /\ named' \subseteq named \cup {host.gen}
  BY DEF Exec, Socket, Exit
<1>4. host.gen \in Gens
  BY <1>1 DEF HistoryInv, TypeOK, Running
<1>5. TypeOK'
  BY <1>1, <1>2, <1>3, <1>4 DEF HistoryInv, TypeOK
<1>6. Numbered'
  <2>1. host'.gen \in 0 .. gens
    BY <1>2, HistoryAssumption DEF HistoryInv, TypeOK, Numbered
  <2>2. host'.match \/ host'.sock => Running'
    BY <1>1, <1>2 DEF Running
  <2>3. QED
    BY <1>1, <2>1, <2>2 DEF HistoryInv, Numbered
<1>7. Buried'
  <2>1. 0 \notin retired
    BY DEF HistoryInv, TypeOK, Gens
  <2>2. QED
    BY <1>1, <1>2, <2>1 DEF HistoryInv, Buried
<1>8. Checked'
  BY <1>1, <1>2, <1>3 DEF HistoryInv, Checked, Admitted, Running
<1>9. Held' /\ OnlyNamed'
  BY <1>1, <1>3 DEF HistoryInv, Held, OnlyNamed, Admitted
<1>10. Accounted' /\ NotInherited'
  BY <1>1 DEF HistoryInv, Accounted, Shown, NotInherited
<1>11. QED
  BY <1>5, <1>6, <1>7, <1>8, <1>9, <1>10 DEF HistoryInv

-----------------------------------------------------------------------------
(* Rescan.                                                                 *)

\* The unlocked part: what it finds under the pid is running, so not buried, and
\* was admitted when the name was read or since.
LEMMA ScanStep ==
    ASSUME HistoryInv,
           BeginRescan \/ getMatchingPIDs \/ ReadFd("first", "last") \/ ReadFd("last", "commit")
    PROVE  HistoryInv'
<1>1. /\ UNCHANGED <<host, gens, named, heirs, dict, inodePidMap, heap, worker, lookups, missed,
                     retired, charged>>
      /\ scan' \in {"name", "first", "last", "commit"}
  BY DEF BeginRescan, getMatchingPIDs, ReadFd, hostVars, tableVars, workVars, pastVars
<1>2. \/ matched' = matched /\ scan' \notin {"first", "last"}
      \/ matched' = matched /\ scan \in {"first", "last"}
      \/ matched' <=> (Running /\ host.match)
  BY DEF BeginRescan, getMatchingPIDs, ReadFd, nameMatches
<1>3. \/ ps' = ps
      \/ /\ scan \in {"first", "last"} /\ matched /\ host.sock
         /\ ps' = ps \cup {host.gen}
  BY DEF BeginRescan, getMatchingPIDs, ReadFd
<1>4. ps' = ps \/ (ps' = ps \cup {host.gen} /\ host.gen \in 1 .. gens /\ host.gen \in Admitted)
  BY <1>3 DEF HistoryInv, TypeOK, Numbered, Checked, Running
<1>5. TypeOK'
  <2>1. matched' \in BOOLEAN
    <3>1. matched' = matched \/ matched' = (Running /\ host.match)
      BY DEF BeginRescan, getMatchingPIDs, ReadFd, nameMatches
    <3>2. QED
      BY <3>1 DEF HistoryInv, TypeOK
  <2>2. ps' \subseteq Gens
    <3>1. 1 .. gens \subseteq Gens /\ ps \subseteq Gens
      BY HistoryAssumption DEF HistoryInv, TypeOK, Gens
    <3>2. QED
      BY <1>4, <3>1
  <2>3. QED
    BY <1>1, <2>1, <2>2 DEF HistoryInv, TypeOK
<1>6. Numbered'
  BY <1>1, <1>4 DEF HistoryInv, Numbered, Running
<1>7. Buried'
  BY <1>1, <1>4 DEF HistoryInv, Buried
<1>8. Checked'
  <2>1. ps' \subseteq Admitted
    BY <1>4 DEF HistoryInv, Checked
  <2>2. scan' \in {"first", "last"} /\ matched' /\ Running => host.gen \in Admitted
    BY <1>2 DEF HistoryInv, Checked, Admitted
  <2>3. QED
    BY <1>1, <2>1, <2>2 DEF HistoryInv, Checked, Admitted, Running
<1>9. Held' /\ OnlyNamed' /\ Accounted' /\ NotInherited'
  BY <1>1 DEF HistoryInv, Held, OnlyNamed, Admitted, Accounted, Shown, NotInherited
<1>10. QED
  BY <1>5, <1>6, <1>7, <1>8, <1>9 DEF HistoryInv

\* The objects after the locked part: those there were, and perhaps an empty one.
LEMMA CommitHeap ==
    ASSUME HistoryInv, Commit
    PROVE  /\ heap' \in Seq([Gens -> Nat])
           /\ Len(heap) \in Nat /\ Len(heap') \in Nat
           /\ \A o \in 1 .. Len(heap) : heap'[o] = heap[o]
           /\ \/ /\ ps = {} /\ dict' = 0 /\ heap' = heap
              \/ /\ ps # {} /\ dict # 0 /\ dict' = dict /\ heap' = heap
              \/ /\ ps # {} /\ dict = 0 /\ dict' = Len(heap) + 1
                 /\ Len(heap') = Len(heap) + 1 /\ heap'[dict'] = NoTraffic
           /\ Len(heap) <= Len(heap')
<1>1. heap \in Seq([Gens -> Nat]) /\ dict \in 0 .. Len(heap) /\ Len(heap) \in Nat
  BY LenProperties DEF HistoryInv, TypeOK
<1>2. NoTraffic \in [Gens -> Nat]
  BY DEF NoTraffic
<1>3. /\ dict' = renewed
      /\ heap' = IF renewed = Made THEN Append(heap, NoTraffic) ELSE heap
  BY DEF Commit
<1>4. CASE ps # {} /\ dict = 0
  <2>1. renewed = Made /\ Made = Len(heap) + 1
    BY <1>4 DEF renewed, Made
  <2>2. heap' = Append(heap, NoTraffic)
    BY <1>3, <2>1
  <2>3. /\ heap' \in Seq([Gens -> Nat]) /\ Len(heap') = Len(heap) + 1
        /\ \A o \in 1 .. Len(heap) : heap'[o] = heap[o]
        /\ heap'[Len(heap) + 1] = NoTraffic
    BY <1>1, <1>2, <2>2, AppendProperties
  <2>4. QED
    BY <1>1, <1>3, <1>4, <2>1, <2>3
<1>5. CASE ps = {} \/ dict # 0
  <2>1. /\ renewed = IF ps = {} THEN 0 ELSE dict
        /\ renewed # Made
    BY <1>1, <1>5 DEF renewed, Made
  <2>2. QED
    BY <1>1, <1>3, <1>5, <2>1
<1>6. QED
  BY <1>4, <1>5

\* The locked part. When the scan found nothing the entry goes, and every worker
\* that holds its object is late from now on; when it found the pid for the first
\* time the new object is held by nobody.
LEMMA CommitStep ==
    ASSUME HistoryInv, Commit
    PROVE  HistoryInv'
<1>0. MaxGens \in Nat
  BY HistoryAssumption
<1>1. /\ UNCHANGED <<host, gens, named, heirs, worker, lookups, charged>>
      /\ scan' = "wait" /\ inodePidMap' = ps /\ matched' = FALSE /\ ps' = {}
      /\ missed' = IF ps = {} THEN 1 .. gens ELSE missed
      /\ retired' = IF ps = {} THEN (1 .. gens) \ {host.gen} ELSE retired
  BY DEF Commit, hostVars
<1> DEFINE n == Len(heap)
           m == Len(heap')
<1>2. /\ heap' \in Seq([Gens -> Nat])
      /\ n \in Nat /\ m \in Nat /\ n <= m
      /\ \A o \in 1 .. n : heap'[o] = heap[o]
      /\ \/ /\ ps = {} /\ dict' = 0 /\ heap' = heap
         \/ /\ ps # {} /\ dict # 0 /\ dict' = dict /\ heap' = heap
         \/ /\ ps # {} /\ dict = 0 /\ dict' = n + 1
            /\ m = n + 1 /\ heap'[dict'] = NoTraffic
      /\ dict \in 0 .. n
  BY CommitHeap DEF HistoryInv, TypeOK
<1>3. /\ DOMAIN heap = 1 .. n /\ DOMAIN heap' = 1 .. m
      /\ \A g \in Gens : NoTraffic[g] = 0
  BY <1>2, LenProperties DEF HistoryInv, TypeOK, NoTraffic
<1>4. heap' = heap => m = n
  OBVIOUS
<1> HIDE DEF n, m
<1>5. dict' \in 0 .. m /\ (inodePidMap' # {} => dict' # 0)
  BY <1>1, <1>2, <1>4
<1>6. TypeOK'
  <2>1. worker' \in [Workers -> [gen : Gens \cup {0}, obj : 0 .. m]]
    <3>1. worker \in [Workers -> [gen : Gens \cup {0}, obj : 0 .. n]]
      BY DEF HistoryInv, TypeOK, n
    <3>2. 0 .. n \subseteq 0 .. m
      BY <1>2
    <3>3. QED
      BY <1>1, <3>1, <3>2
  <2>2. missed' \subseteq Gens /\ retired' \subseteq missed'
    <3>1. gens \in 0 .. MaxGens /\ missed \subseteq Gens /\ retired \subseteq missed
      BY DEF HistoryInv, TypeOK
    <3>2. 1 .. gens \subseteq Gens
      BY <1>0, <3>1 DEF Gens
    <3>3. QED
      BY <1>1, <3>1, <3>2
  <2>3. QED
    BY <1>1, <1>2, <1>5, <2>1, <2>2 DEF HistoryInv, TypeOK, m
<1>7. Numbered'
  BY <1>1 DEF HistoryInv, Numbered, Running
<1>8. Buried'
  BY <1>1 DEF HistoryInv, Buried
<1>9. Checked'
  BY <1>1 DEF HistoryInv, Checked, Admitted, Running
<1>10. Held'
  <2> SUFFICES ASSUME NEW w \in Workers, worker[w] # idle
               PROVE  /\ worker[w].gen \in 1 .. gens /\ worker[w].obj \in 1 .. m
                      /\ worker[w].gen \in Admitted
                      /\ worker[w].gen \notin missed' => worker[w].obj = dict'
                      /\ worker[w].gen \in retired' => worker[w].obj # dict'
    BY <1>1 DEF Held, Admitted, m
  <2>1. /\ worker[w].gen \in 1 .. gens /\ worker[w].obj \in 1 .. n
        /\ worker[w].gen \in Admitted
        /\ worker[w].gen \notin missed => worker[w].obj = dict
        /\ worker[w].gen \in retired => worker[w].obj # dict
    BY DEF HistoryInv, Held, n
  <2>2. CASE ps = {}
    BY <1>1, <1>2, <2>1, <2>2
  <2>3. CASE ps # {} /\ dict # 0
    BY <1>1, <1>2, <2>1, <2>3
  <2>4. CASE ps # {} /\ dict = 0
    BY <1>1, <1>2, <2>1, <2>4
  <2>5. QED
    BY <2>2, <2>3, <2>4
<1>11. Accounted'
  <2> SUFFICES ASSUME NEW g \in Gens \ missed' PROVE Shown(g)' = charged[g]
    BY <1>1 DEF Accounted
  <2>1. /\ \A h \in Gens \ missed : Shown(h) = charged[h]
        /\ \A h \in Gens : h > gens => charged[h] = 0
    BY DEF HistoryInv, Accounted, Numbered
  <2>2. CASE ps = {}
    <3>1. g > gens
      BY <1>0, <1>1, <2>2 DEF Gens, HistoryInv, TypeOK
    <3>2. QED
      BY <1>2, <2>1, <2>2, <3>1 DEF Shown
  <2>3. CASE ps # {}
    <3>1. Shown(g) = charged[g]
      BY <1>1, <2>1, <2>3
    <3>2. QED
      BY <1>2, <1>3, <2>3, <3>1 DEF Shown
  <2>4. QED
    BY <2>2, <2>3
<1>12. NotInherited'
  <2> SUFFICES ASSUME dict' # 0, NEW g \in retired' PROVE heap'[dict'][g] = 0
    BY DEF NotInherited
  <2>1. ps # {} /\ g \in retired /\ g \in Gens
    BY <1>1, <1>2 DEF HistoryInv, TypeOK
  <2>2. QED
    BY <1>2, <1>3, <2>1 DEF HistoryInv, NotInherited
<1>13. OnlyNamed'
  <2> SUFFICES ASSUME NEW o \in 1 .. m, NEW g \in Gens, heap'[o][g] > 0
               PROVE  g \in Admitted
    BY <1>1, <1>3 DEF OnlyNamed, Admitted
  <2>1. o \in 1 .. n
    BY <1>2, <1>3, <1>4
  <2>2. heap[o][g] > 0
    BY <1>2, <2>1
  <2>3. QED
    BY <1>3, <2>1, <2>2 DEF HistoryInv, OnlyNamed, Admitted
<1>14. QED
  BY <1>6, <1>7, <1>8, <1>9, <1>10, <1>11, <1>12, <1>13 DEF HistoryInv

-----------------------------------------------------------------------------
(* The workers.                                                            *)

\* GetProcessByInode: an inode that is known leads to the object in the dict.
LEMMA LookupStep ==
    ASSUME HistoryInv, NEW w \in Workers, NEW g \in Gens, Lookup(w, g)
    PROVE  HistoryInv'
<1>1. /\ UNCHANGED <<host, gens, named, heirs, scan, matched, ps, dict, inodePidMap, heap, missed,
                     retired, charged>>
      /\ g \in inodePidMap
      /\ lookups < MaxCharges /\ lookups' = lookups + 1
  BY DEF Lookup, hostVars, scanVars, tableVars, pastVars
<1> DEFINE new == [gen |-> g, obj |-> dict]
<1>2. worker' = [worker EXCEPT ![w] = new]
  BY DEF Lookup
<1>3. /\ new.gen = g /\ new.obj = dict
      /\ new \in [gen : Gens \cup {0}, obj : 0 .. Len(heap)]
  BY DEF HistoryInv, TypeOK
<1> HIDE DEF new
<1>4. /\ worker'[w] = new
      /\ \A v \in Workers \ {w} : worker'[v] = worker[v]
  BY <1>2 DEF HistoryInv, TypeOK
<1>5. TypeOK'
  <2>1. lookups' \in 0 .. MaxCharges
    BY <1>1, HistoryAssumption DEF HistoryInv, TypeOK
  <2>2. worker' \in [Workers -> [gen : Gens \cup {0}, obj : 0 .. Len(heap)]]
    BY <1>2, <1>3 DEF HistoryInv, TypeOK
  <2>3. QED
    BY <1>1, <2>1, <2>2 DEF HistoryInv, TypeOK
<1>6. Numbered' /\ Buried' /\ Checked'
  BY <1>1 DEF HistoryInv, Numbered, Buried, Checked, Admitted, Running
<1>7. Held'
  <2> SUFFICES ASSUME NEW v \in Workers, worker'[v] # idle
               PROVE  /\ worker'[v].gen \in 1 .. gens /\ worker'[v].obj \in 1 .. Len(heap)
                      /\ worker'[v].gen \in Admitted
                      /\ worker'[v].gen \notin missed => worker'[v].obj = dict
                      /\ worker'[v].gen \in retired => worker'[v].obj # dict
    BY <1>1 DEF Held, Admitted
  <2>1. CASE v = w
    <3>1. dict \in 1 .. Len(heap)
      BY <1>1, LenProperties DEF HistoryInv, TypeOK
    <3>2. g \in 1 .. gens /\ g \in Admitted /\ g \notin retired
      BY <1>1 DEF HistoryInv, Numbered, Checked, Buried
    <3>3. QED
      BY <1>3, <1>4, <2>1, <3>1, <3>2
  <2>2. CASE v # w
    BY <1>4, <2>2 DEF HistoryInv, Held
  <2>3. QED
    BY <2>1, <2>2
<1>8. Accounted' /\ NotInherited' /\ OnlyNamed'
  BY <1>1 DEF HistoryInv, Accounted, Shown, NotInherited, OnlyNamed
<1>9. QED
  BY <1>5, <1>6, <1>7, <1>8 DEF HistoryInv

\* The charge, without the lock: on the object that the worker holds, and on the
\* account of its packet's generation.
LEMMA ChargeStep ==
    ASSUME HistoryInv, NEW w \in Workers, Charge(w)
    PROVE  HistoryInv'
<1> DEFINE g == worker[w].gen
           o == worker[w].obj
<1>1. /\ UNCHANGED <<host, gens, named, heirs, scan, matched, ps, dict, inodePidMap, lookups,
                     missed, retired>>
      /\ worker[w] # idle
      /\ worker' = [worker EXCEPT ![w] = idle]
      /\ charged' = [charged EXCEPT ![g] = @ + 1]
      /\ heap' = IF o = 0 THEN heap ELSE [heap EXCEPT ![o][g] = @ + 1]
  BY DEF Charge, chargee, hostVars, scanVars, tableVars
<1>2. /\ g \in 1 .. gens /\ o \in 1 .. Len(heap)
      /\ g \in Admitted
      /\ g \notin missed => o = dict
      /\ g \in retired => o # dict
  BY <1>1 DEF HistoryInv, Held
<1> HIDE DEF g, o
<1>3. /\ g \in Gens /\ o # 0 /\ Len(heap) \in Nat
      /\ heap \in Seq([Gens -> Nat]) /\ DOMAIN heap = 1 .. Len(heap)
  BY <1>2, LenProperties, HistoryAssumption DEF HistoryInv, TypeOK, Gens
<1>4. heap' = [heap EXCEPT ![o][g] = @ + 1]
  BY <1>1, <1>3
<1>5. \A p \in 1 .. Len(heap) : heap[p] \in [Gens -> Nat]
  BY <1>3, ElementOfSeq
<1>6. [heap[o] EXCEPT ![g] = @ + 1] \in [Gens -> Nat]
  BY <1>2, <1>3, <1>5
<1>7. /\ heap' \in Seq([Gens -> Nat]) /\ Len(heap') = Len(heap)
      /\ DOMAIN heap' = 1 .. Len(heap)
  <2>1. heap' = [heap EXCEPT ![o] = [heap[o] EXCEPT ![g] = @ + 1]]
    BY <1>2, <1>3, <1>4
  <2>2. heap' \in Seq([Gens -> Nat]) /\ Len(heap') = Len(heap)
    BY <1>2, <1>3, <1>6, <2>1, ExceptSeq
  <2>3. QED
    BY <1>3, <2>2, LenProperties
<1>8. \A p \in 1 .. Len(heap), h \in Gens :
         heap'[p][h] = IF p = o /\ h = g THEN heap[p][h] + 1 ELSE heap[p][h]
  BY <1>3, <1>4, <1>5
<1>9. /\ charged' \in [Gens -> Nat]
      /\ \A h \in Gens : charged'[h] = IF h = g THEN charged[h] + 1 ELSE charged[h]
  BY <1>1, <1>3 DEF HistoryInv, TypeOK
<1>10. /\ worker' \in [Workers -> [gen : Gens \cup {0}, obj : 0 .. Len(heap)]]
       /\ worker'[w] = idle
       /\ \A v \in Workers \ {w} : worker'[v] = worker[v]
  BY <1>1, <1>3 DEF HistoryInv, TypeOK, idle
<1>11. TypeOK'
  BY <1>1, <1>7, <1>9, <1>10 DEF HistoryInv, TypeOK
<1>12. Numbered'
  <2>1. \A h \in Gens : h > gens => h # g
    BY <1>2 DEF HistoryInv, TypeOK, Gens
  <2>2. QED
    BY <1>1, <1>9, <2>1 DEF HistoryInv, Numbered, Running
<1>13. Buried' /\ Checked'
  BY <1>1 DEF HistoryInv, Buried, Checked, Admitted, Running
<1>14. Held'
  BY <1>1, <1>7, <1>10 DEF HistoryInv, Held, Admitted
<1>15. dict # 0 => dict \in 1 .. Len(heap)
  BY <1>3 DEF HistoryInv, TypeOK
<1>16. Accounted'
  <2> SUFFICES ASSUME NEW h \in Gens \ missed PROVE Shown(h)' = charged'[h]
    BY <1>1 DEF Accounted
  <2>1. Shown(h) = charged[h] /\ charged[h] \in Nat
    BY DEF HistoryInv, TypeOK, Accounted
  <2>2. QED
    BY <1>1, <1>2, <1>3, <1>8, <1>9, <1>15, <2>1 DEF Shown
<1>17. NotInherited'
  <2> SUFFICES ASSUME dict # 0, NEW h \in retired PROVE heap'[dict][h] = 0
    BY <1>1 DEF NotInherited
  <2>1. h \in Gens /\ heap[dict][h] = 0
    BY DEF HistoryInv, TypeOK, NotInherited
  <2>2. QED
    BY <1>2, <1>8, <1>15, <2>1
<1>18. OnlyNamed'
  <2> SUFFICES ASSUME NEW p \in 1 .. Len(heap), NEW h \in Gens, heap'[p][h] > 0
               PROVE  h \in Admitted
    BY <1>1, <1>7 DEF OnlyNamed, Admitted
  <2>1. CASE h = g
    BY <1>2, <2>1
  <2>2. CASE h # g
    BY <1>3, <1>8, <2>2 DEF HistoryInv, OnlyNamed, Admitted
  <2>3. QED
    BY <2>1, <2>2
<1>19. QED
  BY <1>11, <1>12, <1>13, <1>14, <1>16, <1>17, <1>18 DEF HistoryInv

-----------------------------------------------------------------------------
(* Theorems.                                                               *)

\* Where a generation of the pid can be, in every reachable state.
THEOREM HistoryInvariant == Spec => []HistoryInv
<1>1. Init => HistoryInv
  BY HistoryInit
<1>2. HistoryInv /\ UNCHANGED vars => HistoryInv'
  BY DEF vars, hostVars, scanVars, tableVars, workVars, pastVars, HistoryInv, TypeOK, Numbered,
         Buried, Checked, Admitted, Held, Accounted, Shown, NotInherited, OnlyNamed, Running
<1>3. HistoryInv /\ [Next]_vars => HistoryInv'
  BY <1>2, SpawnStep, HostStep, ScanStep, CommitStep, LookupStep, ChargeStep DEF Next
<1>4. QED
  BY <1>1, <1>3, PTL DEF Spec

\* References lead to objects, and a known inode to a pid that is in the dict: a
\* lookup never finds an inode whose process is gone (process.go:451-480, 532-549).
THEOREM TypeCorrect == Spec => []TypeOK
<1>1. HistoryInv => TypeOK
  BY DEF HistoryInv
<1>2. QED
  BY <1>1, HistoryInvariant, PTL

\* The rank shows all traffic of a process that every scan found, for any number
\* of workers that hold its object over any number of rescans (process.go:466-480,
\* netflow.go:845).
THEOREM NothingIsMissing == Spec => []SeenIsComplete
<1>1. HistoryInv => SeenIsComplete
  <2> SUFFICES ASSUME HistoryInv, dict # 0, NEW g \in (1 .. gens) \ missed
               PROVE  heap[dict][g] = charged[g]
    BY DEF SeenIsComplete
  <2>1. g \in Gens \ missed
    BY HistoryAssumption DEF HistoryInv, TypeOK, Gens
  <2>2. QED
    BY <2>1 DEF HistoryInv, Accounted, Shown
<1>2. QED
  BY <1>1, HistoryInvariant, PTL

\* The traffic of a process that was gone when a scan found nothing never shows
\* under a later process with its pid (process.go:480).
THEOREM NothingIsInherited == Spec => []NotInherited
<1>1. HistoryInv => NotInherited
  BY DEF HistoryInv
<1>2. QED
  BY <1>1, HistoryInvariant, PTL

\* Only processes of the filter's name are charged, and those that got the pid
\* between the two looks of a scan (process.go:163-170, 204-225).
THEOREM OthersAreNotCharged == Spec => []OnlyNamed
<1>1. HistoryInv => OnlyNamed
  BY DEF HistoryInv
<1>2. QED
  BY <1>1, HistoryInvariant, PTL
=============================================================================
