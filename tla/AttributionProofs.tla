-------------------------- MODULE AttributionProofs --------------------------
(***************************************************************************)
(* Proofs about Attribution, for every set of sockets, processes and       *)
(* address pairs, and for every interleaving of the two scans, the cleaner *)
(* and the kernel.                                                         *)
(*                                                                         *)
(* AttributionSound speaks of the two tables only.  To be inductive it     *)
(* needs what is on its way into them: lines read but not added, inodes    *)
(* found but not committed, and that a scan starts with nothing found.     *)
(* FoundWhenQuiet needs, on top of that, how far an undisturbed scan is.   *)
(***************************************************************************)
EXTENDS Attribution, ResolverProofs

\* The inductive invariant: who holds a socket now, and what GetProcesses found,
\* was held since the scan began; the owner of an inode held it since the scan
\* began whose result is in use.
AttrInv ==
    /\ TypeOK
    /\ HashRight
    /\ LinesRight
    /\ HeldIn(since)
    /\ FoundIn(since)
    /\ OwnersIn(base)
    /\ ScanIdle

-----------------------------------------------------------------------------
\* The invariant holds initially: empty tables, no scan.
LEMMA AttrInvInit == Init => AttrInv
<1> SUFFICES ASSUME Init PROVE AttrInv
  OBVIOUS
<1>1. KernelTypeOK /\ TablesInv
  BY TablesInit DEF Init
<1> USE DEF Init, KernelInit, NewMapping, NewProcessController, ScanInit, NoProcesses
<1>2. quiet \in BOOLEAN /\ synced \in BOOLEAN
  BY Zenon
<1>3. changes \in 0 .. MaxChanges
  BY MaxChangesAssumption
<1>4. since \in [Conns -> SUBSET Pids] /\ base \in [Conns -> SUBSET Pids]
  OBVIOUS
<1>5. HeldIn(since) /\ FoundIn(since) /\ OwnersIn(base) /\ ScanIdle
  BY DEF HeldIn, FoundIn, OwnersIn, ScanIdle
<1> QED
  BY <1>1, <1>2, <1>3, <1>4, <1>5 DEF AttrInv, TypeOK, TablesInv

\* A step of the kernel changes no table.
LEMMA KernelChangesPreserves == AttrInv /\ KernelChanges => AttrInv'
<1> SUFFICES ASSUME AttrInv, KernelChanges PROVE AttrInv'
  OBVIOUS
<1>1. /\ connInodeHash' = connInodeHash /\ dict' = dict /\ inodePidMap' = inodePidMap
      /\ scanning' = scanning /\ unread' = unread /\ lines' = lines
      /\ unreadFds' = unreadFds /\ ps' = ps /\ procScan' = procScan
  BY DEF KernelChanges, tableVars, scanVars
<1>2. KernelTypeOK'
  BY KernelStepTypes DEF KernelChanges, AttrInv, TypeOK
<1>3. /\ since' = [c \in Conns |-> since[c] \cup holders'[c]]
      /\ base' = [c \in Conns |-> base[c] \cup holders'[c]]
  BY DEF KernelChanges
<1>4. since' \in [Conns -> SUBSET Pids] /\ base' \in [Conns -> SUBSET Pids]
  BY <1>2, <1>3 DEF KernelTypeOK, AttrInv, TypeOK
<1>5. changes' \in 0 .. MaxChanges /\ quiet' \in BOOLEAN /\ synced' \in BOOLEAN
  <2>1. changes' \in 0 .. MaxChanges
    BY MaxChangesAssumption DEF KernelChanges, AttrInv, TypeOK
  <2>2. quiet' = FALSE /\ synced' = FALSE
    BY DEF KernelChanges
  <2> QED
    BY <2>1, <2>2, Zenon
<1>6. MappingTypeOK' /\ ControllerTypeOK' /\ ScanTypeOK'
  BY <1>1 DEF AttrInv, TypeOK, MappingTypeOK, ControllerTypeOK, ScanTypeOK
<1>7. TypeOK'
  BY <1>2, <1>4, <1>5, <1>6 DEF TypeOK
<1>8. HashRight' /\ LinesRight' /\ ScanIdle'
  BY <1>1 DEF AttrInv, HashRight, LinesRight, ScanIdle, NoProcesses, Uses
<1>9. HeldIn(since)'
  BY <1>3 DEF HeldIn
<1>10. FoundIn(since)'
  <2> SUFFICES ASSUME NEW p \in Pids, NEW c \in ps[p] PROVE p \in since'[c]
    BY <1>1 DEF FoundIn
  <2>1. c \in Conns /\ p \in since[c]
    BY DEF AttrInv, TypeOK, ScanTypeOK, FoundIn
  <2> QED
    BY <2>1, <1>3
<1>11. OwnersIn(base)'
  <2> SUFFICES ASSUME NEW c \in DOMAIN inodePidMap PROVE inodePidMap[c] \in base'[c]
    BY <1>1 DEF OwnersIn
  <2>1. c \in Conns /\ inodePidMap[c] \in base[c]
    BY DEF AttrInv, TypeOK, ControllerTypeOK, OwnersIn
  <2> QED
    BY <2>1, <1>3
<1> QED
  BY <1>7, <1>8, <1>9, <1>10, <1>11 DEF AttrInv

\* A new scan starts with nothing found.
LEMMA BeginRescanPreserves == AttrInv /\ BeginRescan => AttrInv'
<1> SUFFICES ASSUME AttrInv, BeginRescan PROVE AttrInv'
  OBVIOUS
<1>1. /\ connInodeHash' = connInodeHash /\ dict' = dict /\ inodePidMap' = inodePidMap
      /\ lines' = lines /\ ps' = ps /\ sock' = sock /\ holders' = holders
      /\ base' = base /\ synced' = synced /\ changes' = changes
      /\ ~ scanning /\ scanning' = TRUE /\ procScan' = TRUE /\ unread' = Conns
      /\ unreadFds' = AllFds /\ since' = holders /\ quiet' = TRUE
  BY DEF BeginRescan, StartRescan, tableVars, kernelVars
<1>2. TypeOK'
  BY <1>1 DEF AttrInv, TypeOK, KernelTypeOK, MappingTypeOK, ControllerTypeOK, ScanTypeOK
<1>3. HashRight' /\ LinesRight' /\ OwnersIn(base)' /\ HeldIn(since)'
  BY <1>1 DEF AttrInv, HashRight, LinesRight, OwnersIn, HeldIn, Uses
<1>4. FoundIn(since)' /\ ScanIdle'
  BY <1>1 DEF AttrInv, ScanIdle, NoProcesses, FoundIn
<1> QED
  BY <1>2, <1>3, <1>4 DEF AttrInv

\* A line or a descriptor is read, or a pair is added.
LEMMA ScanPreserves == AttrInv /\ Scan => AttrInv'
<1> SUFFICES ASSUME AttrInv, Scan PROVE AttrInv'
  OBVIOUS
<1>1. UNCHANGED <<sock, holders, changes, since, base, quiet, synced>>
  BY DEF Scan, kernelVars, historyVars
<1>2. /\ TablesInv' /\ UNCHANGED <<dict, inodePidMap>>
      /\ \A q \in Pids : \A d \in ps'[q] : d \in ps[q] \/ q \in holders[d]
  BY ScanStepKeeps DEF Scan, AttrInv, TypeOK, TablesInv
<1>3. TypeOK'
  BY <1>1, <1>2 DEF AttrInv, TypeOK, TablesInv, KernelTypeOK
<1>4. HeldIn(since)' /\ OwnersIn(base)'
  BY <1>1, <1>2 DEF AttrInv, HeldIn, OwnersIn
<1>5. FoundIn(since)'
  <2> SUFFICES ASSUME NEW q \in Pids, NEW d \in ps'[q] PROVE q \in since[d]
    BY <1>1 DEF FoundIn
  <2>1. d \in Conns
    BY <1>2 DEF TablesInv, ScanTypeOK
  <2> QED
    BY <1>2, <2>1 DEF AttrInv, FoundIn, HeldIn
<1>6. ScanIdle'
  BY ScanStaysIdle DEF Scan, AttrInv, TypeOK
<1> QED
  BY <1>2, <1>3, <1>4, <1>5, <1>6 DEF AttrInv, TablesInv

\* The process scan replaces the dict and the inode map.
LEMMA CommitPreserves == AttrInv /\ Commit => AttrInv'
<1> SUFFICES ASSUME AttrInv, Commit PROVE AttrInv'
  OBVIOUS
<1>1. /\ UNCHANGED <<sock, holders, changes, since, quiet, synced, scanning, unreadFds>>
      /\ base' = since /\ procScan' = FALSE /\ ps' = NoProcesses /\ unreadFds = {}
  BY DEF Commit, CommitProcesses, kernelVars
<1>2. /\ TablesInv'
      /\ \A c \in DOMAIN inodePidMap' :
            c \in Conns /\ inodePidMap'[c] \in Pids /\ c \in ps[inodePidMap'[c]]
  BY CommitKeeps DEF Commit, AttrInv, TypeOK, TablesInv
<1>3. TypeOK'
  BY <1>1, <1>2 DEF AttrInv, TypeOK, TablesInv, KernelTypeOK
<1>4. OwnersIn(base)'
  BY <1>1, <1>2 DEF AttrInv, FoundIn, OwnersIn
<1>5. HeldIn(since)' /\ FoundIn(since)'
  BY <1>1 DEF AttrInv, HeldIn, FoundIn, NoProcesses
<1>6. ScanIdle'
  BY ScanStaysIdle DEF Commit, AttrInv, TypeOK
<1> QED
  BY <1>2, <1>3, <1>4, <1>5, <1>6 DEF AttrInv, TablesInv

\* Cleanup touches nothing but the connection table.
LEMMA CleanPreserves == AttrInv /\ Clean => AttrInv'
<1> SUFFICES ASSUME AttrInv, Clean PROVE AttrInv'
  OBVIOUS
<1>1. /\ UNCHANGED <<inodePidMap, scanning, unreadFds, ps, procScan>>
      /\ UNCHANGED <<sock, holders, changes, since, base>>
      /\ quiet' = FALSE /\ synced' = FALSE
  BY DEF Clean, CleanupStep, kernelVars, scanVars
<1>2. TablesInv'
  BY CleanupKeeps DEF Clean, AttrInv, TypeOK, TablesInv
<1>3. TypeOK'
  BY <1>1, <1>2 DEF AttrInv, TypeOK, TablesInv, KernelTypeOK
<1>4. HeldIn(since)' /\ FoundIn(since)' /\ OwnersIn(base)'
  BY <1>1 DEF AttrInv, HeldIn, FoundIn, OwnersIn
<1>5. ScanIdle'
  BY ScanStaysIdle DEF Clean, CleanupStep, scanVars, AttrInv, TypeOK
<1> QED
  BY <1>2, <1>3, <1>4, <1>5 DEF AttrInv, TablesInv

\* A failing read, the end of a scan and a stuttering step touch no table.
LEMMA OtherStepsPreserve ==
    ASSUME AttrInv, ScanError \/ EndRescan \/ UNCHANGED vars
    PROVE  AttrInv'
<1>1. /\ UNCHANGED <<connInodeHash, dict, inodePidMap, lines, unreadFds, ps, procScan>>
      /\ UNCHANGED <<sock, holders, changes, since, base>>
      /\ unread' \subseteq Conns /\ scanning' \in BOOLEAN
      /\ quiet' \in BOOLEAN /\ synced' \in BOOLEAN
  BY DEF ScanError, FailRead, EndRescan, FinishRescan, vars, tableVars, kernelVars, scanVars,
         historyVars, AttrInv, TypeOK, ScanTypeOK
<1>2. TypeOK'
  BY <1>1 DEF AttrInv, TypeOK, KernelTypeOK, MappingTypeOK, ControllerTypeOK, ScanTypeOK
<1>3. HashRight' /\ LinesRight' /\ HeldIn(since)' /\ FoundIn(since)' /\ OwnersIn(base)'
  BY <1>1 DEF AttrInv, HashRight, LinesRight, HeldIn, FoundIn, OwnersIn, Uses
<1>4. ScanIdle'
  BY ScanStaysIdle DEF ScanError, EndRescan, vars, AttrInv, TypeOK
<1> QED
  BY <1>2, <1>3, <1>4 DEF AttrInv

\* Every step preserves the invariant.
LEMMA AttrInvStep == AttrInv /\ [Next]_vars => AttrInv'
<1> SUFFICES ASSUME AttrInv, [Next]_vars PROVE AttrInv'
  OBVIOUS
<1>1. CASE KernelChanges
  BY <1>1, KernelChangesPreserves
<1>2. CASE BeginRescan
  BY <1>2, BeginRescanPreserves
<1>3. CASE Scan
  BY <1>3, ScanPreserves
<1>4. CASE Commit
  BY <1>4, CommitPreserves
<1>5. CASE Clean
  BY <1>5, CleanPreserves
<1>6. CASE ScanError \/ EndRescan \/ UNCHANGED vars
  BY <1>6, OtherStepsPreserve
<1> QED
  BY <1>1, <1>2, <1>3, <1>4, <1>5, <1>6 DEF Next

\* The inductive invariant holds in every reachable state.
THEOREM AttributionInvariant == Spec => []AttrInv
BY AttrInvInit, AttrInvStep, PTL DEF Spec

-----------------------------------------------------------------------------
\* The two tables, the scans in progress and the histories keep their types
\* (types.go:63, process.go:280, netflow.go:410).
THEOREM TypeCorrect == Spec => []TypeOK
<1>1. AttrInv => TypeOK
  BY DEF AttrInv
<1> QED
  BY <1>1, AttributionInvariant, PTL

\* A packet is charged only to a process that held a socket with the packet's
\* address pair since the scan in use began, however the reads of the scans
\* interleave with each other and with the kernel (netflow.go:803).
THEOREM AttributionIsSound == Spec => []AttributionSound
<1>1. AttrInv => AttributionSound
  BY LookupFindsOwner DEF AttributionSound, AttrInv, TypeOK, TablesInv
<1> QED
  BY <1>1, AttributionInvariant, PTL

-----------------------------------------------------------------------------
(* FoundWhenQuiet.  It speaks of `synced` only, which a scan inherits from *)
(* `quiet` when it ends: what it needs is how far a scan has come that     *)
(* nothing has disturbed yet, and that a scan which runs while the tables  *)
(* are right (be it cut short by an error) does not spoil them.            *)

\* The inductive invariant behind FoundWhenQuiet.
QuietInv ==
    /\ KernelLive
    /\ (quiet \/ synced) => (LinesFresh /\ (procScan => FoundExact))
    /\ quiet => (Scanned /\ (~ procScan => TablesExact))
    /\ synced => (AllNamed /\ TablesExact)

\* Initially nothing is claimed: no scan has run.
LEMMA QuietInvInit == Init => QuietInv
BY DEF Init, KernelInit, QuietInv, KernelLive

\* Every step preserves it.
LEMMA QuietInvStep == AttrInv /\ QuietInv /\ [Next]_vars => QuietInv'
<1> SUFFICES ASSUME AttrInv, QuietInv, [Next]_vars PROVE QuietInv'
  OBVIOUS
<1>1. KernelTypeOK /\ TablesInv /\ ScanIdle
  BY DEF AttrInv, TypeOK, TablesInv
<1>2. UNCHANGED kernelVars => KernelLive'
  BY DEF QuietInv, KernelLive, kernelVars
<1>3. CASE KernelChanges
  <2>1. KernelLive' /\ ~ quiet' /\ ~ synced'
    BY <1>1, <1>3, KernelStaysLive DEF KernelChanges, QuietInv
  <2> QED
    BY <2>1 DEF QuietInv
<1>4. CASE Clean
  <2>1. KernelLive' /\ ~ quiet' /\ ~ synced'
    BY <1>2, <1>4 DEF Clean
  <2> QED
    BY <2>1 DEF QuietInv
<1>5. CASE BeginRescan
  <2>1. /\ UNCHANGED <<kernelVars, connInodeHash, dict, inodePidMap, synced>>
        /\ StartRescan /\ procScan' = TRUE
    BY <1>5 DEF BeginRescan, StartRescan, tableVars
  <2>2. LinesFresh' /\ Scanned' /\ FoundExact'
    BY <1>1, <2>1, StartIsFresh
  <2>3. (AllNamed => AllNamed') /\ (TablesExact => TablesExact')
    BY <2>1, FreshStutters
  <2> QED
    BY <1>2, <2>1, <2>2, <2>3 DEF QuietInv
<1>6. CASE Scan
  <2>1. UNCHANGED <<kernelVars, quiet, synced>> /\ ScanStep
    BY <1>6 DEF Scan, historyVars
  <2>2. CASE quiet \/ synced
    BY <1>1, <1>2, <2>1, <2>2, ScanStepIsFresh DEF QuietInv
  <2>3. CASE ~ (quiet \/ synced)
    BY <1>2, <2>1, <2>3 DEF QuietInv
  <2> QED
    BY <2>2, <2>3
<1>7. CASE ScanError
  <2>1. /\ UNCHANGED <<kernelVars, connInodeHash, dict, inodePidMap, synced>>
        /\ UNCHANGED <<lines, unreadFds, ps, procScan>>
        /\ quiet' = FALSE
    BY <1>7 DEF ScanError, FailRead, tableVars
  <2>2. /\ LinesFresh => LinesFresh'
        /\ AllNamed => AllNamed'
        /\ FoundExact => FoundExact'
        /\ TablesExact => TablesExact'
    BY <2>1, FreshStutters
  <2> QED
    BY <1>2, <2>1, <2>2 DEF QuietInv
<1>8. CASE Commit
  <2>1. /\ UNCHANGED <<kernelVars, connInodeHash, quiet, synced, unread, lines>>
        /\ CommitProcesses /\ procScan /\ procScan' = FALSE
    BY <1>8 DEF Commit, CommitProcesses
  <2>2. FoundExact => TablesExact'
    BY <1>1, <2>1, CommitIsFresh
  <2>3. (LinesFresh => LinesFresh') /\ (Scanned => Scanned') /\ (AllNamed => AllNamed')
    BY <2>1, FreshStutters
  <2> QED
    BY <1>2, <2>1, <2>2, <2>3 DEF QuietInv
<1>9. CASE EndRescan \/ UNCHANGED vars
  <2>1. /\ UNCHANGED <<kernelVars, connInodeHash, dict, inodePidMap, quiet>>
        /\ UNCHANGED <<unread, lines, unreadFds, ps, procScan>>
        /\ \/ synced' = synced
           \/ synced' = quiet /\ unread = {} /\ lines = <<>> /\ ~ procScan
    BY <1>9 DEF EndRescan, FinishRescan, vars, tableVars, scanVars, historyVars
  <2>2. /\ LinesFresh => LinesFresh'
        /\ Scanned => Scanned'
        /\ AllNamed => AllNamed'
        /\ FoundExact => FoundExact'
        /\ TablesExact => TablesExact'
    BY <2>1, FreshStutters
  <2>3. Scanned /\ unread = {} /\ lines = <<>> => AllNamed
    BY AllRead
  <2> QED
    BY <1>2, <2>1, <2>2, <2>3 DEF QuietInv
<1> QED
  BY <1>3, <1>4, <1>5, <1>6, <1>7, <1>8, <1>9 DEF Next

\* After a scan that nothing disturbed, and until something does, every accepted
\* connection is found by both of its pairs and charged to a process at one of
\* its ends; a later scan, even one that fails, does not spoil it
\* (netflow.go:410, netflow.go:803).
THEOREM QuietIsFound == Spec => []FoundWhenQuiet
<1>1. AttrInv /\ QuietInv => FoundWhenQuiet
  <2> SUFFICES ASSUME AttrInv, QuietInv, synced, NEW c \in Conns, NEW k \in Keys,
                      sock[c] = "open", Uses(c, k),
                      \A d \in Conns : Uses(d, k) => sock[d] # "pending"
               PROVE  /\ getProcessByAddr(k) # {}
                      /\ \A p \in getProcessByAddr(k) :
                            \E d \in Conns : Uses(d, k) /\ p \in holders[d]
    BY DEF FoundWhenQuiet
  <2> QED
    BY QuietLookup DEF AttrInv, TypeOK, TablesInv, QuietInv
<1>2. Spec => []QuietInv
  BY QuietInvInit, QuietInvStep, AttributionInvariant, PTL DEF Spec
<1> QED
  BY <1>1, <1>2, AttributionInvariant, PTL
=============================================================================
