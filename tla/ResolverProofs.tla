---------------------------- MODULE ResolverProofs ----------------------------
(***************************************************************************)
(* What the steps of Resolver do to the two tables and to what is on its   *)
(* way into them, for every set of sockets, processes and address pairs.   *)
(* The proofs about Attribution and about Netflow both rest on these       *)
(* lemmas; they differ only in the history they compare the tables with.   *)
(***************************************************************************)
EXTENDS Resolver, SequenceTheorems, TLAPS

\* An entry, or a line still to be added, names a socket that has the pair.
HashRight ==
    \A k \in DOMAIN connInodeHash :
        connInodeHash[k].value \in Conns => Uses(connInodeHash[k].value, k)

LinesRight ==
    \A i \in 1 .. Len(lines) :
        lines[i].inode \in Conns => Uses(lines[i].inode, lines[i].key)

TablesInv ==
    /\ MappingTypeOK /\ ControllerTypeOK /\ ScanTypeOK
    /\ HashRight
    /\ LinesRight

\* Against a history `held`: who holds a socket now, what GetProcesses found so
\* far and the owners of the inode map are among the processes that held it.
HeldIn(held) == \A c \in Conns : holders[c] \subseteq held[c]

FoundIn(held) == \A p \in Pids : \A c \in ps[p] : p \in held[c]

OwnersIn(held) == \A c \in DOMAIN inodePidMap : inodePidMap[c] \in held[c]

-----------------------------------------------------------------------------
\* Empty tables, and no scan.
LEMMA TablesInit ==
    ASSUME KernelInit, NewMapping, NewProcessController, ScanInit
    PROVE  KernelTypeOK /\ TablesInv
<1> USE DEF KernelInit, NewMapping, NewProcessController, ScanInit, NoProcesses
<1>1. KernelTypeOK /\ MappingTypeOK /\ ControllerTypeOK
  BY DEF KernelTypeOK, SockStates, MappingTypeOK, ControllerTypeOK
<1>2. ScanTypeOK
  <2>1. lines \in Seq(Line)
    BY EmptySeq
  <2>2. unread \subseteq Conns /\ unreadFds \subseteq AllFds /\ ps \in [Pids -> SUBSET Conns]
    OBVIOUS
  <2>3. scanning \in BOOLEAN /\ procScan \in BOOLEAN
    BY Zenon
  <2> QED
    BY <2>1, <2>2, <2>3 DEF ScanTypeOK
<1>3. HashRight /\ LinesRight
  BY DEF HashRight, LinesRight
<1> QED
  BY <1>1, <1>2, <1>3 DEF TablesInv

\* The kernel's steps keep its types.
LEMMA KernelStepTypes ==
    ASSUME KernelTypeOK, KernelStep
    PROVE  KernelTypeOK'
<1> USE DEF KernelTypeOK, SockStates
<1>1. ASSUME NEW c \in Conns, Arrive(c) \/ Shutdown(c) PROVE KernelTypeOK'
  BY <1>1 DEF Arrive, Shutdown
<1>2. ASSUME NEW c \in Conns, NEW p \in Pids,
             Connect(c, p) \/ Accept(c, p) \/ Inherit(c, p) \/ CloseFd(c, p)
      PROVE KernelTypeOK'
  BY <1>2 DEF Connect, Accept, Inherit, CloseFd
<1> QED
  BY <1>1, <1>2 DEF KernelStep

\* A line of /proc/net/tcp is read: both of its pairs belong to its socket
\* (netstat.go:47).
LEMMA ReadLineKeeps ==
    ASSUME TablesInv, NEW c \in Conns, ReadLine(c)
    PROVE  TablesInv'
<1> DEFINE one == [key |-> Addr[c], inode |-> inodeOf(c)]
           two == [key |-> Reverse[Addr[c]], inode |-> inodeOf(c)]
<1>1. /\ UNCHANGED <<connInodeHash, dict, inodePidMap, scanning, unreadFds, ps, procScan>>
      /\ unread' = unread \ {c}
      /\ lines' = lines \/ lines' = lines \o <<one, two>>
  BY DEF ReadLine, tableVars
<1>2. one \in Line /\ two \in Line
  BY AddrAssumption DEF Line, inodeOf, Inodes
<1>3. inodeOf(c) \in Conns => inodeOf(c) = c
  BY NoInodeAssumption DEF inodeOf
<1>4. lines \in Seq(Line)
  BY DEF TablesInv, ScanTypeOK
<1>5. lines' \in Seq(Line) /\ LinesRight'
  <2>1. CASE lines' = lines
    BY <2>1, <1>4 DEF TablesInv, LinesRight, Uses
  <2>2. CASE lines' = lines \o <<one, two>>
    <3> HIDE DEF one, two
    <3>1. <<one, two>> \in Seq(Line) /\ Len(<<one, two>>) = 2
          /\ <<one, two>>[1] = one /\ <<one, two>>[2] = two
      BY <1>2
    <3> DEFINE pair == <<one, two>>
    <3> HIDE DEF pair
    <3>2. /\ lines' \in Seq(Line) /\ Len(lines') = Len(lines) + 2 /\ Len(lines) \in Nat
          /\ \A i \in 1 .. Len(lines) + 2 :
                lines'[i] = IF i <= Len(lines) THEN lines[i] ELSE pair[i - Len(lines)]
      <4>1. pair \in Seq(Line) /\ Len(pair) = 2 /\ lines' = lines \o pair
        BY <3>1, <2>2 DEF pair
      <4>2. Len(lines) \in Nat
        BY <1>4, LenProperties
      <4>3. /\ lines \o pair \in Seq(Line)
            /\ Len(lines \o pair) = Len(lines) + Len(pair)
            /\ \A i \in 1 .. Len(lines) + Len(pair) : (lines \o pair)[i] =
                  IF i <= Len(lines) THEN lines[i] ELSE pair[i - Len(lines)]
        BY <4>1, <1>4, ConcatProperties
      <4> QED
        BY <4>1, <4>2, <4>3
    <3>3. ASSUME NEW i \in 1 .. Len(lines'), lines'[i].inode \in Conns
          PROVE  Uses(lines'[i].inode, lines'[i].key)
      <4>1. CASE i <= Len(lines)
        <5>1. i \in 1 .. Len(lines) /\ lines'[i] = lines[i]
          BY <4>1, <3>2
        <5> QED
          BY <5>1, <3>3 DEF TablesInv, LinesRight
      <4>2. CASE ~ (i <= Len(lines))
        <5>1. i - Len(lines) \in {1, 2} /\ lines'[i] = pair[i - Len(lines)]
          BY <4>2, <3>2
        <5>2. lines'[i] = one \/ lines'[i] = two
          BY <5>1, <3>1 DEF pair
        <5>3. one.inode = inodeOf(c) /\ one.key = Addr[c]
              /\ two.inode = inodeOf(c) /\ two.key = Reverse[Addr[c]]
          BY DEF one, two
        <5> QED
          BY <5>2, <5>3, <3>3, <1>3 DEF Uses
      <4> QED
        BY <4>1, <4>2
    <3> QED
      BY <3>2, <3>3 DEF LinesRight, Uses
  <2> QED
    BY <1>1, <2>1, <2>2
<1>6. MappingTypeOK' /\ ControllerTypeOK' /\ ScanTypeOK' /\ HashRight'
  BY <1>1, <1>5 DEF TablesInv, MappingTypeOK, ControllerTypeOK, ScanTypeOK, HashRight, Uses
<1> QED
  BY <1>5, <1>6 DEF TablesInv

\* A pair of a line is added, or found to be there (netflow.go:446).
LEMMA AddLineKeeps ==
    ASSUME TablesInv, AddLine
    PROVE  TablesInv'
<1> DEFINE k == Head(lines).key
           v == Head(lines).inode
<1>1. /\ UNCHANGED <<dict, inodePidMap, scanning, unread, unreadFds, ps, procScan>>
      /\ lines # <<>> /\ lines' = Tail(lines)
      /\ AddIfMissing(k, v)
  BY DEF AddLine
<1>2. lines \in Seq(Line)
  BY DEF TablesInv, ScanTypeOK
<1>3. /\ Len(lines) \in Nat /\ Len(lines) >= 1
      /\ Head(lines) = lines[1] /\ Head(lines) \in Line
      /\ lines' \in Seq(Line) /\ Len(lines') = Len(lines) - 1
      /\ \A i \in 1 .. Len(lines') : lines'[i] = lines[i + 1]
  BY <1>1, <1>2, HeadTailProperties, LenProperties, EmptySeq
<1>4. k \in Keys /\ v \in Inodes
  BY <1>3 DEF Line
<1>5. v \in Conns => Uses(v, k)
  BY <1>3 DEF TablesInv, LinesRight
<1>6. LinesRight'
  <2> SUFFICES ASSUME NEW i \in 1 .. Len(lines'), lines'[i].inode \in Conns
               PROVE  Uses(lines'[i].inode, lines'[i].key)
    BY DEF LinesRight, Uses
  <2>1. i + 1 \in 1 .. Len(lines) /\ lines'[i] = lines[i + 1]
    BY <1>3
  <2> QED
    BY <2>1 DEF TablesInv, LinesRight
<1> HIDE DEF k, v
<1>7. MappingTypeOK' /\ HashRight'
  <2>1. CASE connInodeHash' = connInodeHash
    BY <2>1 DEF TablesInv, MappingTypeOK, HashRight, Uses
  <2>2. CASE Add(k, v)
    <3> DEFINE e == [value |-> v, age |-> "young"]
    <3>1. connInodeHash' = [x \in DOMAIN connInodeHash \cup {k} |->
                               IF x = k THEN e ELSE connInodeHash[x]]
      BY <2>2 DEF Add
    <3>2. e \in Entry /\ e.value = v
      BY <1>4 DEF Entry, Ages
    <3> HIDE DEF e
    <3>3. MappingTypeOK'
      BY <3>1, <3>2, <1>4 DEF TablesInv, MappingTypeOK
    <3>4. HashRight'
      BY <3>1, <3>2, <1>5 DEF TablesInv, HashRight, Uses
    <3> QED
      BY <3>3, <3>4
  <2> QED
    BY <1>1, <2>1, <2>2 DEF AddIfMissing
<1>8. ControllerTypeOK' /\ ScanTypeOK'
  BY <1>1, <1>3 DEF TablesInv, ControllerTypeOK, ScanTypeOK
<1> QED
  BY <1>6, <1>7, <1>8 DEF TablesInv

\* A descriptor is read; what is found is held at that moment (process.go:158).
LEMMA ReadFdKeeps ==
    ASSUME TablesInv, NEW p \in Pids, NEW c \in Conns, ReadFd(p, c)
    PROVE  /\ TablesInv'
           /\ \A q \in Pids : \A d \in ps'[q] : d \in ps[q] \/ q \in holders[d]
<1>1. /\ UNCHANGED <<connInodeHash, dict, inodePidMap, scanning, unread, lines, procScan>>
      /\ <<p, c>> \in unreadFds /\ unreadFds' = unreadFds \ {<<p, c>>}
      /\ ps' = IF p \in holders[c] THEN [ps EXCEPT ![p] = @ \cup {c}] ELSE ps
  BY DEF ReadFd, tableVars
<1>2. ps \in [Pids -> SUBSET Conns] /\ unreadFds \subseteq AllFds
  BY DEF TablesInv, ScanTypeOK
<1>3. ps' \in [Pids -> SUBSET Conns]
  BY <1>1, <1>2
<1>4. TablesInv'
  BY <1>1, <1>2, <1>3
  DEF TablesInv, MappingTypeOK, ControllerTypeOK, ScanTypeOK, HashRight, LinesRight, Uses
<1>5. \A q \in Pids : \A d \in ps'[q] : d \in ps[q] \/ q \in holders[d]
  BY <1>1, <1>2
<1> QED
  BY <1>4, <1>5

\* The process scan replaces the dict and the inode map: the owner of an inode
\* is a process that was found with it (process.go:484).
LEMMA CommitKeeps ==
    ASSUME TablesInv, CommitProcesses
    PROVE  /\ TablesInv'
           /\ \A c \in DOMAIN inodePidMap' :
                 c \in Conns /\ inodePidMap'[c] \in Pids /\ c \in ps[inodePidMap'[c]]
<1>1. /\ UNCHANGED <<connInodeHash, scanning, unread, lines, unreadFds>>
      /\ procScan' = FALSE /\ ps' = NoProcesses /\ dict' = ps
  BY DEF CommitProcesses, Rescan
<1>2. PICK owner \in [Seen(ps) -> Pids] :
         /\ \A c \in Seen(ps) : c \in ps[owner[c]]
         /\ inodePidMap' = owner
  BY DEF CommitProcesses, Rescan
<1>3. ps \in [Pids -> SUBSET Conns] /\ Seen(ps) \subseteq Conns
  BY DEF TablesInv, ScanTypeOK, Seen
<1>4. ControllerTypeOK'
  BY <1>1, <1>2, <1>3 DEF ControllerTypeOK
<1>5. ScanTypeOK'
  BY <1>1 DEF TablesInv, ScanTypeOK, NoProcesses
<1>6. MappingTypeOK' /\ HashRight' /\ LinesRight'
  BY <1>1 DEF TablesInv, MappingTypeOK, HashRight, LinesRight, Uses
<1>7. \A c \in DOMAIN inodePidMap' :
         c \in Conns /\ inodePidMap'[c] \in Pids /\ c \in ps[inodePidMap'[c]]
  BY <1>2, <1>3
<1> QED
  BY <1>4, <1>5, <1>6, <1>7 DEF TablesInv

\* Cleanup only takes entries away (types.go:99).
LEMMA CleanupKeeps ==
    ASSUME TablesInv, CleanupStep
    PROVE  TablesInv'
<1>1. UNCHANGED <<dict, inodePidMap, scanning, unread, lines, unreadFds, ps, procScan>>
  BY DEF CleanupStep, scanVars
<1>2. PICK late \in SUBSET (DOMAIN connInodeHash \ Old) :
         connInodeHash' = [k \in DOMAIN connInodeHash \ (Old \cup late) |->
                              [connInodeHash[k] EXCEPT !.age = "old"]]
  BY DEF CleanupStep, Cleanup
<1>3. connInodeHash \in [DOMAIN connInodeHash -> Entry] /\ DOMAIN connInodeHash \subseteq Keys
  BY DEF TablesInv, MappingTypeOK
<1>4. \A k \in DOMAIN connInodeHash :
         /\ [connInodeHash[k] EXCEPT !.age = "old"] \in Entry
         /\ [connInodeHash[k] EXCEPT !.age = "old"].value = connInodeHash[k].value
  BY <1>3 DEF Entry, Ages
<1>5. MappingTypeOK'
  BY <1>2, <1>3, <1>4 DEF MappingTypeOK
<1>6. HashRight'
  <2> SUFFICES ASSUME NEW k \in DOMAIN connInodeHash', connInodeHash'[k].value \in Conns
               PROVE  Uses(connInodeHash'[k].value, k)
    BY DEF HashRight, Uses
  <2>1. k \in DOMAIN connInodeHash /\ connInodeHash'[k].value = connInodeHash[k].value
    BY <1>2, <1>4
  <2> QED
    BY <2>1 DEF TablesInv, HashRight
<1>7. ControllerTypeOK' /\ ScanTypeOK' /\ LinesRight'
  BY <1>1 DEF TablesInv, ControllerTypeOK, ScanTypeOK, LinesRight, Uses
<1> QED
  BY <1>5, <1>6, <1>7 DEF TablesInv

\* The beginning, a failing read and the end of a scan touch no table.
LEMMA OtherScanStepsKeep ==
    ASSUME TablesInv,
           StartRescan \/ FailRead \/ FinishRescan \/ UNCHANGED <<tableVars, scanVars>>
    PROVE  /\ TablesInv'
           /\ UNCHANGED <<connInodeHash, dict, inodePidMap, lines, ps>>
<1>1. /\ UNCHANGED <<connInodeHash, dict, inodePidMap, lines, ps>>
      /\ unread' \subseteq Conns /\ unreadFds' \subseteq AllFds
  BY DEF StartRescan, FailRead, FinishRescan, tableVars, scanVars, TablesInv, ScanTypeOK
<1>2. scanning' \in BOOLEAN /\ procScan' \in BOOLEAN
  BY DEF StartRescan, FailRead, FinishRescan, tableVars, scanVars, TablesInv, ScanTypeOK
<1>3. MappingTypeOK' /\ ControllerTypeOK' /\ ScanTypeOK' /\ HashRight' /\ LinesRight'
  BY <1>1, <1>2
  DEF TablesInv, MappingTypeOK, ControllerTypeOK, ScanTypeOK, HashRight, LinesRight, Uses
<1> QED
  BY <1>1, <1>3 DEF TablesInv

\* A step of a scan adds to what was found only what is held at that moment, and
\* leaves the process table alone.
LEMMA ScanStepKeeps ==
    ASSUME TablesInv, ScanStep
    PROVE  /\ TablesInv'
           /\ UNCHANGED <<dict, inodePidMap>>
           /\ \A q \in Pids : \A d \in ps'[q] : d \in ps[q] \/ q \in holders[d]
<1>1. ASSUME NEW c \in Conns, ReadLine(c)
      PROVE  TablesInv' /\ UNCHANGED <<dict, inodePidMap, ps>>
  BY <1>1, ReadLineKeeps DEF ReadLine, tableVars
<1>2. ASSUME AddLine PROVE TablesInv' /\ UNCHANGED <<dict, inodePidMap, ps>>
  BY <1>2, AddLineKeeps DEF AddLine
<1>3. ASSUME NEW p \in Pids, NEW c \in Conns, ReadFd(p, c)
      PROVE  /\ TablesInv' /\ UNCHANGED <<dict, inodePidMap>>
             /\ \A q \in Pids : \A d \in ps'[q] : d \in ps[q] \/ q \in holders[d]
  BY <1>3, ReadFdKeeps DEF ReadFd, tableVars
<1> QED
  BY <1>1, <1>2, <1>3 DEF ScanStep

\* What a lookup returns: an inode's owner, known to be a process that held a
\* socket with the address pair (netflow.go:803).
LEMMA LookupFindsOwner ==
    ASSUME TablesInv, NEW held, OwnersIn(held), NEW k, NEW p \in getProcessByAddr(k)
    PROVE  k \in Keys /\ p \in Pids /\ \E c \in Conns : Uses(c, k) /\ p \in held[c]
<1> DEFINE c == connInodeHash[k].value
<1>1. k \in DOMAIN connInodeHash /\ p \in GetProcessByInode(c)
  BY DEF getProcessByAddr
<1>2. c \in DOMAIN inodePidMap /\ p = inodePidMap[c]
  BY <1>1 DEF GetProcessByInode
<1>3. c \in Conns /\ k \in Keys /\ p \in Pids
  BY <1>1, <1>2 DEF TablesInv, ControllerTypeOK, MappingTypeOK
<1>4. Uses(c, k) /\ p \in held[c]
  BY <1>1, <1>2, <1>3 DEF TablesInv, HashRight, OwnersIn
<1> QED
  BY <1>3, <1>4

-----------------------------------------------------------------------------
(* What the tables say once a scan has run while nothing changed.          *)

\* A socket that a process has is held by some process.
KernelLive == \A c \in Conns : sock[c] = "open" => holders[c] # {}

\* Outside a scan nothing is left over from one.
ScanIdle ==
    /\ ~ procScan => ps = NoProcesses /\ unreadFds = {}
    /\ ~ scanning => ~ procScan /\ unread = {} /\ lines = <<>>

\* The inode v is what the line of an established socket with the pair k shows.
Shown(k, v) == \E c \in Conns : Established(c) /\ Uses(c, k) /\ v = inodeOf(c)

Named(k) == k \in DOMAIN connInodeHash /\ Shown(k, connInodeHash[k].value)

LinesFresh == \A i \in 1 .. Len(lines) : Shown(lines[i].key, lines[i].inode)

OnItsWay(k) == \E i \in 1 .. Len(lines) : lines[i].key = k

\* The pairs of an established socket whose line was read are added, or will be.
Scanned ==
    \A c \in Conns \ unread : \A k \in Keys :
        Established(c) /\ Uses(c, k) => (OnItsWay(k) \/ Named(k))

AllNamed ==
    \A c \in Conns : \A k \in Keys : Established(c) /\ Uses(c, k) => Named(k)

\* GetProcesses found exactly what there was to see where it looked.
FoundExact ==
    \A p \in Pids : \A c \in Conns :
        c \in ps[p] <=> (p \in holders[c] /\ <<p, c>> \notin unreadFds)

\* The process table is the kernel's.
TablesExact ==
    /\ \A p \in Pids : \A c \in Conns : c \in dict[p] <=> p \in holders[c]
    /\ \A c \in Conns : holders[c] # {} => c \in DOMAIN inodePidMap
    /\ \A c \in DOMAIN inodePidMap : inodePidMap[c] \in holders[c]

\* Shown depends on the kernel only.
LEMMA ShownStays ==
    ASSUME UNCHANGED kernelVars, NEW k, NEW v
    PROVE  Shown(k, v)' <=> Shown(k, v)
BY DEF kernelVars, Shown, Established, Uses, inodeOf

\* A step of the kernel closes a socket with its last descriptor.
LEMMA KernelStaysLive ==
    ASSUME KernelTypeOK, KernelLive, KernelStep
    PROVE  KernelLive'
<1> USE DEF KernelTypeOK, KernelLive, SockStates
<1>1. ASSUME NEW c \in Conns, Arrive(c) \/ Shutdown(c) PROVE KernelLive'
  BY <1>1 DEF Arrive, Shutdown
<1>2. ASSUME NEW c \in Conns, NEW p \in Pids,
             Connect(c, p) \/ Accept(c, p) \/ Inherit(c, p)
      PROVE KernelLive'
  BY <1>2 DEF Connect, Accept, Inherit
<1>3. ASSUME NEW c \in Conns, NEW p \in Pids, CloseFd(c, p) PROVE KernelLive'
  <2> SUFFICES ASSUME NEW d \in Conns, sock'[d] = "open" PROVE holders'[d] # {}
    OBVIOUS
  <2>1. CASE d # c
    BY <1>3, <2>1 DEF CloseFd
  <2>2. CASE d = c
    <3>1. holders[c] # {p} /\ p \in holders[c] /\ holders'[c] = holders[c] \ {p}
      BY <1>3, <2>2 DEF CloseFd
    <3> QED
      BY <2>2, <3>1
  <2> QED
    BY <2>1, <2>2
<1> QED
  BY <1>1, <1>2, <1>3 DEF KernelStep

\* The scans' steps leave nothing behind when the scan is over.
LEMMA ScanStaysIdle ==
    ASSUME ScanTypeOK, ScanIdle,
           \/ StartRescan \/ ScanStep \/ FailRead \/ CommitProcesses \/ FinishRescan
           \/ UNCHANGED scanVars
    PROVE  ScanIdle'
<1> USE DEF ScanIdle, NoProcesses
<1>1. CASE StartRescan
  BY <1>1 DEF StartRescan
<1>2. CASE ScanStep
  <2>1. ASSUME NEW c \in Conns, ReadLine(c) PROVE ScanIdle'
    BY <2>1 DEF ReadLine
  <2>2. CASE AddLine
    BY <2>2 DEF AddLine
  <2>3. ASSUME NEW p \in Pids, NEW c \in Conns, ReadFd(p, c) PROVE ScanIdle'
    BY <2>3 DEF ReadFd
  <2> QED
    BY <1>2, <2>1, <2>2, <2>3 DEF ScanStep
<1>3. CASE FailRead \/ FinishRescan \/ UNCHANGED scanVars
  BY <1>3 DEF FailRead, FinishRescan, scanVars
<1>4. CASE CommitProcesses
  BY <1>4 DEF CommitProcesses
<1> QED
  BY <1>1, <1>2, <1>3, <1>4

\* What is true now of the tables and the scans stays true while none of them,
\* nor the kernel, changes.
LEMMA FreshStutters ==
    ASSUME UNCHANGED kernelVars, UNCHANGED connInodeHash
    PROVE  /\ AllNamed => AllNamed'
           /\ UNCHANGED lines /\ LinesFresh => LinesFresh'
           /\ UNCHANGED <<unread, lines>> /\ Scanned => Scanned'
           /\ UNCHANGED <<unreadFds, ps>> /\ FoundExact => FoundExact'
           /\ UNCHANGED <<dict, inodePidMap>> /\ TablesExact => TablesExact'
<1>1. AllNamed => AllNamed'
  BY DEF kernelVars, AllNamed, Named, Shown, Established, Uses, inodeOf
<1>2. UNCHANGED lines /\ LinesFresh => LinesFresh'
  BY DEF kernelVars, LinesFresh, Shown, Established, Uses, inodeOf
<1>3. UNCHANGED <<unread, lines>> /\ Scanned => Scanned'
  BY DEF kernelVars, Scanned, OnItsWay, Named, Shown, Established, Uses, inodeOf
<1>4. UNCHANGED <<unreadFds, ps>> /\ FoundExact => FoundExact'
  BY DEF kernelVars, FoundExact
<1>5. UNCHANGED <<dict, inodePidMap>> /\ TablesExact => TablesExact'
  BY DEF kernelVars, TablesExact
<1> QED
  BY <1>1, <1>2, <1>3, <1>4, <1>5

\* A scan begins with nothing read and nothing found, which is exact.
LEMMA StartIsFresh ==
    ASSUME ScanIdle, StartRescan
    PROVE  LinesFresh' /\ Scanned' /\ FoundExact'
<1>1. /\ lines' = <<>> /\ unread' = Conns /\ ps' = NoProcesses /\ unreadFds' = Pids \X Conns
  BY DEF ScanIdle, StartRescan, AllFds
<1>2. LinesFresh' /\ Scanned'
  BY <1>1 DEF LinesFresh, Scanned
<1>3. FoundExact'
  BY <1>1 DEF FoundExact, NoProcesses
<1> QED
  BY <1>2, <1>3

\* A line that is read shows what is there (netstat.go:47).
LEMMA ReadLineIsFresh ==
    ASSUME TablesInv, LinesFresh, UNCHANGED kernelVars, NEW c \in Conns, ReadLine(c)
    PROVE  LinesFresh' /\ (Scanned => Scanned') /\ (AllNamed => AllNamed')
<1> DEFINE one == [key |-> Addr[c], inode |-> inodeOf(c)]
           two == [key |-> Reverse[Addr[c]], inode |-> inodeOf(c)]
           n == Len(lines)
<1>1. /\ UNCHANGED connInodeHash
      /\ unread' = unread \ {c}
      /\ IF Established(c) THEN lines' = lines \o <<one, two>> ELSE lines' = lines
  BY DEF ReadLine, tableVars
<1>2. AllNamed => AllNamed'
  BY <1>1, FreshStutters
<1>3. \A k : Named(k) => Named(k)'
  BY <1>1, ShownStays DEF Named
<1>4. \A d \in Conns : Established(d)' <=> Established(d)
  BY DEF kernelVars, Established
<1>5. \A k : \A v : Shown(k, v)' <=> Shown(k, v)
  BY ShownStays
<1>6. lines \in Seq(Line)
  BY DEF TablesInv, ScanTypeOK
<1>7. CASE ~ Established(c)
  <2>1. lines' = lines
    BY <1>1, <1>7
  <2>2. Scanned => Scanned'
    BY <1>1, <1>3, <1>4, <1>7, <2>1 DEF Scanned, OnItsWay, Uses
  <2> QED
    BY <1>1, <1>2, <2>1, <2>2, FreshStutters
<1>8. CASE Established(c)
  <2>1. one \in Line /\ two \in Line
    BY AddrAssumption DEF Line, inodeOf, Inodes
  <2>2. /\ Shown(one.key, one.inode) /\ Shown(two.key, two.inode)
        /\ \A k : Uses(c, k) => (one.key = k \/ two.key = k)
    BY <1>8 DEF Shown, Uses
  <2>3. lines' = lines \o <<one, two>>
    BY <1>1, <1>8
  <2> HIDE DEF one, two
  <2>4. /\ <<one, two>> \in Seq(Line) /\ Len(<<one, two>>) = 2
        /\ <<one, two>>[1] = one /\ <<one, two>>[2] = two
    BY <2>1
  <2>5. n \in Nat
    BY <1>6, LenProperties
  <2> DEFINE pair == <<one, two>>
  <2>6. /\ Len(lines \o pair) = n + Len(pair)
        /\ \A i \in 1 .. n + Len(pair) :
              (lines \o pair)[i] = IF i <= n THEN lines[i] ELSE pair[i - n]
    BY <1>6, <2>4, ConcatProperties
  <2> HIDE DEF n
  <2>7. /\ Len(lines') = n + 2
        /\ \A i \in 1 .. n : lines'[i] = lines[i]
        /\ lines'[n + 1] = one /\ lines'[n + 2] = two
    <3>1. \A i \in 1 .. n + 2 : lines'[i] = IF i <= n THEN lines[i] ELSE pair[i - n]
      BY <2>3, <2>4, <2>6
    <3>2. Len(lines') = n + 2
      BY <2>3, <2>4, <2>6
    <3>3. \A i \in 1 .. n : lines'[i] = lines[i]
      BY <2>5, <3>1
    <3>4. lines'[n + 1] = pair[1] /\ lines'[n + 2] = pair[2]
      BY <2>5, <3>1
    <3> QED
      BY <2>4, <3>2, <3>3, <3>4
  <2>8. \A i \in 1 .. n + 2 : i \in 1 .. n \/ i = n + 1 \/ i = n + 2
    BY <2>5
  <2>9. LinesFresh'
    <3>1. \A i \in 1 .. Len(lines') : Shown(lines'[i].key, lines'[i].inode)
      BY <2>2, <2>7, <2>8 DEF LinesFresh, n
    <3> QED
      BY <3>1 DEF LinesFresh, kernelVars, Shown, Established, Uses, inodeOf
  <2>10. ASSUME NEW k, OnItsWay(k) PROVE OnItsWay(k)'
    <3>1. PICK i \in 1 .. n : lines[i].key = k
      BY <2>10 DEF OnItsWay, n
    <3>2. i \in 1 .. Len(lines') /\ lines'[i].key = k
      BY <2>5, <2>7, <3>1
    <3> QED
      BY <3>2 DEF OnItsWay
  <2>11. ASSUME NEW k, Uses(c, k) PROVE OnItsWay(k)'
    <3>1. n + 1 \in 1 .. Len(lines') /\ n + 2 \in 1 .. Len(lines')
      BY <2>5, <2>7
    <3> QED
      BY <2>2, <2>7, <2>11, <3>1 DEF OnItsWay
  <2>12. Scanned => Scanned'
    BY <1>1, <1>3, <1>4, <2>10, <2>11 DEF Scanned, Uses
  <2> QED
    BY <1>2, <2>9, <2>12
<1> QED
  BY <1>7, <1>8

\* Adding a line that is true makes its pair named, and unnames none
\* (netflow.go:446).
LEMMA AddLineIsFresh ==
    ASSUME TablesInv, LinesFresh, UNCHANGED kernelVars, AddLine
    PROVE  LinesFresh' /\ (Scanned => Scanned') /\ (AllNamed => AllNamed')
<1>0. PICK key, value : key = Head(lines).key /\ value = Head(lines).inode
  OBVIOUS
<1>1. /\ UNCHANGED unread
      /\ lines # <<>> /\ lines' = Tail(lines)
      /\ AddIfMissing(key, value)
  BY <1>0 DEF AddLine
<1>2. /\ Len(lines) \in Nat /\ Len(lines) >= 1
      /\ Head(lines) = lines[1]
      /\ Len(lines') = Len(lines) - 1
      /\ \A i \in 1 .. Len(lines') : lines'[i] = lines[i + 1]
  BY <1>1, HeadTailProperties, LenProperties, EmptySeq DEF TablesInv, ScanTypeOK
<1>3. Shown(key, value)
  BY <1>0, <1>2 DEF LinesFresh
<1>4. \A k : \A v : Shown(k, v)' <=> Shown(k, v)
  BY ShownStays
<1>5. \A d \in Conns : Established(d)' <=> Established(d)
  BY DEF kernelVars, Established
<1>6. /\ key \in DOMAIN connInodeHash' /\ connInodeHash'[key].value = value
      /\ \A k \in DOMAIN connInodeHash :
            k # key => k \in DOMAIN connInodeHash' /\ connInodeHash'[k] = connInodeHash[k]
  <2>1. CASE Exists(key, value)
    BY <1>1, <2>1 DEF AddIfMissing, Exists
  <2>2. CASE ~ Exists(key, value)
    <3> DEFINE e == [value |-> value, age |-> "young"]
    <3>1. connInodeHash' = [x \in DOMAIN connInodeHash \cup {key} |->
                               IF x = key THEN e ELSE connInodeHash[x]]
      BY <1>1, <2>2 DEF AddIfMissing, Add
    <3>2. e.value = value
      OBVIOUS
    <3> HIDE DEF e
    <3> QED
      BY <3>1, <3>2
  <2> QED
    BY <2>1, <2>2
<1>7. Shown(key, connInodeHash'[key].value)
  BY <1>3, <1>6
<1>8. Named(key)'
  BY <1>6, <1>7 DEF kernelVars, Named, Shown, Established, Uses, inodeOf
<1>9. ASSUME NEW k, Named(k) PROVE Named(k)'
  <2>1. CASE k = key
    BY <1>8, <2>1
  <2>2. CASE k # key
    <3>1. k \in DOMAIN connInodeHash' /\ Shown(k, connInodeHash'[k].value)
      BY <1>6, <1>9, <2>2 DEF Named
    <3> QED
      BY <3>1 DEF kernelVars, Named, Shown, Established, Uses, inodeOf
  <2> QED
    BY <2>1, <2>2
<1>10. LinesFresh'
  <2>1. \A i \in 1 .. Len(lines') : i + 1 \in 1 .. Len(lines) /\ lines'[i] = lines[i + 1]
    BY <1>2
  <2>2. \A i \in 1 .. Len(lines') : Shown(lines'[i].key, lines'[i].inode)
    BY <2>1 DEF LinesFresh
  <2> QED
    BY <2>2 DEF LinesFresh, kernelVars, Shown, Established, Uses, inodeOf
<1>11. ASSUME NEW k, OnItsWay(k) PROVE OnItsWay(k)' \/ Named(k)'
  <2>1. PICK i \in 1 .. Len(lines) : lines[i].key = k
    BY <1>11 DEF OnItsWay
  <2>2. CASE i = 1
    BY <1>0, <1>2, <1>8, <2>1, <2>2
  <2>3. CASE i # 1
    <3>1. i - 1 \in 1 .. Len(lines') /\ lines'[i - 1] = lines[(i - 1) + 1] /\ (i - 1) + 1 = i
      BY <1>2, <2>3
    <3> QED
      BY <2>1, <3>1 DEF OnItsWay
  <2> QED
    BY <2>2, <2>3
<1>12. Scanned => Scanned'
  BY <1>1, <1>5, <1>9, <1>11 DEF Scanned, Uses
<1>13. AllNamed => AllNamed'
  BY <1>5, <1>9 DEF AllNamed, Uses
<1> QED
  BY <1>10, <1>12, <1>13

\* A descriptor is seen where it is (process.go:158).
LEMMA ReadFdIsFresh ==
    ASSUME TablesInv, FoundExact, UNCHANGED kernelVars,
           NEW p \in Pids, NEW c \in Conns, ReadFd(p, c)
    PROVE  FoundExact'
<1>1. /\ unreadFds' = unreadFds \ {<<p, c>>} /\ <<p, c>> \in unreadFds
      /\ ps' = IF p \in holders[c] THEN [ps EXCEPT ![p] = @ \cup {c}] ELSE ps
      /\ holders' = holders /\ ps \in [Pids -> SUBSET Conns]
  BY DEF ReadFd, kernelVars, TablesInv, ScanTypeOK
<1> SUFFICES ASSUME NEW q \in Pids, NEW d \in Conns
             PROVE  d \in ps'[q] <=> (q \in holders[d] /\ <<q, d>> \notin unreadFds')
  BY <1>1 DEF FoundExact
<1>2. CASE q = p /\ d = c
  BY <1>1, <1>2 DEF FoundExact
<1>3. CASE ~ (q = p /\ d = c)
  <2>1. d \in ps'[q] <=> d \in ps[q]
    BY <1>1, <1>3
  <2>2. <<q, d>> \in unreadFds' <=> <<q, d>> \in unreadFds
    BY <1>1, <1>3
  <2> QED
    BY <2>1, <2>2 DEF FoundExact
<1> QED
  BY <1>2, <1>3

\* The process table is replaced by what was found (process.go:484).
LEMMA CommitIsFresh ==
    ASSUME KernelTypeOK, TablesInv, FoundExact, UNCHANGED kernelVars, CommitProcesses
    PROVE  TablesExact'
<1>1. dict' = ps /\ unreadFds = {} /\ holders' = holders /\ ps \in [Pids -> SUBSET Conns]
  BY DEF CommitProcesses, Rescan, kernelVars, TablesInv, ScanTypeOK
<1>2. PICK owner \in [Seen(ps) -> Pids] :
         /\ \A c \in Seen(ps) : c \in ps[owner[c]]
         /\ inodePidMap' = owner
  BY DEF CommitProcesses, Rescan
<1>3. \A p \in Pids : \A c \in Conns : c \in ps[p] <=> p \in holders[c]
  BY <1>1 DEF FoundExact
<1>4. ASSUME NEW c \in Conns, holders[c] # {} PROVE c \in Seen(ps)
  BY <1>3, <1>4 DEF Seen, KernelTypeOK
<1>5. Seen(ps) \subseteq Conns
  BY <1>1 DEF Seen
<1>6. \A c \in DOMAIN inodePidMap' : inodePidMap'[c] \in holders[c]
  BY <1>2, <1>3, <1>5
<1> QED
  BY <1>1, <1>2, <1>3, <1>4, <1>6 DEF TablesExact

\* A step of a scan during which nothing changes keeps what is on its way true,
\* and makes the tables no worse.
LEMMA ScanStepIsFresh ==
    ASSUME TablesInv, LinesFresh, UNCHANGED kernelVars, ScanStep
    PROVE  /\ LinesFresh' /\ (Scanned => Scanned') /\ (AllNamed => AllNamed')
           /\ FoundExact => FoundExact'
           /\ TablesExact => TablesExact'
           /\ UNCHANGED <<scanning, procScan>>
<1>1. ASSUME NEW c \in Conns, ReadLine(c)
      PROVE  /\ LinesFresh' /\ (Scanned => Scanned') /\ (AllNamed => AllNamed')
             /\ UNCHANGED <<unreadFds, ps, dict, inodePidMap, scanning, procScan>>
  BY <1>1, ReadLineIsFresh DEF ReadLine, tableVars
<1>2. ASSUME AddLine
      PROVE  /\ LinesFresh' /\ (Scanned => Scanned') /\ (AllNamed => AllNamed')
             /\ UNCHANGED <<unreadFds, ps, dict, inodePidMap, scanning, procScan>>
  BY <1>2, AddLineIsFresh DEF AddLine
<1>3. ASSUME NEW p \in Pids, NEW c \in Conns, ReadFd(p, c)
      PROVE  /\ LinesFresh' /\ (Scanned => Scanned') /\ (AllNamed => AllNamed')
             /\ FoundExact => FoundExact'
             /\ UNCHANGED <<dict, inodePidMap, scanning, procScan>>
  <2>1. UNCHANGED <<connInodeHash, unread, lines, dict, inodePidMap, scanning, procScan>>
    BY <1>3 DEF ReadFd, tableVars
  <2> QED
    BY <1>3, <2>1, FreshStutters, ReadFdIsFresh
<1>4. UNCHANGED <<unreadFds, ps>> /\ FoundExact => FoundExact'
  BY DEF kernelVars, FoundExact
<1>5. UNCHANGED <<dict, inodePidMap>> /\ TablesExact => TablesExact'
  BY DEF kernelVars, TablesExact
<1> QED
  BY <1>1, <1>2, <1>3, <1>4, <1>5 DEF ScanStep

\* Once every line was read and added, every established socket is named.
LEMMA AllRead ==
    ASSUME Scanned, unread = {}, lines = <<>>
    PROVE  AllNamed
BY DEF Scanned, AllNamed, OnItsWay

\* With such tables a connection is found by both of its pairs, and belongs to
\* who is found (netflow.go:803).
LEMMA QuietLookup ==
    ASSUME KernelTypeOK, TablesInv, KernelLive, AllNamed, TablesExact,
           NEW c \in Conns, NEW k \in Keys, sock[c] = "open", Uses(c, k),
           \A d \in Conns : Uses(d, k) => sock[d] # "pending"
    PROVE  /\ getProcessByAddr(k) # {}
           /\ \A p \in getProcessByAddr(k) : \E d \in Conns : Uses(d, k) /\ p \in holders[d]
<1>1. Named(k)
  BY DEF AllNamed, Established
<1>2. PICK d \in Conns : Established(d) /\ Uses(d, k) /\ connInodeHash[k].value = inodeOf(d)
  BY <1>1 DEF Named, Shown
<1>3. sock[d] = "open" /\ connInodeHash[k].value = d
  BY <1>2 DEF Established, inodeOf
<1>4. d \in DOMAIN inodePidMap /\ inodePidMap[d] \in holders[d] /\ inodePidMap[d] \in Pids
  BY <1>3 DEF KernelLive, TablesExact, KernelTypeOK
<1>5. inodePidMap[d] \in Monitored
  BY <1>4 DEF TablesExact, Monitored
<1>6. getProcessByAddr(k) = {inodePidMap[d]}
  BY <1>1, <1>3, <1>4, <1>5 DEF getProcessByAddr, GetProcessByInode, Named
<1> QED
  BY <1>2, <1>4, <1>6
=============================================================================
