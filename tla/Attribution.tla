------------------------------ MODULE Attribution ------------------------------
(***************************************************************************)
(* Does the process that netflow finds for an address pair really own the  *)
(* connection?  The scans of Resolver run for ever beside a changing       *)
(* kernel; history variables remember which processes held a socket since  *)
(* the scan began whose result is in use.                                  *)
(***************************************************************************)
EXTENDS Resolver

CONSTANT MaxChanges     \* bound: steps of the kernel

ASSUME MaxChangesAssumption == MaxChanges \in Nat

VARIABLES
    changes,    \* steps of the kernel so far
    since,      \* since[c]: holders of c at some time since the last scan began
    base,       \* the same, since the scan began that inodePidMap comes from
    quiet,      \* nothing changed since the last scan began
    synced      \* nothing changed since the last finished scan began

historyVars == <<changes, since, base, quiet, synced>>

vars == <<kernelVars, tableVars, scanVars, historyVars>>

\* Type invariant: the tables map address pairs to inodes and inodes to monitored
\* pids, whatever is added, committed or cleaned between the reads of a scan.
TypeOK ==
    /\ KernelTypeOK /\ MappingTypeOK /\ ControllerTypeOK /\ ScanTypeOK
    /\ changes \in 0 .. MaxChanges
    /\ since \in [Conns -> SUBSET Pids]
    /\ base \in [Conns -> SUBSET Pids]
    /\ quiet \in BOOLEAN /\ synced \in BOOLEAN

Init ==
    /\ KernelInit /\ NewMapping /\ NewProcessController /\ ScanInit
    /\ changes = 0
    /\ since = holders /\ base = holders
    /\ quiet = FALSE /\ synced = FALSE

KernelChanges ==
    /\ changes < MaxChanges /\ changes' = changes + 1
    /\ KernelStep
    /\ since' = [c \in Conns |-> since[c] \cup holders'[c]]
    /\ base' = [c \in Conns |-> base[c] \cup holders'[c]]
    /\ quiet' = FALSE /\ synced' = FALSE
    /\ UNCHANGED <<tableVars, scanVars>>

BeginRescan ==
    /\ StartRescan
    /\ since' = holders /\ quiet' = TRUE
    /\ UNCHANGED <<kernelVars, changes, base, synced>>

Scan ==
    /\ ScanStep
    /\ UNCHANGED <<kernelVars, historyVars>>

ScanError ==
    /\ FailRead
    /\ quiet' = FALSE
    /\ UNCHANGED <<kernelVars, changes, since, base, synced>>

Commit ==
    /\ CommitProcesses
    /\ base' = since
    /\ UNCHANGED <<kernelVars, changes, since, quiet, synced>>

EndRescan ==
    /\ FinishRescan
    /\ synced' = quiet
    /\ UNCHANGED <<kernelVars, changes, since, base, quiet>>

Clean ==
    /\ CleanupStep
    /\ quiet' = FALSE /\ synced' = FALSE
    /\ UNCHANGED <<kernelVars, changes, since, base>>

Next ==
    \/ KernelChanges
    \/ BeginRescan \/ Scan \/ ScanError \/ Commit \/ EndRescan
    \/ Clean

\* The goroutines of the syncer and of the cleaner keep running; the kernel is
\* free to do nothing.
Fairness ==
    /\ WF_vars(BeginRescan) /\ WF_vars(Scan) /\ WF_vars(Commit) /\ WF_vars(EndRescan)
    /\ WF_vars(Clean)

Spec == Init /\ [][Next]_vars

FairSpec == Spec /\ Fairness

-----------------------------------------------------------------------------
\* The process found for a packet's address pair held a socket with that pair,
\* or its mirror image, at some time since the scan began whose result is in
\* use: a packet is never charged to a process that had nothing to do with it,
\* whatever happened between the reads of the two scans (netflow.go:803).
AttributionSound ==
    \A k \in Keys : \A p \in getProcessByAddr(k) :
        \E c \in Conns : Uses(c, k) /\ p \in base[c]

\* After a scan during which nothing changed, and until something does, every
\* accepted connection is found by both of its address pairs, and found to
\* belong to a process that holds it or, on loopback, its other end. (A
\* loopback peer that is still in the listen queue hides it: its line maps the
\* pair to inode 0.)
FoundWhenQuiet ==
    synced =>
        \A c \in Conns, k \in Keys :
            /\ sock[c] = "open" /\ Uses(c, k)
            /\ \A d \in Conns : Uses(d, k) => sock[d] # "pending"
            => /\ getProcessByAddr(k) # {}
               /\ \A p \in getProcessByAddr(k) :
                     \E d \in Conns : Uses(d, k) /\ p \in holders[d]

\* Nothing keeps an entry of a closed socket alive: although rescanConns never
\* refreshes a timestamp and may add a line it read before the close, the
\* entries of a closed socket are gone for good after some cleanups
\* (netflow.go:269).
ClosedPurged ==
    \A c \in Conns :
        sock[c] = "closed" ~>
            [](\A k \in DOMAIN connInodeHash : connInodeHash[k].value # c)

\* Cleanup also deletes entries of connections that are still open, because an
\* entry that exists is not refreshed. The next scans bring them back: a
\* connection that stays open in a process is found again and again.
OpenFoundAgain ==
    \A c \in Conns, p \in Pids :
        <>[](sock[c] = "open" /\ p \in holders[c])
            => []<>(getProcessByAddr(Addr[c]) # {})
=============================================================================
