----------------------------- MODULE StartupMutex -----------------------------
(***************************************************************************)
(* The gateway's startup mutex: acquireStartupLock and releaseStartupLock  *)
(* (startup-mutex.ts) with their callers in gateway.ts.  A booting gateway *)
(* links its record to the PID file; on EEXIST it reads the record there   *)
(* and either exits or unlinks it and tries once more.  Every file system  *)
(* call is an await, so the steps of two gateways interleave between them. *)
(*                                                                         *)
(* A pid is a member of Gateways; it is handed out again once no record of *)
(* the current container boot names it.  A container restart ends every    *)
(* process and starts pids afresh under a new boot id.                     *)
(***************************************************************************)
EXTENDS Naturals

CONSTANTS
    Gateways,   \* pids of gateway processes
    MaxFaults   \* adverse events: shutdowns, crashes, container restarts, errors

ASSUME MutexAssumption ==
    MaxFaults \in Nat /\ "none" \notin Gateways

VARIABLES
    pc,         \* where each process is in acquireStartupLock or shutdown
    tries,      \* `attempt`
    file,       \* the record in the PID file
    boot,       \* the current boot id
    faults,     \* adverse events so far
    \* observation only
    contended,  \* processes that shared some of their acquisition with another one
    breached,   \* a process has destroyed the record of another live one
    fellBack    \* some record was written by the legacy path, without a boot id

lockVars  == <<pc, tries, file, boot, contended, breached, fellBack>>
mutexVars == <<lockVars, faults>>

NoBootId == 0
NoRecord == [pid |-> "none", boot |-> NoBootId]

Down    == {"off", "blocked"}
Booting == {"link", "read", "unlink", "final"}

isAlive(g)     == pc[g] \notin Down
holders        == {g \in Gateways : pc[g] = "held"}
OthersAlive(g) == \E h \in Gateways \ {g} : isAlive(h)

\* The file holds the record of another process that is up.
Destroys(g) == \E h \in holders \ {g} : file.pid = h

MutexInit ==
    /\ pc = [g \in Gateways |-> "off"]
    /\ tries = [g \in Gateways |-> 0]
    /\ file = NoRecord /\ boot = 1 /\ faults = 0
    /\ contended = {} /\ breached = FALSE /\ fellBack = FALSE

-----------------------------------------------------------------------------
(* acquireStartupLock                                                      *)

\* The process starts and writes its temporary file.
Boot(g) ==
    /\ ~isAlive(g)
    /\ file # [pid |-> g, boot |-> boot]
    /\ pc' = [pc EXCEPT ![g] = "link"]
    /\ tries' = [tries EXCEPT ![g] = 0]
    /\ contended' = (contended \ {g})
                       \cup (IF OthersAlive(g) THEN {g} ELSE {})
                       \cup {h \in Gateways \ {g} : pc[h] \in Booting}
    /\ UNCHANGED <<file, boot, faults, breached, fellBack>>

\* Mutant: the record is renamed into place, over whatever is there.
LinkTmpClobbers(g) ==
    /\ pc[g] = "link"
    /\ file' = [pid |-> g, boot |-> boot]
    /\ pc' = [pc EXCEPT ![g] = "held"]
    /\ UNCHANGED <<tries, boot, faults, contended, breached, fellBack>>

LinkTmp(g) ==
    /\ pc[g] = "link"
    /\ IF file = NoRecord
       THEN /\ file' = [pid |-> g, boot |-> boot]
            /\ pc' = [pc EXCEPT ![g] = "held"]
       ELSE /\ pc' = [pc EXCEPT ![g] = "read"]
            /\ UNCHANGED file
    /\ UNCHANGED <<tries, boot, faults, contended, breached, fellBack>>

\* A record counts as stale when it cannot be read (it has gone meanwhile), when
\* it was written in another boot, or when its process is dead.
\* Mutant: no boot gate, as before #884.
bootMismatchIgnored(record) == FALSE

bootMismatch(record) == record.boot # NoBootId /\ record.boot # boot

Stale(record) ==
    \/ record = NoRecord
    \/ bootMismatch(record)
    \/ ~isAlive(record.pid)

ReadHolder(g) ==
    /\ pc[g] = "read"
    /\ pc' = [pc EXCEPT ![g] = IF Stale(file) THEN "unlink" ELSE "blocked"]
    /\ UNCHANGED <<tries, file, boot, faults, contended, breached, fellBack>>

\* unlink(path): whatever record is there by now.
NextAttempt(g) == IF tries[g] = 0 THEN "link" ELSE "final"

UnlinkStale(g) ==
    /\ pc[g] = "unlink"
    /\ file' = NoRecord
    /\ tries' = [tries EXCEPT ![g] = @ + 1]
    /\ pc' = [pc EXCEPT ![g] = NextAttempt(g)]
    /\ breached' = (breached \/ Destroys(g))
    /\ UNCHANGED <<boot, faults, contended, fellBack>>

\* Both attempts found a record: blocked, whatever the file says now.
GiveUp(g) ==
    /\ pc[g] = "final"
    /\ pc' = [pc EXCEPT ![g] = "blocked"]
    /\ UNCHANGED <<tries, file, boot, faults, contended, breached, fellBack>>

\* Any other error is thrown; the caller falls through to writePidFile, which
\* replaces the file without looking at it and stamps no boot id.
FallBack(g) ==
    /\ pc[g] \in {"link", "unlink"} /\ faults < MaxFaults
    /\ faults' = faults + 1
    /\ file' = [pid |-> g, boot |-> NoBootId]
    /\ pc' = [pc EXCEPT ![g] = "held"]
    /\ fellBack' = TRUE
    /\ breached' = (breached \/ Destroys(g))
    /\ UNCHANGED <<tries, boot, contended>>

-----------------------------------------------------------------------------
(* Shutdown, crash, restart                                                *)

\* releaseStartupLock unlinks the path without asking whose record it holds ...
Release(g) ==
    /\ pc[g] = "held" /\ faults < MaxFaults
    /\ faults' = faults + 1
    /\ file' = NoRecord
    /\ pc' = [pc EXCEPT ![g] = "released"]
    /\ breached' = (breached \/ Destroys(g))
    /\ UNCHANGED <<tries, boot, contended, fellBack>>

\* ... and clearPidFile does it once more before the process exits.
ClearAndExit(g) ==
    /\ pc[g] = "released"
    /\ file' = NoRecord
    /\ pc' = [pc EXCEPT ![g] = "off"]
    /\ breached' = (breached \/ Destroys(g))
    /\ UNCHANGED <<tries, boot, faults, contended, fellBack>>

\* SIGKILL, or the force-exit that skips the release: the record stays.
Crash(g) ==
    /\ isAlive(g) /\ faults < MaxFaults
    /\ faults' = faults + 1
    /\ pc' = [pc EXCEPT ![g] = "off"]
    /\ UNCHANGED <<tries, file, boot, contended, breached, fellBack>>

ContainerRestart ==
    /\ faults < MaxFaults
    /\ faults' = faults + 1
    /\ boot' = boot + 1
    /\ pc' = [g \in Gateways |-> "off"]
    /\ UNCHANGED <<tries, file, contended, breached, fellBack>>

Acquire(g) == LinkTmp(g) \/ ReadHolder(g) \/ UnlinkStale(g) \/ GiveUp(g)

Step(g) == Boot(g) \/ Acquire(g) \/ FallBack(g) \/ Release(g) \/ ClearAndExit(g) \/ Crash(g)

MutexNext == (\E g \in Gateways : Step(g)) \/ ContainerRestart

MutexSpec == MutexInit /\ [][MutexNext]_mutexVars

-----------------------------------------------------------------------------
(* Properties                                                              *)

MutexTypeOK ==
    /\ pc \in [Gateways -> Down \cup Booting \cup {"held", "released"}]
    /\ tries \in [Gateways -> 0..2]
    /\ file \in [pid : Gateways \cup {"none"}, boot : Nat]
    /\ boot \in Nat \ {NoBootId} /\ faults \in 0..MaxFaults
    /\ contended \subseteq Gateways
    /\ breached \in BOOLEAN /\ fellBack \in BOOLEAN

(* Two gateways own the lock at once only after some process unlinked or    *)
(* overwrote the record of a live owner: linking alone never admits two.    *)
OneOwnerUnlessBreached == \A g, h \in holders : g = h \/ breached

(* A gateway exits as blocked only if another gateway process was alive     *)
(* during its acquisition: a record left by a crash or by an earlier        *)
(* container never keeps a lone gateway down (startup-mutex.ts, #884).      *)
(* Records of the legacy fallback carry no boot id and are exempt.          *)
NeverBlockedAlone == \A g \in Gateways : pc[g] = "blocked" => g \in contended \/ fellBack
=============================================================================
