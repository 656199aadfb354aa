----------------------------- MODULE DaemonStart -----------------------------
(***************************************************************************)
(* Starting and stopping the daemon of a state directory (daemon.py).      *)
(*                                                                         *)
(* Any number of processes call ensure_running() at once, each once here,  *)
(* and one stops the daemon now and then.  They share two files:           *)
(* daemon.lock, created exclusively, which serialises starts, and          *)
(* daemon.json, which names the daemon.  A process may be killed anywhere, *)
(* and a daemon may exit at any time.  A step is one access to the shared  *)
(* files or processes; a health check may time out though its daemon is up.*)
(***************************************************************************)
EXTENDS Naturals, FiniteSets

CONSTANTS
    Callers,     \* processes that call ensure_running(); a daemon has the name
                 \* of the process that spawned it
    Nobody,
    Linux,       \* daemons can be found through /proc
    SlowStarts,  \* a start may outlive _LOCK_STALE_SECONDS
    MaxDeaths,   \* bound on the processes that are killed in ensure_running()
    MaxStops     \* bound on the calls of stop()

ASSUME DaemonAssumption ==
    /\ IsFiniteSet(Callers) /\ Nobody \notin Callers
    /\ Linux \in BOOLEAN /\ SlowStarts \in BOOLEAN
    /\ MaxDeaths \in Nat /\ MaxStops \in Nat

VARIABLES
    starter,  \* where a process is in ensure_running()
    result,   \* the daemon it returns; Nobody is an exception
    lockFile, \* who created daemon.lock, who it names, and whether it is old
    judged,   \* what a process that waits has seen of daemon.lock: whose file it
              \* has looked at, the pid it has read, whether it was old
    file,     \* the daemon that daemon.json names
    daemon,   \* the daemons
    stopper,  \* where stop() is, and the daemon it waits for
    deaths, stops,
    robbed    \* a process has lost daemon.lock while it was inside

startVars == <<starter, result, lockFile, judged, file, daemon, stopper, deaths, stops, robbed>>

NoLock == [by |-> Nobody, owner |-> Nobody, old |-> FALSE]

\* The process has daemon.lock, for all it knows.
Inside == {"write", "check", "scan", "spawn", "publish", "wait", "release"}

Locks == [by : Callers \cup {Nobody}, owner : Callers \cup {Nobody}, old : BOOLEAN]

StartTypeOK ==
    /\ starter \in [Callers -> Inside \cup {"new", "open", "held", "stale", "owner", "alive", "unlink",
                                       "done", "dead"}]
    /\ result \in [Callers -> Callers \cup {Nobody}]
    /\ lockFile \in Locks /\ judged \in [Callers -> Locks]
    /\ file \in Callers \cup {Nobody}
    /\ daemon \in [Callers -> {"none", "starting", "up", "stopping", "gone"}]
    /\ stopper \in [at : {"idle", "wait", "remove"}, target : Callers \cup {Nobody}]
    /\ stopper.at = "wait" <=> stopper.target # Nobody
    /\ deaths \in 0..MaxDeaths /\ stops \in 0..MaxStops /\ robbed \in BOOLEAN

StartInit ==
    /\ starter = [p \in Callers |-> "new"]
    /\ result = [p \in Callers |-> Nobody]
    /\ lockFile = NoLock /\ judged = [p \in Callers |-> NoLock] /\ file = Nobody
    /\ daemon = [p \in Callers |-> "none"]
    /\ stopper = [at |-> "idle", target |-> Nobody]
    /\ deaths = 0 /\ stops = 0 /\ robbed = FALSE

MoveTo(p, to) == starter' = [starter EXCEPT ![p] = to]
Return(p, d) == result' = [result EXCEPT ![p] = d]

\* _process_alive
Running(d) == daemon[d] \in {"starting", "up", "stopping"}

\* is_alive can be true: the daemon that daemon.json names may answer.
Answers == file # Nobody /\ daemon[file] \in {"up", "stopping"}

-----------------------------------------------------------------------------
(* ensure_running: until the lock is taken.                                *)

\* A daemon that answers needs no lock.
FastPath(p) ==
    /\ starter[p] = "new"
    /\ \/ Answers /\ Return(p, file) /\ MoveTo(p, "done")
       \/ MoveTo(p, "open") /\ UNCHANGED result
    /\ UNCHANGED <<lockFile, file, daemon, stopper, deaths, stops, robbed, judged>>

Open(p) ==
    /\ starter[p] = "open"
    /\ \/ lockFile = NoLock /\ lockFile' = [NoLock EXCEPT !.by = p] /\ MoveTo(p, "write")
       \/ lockFile # NoLock /\ MoveTo(p, "held") /\ UNCHANGED lockFile
    /\ UNCHANGED <<result, file, daemon, stopper, deaths, stops, robbed, judged>>

\* The pid goes into the file the process created, which may be unlinked.
Write(p) ==
    /\ starter[p] = "write"
    /\ lockFile' = IF lockFile.by = p THEN [lockFile EXCEPT !.owner = p] ELSE lockFile
    /\ MoveTo(p, "check")
    /\ UNCHANGED <<result, file, daemon, stopper, deaths, stops, robbed, judged>>

\* The lock is there: the daemon of whoever holds it is adopted if it answers.
Held(p) ==
    /\ starter[p] = "held"
    /\ \/ Answers /\ Return(p, file) /\ MoveTo(p, "done")
       \/ MoveTo(p, "stale") /\ UNCHANGED result
    /\ UNCHANGED <<lockFile, file, daemon, stopper, deaths, stops, robbed, judged>>

\* acquire_deadline
TimeOut(p) ==
    /\ starter[p] = "held"
    /\ MoveTo(p, "done")
    /\ UNCHANGED <<result, lockFile, file, daemon, stopper, deaths, stops, robbed, judged>>

\* _lock_is_stale looks three times: at the age of the file ...
StatLock(p) ==
    /\ starter[p] = "stale"
    /\ \/ lockFile = NoLock /\ MoveTo(p, "open") /\ UNCHANGED judged
       \/ /\ lockFile # NoLock /\ MoveTo(p, "owner")
          /\ judged' = [judged EXCEPT ![p] = [lockFile EXCEPT !.owner = Nobody]]
    /\ UNCHANGED <<result, lockFile, file, daemon, stopper, deaths, stops, robbed>>

\* ... at the pid in the file of that name, if there is one by now ...
ReadOwner(p) ==
    /\ starter[p] = "owner"
    /\ judged' = [judged EXCEPT ![p].owner = lockFile.owner]
    /\ MoveTo(p, "alive")
    /\ UNCHANGED <<result, lockFile, file, daemon, stopper, deaths, stops, robbed>>

\* A process that has left ensure_running() may have exited since, and the pid of
\* one that is gone may be in use again.
MayBeGone(q) == starter[q] \in {"done", "dead"}

\* Mutant: a lock that names nobody is one whose owner is gone.
JudgeNameless(p) ==
    /\ starter[p] = "alive"
    /\ \/ /\ judged[p].owner = Nobody \/ MayBeGone(judged[p].owner) \/ judged[p].old
          /\ MoveTo(p, "unlink") /\ UNCHANGED judged
       \/ ~judged[p].old /\ MoveTo(p, "open") /\ judged' = [judged EXCEPT ![p] = NoLock]
    /\ UNCHANGED <<result, lockFile, file, daemon, stopper, deaths, stops, robbed>>

\* ... and for the process with that pid.
Judge(p) ==
    /\ starter[p] = "alive"
    /\ \/ /\ (judged[p].owner # Nobody /\ MayBeGone(judged[p].owner)) \/ judged[p].old
          /\ MoveTo(p, "unlink") /\ UNCHANGED judged
       \/ ~judged[p].old /\ MoveTo(p, "open") /\ judged' = [judged EXCEPT ![p] = NoLock]
    /\ UNCHANGED <<result, lockFile, file, daemon, stopper, deaths, stops, robbed>>

\* daemon.lock is unlinked, whoever's it is by now.
UnlinkLock(p) ==
    /\ lockFile' = NoLock
    /\ robbed' = (robbed \/ (lockFile.by \notin {Nobody, p} /\ starter[lockFile.by] \in Inside))

Reclaim(p) ==
    /\ starter[p] = "unlink"
    /\ UnlinkLock(p)
    /\ MoveTo(p, "open")
    /\ judged' = [judged EXCEPT ![p] = NoLock]
    /\ UNCHANGED <<result, file, daemon, stopper, deaths, stops>>

-----------------------------------------------------------------------------
(* ensure_running: with the lock.                                          *)

\* The daemon of daemon.json answers, or is to be looked for in /proc.
Check(p) ==
    /\ starter[p] = "check"
    /\ \/ Answers /\ Return(p, file) /\ MoveTo(p, "release")
       \/ /\ MoveTo(p, IF file # Nobody /\ Running(file) /\ ~Linux THEN "release" ELSE "scan")
          /\ UNCHANGED result
    /\ UNCHANGED <<lockFile, file, daemon, stopper, deaths, stops, robbed, judged>>

Candidates == IF Linux THEN {d \in Callers : Running(d)} ELSE {}

\* Mutant: daemon.json is believed and /proc is not looked at.
ScanNothing(p) ==
    /\ starter[p] = "scan"
    /\ MoveTo(p, "spawn")
    /\ UNCHANGED <<result, lockFile, file, daemon, stopper, deaths, stops, robbed, judged>>

\* One candidate is adopted, several are an error.
Scan(p) ==
    /\ starter[p] = "scan"
    /\ IF Candidates = {} THEN MoveTo(p, "spawn") /\ UNCHANGED <<result, file>>
       ELSE /\ MoveTo(p, "release")
            /\ IF Cardinality(Candidates) > 1 THEN UNCHANGED <<result, file>>
               ELSE \E d \in Candidates : Return(p, d) /\ file' = d
    /\ UNCHANGED <<lockFile, daemon, stopper, deaths, stops, robbed, judged>>

Spawn(p) ==
    /\ starter[p] = "spawn"
    /\ daemon' = [daemon EXCEPT ![p] = "starting"]
    /\ MoveTo(p, "publish")
    /\ UNCHANGED <<result, lockFile, file, stopper, deaths, stops, robbed, judged>>

\* SIGTERM
Terminated(d) == IF Running(d) THEN [daemon EXCEPT ![d] = "stopping"] ELSE daemon

\* _write_daemon_file, or its failure.
Publish(p) ==
    /\ starter[p] = "publish"
    /\ \/ file' = p /\ MoveTo(p, "wait") /\ UNCHANGED daemon
       \/ daemon' = Terminated(p) /\ MoveTo(p, "release") /\ UNCHANGED file
    /\ UNCHANGED <<result, lockFile, stopper, deaths, stops, robbed, judged>>

\* The new daemon answers, has exited, or is given up; then daemon.json goes too.
Await(p) ==
    /\ starter[p] = "wait"
    /\ \/ daemon[p] \in {"up", "stopping"} /\ Return(p, p) /\ UNCHANGED <<file, daemon>>
       \/ file' = Nobody /\ daemon' = Terminated(p) /\ UNCHANGED result
    /\ MoveTo(p, "release")
    /\ UNCHANGED <<lockFile, stopper, deaths, stops, robbed, judged>>

\* finally
Release(p) ==
    /\ starter[p] = "release"
    /\ UnlinkLock(p)
    /\ MoveTo(p, "done")
    /\ UNCHANGED <<result, file, daemon, stopper, deaths, stops, judged>>

-----------------------------------------------------------------------------
(* stop, and what happens to processes and files.                          *)

\* stop(): nothing runs that daemon.json names, or it is told to end.
Stop ==
    /\ stopper.at = "idle" /\ stops < MaxStops
    /\ stops' = stops + 1
    /\ IF file = Nobody \/ ~Running(file)
       THEN stopper' = [at |-> "remove", target |-> Nobody] /\ UNCHANGED daemon
       ELSE stopper' = [at |-> "wait", target |-> file] /\ daemon' = Terminated(file)
    /\ UNCHANGED <<starter, result, lockFile, file, deaths, robbed, judged>>

\* It has ended, by itself or by SIGKILL.
Stopped ==
    /\ stopper.at = "wait"
    /\ daemon' = [daemon EXCEPT ![stopper.target] = "gone"]
    /\ stopper' = [at |-> "remove", target |-> Nobody]
    /\ UNCHANGED <<starter, result, lockFile, file, deaths, stops, robbed, judged>>

\* _remove_daemon_file, whatever the file says by now.
RemoveFile ==
    /\ stopper.at = "remove"
    /\ file' = Nobody
    /\ stopper' = [stopper EXCEPT !.at = "idle"]
    /\ UNCHANGED <<starter, result, lockFile, daemon, deaths, stops, robbed, judged>>

Ready(d) ==
    /\ daemon[d] = "starting"
    /\ daemon' = [daemon EXCEPT ![d] = "up"]
    /\ UNCHANGED <<starter, result, lockFile, file, stopper, deaths, stops, robbed, judged>>

Exit(d) ==
    /\ Running(d)
    /\ daemon' = [daemon EXCEPT ![d] = "gone"]
    /\ UNCHANGED <<starter, result, lockFile, file, stopper, deaths, stops, robbed, judged>>

Die(p) ==
    /\ deaths < MaxDeaths /\ starter[p] \notin {"new", "done", "dead"}
    /\ deaths' = deaths + 1
    /\ MoveTo(p, "dead")
    /\ UNCHANGED <<result, lockFile, file, daemon, stopper, stops, robbed, judged>>

\* _LOCK_STALE_SECONDS have passed.
LockAges ==
    /\ lockFile # NoLock /\ ~lockFile.old
    /\ starter[lockFile.by] \in Inside => SlowStarts
    /\ lockFile' = [lockFile EXCEPT !.old = TRUE]
    /\ UNCHANGED <<starter, result, file, daemon, stopper, deaths, stops, robbed, judged>>

Step(p) ==
    \/ FastPath(p) \/ Open(p) \/ Write(p) \/ Held(p) \/ StatLock(p) \/ ReadOwner(p) \/ Judge(p) \/ Reclaim(p)
    \/ Check(p) \/ Scan(p) \/ Spawn(p) \/ Publish(p) \/ Await(p) \/ Release(p)

StartNext ==
    \/ \E p \in Callers : Step(p) \/ TimeOut(p) \/ Die(p) \/ Ready(p) \/ Exit(p)
    \/ Stop \/ Stopped \/ RemoveFile \/ LockAges

StartSpec == StartInit /\ [][StartNext]_startVars

-----------------------------------------------------------------------------

\* One daemon serves the state directory, with stops, failed starts, kills and
\* adoptions going on, as long as nobody loses daemon.lock while it is inside.
OneDaemonUnlessRobbed ==
    ~robbed => \A d, e \in Callers : Running(d) /\ Running(e) => d = e

OneDaemon == StartTypeOK /\ OneDaemonUnlessRobbed

\* A lock that is judged stale, and still is the one in place when it is about to
\* be unlinked, was left behind: whoever loses daemon.lock while it is inside has
\* created it after the file that was looked at, unless a start takes longer than
\* a lock may be old.
OnlyLeftBehind ==
    \A p \in Callers :
       starter[p] = "unlink" /\ lockFile.by = judged[p].by => starter[lockFile.by] \notin Inside \/ SlowStarts
=============================================================================
