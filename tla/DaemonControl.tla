---------------------------- MODULE DaemonControl -----------------------------
(***************************************************************************)
(* The broker as a process: promptlock daemon start and stop, the session  *)
(* of promptlock watch that starts it on its own, and promptlockd from its *)
(* locks to its last cleanup.  What they share is the file system: the pid *)
(* file, the persistence lock and the path of the socket.                  *)
(***************************************************************************)
EXTENDS Naturals, FiniteSets

CONSTANTS Procs,    \* process ids, none used twice
          Clis,     \* invocations of the command line
          NoProc,
          Modes     \* [locked, overlap]: is a persistence file configured, may commands overlap

ASSUME DaemonAssumption == /\ NoProc \notin Procs
                           /\ Modes \subseteq [locked : BOOLEAN, overlap : BOOLEAN]

VARIABLES mode,
          phase,     \* of each process
          signalled, \* processes sent SIGTERM
          lock,      \* the holder of the lock on the state or auth file
          pidFile,
          sock,      \* the process whose listener the socket path leads to
          cli        \* of each invocation: pc and the pid it works on

os == <<lock, pidFile, sock>>
dvars == <<mode, phase, signalled, os, cli>>

Phases == {"unused", "starting", "ready", "serving", "closing", "closed", "exited"}
processAlive(p) == p # NoProc /\ phase[p] \notin {"unused", "exited"}
CliIdle(c) == cli[c].pc \in {"idle", "done", "watching"}
CliAt(c, pc) == cli[c].pc = pc
Goto(c, pc, p) == cli' = [cli EXCEPT ![c] = [pc |-> pc, pid |-> p]]

\* Commands may overlap, or one is given when the last is through.
MayBegin(c) == CliAt(c, "idle") /\ (mode.overlap \/ \A d \in Clis : CliIdle(d))

DaemonInit ==
  /\ mode \in Modes
  /\ phase = [p \in Procs |-> "unused"] /\ signalled = {}
  /\ lock = NoProc /\ pidFile = NoProc /\ sock = NoProc
  /\ cli = [c \in Clis |-> [pc |-> "idle", pid |-> NoProc]]

-----------------------------------------------------------------------------
\* daemon start, and the start a watch session makes.

daemonStart(c) ==
  /\ MayBegin(c)
  /\ IF processAlive(pidFile) THEN Goto(c, "probe", NoProc) ELSE Goto(c, "clear", NoProc)
  /\ UNCHANGED <<mode, phase, signalled, os>>

RemoveStale(c) ==
  /\ CliAt(c, "clear")
  /\ pidFile' = NoProc /\ Goto(c, "launch", NoProc)
  /\ UNCHANGED <<mode, phase, signalled, lock, sock>>

Launch(c) ==
  /\ CliAt(c, "launch")
  /\ \/ \E p \in Procs :
          /\ phase[p] = "unused"
          /\ phase' = [phase EXCEPT ![p] = "starting"]
          /\ Goto(c, "record", p)
     \/ Goto(c, "done", NoProc) /\ UNCHANGED phase
  /\ UNCHANGED <<mode, signalled, os>>

\* A process that ends gives its lock back, however it ends.
Ends(p) ==
  /\ phase' = [phase EXCEPT ![p] = "exited"]
  /\ lock' = IF lock = p THEN NoProc ELSE lock

WritePidFile_OwnPid(c) ==
  /\ CliAt(c, "record") /\ pidFile' = c
  /\ Goto(c, "probe", NoProc)
  /\ UNCHANGED <<mode, phase, signalled, lock, sock>>

WritePidFile(c) ==
  /\ CliAt(c, "record") /\ pidFile' = cli[c].pid
  /\ Goto(c, "probe", NoProc)
  /\ UNCHANGED <<mode, phase, signalled, lock, sock>>

\* The pid cannot be written: the new daemon is killed.
WritePidFails(c) ==
  /\ CliAt(c, "record") /\ Ends(cli[c].pid)
  /\ Goto(c, "done", NoProc)
  /\ UNCHANGED <<mode, signalled, pidFile, sock>>

\* A watch session goes on when some broker answers, or gives up; daemon start
\* does not ask.
waitForWatchBrokerReady(c) ==
  /\ CliAt(c, "probe")
  /\ \/ sock # NoProc /\ phase[sock] = "serving" /\ Goto(c, "watching", NoProc)
     \/ Goto(c, "done", NoProc)
  /\ UNCHANGED <<mode, phase, signalled, os>>

-----------------------------------------------------------------------------
\* daemon stop.

daemonStop(c) ==
  /\ MayBegin(c)
  /\ \/ pidFile = NoProc /\ Goto(c, "done", NoProc) /\ UNCHANGED signalled
     \/ /\ pidFile # NoProc /\ ~processAlive(pidFile)
        /\ Goto(c, "remove", pidFile) /\ UNCHANGED signalled
     \/ /\ processAlive(pidFile)
        /\ signalled' = signalled \cup {pidFile} /\ Goto(c, "await", pidFile)
  /\ UNCHANGED <<mode, phase, os>>

AwaitExit_RemovesAnyway(c) ==
  /\ CliAt(c, "await") /\ Goto(c, "remove", cli[c].pid)
  /\ UNCHANGED <<mode, phase, signalled, os>>

\* The process is gone, or the five seconds are.
AwaitExit(c) ==
  /\ CliAt(c, "await")
  /\ \/ ~processAlive(cli[c].pid) /\ Goto(c, "remove", cli[c].pid)
     \/ processAlive(cli[c].pid) /\ Goto(c, "done", NoProc)
  /\ UNCHANGED <<mode, phase, signalled, os>>

\* The file is removed by its name, whatever it now says.
RemovePidFile(c) ==
  /\ CliAt(c, "remove")
  /\ pidFile' = NoProc /\ Goto(c, "done", NoProc)
  /\ UNCHANGED <<mode, phase, signalled, lock, sock>>

-----------------------------------------------------------------------------
\* promptlockd.

\* The lock is tried once; the state is loaded under it.
acquireFileLock(p) ==
  /\ phase[p] = "starting"
  /\ IF mode.locked /\ lock # NoProc THEN Ends(p)
     ELSE phase' = [phase EXCEPT ![p] = "ready"] /\ lock' = IF mode.locked THEN p ELSE lock
  /\ UNCHANGED <<mode, signalled, pidFile, sock, cli>>

\* The path is freed of whatever is there and bound again.
Listen(p) ==
  /\ phase[p] = "ready"
  /\ phase' = [phase EXCEPT ![p] = "serving"] /\ sock' = p
  /\ UNCHANGED <<mode, signalled, lock, pidFile, cli>>

Shutdown_Unlocks(p) ==
  /\ phase[p] = "serving" /\ p \in signalled
  /\ phase' = [phase EXCEPT ![p] = "closing"] /\ sock' = NoProc
  /\ lock' = IF lock = p THEN NoProc ELSE lock
  /\ UNCHANGED <<mode, signalled, pidFile, cli>>

\* Shutdown closes the listener, which removes its path.
Shutdown(p) ==
  /\ phase[p] = "serving" /\ p \in signalled
  /\ phase' = [phase EXCEPT ![p] = "closing"] /\ sock' = NoProc
  /\ UNCHANGED <<mode, signalled, lock, pidFile, cli>>

Cleanup_AfterUnlock(p) ==
  /\ phase[p] = "closing"
  /\ phase' = [phase EXCEPT ![p] = "closed"]
  /\ lock' = IF lock = p THEN NoProc ELSE lock
  /\ UNCHANGED <<mode, signalled, pidFile, sock, cli>>

\* When the requests in flight are done, or five seconds later, the deferred
\* cleanup removes the path once more.
Cleanup(p) ==
  /\ phase[p] = "closing"
  /\ phase' = [phase EXCEPT ![p] = "closed"] /\ sock' = NoProc
  /\ UNCHANGED <<mode, signalled, lock, pidFile, cli>>

\* Only then are the locks released.
Exit(p) ==
  /\ phase[p] = "closed" /\ Ends(p)
  /\ UNCHANGED <<mode, signalled, pidFile, sock, cli>>

\* A refused configuration, a signal before it listens, a kill, a crash: the
\* lock is gone with the process, the socket path stays.
Dies(p) ==
  /\ processAlive(p) /\ Ends(p)
  /\ UNCHANGED <<mode, signalled, pidFile, sock, cli>>

-----------------------------------------------------------------------------
DaemonNext ==
  \/ \E c \in Clis : \/ daemonStart(c) \/ RemoveStale(c) \/ Launch(c) \/ WritePidFile(c)
                     \/ WritePidFails(c) \/ waitForWatchBrokerReady(c)
                     \/ daemonStop(c) \/ AwaitExit(c) \/ RemovePidFile(c)
  \/ \E p \in Procs : \/ acquireFileLock(p) \/ Listen(p) \/ Shutdown(p) \/ Cleanup(p)
                      \/ Exit(p) \/ Dies(p)

DaemonSpec == DaemonInit /\ [][DaemonNext]_dvars

-----------------------------------------------------------------------------
DaemonTypeOK ==
  /\ mode \in Modes /\ phase \in [Procs -> Phases] /\ signalled \subseteq Procs
  /\ lock \in Procs \cup {NoProc} /\ pidFile \in Procs \cup {NoProc} /\ sock \in Procs \cup {NoProc}
  /\ cli \in [Clis -> [pc : {"idle", "clear", "launch", "record", "probe", "await", "remove",
                             "done", "watching"}, pid : Procs \cup {NoProc}]]

\* A broker that serves is the one the socket path leads to: no earlier broker
\* that shuts down late, and no later one that fails to start, takes the path
\* from it (newUnixSocketTargets, the cleanups, and the locks released last).
SocketReachesServer ==
  mode.locked => \A p \in Procs : phase[p] = "serving" => sock = p

\* Two brokers never work on the same state file, through crashes and restarts
\* (acquireFileLock, docs/operations/CONFIG.md:80).
OneWriter ==
  mode.locked => \A p, q \in Procs :
    {phase[p], phase[q]} \subseteq {"ready", "serving", "closing", "closed"} => p = q

\* Commands given one after the other never lose a broker: one that serves is
\* the one daemon stop would find (daemonStart, daemonStop).  Overlapping ones can lose one.
RecordedWhenSolo ==
  /\ DaemonTypeOK
  /\ ~mode.overlap /\ (\A c \in Clis : CliIdle(c)) =>
       \A p \in Procs : phase[p] = "serving" => pidFile = p
==============================================================================
