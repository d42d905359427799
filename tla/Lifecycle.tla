----------------------------- MODULE Lifecycle -----------------------------
(***************************************************************************)
(* The processes of lensd and the two files they share: the commands       *)
(* start, stop and restart, the daemons they spawn, the PID file and the   *)
(* socket file.  (daemon/pid.go, daemon/daemonize.go, cmd/daemon.go,       *)
(* cmd/start.go, cmd/stop.go, cmd/restart.go, ipc/server.go)               *)
(*                                                                         *)
(* A daemon is two goroutines: Serve, whose position is serve[d], and the  *)
(* main one, which installs the signal handler, runs the pipeline until    *)
(* the context is cancelled and then ends the process wherever Serve is.   *)
(* An operation on a file is one step, which may fail at any time; ReadPID *)
(* is two, as other processes may act between its test of the process and  *)
(* its removal of the file.                                                *)
(***************************************************************************)
EXTENDS Naturals, FiniteSets

CONSTANTS Daemons,        \* processes that may run the daemon subcommand
          Commands,       \* places for a process that runs start, stop or restart
          None,           \* no file, no process
          MaxBegun,       \* bound: commands, foreground daemons and interrupts in all
          MaxDeaths       \* bound: daemons that die without a shutdown

PIDFiles == [by : Daemons, written : BOOLEAN]

ASSUME LifecycleAssumption ==
  /\ None \notin Daemons \union PIDFiles
  /\ Daemons \cap Commands = {}
  /\ {MaxBegun, MaxDeaths} \subseteq Nat

VARIABLES
  process,     \* daemon -> "unborn", "alive" or "dead"
  serve,       \* daemon -> where its Serve goroutine is
  handlesSignals, \* daemons that have called signal.Notify
  cancelled,   \* daemons whose context is cancelled
  listening,   \* daemons whose listener is open, whether or not the path is there
  pidFile,     \* the PID file: None, or its writer and whether the PID is in it
  socketFile,  \* the socket file: None, or the daemon that bound it
  staleReaders,\* processes whose ReadPID found a dead process and removes next
  step,        \* command -> where it is
  kind,        \* command -> which command
  target,      \* command -> the daemon it signals or reports
  child,       \* command -> the daemon it has spawned
  begun, deaths, \* counters of what the bounds limit
  orderly      \* history: commands came one by one, nobody ran a daemon without
               \* start, and no start gave up on one that lives without its PID in
               \* the file (it is slow, or has failed to serve)

daemonVars  == <<process, serve, handlesSignals, cancelled, listening>>
commandVars == <<step, kind, target, child>>
envVars     == <<begun, deaths, orderly>>
vars == <<daemonVars, pidFile, socketFile, staleReaders, commandVars, envVars>>

Kinds    == {"start", "stop", "restart"}
ServeAt  == {"none", "unlinksStale", "binds", "chmods", "opens", "reads", "reopens",
             "writes", "accepts", "closes", "returned", "fails", "failed"}
StepAt   == {"idle", "checks", "spawns", "polls", "reads", "signals", "waits"}

Init ==
  /\ process = [d \in Daemons |-> "unborn"]
  /\ serve = [d \in Daemons |-> "none"]
  /\ handlesSignals = {} /\ cancelled = {} /\ listening = {}
  /\ pidFile = None /\ socketFile = None /\ staleReaders = {}
  /\ step = [c \in Commands |-> "idle"]
  /\ kind = [c \in Commands |-> "start"]
  /\ target = [c \in Commands |-> None]
  /\ child = [c \in Commands |-> None]
  /\ begun = 0 /\ deaths = 0 /\ orderly = TRUE

Active(c) == step[c] # "idle"

(***************************************************************************)
(* ReadPID                                                                 *)
(***************************************************************************)
\* kill(pid, 0) also succeeds for a child that has exited and that its parent,
\* the start command, has not waited for.
IsProcessRunning(d) ==
  \/ process[d] = "alive"
  \/ process[d] = "dead" /\ \E c \in Commands : child[c] = d /\ Active(c)

\* What reading and parsing the file and testing the process comes to.
PIDFileState ==
  CASE pidFile = None                 -> "absent"
    [] pidFile # None /\ ~pidFile.written -> "invalid"
    [] OTHER -> IF IsProcessRunning(pidFile.by) THEN "running" ELSE "stale"

\* r reads the file and finds it in a state that ReadPID returns at once.
Finds(r, states) ==
  /\ r \notin staleReaders /\ PIDFileState \in states
  /\ UNCHANGED <<pidFile, staleReaders>>

\* r finds something else wrong: there is no reading the file, or no PID in it.
FindsFault(r) == r \notin staleReaders /\ UNCHANGED <<pidFile, staleReaders>>

\* r has found a dead process: it removes whatever file has the path by now, if it can.
RemovesStale(r) ==
  /\ r \in staleReaders
  /\ staleReaders' = staleReaders \ {r}
  /\ pidFile' \in {None, pidFile}

\* ReadPID returns ErrDaemonNotRunning or ErrPIDFileStale.
FindsNoDaemon(r) == Finds(r, {"absent"}) \/ RemovesStale(r)

\* Slip: the file is taken for stale without a test of the process.
FindsStaleSlip(r) ==
  /\ r \notin staleReaders /\ PIDFileState # "absent"
  /\ staleReaders' = staleReaders \union {r}
  /\ UNCHANGED <<daemonVars, pidFile, socketFile, commandVars, envVars>>

FindsStale(r) ==
  /\ r \notin staleReaders /\ PIDFileState = "stale"
  /\ staleReaders' = staleReaders \union {r}
  /\ UNCHANGED <<daemonVars, pidFile, socketFile, commandVars, envVars>>

\* The process ends, with everything that was in its memory.
Ends(d) ==
  /\ process' = [process EXCEPT ![d] = "dead"]
  /\ serve' = [serve EXCEPT ![d] = "none"]
  /\ handlesSignals' = handlesSignals \ {d}
  /\ cancelled' = cancelled \ {d} /\ listening' = listening \ {d}
  /\ staleReaders' = staleReaders \ {d}

(***************************************************************************)
(* The daemon: Serve                                                       *)
(***************************************************************************)
Alive(d) == process[d] = "alive"

ServeMoves(d, from, to) ==
  /\ Alive(d) /\ serve[d] = from
  /\ serve' = [serve EXCEPT ![d] = to]

\* Slip: the PID file is written before the socket is bound.
BootsSlip(d) ==
  /\ ServeMoves(d, "none", "opens")
  /\ UNCHANGED <<process, handlesSignals, cancelled, listening, pidFile, socketFile,
                 staleReaders, commandVars, envVars>>

\* config.Load and pipeline.New succeed and Serve starts, or the process exits.
Boots(d) ==
  /\ Alive(d) /\ serve[d] = "none"
  /\ \/ /\ serve' = [serve EXCEPT ![d] = "unlinksStale"]
        /\ UNCHANGED <<process, handlesSignals, cancelled, listening, staleReaders>>
     \/ Ends(d)
  /\ UNCHANGED <<pidFile, socketFile, commandVars, envVars>>

\* os.Remove and listener.Close: the path is gone, whoever has bound it, or, where the
\* removal fails, is not.
UnlinksPath == socketFile' \in {None, socketFile}

UnlinksStaleSocket(d) ==
  /\ ServeMoves(d, "unlinksStale", "binds")
  /\ UnlinksPath
  /\ UNCHANGED <<process, handlesSignals, cancelled, listening, pidFile, staleReaders,
                 commandVars, envVars>>

\* net.Listen fails if the path exists, or for a reason of its own: Serve returns, and
\* the daemon goes on without it.
Binds(d) ==
  /\ \/ /\ socketFile = None /\ ServeMoves(d, "binds", "chmods")
        /\ socketFile' = d /\ listening' = listening \union {d}
     \/ ServeMoves(d, "binds", "failed") /\ UNCHANGED <<socketFile, listening>>
  /\ UNCHANGED <<process, handlesSignals, cancelled, pidFile, staleReaders,
                 commandVars, envVars>>

\* os.Chmod fails if another daemon has unlinked the path, or for a reason of its own.
Chmods(d) ==
  /\ \/ socketFile # None /\ ServeMoves(d, "chmods", "opens")
     \/ ServeMoves(d, "chmods", "fails")
  /\ UNCHANGED <<process, handlesSignals, cancelled, listening, pidFile, socketFile,
                 staleReaders, commandVars, envVars>>

(***************************************************************************)
(* The daemon: onReady, which writes the PID file                          *)
(***************************************************************************)
CreatesFile(d) == pidFile = None /\ pidFile' = [by |-> d, written |-> FALSE]

\* WritePID has failed: onReady cancels the daemon's context.
Refused(d, from) == ServeMoves(d, from, "accepts") /\ cancelled' = cancelled \union {d}

\* Slip: the file is opened without O_EXCL.
OpensPIDFileSlip(d) ==
  /\ ServeMoves(d, "opens", "writes")
  /\ pidFile' = [by |-> d, written |-> FALSE]
  /\ UNCHANGED <<process, handlesSignals, cancelled, listening, socketFile, staleReaders,
                 commandVars, envVars>>

OpensPIDFile(d) ==
  /\ \/ CreatesFile(d) /\ ServeMoves(d, "opens", "writes") /\ UNCHANGED cancelled
     \/ pidFile # None /\ ServeMoves(d, "opens", "reads") /\ UNCHANGED <<pidFile, cancelled>>
     \/ Refused(d, "opens") /\ UNCHANGED pidFile
  /\ UNCHANGED <<process, handlesSignals, listening, socketFile, staleReaders,
                 commandVars, envVars>>

\* Only a stale file is worth a second attempt; an absent one is not.
ReadsPIDFile(d) ==
  /\ \/ RemovesStale(d) /\ ServeMoves(d, "reads", "reopens") /\ UNCHANGED cancelled
     \/ Finds(d, {"absent", "running"}) /\ Refused(d, "reads")
     \/ FindsFault(d) /\ Refused(d, "reads")
  /\ UNCHANGED <<process, handlesSignals, listening, socketFile, commandVars, envVars>>

ReopensPIDFile(d) ==
  /\ \/ CreatesFile(d) /\ ServeMoves(d, "reopens", "writes") /\ UNCHANGED cancelled
     \/ Refused(d, "reopens") /\ UNCHANGED pidFile
  /\ UNCHANGED <<process, handlesSignals, listening, socketFile, staleReaders,
                 commandVars, envVars>>

\* Slip: a write that fails leaves the file.
WritesPIDSlip(d) ==
  /\ Refused(d, "writes")
  /\ UNCHANGED <<process, handlesSignals, listening, pidFile, socketFile, staleReaders,
                 commandVars, envVars>>

\* The PID goes to the file d has created, if that still has the path; a write
\* that fails removes the path.
WritesPID(d) ==
  /\ \/ /\ ServeMoves(d, "writes", "accepts") /\ UNCHANGED cancelled
        /\ pidFile' = IF pidFile # None /\ pidFile.by = d
                        THEN [pidFile EXCEPT !.written = TRUE] ELSE pidFile
     \/ Refused(d, "writes") /\ pidFile' = None
  /\ UNCHANGED <<process, handlesSignals, listening, socketFile, staleReaders,
                 commandVars, envVars>>

(***************************************************************************)
(* The daemon: shutdown                                                    *)
(***************************************************************************)
\* The goroutine that waits for the context closes the listener, which unlinks the path.
ClosesListener(d) ==
  /\ Alive(d) /\ d \in listening /\ d \in cancelled /\ serve[d] \in {"accepts", "closes"}
  /\ listening' = listening \ {d} /\ UnlinksPath
  /\ UNCHANGED <<process, serve, handlesSignals, cancelled, pidFile, staleReaders,
                 commandVars, envVars>>

\* Accept fails since the listener is closed, or for a reason of its own (the process has
\* no descriptor left).  Serve removes the path only if the context is cancelled.
AcceptFails(d) ==
  /\ ServeMoves(d, "accepts", "closes")
  /\ IF d \in cancelled THEN UnlinksPath ELSE UNCHANGED socketFile
  /\ UNCHANGED <<process, handlesSignals, cancelled, listening, pidFile, staleReaders,
                 commandVars, envVars>>

\* Serve returns: the deferred Close, of a listener that may be closed by now.
ServeReturns(d) ==
  /\ ServeMoves(d, "closes", "returned") \/ ServeMoves(d, "fails", "failed")
  /\ IF d \in listening THEN UnlinksPath ELSE UNCHANGED socketFile
  /\ listening' = listening \ {d}
  /\ UNCHANGED <<process, handlesSignals, cancelled, pidFile, staleReaders,
                 commandVars, envVars>>

InstallsHandler(d) ==
  /\ Alive(d) /\ serve[d] # "none" /\ d \notin handlesSignals
  /\ handlesSignals' = handlesSignals \union {d}
  /\ UNCHANGED <<process, serve, cancelled, listening, pidFile, socketFile, staleReaders,
                 commandVars, envVars>>

\* An IPC client asks for a shutdown (handleShutdown), in a connection that may be older
\* than the end of Serve.
ServesShutdown(d) ==
  /\ Alive(d) /\ serve[d] \in {"accepts", "closes", "returned"}
  /\ cancelled' = cancelled \union {d}
  /\ UNCHANGED <<process, serve, handlesSignals, listening, pidFile, socketFile,
                 staleReaders, commandVars, envVars>>

\* The user interrupts a daemon, whatever the PID file says.
Interrupted(d) ==
  /\ Alive(d) /\ d \in handlesSignals /\ begun < MaxBegun
  /\ begun' = begun + 1
  /\ cancelled' = cancelled \union {d}
  /\ UNCHANGED <<process, serve, handlesSignals, listening, pidFile, socketFile,
                 staleReaders, commandVars, deaths, orderly>>

\* Run has returned and os.Exit skips every deferred call, RemovePID too.
Exits(d) ==
  /\ Alive(d) /\ d \in handlesSignals /\ d \in cancelled
  /\ Ends(d)
  /\ UNCHANGED <<pidFile, socketFile, commandVars, envVars>>

\* The pipeline fails to start and exits with status 1, or the process is killed.
Dies(d) ==
  /\ Alive(d) /\ deaths < MaxDeaths
  /\ deaths' = deaths + 1
  /\ Ends(d)
  /\ UNCHANGED <<pidFile, socketFile, commandVars, begun, orderly>>

\* A user runs the daemon subcommand without start.
RunsInForeground(d) ==
  /\ process[d] = "unborn" /\ begun < MaxBegun
  /\ begun' = begun + 1
  /\ process' = [process EXCEPT ![d] = "alive"]
  /\ orderly' = FALSE
  /\ UNCHANGED <<serve, handlesSignals, cancelled, listening, pidFile, socketFile,
                 staleReaders, commandVars, deaths>>

(***************************************************************************)
(* The commands                                                            *)
(***************************************************************************)
Begins(c, k) ==
  /\ step[c] = "idle" /\ begun < MaxBegun
  /\ begun' = begun + 1
  /\ kind' = [kind EXCEPT ![c] = k]
  /\ step' = [step EXCEPT ![c] = IF k = "start" THEN "checks" ELSE "reads"]
  /\ orderly' = (orderly /\ \A b \in Commands : ~Active(b))
  /\ UNCHANGED <<daemonVars, pidFile, socketFile, staleReaders, target, child,
                 deaths>>

MovesTo(c, s) == step' = [step EXCEPT ![c] = s] /\ UNCHANGED <<kind, target, child>>

\* The command reports its result and exits.
Finishes(c) ==
  /\ step' = [step EXCEPT ![c] = "idle"]
  /\ kind' = [kind EXCEPT ![c] = "start"]
  /\ target' = [target EXCEPT ![c] = None]
  /\ child' = [child EXCEPT ![c] = None]

\* Slip: start does not look for a running daemon.
ChecksSlip(c) ==
  /\ step[c] = "checks"
  /\ FindsNoDaemon(c) \/ Finds(c, {"running"})
  /\ MovesTo(c, "spawns")
  /\ UNCHANGED <<daemonVars, socketFile, envVars>>

\* Daemonize reads the PID file first: a running daemon or an error ends start.
Checks(c) ==
  /\ step[c] = "checks"
  /\ \/ FindsNoDaemon(c) /\ MovesTo(c, "spawns")
     \/ (Finds(c, {"running"}) \/ FindsFault(c)) /\ Finishes(c)
  /\ UNCHANGED <<daemonVars, socketFile, envVars>>

\* Daemonize starts the child, in a session of its own, or fails.
Spawns(c) ==
  /\ step[c] = "spawns"
  /\ \/ \E d \in Daemons :
          /\ process[d] = "unborn"
          /\ process' = [process EXCEPT ![d] = "alive"]
          /\ child' = [child EXCEPT ![c] = d]
          /\ step' = [step EXCEPT ![c] = "polls"]
          /\ UNCHANGED <<kind, target>>
     \/ Finishes(c) /\ UNCHANGED process
  /\ UNCHANGED <<serve, handlesSignals, cancelled, listening, pidFile, socketFile,
                 staleReaders, envVars>>

\* runStart waits for a PID file, whoever writes it.
Polls(c) ==
  /\ step[c] = "polls"
  /\ \/ RemovesStale(c) /\ UNCHANGED commandVars
     \/ Finds(c, {"running"}) /\ Finishes(c)
  /\ UNCHANGED <<daemonVars, socketFile, envVars>>

\* The PID file names d.
Names(d) == pidFile # None /\ pidFile.by = d /\ pidFile.written

\* The start-up deadline passes, or ReadPID finds a fault.  The child is left as it is:
\* one that lives and has no PID in the file is out of reach of every later command.
GivesUp(c) ==
  /\ step[c] = "polls" /\ FindsFault(c)
  /\ Finishes(c)
  /\ orderly' = (orderly /\ (Alive(child[c]) => Names(child[c])))
  /\ UNCHANGED <<daemonVars, socketFile, begun, deaths>>

\* A restart goes on to start when there is nothing to stop.
NothingToStop(c) == IF kind[c] = "restart" THEN MovesTo(c, "checks") ELSE Finishes(c)

ReadsTarget(c) ==
  /\ step[c] = "reads"
  /\ \/ (FindsNoDaemon(c) \/ FindsFault(c)) /\ NothingToStop(c)
     \/ /\ Finds(c, {"running"})
        /\ step' = [step EXCEPT ![c] = "signals"]
        /\ target' = [target EXCEPT ![c] = pidFile.by]
        /\ UNCHANGED <<kind, child>>
  /\ UNCHANGED <<daemonVars, socketFile, envVars>>

\* SIGTERM ends a daemon that has not installed its handler at once; the handler
\* cancels the context.
Signalled(d) ==
  \/ Alive(d) /\ d \notin handlesSignals /\ Ends(d)
  \/ /\ Alive(d) /\ d \in handlesSignals
     /\ cancelled' = cancelled \union {d}
     /\ UNCHANGED <<process, serve, handlesSignals, listening, staleReaders>>
  \/ ~Alive(d) /\ UNCHANGED <<daemonVars, staleReaders>>

\* Slip: a restart spawns without waiting for the old daemon.
SignalsTargetSlip(c) ==
  /\ step[c] = "signals"
  /\ Signalled(target[c])
  /\ IF kind[c] = "restart" THEN MovesTo(c, "spawns") ELSE Finishes(c)
  /\ UNCHANGED <<pidFile, socketFile, envVars>>

\* The signal cannot be sent to a process that is gone.
SignalsTarget(c) ==
  /\ step[c] = "signals"
  /\ Signalled(target[c])
  /\ IF ~IsProcessRunning(target[c]) THEN NothingToStop(c)
     ELSE IF kind[c] = "restart" THEN MovesTo(c, "waits") ELSE Finishes(c)
  /\ UNCHANGED <<pidFile, socketFile, envVars>>

\* WaitStop polls until there is no daemon; its deadline or a fault ends the restart.
WaitsForStop(c) ==
  /\ step[c] = "waits"
  /\ \/ FindsNoDaemon(c) /\ MovesTo(c, "checks")
     \/ FindsFault(c) /\ Finishes(c)
  /\ UNCHANGED <<daemonVars, socketFile, envVars>>

ReadsPID(r) ==
  IF r \in Daemons THEN Alive(r) /\ serve[r] = "reads"
                   ELSE step[r] \in {"checks", "polls", "reads", "waits"}

DaemonStep(d) ==
  \/ Boots(d) \/ UnlinksStaleSocket(d) \/ Binds(d) \/ Chmods(d)
  \/ OpensPIDFile(d) \/ ReadsPIDFile(d) \/ ReopensPIDFile(d) \/ WritesPID(d)
  \/ ClosesListener(d) \/ AcceptFails(d) \/ ServeReturns(d) \/ InstallsHandler(d) \/ Exits(d)

CommandStep(c) ==
  \/ Checks(c) \/ Spawns(c) \/ Polls(c) \/ GivesUp(c)
  \/ ReadsTarget(c) \/ SignalsTarget(c) \/ WaitsForStop(c)

Next ==
  \/ \E d \in Daemons : DaemonStep(d)
  \/ \E d \in Daemons : ServesShutdown(d) \/ Interrupted(d) \/ Dies(d) \/ RunsInForeground(d)
  \/ \E c \in Commands : CommandStep(c)
  \/ \E c \in Commands, k \in Kinds : Begins(c, k)
  \/ \E r \in Daemons \union Commands : ReadsPID(r) /\ FindsStale(r)

Spec == Init /\ [][Next]_vars

(***************************************************************************)
(* Properties                                                              *)
(***************************************************************************)
TypeOK ==
  /\ process \in [Daemons -> {"unborn", "alive", "dead"}]
  /\ serve \in [Daemons -> ServeAt]
  /\ handlesSignals \subseteq Daemons /\ cancelled \subseteq Daemons /\ listening \subseteq Daemons
  /\ pidFile \in PIDFiles \union {None}
  /\ socketFile \in Daemons \union {None}
  /\ staleReaders \subseteq Daemons \union Commands
  /\ step \in [Commands -> StepAt] /\ kind \in [Commands -> Kinds]
  /\ target \in [Commands -> Daemons \union {None}]
  /\ child \in [Commands -> Daemons \union {None}]
  /\ begun \in Nat /\ deaths \in Nat /\ orderly \in BOOLEAN

\* One daemon: if the commands come one by one, nobody runs a daemon without start, and no
\* start has given up on one that lives without its PID in the file, no two daemons run at
\* the same time, whatever dies or fails in between.  (A daemon whose Listen or Chmod fails
\* lives on without a PID file, server.go 44 to 53: after the start that gives up on it the
\* next one makes a second.)
OneDaemon == orderly => \A d, e \in Daemons : Alive(d) /\ Alive(e) => d = e

\* The PID file names d, which is not shutting down and whose Accept has not failed.
Ready(d) == Names(d) /\ Alive(d) /\ d \notin cancelled /\ serve[d] \notin {"closes", "returned"}

\* The PID file is a reliable "daemon ready" signal (cmd/daemon.go 88): until its shutdown,
\* or until its Accept fails (server.go 77 to 80), the socket of the daemon that the file
\* names is the one clients connect to.
ReadyIsReachable == \A d \in Daemons : Ready(d) => socketFile = d
OrderlyReadyIsReachable == orderly => ReadyIsReachable

\* However many daemons race and whatever fails, one that has created the PID file listens,
\* is shutting down, or has returned from Serve since its Accept failed: the PID is never
\* visible before the server is up.
NamedListens ==
  \A d \in Daemons : Alive(d) /\ pidFile # None /\ pidFile.by = d =>
                       d \in listening \union cancelled \/ serve[d] = "returned"

\* A PID file without a PID makes start and stop fail (strconv.Atoi in ReadPID).
\* There is one only while its writer is about to write, unless that has died.
EmptyFileIsBeingWritten ==
  pidFile # None /\ ~pidFile.written /\ Alive(pidFile.by) => serve[pidFile.by] = "writes"

\* However many daemons and commands race, as long as no daemon has died the
\* first PID file stays: no second daemon gets past WritePID.
NoneDead == \A d \in Daemons : process[d] # "dead"
FirstWriterStays ==
  [][NoneDead' /\ (\E d \in Daemons : Names(d)) => pidFile' = pidFile]_vars

\* What start and restart report is the daemon they have spawned, and a restart
\* never reports the one that it has stopped: "started" answers for this request.
StartReportsChild ==
  orderly => \A c \in Commands :
    step[c] = "polls" /\ PIDFileState = "running" =>
      pidFile.by = child[c] /\ pidFile.by # target[c]

(***************************************************************************)
(* The inductive invariant of the proofs                                   *)
(***************************************************************************)
Serving == {"accepts", "closes", "returned"}

\* From bind to the end of onReady the listener is open, and stays open until a
\* cancellation or the end of Serve; a PID file is created in onReady.
ListensWhileServing ==
  \A d \in Daemons :
    /\ serve[d] \in {"chmods", "opens", "reads", "reopens", "writes", "fails"} => d \in listening
    /\ serve[d] \in {"accepts", "closes"} => d \in listening \union cancelled
WriterIsReady ==
  \A d \in Daemons : Alive(d) /\ pidFile # None /\ pidFile.by = d =>
                       serve[d] \in {"writes"} \union Serving

\* Only a daemon that has been through onReady is named or stopped by a command.
NamedServes == \A d \in Daemons : Names(d) /\ Alive(d) => serve[d] \in Serving
TargetServes ==
  \A c \in Commands : target[c] # None =>
    /\ process[target[c]] # "unborn"
    /\ Alive(target[c]) => serve[target[c]] \in Serving

\* A PID file comes from a process that exists; only such a process moves.
WriterExists == pidFile # None => process[pidFile.by] # "unborn"
OnlyTheLivingServe == \A d \in Daemons : ~Alive(d) => serve[d] = "none"
SignalsHaveTarget == \A c \in Commands : step[c] = "signals" => target[c] # None

\* While no daemon has died, nobody removes a PID file and the file of a daemon
\* that writes its PID is its own.
FileUndisturbed ==
  NoneDead => /\ staleReaders = {}
              /\ \A d \in Daemons : serve[d] = "writes" =>
                   pidFile # None /\ pidFile.by = d /\ ~pidFile.written

LifecycleInv ==
  /\ TypeOK /\ NamedListens /\ ListensWhileServing /\ WriterIsReady
  /\ EmptyFileIsBeingWritten
  /\ NamedServes /\ TargetServes
  /\ WriterExists /\ OnlyTheLivingServe /\ SignalsHaveTarget /\ FileUndisturbed
=============================================================================
