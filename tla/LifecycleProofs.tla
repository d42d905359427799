-------------------------- MODULE LifecycleProofs --------------------------
(***************************************************************************)
(* Proofs about Lifecycle for every set of daemons and of commands and     *)
(* every bound.                                                            *)
(***************************************************************************)
EXTENDS Lifecycle, TLAPS

LEMMA CreatedFile ==
  ASSUME NEW d \in Daemons, CreatesFile(d)
  PROVE  pidFile' \in PIDFiles /\ pidFile' # None /\ pidFile'.by = d /\ ~pidFile'.written
  <1>1. [by |-> d, written |-> FALSE] \in PIDFiles
    BY DEF PIDFiles
  <1> QED
    BY <1>1, LifecycleAssumption DEF CreatesFile

LEMMA WrittenFile ==
  ASSUME NEW f \in PIDFiles
  PROVE  [f EXCEPT !.written = TRUE] \in PIDFiles
  BY DEF PIDFiles

LEMMA InitInv == Init => LifecycleInv
  <1> SUFFICES ASSUME Init PROVE LifecycleInv
    OBVIOUS
  <1> USE LifecycleAssumption DEF Init
  <1>1. orderly \in BOOLEAN
    OBVIOUS
  <1>2. TypeOK
    BY <1>1 DEF TypeOK, ServeAt, StepAt, Kinds
  <1>3. NamedListens /\ ListensWhileServing /\ WriterIsReady /\ EmptyFileIsBeingWritten
    BY DEF NamedListens, ListensWhileServing, WriterIsReady, EmptyFileIsBeingWritten
  <1>4. NamedServes /\ TargetServes /\ WriterExists
    BY DEF NamedServes, TargetServes, WriterExists, Names
  <1>5. OnlyTheLivingServe /\ SignalsHaveTarget /\ FileUndisturbed
    BY DEF OnlyTheLivingServe, SignalsHaveTarget, FileUndisturbed
  <1> QED
    BY <1>2, <1>3, <1>4, <1>5 DEF LifecycleInv

(***************************************************************************)
(* Types                                                                   *)
(***************************************************************************)
LEMMA DaemonTypeOK ==
  ASSUME NEW d \in Daemons, TypeOK, DaemonStep(d)
  PROVE  TypeOK'
  <1> USE DEF TypeOK, daemonVars, commandVars, envVars, ServeAt, Alive
  <1>1. CASE Boots(d)
    BY <1>1 DEF Boots, Ends
  <1>2. CASE UnlinksStaleSocket(d)
    BY <1>2 DEF UnlinksStaleSocket, UnlinksPath, ServeMoves
  <1>3. CASE Binds(d)
    BY <1>3 DEF Binds, ServeMoves
  <1>4. CASE Chmods(d)
    BY <1>4 DEF Chmods, ServeMoves
  <1>5. CASE OpensPIDFile(d)
    BY <1>5, CreatedFile DEF OpensPIDFile, Refused, ServeMoves
  <1>6. CASE ReadsPIDFile(d)
    BY <1>6 DEF ReadsPIDFile, RemovesStale, Finds, FindsFault, Refused, ServeMoves
  <1>7. CASE ReopensPIDFile(d)
    BY <1>7, CreatedFile DEF ReopensPIDFile, Refused, ServeMoves
  <1>8. CASE WritesPID(d)
    <2>1. pidFile' \in PIDFiles \union {None}
      BY <1>8, WrittenFile DEF WritesPID
    <2> QED
      BY <1>8, <2>1 DEF WritesPID, Refused, ServeMoves
  <1>9. CASE ClosesListener(d)
    BY <1>9 DEF ClosesListener, UnlinksPath
  <1>10. CASE AcceptFails(d)
    BY <1>10 DEF AcceptFails, UnlinksPath, ServeMoves
  <1>11. CASE ServeReturns(d)
    BY <1>11 DEF ServeReturns, UnlinksPath, ServeMoves
  <1>12. CASE InstallsHandler(d)
    BY <1>12 DEF InstallsHandler
  <1>13. CASE Exits(d)
    BY <1>13 DEF Exits, Ends
  <1> QED
    BY <1>1, <1>2, <1>3, <1>4, <1>5, <1>6, <1>7, <1>8, <1>9, <1>10, <1>11, <1>12, <1>13
    DEF DaemonStep

LEMMA OutsideTypeOK ==
  ASSUME NEW d \in Daemons, TypeOK, ServesShutdown(d) \/ Interrupted(d) \/ Dies(d) \/ RunsInForeground(d)
  PROVE  TypeOK'
  <1> USE DEF TypeOK, daemonVars, commandVars, envVars, ServeAt, Alive
  <1>1. CASE ServesShutdown(d)
    BY <1>1 DEF ServesShutdown
  <1>2. CASE Interrupted(d)
    BY <1>2 DEF Interrupted
  <1>3. CASE Dies(d)
    BY <1>3 DEF Dies, Ends
  <1>4. CASE RunsInForeground(d)
    <2>1. orderly' \in BOOLEAN
      BY <1>4, Zenon DEF RunsInForeground
    <2> QED
      BY <1>4, <2>1 DEF RunsInForeground
  <1> QED
    BY <1>1, <1>2, <1>3, <1>4

LEMMA CommandTypeOK ==
  ASSUME NEW c \in Commands, TypeOK, SignalsHaveTarget, CommandStep(c)
  PROVE  TypeOK'
  <1> USE DEF TypeOK, daemonVars, commandVars, envVars, StepAt, Kinds
  <1>1. CASE Checks(c)
    BY <1>1 DEF Checks, FindsNoDaemon, RemovesStale, Finds, FindsFault, MovesTo, Finishes
  <1>2. CASE Spawns(c)
    BY <1>2 DEF Spawns, Finishes
  <1>3. CASE Polls(c)
    BY <1>3 DEF Polls, RemovesStale, Finds, FindsFault, Finishes
  <1>4. CASE GivesUp(c)
    <2>1. orderly' \in BOOLEAN
      BY <1>4, Zenon DEF GivesUp
    <2> QED
      BY <1>4, <2>1 DEF GivesUp, FindsFault, Finishes
  <1>5. CASE ReadsTarget(c)
    BY <1>5 DEF ReadsTarget, FindsNoDaemon, RemovesStale, Finds, FindsFault, NothingToStop,
                MovesTo, Finishes, PIDFileState, PIDFiles
  <1>6. CASE SignalsTarget(c)
    BY <1>6 DEF SignalsTarget, Signalled, Ends, NothingToStop, MovesTo, Finishes,
                SignalsHaveTarget, ServeAt, Alive
  <1>7. CASE WaitsForStop(c)
    BY <1>7 DEF WaitsForStop, FindsNoDaemon, RemovesStale, Finds, FindsFault, MovesTo, Finishes
  <1> QED
    BY <1>1, <1>2, <1>3, <1>4, <1>5, <1>6, <1>7 DEF CommandStep

LEMMA BeginsTypeOK ==
  ASSUME NEW c \in Commands, NEW k \in Kinds, TypeOK, Begins(c, k)
  PROVE  TypeOK'
  <1>1. orderly' \in BOOLEAN
    BY Zenon DEF Begins
  <1> QED
    BY <1>1 DEF Begins, TypeOK, daemonVars, StepAt

LEMMA FindsStaleTypeOK ==
  ASSUME NEW r \in Daemons \union Commands, TypeOK, FindsStale(r)
  PROVE  TypeOK'
  BY DEF FindsStale, TypeOK, daemonVars, commandVars, envVars

(***************************************************************************)
(* The other parts of the invariant                                        *)
(***************************************************************************)
LEMMA DaemonInv ==
  ASSUME NEW d \in Daemons, LifecycleInv, TypeOK', DaemonStep(d)
  PROVE  LifecycleInv'
  <1> USE LifecycleAssumption
      DEF LifecycleInv, TypeOK, NamedListens, ListensWhileServing, WriterIsReady,
          EmptyFileIsBeingWritten, NamedServes, TargetServes,
          WriterExists, OnlyTheLivingServe, SignalsHaveTarget, FileUndisturbed,
          NoneDead, Names, Serving, Alive, PIDFiles, daemonVars, commandVars, envVars
  <1>1. CASE Boots(d)
    BY <1>1 DEF Boots, ServeMoves, Ends
  <1>2. CASE UnlinksStaleSocket(d)
    BY <1>2 DEF UnlinksStaleSocket, UnlinksPath, ServeMoves
  <1>3. CASE Binds(d)
    BY <1>3 DEF Binds, ServeMoves
  <1>4. CASE Chmods(d)
    BY <1>4 DEF Chmods, ServeMoves
  <1>5. CASE OpensPIDFile(d)
    BY <1>5, CreatedFile DEF OpensPIDFile, CreatesFile, Refused, ServeMoves
  <1>6. CASE ReadsPIDFile(d)
    BY <1>6 DEF ReadsPIDFile, RemovesStale, Finds, FindsFault, Refused, ServeMoves
  <1>7. CASE ReopensPIDFile(d)
    BY <1>7, CreatedFile DEF ReopensPIDFile, CreatesFile, Refused, ServeMoves
  <1>8. CASE WritesPID(d)
    BY <1>8 DEF WritesPID, Refused, ServeMoves
  <1>9. CASE ClosesListener(d)
    BY <1>9 DEF ClosesListener, UnlinksPath
  <1>10. CASE AcceptFails(d)
    BY <1>10 DEF AcceptFails, UnlinksPath, ServeMoves
  <1>11. CASE ServeReturns(d)
    BY <1>11 DEF ServeReturns, UnlinksPath, ServeMoves
  <1>12. CASE InstallsHandler(d)
    BY <1>12 DEF InstallsHandler
  <1>13. CASE Exits(d)
    BY <1>13 DEF Exits, Ends
  <1> QED
    BY <1>1, <1>2, <1>3, <1>4, <1>5, <1>6, <1>7, <1>8, <1>9, <1>10, <1>11, <1>12, <1>13
    DEF DaemonStep

LEMMA OutsideInv ==
  ASSUME NEW d \in Daemons, LifecycleInv, TypeOK',
         ServesShutdown(d) \/ Interrupted(d) \/ Dies(d) \/ RunsInForeground(d)
  PROVE  LifecycleInv'
  <1> USE DEF LifecycleInv, TypeOK, NamedListens, ListensWhileServing, WriterIsReady,
          EmptyFileIsBeingWritten, NamedServes, TargetServes,
          WriterExists, OnlyTheLivingServe, SignalsHaveTarget, FileUndisturbed,
          NoneDead, Names, Serving, Alive, PIDFiles, daemonVars, commandVars, envVars
  <1>1. CASE ServesShutdown(d)
    BY <1>1 DEF ServesShutdown
  <1>2. CASE Interrupted(d)
    BY <1>2 DEF Interrupted
  <1>3. CASE Dies(d)
    BY <1>3 DEF Dies, Ends
  <1>4. CASE RunsInForeground(d)
    BY <1>4 DEF RunsInForeground
  <1> QED
    BY <1>1, <1>2, <1>3, <1>4

LEMMA CommandInv ==
  ASSUME NEW c \in Commands, LifecycleInv, TypeOK', CommandStep(c)
  PROVE  LifecycleInv'
  <1> USE LifecycleAssumption
      DEF LifecycleInv, TypeOK, NamedListens, ListensWhileServing, WriterIsReady,
          EmptyFileIsBeingWritten, NamedServes, TargetServes,
          WriterExists, OnlyTheLivingServe, SignalsHaveTarget, FileUndisturbed,
          NoneDead, Names, Serving, Alive, PIDFiles, daemonVars, commandVars, envVars
  <1>1. CASE Checks(c)
    BY <1>1 DEF Checks, FindsNoDaemon, RemovesStale, Finds, FindsFault, MovesTo, Finishes
  <1>2. CASE Spawns(c)
    BY <1>2 DEF Spawns, Finishes
  <1>3. CASE Polls(c)
    BY <1>3 DEF Polls, RemovesStale, Finds, FindsFault, Finishes
  <1>4. CASE GivesUp(c)
    BY <1>4 DEF GivesUp, FindsFault, Finishes
  <1>5. CASE ReadsTarget(c)
    BY <1>5 DEF ReadsTarget, FindsNoDaemon, RemovesStale, Finds, FindsFault, NothingToStop,
                MovesTo, Finishes, PIDFileState
  <1>6. CASE SignalsTarget(c)
    BY <1>6 DEF SignalsTarget, Signalled, Ends, NothingToStop, MovesTo, Finishes
  <1>7. CASE WaitsForStop(c)
    BY <1>7 DEF WaitsForStop, FindsNoDaemon, RemovesStale, Finds, FindsFault, MovesTo, Finishes
  <1> QED
    BY <1>1, <1>2, <1>3, <1>4, <1>5, <1>6, <1>7 DEF CommandStep

LEMMA BeginsInv ==
  ASSUME NEW c \in Commands, NEW k \in Kinds, LifecycleInv, TypeOK', Begins(c, k)
  PROVE  LifecycleInv'
  BY DEF Begins, LifecycleInv, TypeOK, NamedListens, ListensWhileServing, WriterIsReady,
         EmptyFileIsBeingWritten, NamedServes, TargetServes,
         WriterExists, OnlyTheLivingServe, SignalsHaveTarget, FileUndisturbed,
         NoneDead, Names, Alive, daemonVars

\* The one step by which a file may be lost later: its writer must have died.
LEMMA FindsStaleInv ==
  ASSUME NEW r \in Daemons \union Commands, LifecycleInv, TypeOK', FindsStale(r)
  PROVE  LifecycleInv'
  <1> USE DEF FindsStale, LifecycleInv, TypeOK, daemonVars, commandVars, envVars
  <1>1. ~NoneDead
    BY DEF PIDFileState, IsProcessRunning, WriterExists, NoneDead, PIDFiles
  <1>2. FileUndisturbed'
    BY <1>1 DEF FileUndisturbed, NoneDead
  <1> QED
    BY <1>2 DEF NamedListens, ListensWhileServing, WriterIsReady,
         EmptyFileIsBeingWritten, NamedServes, TargetServes,
         WriterExists, OnlyTheLivingServe, SignalsHaveTarget, Names, Alive

LEMMA NextInv == LifecycleInv /\ [Next]_vars => LifecycleInv'
  <1> SUFFICES ASSUME LifecycleInv, [Next]_vars PROVE LifecycleInv'
    OBVIOUS
  <1>0. TypeOK /\ SignalsHaveTarget
    BY DEF LifecycleInv
  <1>1. CASE \E d \in Daemons : DaemonStep(d)
    BY <1>0, <1>1, DaemonTypeOK, DaemonInv
  <1>2. CASE \E d \in Daemons : ServesShutdown(d) \/ Interrupted(d) \/ Dies(d) \/ RunsInForeground(d)
    BY <1>0, <1>2, OutsideTypeOK, OutsideInv
  <1>3. CASE \E c \in Commands : CommandStep(c)
    BY <1>0, <1>3, CommandTypeOK, CommandInv
  <1>4. CASE \E c \in Commands, k \in Kinds : Begins(c, k)
    BY <1>0, <1>4, BeginsTypeOK, BeginsInv
  <1>5. CASE \E r \in Daemons \union Commands : ReadsPID(r) /\ FindsStale(r)
    BY <1>0, <1>5, FindsStaleTypeOK, FindsStaleInv
  <1>6. CASE UNCHANGED vars
    BY <1>6 DEF LifecycleInv, TypeOK, NamedListens, ListensWhileServing, WriterIsReady,
         EmptyFileIsBeingWritten, NamedServes, TargetServes,
         WriterExists, OnlyTheLivingServe, SignalsHaveTarget, FileUndisturbed,
         NoneDead, Names, Alive, vars, daemonVars, commandVars, envVars
  <1> QED
    BY <1>1, <1>2, <1>3, <1>4, <1>5, <1>6 DEF Next

(***************************************************************************)
(* The theorems                                                            *)
(***************************************************************************)
\* The inductive invariant holds in every state: of every daemon and every
\* command at every step of Serve, onReady, ReadPID and the commands.
THEOREM LifecycleInvariant == Spec => []LifecycleInv
  BY InitInv, NextInv, PTL DEF Spec

\* Every variable has its type (the processes, the two files, the commands).
THEOREM LifecycleTypeCorrect == Spec => []TypeOK
  <1>1. LifecycleInv => TypeOK
    BY DEF LifecycleInv
  <1> QED
    BY <1>1, LifecycleInvariant, PTL

\* However many daemons and commands race, fail, die and restart, a live daemon that
\* owns the PID file listens, is shutting down, or has left Serve because Accept failed
\* (Serve calls onReady after it has bound the socket).
THEOREM NamedListensAlways == Spec => []NamedListens
  <1>1. LifecycleInv => NamedListens
    BY DEF LifecycleInv
  <1> QED
    BY <1>1, LifecycleInvariant, PTL

\* The PID file of a daemon that lives has no PID only while it is about to write it
\* (writePIDContent removes the file when the write fails).
THEOREM EmptyFileIsTransient == Spec => []EmptyFileIsBeingWritten
  <1>1. LifecycleInv => EmptyFileIsBeingWritten
    BY DEF LifecycleInv
  <1> QED
    BY <1>1, LifecycleInvariant, PTL

\* Nobody is dead after the step: then nobody was before it, nobody removes the
\* file, and nobody else is at the point of writing to it.
LEMMA NoneDeadBefore == LifecycleInv /\ [Next]_vars /\ NoneDead' => NoneDead
  <1> SUFFICES ASSUME LifecycleInv, [Next]_vars, NoneDead', ~NoneDead PROVE FALSE
    OBVIOUS
  <1> USE DEF NoneDead, LifecycleInv, TypeOK, Alive, daemonVars
  <1>1. PICK e \in Daemons : process[e] = "dead"
    OBVIOUS
  <1>2. CASE \E d \in Daemons : DaemonStep(d)
    BY <1>1, <1>2 DEF DaemonStep, Boots, UnlinksStaleSocket, Binds, Chmods, OpensPIDFile,
       ReadsPIDFile, ReopensPIDFile, WritesPID, ClosesListener, AcceptFails, ServeReturns,
       InstallsHandler, Exits, Ends
  <1>3. CASE \E d \in Daemons : ServesShutdown(d) \/ Interrupted(d) \/ Dies(d) \/ RunsInForeground(d)
    BY <1>1, <1>3 DEF ServesShutdown, Interrupted, Dies, Ends, RunsInForeground
  <1>4. CASE \E c \in Commands : CommandStep(c)
    BY <1>1, <1>4 DEF CommandStep, Checks, Spawns, Polls, GivesUp, ReadsTarget,
       SignalsTarget, Signalled, Ends, WaitsForStop
  <1>5. CASE \E c \in Commands, k \in Kinds : Begins(c, k)
    BY <1>1, <1>5 DEF Begins
  <1>6. CASE \E r \in Daemons \union Commands : ReadsPID(r) /\ FindsStale(r)
    BY <1>1, <1>6 DEF FindsStale
  <1>7. CASE UNCHANGED vars
    BY <1>1, <1>7 DEF vars
  <1> QED
    BY <1>2, <1>3, <1>4, <1>5, <1>6, <1>7 DEF Next

LEMMA NamedFileStays ==
  ASSUME LifecycleInv, [Next]_vars, NoneDead', NEW d \in Daemons, Names(d)
  PROVE  pidFile' = pidFile
  <1>1. NoneDead
    BY NoneDeadBefore
  <1>2. staleReaders = {} /\ \A e \in Daemons : serve[e] # "writes"
    <2>1. Alive(d) /\ serve[d] \in Serving
      BY <1>1 DEF LifecycleInv, TypeOK, WriterExists, NamedServes, NoneDead, Names, Alive
    <2> QED
      BY <1>1, <2>1 DEF LifecycleInv, FileUndisturbed, Names, Serving
  <1> USE <1>2 DEF Names, RemovesStale, Finds, FindsFault, FindsNoDaemon, commandVars
  <1>3. CASE \E e \in Daemons : DaemonStep(e)
    BY <1>3 DEF DaemonStep, Boots, UnlinksStaleSocket, Binds, Chmods, OpensPIDFile,
       ReadsPIDFile, ReopensPIDFile, WritesPID, ClosesListener, AcceptFails, ServeReturns,
       InstallsHandler, Exits, CreatesFile, Refused, ServeMoves
  <1>4. CASE \E e \in Daemons : ServesShutdown(e) \/ Interrupted(e) \/ Dies(e) \/ RunsInForeground(e)
    BY <1>4 DEF ServesShutdown, Interrupted, Dies, RunsInForeground
  <1>5. CASE \E c \in Commands : CommandStep(c)
    BY <1>5 DEF CommandStep, Checks, Spawns, Polls, GivesUp, ReadsTarget,
       SignalsTarget, WaitsForStop
  <1>6. CASE \E c \in Commands, k \in Kinds : Begins(c, k)
    BY <1>6 DEF Begins
  <1>7. CASE \E r \in Daemons \union Commands : ReadsPID(r) /\ FindsStale(r)
    BY <1>7 DEF FindsStale
  <1>8. CASE UNCHANGED vars
    BY <1>8 DEF vars
  <1> QED
    BY <1>3, <1>4, <1>5, <1>6, <1>7, <1>8 DEF Next

\* As long as no daemon has died the first PID stays in the file, whatever other
\* daemons and commands do: O_EXCL and the test of the process in ReadPID suffice.
THEOREM FirstWriterStaysAlways == Spec => FirstWriterStays
  <1>1. LifecycleInv /\ [Next]_vars =>
          [NoneDead' /\ (\E d \in Daemons : Names(d)) => pidFile' = pidFile]_vars
    BY NamedFileStays
  <1> QED
    BY <1>1, LifecycleInvariant, PTL DEF Spec, FirstWriterStays

(***************************************************************************)
(* Commands that come one by one                                           *)
(***************************************************************************)
\* At most one command is at work.
OneAtATime == \A b, c \in Commands : Active(b) /\ Active(c) => b = c

\* The PID of a daemon that is alive is in the file, or a start still waits for it to be;
\* so there is one daemon at most, and none when start spawns it, though the file of a dead one
\* may be there still.
AccountedFor ==
  \A d \in Daemons : Alive(d) =>
    Names(d) \/ \E c \in Commands : step[c] = "polls" /\ child[c] = d
NobodysFile == pidFile # None => process[pidFile.by] = "dead"
SpawnsAlone ==
  \A c \in Commands : step[c] = "spawns" => NobodysFile /\ \A d \in Daemons : ~Alive(d)

\* A start that waits has a child, which is not what a restart has stopped before, and
\* sees the file of no other daemon that lives.
PollsItsChild ==
  \A c \in Commands : step[c] = "polls" =>
    /\ child[c] # None /\ child[c] # target[c]
    /\ pidFile # None /\ pidFile.by # child[c] => process[pidFile.by] = "dead"

\* The file that a command removes before it spawns is still the one of the dead daemon
\* that ReadPID has found.  (One that start removes while it waits may be its child's.)
StaleIsDead ==
  \A c \in Commands \cap staleReaders :
    /\ step[c] \in {"checks", "reads", "waits", "polls"}
    /\ step[c] # "polls" => pidFile # None /\ process[pidFile.by] = "dead"

\* Nobody takes the daemon's socket file away from bind to the end of Accept.
ServesUndisturbed ==
  \A d \in listening :
    /\ serve[d] \in {"chmods", "opens", "reads", "reopens", "writes", "accepts", "closes", "fails"}
    /\ serve[d] # "closes" => socketFile = d

OrderlyInv ==
  orderly => /\ OneAtATime /\ AccountedFor /\ SpawnsAlone /\ PollsItsChild
             /\ StaleIsDead /\ ServesUndisturbed

LEMMA AloneWhenOrderly ==
  ASSUME OrderlyInv, orderly, NEW d \in Daemons, NEW e \in Daemons, Alive(d), Alive(e)
  PROVE  d = e
<1>1. \A f \in Daemons : Alive(f) =>
        Names(f) \/ \E c \in Commands : step[c] = "polls" /\ child[c] = f
  BY DEF OrderlyInv, AccountedFor
<1>2. ASSUME NEW f \in Daemons, NEW g \in Daemons, Alive(f), Alive(g),
             NEW c \in Commands, step[c] = "polls", child[c] = f
      PROVE  f = g
  <2>1. CASE Names(g)
    BY <1>2, <2>1 DEF OrderlyInv, PollsItsChild, Alive, Names
  <2>2. CASE \E b \in Commands : step[b] = "polls" /\ child[b] = g
    BY <1>2, <2>2 DEF OrderlyInv, OneAtATime, Active
  <2> QED BY <1>1, <1>2, <2>1, <2>2
<1> QED BY <1>1, <1>2 DEF Names

LEMMA OrderlyDaemon ==
  ASSUME NEW d \in Daemons, LifecycleInv, OrderlyInv, DaemonStep(d), orderly'
  PROVE  OrderlyInv'
<1>1. orderly /\ Alive(d)
  BY DEF DaemonStep, Boots, UnlinksStaleSocket, Binds, Chmods, OpensPIDFile, ReadsPIDFile,
         ReopensPIDFile, WritesPID, ClosesListener, AcceptFails, ServeReturns, InstallsHandler, Exits,
         ServeMoves, Refused, envVars
<1>2. \A e \in Daemons : Alive(e) => e = d
  BY <1>1, AloneWhenOrderly
<1> USE <1>1, <1>2, LifecycleAssumption
    DEF LifecycleInv, TypeOK, OnlyTheLivingServe, OrderlyInv, OneAtATime, AccountedFor, Names,
        SpawnsAlone, NobodysFile, PollsItsChild, StaleIsDead, ServesUndisturbed, Alive, Active,
        commandVars, envVars
<1>3. CASE Boots(d)
  <2>1. CASE Ends(d)
    BY <1>3, <2>1 DEF Boots, Ends
  <2>2. CASE ~Ends(d)
    BY <1>3, <2>2 DEF Boots
  <2> QED BY <2>1, <2>2
<1>4. CASE UnlinksStaleSocket(d)
  BY <1>4 DEF UnlinksStaleSocket, UnlinksPath, ServeMoves
<1>5. CASE Binds(d)
  BY <1>5 DEF Binds, ServeMoves
<1>6. CASE Chmods(d)
  BY <1>6 DEF Chmods, ServeMoves, ListensWhileServing
<1>7. CASE OpensPIDFile(d)
  BY <1>7, CreatedFile DEF OpensPIDFile, CreatesFile, Refused, ServeMoves
<1>8. CASE ReadsPIDFile(d)
  BY <1>8 DEF ReadsPIDFile, RemovesStale, Finds, FindsFault, Refused, ServeMoves, WriterIsReady, Serving
<1>14. CASE ReopensPIDFile(d)
  BY <1>14, CreatedFile DEF ReopensPIDFile, CreatesFile, Refused, ServeMoves
<1>9. CASE WritesPID(d)
  <2>1. CASE pidFile' = None
    <3>1. PICK c \in Commands : step[c] = "polls" /\ child[c] = d
      BY <1>9 DEF WritesPID, Refused, ServeMoves, NamedServes, Serving
    <3> QED BY <1>9, <2>1, <3>1 DEF WritesPID, Refused, ServeMoves
  <2>2. CASE pidFile' # None
    BY <1>9, <2>2, WrittenFile DEF WritesPID, Refused, ServeMoves, WriterIsReady, PIDFiles
  <2> QED BY <2>1, <2>2
<1>10. CASE ClosesListener(d)
  BY <1>10 DEF ClosesListener, UnlinksPath
<1>11. CASE AcceptFails(d)
  BY <1>11 DEF AcceptFails, UnlinksPath, ServeMoves
<1>15. CASE ServeReturns(d)
  BY <1>15 DEF ServeReturns, UnlinksPath, ServeMoves
<1>12. CASE InstallsHandler(d)
  BY <1>12 DEF InstallsHandler
<1>13. CASE Exits(d)
  BY <1>13 DEF Exits, Ends
<1> QED
  BY <1>3, <1>4, <1>5, <1>6, <1>7, <1>8, <1>9, <1>10, <1>11, <1>12, <1>13, <1>14, <1>15
  DEF DaemonStep

LEMMA OrderlyOutside ==
  ASSUME NEW d \in Daemons, LifecycleInv, OrderlyInv, orderly',
         ServesShutdown(d) \/ Interrupted(d) \/ Dies(d) \/ RunsInForeground(d)
  PROVE  OrderlyInv'
<1> USE DEF LifecycleInv, TypeOK, OrderlyInv, OneAtATime, AccountedFor, Names, SpawnsAlone,
        NobodysFile, PollsItsChild, StaleIsDead, ServesUndisturbed, Alive, Active, commandVars, envVars
<1>1. CASE ServesShutdown(d)
  BY <1>1 DEF ServesShutdown
<1>2. CASE Interrupted(d)
  <2>1. orderly
    BY <1>2, Zenon DEF Interrupted
  <2> QED BY <1>2, <2>1 DEF Interrupted
<1>3. CASE Dies(d)
  BY <1>3 DEF Dies, Ends
<1>4. CASE RunsInForeground(d)
  BY <1>4 DEF RunsInForeground
<1> QED BY <1>1, <1>2, <1>3, <1>4

LEMMA OrderlyCommand ==
  ASSUME NEW c \in Commands, LifecycleInv, OrderlyInv, CommandStep(c), orderly'
  PROVE  OrderlyInv'
<1>1. orderly /\ Active(c)
  BY DEF CommandStep, Checks, Spawns, Polls, GivesUp, ReadsTarget, SignalsTarget,
         WaitsForStop, Active, envVars
<1>2. \A b \in Commands : Active(b) => b = c
  BY <1>1 DEF OrderlyInv, OneAtATime
<1> USE <1>1, <1>2, LifecycleAssumption
    DEF LifecycleInv, TypeOK, OrderlyInv, OneAtATime, AccountedFor, Names, SpawnsAlone,
        NobodysFile, PollsItsChild, StaleIsDead, ServesUndisturbed, Alive, Active, daemonVars,
        commandVars, envVars
<1>3. CASE Checks(c)
  BY <1>3 DEF Checks, FindsNoDaemon, RemovesStale, Finds, FindsFault, MovesTo, Finishes, PIDFileState
<1>4. CASE Spawns(c)
  <2>1. CASE process' = process
    BY <1>4, <2>1 DEF Spawns, Finishes
  <2>2. CASE process' # process
    <3>1. PICK d \in Daemons : /\ process[d] = "unborn" /\ process' = [process EXCEPT ![d] = "alive"]
                               /\ child' = [child EXCEPT ![c] = d]
                               /\ step' = [step EXCEPT ![c] = "polls"] /\ target' = target
      BY <1>4, <2>2 DEF Spawns
    <3>2. step[c] = "spawns" /\ UNCHANGED <<serve, listening, pidFile, socketFile, staleReaders>>
      BY <1>4 DEF Spawns
    <3>3. AccountedFor'
      BY <3>1, <3>2
    <3>4. PollsItsChild'
      BY <3>1, <3>2 DEF TargetServes
    <3> QED BY <3>1, <3>2, <3>3, <3>4
  <2> QED BY <2>1, <2>2
<1>5. CASE Polls(c)
  <2>1. CASE RemovesStale(c)
    <3>1. \A d \in Daemons : Alive(d) => d = child[c]
      BY <1>5 DEF Polls
    <3>2. UNCHANGED <<daemonVars, commandVars, socketFile>>
      BY <1>5, <2>1 DEF Polls, RemovesStale, Finds
    <3>3. step[c] = "polls" /\ staleReaders' \subseteq staleReaders /\ pidFile' \in {None, pidFile}
      BY <1>5, <2>1 DEF Polls, RemovesStale
    <3>4. AccountedFor'
      BY <3>1, <3>2, <3>3
    <3> QED BY <3>1, <3>2, <3>3, <3>4
  <2>2. CASE Finds(c, {"running"})
    BY <1>5, <2>2 DEF Polls, Finds, Finishes, PIDFileState, IsProcessRunning
  <2> QED BY <1>5, <2>1, <2>2 DEF Polls
<1>6. CASE GivesUp(c)
  <2>1. child[c] \in Daemons /\ (Alive(child[c]) => Names(child[c]))
    <3>1. Alive(child[c]) => Names(child[c])
      BY <1>6, Zenon DEF GivesUp
    <3> QED BY <1>6, <3>1 DEF GivesUp
  <2>2. \A d \in Daemons : Alive(d) => Names(d)
    BY <2>1
  <2>3. AccountedFor'
    BY <1>6, <2>2 DEF GivesUp, FindsFault
  <2> QED BY <1>6, <2>3 DEF GivesUp, FindsFault, Finishes
<1>7. CASE ReadsTarget(c)
  BY <1>7 DEF ReadsTarget, FindsNoDaemon, RemovesStale, Finds, FindsFault, NothingToStop, MovesTo,
              Finishes, PIDFileState
<1>8. CASE SignalsTarget(c)
  BY <1>8 DEF SignalsTarget, Signalled, Ends, NothingToStop, MovesTo, Finishes
<1>9. CASE WaitsForStop(c)
  BY <1>9 DEF WaitsForStop, FindsNoDaemon, RemovesStale, Finds, FindsFault, MovesTo, Finishes,
              PIDFileState
<1> QED BY <1>3, <1>4, <1>5, <1>6, <1>7, <1>8, <1>9 DEF CommandStep

LEMMA OrderlyBegins ==
  ASSUME NEW c \in Commands, NEW k \in Kinds, LifecycleInv, OrderlyInv, Begins(c, k), orderly'
  PROVE  OrderlyInv'
<1>1. orderly /\ \A b \in Commands : ~Active(b)
  BY Zenon DEF Begins
<1>2. /\ step \in [Commands -> StepAt] /\ \E s \in {"checks", "reads"} : step' = [step EXCEPT ![c] = s]
      /\ UNCHANGED <<daemonVars, pidFile, socketFile, staleReaders, target, child>>
  BY DEF Begins, LifecycleInv, TypeOK
<1> QED
  BY <1>1, <1>2 DEF OrderlyInv, OneAtATime, AccountedFor, Names, SpawnsAlone, NobodysFile,
     PollsItsChild, StaleIsDead, ServesUndisturbed, Alive, Active, daemonVars

LEMMA OrderlyFindsStale ==
  ASSUME NEW r \in Daemons \union Commands, LifecycleInv, OrderlyInv, orderly',
         ReadsPID(r), FindsStale(r)
  PROVE  OrderlyInv'
<1>1. orderly /\ pidFile # None /\ pidFile.by \in Daemons /\ ~IsProcessRunning(pidFile.by)
  BY DEF FindsStale, envVars, LifecycleInv, TypeOK, PIDFiles, PIDFileState
<1>2. process[pidFile.by] = "dead"
  BY <1>1 DEF LifecycleInv, TypeOK, WriterExists, IsProcessRunning
<1>3. r \in Commands => step[r] \in {"checks", "polls", "reads", "waits"}
  BY LifecycleAssumption DEF ReadsPID
<1> QED
  BY <1>1, <1>2, <1>3, LifecycleAssumption
  DEF FindsStale, OrderlyInv, OneAtATime, AccountedFor, Names, SpawnsAlone, NobodysFile, PollsItsChild,
      StaleIsDead, ServesUndisturbed, Alive, Active, daemonVars, commandVars, envVars

LEMMA NextOrderly == LifecycleInv /\ OrderlyInv /\ [Next]_vars => OrderlyInv'
<1> SUFFICES ASSUME LifecycleInv, OrderlyInv, [Next]_vars, orderly' PROVE OrderlyInv'
  BY DEF OrderlyInv
<1>1. CASE UNCHANGED vars
  BY <1>1 DEF vars, daemonVars, commandVars, envVars, OrderlyInv, OneAtATime,
     AccountedFor, Names, SpawnsAlone, NobodysFile, PollsItsChild, StaleIsDead, ServesUndisturbed, Alive, Active
<1>2. CASE Next
  BY <1>2, OrderlyDaemon, OrderlyOutside, OrderlyCommand, OrderlyBegins, OrderlyFindsStale
  DEF Next
<1> QED BY <1>1, <1>2

LEMMA InitOrderly == Init => OrderlyInv
BY DEF Init, OrderlyInv, OneAtATime, AccountedFor, Names, SpawnsAlone, NobodysFile, PollsItsChild, StaleIsDead,
       ServesUndisturbed, Alive, Active

LEMMA OrderlyAlways == Spec => []OrderlyInv
BY InitOrderly, NextOrderly, LifecycleInvariant, PTL DEF Spec

\* As long as commands come one by one and no start gives up on a daemon that lives without
\* its PID in the file, there are never two daemons, whatever dies or fails, and however
\* late, between two steps of a command or of a daemon (Daemonize reads the PID file first,
\* runStart and WaitStop wait).
THEOREM OneDaemonAlways == Spec => []OneDaemon
<1>1. OrderlyInv => OneDaemon
  BY AloneWhenOrderly DEF OneDaemon
<1> QED BY <1>1, OrderlyAlways, PTL

\* Then a PID in the file means that clients reach the daemon it names, until it shuts down
\* or its Accept fails (onReady is called with the socket bound, and nobody unlinks the
\* socket of a daemon that serves).
THEOREM OrderlyReadyAlwaysReachable == Spec => []OrderlyReadyIsReachable
<1>1. LifecycleInv /\ OrderlyInv => OrderlyReadyIsReachable
  <2> SUFFICES ASSUME LifecycleInv, OrderlyInv, orderly, NEW d \in Daemons, Ready(d)
               PROVE  socketFile = d
    BY DEF OrderlyReadyIsReachable, ReadyIsReachable
  <2>1. d \in listening
    BY DEF LifecycleInv, NamedListens, Ready, Names
  <2> QED BY <2>1 DEF OrderlyInv, ServesUndisturbed, Ready
<1> QED BY <1>1, OrderlyAlways, LifecycleInvariant, PTL

\* Then start and restart report the daemon that they have spawned (runStart polls the
\* PID file, whoever has written it).
THEOREM StartAlwaysReportsChild == Spec => []StartReportsChild
<1>1. OrderlyInv => StartReportsChild
  BY DEF OrderlyInv, OneAtATime, Active, PollsItsChild, StartReportsChild, PIDFileState,
         IsProcessRunning
<1> QED BY <1>1, OrderlyAlways, PTL
=============================================================================
