-------------------------- MODULE Launcher_proofs --------------------------
(***************************************************************************)
(* Proofs about the daemon's processes and their files, and about the      *)
(* commands that start, stop and restart them, for any number of both.     *)
(* Of the processes: types whatever happens and, when startups and         *)
(* shutdowns do not overlap and a live daemon always has room in its       *)
(* backlog, a serving daemon that is alone, reachable at the socket and    *)
(* named truthfully by the pid file.  Of the commands, whatever overlaps   *)
(* and whoever is killed: their types, and that a restart which has seen   *)
(* the old file go is not turned away by the daemon it has stopped.        *)
(***************************************************************************)
EXTENDS Launcher, TLAPS

USE SocketAssumption

-----------------------------------------------------------------------------
(* The processes (DaemonSocket).                                           *)

\* Every step keeps the types.
LEMMA SocketTypeNext ==
    ASSUME TypeOK, [Next]_vars
    PROVE  TypeOK'
<1> USE DEF TypeOK, Startup, Shutdown, Goto
<1>1. CASE UNCHANGED vars
  BY <1>1 DEF vars
<1>2. ASSUME NEW p \in Procs, Begin(p) \/ Step(p) \/ Quit(p) \/ Crash(p)
      PROVE  TypeOK'
  <2>1. CASE Begin(p)        BY <2>1 DEF Begin
  <2>2. CASE Bind(p)         BY <2>2 DEF Bind
  <2>3. CASE Probe(p)        BY <2>3 DEF Probe
  <2>4. CASE UnlinkStale(p)  BY <2>4 DEF UnlinkStale
  <2>5. CASE Rebind(p)       BY <2>5 DEF Rebind
  <2>6. CASE Listen(p)       BY <2>6 DEF Listen
  <2>7. CASE Chmod(p)        BY <2>7 DEF Chmod
  <2>8. CASE WritePid(p)     BY <2>8 DEF WritePid
  <2>9. CASE Quit(p)         BY <2>9 DEF Quit
  <2>10. CASE StopPortal(p)  BY <2>10 DEF StopPortal
  <2>11. CASE RemoveSocket(p) BY <2>11 DEF RemoveSocket
  <2>12. CASE RemovePid(p)   BY <2>12 DEF RemovePid
  <2>13. CASE Crash(p)       BY <2>13 DEF Crash
  <2>14. QED
    BY <1>2, <2>1, <2>2, <2>3, <2>4, <2>5, <2>6, <2>7, <2>8, <2>9, <2>10,
       <2>11, <2>12, <2>13 DEF Step
<1>3. QED
  BY <1>1, <1>2 DEF Next

\* Whatever the processes do, the program counters and the two files hold
\* values of their types.
THEOREM SocketTypeCorrect == Spec => []TypeOK
<1>1. Init => TypeOK
  BY DEF Init, TypeOK
<1>2. TypeOK /\ [Next]_vars => TypeOK'
  BY SocketTypeNext
<1>3. QED
  BY <1>1, <1>2, PTL DEF Spec

-----------------------------------------------------------------------------
(* The inductive invariant of undisturbed startups and shutdowns.          *)

\* At most one process starts or stops.
OneBusy ==
    \A p, q \in Procs :
        pc[p] \in Startup \cup Shutdown /\ pc[q] \in Startup \cup Shutdown => p = q

\* From its bind until it removes the file, the path names the process; while
\* one tries to bind, the path is as it has seen it.
PathFollows ==
    \A p \in Procs :
        /\ pc[p] \in {"listen", "chmod", "writepid", "serving", "closing", "rmsock"}
             => sockFile = p
        /\ pc[p] \in {"probe", "unlink"} => sockFile # NoProc
        /\ pc[p] = "unlink" => sockFile \notin Listening
        /\ pc[p] \in {"rebind", "rmpid"} => sockFile = NoProc

\* The pid file names a process that wrote it and has not stopped cleanly.
PidFollows ==
    pidFile # NoProc => pc[pidFile] \in {"serving", "gone"} \cup Shutdown

\* No start trips over a file that is gone or has come back.
NoneFailed == \A p \in Procs : pc[p] # "failed"

Undisputed ==
    TypeOK /\ OneBusy /\ PathFollows /\ PidFollows /\ NoneFailed

\* When startups and shutdowns do not overlap, and the backlog of a live
\* daemon has room, the invariant holds in every reachable state.
THEOREM SocketUndisputed ==
    ASSUME StartupsOverlap = FALSE, BacklogFull = FALSE
    PROVE  Spec => []Undisputed
<1> USE DEF Undisputed, TypeOK, OneBusy, PathFollows, PidFollows,
            NoneFailed, Startup, Shutdown, Listening, Goto
<1>1. Init => Undisputed
  BY DEF Init
<1>2. Undisputed /\ [Next]_vars => Undisputed'
  <2> SUFFICES ASSUME Undisputed, [Next]_vars PROVE Undisputed'
    OBVIOUS
  <2>1. CASE UNCHANGED vars
    BY <2>1 DEF vars
  <2>2. ASSUME NEW p \in Procs, Begin(p) \/ Step(p) \/ Quit(p) \/ Crash(p)
        PROVE  Undisputed'
    <3>1. CASE Begin(p)        BY <3>1 DEF Begin, Undisturbed
    <3>2. CASE Bind(p)         BY <3>2 DEF Bind
    <3>3. CASE Probe(p)        BY <3>3 DEF Probe
    <3>4. CASE UnlinkStale(p)  BY <3>4 DEF UnlinkStale
    <3>5. CASE Rebind(p)       BY <3>5 DEF Rebind
    <3>6. CASE Listen(p)       BY <3>6 DEF Listen
    <3>7. CASE Chmod(p)        BY <3>7 DEF Chmod
    <3>8. CASE WritePid(p)     BY <3>8 DEF WritePid
    <3>9. CASE Quit(p)         BY <3>9 DEF Quit, Undisturbed
    <3>10. CASE StopPortal(p)  BY <3>10 DEF StopPortal
    <3>11. CASE RemoveSocket(p) BY <3>11 DEF RemoveSocket
    <3>12. CASE RemovePid(p)   BY <3>12 DEF RemovePid
    <3>13. CASE Crash(p)       BY <3>13 DEF Crash, Alive
    <3>14. QED
      BY <2>2, <3>1, <3>2, <3>3, <3>4, <3>5, <3>6, <3>7, <3>8, <3>9, <3>10,
         <3>11, <3>12, <3>13 DEF Step
  <2>3. QED
    BY <2>1, <2>2 DEF Next
<1>3. QED
  BY <1>1, <1>2, PTL DEF Spec

\* The serving daemon can be reached at the socket path, hence is alone.
THEOREM SocketServerReachable ==
    ASSUME StartupsOverlap = FALSE, BacklogFull = FALSE
    PROVE  Spec => [](ServerReachable /\ SingleServer)
<1>1. Undisputed => ServerReachable /\ SingleServer
  BY DEF Undisputed, PathFollows, ServerReachable, SingleServer
<1>2. QED
  BY <1>1, SocketUndisputed, PTL

\* The pid file never misleads "daemon status".
THEOREM SocketPidNamesOwner ==
    ASSUME StartupsOverlap = FALSE, BacklogFull = FALSE
    PROVE  Spec => []PidNamesOwner
<1>1. Undisputed => PidNamesOwner
  BY DEF Undisputed, TypeOK, PathFollows, PidFollows, PidNamesOwner, Alive,
         Startup, Shutdown
<1>2. QED
  BY <1>1, SocketUndisputed, PTL

-----------------------------------------------------------------------------
(* The commands (Launcher).                                                *)

USE CommandAssumption

\* Where the daemons' part of the state changes, it does so by a step of theirs;
\* the rest is the commands' own.
LEMMA DaemonsStep ==
    ASSUME LaunchTypeOK, [LaunchNext]_allVars
    PROVE  [Next]_vars
<1>1. CASE \E c \in Commands : CommandStep(c)
  <2> PICK c \in Commands : CommandStep(c)
    BY <1>1
  <2>1. CASE Spawn(c)
    BY <2>1 DEF Spawn, Start, Next
  <2>2. CASE ~Spawn(c)
    BY <2>2 DEF CommandStep, SeeFile, NoFileInTime, Ask, Answered, Unanswered,
       SeeNoFile, FileStays, Try, Retry, NotUpInTime
  <2>3. QED
    BY <2>1, <2>2
<1>2. CASE \E p \in Procs : ByHand(p) \/ Proceed(p) \/ Leave(p) \/ Killed(p)
  BY <1>2 DEF ByHand, Start, Proceed, Leave, Killed, Next
<1>3. CASE UNCHANGED allVars
  BY <1>3 DEF allVars
<1>4. QED
  BY <1>1, <1>2, <1>3 DEF LaunchNext

-----------------------------------------------------------------------------
(* Types.                                                                  *)

\* The commands' own variables.
CommandsTypeOK ==
    /\ at \in [Commands -> Final \cup
                 {"spawn", "waitup", "ask", "asked", "waitdown", "try", "retry"}]
    /\ told \in [Commands -> Procs \cup {NoProc}]
    /\ child \in [Commands -> Procs \cup {NoProc}]
    /\ late \in [Commands -> BOOLEAN]
    /\ leaving \subseteq Procs
    /\ kills \in 0 .. MaxKills
    /\ calm \in BOOLEAN
    /\ \A c \in Commands :
         /\ at[c] \in {"asked", "waitdown", "stopped", "connected"} => told[c] # NoProc
         /\ at[c] \in {"waitup", "started", "retry"} => child[c] # NoProc

\* A command's step keeps the types; the daemon a command has reached or
\* started is a process.
LEMMA CommandTyped ==
    ASSUME LaunchTypeOK, NEW c \in Commands, CommandStep(c)
    PROVE  CommandsTypeOK'
<1> USE DEF LaunchTypeOK, CommandsTypeOK, At, Final
<1>1. CASE Spawn(c)         BY <1>1 DEF Spawn, Start
<1>2. CASE SeeFile(c)       BY <1>2 DEF SeeFile
<1>3. CASE NoFileInTime(c)  BY <1>3 DEF NoFileInTime
<1>4. CASE Ask(c)           BY <1>4 DEF Ask, Listening
<1>5. CASE Answered(c)      BY <1>5 DEF Answered
<1>6. CASE Unanswered(c)    BY <1>6 DEF Unanswered
<1>7. CASE SeeNoFile(c)     BY <1>7 DEF SeeNoFile
<1>8. CASE FileStays(c)     BY <1>8 DEF FileStays
<1>9. CASE Try(c)           BY <1>9 DEF Try, Listening
<1>10. CASE Retry(c)        BY <1>10 DEF Retry, Listening
<1>11. CASE NotUpInTime(c)  BY <1>11 DEF NotUpInTime
<1>12. QED
  BY <1>1, <1>2, <1>3, <1>4, <1>5, <1>6, <1>7, <1>8, <1>9, <1>10, <1>11
     DEF CommandStep

\* A command that has got somewhere knows the daemon it owes that to.
THEOREM LauncherTypeCorrect == LaunchSpec => []LaunchTypeOK
<1>1. LaunchInit => LaunchTypeOK
  <2> SUFFICES ASSUME LaunchInit PROVE LaunchTypeOK
    OBVIOUS
  <2>1. TypeOK
    BY DEF LaunchInit, Init, TypeOK
  <2>2. \A c \in Commands : Entry(Kind[c]) \in {"spawn", "try", "ask"}
    BY DEF Entry
  <2>3. \A c \in Commands : at[c] \in {"spawn", "try", "ask"}
    BY <2>2 DEF LaunchInit
  <2>4. at \in [Commands -> Final \cup
                   {"spawn", "waitup", "ask", "asked", "waitdown", "try", "retry"}]
    BY <2>2 DEF LaunchInit
  <2>5. late \in [Commands -> BOOLEAN] /\ calm \in BOOLEAN
    BY DEF LaunchInit
  <2>6. QED
    BY <2>1, <2>3, <2>4, <2>5 DEF LaunchInit, LaunchTypeOK
<1>2. LaunchTypeOK /\ [LaunchNext]_allVars => LaunchTypeOK'
  <2> SUFFICES ASSUME LaunchTypeOK, [LaunchNext]_allVars PROVE LaunchTypeOK'
    OBVIOUS
  <2>1. TypeOK'
    BY DaemonsStep, SocketTypeNext DEF LaunchTypeOK
  <2>2. CommandsTypeOK'
    <3>1. CASE \E c \in Commands : CommandStep(c)
      BY <3>1, CommandTyped
    <3>2. CASE \E p \in Procs : ByHand(p) \/ Proceed(p) \/ Leave(p) \/ Killed(p)
      <4>1. UNCHANGED <<at, told, child, late, leaving>>
        BY <3>2 DEF ByHand, Proceed, Leave, Killed, launchVars
      <4>2. kills' = kills \/ (kills < MaxKills /\ kills' = kills + 1)
        BY <3>2 DEF ByHand, Proceed, Leave, Killed, launchVars
      <4>3. kills' \in 0..MaxKills
        BY <4>2 DEF LaunchTypeOK
      <4>4. \/ calm' = (calm \/ ~Departing)
            \/ calm' = calm
            \/ calm' = FALSE
        BY <3>2, Zenon DEF ByHand, Start, Proceed, Leave, Killed, launchVars
      <4>5. calm' \in BOOLEAN
        BY <4>4 DEF LaunchTypeOK
      <4>6. QED
        BY <4>1, <4>3, <4>5 DEF LaunchTypeOK, CommandsTypeOK
    <3>3. CASE UNCHANGED allVars
      BY <3>3 DEF allVars, launchVars, LaunchTypeOK, CommandsTypeOK
    <3>4. QED
      BY <3>1, <3>2, <3>3 DEF LaunchNext
  <2>3. QED
    BY <2>1, <2>2 DEF LaunchTypeOK, CommandsTypeOK
<1>3. QED
  BY <1>1, <1>2, PTL DEF LaunchSpec

-----------------------------------------------------------------------------
(* Restarts.                                                               *)

\* A process that may still bind the socket.
Binding == {"off", "bind", "probe", "unlink", "rebind"}

\* The daemon a command has talked to has bound its socket, once and for all.
\* A restart that has seen the file go, and the child it then spawns, never see
\* the file of that daemon again.
RestartInv ==
    \A c \in Commands :
        /\ told[c] # NoProc => pc[told[c]] \notin Binding
        /\ at[c] \in {"ask", "asked", "waitdown"} => child[c] = NoProc
        /\ at[c] \in {"try", "retry"} => Kind[c] # "restart"
        /\ Kind[c] = "restart" /\ ~late[c] /\ (at[c] = "spawn" \/ child[c] # NoProc)
             => told[c] # NoProc /\ sockFile # told[c]

LInv == LaunchTypeOK /\ RestartInv

\* No process binds twice, and only one that may bind puts its file at the path.
LEMMA BoundOnce ==
    ASSUME TypeOK, [Next]_vars, NEW q \in Procs, pc[q] \notin Binding
    PROVE  pc'[q] \notin Binding /\ (sockFile # q => sockFile' # q)
<1> USE DEF TypeOK, Startup, Shutdown, Goto, Binding
<1>1. CASE UNCHANGED vars
  BY <1>1 DEF vars
<1>2. ASSUME NEW p \in Procs, Begin(p) \/ Step(p) \/ Quit(p) \/ Crash(p)
      PROVE  pc'[q] \notin Binding /\ (sockFile # q => sockFile' # q)
  <2>1. CASE Begin(p)        BY <2>1 DEF Begin
  <2>2. CASE Bind(p)         BY <2>2 DEF Bind
  <2>3. CASE Probe(p)        BY <2>3 DEF Probe
  <2>4. CASE UnlinkStale(p)  BY <2>4 DEF UnlinkStale
  <2>5. CASE Rebind(p)       BY <2>5 DEF Rebind
  <2>6. CASE Listen(p)       BY <2>6 DEF Listen
  <2>7. CASE Chmod(p)        BY <2>7 DEF Chmod
  <2>8. CASE WritePid(p)     BY <2>8 DEF WritePid
  <2>9. CASE Quit(p)         BY <2>9 DEF Quit
  <2>10. CASE StopPortal(p)  BY <2>10 DEF StopPortal
  <2>11. CASE RemoveSocket(p) BY <2>11 DEF RemoveSocket
  <2>12. CASE RemovePid(p)   BY <2>12 DEF RemovePid
  <2>13. CASE Crash(p)       BY <2>13 DEF Crash
  <2>14. QED
    BY <1>2, <2>1, <2>2, <2>3, <2>4, <2>5, <2>6, <2>7, <2>8, <2>9, <2>10,
       <2>11, <2>12, <2>13 DEF Step
<1>3. QED
  BY <1>1, <1>2 DEF Next

\* A command's step keeps the invariant.
LEMMA CommandKeepsRestart ==
    ASSUME LInv, NEW c \in Commands, CommandStep(c)
    PROVE  RestartInv'
<1>1. TypeOK /\ LaunchTypeOK /\ RestartInv
  BY DEF LInv, LaunchTypeOK
<1>2. CASE Spawn(c)
  <2> PICK p \in Procs : Start(p) /\ child' = [child EXCEPT ![c] = p]
    BY <1>2 DEF Spawn
  <2>1. Begin(p)
    BY DEF Start
  <2>2. [Next]_vars /\ sockFile' = sockFile
    BY <2>1 DEF Next, Begin
  <2>3. \A d \in Commands : told[d] # NoProc => pc'[told[d]] \notin Binding
    BY <1>1, <2>2, BoundOnce DEF LaunchTypeOK, RestartInv
  <2>4. QED
    BY <1>1, <1>2, <2>2, <2>3 DEF Spawn, At, RestartInv, LaunchTypeOK
<1>3. CASE Ask(c)
  <2>1. CASE sockFile \in Listening
    <3>1. /\ at[c] = "ask" /\ at' = [at EXCEPT ![c] = "asked"]
          /\ told' = [told EXCEPT ![c] = sockFile]
          /\ UNCHANGED <<pc, sockFile, child, late>>
      BY <1>3, <2>1 DEF Ask, At, vars
    <3>2. pc[sockFile] \notin Binding /\ child[c] = NoProc
      BY <1>1, <2>1, <3>1 DEF Listening, Shutdown, Binding, RestartInv
    <3>3. QED
      BY <1>1, <3>1, <3>2 DEF RestartInv, LaunchTypeOK
  <2>2. CASE sockFile \notin Listening
    <3>1. /\ at[c] = "ask" /\ at' = [at EXCEPT ![c] = "died"]
          /\ UNCHANGED <<pc, sockFile, told, child, late>>
      BY <1>3, <2>2 DEF Ask, At, vars
    <3>2. QED
      BY <1>1, <3>1 DEF RestartInv, LaunchTypeOK
  <2>3. QED
    BY <2>1, <2>2
<1>4. CASE Answered(c)
  BY <1>1, <1>4 DEF Answered, At, RestartInv, LaunchTypeOK, vars
<1>5. CASE SeeNoFile(c)
  BY <1>1, <1>5 DEF SeeNoFile, At, RestartInv, LaunchTypeOK, vars
<1>6. CASE FileStays(c)
  BY <1>1, <1>6 DEF FileStays, At, RestartInv, LaunchTypeOK, vars
<1>7. CASE Try(c)
  <2>1. CASE sockFile \in Listening
    <3>1. /\ at[c] = "try" /\ at' = [at EXCEPT ![c] = "connected"]
          /\ told' = [told EXCEPT ![c] = sockFile]
          /\ UNCHANGED <<pc, sockFile, child, late>>
      BY <1>7, <2>1 DEF Try, At, vars
    <3>2. pc[sockFile] \notin Binding /\ Kind[c] # "restart"
      BY <1>1, <2>1, <3>1 DEF Listening, Shutdown, Binding, RestartInv
    <3>3. QED
      BY <1>1, <3>1, <3>2 DEF RestartInv, LaunchTypeOK
  <2>2. CASE sockFile \notin Listening
    <3>1. /\ at[c] = "try" /\ at' = [at EXCEPT ![c] = "spawn"]
          /\ UNCHANGED <<pc, sockFile, told, child, late>>
      BY <1>7, <2>2 DEF Try, At, vars
    <3>2. QED
      BY <1>1, <3>1 DEF RestartInv, LaunchTypeOK
  <2>3. QED
    BY <2>1, <2>2
<1>8. CASE Retry(c)
  <2>1. /\ at[c] = "retry" /\ at' = [at EXCEPT ![c] = "connected"]
        /\ told' = [told EXCEPT ![c] = sockFile]
        /\ UNCHANGED <<pc, sockFile, child, late>>
    BY <1>8 DEF Retry, At, vars
  <2>2. pc[sockFile] \notin Binding /\ Kind[c] # "restart"
    BY <1>1, <1>8, <2>1 DEF Retry, Listening, Shutdown, Binding, RestartInv
  <2>3. QED
    BY <1>1, <2>1, <2>2 DEF RestartInv, LaunchTypeOK
<1>9. CASE SeeFile(c) \/ NoFileInTime(c) \/ Unanswered(c) \/ NotUpInTime(c)
  BY <1>1, <1>9 DEF SeeFile, NoFileInTime, Unanswered, NotUpInTime, At, RestartInv,
     LaunchTypeOK, vars
<1>10. QED
  BY <1>2, <1>3, <1>4, <1>5, <1>6, <1>7, <1>8, <1>9 DEF CommandStep

\* The invariant of restarts holds in every behaviour.
THEOREM LauncherInvariant == LaunchSpec => []LInv
<1>1. LaunchInit => RestartInv
  BY DEF LaunchInit, Init, RestartInv, Entry
<1>2. LaunchTypeOK /\ RestartInv /\ [LaunchNext]_allVars => RestartInv'
  <2> SUFFICES ASSUME LaunchTypeOK, RestartInv, [LaunchNext]_allVars PROVE RestartInv'
    OBVIOUS
  <2>1. CASE \E c \in Commands : CommandStep(c)
    BY <2>1, CommandKeepsRestart DEF LInv
  <2>2. CASE UNCHANGED <<at, told, child, late>>
    <3>1. [Next]_vars /\ TypeOK
      BY DaemonsStep DEF LaunchTypeOK
    <3>2. \A c \in Commands : told[c] # NoProc =>
             pc'[told[c]] \notin Binding /\ (sockFile # told[c] => sockFile' # told[c])
      BY <3>1, BoundOnce DEF LaunchTypeOK, RestartInv
    <3>3. QED
      BY <2>2, <3>2 DEF RestartInv
  <2>3. QED
    BY <2>1, <2>2 DEF LaunchNext, ByHand, Proceed, Leave, Killed, launchVars, allVars
<1>3. LaunchInit /\ [][LaunchNext]_allVars /\ []LaunchTypeOK => []RestartInv
  BY <1>1, <1>2, PTL
<1>4. QED
  BY <1>3, LauncherTypeCorrect, PTL DEF LaunchSpec, LInv

\* The child of a restart that has seen the old file go is never refused by the
\* daemon that was told to stop: what it probes is somebody else's file.
THEOREM LauncherRestartNotRefused == LaunchSpec => RestartNotRefused
<1>1. LInv /\ [LaunchNext]_allVars =>
        [\A c \in Commands :
           /\ Kind[c] = "restart" /\ ~late[c] /\ child[c] # NoProc
           /\ pc[child[c]] = "probe" /\ pc'[child[c]] = "refused"
           => sockFile # told[c]]_allVars
  BY DEF LInv, RestartInv
<1>2. QED
  BY <1>1, LauncherInvariant, PTL DEF LaunchSpec, RestartNotRefused
=============================================================================
