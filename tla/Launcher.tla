------------------------------ MODULE Launcher ------------------------------
(***************************************************************************)
(* The commands that start, stop and restart the daemon (cli.py) and a     *)
(* library client that connects and spawns one if none answers (client.py),*)
(* over the daemon processes of DaemonSocket.  The commands look at the    *)
(* socket file, or talk to the daemon behind it; the daemons know nothing  *)
(* of them.                                                                *)
(***************************************************************************)
EXTENDS DaemonSocket

CONSTANTS
    Commands,  \* commands and clients
    Kind,      \* for each of them: "start", "stop", "restart" or "connect"
    MaxKills   \* bound on the daemons killed

ASSUME CommandAssumption ==
    /\ Kind \in [Commands -> {"start", "stop", "restart", "connect"}]
    /\ MaxKills \in Nat

VARIABLES
    at,       \* where each command is
    told,     \* the daemon it has a connection to, or NoProc
    child,    \* the daemon it has spawned, or NoProc
    late,     \* has its restart given up waiting for the file to go?
    leaving,  \* daemons that have answered daemon.stop
    kills,    \* number of daemons killed so far
    calm      \* ghost: a start was made since a daemon was last killed or told
              \* to go, and after the one told to go had removed its file

launchVars == <<at, told, child, late, leaving, kills, calm>>
allVars == <<vars, launchVars>>

Entry(k) ==
    CASE k = "start" -> "spawn" [] k = "connect" -> "try" [] OTHER -> "ask"

Final == {"started", "stopped", "connected", "died"}

LaunchInit ==
    /\ Init
    /\ at = [c \in Commands |-> Entry(Kind[c])]
    /\ told = [c \in Commands |-> NoProc]
    /\ child = [c \in Commands |-> NoProc]
    /\ late = [c \in Commands |-> FALSE]
    /\ leaving = {}
    /\ kills = 0
    /\ calm = FALSE

At(c, from, to) == at[c] = from /\ at' = [at EXCEPT ![c] = to]

\* Does a daemon that is on its way out still have its file?
Departing ==
    \E p \in Procs : pc[p] \in {"closing", "rmsock"} \/ (p \in leaving /\ pc[p] = "serving")

\* A daemon process is started; which one is all the same.
Start(p) ==
    /\ Begin(p)
    /\ p = CHOOSE q \in Procs : pc[q] = "off"
    /\ calm' = (calm \/ ~Departing)

-----------------------------------------------------------------------------
(* cmd_daemon_start                                                        *)

\* The child is detached; what becomes of it is not looked at.
Spawn(c) ==
    /\ At(c, "spawn", IF Kind[c] = "connect" THEN "retry" ELSE "waitup")
    /\ \E p \in Procs : Start(p) /\ child' = [child EXCEPT ![c] = p]
    /\ UNCHANGED <<told, late, leaving, kills>>

\* The file that is there may be anybody's.
SeeFile(c) ==
    /\ At(c, "waitup", "started")
    /\ sockFile # NoProc
    /\ UNCHANGED <<vars, told, child, late, leaving, kills, calm>>

NoFileInTime(c) ==
    /\ At(c, "waitup", "died")
    /\ UNCHANGED <<vars, told, child, late, leaving, kills, calm>>

-----------------------------------------------------------------------------
(* cmd_daemon_stop, cmd_daemon_restart                                     *)

\* auto_spawn is off: no daemon, no start.
Ask(c) ==
    /\ IF sockFile \in Listening
       THEN At(c, "ask", "asked") /\ told' = [told EXCEPT ![c] = sockFile]
       ELSE At(c, "ask", "died") /\ UNCHANGED told
    /\ UNCHANGED <<vars, child, late, leaving, kills, calm>>

\* The daemon answers daemon.stop, and ends its loop 50 ms later.
Answered(c) ==
    /\ At(c, "asked", IF Kind[c] = "restart" THEN "waitdown" ELSE "stopped")
    /\ pc[told[c]] = "serving"
    /\ leaving' = leaving \cup {told[c]}
    /\ calm' = FALSE
    /\ UNCHANGED <<vars, told, child, late, kills>>

\* The connection is reset; or 30 s have passed at a daemon that is stuck or
\* busy, which drops the connection when it sees the hang-up, or has just
\* handled the request.
Unanswered(c) ==
    /\ At(c, "asked", "died")
    /\ told' = [told EXCEPT ![c] = NoProc]
    /\ \/ UNCHANGED <<leaving, calm>>
       \/ /\ pc[told[c]] = "serving"
          /\ leaving' = leaving \cup {told[c]}
          /\ calm' = FALSE
    /\ UNCHANGED <<vars, child, late, kills>>

\* Bug variant: restart does not wait.
SeeNoFileEver(c) ==
    /\ At(c, "waitdown", "spawn")
    /\ UNCHANGED <<vars, told, child, late, leaving, kills, calm>>

SeeNoFile(c) ==
    /\ At(c, "waitdown", "spawn")
    /\ sockFile = NoProc
    /\ UNCHANGED <<vars, told, child, late, leaving, kills, calm>>

\* After 3 s restart goes on all the same.
FileStays(c) ==
    /\ At(c, "waitdown", "spawn")
    /\ late' = [late EXCEPT ![c] = TRUE]
    /\ UNCHANGED <<vars, told, child, leaving, kills, calm>>

-----------------------------------------------------------------------------
(* Client.connect                                                          *)

Try(c) ==
    /\ IF sockFile \in Listening
       THEN At(c, "try", "connected") /\ told' = [told EXCEPT ![c] = sockFile]
       ELSE At(c, "try", "spawn") /\ UNCHANGED told
    /\ UNCHANGED <<vars, child, late, leaving, kills, calm>>

\* Bug variant: the retry does not keep the socket it has connected.
RetryUnkept(c) ==
    /\ At(c, "retry", "connected")
    /\ sockFile \in Listening
    /\ UNCHANGED <<vars, told, child, late, leaving, kills, calm>>

Retry(c) ==
    /\ At(c, "retry", "connected")
    /\ sockFile \in Listening
    /\ told' = [told EXCEPT ![c] = sockFile]
    /\ UNCHANGED <<vars, child, late, leaving, kills, calm>>

\* 2 s have passed at an attempt that was refused.
NotUpInTime(c) ==
    /\ At(c, "retry", "died")
    /\ sockFile \notin Listening
    /\ UNCHANGED <<vars, told, child, late, leaving, kills, calm>>

-----------------------------------------------------------------------------
(* The daemons.                                                            *)

\* Somebody runs "daemon start --foreground".
ByHand(p) == Start(p) /\ UNCHANGED <<at, told, child, late, leaving, kills>>

\* On its own feet: a start goes on, a cleanup goes on.
Proceed(p) == Step(p) /\ UNCHANGED launchVars

\* _quit_soon
Leave(p) == p \in leaving /\ Quit(p) /\ UNCHANGED launchVars

\* A process is killed.  (SIGTERM ends the loop just as daemon.stop does.)
Killed(p) ==
    /\ kills < MaxKills /\ kills' = kills + 1
    /\ Crash(p)
    /\ calm' = FALSE
    /\ UNCHANGED <<at, told, child, late, leaving>>

CommandStep(c) ==
    \/ Spawn(c) \/ SeeFile(c) \/ NoFileInTime(c)
    \/ Ask(c) \/ Answered(c) \/ Unanswered(c) \/ SeeNoFile(c) \/ FileStays(c)
    \/ Try(c) \/ Retry(c) \/ NotUpInTime(c)

LaunchNext ==
    \/ \E c \in Commands : CommandStep(c)
    \/ \E p \in Procs : ByHand(p) \/ Proceed(p) \/ Leave(p) \/ Killed(p)

LaunchSpec ==
    /\ LaunchInit /\ [][LaunchNext]_allVars
    /\ \A p \in Procs : WF_allVars(Proceed(p)) /\ WF_allVars(Leave(p))

-----------------------------------------------------------------------------
(* Properties.                                                             *)

\* Type invariant of the commands; a command that has got somewhere knows the
\* daemon it owes that to.
LaunchTypeOK ==
    /\ TypeOK
    /\ at \in [Commands -> Final \cup
                 {"spawn", "waitup", "ask", "asked", "waitdown", "try", "retry"}]
    /\ told \in [Commands -> Procs \cup {NoProc}]
    /\ child \in [Commands -> Procs \cup {NoProc}]
    /\ late \in [Commands -> BOOLEAN]
    /\ leaving \subseteq Procs
    /\ kills \in 0 .. MaxKills
    /\ calm \in BOOLEAN
    /\ \A c \in Commands :
         /\ at[c] \in {"asked", "waitdown", "stopped", "connected"} => told[c] # NoProc
         /\ at[c] \in {"waitup", "started", "retry"} => child[c] # NoProc

\* Whatever starts meet each other (cli.py:42, client.py:38: every client that
\* finds nobody spawns a daemon), and whatever files a killed daemon has left:
\* once nobody is killed or sent away any more, a daemon serves at the path for
\* good.  The probes may well take each other's files away on the way there.
Settles ==
    <>[]calm => <>[](\E p \in Procs : pc[p] = "serving" /\ sockFile = p)

\* A restart that has seen the old file go (cli.py:100) is not turned away by
\* the daemon it has stopped.
RestartNotRefused ==
    [][\A c \in Commands :
         /\ Kind[c] = "restart" /\ ~late[c] /\ child[c] # NoProc
         /\ pc[child[c]] = "probe" /\ pc'[child[c]] = "refused"
         => sockFile # told[c]]_allVars
=============================================================================
