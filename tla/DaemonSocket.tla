---------------------------- MODULE DaemonSocket ----------------------------
(***************************************************************************)
(* How daemon processes compete for the well-known socket and pid files    *)
(* (Daemon.run, _bind, _probe_live, _write_pid and _cleanup of daemon.py). *)
(* Every system call that touches a file others touch is a step of its     *)
(* own.  Any number of processes may be started: by hand, or by clients    *)
(* that find no daemon and spawn one (Client.connect).                     *)
(***************************************************************************)
EXTENDS Naturals, FiniteSets

CONSTANTS
    Procs,           \* daemon processes that are ever started
    NoProc,          \* the file does not exist
    StartupsOverlap, \* may a process start or stop while another does?
    BacklogFull      \* may a live daemon's listen(8) backlog be full?

ASSUME SocketAssumption ==
    /\ NoProc \notin Procs
    /\ StartupsOverlap \in BOOLEAN
    /\ BacklogFull \in BOOLEAN

VARIABLES
    pc,        \* where each process is
    sockFile,  \* the process whose socket the socket path names, or NoProc
    pidFile    \* the process named in the pid file, or NoProc

vars == <<pc, sockFile, pidFile>>

Startup == {"bind", "probe", "unlink", "rebind", "listen", "chmod", "writepid"}
Shutdown == {"closing", "rmsock", "rmpid"}

TypeOK ==
    /\ pc \in [Procs -> Startup \cup Shutdown \cup
                        {"off", "serving", "refused", "failed", "exited", "gone"}]
    /\ sockFile \in Procs \cup {NoProc}
    /\ pidFile \in Procs \cup {NoProc}

Init ==
    /\ pc = [p \in Procs |-> "off"]
    /\ sockFile = NoProc
    /\ pidFile = NoProc

\* A connect() succeeds from listen() until the process is gone: the server
\* socket is never closed before that.
Listening == {p \in Procs : pc[p] \in {"chmod", "writepid", "serving"} \cup Shutdown}

Alive == {p \in Procs : pc[p] \in Startup \cup Shutdown \cup {"serving"}}

Goto(p, from, to) == pc[p] = from /\ pc' = [pc EXCEPT ![p] = to]

\* Nobody else starts or stops right now, or that does not matter.
Undisturbed == StartupsOverlap \/ \A q \in Procs : pc[q] \notin Startup \cup Shutdown

Begin(p) ==
    /\ Undisturbed
    /\ Goto(p, "off", "bind")
    /\ UNCHANGED <<sockFile, pidFile>>

-----------------------------------------------------------------------------
(* _bind *)

Bind(p) ==
    /\ IF sockFile = NoProc
       THEN Goto(p, "bind", "listen") /\ sockFile' = p
       ELSE Goto(p, "bind", "probe") /\ UNCHANGED sockFile
    /\ UNCHANGED pidFile

\* Bug variant: any socket file is taken for a live daemon.
ProbeAnyFile(p) ==
    /\ IF sockFile # NoProc THEN Goto(p, "probe", "refused")
       ELSE Goto(p, "probe", "unlink")
    /\ UNCHANGED <<sockFile, pidFile>>

\* Bug variant: a bound socket is never probed, only replaced.
ProbeNobody(p) == Goto(p, "probe", "unlink") /\ UNCHANGED <<sockFile, pidFile>>

\* _probe_live: does anybody accept at the path?  A connect that would block
\* on a full backlog raises like one that is refused.
Probe(p) ==
    /\ \/ sockFile \in Listening /\ Goto(p, "probe", "refused")
       \/ (sockFile \notin Listening \/ BacklogFull) /\ Goto(p, "probe", "unlink")
    /\ UNCHANGED <<sockFile, pidFile>>

\* Bug variant: a stale file is left in place.
UnlinkStaleSkipped(p) ==
    Goto(p, "unlink", "rebind") /\ UNCHANGED <<sockFile, pidFile>>

\* os.unlink raises when somebody else has removed the file.
UnlinkStale(p) ==
    /\ IF sockFile = NoProc
       THEN Goto(p, "unlink", "failed") /\ UNCHANGED sockFile
       ELSE Goto(p, "unlink", "rebind") /\ sockFile' = NoProc
    /\ UNCHANGED pidFile

\* The second bind is not guarded.
Rebind(p) ==
    /\ IF sockFile = NoProc
       THEN Goto(p, "rebind", "listen") /\ sockFile' = p
       ELSE Goto(p, "rebind", "failed") /\ UNCHANGED sockFile
    /\ UNCHANGED pidFile

Listen(p) == Goto(p, "listen", "chmod") /\ UNCHANGED <<sockFile, pidFile>>

Chmod(p) ==
    /\ Goto(p, "chmod", IF sockFile = NoProc THEN "failed" ELSE "writepid")
    /\ UNCHANGED <<sockFile, pidFile>>

-----------------------------------------------------------------------------
\* A pid file that cannot be written is only logged.
WritePid(p) ==
    /\ Goto(p, "writepid", "serving")
    /\ pidFile' \in {p, pidFile}
    /\ UNCHANGED sockFile

\* The main loop ends; _cleanup begins with portal.stop(), which may raise.
Quit(p) ==
    /\ Undisturbed
    /\ Goto(p, "serving", "closing")
    /\ UNCHANGED <<sockFile, pidFile>>

StopPortal(p) ==
    /\ Goto(p, "closing", "rmsock") \/ Goto(p, "closing", "gone")
    /\ UNCHANGED <<sockFile, pidFile>>

\* The paths are removed whoever they belong to by now.
RemoveSocket(p) ==
    Goto(p, "rmsock", "rmpid") /\ sockFile' = NoProc /\ UNCHANGED pidFile

\* Bug variant: the pid file outlives the daemon.
KeepPid(p) == Goto(p, "rmpid", "exited") /\ UNCHANGED <<sockFile, pidFile>>

RemovePid(p) ==
    Goto(p, "rmpid", "exited") /\ pidFile' = NoProc /\ UNCHANGED sockFile

\* Killed: the kernel closes the socket, the files stay.
Crash(p) ==
    /\ p \in Alive
    /\ pc' = [pc EXCEPT ![p] = "gone"]
    /\ UNCHANGED <<sockFile, pidFile>>

Step(p) ==
    \/ Bind(p) \/ Probe(p) \/ UnlinkStale(p) \/ Rebind(p) \/ Listen(p)
    \/ Chmod(p) \/ WritePid(p)
    \/ StopPortal(p) \/ RemoveSocket(p) \/ RemovePid(p)

Next == \E p \in Procs : Begin(p) \/ Step(p) \/ Quit(p) \/ Crash(p)

Spec == Init /\ [][Next]_vars

\* Once begun, a process runs: its start and its cleanup never wait.
FairSpec == Spec /\ \A p \in Procs : WF_vars(Step(p))

-----------------------------------------------------------------------------
(* Properties.                                                             *)

\* AlreadyRunningError (daemon.py:42-43) exists so that one daemon owns the
\* socket: no two processes serve at a time.
SingleServer == \A p, q \in Procs : pc[p] = "serving" /\ pc[q] = "serving" => p = q

\* The path leads to the process that serves: a daemon nobody can reach any
\* more would hold its portal session for ever.
ServerReachable == \A p \in Procs : pc[p] = "serving" => sockFile = p

\* "daemon status" prints what the pid file names.  If that process is alive it
\* is the one behind the socket; and it never is one that has stopped cleanly.
PidNamesOwner ==
    pidFile # NoProc =>
        /\ pidFile \in Alive /\ sockFile # NoProc => pidFile = sockFile
        /\ pc[pidFile] # "exited"

\* A process that starts ends up serving, or refused, or was killed: a stale
\* socket file never keeps the daemon down.
StartDecided ==
    \A p \in Procs :
        pc[p] = "bind" ~> pc[p] \in {"serving", "refused", "gone"}
=============================================================================
