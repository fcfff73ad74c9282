------------------------------- MODULE Daemon -------------------------------
(***************************************************************************)
(* The daemon (pywaylandauto/daemon.py): a GLib main loop that dispatches  *)
(* the requests of its clients, the D-Bus signals of the portal session it *)
(* owns, and the descriptor of that session's EIS connection.  One         *)
(* callback runs at a time and to its end, so each is one action.          *)
(***************************************************************************)
EXTENDS PortalSession

CONSTANT AutoStart   \* auto_start_session: run() starts a session at once

ASSUME DaemonAssumption == AutoStart \in BOOLEAN

VARIABLES
    running,     \* is the main loop running?
    eisWatched,  \* _eis_watched: a watch has been added (never reset)
    watchFd,     \* the descriptor number GLib polls for EIS, or NoFd
    unread,      \* has the EIS connection in use unread events?
    asker        \* ghost: what began the latest flow, a person or an input

daemonVars == <<running, eisWatched, watchFd, unread, asker>>
vars == <<portalVars, sessionVars, daemonVars>>

TypeOK ==
    /\ PortalTypeOK
    /\ SessionTypeOK
    /\ running \in BOOLEAN
    /\ eisWatched \in BOOLEAN
    /\ watchFd \in Fds \cup {NoFd}
    /\ unread \in BOOLEAN
    /\ asker \in {"person", "input"}

Init ==
    /\ PortalInit
    /\ SessionInit
    /\ running = TRUE
    /\ eisWatched = FALSE
    /\ watchFd = NoFd
    /\ unread = FALSE
    /\ asker = "person"

\* With auto_start_session, run() starts a session before the loop serves
\* anybody.
Booting == AutoStart /\ flows = 0
Serving == running /\ ~Booting

\* Unless stale Closed signals are possible, one in flight is dispatched before
\* the next request that would begin a flow.
Settled == "closed" \in Stale \/ \A i \in DOMAIN signals : signals[i].kind # "closed"

\* start() drops the old EIS client: what was unread goes with it.
BeginFlow(by) ==
    /\ StartFlow
    /\ asker' = by
    /\ unread' = FALSE
    /\ UNCHANGED running

Boot ==
    /\ running /\ Booting
    /\ BeginFlow("person")
    /\ UNCHANGED <<eisWatched, watchFd>>

-----------------------------------------------------------------------------
(* Requests of clients.                                                    *)

\* _maybe_watch_eis: only the first EIS client ever gets a watch.
MaybeWatchEis ==
    LET add == ps.eisFd # NoFd /\ ~eisWatched
    IN  /\ eisWatched' = (eisWatched \/ add)
        /\ watchFd' = IF add THEN ps.eisFd ELSE watchFd

\* session.start: starts a flow unless one is pending or the session is up.
SessionStart ==
    /\ Serving
    /\ \/ /\ Settled
          /\ BeginFlow("person")
       \/ /\ ps.state \in {"starting", "started"}
          /\ UNCHANGED <<portalVars, sessionVars, running, unread, asker>>
    /\ UNCHANGED <<eisWatched, watchFd>>

Status ==
    /\ Serving
    /\ MaybeWatchEis
    /\ UNCHANGED <<portalVars, sessionVars, running, unread, asker>>

\* An input.* request answered at once: injected, or permission_pending while
\* a dialog is up, or permission_denied after the user refused.
InputServed ==
    /\ Serving
    /\ \/ ps.state \in {"started", "starting"}
       \/ ps.state \in {"init", "stopped"} /\ ps.lastError = "PermissionDenied"
    /\ MaybeWatchEis
    /\ UNCHANGED <<portalVars, sessionVars, running, unread, asker>>

\* Bug variant: a refusal is not remembered.
InputStartsAfterRefusal ==
    /\ Serving
    /\ Settled
    /\ ps.state \in {"init", "stopped"}
    /\ MaybeWatchEis
    /\ BeginFlow("input")

\* An input.* request that finds no session: it begins a flow and is told
\* permission_pending.
InputStarts ==
    /\ Serving
    /\ Settled
    /\ ps.state \in {"init", "stopped"}
    /\ ps.lastError # "PermissionDenied"
    /\ MaybeWatchEis
    /\ BeginFlow("input")

-----------------------------------------------------------------------------
(* The other sources of the main loop.                                     *)

\* A Response can replace the EIS client; a fresh connection has sent nothing
\* yet that its handshake has not read.
OnSignal ==
    /\ running
    /\ DispatchSignal
    /\ unread' = (unread /\ ps'.eisFd = ps.eisFd)
    /\ UNCHANGED <<running, eisWatched, watchFd, asker>>

\* The EIS server sends an event (ping, modifiers, a new keymap).
EisSends ==
    /\ running
    /\ ps.eisFd # NoFd /\ ps.eisReady /\ Granted(ps.eisPath)
    /\ unread' = TRUE
    /\ UNCHANGED <<portalVars, sessionVars, running, eisWatched, watchFd, asker>>

\* _on_eis_ready: the polled number is readable.  It may belong to another
\* file by now; the client in use is pumped whatever its descriptor, and
\* without a client the watch removes itself.
OnEisReady ==
    /\ running
    /\ watchFd # NoFd
    /\ IF ps.eisFd = NoFd
       THEN watchFd' = NoFd /\ UNCHANGED unread
       ELSE unread' = FALSE /\ UNCHANGED watchFd
    /\ UNCHANGED <<portalVars, sessionVars, running, eisWatched, asker>>

\* daemon.stop or a signal: the loop quits and _cleanup stops the session.
Stop ==
    /\ Serving
    /\ running' = FALSE
    /\ StopSession
    /\ UNCHANGED <<eisWatched, watchFd, unread, asker>>

\* The portal.  Unless stale Closed signals are possible, it ends only the
\* session in use.
PortalStep ==
    /\ running
    /\ \/ \E q \in requests : AnswerCreate(q) \/ AnswerSelect(q) \/ AnswerStart(q)
       \/ \E s \in Sessions : ("closed" \in Stale \/ ps.path = s) /\ EndSession(s)
    /\ UNCHANGED <<sessionVars, daemonVars>>

Next ==
    \/ Boot
    \/ SessionStart \/ Status \/ InputServed \/ InputStarts
    \/ OnSignal \/ EisSends \/ OnEisReady
    \/ Stop
    \/ PortalStep

\* Assumed of the main loop: it dispatches a queued signal, and polls the
\* descriptors it watches; of the portal and the user: every request is
\* answered; of the clients: somebody asks for the status again and again.
Answer == PortalStep /\ requests' # requests

PolledEis == OnEisReady /\ ps.eisFd = watchFd

Fairness ==
    /\ WF_vars(OnSignal)
    /\ WF_vars(Boot)
    /\ WF_vars(Answer)
    /\ WF_vars(PolledEis)
    /\ WF_vars(Status)

Spec == Init /\ [][Next]_vars
FairSpec == Spec /\ Fairness
=============================================================================
