---------------------------- MODULE PortalSession ----------------------------
(***************************************************************************)
(* PortalSession (pywaylandauto/backends/portal.py): the state machine     *)
(* that opens a RemoteDesktop session and chooses its transport.  Each     *)
(* operator below is one method; a method is one step, because the daemon  *)
(* is single threaded and its D-Bus calls block.  Callbacks recognise      *)
(* neither the session nor the start() call they belong to.                *)
(***************************************************************************)
EXTENDS Portal

CONSTANTS
    Fds,        \* descriptor numbers an EIS connection can get
    NoFd,       \* no EIS client
    Transport,  \* PortalSession(transport=...): "notify", or "default" (None)
    MaxFlows    \* bound on the number of flows start() begins

ASSUME SessionAssumption ==
    /\ NoFd \notin Fds
    /\ Transport \in {"notify", "default"}
    /\ MaxFlows \in Nat

VARIABLES
    ps,         \* the fields of the PortalSession object
    cached,     \* does the token file hold a token?
    flows       \* how many flows start() has begun

sessionVars == <<ps, cached, flows>>

Errors == {"none", "PermissionDenied", "Cancelled", "PortalFailed",
           "PortalUnavailable", "SessionNotStarted"}

Ps == [state : {"init", "starting", "started", "stopped"},
       lastError : Errors,
       path : PathOrNone,
       devices : BOOLEAN,                       \* devices non-empty?
       transport : {"none", "eis", "notify"},
       eisFd : Fds \cup {NoFd},                 \* eis_client
       eisPath : PathOrNone,                    \* the session it belongs to
       eisReady : BOOLEAN,                      \* its handshake completed
       hasToken : BOOLEAN,
       retried : BOOLEAN]

SessionTypeOK ==
    /\ ps \in Ps
    /\ cached \in BOOLEAN
    /\ flows \in Nat

\* The fields __init__ and start() set, every one of them.
Blank(state) ==
    [state |-> state, lastError |-> "none", path |-> NoSession,
     devices |-> FALSE, transport |-> "none", eisFd |-> NoFd,
     eisPath |-> NoSession, eisReady |-> FALSE, hasToken |-> cached,
     retried |-> FALSE]

SessionInit ==
    /\ cached \in BOOLEAN
    /\ flows = 0
    /\ ps = Blank("init")

-----------------------------------------------------------------------------
(* The outcome of a blocking D-Bus call: accepted, or a DBusException of   *)
(* one of these names.  "TypeError" stands for what dbus-python raises     *)
(* when None is passed as a session handle.                                *)

DBusErrors == {"NotAllowed", "AccessDenied", "Cancelled", "Failed",
               "ServiceUnknown", "NoReply"}

\* Bug variant: the D-Bus name is kept instead of a typed error.
MapDBusErrorRaw == [e \in DBusErrors |-> e]

MapDBusError == [e \in DBusErrors |->
    CASE e \in {"NotAllowed", "AccessDenied"} -> "PermissionDenied"
      [] e = "Cancelled"      -> "Cancelled"
      [] e = "ServiceUnknown" -> "PortalUnavailable"
      [] OTHER                -> "PortalFailed"]

\* The outcomes a call on session s can have: on a session that is gone, or
\* in the wrong state, the portal fails it.
CallOutcomes(accepts) == DBusErrors \cup (IF accepts THEN {"accepted"} ELSE {})

\* The requests outstanding after a call: a call that timed out on the bus
\* may still have reached the portal.
Outstanding(r, q) ==
    requests \cup (IF r = "accepted" \/ (r = "NoReply" /\ "reply" \in Stale)
                   THEN {q} ELSE {})

Fail(p, e) == [p EXCEPT !.state = "stopped", !.lastError = e,
                        !.path = NoSession, !.devices = FALSE]

-----------------------------------------------------------------------------
\* The object start() works on: everything is reset and the token file read.
FreshFlow == Blank("starting")

\* Bug variant: start() forgets that a flow may be pending or the session up.
StartFlowAgain ==
    /\ flows < MaxFlows
    /\ flows' = flows + 1
    /\ ps' = FreshFlow
    /\ requests' = Outstanding("accepted", [kind |-> "create", flow |-> flows + 1,
                                            path |-> NoSession])
    /\ UNCHANGED <<cached, portal, eisMode, signals, listening>>

\* start() in state init or stopped; in the others it returns at once.
StartFlow ==
    /\ ps.state \notin {"starting", "started"}
    /\ flows < MaxFlows
    /\ flows' = flows + 1
    /\ \E r \in CallOutcomes(TRUE) :
         /\ ps' = IF r = "accepted" THEN FreshFlow
                  ELSE Fail(FreshFlow, MapDBusError[r])
         /\ requests' = Outstanding(r, [kind |-> "create", flow |-> flows + 1,
                                        path |-> NoSession])
    /\ UNCHANGED <<cached, portal, eisMode, signals, listening>>

\* stop(), which the daemon calls once its main loop has ended.  Closing the
\* EIS client can raise (EisError is no OSError), and then nothing else happens.
StopSession ==
    /\ \/ /\ ps' = [ps EXCEPT !.state = "stopped", !.path = NoSession,
                              !.devices = FALSE, !.eisFd = NoFd,
                              !.eisPath = NoSession, !.eisReady = FALSE]
          /\ portal' = IF Live(ps.path)
                       THEN [portal EXCEPT ![ps.path] = "closed"] ELSE portal
       \/ ps.eisFd # NoFd /\ UNCHANGED <<ps, portal>>
    /\ UNCHANGED <<cached, flows, eisMode, requests, signals, listening>>

\* Bug variant: a DBusException of SelectDevices is logged and forgotten.
SelectDevicesNoFail(p, m) ==
    /\ \E r \in CallOutcomes(Live(p.path)) :
         requests' = Outstanding(r, [kind |-> "select", flow |-> m.flow,
                                     path |-> p.path])
    /\ ps' = p
    /\ UNCHANGED cached

\* _select_devices(use_token), with the retry it makes without a token: p is
\* the object it works on, m the response being handled.
SelectDevices(p, m) ==
    LET q == [kind |-> "select", flow |-> m.flow, path |-> p.path]
        Call(p1, r) ==
            /\ ps' = IF r = "accepted" THEN p1 ELSE Fail(p1, MapDBusError[r])
            /\ requests' = Outstanding(r, q)
    IN  \E r \in CallOutcomes(Live(p.path)) :
          IF r = "NotAllowed" /\ p.hasToken /\ ~p.retried
          THEN \/ /\ cached' = FALSE
                  /\ \E r2 \in CallOutcomes(Live(p.path)) :
                       Call([p EXCEPT !.hasToken = FALSE, !.retried = TRUE], r2)
               \/ /\ ps' = Fail(p, "PortalFailed")       \* unlink() failed
                  /\ UNCHANGED <<cached, requests>>
          ELSE Call(p, r) /\ UNCHANGED cached

OnCreateSession(m) ==
    /\ m.kind = "create"
    /\ \/ /\ m.code # 0
          /\ ps' = Fail(ps, "PortalFailed")
          /\ UNCHANGED <<requests, listening, cached>>
       \/ /\ m.code = 0
          /\ listening' = listening \cup {m.path}
          /\ SelectDevices([ps EXCEPT !.path = m.path], m)
    /\ UNCHANGED <<flows, portal, eisMode>>

\* The Start call goes to whatever session the object holds now; None makes
\* it raise, which the callback turns into a failure.
OnSelectDevices(m) ==
    /\ m.kind = "select"
    /\ \/ /\ m.code # 0 \/ ps.path = NoSession
          /\ ps' = Fail(ps, "PortalFailed")
          /\ UNCHANGED requests
       \/ /\ m.code = 0 /\ ps.path # NoSession
          /\ \E r \in CallOutcomes(portal[ps.path] = "open") :
               /\ ps' = IF r = "accepted" THEN ps
                        ELSE Fail(ps, MapDBusError[r])
               /\ requests' = Outstanding(r, [kind |-> "start", flow |-> m.flow,
                                              path |-> ps.path])
    /\ UNCHANGED <<flows, cached, portal, eisMode, listening>>

-----------------------------------------------------------------------------
(* _choose_transport, on the object p that _on_start has just started.     *)

\* Bug variant: a failed probe is only logged.
ProbeNotifyNoFail(p) ==
    /\ \/ /\ Granted(p.path) /\ p.path \notin eisMode
          /\ ps' = [p EXCEPT !.transport = "notify"]
       \/ ps' = p
    /\ UNCHANGED eisMode

\* _probe_notify: a zero motion; a failed probe fails the session.
ProbeNotify(p) ==
    /\ \/ /\ Granted(p.path) /\ p.path \notin eisMode
          /\ ps' = [p EXCEPT !.transport = "notify"]
       \/ ps' = Fail(p, "PortalFailed")
    /\ UNCHANGED eisMode

\* Bug variant: a failed handshake falls back to Notify*.
ConnectEisFallback(p) ==
    /\ Granted(p.path)
    /\ eisMode' = eisMode \cup {p.path}
    /\ \E fd \in Fds \ {p.eisFd}, ok \in BOOLEAN :
         ps' = [p EXCEPT !.eisFd = fd, !.eisPath = p.path, !.eisReady = ok,
                         !.transport = IF ok THEN "eis" ELSE "notify"]

\* ConnectToEIS succeeded and the handshake completed, or failed: then the
\* EisClient object stays behind and the session is not closed.
ConnectEis(p) ==
    /\ Granted(p.path)
    /\ eisMode' = eisMode \cup {p.path}
    /\ \E fd \in Fds \ {p.eisFd}, ok \in BOOLEAN :
         LET p1 == [p EXCEPT !.eisFd = fd, !.eisPath = p.path, !.eisReady = ok]
         IN  ps' = IF ok THEN [p1 EXCEPT !.transport = "eis"]
                   ELSE Fail(p1, "PortalFailed")

\* With no session (None) every D-Bus call raises, and the session fails too.
ChooseTransport(p) ==
    \/ ProbeNotify(p)                    \* opted out, or ConnectToEIS failed
    \/ Transport # "notify" /\ ConnectEis(p)

\* Bug variant: has_token is set before the token is saved.
OnStartFlagFirst(m) ==
    /\ m.kind = "start"
    /\ \/ /\ m.code = 0
          /\ cached' = (cached \/ m.token)
          /\ ChooseTransport([ps EXCEPT !.state = "started", !.devices = TRUE,
                                        !.hasToken = @ \/ m.token])
       \/ /\ m.code # 0 \/ m.token
          /\ ps' = [Fail(ps, "PortalFailed") EXCEPT !.hasToken = @ \/ m.token]
          /\ UNCHANGED <<cached, eisMode>>
    /\ UNCHANGED <<flows, portal, requests, listening>>

\* A token that comes with the answer is saved first; if that fails, so does
\* the session the user has just granted.
OnStart(m) ==
    /\ m.kind = "start"
    /\ \/ /\ m.code = 0
          /\ cached' = (cached \/ m.token)
          /\ ChooseTransport([ps EXCEPT !.state = "started", !.devices = TRUE,
                                        !.hasToken = @ \/ m.token])
       \/ /\ \/ m.code = 0 /\ m.token /\ ps' = Fail(ps, "PortalFailed")
             \/ m.code = 1 /\ ps' = Fail(ps, "PermissionDenied")
             \/ m.code = 2 /\ ps' = Fail(ps, "PortalFailed")
          /\ UNCHANGED <<cached, eisMode>>
    /\ UNCHANGED <<flows, portal, requests, listening>>

\* Bug variant: Closed is only expected while the dialog is up.
OnClosedStarting(m) ==
    /\ m.kind = "closed"
    /\ ps' = IF ps.state # "starting" THEN ps
             ELSE Fail(ps, "SessionNotStarted")
    /\ UNCHANGED <<flows, cached, portal, eisMode, requests, listening>>

\* _on_closed does not look at which session was closed.
OnClosed(m) ==
    /\ m.kind = "closed"
    /\ ps' = IF ps.state = "stopped" THEN ps
             ELSE [ps EXCEPT !.state = "stopped", !.path = NoSession,
                             !.devices = FALSE,
                             !.lastError = IF @ = "none"
                                           THEN "SessionNotStarted" ELSE @]
    /\ UNCHANGED <<flows, cached, portal, eisMode, requests, listening>>

\* The main loop dispatches the oldest signal.
DispatchSignal ==
    /\ signals # <<>>
    /\ signals' = Tail(signals)
    /\ LET m == Head(signals)
       IN  OnCreateSession(m) \/ OnSelectDevices(m) \/ OnStart(m) \/ OnClosed(m)
=============================================================================
