-------------------------- MODULE DaemonProperties --------------------------
(***************************************************************************)
(* Correctness properties of the daemon and its portal session.            *)
(***************************************************************************)
EXTENDS Daemon

-----------------------------------------------------------------------------
(* Whatever the portal does, stale signals included.                       *)

\* _session() asserts that a started session has a path (portal.py:409), and
\* move_abs and the others call eis_client when the transport is "eis".  No
\* order of callbacks, however late, leaves "started" without the things
\* these calls dereference.
StartedUsable ==
    ps.state = "started" =>
        /\ ps.path # NoSession
        /\ ps.transport # "none"
        /\ ps.transport = "eis" => ps.eisFd # NoFd /\ ps.eisReady

\* While the session says "starting" something is still to come that will
\* move it: a request the portal has to answer, or a signal in the queue.
\* Otherwise every input would be told permission_pending for ever, since
\* start() does nothing in this state.  It rests on every callback turning
\* every error into _fail (design decision D6).
NeverWedged ==
    ps.state = "starting" /\ running => requests # {} \/ signals # <<>>

\* The has_token a status reply shows is whether the token file holds a
\* token: saving and revoking keep the flag and the file together, also when
\* callbacks of two flows interleave or a save or an unlink fails.
HasTokenTruthful == ps.hasToken = cached

\* When the portal and the user answer, no flow stays "starting" for ever.
StartingEnds == ps.state = "starting" /\ running ~> ps.state # "starting" \/ ~running

-----------------------------------------------------------------------------
(* When no signal arrives that concerns a session the daemon has given up. *)

Gate ==
    CASE ps.state = "starting" -> "asking"
      [] ps.state = "started"  -> "open"
      [] OTHER -> IF ps.lastError = "PermissionDenied" THEN "refused" ELSE "idle"

Consent == INSTANCE ConsentGate WITH gate <- Gate

\* The daemon implements ConsentGate: the dialog is never raised again by an
\* input after a refusal, a session opens only by the answer to its own
\* question, and a question is never put while another is pending.
ImplementsConsentGate == Consent!GateSpec

Responses == {i \in DOMAIN signals : signals[i].kind # "closed"}

\* One flow at a time: what is outstanding at the portal or in the queue
\* belongs to the flow begun last, there is at most one such thing, and a
\* session that is not starting waits for nothing.  This is what makes the
\* callbacks safe although they do not know which flow they serve.
SingleFlow ==
    /\ ps.state # "starting" /\ running => requests = {} /\ Responses = {}
    /\ requests = {} \/ Responses = {}
    /\ \A q, r \in requests : q = r
    /\ \A i, j \in Responses : i = j
    /\ \A q \in requests : q.flow = flows
    /\ \A i \in Responses : signals[i].flow = flows

\* Input goes where status says: the EIS connection in use was opened on the
\* session the daemon holds (and will close when it stops), and Notify* is
\* used only on a session that has not been switched to EIS.
TransportOfSession ==
    ps.state = "started" =>
        IF ps.transport = "eis" THEN ps.eisPath = ps.path /\ ps.path \in eisMode
        ELSE ps.path \notin eisMode

\* A started session has been granted by the user; if it is not any more, the
\* Closed that will stop it is already in the queue.
OpenIsGranted ==
    ps.state = "started" =>
        \/ Granted(ps.path)
        \/ \E i \in DOMAIN signals : signals[i] = Closed(ps.path)

-----------------------------------------------------------------------------
(* What the documents say and the code does not do.                        *)

\* daemon.py:3 "Holds ONE portal session per daemon".
OneSession == Cardinality(LiveSessions) <= 1

\* daemon.py:335 "Once the EIS transport is up, pump its fd on the main loop
\* (keymap/modifier/ping events ...)".
EisPumped ==
    unread /\ ps.state = "started" /\ running
        ~> ~unread \/ ps.state # "started" \/ ~running
=============================================================================
