------------------------------- MODULE Portal -------------------------------
(***************************************************************************)
(* The RemoteDesktop portal as PyWaylandAuto uses it: an external service  *)
(* (xdg-desktop-portal, the compositor behind it and the user who answers  *)
(* its dialog), reached over D-Bus through PortalClient.  A method call    *)
(* leaves a request outstanding; the portal answers it later with a        *)
(* Response signal, and may at any time close a session and emit Closed.   *)
(* Signals of one sender reach the daemon in the order they were emitted   *)
(* and wait in the connection's queue until the main loop dispatches them. *)
(***************************************************************************)
EXTENDS Naturals, Sequences, FiniteSets

CONSTANTS
    Sessions,     \* session handles the portal can hand out
    NoSession,    \* Python's None where a session handle is expected
    Stale         \* which stale signals the portal may send: "closed", about
                  \* sessions the daemon has given up; "reply", to requests
                  \* whose call timed out or whose session has ended

ASSUME PortalAssumption ==
    /\ NoSession \notin Sessions
    /\ Stale \subseteq {"closed", "reply"}

VARIABLES
    portal,     \* what the portal knows of every session handle
    eisMode,    \* sessions on which ConnectToEIS succeeded: Notify* is dead
    requests,   \* requests accepted by the portal and not answered yet
    signals,    \* D-Bus signals emitted and not dispatched by the main loop
    listening   \* sessions with a Closed receiver registered

portalVars == <<portal, eisMode, requests, signals, listening>>

PathOrNone == Sessions \cup {NoSession}

RequestKinds == {"create", "select", "start"}

\* "flow" is the start() call a request stems from.  The code keeps no such
\* identity (that is the point of several properties); it is a ghost field.
Request == [kind : RequestKinds, flow : Nat, path : PathOrNone]

\* A Response carries its code (0 success, 1 cancelled by the user, 2 ended
\* in another way), and for Start whether a restore_token came with it.  A
\* session handle comes with a successful CreateSession and with Closed.
Signal ==
    {m \in [kind : RequestKinds \cup {"closed"}, flow : Nat,
            path : PathOrNone, code : 0..2, token : BOOLEAN] :
        m.kind = "closed" \/ (m.kind = "create" /\ m.code = 0)
            => m.path \in Sessions}

Response(q, s, c, t) ==
    [kind |-> q.kind, flow |-> q.flow, path |-> s, code |-> c, token |-> t]

Closed(s) ==
    [kind |-> "closed", flow |-> 0, path |-> s, code |-> 0, token |-> FALSE]

PortalTypeOK ==
    /\ portal \in [Sessions -> {"unused", "open", "granted", "closed"}]
    /\ eisMode \subseteq Sessions
    /\ requests \subseteq Request
    /\ signals \in Seq(Signal)
    /\ listening \subseteq Sessions

PortalInit ==
    /\ portal = [s \in Sessions |-> "unused"]
    /\ eisMode = {}
    /\ requests = {}
    /\ signals = <<>>
    /\ listening = {}

Live(s) == s \in Sessions /\ portal[s] \in {"open", "granted"}

LiveSessions == {s \in Sessions : portal[s] \in {"open", "granted"}}

Granted(s) == s \in Sessions /\ portal[s] = "granted"

-----------------------------------------------------------------------------
(* What the portal does between two steps of the daemon.                   *)

AnswerCreate(q) ==
    /\ q \in requests /\ q.kind = "create"
    /\ requests' = requests \ {q}
    /\ \/ \E s \in Sessions :
            /\ portal[s] = "unused"
            /\ portal' = [portal EXCEPT ![s] = "open"]
            /\ signals' = Append(signals, Response(q, s, 0, FALSE))
       \/ /\ signals' = Append(signals, Response(q, NoSession, 2, FALSE))
          /\ UNCHANGED portal
    /\ UNCHANGED <<eisMode, listening>>

\* A refused request takes its session with it ("The portal destroys the
\* session object on denial"); Closed may follow the Response.
Refuse(q, code) ==
    /\ portal' = IF q.path \in Sessions
                 THEN [portal EXCEPT ![q.path] = "closed"] ELSE portal
    /\ \/ signals' = Append(signals, Response(q, q.path, code, FALSE))
       \/ /\ Live(q.path) /\ q.path \in listening
          /\ signals' = signals \o <<Response(q, q.path, code, FALSE),
                                     Closed(q.path)>>

AnswerSelect(q) ==
    /\ q \in requests /\ q.kind = "select"
    /\ requests' = requests \ {q}
    /\ \/ /\ Live(q.path)
          /\ signals' = Append(signals, Response(q, q.path, 0, FALSE))
          /\ UNCHANGED portal
       \/ Refuse(q, 2)
    /\ UNCHANGED <<eisMode, listening>>

\* The user answers the dialog, or the portal restores a granted session.
AnswerStart(q) ==
    /\ q \in requests /\ q.kind = "start"
    /\ requests' = requests \ {q}
    /\ \/ /\ Live(q.path)
          /\ portal' = [portal EXCEPT ![q.path] = "granted"]
          /\ \E t \in BOOLEAN :
                signals' = Append(signals, Response(q, q.path, 0, t))
       \/ \E c \in {1, 2} : Refuse(q, c)
    /\ UNCHANGED <<eisMode, listening>>

\* The portal ends session s, and the requests on it die with it unless stale
\* replies are possible.  Nobody hears of it before a receiver is registered.
EndSession(s) ==
    /\ Live(s)
    /\ portal' = [portal EXCEPT ![s] = "closed"]
    /\ signals' = IF s \in listening THEN Append(signals, Closed(s)) ELSE signals
    /\ \/ requests' = {q \in requests : q.path # s}
       \/ "reply" \in Stale /\ UNCHANGED requests
    /\ UNCHANGED <<eisMode, listening>>
=============================================================================
