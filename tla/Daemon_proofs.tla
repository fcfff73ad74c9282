--------------------------- MODULE Daemon_proofs ---------------------------
(***************************************************************************)
(* Proofs about Daemon, for every value of the constants.  First what      *)
(* holds whatever the portal does, stale signals included: types, the      *)
(* usability of a started session, the truth of has_token, and that        *)
(* "starting" never waits for nothing.  Then, building on that invariant,  *)
(* what holds when no stale signal arrives: one flow at a time, input only *)
(* where it was granted and where status says, and the daemon as an        *)
(* implementation of ConsentGate.                                          *)
(***************************************************************************)
EXTENDS DaemonProperties, SequenceTheorems, TLAPS

USE PortalAssumption, SessionAssumption, DaemonAssumption

-----------------------------------------------------------------------------
(* Lemmas about the operators the actions are built from.                  *)

\* Every D-Bus error becomes one of the typed errors.
LEMMA MapDBusErrorTyped ==
    ASSUME NEW e \in DBusErrors
    PROVE  MapDBusError[e] \in Errors
BY DEF MapDBusError, DBusErrors, Errors

\* _fail leaves a well-formed object that is stopped and holds no session.
LEMMA FailStops ==
    ASSUME NEW p \in Ps, NEW e \in Errors
    PROVE  /\ Fail(p, e) \in Ps
           /\ Fail(p, e).state = "stopped"
           /\ Fail(p, e).path = NoSession
           /\ Fail(p, e).hasToken = p.hasToken
BY DEF Fail, Ps, PathOrNone

\* The object start() works on is well formed and has re-read the token file.
LEMMA FreshFlowStarts ==
    ASSUME cached \in BOOLEAN
    PROVE  /\ FreshFlow \in Ps
           /\ FreshFlow.state = "starting"
           /\ FreshFlow.path = NoSession
           /\ FreshFlow.hasToken = cached
BY DEF FreshFlow, Blank, Ps, PathOrNone, Errors

\* A response to a well-formed request is a well-formed signal; a success of
\* CreateSession names a session.
LEMMA ResponseTyped ==
    ASSUME NEW q \in Request, NEW s \in PathOrNone, NEW c \in 0..2,
           NEW t \in BOOLEAN, q.kind = "create" /\ c = 0 => s \in Sessions
    PROVE  Response(q, s, c, t) \in Signal
BY DEF Response, Signal, Request, RequestKinds

\* So is Closed.
LEMMA ClosedTyped ==
    ASSUME NEW s \in Sessions
    PROVE  Closed(s) \in Signal
BY DEF Closed, Signal, PathOrNone

-----------------------------------------------------------------------------
(* What a step of the session leaves behind.                               *)

\* A sound object: well formed, has_token is the truth c, and started only
\* with the things the input methods dereference.
Sound(p, c) ==
    /\ p \in Ps
    /\ p.hasToken = c
    /\ p.state = "started" =>
         /\ p.path # NoSession
         /\ p.transport # "none"
         /\ p.transport = "eis" => p.eisFd # NoFd /\ p.eisReady

\* The sessions an object and the outstanding requests name have a receiver
\* for Closed.
Heard(p, rs, ls) ==
    /\ p.path # NoSession => p.path \in ls
    /\ \A q \in rs : q.path # NoSession => q.path \in ls

SessionInv ==
    /\ Sound(ps, cached)
    /\ cached \in BOOLEAN
    /\ requests \subseteq Request
    /\ listening \subseteq Sessions
    /\ Heard(ps, requests, listening)

\* A step that leaves the session starting has left a request outstanding.
Pending(p, rs) == p.state = "starting" => rs # {}

\* A failed object is sound, because it is not started.
LEMMA FailSound ==
    ASSUME NEW p \in Ps, NEW c, p.hasToken = c, NEW e \in Errors, NEW rs, NEW ls,
           \A q \in rs : q.path # NoSession => q.path \in ls
    PROVE  Sound(Fail(p, e), c) /\ Heard(Fail(p, e), rs, ls) /\ Pending(Fail(p, e), rs)
BY FailStops DEF Sound, Heard, Pending

\* A step that only fails the session.
LEMMA FailStepSound ==
    ASSUME SessionInv, NEW e \in Errors, ps' = Fail(ps, e),
           requests' = requests, listening' = listening, cached' = cached
    PROVE  SessionInv' /\ Pending(ps', requests')
<1>1. ps \in Ps /\ ps.hasToken = cached
      /\ \A q \in requests : q.path # NoSession => q.path \in listening
  BY DEF SessionInv, Sound, Heard
<1>2. Sound(ps', cached) /\ Heard(ps', requests, listening) /\ Pending(ps', requests)
  BY <1>1, FailSound
<1>3. QED
  BY <1>2 DEF SessionInv

\* The result of a D-Bus call that leaves request q outstanding: either the
\* object the step works on, still waiting, or that object failed.
LEMMA CallSound ==
    ASSUME NEW p, NEW c, Sound(p, c), SessionInv, NEW q \in Request,
           NEW ls, listening \subseteq ls,
           p.path # NoSession => p.path \in ls,
           q.path # NoSession => q.path \in ls,
           NEW r \in DBusErrors \cup {"accepted"},
           ps' = IF r = "accepted" THEN p ELSE Fail(p, MapDBusError[r]),
           requests' = Outstanding(r, q)
    PROVE  Sound(ps', c) /\ requests' \subseteq Request
           /\ Heard(ps', requests', ls) /\ Pending(ps', requests')
<1>1. requests' \subseteq Request /\ (r = "accepted" => q \in requests')
  BY DEF Outstanding, SessionInv
<1>2. \A x \in requests' : x.path # NoSession => x.path \in ls
  BY DEF Outstanding, SessionInv, Heard
<1>3. CASE r = "accepted"
  BY <1>1, <1>2, <1>3 DEF Heard, Pending
<1>4. CASE r # "accepted"
  <2>1. MapDBusError[r] \in Errors
    BY <1>4, MapDBusErrorTyped
  <2>2. p \in Ps /\ p.hasToken = c
    BY DEF Sound
  <2>3. QED
    BY <1>1, <1>2, <1>4, <2>1, <2>2, FailSound
<1>5. QED
  BY <1>3, <1>4

\* start().
LEMMA StartFlowSound ==
    ASSUME SessionInv, flows \in Nat, StartFlow
    PROVE  SessionInv' /\ Pending(ps', requests') /\ flows' \in Nat
<1> DEFINE q == [kind |-> "create", flow |-> flows + 1, path |-> NoSession]
<1>1. PICK r \in CallOutcomes(TRUE) :
         /\ ps' = IF r = "accepted" THEN FreshFlow
                  ELSE Fail(FreshFlow, MapDBusError[r])
         /\ requests' = Outstanding(r, q)
  BY DEF StartFlow
<1>2. FreshFlow.path = NoSession /\ Sound(FreshFlow, cached)
  BY FreshFlowStarts DEF Sound, SessionInv
<1>3. q \in Request /\ q.path = NoSession
  BY DEF Request, RequestKinds, PathOrNone
<1>4. r \in DBusErrors \cup {"accepted"}
  BY DEF CallOutcomes
<1>5. cached' = cached /\ listening' = listening /\ flows' \in Nat
  BY DEF StartFlow
<1> HIDE DEF q
<1>6. Sound(ps', cached) /\ requests' \subseteq Request
      /\ Heard(ps', requests', listening) /\ Pending(ps', requests')
  BY <1>1, <1>2, <1>3, <1>4, CallSound
<1>7. QED
  BY <1>5, <1>6 DEF SessionInv

\* _select_devices, with or without its retry, on an object p that holds a
\* session with a receiver.
LEMMA SelectDevicesSound ==
    ASSUME NEW p, NEW m \in Signal, NEW ls, SessionInv,
           Sound(p, cached), p.path \in Sessions, p.path \in ls,
           listening \subseteq ls, SelectDevices(p, m)
    PROVE  /\ Sound(ps', cached') /\ cached' \in BOOLEAN
           /\ requests' \subseteq Request
           /\ Heard(ps', requests', ls) /\ Pending(ps', requests')
<1> DEFINE q == [kind |-> "select", flow |-> m.flow, path |-> p.path]
           p1 == [p EXCEPT !.hasToken = FALSE, !.retried = TRUE]
           Call(o, r) ==
               /\ ps' = IF r = "accepted" THEN o ELSE Fail(o, MapDBusError[r])
               /\ requests' = Outstanding(r, q)
<1>1. q \in Request /\ q.path = p.path
  BY DEF Request, RequestKinds, PathOrNone, Signal
<1>2. CallOutcomes(Live(p.path)) \subseteq DBusErrors \cup {"accepted"}
  BY DEF CallOutcomes
<1>3. Sound(p1, FALSE) /\ p1.path = p.path
  BY DEF Sound, Ps
<1>4. \A x \in requests : x.path # NoSession => x.path \in ls
  BY DEF SessionInv, Heard
<1>5. \/ \E r \in CallOutcomes(Live(p.path)) : Call(p, r) /\ cached' = cached
      \/ \E r \in CallOutcomes(Live(p.path)) : Call(p1, r) /\ cached' = FALSE
      \/ /\ ps' = Fail(p, "PortalFailed")
         /\ cached' = cached /\ requests' = requests
  BY DEF SelectDevices
<1> HIDE DEF q, p1
<1>6. CASE \E r \in CallOutcomes(Live(p.path)) : Call(p, r) /\ cached' = cached
  <2> PICK r \in CallOutcomes(Live(p.path)) : Call(p, r) /\ cached' = cached
    BY <1>6
  <2>1. Sound(ps', cached) /\ requests' \subseteq Request
        /\ Heard(ps', requests', ls) /\ Pending(ps', requests')
    BY <1>1, <1>2, CallSound
  <2>2. QED
    BY <2>1 DEF SessionInv
<1>7. CASE \E r \in CallOutcomes(Live(p.path)) : Call(p1, r) /\ cached' = FALSE
  <2> PICK r \in CallOutcomes(Live(p.path)) : Call(p1, r) /\ cached' = FALSE
    BY <1>7
  <2>1. Sound(ps', FALSE) /\ requests' \subseteq Request
        /\ Heard(ps', requests', ls) /\ Pending(ps', requests')
    BY <1>1, <1>2, <1>3, CallSound
  <2>2. QED
    BY <2>1
<1>8. CASE /\ ps' = Fail(p, "PortalFailed")
           /\ cached' = cached /\ requests' = requests
  BY <1>4, <1>8, FailSound DEF Sound, SessionInv, Errors
<1>9. QED
  BY <1>5, <1>6, <1>7, <1>8

\* _on_create_session.
LEMMA OnCreateSessionSound ==
    ASSUME SessionInv, NEW m \in Signal, OnCreateSession(m)
    PROVE  SessionInv' /\ Pending(ps', requests')
<1>1. CASE m.code # 0
  BY <1>1, FailStepSound DEF OnCreateSession, Errors
<1>2. CASE m.code = 0
  <2> DEFINE p == [ps EXCEPT !.path = m.path]
             ls == listening \cup {m.path}
  <2>1. m.path \in Sessions /\ m.path # NoSession
    BY <1>2 DEF OnCreateSession, Signal
  <2>2. Sound(p, cached) /\ p.path = m.path
    BY <2>1 DEF SessionInv, Sound, Ps, PathOrNone
  <2>3. listening' = ls /\ SelectDevices(p, m)
    BY <1>2 DEF OnCreateSession
  <2>4. p.path \in ls /\ p.path \in Sessions /\ listening \subseteq ls
        /\ ls \subseteq Sessions
    BY <2>1, <2>2 DEF SessionInv
  <2> HIDE DEF p, ls
  <2>5. /\ Sound(ps', cached') /\ cached' \in BOOLEAN
        /\ requests' \subseteq Request
        /\ Heard(ps', requests', ls) /\ Pending(ps', requests')
    BY <2>2, <2>3, <2>4, SelectDevicesSound
  <2>6. QED
    BY <2>3, <2>4, <2>5 DEF SessionInv
<1>3. QED
  BY <1>1, <1>2

\* _on_select_devices, also when another flow has taken the session away.
LEMMA OnSelectDevicesSound ==
    ASSUME SessionInv, NEW m \in Signal, OnSelectDevices(m)
    PROVE  SessionInv' /\ Pending(ps', requests')
<1>1. cached' = cached /\ listening' = listening
  BY DEF OnSelectDevices
<1>2. CASE ps' = Fail(ps, "PortalFailed") /\ requests' = requests
  BY <1>1, <1>2, FailStepSound DEF Errors
<1>3. CASE ps.path # NoSession /\
           \E r \in CallOutcomes(portal[ps.path] = "open") :
               /\ ps' = IF r = "accepted" THEN ps
                        ELSE Fail(ps, MapDBusError[r])
               /\ requests' = Outstanding(r, [kind |-> "start", flow |-> m.flow,
                                              path |-> ps.path])
  <2> DEFINE q == [kind |-> "start", flow |-> m.flow, path |-> ps.path]
  <2> PICK r \in CallOutcomes(portal[ps.path] = "open") :
               /\ ps' = IF r = "accepted" THEN ps
                        ELSE Fail(ps, MapDBusError[r])
               /\ requests' = Outstanding(r, q)
    BY <1>3
  <2>1. q \in Request /\ q.path = ps.path
    BY DEF Request, RequestKinds, PathOrNone, Signal, SessionInv, Sound, Ps
  <2>2. r \in DBusErrors \cup {"accepted"}
    BY DEF CallOutcomes
  <2>3. ps.path # NoSession => ps.path \in listening
    BY DEF SessionInv, Heard
  <2> HIDE DEF q
  <2>4. Sound(ps', cached) /\ requests' \subseteq Request
        /\ Heard(ps', requests', listening) /\ Pending(ps', requests')
    BY <2>1, <2>2, <2>3, CallSound DEF SessionInv
  <2>5. QED
    BY <1>1, <2>4 DEF SessionInv
<1>4. QED
  BY <1>2, <1>3 DEF OnSelectDevices

\* _choose_transport on the object that _on_start has marked started: it ends
\* with a transport it can use, or stopped.
LEMMA ChooseTransportSound ==
    ASSUME NEW p \in Ps, NEW c, p.hasToken = c, p.state = "started",
           ChooseTransport(p)
    PROVE  /\ Sound(ps', c)
           /\ ps'.path \in {p.path, NoSession}
           /\ ps'.state # "starting"
<1>1. CASE ProbeNotify(p)
  <2>1. CASE ps' = Fail(p, "PortalFailed")
    BY <2>1, FailStops DEF Sound, Errors
  <2>2. CASE Granted(p.path) /\ ps' = [p EXCEPT !.transport = "notify"]
    BY <2>2 DEF Sound, Granted, Ps
  <2>3. QED
    BY <1>1, <2>1, <2>2 DEF ProbeNotify
<1>2. CASE ConnectEis(p)
  <2> PICK fd \in Fds \ {p.eisFd}, ok \in BOOLEAN :
         LET p1 == [p EXCEPT !.eisFd = fd, !.eisPath = p.path, !.eisReady = ok]
         IN  ps' = IF ok THEN [p1 EXCEPT !.transport = "eis"]
                   ELSE Fail(p1, "PortalFailed")
    BY <1>2 DEF ConnectEis
  <2> DEFINE p1 == [p EXCEPT !.eisFd = fd, !.eisPath = p.path, !.eisReady = ok]
  <2>1. p.path # NoSession /\ fd # NoFd
    BY <1>2 DEF ConnectEis, Granted
  <2>2. p1 \in Ps /\ p1.hasToken = c /\ p1.path = p.path
        /\ p1.eisFd = fd /\ p1.eisReady = ok /\ p1.state = "started"
    BY DEF Ps
  <2>3. ps' = IF ok THEN [p1 EXCEPT !.transport = "eis"]
              ELSE Fail(p1, "PortalFailed")
    OBVIOUS
  <2> HIDE DEF p1
  <2>4. CASE ok
    BY <2>1, <2>2, <2>3, <2>4 DEF Sound, Ps
  <2>5. CASE ~ok
    BY <2>2, <2>3, <2>5, FailStops DEF Sound, Errors
  <2>6. QED
    BY <2>4, <2>5
<1>3. QED
  BY <1>1, <1>2 DEF ChooseTransport

\* _on_start.
LEMMA OnStartSound ==
    ASSUME SessionInv, NEW m \in Signal, OnStart(m)
    PROVE  SessionInv' /\ Pending(ps', requests')
<1>1. requests' = requests /\ listening' = listening
  BY DEF OnStart
<1>2. CASE /\ \E e \in {"PortalFailed", "PermissionDenied"} : ps' = Fail(ps, e)
           /\ cached' = cached
  BY <1>1, <1>2, FailStepSound DEF Errors
<1>3. CASE /\ cached' = (cached \/ m.token)
           /\ ChooseTransport([ps EXCEPT !.state = "started", !.devices = TRUE,
                                         !.hasToken = @ \/ m.token])
  <2> DEFINE p == [ps EXCEPT !.state = "started", !.devices = TRUE,
                             !.hasToken = @ \/ m.token]
  <2>1. p \in Ps /\ p.state = "started" /\ p.path = ps.path
        /\ p.hasToken = (ps.hasToken \/ m.token)
    BY DEF Ps, SessionInv, Sound, Signal
  <2>2. p.hasToken = cached' /\ cached' \in BOOLEAN
    BY <1>3, <2>1 DEF SessionInv, Sound
  <2>3. ChooseTransport(p)
    BY <1>3
  <2> HIDE DEF p
  <2>4. /\ Sound(ps', cached')
        /\ ps'.path \in {p.path, NoSession}
        /\ ps'.state # "starting"
    BY <2>1, <2>2, <2>3, ChooseTransportSound
  <2>5. QED
    BY <1>1, <2>1, <2>2, <2>4 DEF SessionInv, Heard, Pending
<1>4. QED
  BY <1>2, <1>3 DEF OnStart

\* _on_closed.
LEMMA OnClosedSound ==
    ASSUME SessionInv, NEW m \in Signal, OnClosed(m)
    PROVE  SessionInv' /\ Pending(ps', requests')
<1>1. /\ ps' \in Ps /\ ps'.state = "stopped" /\ ps'.hasToken = ps.hasToken
      /\ ps'.path \in {ps.path, NoSession}
  BY DEF OnClosed, SessionInv, Sound, Ps, PathOrNone, Errors
<1>2. /\ requests' = requests /\ listening' = listening /\ cached' = cached
  BY DEF OnClosed
<1>3. QED
  BY <1>1, <1>2 DEF SessionInv, Sound, Heard, Pending

\* The main loop dispatches a signal: whatever it is.
LEMMA DispatchSound ==
    ASSUME SessionInv, signals \in Seq(Signal), DispatchSignal
    PROVE  SessionInv' /\ Pending(ps', requests') /\ signals' \in Seq(Signal)
<1> DEFINE m == Head(signals)
<1>1. m \in Signal /\ signals' \in Seq(Signal)
  BY DEF DispatchSignal
<1>2. OnCreateSession(m) \/ OnSelectDevices(m) \/ OnStart(m) \/ OnClosed(m)
  BY DEF DispatchSignal
<1> HIDE DEF m
<1>3. QED
  BY <1>1, <1>2, OnCreateSessionSound, OnSelectDevicesSound, OnStartSound,
     OnClosedSound

\* What a signal leaves alone, or changes within its type.
LEMMA DispatchFrame ==
    ASSUME eisMode \subseteq Sessions, DispatchSignal
    PROVE  portal' = portal /\ eisMode' \subseteq Sessions /\ flows' = flows
<1> DEFINE m == Head(signals)
           p == [ps EXCEPT !.state = "started", !.devices = TRUE,
                           !.hasToken = @ \/ m.token]
<1>1. OnCreateSession(m) \/ OnSelectDevices(m) \/ OnStart(m) \/ OnClosed(m)
  BY DEF DispatchSignal
<1>2. CASE OnCreateSession(m) \/ OnSelectDevices(m) \/ OnClosed(m)
  BY <1>2 DEF OnCreateSession, OnSelectDevices, OnClosed
<1>3. CASE OnStart(m)
  <2>1. portal' = portal /\ flows' = flows
    BY <1>3 DEF OnStart
  <2>2. eisMode' = eisMode \/ ChooseTransport(p)
    BY <1>3 DEF OnStart
  <2> HIDE DEF p
  <2>3. ChooseTransport(p) => eisMode' \subseteq Sessions
    BY DEF ChooseTransport, ProbeNotify, ConnectEis, Granted
  <2>4. QED
    BY <2>1, <2>2, <2>3
<1>4. QED
  BY <1>1, <1>2, <1>3

-----------------------------------------------------------------------------
(* What the portal does.                                                   *)

\* A Response answers one request and only that one.
LEMMA AnswerSound ==
    ASSUME PortalTypeOK, NEW q \in requests,
           AnswerCreate(q) \/ AnswerSelect(q) \/ AnswerStart(q)
    PROVE  PortalTypeOK' /\ signals' # <<>> /\ requests' \subseteq requests
           /\ listening' = listening
<1>1. /\ q \in Request /\ q.path \in PathOrNone
      /\ \A m \in Signal : Append(signals, m) \in Seq(Signal)
                           /\ Append(signals, m) # <<>>
  BY DEF PortalTypeOK, Request
<1>2. ASSUME NEW c \in {1, 2}, Refuse(q, c), q.kind # "create"
      PROVE  /\ portal' \in [Sessions -> {"unused", "open", "granted", "closed"}]
             /\ signals' \in Seq(Signal) /\ signals' # <<>>
  <2>1. portal' \in [Sessions -> {"unused", "open", "granted", "closed"}]
    BY <1>2 DEF Refuse, PortalTypeOK
  <2>2. Response(q, q.path, c, FALSE) \in Signal
    BY <1>1, <1>2 DEF Response, Signal, RequestKinds, Request
  <2>3. CASE signals' = Append(signals, Response(q, q.path, c, FALSE))
    BY <1>1, <2>1, <2>2, <2>3
  <2>4. CASE /\ Live(q.path)
             /\ signals' = signals \o <<Response(q, q.path, c, FALSE),
                                        Closed(q.path)>>
    <3>1. Closed(q.path) \in Signal
      BY <2>4, ClosedTyped DEF Live
    <3> DEFINE a == Response(q, q.path, c, FALSE)
               b == Closed(q.path)
    <3>2. a \in Signal /\ b \in Signal /\ signals' = signals \o <<a, b>>
      BY <2>2, <2>4, <3>1
    <3> HIDE DEF a, b
    <3>3. signals \in Seq(Signal) /\ <<a, b>> \in Seq(Signal) /\ Len(<<a, b>>) = 2
      BY <3>2 DEF PortalTypeOK
    <3>4. signals' \in Seq(Signal) /\ Len(signals') = Len(signals) + 2
      BY <3>2, <3>3
    <3>5. QED
      BY <2>1, <3>3, <3>4
  <2>5. QED
    BY <1>2, <2>3, <2>4 DEF Refuse
<1>3. requests' \subseteq requests /\ listening' = listening /\ eisMode' = eisMode
  BY DEF AnswerCreate, AnswerSelect, AnswerStart
<1>4. /\ portal' \in [Sessions -> {"unused", "open", "granted", "closed"}]
      /\ signals' \in Seq(Signal) /\ signals' # <<>>
  <2>1. CASE AnswerCreate(q)
    <3>1. CASE \E s \in Sessions :
                 /\ portal' = [portal EXCEPT ![s] = "open"]
                 /\ signals' = Append(signals, Response(q, s, 0, FALSE))
      <4> PICK s \in Sessions :
                 /\ portal' = [portal EXCEPT ![s] = "open"]
                 /\ signals' = Append(signals, Response(q, s, 0, FALSE))
        BY <3>1
      <4>1. Response(q, s, 0, FALSE) \in Signal
        BY <1>1 DEF Response, Signal, RequestKinds, Request, PathOrNone
      <4>2. QED
        BY <1>1, <4>1 DEF PortalTypeOK
    <3>2. CASE /\ signals' = Append(signals, Response(q, NoSession, 2, FALSE))
               /\ portal' = portal
      <4>1. Response(q, NoSession, 2, FALSE) \in Signal
        BY <1>1 DEF Response, Signal, RequestKinds, Request, PathOrNone
      <4>2. QED
        BY <1>1, <3>2, <4>1 DEF PortalTypeOK
    <3>3. QED
      BY <2>1, <3>1, <3>2 DEF AnswerCreate
  <2>2. CASE AnswerSelect(q)
    <3>1. q.kind # "create"
      BY <2>2 DEF AnswerSelect
    <3>2. CASE /\ signals' = Append(signals, Response(q, q.path, 0, FALSE))
               /\ portal' = portal
      <4>1. Response(q, q.path, 0, FALSE) \in Signal
        BY <1>1, <3>1 DEF Response, Signal, RequestKinds, Request
      <4>2. QED
        BY <1>1, <3>2, <4>1 DEF PortalTypeOK
    <3>3. CASE Refuse(q, 2)
      BY <1>2, <3>1, <3>3
    <3>4. QED
      BY <2>2, <3>2, <3>3 DEF AnswerSelect
  <2>3. CASE AnswerStart(q)
    <3>1. q.kind # "create"
      BY <2>3 DEF AnswerStart
    <3>2. CASE /\ portal' = [portal EXCEPT ![q.path] = "granted"]
               /\ \E t \in BOOLEAN :
                    signals' = Append(signals, Response(q, q.path, 0, t))
      <4>1. \A t \in BOOLEAN : Response(q, q.path, 0, t) \in Signal
        BY <1>1, <3>1, ResponseTyped
      <4>2. QED
        BY <1>1, <3>2, <4>1 DEF PortalTypeOK
    <3>3. CASE \E c \in {1, 2} : Refuse(q, c)
      BY <1>2, <3>1, <3>3
    <3>4. QED
      BY <2>3, <3>2, <3>3 DEF AnswerStart
  <2>4. QED
    BY <2>1, <2>2, <2>3
<1>5. QED
  BY <1>3, <1>4 DEF PortalTypeOK

\* When a session ends, either a request is left (one whose session is yet to
\* be created, or one that outlives its session) or Closed is in the queue.
LEMMA EndSessionSound ==
    ASSUME PortalTypeOK, Heard(ps, requests, listening),
           NEW s \in Sessions, EndSession(s)
    PROVE  /\ PortalTypeOK' /\ requests' \subseteq requests
           /\ listening' = listening
           /\ requests # {} \/ signals # <<>> => requests' # {} \/ signals' # <<>>
<1>1. /\ portal' \in [Sessions -> {"unused", "open", "granted", "closed"}]
      /\ eisMode' = eisMode /\ listening' = listening
      /\ requests' \subseteq requests
  BY DEF EndSession, PortalTypeOK
<1>2. signals' \in Seq(Signal) /\ (s \in listening \/ signals # <<>> => signals' # <<>>)
  BY ClosedTyped DEF EndSession, PortalTypeOK
<1>3. ASSUME NEW q \in requests
      PROVE  requests' # {} \/ signals' # <<>>
  <2>1. CASE q.path = s
    <3>1. s \in listening
      BY <2>1, PortalAssumption DEF Heard
    <3>2. QED
      BY <1>2, <3>1
  <2>2. CASE q.path # s
    BY <2>2 DEF EndSession
  <2>3. QED
    BY <2>1, <2>2
<1>4. QED
  BY <1>1, <1>2, <1>3 DEF PortalTypeOK

-----------------------------------------------------------------------------
(* The inductive invariant of the daemon, and its steps.                   *)

\* NeverWedged is not inductive: it needs Heard, by which the end of a session
\* that a flow waits on is always signalled.  HasTokenTruthful and
\* StartedUsable are what Sound says.
SInv ==
    /\ TypeOK
    /\ Sound(ps, cached)
    /\ Heard(ps, requests, listening)
    /\ NeverWedged

DaemonTypeOK ==
    /\ running \in BOOLEAN
    /\ eisWatched \in BOOLEAN
    /\ watchFd \in Fds \cup {NoFd}
    /\ unread \in BOOLEAN
    /\ asker \in {"person", "input"}

\* The session's part of the invariant.
LEMMA SInvSession ==
    ASSUME SInv
    PROVE  SessionInv /\ flows \in Nat
BY DEF SInv, TypeOK, SessionTypeOK, PortalTypeOK, SessionInv

\* And back, when the rest of the daemon's state is well formed.
LEMMA SessionSInv ==
    ASSUME SessionInv', flows' \in Nat, PortalTypeOK', DaemonTypeOK', NeverWedged'
    PROVE  SInv'
BY DEF SInv, TypeOK, SessionTypeOK, SessionInv, DaemonTypeOK, Sound

\* start(), whoever asked for it.
LEMMA BeginFlowSound ==
    ASSUME SInv, NEW by \in {"person", "input"}, BeginFlow(by),
           eisWatched' \in BOOLEAN, watchFd' \in Fds \cup {NoFd}
    PROVE  SInv'
<1>1. SessionInv' /\ Pending(ps', requests') /\ flows' \in Nat
  BY SInvSession, StartFlowSound DEF BeginFlow
<1>2. PortalTypeOK'
  BY <1>1 DEF BeginFlow, StartFlow, SInv, TypeOK, PortalTypeOK, SessionInv
<1>3. DaemonTypeOK'
  BY DEF BeginFlow, SInv, TypeOK, DaemonTypeOK
<1>4. NeverWedged'
  BY <1>1 DEF Pending, NeverWedged
<1>5. QED
  BY <1>1, <1>2, <1>3, <1>4, SessionSInv

\* _maybe_watch_eis watches a descriptor of the session, or what it did.
LEMMA MaybeWatchEisTyped ==
    ASSUME SInv, MaybeWatchEis
    PROVE  eisWatched' \in BOOLEAN /\ watchFd' \in Fds \cup {NoFd}
BY DEF MaybeWatchEis, SInv, TypeOK, SessionTypeOK, Ps

\* A step that touches only the daemon's own state keeps the invariant.
LEMMA DaemonOnly ==
    ASSUME SInv, UNCHANGED <<portalVars, sessionVars, running>>, DaemonTypeOK'
    PROVE  SInv'
BY DEF SInv, TypeOK, DaemonTypeOK, PortalTypeOK, SessionTypeOK, portalVars,
       sessionVars, Sound, Heard, NeverWedged

\* stop() leaves a stopped object, or what it found when it raised.
LEMMA StopSound ==
    ASSUME SInv, Stop
    PROVE  SInv'
<1>1. /\ ps' \in Ps /\ ps'.hasToken = ps.hasToken
      /\ ps' = ps \/ (ps'.state = "stopped" /\ ps'.path = NoSession)
  BY DEF Stop, StopSession, SInv, TypeOK, SessionTypeOK, Ps, PathOrNone
<1>2. portal' \in [Sessions -> {"unused", "open", "granted", "closed"}]
  BY DEF Stop, StopSession, SInv, TypeOK, PortalTypeOK
<1>3. UNCHANGED <<cached, flows, eisMode, requests, signals, listening>>
  BY DEF Stop, StopSession
<1>4. SessionInv'
  BY <1>1, <1>3, SInvSession DEF SessionInv, Sound, Heard
<1>5. PortalTypeOK' /\ DaemonTypeOK' /\ NeverWedged' /\ flows' \in Nat
  BY <1>2, <1>3 DEF Stop, SInv, TypeOK, SessionTypeOK, PortalTypeOK,
     DaemonTypeOK, NeverWedged
<1>6. QED
  BY <1>4, <1>5, SessionSInv

\* A signal is dispatched.
LEMMA OnSignalSound ==
    ASSUME SInv, OnSignal
    PROVE  SInv'
<1>1. SessionInv' /\ Pending(ps', requests') /\ signals' \in Seq(Signal)
  BY SInvSession, DispatchSound DEF OnSignal, SInv, TypeOK, PortalTypeOK
<1>2. portal' = portal /\ eisMode' \subseteq Sessions /\ flows' = flows
  BY DispatchFrame DEF OnSignal, SInv, TypeOK, PortalTypeOK
<1>3. PortalTypeOK' /\ flows' \in Nat
  BY <1>1, <1>2 DEF SInv, TypeOK, PortalTypeOK, SessionTypeOK, SessionInv
<1>4. DaemonTypeOK'
  BY DEF OnSignal, SInv, TypeOK, DaemonTypeOK
<1>5. NeverWedged'
  BY <1>1 DEF Pending, NeverWedged
<1>6. QED
  BY <1>1, <1>3, <1>4, <1>5, SessionSInv

\* The portal answers a request or ends a session.
LEMMA PortalStepSound ==
    ASSUME SInv, PortalStep
    PROVE  SInv'
<1>1. UNCHANGED <<sessionVars, daemonVars>>
  BY DEF PortalStep
<1>2. PortalTypeOK /\ Heard(ps, requests, listening)
  BY DEF SInv, TypeOK
<1>3. /\ PortalTypeOK' /\ requests' \subseteq requests /\ listening' = listening
      /\ requests # {} \/ signals # <<>> => requests' # {} \/ signals' # <<>>
  <2>1. CASE \E q \in requests : AnswerCreate(q) \/ AnswerSelect(q) \/ AnswerStart(q)
    BY <1>2, <2>1, AnswerSound
  <2>2. CASE \E s \in Sessions : EndSession(s)
    BY <1>2, <2>2, EndSessionSound
  <2>3. QED
    BY <2>1, <2>2 DEF PortalStep
<1>4. Heard(ps', requests', listening')
  BY <1>1, <1>2, <1>3 DEF Heard, sessionVars
<1>5. QED
  BY <1>1, <1>3, <1>4 DEF SInv, TypeOK, SessionTypeOK, sessionVars, daemonVars,
     NeverWedged, Sound

\* In the initial state.
LEMMA SInvInit == Init => SInv
<1> SUFFICES ASSUME Init PROVE SInv
  OBVIOUS
<1>1. PortalTypeOK
  BY DEF Init, PortalInit, PortalTypeOK
<1>2. SessionTypeOK /\ ps.state = "init" /\ ps.path = NoSession /\ ps.hasToken = cached
  BY DEF Init, SessionInit, SessionTypeOK, Blank, Ps, PathOrNone, Errors
<1>3. requests = {}
  BY DEF Init, PortalInit
<1>4. TypeOK
  BY <1>1, <1>2 DEF Init, TypeOK
<1>5. QED
  BY <1>2, <1>3, <1>4 DEF SInv, Sound, Heard, NeverWedged, SessionTypeOK

\* Every step of the daemon and of the portal keeps the invariant.
LEMMA SInvNext == SInv /\ [Next]_vars => SInv'
<1> SUFFICES ASSUME SInv, [Next]_vars PROVE SInv'
  OBVIOUS
<1>0. DaemonTypeOK
  BY DEF SInv, TypeOK, DaemonTypeOK
<1>1. CASE Boot
  BY <1>0, <1>1, BeginFlowSound DEF Boot, DaemonTypeOK
<1>2. CASE SessionStart
  <2>1. eisWatched' = eisWatched /\ watchFd' = watchFd
    BY <1>2 DEF SessionStart
  <2>2. CASE BeginFlow("person")
    BY <1>0, <2>1, <2>2, BeginFlowSound DEF DaemonTypeOK
  <2>3. CASE UNCHANGED <<portalVars, sessionVars, running, unread, asker>>
    BY <1>0, <2>1, <2>3, DaemonOnly DEF DaemonTypeOK
  <2>4. QED
    BY <1>2, <2>2, <2>3 DEF SessionStart
<1>3. CASE Status \/ InputServed
  <2>1. MaybeWatchEis /\ UNCHANGED <<portalVars, sessionVars, running, unread, asker>>
    BY <1>3 DEF Status, InputServed
  <2>2. QED
    BY <1>0, <2>1, MaybeWatchEisTyped, DaemonOnly DEF DaemonTypeOK
<1>4. CASE InputStarts
  BY <1>4, MaybeWatchEisTyped, BeginFlowSound DEF InputStarts
<1>5. CASE OnSignal
  BY <1>5, OnSignalSound
<1>6. CASE EisSends
  BY <1>0, <1>6, DaemonOnly DEF EisSends, DaemonTypeOK
<1>7. CASE OnEisReady
  BY <1>0, <1>7, DaemonOnly DEF OnEisReady, DaemonTypeOK
<1>8. CASE Stop
  BY <1>8, StopSound
<1>9. CASE PortalStep
  BY <1>9, PortalStepSound
<1>10. CASE UNCHANGED vars
  <2>1. UNCHANGED <<portalVars, sessionVars, running>> /\ UNCHANGED daemonVars
    BY <1>10 DEF vars, daemonVars
  <2>2. QED
    BY <1>0, <2>1, DaemonOnly DEF DaemonTypeOK, daemonVars
<1>11. QED
  BY <1>1, <1>2, <1>3, <1>4, <1>5, <1>6, <1>7, <1>8, <1>9, <1>10 DEF Next

\* The inductive invariant holds in every behaviour.
THEOREM DaemonInvariant == Spec => []SInv
<1>1. Init => SInv
  BY SInvInit
<1>2. SInv /\ [Next]_vars => SInv'
  BY SInvNext
<1>3. QED
  BY <1>1, <1>2, PTL DEF Spec

-----------------------------------------------------------------------------
(* The theorems.                                                           *)

\* The fields of the session, the portal's view of it and the daemon's watch
\* keep their types: in particular last_error is always None or a typed error.
THEOREM DaemonTypeCorrect == Spec => []TypeOK
<1>1. SInv => TypeOK
  BY DEF SInv
<1>2. QED
  BY <1>1, DaemonInvariant, PTL

\* No order of callbacks, late ones included, leaves the session started
\* without the path, transport and EIS client the input methods use.
THEOREM DaemonStartedUsable == Spec => []StartedUsable
<1>1. SInv => StartedUsable
  BY DEF SInv, Sound, StartedUsable
<1>2. QED
  BY <1>1, DaemonInvariant, PTL

\* has_token always tells whether the token file holds a token.
THEOREM DaemonHasTokenTruthful == Spec => []HasTokenTruthful
<1>1. SInv => HasTokenTruthful
  BY DEF SInv, Sound, HasTokenTruthful
<1>2. QED
  BY <1>1, DaemonInvariant, PTL

\* A session that is starting always has an answer or a signal to come.
THEOREM DaemonNeverWedged == Spec => []NeverWedged
<1>1. SInv => NeverWedged
  BY DEF SInv
<1>2. QED
  BY <1>1, DaemonInvariant, PTL

-----------------------------------------------------------------------------
(* Without stale signals: the inductive invariant.                         *)

\* Whatever waits is one request or one answer, of the flow begun last, and
\* perhaps one Closed behind the answer.
OneAnswer ==
    /\ Len(signals) <= 2
    /\ \A i \in DOMAIN signals :
         signals[i].kind # "closed" => i = 1 /\ signals[i].flow = flows
    /\ Len(signals) = 2 => signals[1].kind # "closed"
    /\ signals # <<>> => requests = {}
    /\ \A q, r \in requests : q = r
    /\ \A q \in requests : q.flow = flows

\* It is about the session the object holds, which is waiting for it; where
\* Closed is on its way the portal has closed that session.
AboutSession ==
    /\ \A q \in requests :
         /\ ps.state = "starting"
         /\ q.path = ps.path
         /\ q.kind = "create" <=> ps.path = NoSession
    /\ \A i \in DOMAIN signals :
         IF signals[i].kind = "closed"
         THEN /\ signals[i].path \in Sessions
              /\ signals[i] = Closed(signals[i].path)
              /\ portal[signals[i].path] = "closed"
              /\ ps.path = signals[i].path \/ (ps.path = NoSession /\ ps.state = "stopped")
         ELSE /\ ps.state = "starting"
              /\ IF signals[i].kind = "create" THEN ps.path = NoSession
                 ELSE ps.path = signals[i].path /\ ps.path \in Sessions

\* A flow that is under way has not failed.
NoOldError == ps.state \in {"starting", "started"} => ps.lastError = "none"

\* Before the first flow nothing is pending and nothing is open.
NotBegun ==
    flows = 0 => requests = {} /\ signals = <<>> /\ ps.path = NoSession

OInv ==
    /\ SInv
    /\ OneAnswer
    /\ NotBegun
    /\ running => AboutSession
    /\ NoOldError
    /\ TransportOfSession
    /\ OpenIsGranted

-----------------------------------------------------------------------------
(* A signal is dispatched.                                                 *)

\* A queue of at most two, and what is left when its head is taken.
LEMMA QueueOfTwo ==
    ASSUME NEW S, NEW s \in Seq(S), s # <<>>, Len(s) <= 2
    PROVE  /\ Head(s) = s[1] /\ s[1] \in S /\ 1 \in DOMAIN s
           /\ Tail(s) \in Seq(S)
           /\ \/ Len(s) = 1 /\ Tail(s) = <<>>
              \/ /\ Len(s) = 2 /\ 2 \in DOMAIN s
                 /\ Len(Tail(s)) = 1 /\ Tail(s)[1] = s[2]
<1>1. Len(s) \in Nat /\ Len(s) # 0
  OBVIOUS
<1>2. \A n \in Nat : n # 0 /\ n <= 2 => n = 1 \/ n = 2
  OBVIOUS
<1>3. Len(s) = 1 \/ Len(s) = 2
  BY <1>1, <1>2
<1>4. Head(s) = s[1] /\ s[1] \in S /\ 1 \in DOMAIN s /\ Tail(s) \in Seq(S)
  BY <1>1, <1>3
<1>5. CASE Len(s) = 1
  <2>1. Len(Tail(s)) = 0
    BY <1>5
  <2>2. Tail(s) = <<>>
    BY <1>4, <2>1, EmptySeq
  <2>3. QED
    BY <1>4, <1>5, <2>2
<1>6. CASE Len(s) = 2
  BY <1>4, <1>6
<1>7. QED
  BY <1>3, <1>5, <1>6

\* A queue of at most one, with another signal behind it.
LEMMA QueueGrows ==
    ASSUME NEW S, NEW s \in Seq(S), NEW e \in S,
           s = <<>> \/ (Len(s) = 1 /\ DOMAIN s = {1})
    PROVE  \/ /\ DOMAIN Append(s, e) = {1} /\ Len(Append(s, e)) = 1
              /\ Append(s, e)[1] = e
           \/ /\ DOMAIN Append(s, e) = {1, 2} /\ Len(Append(s, e)) = 2
              /\ Append(s, e)[1] = s[1] /\ Append(s, e)[2] = e
              /\ 1 \in DOMAIN s
<1>1. CASE s = <<>>
  <2>1. Append(s, e) = <<e>>
    BY <1>1
  <2>2. QED
    BY <2>1
<1>2. CASE Len(s) = 1 /\ DOMAIN s = {1}
  <2>0. /\ Append(s, e) \in Seq(S)
        /\ Len(Append(s, e)) = Len(s) + 1
        /\ \A i \in 1 .. Len(s) : Append(s, e)[i] = s[i]
        /\ Append(s, e)[Len(s) + 1] = e
    BY AppendProperties
  <2>1. Len(Append(s, e)) = 2 /\ DOMAIN Append(s, e) = 1..2
    BY <1>2, <2>0
  <2>2. Append(s, e)[1] = s[1] /\ Append(s, e)[2] = e
    BY <1>2, <2>0
  <2>3. 1..2 = {1, 2}
    OBVIOUS
  <2>4. QED
    BY <1>2, <2>1, <2>2, <2>3
<1>3. QED
  BY <1>1, <1>2

\* What a callback leaves: a failed session that waits for nothing, one that
\* waits for the answer to its next request, or one that is started.
Failed == ps'.state = "stopped" /\ ps'.path = NoSession /\ requests' = {}

WaitsOn(q) ==
    /\ ps'.state = "starting" /\ ps'.lastError = "none"
    /\ ps'.path \in Sessions
    /\ requests' = {q}
    /\ q.kind # "create" /\ q.flow = flows /\ q.path = ps'.path

Begun ==
    /\ ps'.state = "started" /\ ps'.lastError = "none"
    /\ requests' = {}
    /\ Granted(ps'.path)
    /\ IF ps'.transport = "eis" THEN ps'.eisPath = ps'.path /\ ps'.path \in eisMode'
       ELSE ps'.path \notin eisMode'

\* _fail.
LEMMA FailFails ==
    ASSUME NEW p \in Ps, NEW e, ps' = Fail(p, e), requests' = {}
    PROVE  Failed
BY DEF Fail, Failed, Ps

\* Without stale replies, a call leaves a request outstanding when the portal
\* has accepted it and not otherwise.
LEMMA CallLeaves ==
    ASSUME Stale = {}, requests = {}, NEW q, NEW p \in Ps,
           p.state = "starting", p.lastError = "none", p.path \in Sessions,
           q.kind # "create", q.flow = flows, q.path = p.path,
           NEW r \in DBusErrors \cup {"accepted"},
           ps' = IF r = "accepted" THEN p ELSE Fail(p, MapDBusError[r]),
           requests' = Outstanding(r, q)
    PROVE  Failed \/ (r = "accepted" /\ WaitsOn(q))
<1>1. CASE r = "accepted"
  BY <1>1 DEF Outstanding, WaitsOn
<1>2. CASE r # "accepted"
  BY <1>2, FailFails DEF Outstanding
<1>3. QED
  BY <1>1, <1>2

\* _select_devices, with or without its retry.
LEMMA SelectDevicesLeaves ==
    ASSUME Stale = {}, requests = {}, NEW p \in Ps, NEW m,
           p.state = "starting", p.lastError = "none", p.path \in Sessions,
           m.flow = flows, SelectDevices(p, m)
    PROVE  Failed \/ \E q : WaitsOn(q)
<1> DEFINE q == [kind |-> "select", flow |-> m.flow, path |-> p.path]
           p1 == [p EXCEPT !.hasToken = FALSE, !.retried = TRUE]
           Call(o, r) ==
               /\ ps' = IF r = "accepted" THEN o ELSE Fail(o, MapDBusError[r])
               /\ requests' = Outstanding(r, q)
<1>1. CallOutcomes(Live(p.path)) \subseteq DBusErrors \cup {"accepted"}
  BY DEF CallOutcomes
<1>2. /\ p1 \in Ps /\ p1.state = "starting" /\ p1.lastError = "none"
      /\ p1.path = p.path
  BY DEF Ps
<1>3. q.kind # "create" /\ q.flow = flows /\ q.path = p.path
  OBVIOUS
<1>4. \/ \E r \in CallOutcomes(Live(p.path)) : Call(p, r) \/ Call(p1, r)
      \/ ps' = Fail(p, "PortalFailed") /\ requests' = requests
  BY DEF SelectDevices
<1> HIDE DEF q, p1
<1>5. QED
  BY <1>1, <1>2, <1>3, <1>4, CallLeaves, FailFails

\* _choose_transport starts the session only on a session that is granted, and
\* reports the transport that works on it.
LEMMA ChooseTransportLeaves ==
    ASSUME NEW p \in Ps, p.state = "started", p.lastError = "none",
           requests' = {}, portal' = portal, ChooseTransport(p)
    PROVE  Failed \/ Begun
<1>1. CASE ProbeNotify(p)
  <2>1. CASE ps' = Fail(p, "PortalFailed")
    BY <2>1, FailFails
  <2>2. CASE /\ Granted(p.path) /\ p.path \notin eisMode
             /\ ps' = [p EXCEPT !.transport = "notify"]
    BY <1>1, <2>2 DEF ProbeNotify, Begun, Ps
  <2>3. QED
    BY <1>1, <2>1, <2>2 DEF ProbeNotify
<1>2. CASE ConnectEis(p)
  <2> PICK fd \in Fds \ {p.eisFd}, ok \in BOOLEAN :
         LET p1 == [p EXCEPT !.eisFd = fd, !.eisPath = p.path, !.eisReady = ok]
         IN  ps' = IF ok THEN [p1 EXCEPT !.transport = "eis"]
                   ELSE Fail(p1, "PortalFailed")
    BY <1>2 DEF ConnectEis
  <2> DEFINE p1 == [p EXCEPT !.eisFd = fd, !.eisPath = p.path, !.eisReady = ok]
  <2>1. Granted(p.path) /\ eisMode' = eisMode \cup {p.path}
    BY <1>2 DEF ConnectEis
  <2>2. /\ p1 \in Ps /\ p1.state = "started" /\ p1.lastError = "none"
        /\ p1.path = p.path /\ p1.eisPath = p.path
    BY DEF Ps, Granted
  <2>3. ps' = IF ok THEN [p1 EXCEPT !.transport = "eis"]
              ELSE Fail(p1, "PortalFailed")
    OBVIOUS
  <2> HIDE DEF p1
  <2>4. CASE ok
    BY <2>1, <2>2, <2>3, <2>4 DEF Begun, Ps
  <2>5. CASE ~ok
    BY <2>2, <2>3, <2>5, FailFails
  <2>6. QED
    BY <2>4, <2>5
<1>3. QED
  BY <1>1, <1>2 DEF ChooseTransport

\* A response finds the session waiting for it and nothing outstanding; the
\* queue behind it is empty unless the portal has closed that session.
LEMMA ResponseFinds ==
    ASSUME OInv, running, signals # <<>>, NEW m, m = Head(signals), m.kind # "closed"
    PROVE  /\ m \in Signal /\ m.flow = flows
           /\ requests = {}
           /\ ps \in Ps /\ ps.state = "starting" /\ ps.lastError = "none"
           /\ m.kind = "create" => ps.path = NoSession
           /\ m.kind # "create" => ps.path \in Sessions
           /\ \/ Tail(signals) = <<>>
              \/ ps.path \in Sessions /\ portal[ps.path] = "closed"
<1>1. /\ signals \in Seq(Signal) /\ ps \in Ps
      /\ OneAnswer /\ AboutSession /\ NoOldError
  BY DEF OInv, SInv, TypeOK, PortalTypeOK, SessionTypeOK
<1>2. /\ m = signals[1] /\ 1 \in DOMAIN signals /\ m \in Signal
      /\ Tail(signals) = <<>> \/ (Len(signals) = 2 /\ 2 \in DOMAIN signals)
  <2>1. Len(signals) <= 2
    BY <1>1 DEF OneAnswer
  <2>2. QED
    BY <1>1, <2>1, QueueOfTwo
<1>3. /\ m.flow = flows /\ requests = {}
      /\ ps.state = "starting" /\ ps.lastError = "none"
      /\ m.kind = "create" => ps.path = NoSession
      /\ m.kind # "create" => ps.path \in Sessions
  BY <1>1, <1>2 DEF OneAnswer, AboutSession, NoOldError
<1>4. CASE Len(signals) = 2 /\ 2 \in DOMAIN signals
  <2>1. signals[2].kind = "closed"
    BY <1>1, <1>2, <1>4 DEF OneAnswer
  <2>2. ps.path \in Sessions /\ portal[ps.path] = "closed"
    BY <1>1, <1>2, <1>3, <1>4, <2>1 DEF AboutSession
  <2>3. QED
    BY <1>1, <1>2, <1>3, <2>2
<1>5. QED
  BY <1>1, <1>2, <1>3, <1>4

\* What the callback of a response leaves.  Where Closed is behind it, the call
\* or the transport fails, so that nothing new is begun.
LEMMA ResponseLeaves ==
    ASSUME Stale = {}, OInv, running, DispatchSignal, Head(signals).kind # "closed"
    PROVE  \/ Failed
           \/ signals' = <<>> /\ (Begun \/ \E q : WaitsOn(q))
<1> DEFINE m == Head(signals)
<1>1. /\ signals # <<>> /\ signals' = Tail(signals)
      /\ OnCreateSession(m) \/ OnSelectDevices(m) \/ OnStart(m)
  BY DEF DispatchSignal, OnClosed
<1>2. /\ m \in Signal /\ m.flow = flows
      /\ requests = {}
      /\ ps \in Ps /\ ps.state = "starting" /\ ps.lastError = "none"
      /\ m.kind = "create" => ps.path = NoSession
      /\ m.kind # "create" => ps.path \in Sessions
      /\ \/ signals' = <<>>
         \/ ps.path \in Sessions /\ portal[ps.path] = "closed"
  BY <1>1, ResponseFinds
<1>3. portal' = portal
  BY DispatchFrame DEF OInv, SInv, TypeOK, PortalTypeOK
<1> HIDE DEF m
<1>4. CASE OnCreateSession(m)
  <2>1. signals' = <<>>
    BY <1>2, <1>4 DEF OnCreateSession
  <2>2. CASE ps' = Fail(ps, "PortalFailed") /\ requests' = requests
    BY <1>2, <2>2, FailFails
  <2>3. CASE m.code = 0 /\ SelectDevices([ps EXCEPT !.path = m.path], m)
    <3> DEFINE p == [ps EXCEPT !.path = m.path]
    <3>1. m.path \in Sessions
      BY <1>2, <1>4, <2>3 DEF OnCreateSession, Signal
    <3>2. p \in Ps /\ p.state = "starting" /\ p.lastError = "none" /\ p.path \in Sessions
      BY <1>2, <3>1 DEF Ps, PathOrNone
    <3>3. SelectDevices(p, m)
      BY <2>3
    <3> HIDE DEF p
    <3>4. QED
      BY <1>2, <2>1, <3>2, <3>3, SelectDevicesLeaves
  <2>4. QED
    BY <1>4, <2>2, <2>3 DEF OnCreateSession
<1>5. CASE OnSelectDevices(m)
  <2>1. CASE ps' = Fail(ps, "PortalFailed") /\ requests' = requests
    BY <1>2, <2>1, FailFails
  <2>2. CASE \E r \in CallOutcomes(portal[ps.path] = "open") :
               /\ ps' = IF r = "accepted" THEN ps
                        ELSE Fail(ps, MapDBusError[r])
               /\ requests' = Outstanding(r, [kind |-> "start", flow |-> m.flow,
                                              path |-> ps.path])
    <3> DEFINE q == [kind |-> "start", flow |-> m.flow, path |-> ps.path]
    <3> PICK r \in CallOutcomes(portal[ps.path] = "open") :
               /\ ps' = IF r = "accepted" THEN ps
                        ELSE Fail(ps, MapDBusError[r])
               /\ requests' = Outstanding(r, q)
      BY <2>2
    <3>1. /\ r \in DBusErrors \cup {"accepted"}
          /\ r = "accepted" => portal[ps.path] = "open"
      BY DEF CallOutcomes, DBusErrors
    <3>2. q.kind # "create" /\ q.flow = flows /\ q.path = ps.path
      BY <1>2
    <3>3. ps.path \in Sessions
      BY <1>2, <1>5 DEF OnSelectDevices
    <3> HIDE DEF q
    <3>4. Failed \/ (r = "accepted" /\ WaitsOn(q))
      BY <1>2, <3>1, <3>2, <3>3, CallLeaves
    <3>5. QED
      BY <1>2, <3>1, <3>4
  <2>3. QED
    BY <1>5, <2>1, <2>2 DEF OnSelectDevices
<1>6. CASE OnStart(m)
  <2>1. requests' = {}
    BY <1>2, <1>6 DEF OnStart
  <2>2. CASE \E e : ps' = Fail(ps, e)
    BY <1>2, <2>1, <2>2, FailFails
  <2>3. CASE ChooseTransport([ps EXCEPT !.state = "started", !.devices = TRUE,
                                        !.hasToken = @ \/ m.token])
    <3> DEFINE p == [ps EXCEPT !.state = "started", !.devices = TRUE,
                               !.hasToken = @ \/ m.token]
    <3>1. p \in Ps /\ p.state = "started" /\ p.lastError = "none" /\ p.path = ps.path
      BY <1>2 DEF Ps, Signal
    <3>2. ChooseTransport(p)
      BY <2>3
    <3> HIDE DEF p
    <3>3. Failed \/ Begun
      BY <1>3, <2>1, <3>1, <3>2, ChooseTransportLeaves
    <3>4. ps'.path \in {ps.path, NoSession}
      BY <3>1, <3>2, ChooseTransportSound
    <3>5. Begun => signals' = <<>>
      BY <1>2, <3>4 DEF Begun, Granted
    <3>6. QED
      BY <3>3, <3>5
  <2>4. QED
    BY <1>6, <2>2, <2>3 DEF OnStart
<1>7. QED
  BY <1>1, <1>4, <1>5, <1>6

\* Closed finds nothing else in the queue and nothing outstanding, and leaves a
\* session that is stopped.
LEMMA ClosedLeaves ==
    ASSUME OInv, DispatchSignal, Head(signals).kind = "closed"
    PROVE  /\ signals' = <<>> /\ requests' = {}
           /\ ps'.state = "stopped"
           /\ (ps'.lastError = "PermissionDenied") = (ps.lastError = "PermissionDenied")
<1>1. signals \in Seq(Signal) /\ ps \in Ps /\ OneAnswer
  BY DEF OInv, SInv, TypeOK, PortalTypeOK, SessionTypeOK
<1>2. OnClosed(Head(signals)) /\ signals' = Tail(signals) /\ signals # <<>>
  BY DEF DispatchSignal, OnCreateSession, OnSelectDevices, OnStart
<1>3. Tail(signals) = <<>> /\ requests = {}
  BY <1>1, <1>2, QueueOfTwo DEF OneAnswer
<1>4. QED
  BY <1>1, <1>2, <1>3 DEF OnClosed, Ps

\* A signal is dispatched, whatever it is.
LEMMA OnSignalOrderly ==
    ASSUME Stale = {}, OInv, OnSignal
    PROVE  OInv'
<1>1. SInv'
  BY OnSignalSound DEF OInv
<1>2. /\ running /\ DispatchSignal /\ running' = running
      /\ portal' = portal /\ flows' = flows
      /\ signals \in Seq(Signal) /\ OneAnswer /\ AboutSession
      /\ signals' = Tail(signals) /\ signals # <<>>
  BY DispatchFrame DEF OnSignal, OInv, SInv, TypeOK, PortalTypeOK, DispatchSignal
<1>3. NotBegun'
  BY <1>2 DEF OInv, NotBegun
<1>4. CASE Head(signals).kind = "closed"
  <2>1. signals' = <<>> /\ requests' = {} /\ ps'.state = "stopped"
    BY <1>2, <1>4, ClosedLeaves
  <2>2. QED
    BY <1>3, <1>1, <2>1 DEF OInv, OneAnswer, AboutSession, NoOldError, TransportOfSession,
       OpenIsGranted
<1>5. CASE Head(signals).kind # "closed"
  <2>1. /\ requests = {}
        /\ \/ signals' = <<>>
           \/ /\ Len(signals') = 1 /\ DOMAIN signals' = {1}
              /\ signals'[1] = signals[2] /\ 2 \in DOMAIN signals
              /\ signals[2].kind = "closed"
    BY <1>2, QueueOfTwo DEF OneAnswer
  <2>2. CASE Failed
    <3>1. OneAnswer'
      BY <1>2, <2>1, <2>2 DEF OneAnswer, Failed
    <3>2. AboutSession'
      BY <1>2, <2>1, <2>2 DEF OneAnswer, AboutSession, Failed
    <3>3. QED
      BY <1>3, <1>1, <2>2, <3>1, <3>2 DEF OInv, Failed, NoOldError, TransportOfSession,
         OpenIsGranted
  <2>3. CASE signals' = <<>> /\ \E q : WaitsOn(q)
    BY <1>3, <1>1, <1>2, <2>3 DEF OInv, OneAnswer, AboutSession, NoOldError,
       TransportOfSession, OpenIsGranted, WaitsOn
  <2>4. CASE signals' = <<>> /\ Begun
    BY <1>3, <1>1, <1>2, <2>4 DEF OInv, OneAnswer, AboutSession, NoOldError,
       TransportOfSession, OpenIsGranted, Begun, Granted
  <2>5. QED
    BY <1>2, <1>5, <2>2, <2>3, <2>4, ResponseLeaves
<1>6. QED
  BY <1>4, <1>5

-----------------------------------------------------------------------------
(* A flow begins.                                                          *)

\* start() finds nothing outstanding and nothing queued: its own request, if
\* the portal accepts it, is the only one.
LEMMA StartFlowOrderly ==
    ASSUME Stale = {}, OInv, SInv', StartFlow, running' = running,
           requests = {}, signals = <<>>
    PROVE  OInv'
<1> DEFINE q == [kind |-> "create", flow |-> flows + 1, path |-> NoSession]
<1>1. /\ flows \in Nat /\ flows' = flows + 1 /\ flows' # 0
      /\ signals' = <<>>
  BY DEF OInv, SInv, TypeOK, SessionTypeOK, StartFlow
<1>2. PICK r \in CallOutcomes(TRUE) :
         /\ ps' = IF r = "accepted" THEN FreshFlow
                  ELSE Fail(FreshFlow, MapDBusError[r])
         /\ requests' = Outstanding(r, q)
  BY DEF StartFlow
<1>3. /\ FreshFlow \in Ps /\ FreshFlow.state = "starting"
      /\ FreshFlow.path = NoSession /\ FreshFlow.lastError = "none"
  BY FreshFlowStarts DEF OInv, SInv, TypeOK, SessionTypeOK, FreshFlow, Blank
<1>4. q.kind = "create" /\ q.flow = flows' /\ q.path = NoSession
  BY <1>1
<1> HIDE DEF q
<1>5. CASE r = "accepted"
  <2>1. requests' = {q} /\ ps' = FreshFlow
    BY <1>2, <1>5 DEF Outstanding
  <2>2. QED
    BY <1>1, <1>3, <1>4, <2>1 DEF OInv, OneAnswer, AboutSession, NotBegun,
       NoOldError, TransportOfSession, OpenIsGranted
<1>6. CASE r # "accepted"
  <2>1. requests' = {} /\ ps'.state = "stopped"
    BY <1>2, <1>3, <1>6 DEF Outstanding, Fail, Ps
  <2>2. QED
    BY <1>1, <2>1 DEF OInv, OneAnswer, AboutSession, NotBegun, NoOldError,
       TransportOfSession, OpenIsGranted
<1>7. QED
  BY <1>5, <1>6

\* A session that is neither starting nor started waits for nothing once the
\* signals in flight have been dispatched.
LEMMA SettledIsQuiet ==
    ASSUME Stale = {}, OInv, running, Settled, ps.state \notin {"starting", "started"}
    PROVE  requests = {} /\ signals = <<>>
<1>1. signals \in Seq(Signal) /\ AboutSession
  BY DEF OInv, SInv, TypeOK, PortalTypeOK
<1>2. \A i \in DOMAIN signals : FALSE
  BY <1>1 DEF AboutSession, Settled
<1>3. signals # <<>> => 1 \in DOMAIN signals
  <2>1. Len(signals) \in Nat /\ (Len(signals) = 0 => signals = <<>>)
    BY <1>1, EmptySeq
  <2>2. \A n \in Nat : n # 0 => 1 \in 1..n
    OBVIOUS
  <2>3. QED
    BY <1>1, <2>1, <2>2
<1>4. QED
  BY <1>1, <1>2, <1>3 DEF AboutSession

\* start(), whoever asked for it.
LEMMA BeginFlowOrderly ==
    ASSUME Stale = {}, OInv, running, NEW by \in {"person", "input"}, BeginFlow(by),
           Settled \/ flows = 0,
           eisWatched' \in BOOLEAN, watchFd' \in Fds \cup {NoFd}
    PROVE  OInv'
<1>1. SInv'
  BY BeginFlowSound DEF OInv
<1>2. requests = {} /\ signals = <<>>
  <2>1. CASE Settled
    BY <2>1, SettledIsQuiet DEF BeginFlow, StartFlow
  <2>2. CASE flows = 0
    BY <2>2 DEF OInv, NotBegun
  <2>3. QED
    BY <2>1, <2>2
<1>3. QED
  BY <1>1, <1>2, StartFlowOrderly DEF BeginFlow

-----------------------------------------------------------------------------
(* The portal.                                                             *)

\* A request that is answered was the only thing pending.  Its response takes
\* its place, with Closed behind it if the portal closes the session too.
LEMMA AnswerLeaves ==
    ASSUME OInv, AboutSession, NEW q \in requests,
           AnswerCreate(q) \/ AnswerSelect(q) \/ AnswerStart(q)
    PROVE  /\ requests' = {} /\ q.flow = flows
           /\ ps.state = "starting"
           /\ q.kind \in RequestKinds
           /\ q.kind = "create" => ps.path = NoSession
           /\ q.kind # "create" => ps.path \in Sessions
           /\ \E s, c, t :
                /\ q.kind # "create" => s = ps.path
                /\ \/ signals' = <<Response(q, s, c, t)>>
                   \/ /\ ps.path \in Sessions /\ portal'[ps.path] = "closed"
                      /\ signals' = <<Response(q, s, c, t), Closed(ps.path)>>
<1>1. /\ q \in Request /\ ps \in Ps /\ OneAnswer
      /\ portal \in [Sessions -> {"unused", "open", "granted", "closed"}]
      /\ signals \in Seq(Signal)
  BY DEF OInv, SInv, TypeOK, PortalTypeOK, SessionTypeOK
<1>2. signals = <<>> /\ requests = {q} /\ q.flow = flows
  BY <1>1 DEF OneAnswer
<1>3. /\ ps.state = "starting" /\ q.path = ps.path
      /\ q.kind \in RequestKinds
      /\ q.kind = "create" <=> ps.path = NoSession
      /\ q.kind # "create" => ps.path \in Sessions
  BY <1>1 DEF AboutSession, Request, Ps, PathOrNone
<1>4. requests' = {}
  BY <1>2 DEF AnswerCreate, AnswerSelect, AnswerStart
<1>5. \A a : Append(signals, a) = <<a>>
  BY <1>2
<1>6. \A a, b : signals \o <<a, b>> = <<a, b>>
  BY <1>2
<1> DEFINE Left(s, c, t) ==
             \/ signals' = <<Response(q, s, c, t)>>
             \/ /\ ps.path \in Sessions /\ portal'[ps.path] = "closed"
                /\ signals' = <<Response(q, s, c, t), Closed(ps.path)>>
<1>7. ASSUME NEW c, Refuse(q, c), q.kind # "create"
      PROVE  Left(ps.path, c, FALSE)
  BY <1>1, <1>3, <1>5, <1>6, <1>7 DEF Refuse
<1>8. \A s, c, t : signals' = <<Response(q, s, c, t)>> => Left(s, c, t)
  OBVIOUS
<1> SUFFICES \E s, c, t : (q.kind # "create" => s = ps.path) /\ Left(s, c, t)
  BY <1>2, <1>3, <1>4
<1> HIDE DEF Left
<1>9. CASE AnswerCreate(q)
  <2>1. q.kind = "create" /\ \E s, c : signals' = <<Response(q, s, c, FALSE)>>
    BY <1>5, <1>9 DEF AnswerCreate
  <2>2. QED
    BY <1>8, <2>1
<1>10. CASE AnswerSelect(q)
  <2>1. q.kind # "create"
    BY <1>10 DEF AnswerSelect
  <2>2. signals' = <<Response(q, q.path, 0, FALSE)>> \/ Refuse(q, 2)
    BY <1>5, <1>10 DEF AnswerSelect
  <2>3. QED
    BY <1>3, <1>7, <1>8, <2>1, <2>2
<1>11. CASE AnswerStart(q)
  <2>1. q.kind # "create"
    BY <1>11 DEF AnswerStart
  <2>2. \/ \E t \in BOOLEAN : signals' = <<Response(q, q.path, 0, t)>>
        \/ \E c \in {1, 2} : Refuse(q, c)
    BY <1>5, <1>11 DEF AnswerStart
  <2>3. QED
    BY <1>3, <1>7, <1>8, <2>1, <2>2
<1>12. QED
  BY <1>9, <1>10, <1>11

\* A request is answered.
LEMMA AnswerOrderly ==
    ASSUME OInv, running, SInv', UNCHANGED <<sessionVars, daemonVars>>,
           NEW q \in requests,
           AnswerCreate(q) \/ AnswerSelect(q) \/ AnswerStart(q)
    PROVE  OInv'
<1>1. /\ ps' = ps /\ flows' = flows /\ running' = running
      /\ AboutSession /\ NoOldError /\ NotBegun
  BY DEF OInv, sessionVars, daemonVars
<1>2. /\ requests' = {} /\ q.flow = flows
      /\ ps.state = "starting"
      /\ q.kind \in RequestKinds
      /\ q.kind = "create" => ps.path = NoSession
      /\ q.kind # "create" => ps.path \in Sessions
      /\ \E s, c, t :
           /\ q.kind # "create" => s = ps.path
           /\ \/ signals' = <<Response(q, s, c, t)>>
              \/ /\ ps.path \in Sessions /\ portal'[ps.path] = "closed"
                 /\ signals' = <<Response(q, s, c, t), Closed(ps.path)>>
  BY <1>1, AnswerLeaves
<1> PICK s, c, t :
           /\ q.kind # "create" => s = ps.path
           /\ \/ signals' = <<Response(q, s, c, t)>>
              \/ /\ ps.path \in Sessions /\ portal'[ps.path] = "closed"
                 /\ signals' = <<Response(q, s, c, t), Closed(ps.path)>>
  BY <1>2
<1> DEFINE a == Response(q, s, c, t)
           b == Closed(ps.path)
<1>3. /\ a.kind # "closed" /\ a.kind = q.kind /\ a.flow = flows /\ a.path = s
      /\ b.kind = "closed" /\ b.path = ps.path
  BY <1>2 DEF Response, Closed, RequestKinds
<1>4. \/ signals' = <<a>>
      \/ /\ ps.path \in Sessions /\ portal'[ps.path] = "closed"
         /\ signals' = <<a, b>> /\ b = Closed(ps.path)
  OBVIOUS
<1> HIDE DEF a, b
<1>5. OneAnswer' /\ AboutSession'
  <2>1. CASE signals' = <<a>>
    <3>1. DOMAIN signals' = {1} /\ Len(signals') = 1 /\ signals'[1] = a
      BY <2>1
    <3>2. QED
      BY <1>1, <1>2, <1>3, <3>1 DEF OneAnswer, AboutSession
  <2>2. CASE /\ ps.path \in Sessions /\ portal'[ps.path] = "closed"
             /\ signals' = <<a, b>> /\ b = Closed(ps.path)
    <3>1. /\ DOMAIN signals' = {1, 2} /\ Len(signals') = 2
          /\ signals'[1] = a /\ signals'[2] = b
      BY <2>2
    <3>2. OneAnswer'
      BY <1>1, <1>2, <1>3, <3>1 DEF OneAnswer
    <3>3. AboutSession'
      BY <1>1, <1>2, <1>3, <2>2, <3>1 DEF AboutSession
    <3>4. QED
      BY <3>2, <3>3
  <2>3. QED
    BY <1>4, <2>1, <2>2
<1>6. NotBegun' /\ NoOldError' /\ TransportOfSession' /\ OpenIsGranted'
  BY <1>1, <1>2 DEF NotBegun, NoOldError, TransportOfSession, OpenIsGranted
<1>7. QED
  BY <1>5, <1>6 DEF OInv

\* The portal ends the session in use: no request is left, and Closed is
\* behind the answer that may be queued.
LEMMA EndSessionOrderly ==
    ASSUME Stale = {}, OInv, running, SInv', UNCHANGED <<sessionVars, daemonVars>>,
           NEW s \in Sessions, ps.path = s, EndSession(s)
    PROVE  OInv'
<1>1. /\ ps' = ps /\ flows' = flows /\ running' = running /\ eisMode' = eisMode
      /\ OneAnswer /\ AboutSession /\ NoOldError /\ NotBegun
      /\ signals \in Seq(Signal)
      /\ portal \in [Sessions -> {"unused", "open", "granted", "closed"}]
  BY DEF OInv, SInv, TypeOK, PortalTypeOK, sessionVars, daemonVars, EndSession
<1>2. s \in listening
  BY DEF OInv, SInv, Heard
<1>3. requests' = {}
  BY <1>1 DEF EndSession, AboutSession
<1>4. signals' = Append(signals, Closed(s)) /\ portal'[s] = "closed"
  BY <1>1, <1>2 DEF EndSession
<1>5. \A i \in DOMAIN signals : signals[i].kind # "closed" /\ i = 1
  BY <1>1 DEF AboutSession, OneAnswer, EndSession, Live
<1>6. signals = <<>> \/ (Len(signals) = 1 /\ DOMAIN signals = {1})
  <2>1. 2 \notin DOMAIN signals
    BY <1>5
  <2>2. \A n \in Nat : n # 0 /\ n <= 2 /\ 2 \notin 1..n => n = 1
    OBVIOUS
  <2>3. Len(signals) \in Nat /\ (Len(signals) = 0 => signals = <<>>)
    BY <1>1, EmptySeq
  <2>4. Len(signals) <= 2 /\ DOMAIN signals = 1..Len(signals)
    BY <1>1 DEF OneAnswer
  <2>5. signals = <<>> \/ Len(signals) = 1
    BY <2>1, <2>2, <2>3, <2>4
  <2>6. QED
    BY <2>4, <2>5
<1> DEFINE b == Closed(s)
<1>7. b.kind = "closed" /\ b.path = s /\ b = Closed(s)
  BY DEF Closed
<1>8. signals' = Append(signals, b)
  BY <1>4
<1> HIDE DEF b
<1>9. \/ DOMAIN signals' = {1} /\ Len(signals') = 1 /\ signals'[1] = b
      \/ /\ DOMAIN signals' = {1, 2} /\ Len(signals') = 2
         /\ signals'[1] = signals[1] /\ signals'[2] = b
         /\ 1 \in DOMAIN signals
  BY <1>1, <1>6, <1>7, <1>8, ClosedTyped, QueueGrows
<1>10. OneAnswer'
  <2>1. Len(signals') <= 2
    <3>1. Len(signals') = 1 \/ Len(signals') = 2
      BY <1>9
    <3>2. \A n : n = 1 \/ n = 2 => n <= 2
      OBVIOUS
    <3>3. QED
      BY <3>1, <3>2
  <2>2. \A i \in DOMAIN signals' :
           signals'[i].kind # "closed" => i = 1 /\ signals'[i].flow = flows
    BY <1>1, <1>5, <1>7, <1>9 DEF OneAnswer
  <2>3. Len(signals') = 2 => signals'[1].kind # "closed"
    BY <1>5, <1>9
  <2>4. QED
    BY <1>1, <1>3, <2>1, <2>2, <2>3 DEF OneAnswer
<1>11. AboutSession'
  BY <1>1, <1>3, <1>4, <1>5, <1>7, <1>9 DEF AboutSession
<1>12. NotBegun' /\ NoOldError'
  BY <1>1, PortalAssumption DEF NotBegun, NoOldError
<1>13. TransportOfSession'
  BY <1>1 DEF OInv, TransportOfSession
<1>14. OpenIsGranted'
  BY <1>1, <1>7, <1>9 DEF OpenIsGranted
<1>15. QED
  BY <1>10, <1>11, <1>12, <1>13, <1>14 DEF OInv

-----------------------------------------------------------------------------
(* The rest of the daemon, and all of it.                                  *)

\* stop() ends the loop, so that nothing is dispatched any more.
LEMMA StopOrderly ==
    ASSUME OInv, Stop
    PROVE  OInv'
<1>1. SInv' /\ ps \in Ps
  BY StopSound DEF OInv, SInv, TypeOK, SessionTypeOK
<1>2. /\ ~running'
      /\ UNCHANGED <<flows, eisMode, requests, signals>>
      /\ \/ ps' = ps /\ portal' = portal
         \/ ps'.state = "stopped" /\ ps'.path = NoSession
  BY <1>1 DEF Stop, StopSession, Ps
<1>3. OneAnswer' /\ NotBegun' /\ NoOldError'
  BY <1>2 DEF OInv, OneAnswer, NotBegun, NoOldError
<1>4. TransportOfSession' /\ OpenIsGranted'
  BY <1>2 DEF OInv, TransportOfSession, OpenIsGranted, Granted
<1>5. QED
  BY <1>1, <1>2, <1>3, <1>4 DEF OInv

\* A step that leaves the session and the portal alone.
LEMMA ElsewhereOrderly ==
    ASSUME OInv, SInv', UNCHANGED <<portalVars, sessionVars, running>>
    PROVE  OInv'
BY DEF OInv, OneAnswer, AboutSession, NotBegun, NoOldError, TransportOfSession,
   OpenIsGranted, Granted, portalVars, sessionVars

\* In the initial state.
LEMMA OInvInit == Init => OInv
<1> SUFFICES ASSUME Init PROVE OInv
  OBVIOUS
<1>1. /\ requests = {} /\ signals = <<>>
      /\ ps.state = "init" /\ ps.path = NoSession
  BY DEF Init, PortalInit, SessionInit, Blank
<1>2. QED
  BY <1>1, SInvInit DEF OInv, OneAnswer, AboutSession, NotBegun, NoOldError,
     TransportOfSession, OpenIsGranted

\* Every step keeps the invariant, when no stale signal arrives.
LEMMA OInvNext ==
    ASSUME Stale = {}, OInv, [Next]_vars
    PROVE  OInv'
<1>1. SInv' /\ SInv
  BY SInvNext DEF OInv
<1>2. eisWatched' \in BOOLEAN /\ watchFd' \in Fds \cup {NoFd}
  BY <1>1 DEF SInv, TypeOK
<1>3. CASE Boot
  BY <1>2, <1>3, BeginFlowOrderly DEF Boot, Booting
<1>4. CASE SessionStart
  <2>1. CASE Settled /\ BeginFlow("person")
    BY <1>2, <1>4, <2>1, BeginFlowOrderly DEF SessionStart, Serving
  <2>2. CASE UNCHANGED <<portalVars, sessionVars, running, unread, asker>>
    BY <1>1, <2>2, ElsewhereOrderly
  <2>3. QED
    BY <1>4, <2>1, <2>2 DEF SessionStart
<1>5. CASE InputStarts
  BY <1>2, <1>5, BeginFlowOrderly DEF InputStarts, Serving
<1>6. CASE OnSignal
  BY <1>6, OnSignalOrderly
<1>7. CASE Stop
  BY <1>7, StopOrderly
<1>8. CASE PortalStep
  <2>1. UNCHANGED <<sessionVars, daemonVars>> /\ running
    BY <1>8 DEF PortalStep
  <2>2. CASE \E q \in requests : AnswerCreate(q) \/ AnswerSelect(q) \/ AnswerStart(q)
    BY <1>1, <2>1, <2>2, AnswerOrderly
  <2>3. CASE \E s \in Sessions : ps.path = s /\ EndSession(s)
    BY <1>1, <2>1, <2>3, EndSessionOrderly
  <2>4. QED
    BY <1>8, <2>2, <2>3 DEF PortalStep
<1>9. CASE Status \/ InputServed \/ EisSends \/ OnEisReady \/ UNCHANGED vars
  <2>1. UNCHANGED <<portalVars, sessionVars, running>>
    BY <1>9 DEF Status, InputServed, EisSends, OnEisReady, vars, daemonVars
  <2>2. QED
    BY <1>1, <2>1, ElsewhereOrderly
<1>10. QED
  BY <1>3, <1>4, <1>5, <1>6, <1>7, <1>8, <1>9 DEF Next

\* The inductive invariant holds in every behaviour.
THEOREM OrderlyInvariant ==
    ASSUME Stale = {}
    PROVE  Spec => []OInv
<1>1. Init => OInv
  BY OInvInit
<1>2. OInv /\ [Next]_vars => OInv'
  BY OInvNext
<1>3. QED
  BY <1>1, <1>2, PTL DEF Spec

-----------------------------------------------------------------------------
(* The theorems about such a portal.                                       *)

\* At most one request or response is outstanding, it belongs to the flow begun
\* last, and a session that is not starting waits for nothing.
THEOREM DaemonSingleFlow ==
    ASSUME Stale = {}
    PROVE  Spec => []SingleFlow
<1>1. ASSUME OInv PROVE SingleFlow
  <2>1. OneAnswer /\ (running => AboutSession)
    BY <1>1 DEF OInv
  <2>2. ps.state # "starting" /\ running => requests = {} /\ Responses = {}
    BY <2>1 DEF AboutSession, Responses
  <2>3. Responses # {} => signals # <<>>
    BY DEF Responses
  <2>4. QED
    BY <2>1, <2>2, <2>3 DEF SingleFlow, OneAnswer, Responses
<1>2. QED
  BY <1>1, OrderlyInvariant, PTL

\* The EIS connection in use was opened on the session the daemon holds, and
\* Notify* is used only on a session that has not been switched to EIS.
THEOREM DaemonTransportOfSession ==
    ASSUME Stale = {}
    PROVE  Spec => []TransportOfSession
<1>1. OInv => TransportOfSession
  BY DEF OInv
<1>2. QED
  BY <1>1, OrderlyInvariant, PTL

\* A started session has been granted, or the Closed that will stop it is in
\* the queue.
THEOREM DaemonOpenIsGranted ==
    ASSUME Stale = {}
    PROVE  Spec => []OpenIsGranted
<1>1. OInv => OpenIsGranted
  BY DEF OInv
<1>2. QED
  BY <1>1, OrderlyInvariant, PTL

-----------------------------------------------------------------------------
(* The daemon implements ConsentGate.                                      *)

\* The gate of a session, before and after a step.
LEMMA GateOf ==
    /\ Gate = IF ps.state = "starting" THEN "asking"
              ELSE IF ps.state = "started" THEN "open"
              ELSE IF ps.lastError = "PermissionDenied" THEN "refused" ELSE "idle"
    /\ Gate' = IF ps'.state = "starting" THEN "asking"
               ELSE IF ps'.state = "started" THEN "open"
               ELSE IF ps'.lastError = "PermissionDenied" THEN "refused" ELSE "idle"
BY DEF Gate

\* start() puts the question, or fails before anybody sees it; an input does
\* so only where the user has not refused.
LEMMA BeginFlowAsks ==
    ASSUME OInv, NEW by \in {"person", "input"}, BeginFlow(by),
           by = "person" \/ ps.lastError # "PermissionDenied"
    PROVE  Consent!Ask(by)
<1>1. ps.state \notin {"starting", "started"} /\ asker' = by
  BY DEF BeginFlow, StartFlow
<1>2. ps'.state \in {"starting", "stopped"}
  <2>1. FreshFlow \in Ps /\ FreshFlow.state = "starting"
    BY FreshFlowStarts DEF OInv, SInv, TypeOK, SessionTypeOK
  <2>2. ps' = FreshFlow \/ \E e : ps' = Fail(FreshFlow, e)
    BY DEF BeginFlow, StartFlow
  <2>3. QED
    BY <2>1, <2>2 DEF Fail, Ps
<1>3. QED
  BY <1>1, <1>2, GateOf DEF Consent!Ask

\* A response answers the question; Closed answers it, or shuts an open gate.
LEMMA OnSignalAnswers ==
    ASSUME OInv, OnSignal
    PROVE  Consent!Answered \/ Consent!Shut \/ UNCHANGED Consent!gateVars
<1>1. running /\ DispatchSignal /\ asker' = asker /\ NoOldError
  BY DEF OnSignal, OInv
<1>2. CASE Head(signals).kind # "closed"
  <2>1. ps.state = "starting"
    BY <1>1, <1>2, ResponseFinds DEF DispatchSignal
  <2>2. QED
    BY <1>1, <2>1, GateOf DEF Consent!Answered, Consent!gateVars
<1>3. CASE Head(signals).kind = "closed"
  <2>1. /\ ps'.state = "stopped"
        /\ (ps'.lastError = "PermissionDenied") = (ps.lastError = "PermissionDenied")
    BY <1>1, <1>3, ClosedLeaves
  <2>2. CASE ps.state = "starting"
    BY <1>1, <2>1, <2>2, GateOf DEF Consent!Answered
  <2>3. CASE ps.state = "started"
    BY <1>1, <2>1, <2>3, GateOf DEF Consent!Shut, NoOldError
  <2>4. CASE ps.state \notin {"starting", "started"}
    BY <1>1, <2>1, <2>4, GateOf DEF Consent!gateVars
  <2>5. QED
    BY <2>2, <2>3, <2>4
<1>4. QED
  BY <1>2, <1>3

\* stop() gives up a question and shuts an open gate.
LEMMA StopShuts ==
    ASSUME OInv, Stop
    PROVE  Consent!Answered \/ Consent!Shut \/ UNCHANGED Consent!gateVars
<1>1. ps \in Ps /\ asker' = asker /\ NoOldError
  BY DEF Stop, OInv, SInv, TypeOK, SessionTypeOK
<1>2. ps' = ps \/ (ps'.state = "stopped" /\ ps'.lastError = ps.lastError)
  BY <1>1 DEF Stop, StopSession, Ps
<1>3. CASE ps' = ps
  BY <1>1, <1>3, GateOf DEF Consent!gateVars
<1>4. CASE ps'.state = "stopped" /\ ps'.lastError = ps.lastError
  <2>1. CASE ps.state = "starting"
    BY <1>1, <1>4, <2>1, GateOf DEF Consent!Answered
  <2>2. CASE ps.state = "started"
    BY <1>1, <1>4, <2>2, GateOf DEF Consent!Shut, NoOldError
  <2>3. CASE ps.state \notin {"starting", "started"}
    BY <1>1, <1>4, <2>3, GateOf DEF Consent!gateVars
  <2>4. QED
    BY <2>1, <2>2, <2>3
<1>5. QED
  BY <1>2, <1>3, <1>4

\* Every step of the daemon is a step of the gate, or leaves it alone.
LEMMA GateStep ==
    ASSUME OInv, [Next]_vars
    PROVE  [Consent!GateNext]_(Consent!gateVars)
<1>1. CASE Boot
  BY <1>1, BeginFlowAsks DEF Boot, Consent!GateNext
<1>2. CASE InputStarts
  BY <1>2, BeginFlowAsks DEF InputStarts, Consent!GateNext
<1>3. CASE SessionStart
  <2>1. CASE BeginFlow("person")
    BY <2>1, BeginFlowAsks DEF Consent!GateNext
  <2>2. CASE UNCHANGED <<portalVars, sessionVars, running, unread, asker>>
    BY <2>2, GateOf DEF Consent!gateVars, sessionVars
  <2>3. QED
    BY <1>3, <2>1, <2>2 DEF SessionStart
<1>4. CASE OnSignal
  BY <1>4, OnSignalAnswers DEF Consent!GateNext
<1>5. CASE Stop
  BY <1>5, StopShuts DEF Consent!GateNext
<1>6. CASE Status \/ InputServed \/ EisSends \/ OnEisReady \/ PortalStep
           \/ UNCHANGED vars
  <2>1. UNCHANGED <<ps, asker>>
    BY <1>6 DEF Status, InputServed, EisSends, OnEisReady, PortalStep, vars,
       sessionVars, daemonVars
  <2>2. QED
    BY <2>1, GateOf DEF Consent!gateVars
<1>7. QED
  BY <1>1, <1>2, <1>3, <1>4, <1>5, <1>6 DEF Next

\* At the start nobody has been asked.
LEMMA GateStart == Init => Consent!GateInit
BY GateOf DEF Init, SessionInit, Blank, Consent!GateInit

\* The dialog is never raised again by an input after a refusal, a session opens
\* only by the answer to its own question, and a question is never put while
\* another is pending.
THEOREM DaemonImplementsConsentGate ==
    ASSUME Stale = {}
    PROVE  Spec => ImplementsConsentGate
<1>1. Init => Consent!GateInit
  BY GateStart
<1>2. OInv /\ [Next]_vars => [Consent!GateNext]_(Consent!gateVars)
  BY GateStep
<1>3. Init /\ [][Next]_vars
        => Consent!GateInit /\ [][Consent!GateNext]_(Consent!gateVars)
  BY <1>1, <1>2, OrderlyInvariant, PTL DEF Spec
<1>4. QED
  BY <1>3 DEF Spec, ImplementsConsentGate, Consent!GateSpec
=============================================================================
