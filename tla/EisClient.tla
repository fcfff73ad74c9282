----------------------------- MODULE EisClient -----------------------------
(***************************************************************************)
(* The EIS connection: EisClient (backends/eis.py) against the compositor  *)
(* it is connected to.  The client learns its devices from events that     *)
(* arrive in chunks of any size, answers some of them from within the      *)
(* handler, and sends each input as a frame of four messages.  The socket  *)
(* does not block: any send may fail, and may fail half-way.               *)
(***************************************************************************)
EXTENDS Naturals, Sequences, SequencesExt

CONSTANTS
    Interfaces,  \* the interfaces of each device, in the order announced
    NoDevice,
    MaxEvents,   \* bound on what the server does beside announcing devices
    Inputs,      \* the inputs tried, see Calls
    MaxCalls     \* bound on their number

Devices == DOMAIN Interfaces

Names == {"ei_pointer", "ei_pointer_absolute", "ei_scroll", "ei_button", "ei_keyboard"}

\* The inputs: the device each uses and the interface on that device.
Calls == {<<"pointer", "ei_pointer">>, <<"pointer", "ei_button">>,
          <<"pointer", "ei_scroll">>, <<"keyboard", "ei_keyboard">>,
          <<"pointer_abs", "ei_pointer_absolute">>}

ASSUME EisAssumption ==
    /\ Inputs \subseteq Calls
    /\ NoDevice \notin Devices
    /\ \A d \in Devices : Interfaces[d] \in Seq(Names)
    /\ MaxEvents \in Nat /\ MaxCalls \in Nat

VARIABLES
    mode,    \* "greet" and "tree" (in handshake()), "ready", "failed", "closed"
    cl,      \* the client's fields
    buf,     \* _buf: messages received and not dispatched
    down,    \* messages of the server on their way
    up,      \* messages of the client on their way
    sv,      \* what the server knows of the connection
    failed,  \* ghost: has a send failed, or an input raised inside its frame?
    calls    \* ghost: number of inputs

vars == <<mode, cl, buf, down, up, sv, failed, calls>>

Handshaking == mode \in {"greet", "tree"}

\* A message: an event, the device and interface it is about, a serial; for a
\* start_emulating also the sequence number.
Message(name, d, i, serial, seq) ==
    [name |-> name, dev |-> d, iface |-> i, serial |-> serial, seq |-> seq]

Plain(name) == Message(name, NoDevice, "", 0, 0)
Of(name, d, i) == Message(name, d, i, 0, 0)
Serial(name, d, n) == Message(name, d, "", n, 0)

Init ==
    /\ mode = "greet"
    /\ cl = [version |-> FALSE, connected |-> FALSE, bound |-> FALSE, keymap |-> FALSE,
             sub |-> [d \in Devices |-> {}], regions |-> {}, serial |-> 0,
             seq |-> [d \in Devices |-> 0],
             keyboard |-> NoDevice, pointer |-> NoDevice, pointer_abs |-> NoDevice]
    /\ sv = [stage |-> "new", open |-> TRUE, spare |-> MaxEvents, serial |-> 1,
             announced |-> {}, gone |-> {}, mapped |-> FALSE, pings |-> 0,
             heard |-> 0, seqs |-> [d \in Devices |-> 0],
             emulating |-> {}, held |-> {}, met |-> 0, bad |-> FALSE]
    /\ buf = <<>> /\ down = <<>> /\ up = <<>>
    /\ failed = FALSE
    /\ calls = 0

-----------------------------------------------------------------------------
(* The event handlers.  A pump carries the client's fields, the sends that *)
(* still succeed, what was sent, and what is left when a handler raised.   *)

\* A handler's send: it raises when the socket takes no more.
Reply(a, name) ==
    IF a.room > 0
    THEN [a EXCEPT !.room = @ - 1, !.sent = Append(@, Plain(name))]
    ELSE [a EXCEPT !.raised = TRUE, !.unsent = TRUE]

OnVersion(a) == [a EXCEPT !.cl.version = TRUE]

OnConnection(a, m) == [a EXCEPT !.cl.connected = TRUE, !.cl.serial = m.serial]

\* Binds what the seat has announced, whether or not the message gets out.
OnSeatDone(a) == Reply([a EXCEPT !.cl.bound = TRUE], "bind")

OnRegion(a, m) == [a EXCEPT !.cl.regions = @ \cup {m.dev}]

\* Bug variant: the interface's object is not entered in the device's table.
OnInterfaceUnrecorded(a, m) ==
    CASE m.iface = "ei_keyboard" -> [a EXCEPT !.cl.keyboard = m.dev]
      [] m.iface = "ei_pointer" -> [a EXCEPT !.cl.pointer = m.dev]
      [] m.iface = "ei_pointer_absolute" -> [a EXCEPT !.cl.pointer_abs = m.dev]
      [] OTHER -> a

\* The last device that announces an interface is the one in use.
OnInterface(a, m) ==
    LET b == [a EXCEPT !.cl.sub[m.dev] = @ \cup {m.iface}]
    IN  CASE m.iface = "ei_keyboard" -> [b EXCEPT !.cl.keyboard = m.dev]
          [] m.iface = "ei_pointer" -> [b EXCEPT !.cl.pointer = m.dev]
          [] m.iface = "ei_pointer_absolute" -> [b EXCEPT !.cl.pointer_abs = m.dev]
          [] OTHER -> b

OnKeymap(a) == [a EXCEPT !.cl.keymap = TRUE]

\* Modifiers, and the end of a device: the device stays in use.
OnSerial(a, m) == [a EXCEPT !.cl.serial = m.serial]

OnPing(a) == Reply(a, "pong")

OnDisconnected(a) == [a EXCEPT !.raised = TRUE]

\* Names, types, the end of a device's description, a keymap that cannot be
\* used and events nobody knows change nothing.
Handle(a, m) ==
    CASE m.name = "handshake_version" -> OnVersion(a)
      [] m.name = "connection" -> OnConnection(a, m)
      [] m.name = "seat_done" -> OnSeatDone(a)
      [] m.name = "region" -> OnRegion(a, m)
      [] m.name = "interface" -> OnInterface(a, m)
      [] m.name = "keymap" -> OnKeymap(a)
      [] m.name \in {"modifiers", "destroyed"} -> OnSerial(a, m)
      [] m.name = "ping" -> OnPing(a)
      [] m.name = "disconnected" -> OnDisconnected(a)
      [] OTHER -> a

\* Bug variant: a pump dispatches one message.
DispatchOne(a, m) ==
    IF a.raised \/ a.some THEN [a EXCEPT !.rest = Append(@, m)]
    ELSE Handle([a EXCEPT !.some = TRUE], m)

\* Once a handler has raised, what is left waits for the next pump.
Dispatch(a, m) ==
    IF a.raised THEN [a EXCEPT !.rest = Append(@, m)]
    ELSE Handle([a EXCEPT !.some = TRUE], m)

Pumped(messages, room) ==
    FoldLeft(Dispatch,
             [cl |-> cl, room |-> room, sent |-> <<>>, rest |-> <<>>,
              some |-> FALSE, raised |-> FALSE, unsent |-> FALSE],
             messages)

-----------------------------------------------------------------------------
(* The client.                                                             *)

\* Bug variant: a relative pointer is waited for as well.
CompleteWithPointer(c) ==
    /\ c.connected /\ c.bound /\ c.keymap
    /\ {NoDevice} \cap {c.keyboard, c.pointer, c.pointer_abs} = {}

\* What handshake() waits for; not a relative pointer.
Complete(c) ==
    /\ c.connected /\ c.bound /\ c.keymap
    /\ c.keyboard # NoDevice /\ c.pointer_abs # NoDevice

\* Bug variant: the pump throws away what a raising handler left behind.
LeftoverDropped(a) == <<>>

Leftover(a) == a.rest

Sent(messages, torn) == up' = up \o messages \o (IF torn THEN <<Plain("cut")>> ELSE <<>>)

\* One pump, of n more messages and perhaps part of another.  In handshake()
\* it is followed by the greeting, or the loop ends, or a raise ends it all;
\* on the main loop a raise is logged.  With nothing new it returns at once.
Receive ==
    /\ mode # "closed" /\ down # <<>>
    /\ \E n \in 0..Len(down), room \in (IF sv.open THEN 0..2 ELSE {0}) :
         LET a == Pumped(buf \o SubSeq(down, 1, n), room)
             greet == mode = "greet" /\ a.cl.version /\ ~a.raised
             b == IF greet THEN Reply(a, "hello") ELSE a
         IN  /\ cl' = b.cl
             /\ buf' = Leftover(b)
             /\ down' = SubSeq(down, n + 1, Len(down))
             /\ \E torn \in {FALSE, b.unsent /\ sv.open} : Sent(b.sent, torn)
             /\ failed' = (failed \/ b.unsent)
             /\ mode' = CASE Handshaking /\ b.raised -> "failed"
                          [] greet /\ ~b.raised -> "tree"
                          [] mode = "tree" /\ ~b.raised /\ Complete(b.cl) -> "ready"
                          [] OTHER -> mode
    /\ UNCHANGED <<sv, calls>>

\* The server has closed the connection, or five seconds are over.  Once the
\* handshake is done a pump of a closed connection raises and changes nothing.
HandshakeFails ==
    /\ Handshaking
    /\ mode' = "failed"
    /\ UNCHANGED <<cl, buf, down, up, sv, failed, calls>>

\* Bug variant: the device is left emulating.
FrameOpen(d, i, serial, seq) ==
    <<Message("start", d, "", serial, seq), Of("event", d, i), Serial("frame", d, serial),
      Serial("frame", d, serial)>>

\* Bug variant: the frame is closed before the event.
FrameFirst(d, i, serial, seq) ==
    <<Message("start", d, "", serial, seq), Serial("frame", d, serial), Of("event", d, i),
      Serial("stop", d, serial)>>

Frame(d, i, serial, seq) ==
    <<Message("start", d, "", serial, seq), Of("event", d, i), Serial("frame", d, serial),
      Serial("stop", d, serial)>>

\* An input: k of the frame's messages get out.  An interface the device does
\* not have raises after the first.  (With no device, or with a position
\* outside its regions, the input raises at once and changes nothing.)
Input ==
    /\ mode = "ready" /\ calls < MaxCalls
    /\ \E call \in Inputs, k \in 0..4, torn \in BOOLEAN :
         LET d == cl[call[1]]
             all == IF call[2] \in cl.sub[d] THEN 4 ELSE 1
         IN  /\ d # NoDevice
             /\ call[2] = "ei_pointer_absolute" => d \in cl.regions
             /\ k <= (IF sv.open THEN all ELSE 0)
             /\ torn => k < all /\ sv.open
             /\ cl' = [cl EXCEPT !.seq[d] = @ + 1]
             /\ Sent(SubSeq(Frame(d, call[2], cl.serial, cl.seq[d] + 1), 1, k), torn)
             /\ calls' = calls + 1
             /\ failed' = (failed \/ k < 4)
    /\ UNCHANGED <<mode, buf, down, sv>>

\* close().  A goodbye that cannot be sent raises an EisError, which is no
\* OSError: the socket stays open (what got out of it is left out).
Close ==
    /\ mode \in {"ready", "failed"}
    /\ \/ /\ cl.connected => sv.open
          /\ mode' = "closed"
          /\ Sent(IF cl.connected THEN <<Plain("disconnect")>> ELSE <<>>, FALSE)
          /\ UNCHANGED failed
       \/ /\ cl.connected
          /\ failed' = TRUE
          /\ UNCHANGED <<mode, up>>
    /\ UNCHANGED <<cl, buf, down, sv, calls>>

-----------------------------------------------------------------------------
(* The server.                                                             *)

Says(messages) == down' = down \o messages /\ UNCHANGED <<mode, cl, buf, up, failed, calls>>

SayVersion ==
    /\ sv.stage = "new" /\ sv.open
    /\ sv' = [sv EXCEPT !.stage = "greeted"]
    /\ Says(<<Plain("handshake_version")>>)

\* A device, its region first.
Announce(d) ==
    /\ sv.stage = "bound" /\ sv.open /\ d \notin sv.announced
    /\ sv' = [sv EXCEPT !.announced = @ \cup {d}]
    /\ Says(<<Of("region", d, "")>> \o
            [j \in DOMAIN Interfaces[d] |-> Of("interface", d, Interfaces[d][j])])

\* The keymap of a keyboard, which may be one the client cannot use.
SayKeymap ==
    /\ sv.open /\ ~sv.mapped
    /\ \E d \in sv.announced : "ei_keyboard" \in Range(Interfaces[d])
    /\ \/ /\ sv' = [sv EXCEPT !.mapped = TRUE]
          /\ Says(<<Plain("keymap")>>)
       \/ /\ sv.spare > 0
          /\ sv' = [sv EXCEPT !.spare = @ - 1]
          /\ Says(<<Plain("unusable")>>)

SayModifiers ==
    /\ sv.stage = "bound" /\ sv.open /\ sv.spare > 0
    /\ sv' = [sv EXCEPT !.spare = @ - 1, !.serial = @ + 1]
    /\ Says(<<Serial("modifiers", NoDevice, sv.serial + 1)>>)

\* The end of a device, which whoever uses it does not notice.
Destroy(d) ==
    /\ sv.open /\ sv.spare > 0 /\ d \in sv.announced \ sv.gone
    /\ sv' = [sv EXCEPT !.spare = @ - 1, !.serial = @ + 1, !.gone = @ \cup {d},
                        !.emulating = @ \ {d}, !.held = @ \ {d}]
    /\ Says(<<Serial("destroyed", d, sv.serial + 1)>>)

Ping ==
    /\ sv.stage \in {"seat", "bound"} /\ sv.open /\ sv.spare > 0
    /\ sv' = [sv EXCEPT !.spare = @ - 1, !.pings = @ + 1]
    /\ Says(<<Plain("ping")>>)

\* The server leaves, saying so or not; what is on its way to it is lost.
Leave ==
    /\ sv.open /\ sv.spare > 0
    /\ sv' = [sv EXCEPT !.spare = @ - 1, !.open = FALSE]
    /\ \/ down' = Append(down, Plain("disconnected"))
       \/ UNCHANGED down
    /\ up' = <<>>
    /\ UNCHANGED <<mode, cl, buf, failed, calls>>

\* What a server accepts: a frame begins on a device that is not emulating,
\* under a new sequence number, with a serial it has issued and that does not
\* go back; what belongs to the frame comes while the device emulates.
Acceptable(m) ==
    CASE m.name = "start" -> /\ m.dev \notin sv.emulating
                             /\ m.seq > sv.seqs[m.dev]
                             /\ m.serial \in sv.heard..sv.serial
      [] m.name = "event" -> m.dev \in sv.emulating /\ m.iface \in Range(Interfaces[m.dev])
      [] m.name \in {"frame", "stop"} -> m.dev \in sv.emulating
      [] OTHER -> m.name # "cut"

\* The server's state after a message it accepts; an event counts once its
\* frame is there.
After(m) ==
    CASE m.name = "bind" -> [sv EXCEPT !.stage = "bound"]
      [] m.name = "hello" -> [sv EXCEPT !.stage = "seat"]
      [] m.name = "pong" -> [sv EXCEPT !.pings = @ - 1]
      [] m.name = "start" -> [sv EXCEPT !.emulating = @ \cup {m.dev}, !.heard = m.serial,
                                        !.seqs[m.dev] = m.seq]
      [] m.name = "event" -> [sv EXCEPT !.held = @ \cup {m.dev}]
      [] m.name = "frame" -> [sv EXCEPT !.held = @ \ {m.dev},
                                        !.met = IF m.dev \in sv.held THEN @ + 1 ELSE @]
      [] m.name = "stop" -> [sv EXCEPT !.emulating = @ \ {m.dev}]
      [] OTHER -> [sv EXCEPT !.open = FALSE]

\* The server reads a message.  One for a device that is gone is ignored; one
\* that is cut off, or not acceptable, ends the connection.
Take ==
    /\ sv.open /\ up # <<>>
    /\ LET m == Head(up)
           fine == m.dev \in sv.gone \/ Acceptable(m)
       IN  /\ sv' = CASE m.dev \in sv.gone -> sv
                     [] m.dev \notin sv.gone /\ fine -> After(m)
                     [] OTHER -> [sv EXCEPT !.bad = TRUE, !.open = FALSE]
           /\ up' = IF sv'.open THEN Tail(up) ELSE <<>>
           /\ down' = IF m.name = "hello"
                      THEN down \o <<Serial("connection", NoDevice, 1), Plain("seat_done")>>
                      ELSE down
    /\ UNCHANGED <<mode, cl, buf, failed, calls>>

-----------------------------------------------------------------------------
Server ==
    \/ SayVersion \/ SayKeymap \/ SayModifiers \/ Ping \/ Leave \/ Take
    \/ \E d \in Devices : Announce(d) \/ Destroy(d)

Next == Receive \/ HandshakeFails \/ Input \/ Close \/ Server

\* handshake() polls, the main loop watches the descriptor, the server reads.
\* That a deadline or the server ends anything is never assumed.
Spec == Init /\ [][Next]_vars /\ WF_vars(Receive) /\ WF_vars(Take)

-----------------------------------------------------------------------------
Events == {"handshake_version", "connection", "seat_done", "region", "interface",
           "keymap", "unusable", "modifiers", "destroyed", "ping", "disconnected"}
Requests == {"hello", "bind", "pong", "start", "event", "frame", "stop", "disconnect",
             "cut"}

MessageType == [name : Events \cup Requests, dev : Devices \cup {NoDevice},
                iface : Names \cup {""}, serial : Nat, seq : Nat]

\* The type invariant.  Beside the types: the client knows of no device the
\* server has not announced, the devices in use have the interface they are
\* used for, and only a handler that raised leaves messages behind.
TypeOK ==
    /\ mode \in {"greet", "tree", "ready", "failed", "closed"}
    /\ cl \in [version : BOOLEAN, connected : BOOLEAN, bound : BOOLEAN, keymap : BOOLEAN,
               sub : [Devices -> SUBSET Names], regions : SUBSET sv.announced,
               serial : 0..sv.serial, seq : [Devices -> 0..MaxCalls],
               keyboard : sv.announced \cup {NoDevice},
               pointer : sv.announced \cup {NoDevice},
               pointer_abs : sv.announced \cup {NoDevice}]
    /\ \A use \in {<<"keyboard", "ei_keyboard">>, <<"pointer", "ei_pointer">>,
                   <<"pointer_abs", "ei_pointer_absolute">>} :
         cl[use[1]] # NoDevice => use[2] \in cl.sub[cl[use[1]]]
    /\ sv \in [stage : {"new", "greeted", "seat", "bound"}, open : BOOLEAN,
               spare : 0..MaxEvents, serial : 1..MaxEvents + 1,
               announced : SUBSET Devices, gone : SUBSET sv.announced, mapped : BOOLEAN,
               pings : 0..MaxEvents, heard : 0..sv.serial, seqs : [Devices -> 0..MaxCalls],
               emulating : SUBSET Devices, held : SUBSET sv.emulating, met : 0..MaxCalls,
               bad : BOOLEAN]
    /\ \A q \in {buf, down, up} : \A j \in DOMAIN q : q[j] \in MessageType
    /\ Handshaking => buf = <<>>
    /\ failed \in BOOLEAN /\ calls \in 0..MaxCalls

\* Whatever the chunks its messages arrive in, and whichever handlers raise on
\* the way: once the client has read all the server sent, it knows every
\* device with its interfaces and region, the keymap, and the last serial.
ViewCatchesUp ==
    mode # "closed" /\ buf = <<>> /\ down = <<>> =>
        /\ \A d \in sv.announced : cl.sub[d] = Range(Interfaces[d]) /\ d \in cl.regions
        /\ sv.mapped => cl.keymap
        /\ sv.stage \in {"seat", "bound"} => cl.serial = sv.serial

\* As long as every send succeeded the server never has cause to end the
\* connection: no frame within a frame, no stale sequence number or serial,
\* nothing for a device that is not emulating.
CallsKeepProtocol == sv.bad => failed

\* Once the server has read everything, each input has had its
\* effect exactly once and no device is left emulating, unless an input or a
\* send failed (_begin_frame has no finally) or a device went away in use.
EveryCallActs ==
    ~failed /\ sv.open /\ sv.gone = {} /\ up = <<>> => sv.met = calls /\ sv.emulating = {}

\* Once both have read everything every ping has its answer, even one that
\* came in the middle of other messages and in pieces; unless a send failed:
\* then the answer is lost for good, the handler is not tried again.
PingsAnswered ==
    ~failed /\ sv.open /\ mode # "closed" /\ down = <<>> /\ up = <<>> => sv.pings = 0

\* Once the server has sent all that handshake() waits for, the handshake ends
\* by itself, whatever the chunks: it never sits on messages it has read until
\* the deadline.
TreeSuffices ==
    /\ mode = "tree" /\ sv.mapped
    /\ {"ei_keyboard", "ei_pointer_absolute"} \subseteq
          UNION {Range(Interfaces[d]) : d \in sv.announced}
    ~> mode # "tree"
=============================================================================
