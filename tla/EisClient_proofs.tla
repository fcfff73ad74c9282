-------------------------- MODULE EisClient_proofs --------------------------
(***************************************************************************)
(* Proofs about the EIS connection, for any devices, inputs and bounds.  The*)
(* invariant says of everything on its way, in either direction, how it fits*)
(* what the client and the server know; each of the properties is what it  *)
(* says of a connection with nothing left on its way.                      *)
(***************************************************************************)
EXTENDS EisClient, SequenceFacts

-----------------------------------------------------------------------------
(* The inductive invariant, over the parts of the state: the mode md, the  *)
(* client c, the messages q on their way to it or in its buffer, the       *)
(* messages u on their way to the server s, the ghosts f and k.            *)

Dated == {"connection", "modifiers", "destroyed"}   \* carry the server's serial
Framed == {"start", "event", "frame", "stop"}
Outer == {"start", "event", "frame"}                \* not the last of a frame
Inner == {"event", "frame", "stop"}                 \* not the first of a frame

\* What comes before, in a frame.
Before(name) ==
    CASE name = "event" -> "start" [] name = "frame" -> "event" [] OTHER -> "frame"

\* The client: types, and devices only as they were announced.
Knows(c, s, k) ==
    /\ c \in [version : BOOLEAN, connected : BOOLEAN, bound : BOOLEAN, keymap : BOOLEAN,
              sub : [Devices -> SUBSET Names], regions : SUBSET s.announced,
              serial : 0..s.serial, seq : [Devices -> 0..k],
              keyboard : s.announced \cup {NoDevice},
              pointer : s.announced \cup {NoDevice},
              pointer_abs : s.announced \cup {NoDevice}]
    /\ c.keyboard # NoDevice => "ei_keyboard" \in c.sub[c.keyboard]
    /\ c.pointer # NoDevice => "ei_pointer" \in c.sub[c.pointer]
    /\ c.pointer_abs # NoDevice => "ei_pointer_absolute" \in c.sub[c.pointer_abs]
    /\ \A d \in Devices : c.sub[d] \subseteq Range(Interfaces[d])
    /\ c.version => s.stage # "new"

\* The server: types, its counters against each other and the client's, and no
\* device that is gone in use.
Serves(s, c) ==
    /\ s \in [stage : {"new", "greeted", "seat", "bound"}, open : BOOLEAN,
              spare : 0..MaxEvents, serial : 1..MaxEvents + 1,
              announced : SUBSET Devices, gone : SUBSET Devices, mapped : BOOLEAN,
              pings : 0..MaxEvents, heard : Nat, seqs : [Devices -> Nat],
              emulating : SUBSET Devices, held : SUBSET Devices, met : Nat,
              bad : BOOLEAN]
    /\ s.serial + s.spare <= MaxEvents + 1
    /\ s.pings + s.spare <= MaxEvents
    /\ s.announced # {} => s.stage = "bound"
    /\ s.stage # "bound" => s.serial = 1
    /\ s.heard <= c.serial
    /\ \A d \in Devices : s.seqs[d] <= c.seq[d]
    /\ s.gone \subseteq s.announced /\ s.held \subseteq s.emulating
    /\ s.gone \cap s.emulating = {}

\* A message of the server is about what it has announced.
Told(m, s) ==
    /\ m \in MessageType /\ m.name \in Events
    /\ m.name \in {"region", "interface"} => m.dev \in s.announced
    /\ m.name = "interface" => m.iface \in Range(Interfaces[m.dev])
    /\ m.name \in Dated => m.serial <= s.serial
    /\ m.name = "handshake_version" => s.stage # "new"
    /\ m.name = "seat_done" => s.stage \in {"seat", "bound"}
    /\ m.name = "disconnected" => ~s.open

\* Its serials come in order.
Incoming(q, c, s) ==
    /\ q \in Seq(MessageType)
    /\ \A m \in Range(q) : Told(m, s)
    /\ \A m \in Range(q) : m.name \in Dated => c.serial <= m.serial
    /\ \A x, y \in Range(q) :
         Precedes(x, y, q) /\ x.name \in Dated /\ y.name \in Dated => x.serial <= y.serial

\* A message of the client.
Asked(m, c, s) ==
    /\ m \in MessageType /\ m.name \in Requests
    /\ m.dev \in Devices <=> m.name \in Framed
    /\ m.name = "start" => /\ s.seqs[m.dev] < m.seq /\ m.seq <= c.seq[m.dev]
                           /\ s.heard <= m.serial /\ m.serial <= c.serial
    /\ m.name = "event" => m.iface \in Range(Interfaces[m.dev])
    /\ m.name = "hello" => s.stage = "greeted"
    /\ m.name = "bind" => s.stage \in {"seat", "bound"}

\* What is first of all goes with what the server knows of its frame.
Begun(m, s) ==
    m.name \in Inner =>
        /\ m.dev \in s.emulating \cup s.gone
        /\ m.name = "frame" => m.dev \in s.held \cup s.gone
        /\ m.name = "stop" => m.dev \notin s.held

\* They come in the order of their serials and sequence numbers, and frame by
\* frame.
Outgoing(u, c, s) ==
    /\ u \in Seq(MessageType)
    /\ \A m \in Range(u) : Asked(m, c, s)
    /\ \A x, y \in Range(u) :
         Precedes(x, y, u) /\ x.name = "start" /\ y.name = "start" =>
             /\ x.serial <= y.serial
             /\ x.dev = y.dev => x.seq < y.seq
    /\ \A x, y \in Range(u) : Precedes(x, y, u) => ~(x.name = "hello" /\ y.name = "hello")
    /\ \A x, y \in Range(u) :
         Follows(x, y, u) /\ y.name \in Inner => x.name = Before(y.name) /\ x.dev = y.dev
    /\ u # <<>> => Begun(Head(u), s)
    /\ ~s.open => u = <<>>

\* Unless something failed, every frame is whole and none is left open.
Whole(u, s, f) ==
    /\ s.bad => f
    /\ ~f /\ s.open =>
         /\ \A m \in Range(u) : m.name # "cut"
         /\ \A x, y \in Range(u) : Follows(x, y, u) /\ x.name \in Outer => y.name \in Inner
         /\ u # <<>> => Last(u).name \notin Outer
         /\ \A d \in s.emulating : u # <<>> /\ Head(u).name \in Inner /\ Head(u).dev = d

\* Pings and frames are counted.
Counted(q, u, s, f, k) ==
    /\ Count(q, "ping") + Count(u, "pong") <= s.pings
    /\ s.met + Count(u, "frame") <= k
    /\ ~f /\ s.open => s.pings = Count(q, "ping") + Count(u, "pong")
    /\ ~f /\ s.open /\ s.gone = {} => s.met + Count(u, "frame") = k

\* What the client does not know yet is on its way.
Coming(c, q, s) ==
    /\ \A d \in s.announced :
         d \in c.regions \/ \E m \in Range(q) : m.name = "region" /\ m.dev = d
    /\ \A d \in s.announced : \A i \in Range(Interfaces[d]) :
         \/ i \in c.sub[d]
         \/ \E m \in Range(q) : m.name = "interface" /\ m.dev = d /\ m.iface = i
    /\ s.mapped => c.keymap \/ \E m \in Range(q) : m.name = "keymap"
    /\ s.stage \in {"seat", "bound"} =>
         \/ c.serial = s.serial
         \/ \E m \in Range(q) : m.name \in Dated /\ m.serial = s.serial

\* The greeting is sent once.
Greeting(md, u, s) ==
    md = "greet" => /\ s.stage \in {"new", "greeted"}
                    /\ \A m \in Range(u) : m.name # "hello"

\* A handler that raised, and nothing else, leaves messages behind.
Behind(md, b, s, f) ==
    /\ md \in {"greet", "tree"} => b = <<>>
    /\ ~f /\ s.open => b = <<>>

Good(md, c, q, u, s, f, k) ==
    /\ Knows(c, s, k)
    /\ Serves(s, c)
    /\ Incoming(q, c, s)
    /\ Outgoing(u, c, s)
    /\ Whole(u, s, f)
    /\ Counted(q, u, s, f, k)
    /\ Coming(c, q, s)
    /\ Greeting(md, u, s)

EInv ==
    /\ mode \in {"greet", "tree", "ready", "failed", "closed"}
    /\ failed \in BOOLEAN /\ calls \in 0..MaxCalls
    /\ buf \in Seq(MessageType) /\ down \in Seq(MessageType)
    /\ Behind(mode, buf, sv, failed)
    /\ Good(mode, cl, buf \o down, up, sv, failed, calls)

-----------------------------------------------------------------------------
(* What the handlers tell the client, and what a reply does to a pump.     *)

\* What the events tell the client, a pump, and the answer to an event.
ClientType ==
    [version : BOOLEAN, connected : BOOLEAN, bound : BOOLEAN, keymap : BOOLEAN,
     sub : [Devices -> SUBSET Names], regions : SUBSET Devices,
     serial : Nat, seq : [Devices -> Nat], keyboard : Devices \cup {NoDevice},
     pointer : Devices \cup {NoDevice}, pointer_abs : Devices \cup {NoDevice}]

PumpType ==
    [cl : ClientType, room : Nat, sent : Seq(MessageType), rest : Seq(MessageType),
     some : BOOLEAN, raised : BOOLEAN, unsent : BOOLEAN]

Adds(c, m) == [c EXCEPT !.sub[m.dev] = @ \cup {m.iface}]

Learn(c, m) ==
    CASE m.name = "handshake_version" -> [c EXCEPT !.version = TRUE]
      [] m.name = "connection" -> [c EXCEPT !.connected = TRUE, !.serial = m.serial]
      [] m.name = "seat_done" -> [c EXCEPT !.bound = TRUE]
      [] m.name = "region" -> [c EXCEPT !.regions = @ \cup {m.dev}]
      [] m.name = "interface" ->
           CASE m.iface = "ei_keyboard" -> [Adds(c, m) EXCEPT !.keyboard = m.dev]
             [] m.iface = "ei_pointer" -> [Adds(c, m) EXCEPT !.pointer = m.dev]
             [] m.iface = "ei_pointer_absolute" -> [Adds(c, m) EXCEPT !.pointer_abs = m.dev]
             [] OTHER -> Adds(c, m)
      [] m.name = "keymap" -> [c EXCEPT !.keymap = TRUE]
      [] m.name \in {"modifiers", "destroyed"} -> [c EXCEPT !.serial = m.serial]
      [] OTHER -> c

Answer(name) == IF name = "ping" THEN "pong" ELSE "bind"

\* A message about a device and an interface there are.
Sound(m) ==
    /\ m \in MessageType
    /\ m.name \in {"region", "interface"} => m.dev \in Devices
    /\ m.name = "interface" => m.iface \in Names

\* A message about nothing.
LEMMA PlainType ==
    ASSUME NEW name \in Events \cup Requests
    PROVE  Plain(name) \in MessageType /\ Plain(name).name = name /\ Plain(name).dev = NoDevice
BY DEF Plain, Message, MessageType

\* The interfaces of a device are interfaces.
LEMMA InterfacesAre ==
    ASSUME NEW d \in Devices
    PROVE  Range(Interfaces[d]) \subseteq Names /\ Interfaces[d] \in Seq(Names)
BY EisAssumption, RangeAt

\* What a device's interface changes of its table, and what not.
LEMMA AddsFacts ==
    ASSUME NEW c \in ClientType, NEW m, Sound(m), m.name = "interface",
           NEW b, b = Adds(c, m)
    PROVE  /\ b \in ClientType
           /\ b.sub[m.dev] = c.sub[m.dev] \cup {m.iface}
           /\ \A d \in Devices : d # m.dev => b.sub[d] = c.sub[d]
           /\ b.version = c.version /\ b.keymap = c.keymap
           /\ b.regions = c.regions /\ b.serial = c.serial
           /\ b.seq = c.seq /\ b.keyboard = c.keyboard
           /\ b.pointer = c.pointer /\ b.pointer_abs = c.pointer_abs
<1>1. m.dev \in Devices /\ m.iface \in Names
  BY DEF Sound
<1>2. c.sub \in [Devices -> SUBSET Names]
  BY DEF ClientType
<1>3. [c.sub EXCEPT ![m.dev] = @ \cup {m.iface}] \in [Devices -> SUBSET Names]
  BY <1>1, <1>2
<1>4. b = [c EXCEPT !.sub = [c.sub EXCEPT ![m.dev] = @ \cup {m.iface}]]
  BY DEF Adds
<1>5. PICK f \in [Devices -> SUBSET Names] : f = [c.sub EXCEPT ![m.dev] = @ \cup {m.iface}]
  BY <1>3
<1>6. /\ f[m.dev] = c.sub[m.dev] \cup {m.iface}
      /\ \A d \in Devices : d # m.dev => f[d] = c.sub[d]
  BY <1>1, <1>2, <1>5
<1>7. b = [c EXCEPT !.sub = f]
  BY <1>4, <1>5
<1>8. b \in ClientType
  BY <1>5, <1>7 DEF ClientType
<1>9. b.sub = f
  BY <1>7 DEF ClientType
<1>10. QED
  BY <1>6, <1>7, <1>8, <1>9 DEF ClientType

\* n is what c becomes with m.
Learns(c, m, n) ==
    /\ n \in ClientType
    /\ n.seq = c.seq
    /\ n.serial = IF m.name \in Dated THEN m.serial ELSE c.serial
    /\ n.regions = IF m.name = "region" THEN c.regions \cup {m.dev} ELSE c.regions
    /\ m.name = "interface" => n.sub[m.dev] = c.sub[m.dev] \cup {m.iface}
    /\ \A d \in Devices : m.name # "interface" \/ d # m.dev => n.sub[d] = c.sub[d]
    /\ n.keymap = (c.keymap \/ m.name = "keymap")
    /\ n.version = (c.version \/ m.name = "handshake_version")
    /\ n.keyboard = IF m.name = "interface" /\ m.iface = "ei_keyboard"
                    THEN m.dev ELSE c.keyboard
    /\ n.pointer = IF m.name = "interface" /\ m.iface = "ei_pointer"
                   THEN m.dev ELSE c.pointer
    /\ n.pointer_abs = IF m.name = "interface" /\ m.iface = "ei_pointer_absolute"
                       THEN m.dev ELSE c.pointer_abs

\* Learn changes what Learns says.
LEMMA LearnFacts ==
    ASSUME NEW c \in ClientType, NEW m, Sound(m), NEW n, n = Learn(c, m)
    PROVE  Learns(c, m, n)
<1>0. m.serial \in Nat /\ (m.name \in {"region", "interface"} => m.dev \in Devices)
  BY DEF Sound, MessageType
<1>1. CASE m.name = "handshake_version"
  <2>1. n = [c EXCEPT !.version = TRUE]
    BY <1>1 DEF Learn
  <2>2. QED
    BY <1>0, <1>1, <2>1 DEF ClientType, Dated, Learns
<1>2. CASE m.name = "connection"
  <2>1. n = [c EXCEPT !.connected = TRUE, !.serial = m.serial]
    BY <1>2 DEF Learn
  <2>2. QED
    BY <1>0, <1>2, <2>1 DEF ClientType, Dated, Learns
<1>3. CASE m.name = "seat_done"
  <2>1. n = [c EXCEPT !.bound = TRUE]
    BY <1>3 DEF Learn
  <2>2. QED
    BY <1>0, <1>3, <2>1 DEF ClientType, Dated, Learns
<1>4. CASE m.name = "region"
  <2>1. n = [c EXCEPT !.regions = @ \cup {m.dev}]
    BY <1>4 DEF Learn
  <2>2. QED
    BY <1>0, <1>4, <2>1 DEF ClientType, Dated, Learns
<1>5. CASE m.name = "keymap"
  <2>1. n = [c EXCEPT !.keymap = TRUE]
    BY <1>5 DEF Learn
  <2>2. QED
    BY <1>0, <1>5, <2>1 DEF ClientType, Dated, Learns
<1>6. CASE m.name \in {"modifiers", "destroyed"}
  <2>1. n = [c EXCEPT !.serial = m.serial]
    BY <1>6 DEF Learn
  <2>2. QED
    BY <1>0, <1>6, <2>1 DEF ClientType, Dated, Learns
<1>7. CASE m.name = "interface"
  <2>0. PICK b : b = Adds(c, m)
    OBVIOUS
  <2>1. /\ b \in ClientType
        /\ b.sub[m.dev] = c.sub[m.dev] \cup {m.iface}
        /\ \A d \in Devices : d # m.dev => b.sub[d] = c.sub[d]
        /\ b.version = c.version /\ b.keymap = c.keymap
        /\ b.regions = c.regions /\ b.serial = c.serial
        /\ b.seq = c.seq /\ b.keyboard = c.keyboard
        /\ b.pointer = c.pointer /\ b.pointer_abs = c.pointer_abs
    <3>1. b \in ClientType
      BY <1>7, <2>0, AddsFacts
    <3>2. /\ b.sub[m.dev] = c.sub[m.dev] \cup {m.iface}
          /\ \A d \in Devices : d # m.dev => b.sub[d] = c.sub[d]
      BY <1>7, <2>0, AddsFacts
    <3>3. /\ b.version = c.version /\ b.keymap = c.keymap
          /\ b.regions = c.regions /\ b.serial = c.serial
          /\ b.seq = c.seq /\ b.keyboard = c.keyboard
          /\ b.pointer = c.pointer /\ b.pointer_abs = c.pointer_abs
      BY <1>7, <2>0, AddsFacts
    <3>4. QED
      BY <3>1, <3>2, <3>3
  <2>2. CASE m.iface = "ei_keyboard"
    <3>1. n = [b EXCEPT !.keyboard = m.dev]
      BY <1>7, <2>0, <2>2 DEF Learn
    <3>2. QED
      BY <1>0, <1>7, <2>1, <2>2, <3>1 DEF ClientType, Dated, Learns
  <2>3. CASE m.iface = "ei_pointer"
    <3>1. n = [b EXCEPT !.pointer = m.dev]
      BY <1>7, <2>0, <2>3 DEF Learn
    <3>2. QED
      BY <1>0, <1>7, <2>1, <2>3, <3>1 DEF ClientType, Dated, Learns
  <2>4. CASE m.iface = "ei_pointer_absolute"
    <3>1. n = [b EXCEPT !.pointer_abs = m.dev]
      BY <1>7, <2>0, <2>4 DEF Learn
    <3>2. QED
      BY <1>0, <1>7, <2>1, <2>4, <3>1 DEF ClientType, Dated, Learns
  <2>5. CASE m.iface \notin {"ei_keyboard", "ei_pointer", "ei_pointer_absolute"}
    <3>1. n = b
      BY <1>7, <2>0, <2>5 DEF Learn
    <3>2. QED
      BY <1>0, <1>7, <2>1, <2>5, <3>1 DEF ClientType, Dated, Learns
  <2>6. QED
    BY <2>2, <2>3, <2>4, <2>5
<1>8. CASE m.name \notin {"handshake_version", "connection", "seat_done", "region",
                          "keymap", "modifiers", "destroyed", "interface"}
  <2>1. n = c
    BY <1>8 DEF Learn
  <2>2. QED
    BY <1>0, <1>8, <2>1 DEF ClientType, Dated, Learns
<1>9. QED
  BY <1>1, <1>2, <1>3, <1>4, <1>5, <1>6, <1>7, <1>8

\* A reply goes out while there is room, else it raises.
LEMMA ReplyFacts ==
    ASSUME NEW a \in PumpType, NEW name \in Requests, NEW b, b = Reply(a, name)
    PROVE  /\ b \in PumpType /\ b.cl = a.cl /\ b.rest = a.rest
           /\ \/ /\ a.room > 0 /\ b.room = a.room - 1
                 /\ b.sent = a.sent \o <<Plain(name)>>
                 /\ b.raised = a.raised /\ b.unsent = a.unsent
              \/ /\ a.room = 0 /\ b.room = 0 /\ b.sent = a.sent
                 /\ b.raised /\ b.unsent
<1>0. a.room \in Nat /\ a.sent \in Seq(MessageType) /\ Plain(name) \in MessageType
  BY PlainType DEF PumpType
<1>1. CASE a.room > 0
  <2>1. b = [a EXCEPT !.room = @ - 1, !.sent = Append(@, Plain(name))]
    BY <1>1 DEF Reply
  <2>2. PICK s : s = Append(a.sent, Plain(name))
    OBVIOUS
  <2>3. s \in Seq(MessageType) /\ s = a.sent \o <<Plain(name)>>
    BY <1>0, <2>2, AppendProperties, AppendIsConcat
  <2>4. b = [a EXCEPT !.room = @ - 1, !.sent = s]
    BY <2>1, <2>2
  <2>5. a.room - 1 \in Nat
    BY <1>0, <1>1
  <2>6. b \in PumpType
    BY <2>3, <2>4, <2>5 DEF PumpType
  <2>7. b.cl = a.cl /\ b.rest = a.rest /\ b.room = a.room - 1 /\ b.sent = s
        /\ b.raised = a.raised /\ b.unsent = a.unsent
    BY <2>4 DEF PumpType
  <2>8. QED
    BY <1>1, <2>3, <2>6, <2>7
<1>2. CASE ~(a.room > 0)
  <2>1. b = [a EXCEPT !.raised = TRUE, !.unsent = TRUE] /\ a.room = 0
    BY <1>0, <1>2 DEF Reply
  <2>2. QED
    BY <2>1 DEF PumpType
<1>3. QED
  BY <1>1, <1>2

\* b is what the handler of m makes of a pump a: the answer goes out or it raises.
Handled(a, m, b) ==
    /\ b \in PumpType /\ b.cl = Learn(a.cl, m) /\ b.rest = a.rest
    /\ \/ /\ m.name \notin {"ping", "seat_done"}
          /\ b.room = a.room /\ b.sent = a.sent /\ b.unsent = a.unsent
          /\ b.raised = (a.raised \/ m.name = "disconnected")
       \/ /\ m.name \in {"ping", "seat_done"} /\ a.room > 0 /\ b.room = a.room - 1
          /\ b.sent = a.sent \o <<Plain(Answer(m.name))>>
          /\ b.raised = a.raised /\ b.unsent = a.unsent
       \/ /\ m.name \in {"ping", "seat_done"} /\ a.room = 0 /\ b.room = 0
          /\ b.sent = a.sent /\ b.raised /\ b.unsent

\* Each handler does what Handled says.
LEMMA HandleFacts ==
    ASSUME NEW a \in PumpType, NEW m, Sound(m), NEW b, b = Handle(a, m)
    PROVE  Handled(a, m, b)
<1>0. a.cl \in ClientType
  BY DEF PumpType
<1>1. PICK n : n = Learn(a.cl, m)
  OBVIOUS
<1>2. n \in ClientType
  BY <1>0, <1>1, LearnFacts DEF Learns
<1>3. CASE m.name \notin {"ping", "seat_done", "disconnected"}
  <2>1. b = [a EXCEPT !.cl = n]
    <3>1. CASE m.name \notin {"handshake_version", "connection", "region",
                              "keymap", "modifiers", "destroyed", "interface"}
      <4>1. b = a /\ n = a.cl
        BY <1>1, <1>3, <3>1 DEF Handle, Learn
      <4>2. QED
        BY <4>1 DEF PumpType
    <3>2. CASE m.name = "interface"
      <4> DEFINE e == [a EXCEPT !.cl.sub[m.dev] = @ \cup {m.iface}]
      <4>1. e = [a EXCEPT !.cl = Adds(a.cl, m)]
        BY DEF Adds, PumpType, ClientType
      <4>2. PICK g : g = Adds(a.cl, m)
        OBVIOUS
      <4>3. g \in ClientType
        BY <1>0, <3>2, <4>2, AddsFacts
      <4>4. /\ [e EXCEPT !.cl.keyboard = m.dev] = [a EXCEPT !.cl = [g EXCEPT !.keyboard = m.dev]]
            /\ [e EXCEPT !.cl.pointer = m.dev] = [a EXCEPT !.cl = [g EXCEPT !.pointer = m.dev]]
            /\ [e EXCEPT !.cl.pointer_abs = m.dev] =
                 [a EXCEPT !.cl = [g EXCEPT !.pointer_abs = m.dev]]
        BY <4>1, <4>2, <4>3 DEF PumpType, ClientType
      <4>5. b = CASE m.iface = "ei_keyboard" -> [e EXCEPT !.cl.keyboard = m.dev]
                  [] m.iface = "ei_pointer" -> [e EXCEPT !.cl.pointer = m.dev]
                  [] m.iface = "ei_pointer_absolute" -> [e EXCEPT !.cl.pointer_abs = m.dev]
                  [] OTHER -> e
        BY <3>2 DEF Handle, OnInterface
      <4>6. n = CASE m.iface = "ei_keyboard" -> [g EXCEPT !.keyboard = m.dev]
                  [] m.iface = "ei_pointer" -> [g EXCEPT !.pointer = m.dev]
                  [] m.iface = "ei_pointer_absolute" -> [g EXCEPT !.pointer_abs = m.dev]
                  [] OTHER -> g
        BY <1>1, <3>2, <4>2 DEF Learn
      <4> HIDE DEF e
      <4>7. QED
        BY <4>1, <4>2, <4>4, <4>5, <4>6
    <3>3. CASE m.name = "handshake_version"
      BY <1>1, <3>3 DEF Handle, Learn, OnVersion, PumpType
    <3>4. CASE m.name = "connection"
      <4>1. b = [a EXCEPT !.cl.connected = TRUE, !.cl.serial = m.serial]
        BY <3>4 DEF Handle, OnConnection
      <4>2. n = [a.cl EXCEPT !.connected = TRUE, !.serial = m.serial]
        BY <1>1, <3>4 DEF Learn
      <4>3. QED
        BY <4>1, <4>2 DEF PumpType, ClientType
    <3>5. CASE m.name = "region"
      BY <1>1, <3>5 DEF Handle, Learn, OnRegion, PumpType
    <3>6. CASE m.name = "keymap"
      BY <1>1, <3>6 DEF Handle, Learn, OnKeymap, PumpType
    <3>7. CASE m.name \in {"modifiers", "destroyed"}
      BY <1>1, <3>7 DEF Handle, Learn, OnSerial, PumpType
    <3>8. QED
      BY <1>3, <3>1, <3>2, <3>3, <3>4, <3>5, <3>6, <3>7
  <2>2. b \in PumpType /\ b.cl = n /\ b.rest = a.rest
        /\ b.room = a.room /\ b.sent = a.sent /\ b.unsent = a.unsent /\ b.raised = a.raised
    BY <1>2, <2>1 DEF PumpType
  <2>3. a.raised \in BOOLEAN
    BY DEF PumpType
  <2>4. QED
    BY <1>1, <1>3, <2>2, <2>3 DEF Handled
<1>4. CASE m.name = "disconnected"
  <2>1. b = [a EXCEPT !.raised = TRUE] /\ n = a.cl
    BY <1>1, <1>4 DEF Handle, Learn, OnDisconnected
  <2>2. QED
    BY <1>1, <1>4, <2>1 DEF PumpType, Handled
<1>5. CASE m.name = "ping"
  <2>1. n = a.cl /\ Answer(m.name) = "pong" /\ "pong" \in Requests
    BY <1>1, <1>5 DEF Learn, Answer, Requests
  <2>3. b = OnPing(a)
    BY <1>5 DEF Handle
  <2>4. b = Reply(a, "pong")
    BY <2>3 DEF OnPing
  <2>2. QED
    BY <1>1, <1>5, <2>1, <2>4, ReplyFacts DEF Handled
<1>6. CASE m.name = "seat_done"
  <2> DEFINE e == [a EXCEPT !.cl.bound = TRUE]
  <2>1. Answer(m.name) = "bind" /\ "bind" \in Requests
    BY <1>6 DEF Answer, Requests
  <2>6. b = OnSeatDone(a)
    BY <1>6 DEF Handle
  <2>7. b = Reply(e, "bind")
    BY <2>6 DEF OnSeatDone
  <2>2. n = [a.cl EXCEPT !.bound = TRUE]
    BY <1>1, <1>6 DEF Learn
  <2>3. e = [a EXCEPT !.cl = n]
    BY <2>2 DEF PumpType
  <2>4. e \in PumpType /\ e.cl = n /\ e.rest = a.rest /\ e.room = a.room
        /\ e.sent = a.sent /\ e.raised = a.raised /\ e.unsent = a.unsent
    <3> HIDE DEF e
    <3>1. QED
      BY <1>2, <2>3 DEF PumpType
  <2> HIDE DEF e
  <2>5. QED
    <3>1. /\ b \in PumpType /\ b.cl = n /\ b.rest = a.rest
          /\ \/ /\ e.room > 0 /\ b.room = e.room - 1
                /\ b.sent = e.sent \o <<Plain("bind")>>
                /\ b.raised = e.raised /\ b.unsent = e.unsent
             \/ /\ e.room = 0 /\ b.room = 0 /\ b.sent = e.sent
                /\ b.raised /\ b.unsent
      BY <2>1, <2>4, <2>7, ReplyFacts
    <3>2. QED
      BY <1>1, <1>6, <2>1, <2>4, <3>1 DEF Handled
<1>7. QED
  BY <1>3, <1>4, <1>5, <1>6

-----------------------------------------------------------------------------
(* The invariant of a client that has read the first message on its way.   *)

\* What is known of the client and of a message as such.
LEMMA Shapes ==
    ASSUME NEW c, NEW s, NEW k \in Nat, Knows(c, s, k), Serves(s, c)
    PROVE  /\ c \in ClientType
           /\ s.announced \subseteq Devices /\ s.serial \in Nat
           /\ \A m : Told(m, s) => Sound(m)
<1>1. s.announced \subseteq Devices /\ s.serial \in Nat /\ MaxEvents \in Nat
  BY EisAssumption DEF Serves
<1>2. c \in ClientType
  <2>1. \A x : x \in 0..s.serial => x \in Nat
    BY <1>1
  <2>2. \A x : x \in 0..k => x \in Nat
    OBVIOUS
  <2>3. QED
    BY <1>1, <2>1, <2>2 DEF Knows, ClientType
<1>3. ASSUME NEW m, Told(m, s) PROVE Sound(m)
  <2>1. m.name \in {"region", "interface"} => m.dev \in Devices
    BY <1>1, <1>3 DEF Told
  <2>2. m.name = "interface" => m.iface \in Names
    BY <1>3, <2>1, InterfacesAre DEF Told
  <2>3. QED
    BY <1>3, <2>1, <2>2 DEF Told, Sound
<1>4. QED
  BY <1>1, <1>2, <1>3

\* What the client knows stays true with a message of the server.
LEMMA KnowsRead ==
    ASSUME NEW c, NEW s, NEW k \in Nat, Knows(c, s, k), Serves(s, c),
           NEW m, Told(m, s), m.name \in Dated => c.serial <= m.serial,
           NEW n, n = Learn(c, m)
    PROVE  Knows(n, s, k)
<1>1. c \in ClientType /\ Sound(m) /\ s.announced \subseteq Devices /\ s.serial \in Nat
  BY Shapes
<1>0. Learns(c, m, n)
  BY <1>1, LearnFacts
<1>2. /\ n \in ClientType
      /\ n.seq = c.seq
      /\ n.serial = IF m.name \in Dated THEN m.serial ELSE c.serial
      /\ n.regions = IF m.name = "region" THEN c.regions \cup {m.dev} ELSE c.regions
  BY <1>0 DEF Learns
<1>3. /\ m.name = "interface" => n.sub[m.dev] = c.sub[m.dev] \cup {m.iface}
      /\ \A d \in Devices :
           m.name # "interface" \/ d # m.dev => n.sub[d] = c.sub[d]
  BY <1>0 DEF Learns
<1>4. /\ n.version = (c.version \/ m.name = "handshake_version")
      /\ n.keyboard = (IF m.name = "interface" /\ m.iface = "ei_keyboard"
                       THEN m.dev ELSE c.keyboard)
      /\ n.pointer = (IF m.name = "interface" /\ m.iface = "ei_pointer"
                      THEN m.dev ELSE c.pointer)
      /\ n.pointer_abs = (IF m.name = "interface" /\ m.iface = "ei_pointer_absolute"
                          THEN m.dev ELSE c.pointer_abs)
  BY <1>0 DEF Learns
<1>5. /\ m \in MessageType
      /\ m.name \in {"region", "interface"} => m.dev \in s.announced
      /\ m.name = "interface" => m.iface \in Range(Interfaces[m.dev])
      /\ m.name \in Dated => m.serial <= s.serial
      /\ m.name = "handshake_version" => s.stage # "new"
  BY DEF Told
<1>6. /\ c.serial \in 0..s.serial /\ c.seq \in [Devices -> 0..k]
      /\ c.regions \subseteq s.announced
      /\ c.keyboard \in s.announced \cup {NoDevice}
      /\ c.pointer \in s.announced \cup {NoDevice}
      /\ c.pointer_abs \in s.announced \cup {NoDevice}
      /\ c.sub \in [Devices -> SUBSET Names] /\ c.version \in BOOLEAN
      /\ c.version => s.stage # "new"
  BY DEF Knows
<1>7. \A d \in Devices : c.sub[d] \subseteq Range(Interfaces[d]) /\ c.sub[d] \subseteq n.sub[d]
                         /\ n.sub[d] \subseteq Range(Interfaces[d])
  BY <1>3, <1>5 DEF Knows
<1>8. n.serial \in 0..s.serial /\ n.seq \in [Devices -> 0..k] /\ n.regions \subseteq s.announced
  <2>1. m.serial \in Nat
    BY <1>5 DEF MessageType
  <2>2. n.serial \in 0..s.serial
    BY <1>1, <1>2, <1>5, <1>6, <2>1
  <2>3. QED
    BY <1>2, <1>5, <1>6, <2>2
<1>9. /\ n.keyboard \in s.announced \cup {NoDevice}
      /\ n.pointer \in s.announced \cup {NoDevice}
      /\ n.pointer_abs \in s.announced \cup {NoDevice}
  BY <1>4, <1>5, <1>6
<1>10. n.keyboard # NoDevice => "ei_keyboard" \in n.sub[n.keyboard]
  <2>1. c.keyboard # NoDevice => c.keyboard \in Devices /\ "ei_keyboard" \in c.sub[c.keyboard]
    BY <1>1, <1>6 DEF Knows
  <2>2. QED
    BY <1>3, <1>4, <1>7, <2>1
<1>11. n.pointer # NoDevice => "ei_pointer" \in n.sub[n.pointer]
  <2>1. c.pointer # NoDevice => c.pointer \in Devices /\ "ei_pointer" \in c.sub[c.pointer]
    BY <1>1, <1>6 DEF Knows
  <2>2. QED
    BY <1>3, <1>4, <1>7, <2>1
<1>12. n.pointer_abs # NoDevice => "ei_pointer_absolute" \in n.sub[n.pointer_abs]
  <2>1. c.pointer_abs # NoDevice =>
          c.pointer_abs \in Devices /\ "ei_pointer_absolute" \in c.sub[c.pointer_abs]
    BY <1>1, <1>6 DEF Knows
  <2>2. QED
    BY <1>3, <1>4, <1>7, <2>1
<1>13. n.version => s.stage # "new"
  BY <1>4, <1>5, <1>6
<1>14. n \in [version : BOOLEAN, connected : BOOLEAN, bound : BOOLEAN, keymap : BOOLEAN,
              sub : [Devices -> SUBSET Names], regions : SUBSET s.announced,
              serial : 0..s.serial, seq : [Devices -> 0..k],
              keyboard : s.announced \cup {NoDevice},
              pointer : s.announced \cup {NoDevice},
              pointer_abs : s.announced \cup {NoDevice}]
  BY <1>2, <1>8, <1>9 DEF ClientType
<1>15. QED
  BY <1>7, <1>10, <1>11, <1>12, <1>13, <1>14 DEF Knows

\* The client's serials and sequence numbers only grow.
LEMMA ServesLater ==
    ASSUME NEW s, NEW c, NEW n, Serves(s, c), c \in ClientType, n \in ClientType,
           c.serial <= n.serial, \A d \in Devices : c.seq[d] <= n.seq[d]
    PROVE  Serves(s, n)
<1>1. s.heard \in Nat /\ c.serial \in Nat /\ n.serial \in Nat /\ s.heard <= c.serial
  BY DEF Serves, ClientType
<1>2. s.heard <= n.serial
  BY <1>1
<1>3. ASSUME NEW d \in Devices PROVE s.seqs[d] <= n.seq[d]
  <2>1. s.seqs[d] \in Nat /\ c.seq[d] \in Nat /\ n.seq[d] \in Nat /\ s.seqs[d] <= c.seq[d]
    BY DEF Serves, ClientType
  <2>2. QED
    BY <2>1
<1>4. QED
  BY <1>2, <1>3 DEF Serves

\* What is asked of the server stays right while the client's counters grow.
LEMMA AskedLater ==
    ASSUME NEW m, NEW s, NEW c, NEW n, Asked(m, c, s), c \in ClientType, n \in ClientType,
           c.serial <= n.serial, \A d \in Devices : c.seq[d] <= n.seq[d]
    PROVE  Asked(m, n, s)
<1>1. ASSUME m.name = "start" PROVE m.seq <= n.seq[m.dev] /\ m.serial <= n.serial
  <2>1. m.dev \in Devices /\ m.seq \in Nat /\ m.serial \in Nat
        /\ m.seq <= c.seq[m.dev] /\ m.serial <= c.serial
    BY <1>1 DEF Asked, Framed, MessageType
  <2>2. c.seq[m.dev] \in Nat /\ n.seq[m.dev] \in Nat /\ c.serial \in Nat /\ n.serial \in Nat
        /\ c.seq[m.dev] <= n.seq[m.dev]
    BY <2>1 DEF ClientType
  <2>3. QED
    BY <2>1, <2>2
<1>2. QED
  BY <1>1 DEF Asked

\* So do the messages to the server.
LEMMA OutgoingLater ==
    ASSUME NEW u, NEW s, NEW c, NEW n, Outgoing(u, c, s), c \in ClientType, n \in ClientType,
           c.serial <= n.serial, \A d \in Devices : c.seq[d] <= n.seq[d]
    PROVE  Outgoing(u, n, s)
<1>1. \A m \in Range(u) : Asked(m, n, s)
  BY AskedLater DEF Outgoing
<1>2. QED
  BY <1>1 DEF Outgoing

\* The other messages, when the client has read the first.
LEMMA IncomingRead ==
    ASSUME NEW q, NEW c, NEW s, NEW n, Incoming(q, c, s), q # <<>>,
           n.serial = IF Head(q).name \in Dated THEN Head(q).serial ELSE c.serial
    PROVE  /\ Told(Head(q), s)
           /\ Head(q).name \in Dated => c.serial <= Head(q).serial
           /\ Incoming(Tail(q), n, s)
<1>1. q \in Seq(MessageType)
  BY DEF Incoming
<1>2. PICK m, t : m = Head(q) /\ t = Tail(q)
  OBVIOUS
<1>3. /\ m \in MessageType /\ t \in Seq(MessageType) /\ <<m>> \in Seq(MessageType)
      /\ q = <<m>> \o t
  BY <1>1, <1>2, HeadOn
<1>4. Range(q) = {m} \cup Range(t)
  <2>1. Range(q) = Range(<<m>>) \cup Range(t)
    BY <1>3, RangeOn
  <2>2. QED
    BY <2>1, RangeOne
<1>5. Told(m, s) /\ (m.name \in Dated => c.serial <= m.serial)
  BY <1>4 DEF Incoming
<1>6. ASSUME NEW x, NEW y, Precedes(x, y, t) PROVE Precedes(x, y, q)
  BY <1>3, <1>6, PrecedesOn
<1>7. ASSUME NEW x \in Range(t) PROVE Precedes(m, x, q)
  <2>1. m \in Range(<<m>>)
    BY RangeOne
  <2>2. QED
    BY <1>3, <2>1, PrecedesOn
<1>8. ASSUME NEW x \in Range(t), x.name \in Dated PROVE n.serial <= x.serial
  <2>1. CASE m.name \in Dated
    <3>1. m.serial <= x.serial
      BY <1>4, <1>7, <1>8, <2>1 DEF Incoming
    <3>2. QED
      BY <1>2, <2>1, <3>1
  <2>2. CASE m.name \notin Dated
    <3>1. c.serial <= x.serial
      BY <1>4, <1>8 DEF Incoming
    <3>2. QED
      BY <1>2, <2>2, <3>1
  <2>3. QED
    BY <2>1, <2>2
<1>9. \A x, y \in Range(t) :
        Precedes(x, y, t) /\ x.name \in Dated /\ y.name \in Dated => x.serial <= y.serial
  BY <1>4, <1>6 DEF Incoming
<1>10. \A x \in Range(t) : Told(x, s)
  BY <1>4 DEF Incoming
<1>11. Incoming(t, n, s)
  BY <1>3, <1>8, <1>9, <1>10 DEF Incoming
<1>12. QED
  BY <1>2, <1>5, <1>11

\* What the client does not know yet is still on its way then.
LEMMA ComingRead ==
    ASSUME NEW q, NEW c, NEW s, NEW k \in Nat, NEW n,
           Knows(c, s, k), Serves(s, c), Incoming(q, c, s), Coming(c, q, s), q # <<>>,
           n = Learn(c, Head(q))
    PROVE  Coming(n, Tail(q), s)
<1>1. q \in Seq(MessageType)
  BY DEF Incoming
<1>2. PICK m, t : m = Head(q) /\ t = Tail(q)
  OBVIOUS
<1>3. /\ m \in MessageType /\ t \in Seq(MessageType) /\ <<m>> \in Seq(MessageType)
      /\ q = <<m>> \o t
  BY <1>1, <1>2, HeadOn
<1>4. Range(q) = {m} \cup Range(t)
  <2>1. Range(q) = Range(<<m>>) \cup Range(t)
    BY <1>3, RangeOn
  <2>2. QED
    BY <2>1, RangeOne
<1>5. Told(m, s) /\ (m.name \in Dated => c.serial <= m.serial)
  BY <1>4 DEF Incoming
<1>6. c \in ClientType /\ Sound(m) /\ s.announced \subseteq Devices
  BY <1>5, Shapes
<1>0. Learns(c, m, n)
  BY <1>2, <1>6, LearnFacts
<1>7. /\ n.serial = (IF m.name \in Dated THEN m.serial ELSE c.serial)
      /\ n.regions = (IF m.name = "region" THEN c.regions \cup {m.dev} ELSE c.regions)
      /\ n.keymap = (c.keymap \/ m.name = "keymap")
  BY <1>0 DEF Learns
<1>8. /\ m.name = "interface" => n.sub[m.dev] = c.sub[m.dev] \cup {m.iface}
      /\ \A d \in Devices :
           m.name # "interface" \/ d # m.dev => n.sub[d] = c.sub[d]
  BY <1>0 DEF Learns
<1>9. ASSUME NEW d \in s.announced
      PROVE  d \in n.regions \/ \E x \in Range(t) : x.name = "region" /\ x.dev = d
  <2>1. d \in c.regions \/ \E x \in Range(q) : x.name = "region" /\ x.dev = d
    BY DEF Coming
  <2>2. QED
    BY <1>4, <1>7, <2>1
<1>10. ASSUME NEW d \in s.announced, NEW i \in Range(Interfaces[d])
       PROVE  \/ i \in n.sub[d]
              \/ \E x \in Range(t) : x.name = "interface" /\ x.dev = d /\ x.iface = i
  <2>1. \/ i \in c.sub[d]
        \/ \E x \in Range(q) : x.name = "interface" /\ x.dev = d /\ x.iface = i
    BY DEF Coming
  <2>2. d \in Devices
    BY <1>6
  <2>3. CASE i \in c.sub[d]
    BY <1>8, <2>2, <2>3
  <2>4. CASE \E x \in Range(q) : x.name = "interface" /\ x.dev = d /\ x.iface = i
    BY <1>4, <1>8, <2>2, <2>4
  <2>5. QED
    BY <2>1, <2>3, <2>4
<1>11. ASSUME s.mapped PROVE n.keymap \/ \E x \in Range(t) : x.name = "keymap"
  <2>1. c.keymap \/ \E x \in Range(q) : x.name = "keymap"
    BY <1>11 DEF Coming
  <2>2. QED
    BY <1>4, <1>7, <2>1
<1>12. ASSUME s.stage \in {"seat", "bound"}
       PROVE  \/ n.serial = s.serial
              \/ \E x \in Range(t) : x.name \in Dated /\ x.serial = s.serial
  <2>1. \/ c.serial = s.serial
        \/ \E x \in Range(q) : x.name \in Dated /\ x.serial = s.serial
    BY <1>12 DEF Coming
  <2>2. CASE m.name \notin Dated
    BY <1>4, <1>7, <2>1, <2>2
  <2>3. CASE m.name \in Dated /\ c.serial = s.serial
    <3>1. m.serial \in Nat /\ m.serial <= s.serial /\ c.serial <= m.serial /\ s.serial \in Nat
      BY <1>3, <1>5, <2>3, Shapes DEF Told, MessageType
    <3>2. m.serial = s.serial
      BY <2>3, <3>1
    <3>3. QED
      BY <1>7, <2>3, <3>2
  <2>4. CASE m.name \in Dated /\ \E x \in Range(q) : x.name \in Dated /\ x.serial = s.serial
    BY <1>4, <1>7, <2>4
  <2>5. QED
    BY <2>1, <2>2, <2>3, <2>4
<1>13. Coming(n, t, s)
  BY <1>9, <1>10, <1>11, <1>12 DEF Coming
<1>14. QED
  BY <1>2, <1>13

\* A message more to the server.
LEMMA OutgoingMore ==
    ASSUME NEW u, NEW c, NEW s, Outgoing(u, c, s), s.open, NEW m, Asked(m, c, s),
           m.name = "start" => \A x \in Range(u) : x.name = "start" =>
               x.serial <= m.serial /\ (x.dev = m.dev => x.seq < m.seq),
           m.name = "hello" => \A x \in Range(u) : x.name # "hello",
           m.name \in Inner =>
               u # <<>> /\ Last(u).name = Before(m.name) /\ Last(u).dev = m.dev
    PROVE  /\ Outgoing(u \o <<m>>, c, s)
           /\ Range(u \o <<m>>) = Range(u) \cup {m}
           /\ u \o <<m>> # <<>> /\ Last(u \o <<m>>) = m
<1> DEFINE v == u \o <<m>>
<1>1. u \in Seq(MessageType) /\ m \in MessageType
  BY DEF Outgoing, Asked
<1>2. <<m>> \in Seq(MessageType) /\ <<m>> # <<>> /\ Head(<<m>>) = m /\ Last(<<m>>) = m
  BY <1>1 DEF Last
<1>3. v \in Seq(MessageType)
  BY <1>1, <1>2, ConcatAt
<1>4. Range(<<m>>) = {m}
  BY RangeOne
<1>5. Range(v) = Range(u) \cup {m}
  <2>1. Range(v) = Range(u) \cup Range(<<m>>)
    BY <1>1, <1>2, RangeOn
  <2>2. QED
    BY <1>4, <2>1
<1>6. v # <<>> /\ Last(v) = m
  BY <1>1, <1>2, EndsOn
<1>7. u # <<>> => Head(v) = Head(u)
  BY <1>1, <1>2, EndsOn
<1>8. u = <<>> => Head(v) = m
  BY <1>2
<1>9. ASSUME NEW x, NEW y, Precedes(x, y, v)
      PROVE  \/ Precedes(x, y, u) /\ x \in Range(u) /\ y \in Range(u)
             \/ x \in Range(u) /\ y = m
  <2>1. ~Precedes(x, y, <<m>>)
    BY SingleOn
  <2>2. \/ Precedes(x, y, u) /\ x \in Range(u) /\ y \in Range(u)
        \/ Precedes(x, y, <<m>>) /\ x \in Range(<<m>>) /\ y \in Range(<<m>>)
        \/ x \in Range(u) /\ y \in Range(<<m>>)
    BY <1>1, <1>2, <1>9, PrecedesOn
  <2>3. QED
    BY <1>4, <2>1, <2>2
<1>10. ASSUME NEW x, NEW y, Follows(x, y, v)
       PROVE  \/ Follows(x, y, u) /\ x \in Range(u) /\ y \in Range(u)
              \/ u # <<>> /\ x = Last(u) /\ y = m
  <2>1. ~Follows(x, y, <<m>>)
    BY SingleOn
  <2>2. \/ Follows(x, y, u) /\ x \in Range(u) /\ y \in Range(u)
        \/ Follows(x, y, <<m>>) /\ x \in Range(<<m>>) /\ y \in Range(<<m>>)
        \/ u # <<>> /\ <<m>> # <<>> /\ x = Last(u) /\ y = Head(<<m>>)
    BY <1>1, <1>2, <1>10, FollowsOn
  <2>3. QED
    BY <1>2, <2>1, <2>2
<1> HIDE DEF v
<1>11. \A x \in Range(v) : Asked(x, c, s)
  BY <1>5 DEF Outgoing
<1>12. ASSUME NEW x, NEW y, Precedes(x, y, v), x.name = "start", y.name = "start"
       PROVE  x.serial <= y.serial /\ (x.dev = y.dev => x.seq < y.seq)
  <2>1. CASE Precedes(x, y, u) /\ x \in Range(u) /\ y \in Range(u)
    BY <1>12, <2>1 DEF Outgoing
  <2>2. CASE x \in Range(u) /\ y = m
    BY <1>12, <2>2
  <2>3. QED
    BY <1>9, <1>12, <2>1, <2>2
<1>13. ASSUME NEW x, NEW y, Precedes(x, y, v), x.name = "hello", y.name = "hello"
       PROVE  FALSE
  <2>1. CASE Precedes(x, y, u) /\ x \in Range(u) /\ y \in Range(u)
    BY <1>13, <2>1 DEF Outgoing
  <2>2. CASE x \in Range(u) /\ y = m
    BY <1>13, <2>2
  <2>3. QED
    BY <1>9, <1>13, <2>1, <2>2
<1>14. ASSUME NEW x, NEW y, Follows(x, y, v), y.name \in Inner
       PROVE  x.name = Before(y.name) /\ x.dev = y.dev
  <2>1. CASE Follows(x, y, u) /\ x \in Range(u) /\ y \in Range(u)
    BY <1>14, <2>1 DEF Outgoing
  <2>2. CASE u # <<>> /\ x = Last(u) /\ y = m
    BY <1>14, <2>2
  <2>3. QED
    BY <1>10, <1>14, <2>1, <2>2
<1>15. Begun(Head(v), s)
  <2>1. CASE u # <<>>
    BY <1>7, <2>1 DEF Outgoing
  <2>2. CASE u = <<>>
    BY <1>8, <2>2 DEF Begun
  <2>3. QED
    BY <2>1, <2>2
<1>16. Outgoing(v, c, s)
  BY <1>3, <1>11, <1>12, <1>13, <1>14, <1>15 DEF Outgoing
<1>17. QED
  BY <1>5, <1>6, <1>16 DEF v

\* Frames stay whole with a message that belongs to none.
LEMMA WholeMore ==
    ASSUME NEW u \in Seq(MessageType), NEW s, NEW f \in BOOLEAN, Whole(u, s, f),
           NEW m \in MessageType,
           ~f => m.name \notin Outer \cup Inner \cup {"cut"}
    PROVE  Whole(u \o <<m>>, s, f)
<1> SUFFICES ASSUME ~f, s.open PROVE Whole(u \o <<m>>, s, f)
  BY DEF Whole
<1> DEFINE v == u \o <<m>>
<1>1. m.name \notin Outer \cup Inner \cup {"cut"}
  OBVIOUS
<1>2. <<m>> \in Seq(MessageType) /\ <<m>> # <<>> /\ Head(<<m>>) = m /\ Last(<<m>>) = m
  BY DEF Last
<1>3. Range(<<m>>) = {m}
  BY RangeOne
<1>4. Range(v) = Range(u) \cup {m}
  BY RangeMore
<1>5. v # <<>> /\ Last(v) = m
  BY <1>2, EndsOn
<1>6. u # <<>> => Head(v) = Head(u)
  BY <1>2, EndsOn
<1>7. ASSUME NEW x, NEW y, Follows(x, y, v)
      PROVE  \/ Follows(x, y, u) /\ x \in Range(u) /\ y \in Range(u)
             \/ u # <<>> /\ x = Last(u)
  <2>1. ~Follows(x, y, <<m>>)
    BY SingleOn
  <2>2. \/ Follows(x, y, u) /\ x \in Range(u) /\ y \in Range(u)
        \/ Follows(x, y, <<m>>) /\ x \in Range(<<m>>) /\ y \in Range(<<m>>)
        \/ u # <<>> /\ <<m>> # <<>> /\ x = Last(u) /\ y = Head(<<m>>)
    BY <1>2, <1>7, FollowsOn
  <2>3. QED
    BY <2>1, <2>2
<1> HIDE DEF v
<1>8. \A x \in Range(v) : x.name # "cut"
  BY <1>1, <1>4 DEF Whole
<1>9. ASSUME NEW x, NEW y, Follows(x, y, v), x.name \in Outer PROVE y.name \in Inner
  <2>1. CASE Follows(x, y, u) /\ x \in Range(u) /\ y \in Range(u)
    BY <1>9, <2>1 DEF Whole
  <2>2. CASE u # <<>> /\ x = Last(u)
    BY <1>9, <2>2 DEF Whole
  <2>3. QED
    BY <1>7, <1>9, <2>1, <2>2
<1>10. Last(v).name \notin Outer
  BY <1>1, <1>5
<1>11. \A d \in s.emulating : v # <<>> /\ Head(v).name \in Inner /\ Head(v).dev = d
  BY <1>5, <1>6 DEF Whole
<1>12. s.bad => f
  BY DEF Whole
<1>13. Whole(v, s, f)
  BY <1>8, <1>9, <1>10, <1>11, <1>12 DEF Whole
<1>14. QED
  BY <1>13 DEF v

\* What a message of the server does to the rest, with the answer to it.
LEMMA ReadOne ==
    ASSUME NEW md, NEW c, NEW q, NEW u, NEW s, NEW f \in BOOLEAN, NEW k \in Nat,
           Good(md, c, q, u, s, f, k), q # <<>>,
           NEW v, NEW g \in BOOLEAN, f => g,
           \/ Head(q).name \notin {"ping", "seat_done"} /\ v = u
           \/ /\ Head(q).name \in {"ping", "seat_done"} /\ s.open
              /\ v = u \o <<Plain(Answer(Head(q).name))>>
           \/ Head(q).name \in {"ping", "seat_done"} /\ v = u /\ g
    PROVE  Good(md, Learn(c, Head(q)), Tail(q), v, s, g, k)
<1>1. /\ Knows(c, s, k) /\ Serves(s, c) /\ Incoming(q, c, s) /\ Outgoing(u, c, s)
      /\ Whole(u, s, f) /\ Counted(q, u, s, f, k) /\ Coming(c, q, s) /\ Greeting(md, u, s)
  BY DEF Good
<1>2. PICK m, t, n : m = Head(q) /\ t = Tail(q) /\ n = Learn(c, m)
  OBVIOUS
<1>3. q \in Seq(MessageType) /\ u \in Seq(MessageType)
  BY <1>1 DEF Incoming, Outgoing
<1>4. m \in MessageType /\ t \in Seq(MessageType)
  BY <1>2, <1>3, HeadOn
<1>5. Told(m, s) /\ (m.name \in Dated => c.serial <= m.serial)
  BY <1>1, <1>2, IncomingRead
<1>6. c \in ClientType /\ Sound(m)
  BY <1>1, <1>5, Shapes
<1>7. Learns(c, m, n)
  BY <1>2, <1>6, LearnFacts
<1>8. n \in ClientType /\ n.seq = c.seq
      /\ n.serial = (IF m.name \in Dated THEN m.serial ELSE c.serial)
  BY <1>7 DEF Learns
<1>9. c.serial <= n.serial /\ \A d \in Devices : c.seq[d] <= n.seq[d]
  <2>1. c.serial \in Nat /\ \A d \in Devices : c.seq[d] \in Nat
    BY <1>6 DEF ClientType
  <2>2. QED
    BY <1>5, <1>8, <2>1
<1>10. Knows(n, s, k)
  BY <1>1, <1>2, <1>5, KnowsRead
<1>11. Serves(s, n)
  BY <1>1, <1>6, <1>8, <1>9, ServesLater
<1>12. Incoming(t, n, s)
  BY <1>1, <1>2, <1>8, IncomingRead
<1>13. Outgoing(u, n, s)
  BY <1>1, <1>6, <1>8, <1>9, OutgoingLater
<1>14. Coming(n, t, s)
  BY <1>1, <1>2, ComingRead
<1>15. /\ Count(q, "ping") \in Nat /\ Count(t, "ping") \in Nat
       /\ m.name = "ping" => Count(q, "ping") = Count(t, "ping") + 1
       /\ m.name # "ping" => Count(q, "ping") = Count(t, "ping")
  BY <1>2, <1>3, CountHead
<1>16. /\ Count(u, "pong") \in Nat /\ Count(u, "frame") \in Nat
       /\ s.pings \in Nat /\ s.met \in Nat
  <2>1. Count(u, "pong") \in Nat /\ Count(u, "frame") \in Nat
    BY <1>3, CountOn
  <2>2. QED
    BY <1>1, <2>1 DEF Serves
<1>17. /\ Count(q, "ping") + Count(u, "pong") <= s.pings
       /\ s.met + Count(u, "frame") <= k
       /\ ~f /\ s.open => s.pings = Count(q, "ping") + Count(u, "pong")
       /\ ~f /\ s.open /\ s.gone = {} => s.met + Count(u, "frame") = k
  BY <1>1 DEF Counted
<1>18. Whole(u, s, g)
  BY <1>1 DEF Whole
<1>19. CASE m.name \notin {"ping", "seat_done"} /\ v = u
  <2>1. Counted(t, v, s, g, k)
    BY <1>15, <1>17, <1>19 DEF Counted
  <2>2. QED
    BY <1>1, <1>2, <1>10, <1>11, <1>12, <1>13, <1>14, <1>18, <1>19, <2>1 DEF Good
<1>20. CASE m.name \in {"ping", "seat_done"} /\ v = u /\ g
  <2>1. Counted(t, v, s, g, k)
    BY <1>15, <1>16, <1>17, <1>20 DEF Counted
  <2>2. QED
    BY <1>1, <1>2, <1>10, <1>11, <1>12, <1>13, <1>14, <1>18, <1>20, <2>1 DEF Good
<1>21. CASE /\ m.name \in {"ping", "seat_done"} /\ s.open
            /\ v = u \o <<Plain(Answer(m.name))>>
  <2>1. PICK r : r = Plain(Answer(m.name))
    OBVIOUS
  <2>2. Answer(m.name) \in {"pong", "bind"} /\ Answer(m.name) \in Requests
        /\ (m.name = "ping" <=> Answer(m.name) = "pong")
    BY <1>21 DEF Answer, Requests
  <2>3. /\ r \in MessageType /\ r.name = Answer(m.name) /\ r.dev = NoDevice
    BY <2>1, <2>2, PlainType
  <2>4. r.name = "bind" => s.stage \in {"seat", "bound"}
    BY <1>5, <1>21, <2>2, <2>3 DEF Told
  <2>5. Asked(r, n, s)
    BY <2>2, <2>3, <2>4, EisAssumption DEF Asked, Framed, Requests
  <2>6. r.name \notin Outer \cup Inner \cup {"cut", "hello", "frame"}
    BY <2>2, <2>3 DEF Outer, Inner
  <2>7. Outgoing(u \o <<r>>, n, s) /\ Range(u \o <<r>>) = Range(u) \cup {r}
    <3>1. r.name # "start" /\ r.name # "hello" /\ r.name \notin Inner
      BY <2>6 DEF Outer
    <3>2. s.open
      BY <1>21
    <3>3. QED
      BY <1>13, <2>5, <3>1, <3>2, OutgoingMore
  <2>8. Whole(u \o <<r>>, s, g)
    BY <1>3, <1>18, <2>3, <2>6, WholeMore
  <2>9. /\ r.name = "pong" => Count(u \o <<r>>, "pong") = Count(u, "pong") + 1
        /\ r.name # "pong" => Count(u \o <<r>>, "pong") = Count(u, "pong")
    BY <1>3, <2>3, CountMore
  <2>10. Count(u \o <<r>>, "frame") = Count(u, "frame")
    BY <1>3, <2>3, <2>6, CountMore
  <2>11. Count(t, "ping") + Count(u \o <<r>>, "pong") = Count(q, "ping") + Count(u, "pong")
    BY <1>15, <1>16, <2>2, <2>3, <2>9
  <2>12. Counted(t, u \o <<r>>, s, g, k)
    BY <1>17, <2>10, <2>11 DEF Counted
  <2>13. Greeting(md, u \o <<r>>, s)
    BY <1>1, <2>6, <2>7 DEF Greeting
  <2>14. v = u \o <<r>>
    BY <1>21, <2>1
  <2>15. QED
    BY <1>2, <1>10, <1>11, <1>12, <1>14, <2>7, <2>8, <2>12, <2>13, <2>14 DEF Good
<1>22. QED
  BY <1>2, <1>19, <1>20, <1>21

-----------------------------------------------------------------------------
(* A pump: a fold over what it reads, one message after the other.         *)

\* How a pump begins.
Start(room) ==
    [cl |-> cl, room |-> room, sent |-> <<>>, rest |-> <<>>,
     some |-> FALSE, raised |-> FALSE, unsent |-> FALSE]

\* f gives what Dispatch makes of the messages of a set of positions.
Folds(f, ms, S, base) ==
    f = [s \in SUBSET S |-> IF s = {} THEN base
                            ELSE Dispatch(f[s \ {Max(s)}], ms[Max(s)])]

\* A pump is the fold over all the positions of what it reads.
LEMMA PumpedIs ==
    ASSUME NEW ms, NEW room
    PROVE  Pumped(ms, room) =
             (CHOOSE f : Folds(f, ms, DOMAIN ms, Start(room)))[DOMAIN ms]
BY DEF Pumped, FoldLeft, MapThenFoldSet, Folds, Start

\* The fold over a set of positions.
LEMMA FoldsAt ==
    ASSUME NEW f, NEW ms, NEW S, NEW base, Folds(f, ms, S, base), NEW s \in SUBSET S
    PROVE  f[s] = IF s = {} THEN base ELSE Dispatch(f[s \ {Max(s)}], ms[Max(s)])
BY DEF Folds

\* There is such a function, for any number of messages.
LEMMA FoldsExists ==
    ASSUME NEW ms, NEW base, NEW n \in Nat
    PROVE  \E f : Folds(f, ms, 1..n, base)
<1> DEFINE T == {m \in Nat : \E f : Folds(f, ms, 1..m, base)}
<1>1. 0 \in T
  <2>1. Folds([s \in SUBSET (1..0) |-> base], ms, 1..0, base)
    <3>1. \A s \in SUBSET (1..0) : s = {}
      OBVIOUS
    <3>2. QED
      BY <3>1 DEF Folds
  <2>2. QED
    BY <2>1
<1>2. ASSUME NEW m \in Nat, m \in T PROVE m + 1 \in T
  <2>1. PICK f : Folds(f, ms, 1..m, base)
    BY <1>2
  <2>2. PICK k \in Nat : k = m + 1
    OBVIOUS
  <2> DEFINE g == [s \in SUBSET (1..k) |->
                     IF k \in s THEN Dispatch(f[s \ {k}], ms[k]) ELSE f[s]]
             h == [s \in SUBSET (1..k) |-> IF s = {} THEN base
                     ELSE Dispatch(g[s \ {Max(s)}], ms[Max(s)])]
  <2>3. ASSUME NEW s \in SUBSET (1..k) PROVE g[s] = h[s]
    <3>1. CASE k \in s
      <4>1. Max(s) = k
        <5>1. s \subseteq Nat /\ \A m_1 \in s : m_1 <= k
          BY <2>2
        <5>2. QED
          BY <3>1, <5>1, MaxIs
      <4>2. s \ {k} \in SUBSET (1..k) /\ k \notin s \ {k}
        OBVIOUS
      <4>3. g[s \ {k}] = f[s \ {k}]
        BY <4>2
      <4>4. s # {}
        BY <3>1
      <4> HIDE DEF g
      <4>5. h[s] = Dispatch(g[s \ {k}], ms[k])
        BY <4>1, <4>4
      <4>6. g[s] = Dispatch(f[s \ {k}], ms[k])
        BY <3>1 DEF g
      <4>7. QED
        BY <4>3, <4>5, <4>6
    <3>2. CASE k \notin s
      <4>1. s \in SUBSET (1..m)
        BY <2>2, <3>2
      <4>2. g[s] = f[s]
        BY <3>2
      <4>3. f[s] = IF s = {} THEN base ELSE Dispatch(f[s \ {Max(s)}], ms[Max(s)])
        BY <2>1, <4>1 DEF Folds
      <4>4. g[s \ {Max(s)}] = f[s \ {Max(s)}]
        BY <3>2
      <4> HIDE DEF g
      <4>5. h[s] = IF s = {} THEN base ELSE Dispatch(g[s \ {Max(s)}], ms[Max(s)])
        OBVIOUS
      <4>6. QED
        BY <4>2, <4>3, <4>4, <4>5
    <3>3. QED
      BY <3>1, <3>2
  <2>4. g = h
    <3>1. DOMAIN g = SUBSET (1..k) /\ DOMAIN h = SUBSET (1..k)
      OBVIOUS
    <3>2. g = [s \in SUBSET (1..k) |-> g[s]] /\ h = [s \in SUBSET (1..k) |-> h[s]]
      OBVIOUS
    <3> HIDE DEF g, h
    <3>3. QED
      BY <2>3, <3>2
  <2>5. Folds(g, ms, 1..k, base)
    <3>1. g = [s \in SUBSET (1..k) |-> IF s = {} THEN base
                     ELSE Dispatch(g[s \ {Max(s)}], ms[Max(s)])]
      <4> HIDE DEF g
      <4>1. QED
        BY <2>4
    <3> HIDE DEF g
    <3>2. QED
      BY <3>1 DEF Folds
  <2>6. \E e : Folds(e, ms, 1..k, base)
    BY <2>5
  <2>7. QED
    BY <2>2, <2>6
<1> HIDE DEF T
<1>3. \A m \in Nat : m \in T
  BY <1>1, <1>2, Induction
<1>4. QED
  BY <1>3 DEF T

\* A pump dispatches one message after the other.
LEMMA PumpSteps ==
    ASSUME NEW S, NEW ms \in Seq(S), NEW room
    PROVE  \E a : /\ a[0] = Start(room)
                  /\ \A i \in 0..(Len(ms) - 1) : a[i + 1] = Dispatch(a[i], ms[i + 1])
                  /\ Pumped(ms, room) = a[Len(ms)]
<1> DEFINE n == Len(ms)
           f == CHOOSE f : Folds(f, ms, 1..n, Start(room))
           a == [i \in 0..n |-> f[1..i]]
<1>1. n \in Nat /\ DOMAIN ms = 1..n
  OBVIOUS
<1>2. Pumped(ms, room) = f[1..n]
  BY <1>1, PumpedIs
<1>3. Folds(f, ms, 1..n, Start(room))
  BY <1>1, FoldsExists
<1> HIDE DEF f
<1>4. a[0] = Start(room)
  <2>1. f[{}] = Start(room)
    BY <1>3, FoldsAt
  <2>2. 1..0 = {} /\ 0 \in 0..n
    BY <1>1
  <2>3. QED
    BY <2>1, <2>2
<1>5. ASSUME NEW i \in 0..(n - 1) PROVE a[i + 1] = Dispatch(a[i], ms[i + 1])
  <2>1. PICK j \in Nat : j = i + 1
    BY <1>1
  <2>2. i \in 0..n /\ j \in 0..n /\ j \in 1..j /\ 1..j \in SUBSET (1..n)
    BY <1>1, <2>1
  <2>3. Max(1..j) = j
    <3>1. 1..j \subseteq Nat /\ \A m \in 1..j : m <= j
      BY <2>1
    <3>2. QED
      BY <2>2, <3>1, MaxIs
  <2>4. (1..j) \ {j} = 1..i
    BY <2>1, <2>2
  <2>5. f[1..j] = Dispatch(f[(1..j) \ {Max(1..j)}], ms[Max(1..j)])
    <3>1. 1..j # {}
      BY <2>2
    <3>2. QED
      BY <1>3, <2>2, <3>1 DEF Folds
  <2>6. f[1..j] = Dispatch(f[1..i], ms[j])
    BY <2>3, <2>4, <2>5
  <2>7. a[j] = f[1..j] /\ a[i] = f[1..i]
    BY <2>2
  <2> HIDE DEF a
  <2>8. QED
    BY <2>1, <2>6, <2>7
<1>6. Pumped(ms, room) = a[n]
  BY <1>1, <1>2
<1> HIDE DEF a
<1>7. QED
  BY <1>4, <1>5, <1>6

\* A pump after i messages of the flow, of which it has handled h.
Pumping(a, h, i, flow, md, u, s, f, k) ==
    /\ a \in PumpType
    /\ a.rest = SubSeq(flow, h + 1, i)
    /\ a.raised \/ h = i
    /\ a.raised => a.unsent \/ ~s.open
    /\ s.open \/ a.room = 0
    /\ Good(md, a.cl, SubSeq(flow, h + 1, Len(flow)), u \o a.sent, s, f \/ a.unsent, k)

\* One message: the pump handles it, or keeps it once a handler has raised.
LEMMA PumpOne ==
    ASSUME NEW flow \in Seq(MessageType), NEW i \in Nat, NEW j \in Nat, j = i + 1,
           j <= Len(flow), NEW h \in 0..i, NEW md, NEW u \in Seq(MessageType), NEW s,
           NEW f \in BOOLEAN, NEW k \in Nat,
           NEW a, Pumping(a, h, i, flow, md, u, s, f, k),
           NEW b, b = Dispatch(a, flow[j])
    PROVE  \E e \in 0..j : Pumping(b, e, j, flow, md, u, s, f, k)
<1>0. /\ a \in PumpType /\ a.rest = SubSeq(flow, h + 1, i) /\ a.raised \in BOOLEAN
      /\ a.unsent \in BOOLEAN /\ a.sent \in Seq(MessageType) /\ a.room \in Nat
  BY DEF Pumping, PumpType
<1>1. j \in 1..Len(flow) /\ flow[j] \in MessageType /\ Len(flow) \in Nat
  OBVIOUS
<1>2. CASE a.raised
  <2>1. b = [a EXCEPT !.rest = Append(@, flow[j])]
    BY <1>2 DEF Dispatch
  <2>2. PICK m : m = h + 1
    OBVIOUS
  <2>3. m \in 1..Len(flow) /\ j \in m..Len(flow) /\ j - 1 = i
    BY <1>1, <2>2
  <2>4. SubSeq(flow, m, j) = SubSeq(flow, m, j - 1) \o <<flow[j]>>
    BY <2>3, SubSeqRecursiveSecond
  <2>5. PICK r : r = Append(a.rest, flow[j])
    OBVIOUS
  <2>6. r \in Seq(MessageType) /\ r = a.rest \o <<flow[j]>>
    <3>1. a.rest \in Seq(MessageType)
      BY <1>0 DEF PumpType
    <3>2. QED
      BY <1>1, <2>5, <3>1, AppendProperties, AppendIsConcat
  <2>7. r = SubSeq(flow, h + 1, j)
    BY <1>0, <2>2, <2>3, <2>4, <2>6
  <2>8. b = [a EXCEPT !.rest = r]
    BY <2>1, <2>5
  <2>9. /\ b \in PumpType /\ b.rest = r /\ b.raised = a.raised /\ b.unsent = a.unsent
        /\ b.room = a.room /\ b.cl = a.cl /\ b.sent = a.sent
    BY <1>0, <2>6, <2>8 DEF PumpType
  <2>10. Pumping(b, h, j, flow, md, u, s, f, k)
    BY <1>2, <2>7, <2>9 DEF Pumping
  <2>11. h \in 0..j
    OBVIOUS
  <2>12. QED
    BY <2>10, <2>11
<1>3. CASE ~a.raised
  <2>1. h = i
    BY <1>3 DEF Pumping
  <2>2. PICK q, m : q = SubSeq(flow, j, Len(flow)) /\ m = flow[j]
    OBVIOUS
  <2>3. q = SubSeq(flow, h + 1, Len(flow)) /\ h + 1 = j
    BY <2>1, <2>2
  <2>4. j \in 1..Len(flow) /\ Len(flow) \in j..Len(flow)
    BY <1>1
  <2>5. Head(q) = m /\ Tail(q) = SubSeq(flow, j + 1, Len(flow))
    BY <2>2, <2>4, HeadTailOfSubSeq
  <2>6. q # <<>>
    <3>1. \A x \in j..Len(flow) : flow[x] \in MessageType
      BY <1>1
    <3>2. Len(q) = IF j <= Len(flow) THEN Len(flow) - j + 1 ELSE 0
      BY <1>1, <2>2, <3>1, SubSeqProperties
    <3>3. Len(q) # 0
      BY <1>1, <3>2
    <3>4. QED
      BY <3>3
  <2>7. PICK v, g : v = u \o a.sent /\ g = (f \/ a.unsent)
    OBVIOUS
  <2>8. Good(md, a.cl, q, v, s, g, k)
    BY <2>3, <2>7 DEF Pumping
  <2>9. g \in BOOLEAN /\ v \in Seq(MessageType)
    BY <1>0, <2>7, ConcatAt
  <2>10. Told(m, s)
    BY <2>5, <2>6, <2>8, HeadOn, IncomingRead DEF Good, Incoming
  <2>11. Sound(m)
    BY <2>8, <2>10, Shapes DEF Good
  <2>12. PICK e : e = [a EXCEPT !.some = TRUE]
    OBVIOUS
  <2>13. /\ e \in PumpType /\ e.cl = a.cl /\ e.rest = a.rest /\ e.raised = a.raised
         /\ e.room = a.room /\ e.sent = a.sent /\ e.unsent = a.unsent
    BY <1>0, <2>12 DEF PumpType
  <2>14. b = Handle(e, m)
    BY <1>3, <2>2, <2>12 DEF Dispatch
  <2>29. Handled(e, m, b)
    BY <2>11, <2>13, <2>14, HandleFacts
  <2>15. b \in PumpType /\ b.cl = Learn(a.cl, m) /\ b.rest = a.rest
    BY <2>13, <2>29 DEF Handled
  <2>16. \/ /\ m.name \notin {"ping", "seat_done"}
            /\ b.room = a.room /\ b.sent = a.sent /\ b.unsent = a.unsent
            /\ b.raised = (a.raised \/ m.name = "disconnected")
         \/ /\ m.name \in {"ping", "seat_done"} /\ a.room > 0 /\ b.room = a.room - 1
            /\ b.sent = a.sent \o <<Plain(Answer(m.name))>>
            /\ b.raised = a.raised /\ b.unsent = a.unsent
         \/ /\ m.name \in {"ping", "seat_done"} /\ a.room = 0 /\ b.room = 0
            /\ b.sent = a.sent /\ b.raised /\ b.unsent
    <3>1. \/ /\ m.name \notin {"ping", "seat_done"}
             /\ b.room = e.room /\ b.sent = e.sent /\ b.unsent = e.unsent
             /\ b.raised = (e.raised \/ m.name = "disconnected")
          \/ /\ m.name \in {"ping", "seat_done"} /\ e.room > 0 /\ b.room = e.room - 1
             /\ b.sent = e.sent \o <<Plain(Answer(m.name))>>
             /\ b.raised = e.raised /\ b.unsent = e.unsent
          \/ /\ m.name \in {"ping", "seat_done"} /\ e.room = 0 /\ b.room = 0
             /\ b.sent = e.sent /\ b.raised /\ b.unsent
      BY <2>29 DEF Handled
    <3>2. QED
      BY <2>13, <3>1
  <2>17. b.rest = SubSeq(flow, j + 1, j)
    <3>1. SubSeq(flow, h + 1, i) = <<>> /\ SubSeq(flow, j + 1, j) = <<>>
      BY <2>1, SubSeqEmpty
    <3>2. QED
      BY <1>0, <2>15, <3>1
  <2>18. PICK w, z : w = u \o b.sent /\ z = (f \/ b.unsent)
    OBVIOUS
  <2>19. b.unsent \in BOOLEAN /\ b.raised \in BOOLEAN /\ z \in BOOLEAN
    BY <2>15, <2>18 DEF PumpType
  <2>20. s.open \/ a.room = 0
    BY DEF Pumping
  <2>21. /\ g => z
         /\ \/ m.name \notin {"ping", "seat_done"} /\ w = v
            \/ /\ m.name \in {"ping", "seat_done"} /\ s.open
               /\ w = v \o <<Plain(Answer(m.name))>>
            \/ m.name \in {"ping", "seat_done"} /\ w = v /\ z
    <3>1. CASE /\ m.name \notin {"ping", "seat_done"}
               /\ b.room = a.room /\ b.sent = a.sent /\ b.unsent = a.unsent
      BY <2>7, <2>18, <3>1
    <3>2. CASE /\ m.name \in {"ping", "seat_done"} /\ a.room > 0 /\ b.room = a.room - 1
               /\ b.sent = a.sent \o <<Plain(Answer(m.name))>>
               /\ b.raised = a.raised /\ b.unsent = a.unsent
      <4>1. PICK r : r = Plain(Answer(m.name))
        OBVIOUS
      <4>2. r \in MessageType
        <5>1. Answer(m.name) \in Requests
          BY DEF Answer, Requests
        <5>2. QED
          BY <4>1, <5>1, PlainType
      <4>3. PICK x : x = a.sent
        OBVIOUS
      <4>9. u \in Seq(MessageType) /\ x \in Seq(MessageType)
        BY <1>0, <4>3
      <4>4. (u \o x) \o <<r>> = u \o (x \o <<r>>)
        BY <4>2, <4>9, SentMore
      <4>5. w = v \o <<r>>
        BY <2>7, <2>18, <3>2, <4>1, <4>3, <4>4
      <4>6. s.open
        BY <1>0, <2>20, <3>2
      <4>7. g = z
        BY <2>7, <2>18, <3>2
      <4>8. QED
        BY <3>2, <4>1, <4>5, <4>6, <4>7
    <3>3. CASE /\ m.name \in {"ping", "seat_done"} /\ a.room = 0 /\ b.room = 0
               /\ b.sent = a.sent /\ b.raised /\ b.unsent
      BY <2>7, <2>18, <3>3
    <3>4. QED
      BY <2>16, <3>1, <3>2, <3>3
  <2>22. Good(md, Learn(a.cl, m), Tail(q), w, s, z, k)
    <3>1. \/ Head(q).name \notin {"ping", "seat_done"} /\ w = v
          \/ /\ Head(q).name \in {"ping", "seat_done"} /\ s.open
             /\ w = v \o <<Plain(Answer(Head(q).name))>>
          \/ Head(q).name \in {"ping", "seat_done"} /\ w = v /\ z
      BY <2>5, <2>21
    <3>2. g \in BOOLEAN /\ z \in BOOLEAN /\ (g => z)
      BY <2>9, <2>19, <2>21
    <3>3. Good(md, Learn(a.cl, Head(q)), Tail(q), w, s, z, k)
      BY <2>6, <2>8, <3>1, <3>2, ReadOne
    <3>4. QED
      BY <2>5, <3>3
  <2>23. Good(md, b.cl, SubSeq(flow, j + 1, Len(flow)), u \o b.sent, s, f \/ b.unsent, k)
    BY <2>5, <2>15, <2>18, <2>22
  <2>24. b.raised => b.unsent \/ ~s.open
    <3>1. m.name = "disconnected" => ~s.open
      BY <2>10 DEF Told
    <3>2. QED
      BY <1>3, <2>16, <3>1
  <2>25. s.open \/ b.room = 0
    BY <1>0, <2>16, <2>20
  <2>26. Pumping(b, j, j, flow, md, u, s, f, k)
    BY <2>15, <2>17, <2>23, <2>24, <2>25 DEF Pumping
  <2>27. j \in 0..j
    OBVIOUS
  <2>28. QED
    BY <2>26, <2>27
<1>4. QED
  BY <1>0, <1>2, <1>3

\* All of them, by induction over the positions.
LEMMA PumpAll ==
    ASSUME NEW flow \in Seq(MessageType), NEW n \in Nat, n <= Len(flow),
           NEW room \in Nat, NEW md, NEW u \in Seq(MessageType), NEW s,
           s.open \/ room = 0, NEW f \in BOOLEAN, NEW k \in Nat,
           Good(md, cl, flow, u, s, f, k)
    PROVE  \E h \in 0..n :
              Pumping(Pumped(SubSeq(flow, 1, n), room), h, n, flow, md, u, s, f, k)
<1> DEFINE ms == SubSeq(flow, 1, n)
<1>1. Len(flow) \in Nat /\ \A j \in 1..n : flow[j] \in MessageType
  OBVIOUS
<1>2. ms \in Seq(MessageType) /\ Len(ms) = n /\ \A j \in 1..n : ms[j] = flow[j]
  <2>1. /\ ms \in Seq(MessageType) /\ Len(ms) = (IF 1 <= n THEN n - 1 + 1 ELSE 0)
        /\ \A j \in 1..(n - 1 + 1) : ms[j] = flow[1 + j - 1]
    BY <1>1, SubSeqProperties
  <2>2. n - 1 + 1 = n /\ \A j \in 1..n : 1 + j - 1 = j
    OBVIOUS
  <2> HIDE DEF ms
  <2>3. Len(ms) = n
    BY <2>1
  <2>4. ASSUME NEW j \in 1..n PROVE ms[j] = flow[j]
    BY <2>1, <2>2
  <2>5. QED
    BY <2>1, <2>3, <2>4
<1> HIDE DEF ms
<1>3. PICK a : /\ a[0] = Start(room)
               /\ \A i \in 0..(Len(ms) - 1) : a[i + 1] = Dispatch(a[i], ms[i + 1])
               /\ Pumped(ms, room) = a[Len(ms)]
  BY <1>2, PumpSteps
<1> DEFINE T == {i \in Nat : i <= n => \E h \in 0..i : Pumping(a[i], h, i, flow, md, u, s, f, k)}
<1>4. 0 \in T
  <2>1. PICK b : b = Start(room)
    OBVIOUS
  <2>2. cl \in ClientType
    BY Shapes DEF Good
  <2>3. /\ b \in PumpType /\ b.rest = <<>> /\ b.sent = <<>> /\ b.room = room /\ b.cl = cl
        /\ b.raised = FALSE /\ b.unsent = FALSE
    BY <2>1, <2>2 DEF Start, PumpType
  <2>4. SubSeq(flow, 0 + 1, 0) = <<>>
    BY SubSeqEmpty
  <2>5. SubSeq(flow, 0 + 1, Len(flow)) = flow
    BY SubSeqFull
  <2>6. u \o b.sent = u
    BY <2>3
  <2>7. (f \/ b.unsent) = f
    BY <2>3
  <2>8. Good(md, b.cl, SubSeq(flow, 0 + 1, Len(flow)), u \o b.sent, s, f \/ b.unsent, k)
    BY <2>3, <2>5, <2>6, <2>7
  <2>9. Pumping(b, 0, 0, flow, md, u, s, f, k)
    BY <2>3, <2>4, <2>8 DEF Pumping
  <2>10. a[0] = b /\ 0 \in 0..0
    BY <1>3, <2>1
  <2>11. QED
    BY <2>9, <2>10
<1>5. ASSUME NEW i \in Nat, i \in T PROVE i + 1 \in T
  <2>1. PICK j \in Nat : j = i + 1
    OBVIOUS
  <2>2. ASSUME j <= n
        PROVE  \E e \in 0..j : Pumping(a[j], e, j, flow, md, u, s, f, k)
    <3>1. i <= n /\ i \in 0..(n - 1) /\ j \in 1..n /\ j <= Len(flow)
      BY <1>1, <2>1, <2>2
    <3>2. PICK h \in 0..i : Pumping(a[i], h, i, flow, md, u, s, f, k)
      BY <1>5, <3>1
    <3>3. a[j] = Dispatch(a[i], flow[j])
      <4>1. a[i + 1] = Dispatch(a[i], ms[i + 1])
        BY <1>2, <1>3, <3>1
      <4>2. QED
        BY <1>2, <2>1, <3>1, <4>1
    <3> HIDE DEF T
    <3>4. QED
      BY <2>1, <3>1, <3>2, <3>3, PumpOne
  <2>3. j \in T
    BY <2>2
  <2>4. QED
    BY <2>1, <2>3
<1> HIDE DEF T
<1>6. n \in T
  BY <1>4, <1>5, Induction
<1>7. \E h \in 0..n : Pumping(a[n], h, n, flow, md, u, s, f, k)
  BY <1>6 DEF T
<1>8. Pumped(ms, room) = a[n]
  BY <1>2, <1>3
<1>9. QED
  BY <1>7, <1>8 DEF ms

-----------------------------------------------------------------------------
(* More messages on their way, from the server or to it.                   *)

\* More messages of the server, ms, behind the others.
LEMMA IncomingMore ==
    ASSUME NEW q, NEW c, NEW s, NEW t, NEW k, Knows(c, s, k), Serves(s, c), Incoming(q, c, s),
           NEW ms \in Seq(MessageType),
           \A m : Told(m, s) => Told(m, t),
           \A m \in Range(ms) : Told(m, t) /\ (m.name \in Dated => s.serial <= m.serial),
           \A x, y : Precedes(x, y, ms) => ~(x.name \in Dated /\ y.name \in Dated)
    PROVE  Incoming(q \o ms, c, t)
<1> DEFINE r == q \o ms
<1>1. q \in Seq(MessageType)
  BY DEF Incoming
<1>2. r \in Seq(MessageType)
  BY <1>1, ConcatAt
<1>3. Range(r) = Range(q) \cup Range(ms)
  BY <1>1, RangeOn
<1>4. ASSUME NEW x, NEW y, Precedes(x, y, r)
      PROVE  \/ Precedes(x, y, q) /\ x \in Range(q) /\ y \in Range(q)
             \/ Precedes(x, y, ms) /\ x \in Range(ms) /\ y \in Range(ms)
             \/ x \in Range(q) /\ y \in Range(ms)
  BY <1>1, <1>4, PrecedesOn
<1> HIDE DEF r
<1>5. s.serial \in Nat /\ c.serial \in Nat /\ c.serial <= s.serial
  <2>1. s.serial \in Nat
    BY EisAssumption DEF Serves
  <2>2. c.serial \in 0..s.serial
    BY DEF Knows
  <2>3. QED
    BY <2>1, <2>2
<1>6. ASSUME NEW m \in Range(r) PROVE Told(m, t) /\ (m.name \in Dated => c.serial <= m.serial)
  <2>1. CASE m \in Range(q)
    BY <2>1 DEF Incoming
  <2>2. CASE m \in Range(ms)
    <3>1. m.serial \in Nat
      BY <2>2 DEF Told, MessageType
    <3>2. QED
      BY <1>5, <2>2, <3>1
  <2>3. QED
    BY <1>3, <2>1, <2>2
<1>7. ASSUME NEW x, NEW y, Precedes(x, y, r), x.name \in Dated, y.name \in Dated
      PROVE  x.serial <= y.serial
  <2>1. CASE Precedes(x, y, q) /\ x \in Range(q) /\ y \in Range(q)
    BY <1>7, <2>1 DEF Incoming
  <2>2. CASE Precedes(x, y, ms)
    BY <1>7, <2>2
  <2>3. CASE x \in Range(q) /\ y \in Range(ms)
    <3>1. Told(x, s) /\ s.serial <= y.serial /\ Told(y, t)
      BY <1>7, <2>3 DEF Incoming
    <3>2. x.serial \in Nat /\ y.serial \in Nat /\ x.serial <= s.serial
      BY <1>7, <3>1 DEF Told, MessageType
    <3>3. QED
      BY <1>5, <3>1, <3>2
  <2>4. QED
    BY <1>4, <1>7, <2>1, <2>2, <2>3
<1>8. Incoming(r, c, t)
  BY <1>2, <1>6, <1>7 DEF Incoming
<1>9. QED
  BY <1>8 DEF r

\* What is announced is on its way.
Announces(ms, s, t) ==
    /\ \A d \in t.announced : d \notin s.announced =>
         /\ \E m \in Range(ms) : m.name = "region" /\ m.dev = d
         /\ \A i \in Range(Interfaces[d]) :
              \E m \in Range(ms) : m.name = "interface" /\ m.dev = d /\ m.iface = i
    /\ t.mapped => s.mapped \/ \E m \in Range(ms) : m.name = "keymap"
    /\ t.stage \in {"seat", "bound"} =>
         \/ s.stage \in {"seat", "bound"} /\ t.serial = s.serial
         \/ \E m \in Range(ms) : m.name \in Dated /\ m.serial = t.serial

\* What is new is on its way with them.
LEMMA ComingMore ==
    ASSUME NEW q \in Seq(MessageType), NEW c, NEW s, NEW t, Coming(c, q, s),
           NEW ms \in Seq(MessageType), Announces(ms, s, t)
    PROVE  Coming(c, q \o ms, t)
<1> DEFINE r == q \o ms
<1>1. Range(r) = Range(q) \cup Range(ms)
  BY RangeOn
<1> HIDE DEF r
<1>2. ASSUME NEW d \in t.announced
      PROVE  d \in c.regions \/ \E m \in Range(r) : m.name = "region" /\ m.dev = d
  BY <1>1 DEF Coming, Announces
<1>3. ASSUME NEW d \in t.announced, NEW i \in Range(Interfaces[d])
      PROVE  \/ i \in c.sub[d]
             \/ \E m \in Range(r) : m.name = "interface" /\ m.dev = d /\ m.iface = i
  <2>1. CASE d \in s.announced
    <3>1. \/ i \in c.sub[d]
          \/ \E m \in Range(q) : m.name = "interface" /\ m.dev = d /\ m.iface = i
      BY <2>1 DEF Coming
    <3>2. QED
      BY <1>1, <3>1
  <2>2. CASE d \notin s.announced
    BY <1>1, <2>2 DEF Announces
  <2>3. QED
    BY <2>1, <2>2
<1>4. t.mapped => c.keymap \/ \E m \in Range(r) : m.name = "keymap"
  BY <1>1 DEF Coming, Announces
<1>5. t.stage \in {"seat", "bound"} =>
        \/ c.serial = t.serial
        \/ \E m \in Range(r) : m.name \in Dated /\ m.serial = t.serial
  BY <1>1 DEF Coming, Announces
<1>6. Coming(c, r, t)
  BY <1>2, <1>3, <1>4, <1>5 DEF Coming
<1>7. QED
  BY <1>6 DEF r

\* What the client knows stays true while the server says more.
LEMMA KnowsLater ==
    ASSUME NEW c, NEW s, NEW t, NEW k, Knows(c, s, k), s.announced \subseteq t.announced,
           s.serial \in Nat, t.serial \in Nat, s.serial <= t.serial,
           t.stage = "new" => s.stage = "new"
    PROVE  Knows(c, t, k)
<1>1. \A x : x \in 0..s.serial => x \in 0..t.serial
  OBVIOUS
<1>2. c \in [version : BOOLEAN, connected : BOOLEAN, bound : BOOLEAN, keymap : BOOLEAN,
             sub : [Devices -> SUBSET Names], regions : SUBSET t.announced,
             serial : 0..t.serial, seq : [Devices -> 0..k],
             keyboard : t.announced \cup {NoDevice},
             pointer : t.announced \cup {NoDevice},
             pointer_abs : t.announced \cup {NoDevice}]
  BY <1>1 DEF Knows
<1>3. QED
  BY <1>2 DEF Knows

\* What the server may change of itself when it says ms.
Grows(ms, s, t) ==
    /\ s.announced \subseteq t.announced
    /\ s.serial <= t.serial
    /\ t.stage = s.stage \/ (s.stage = "new" /\ t.stage = "greeted")
    /\ t.open = s.open /\ t.bad = s.bad /\ t.met = s.met
    /\ t.seqs = s.seqs /\ t.heard = s.heard
    /\ s.gone \subseteq t.gone /\ t.emulating \subseteq s.emulating /\ t.held \subseteq s.held
    /\ s.emulating \cup s.gone \subseteq t.emulating \cup t.gone
    /\ s.held \cup s.gone \subseteq t.held \cup t.gone
    /\ t.pings = s.pings + Count(ms, "ping")
    /\ ms \in Seq(MessageType)
    /\ \A m \in Range(ms) : Told(m, t) /\ (m.name \in Dated => s.serial <= m.serial)
    /\ \A x, y : Precedes(x, y, ms) => ~(x.name \in Dated /\ y.name \in Dated)
    /\ Announces(ms, s, t)

\* The server says ms and grows.
LEMMA SayMore ==
    ASSUME NEW md, NEW c, NEW q, NEW u, NEW s, NEW f, NEW k, Good(md, c, q, u, s, f, k),
           NEW ms, NEW t, Grows(ms, s, t), Serves(t, c)
    PROVE  Good(md, c, q \o ms, u, t, f, k)
<1>1. /\ Knows(c, s, k) /\ Serves(s, c) /\ Incoming(q, c, s) /\ Outgoing(u, c, s)
      /\ Whole(u, s, f) /\ Counted(q, u, s, f, k) /\ Coming(c, q, s) /\ Greeting(md, u, s)
  BY DEF Good
<1>2. s.serial \in Nat /\ t.serial \in Nat /\ s.pings \in Nat
  BY <1>1, EisAssumption DEF Serves
<1>3. q \in Seq(MessageType) /\ u \in Seq(MessageType) /\ ms \in Seq(MessageType)
  BY <1>1 DEF Incoming, Outgoing, Grows
<1>4. Knows(c, t, k)
  BY <1>1, <1>2, KnowsLater DEF Grows
<1>5. ASSUME NEW m, Told(m, s) PROVE Told(m, t)
  <2>1. m.name \in Dated => m.serial <= t.serial
    <3>1. m.serial \in Nat
      BY <1>5 DEF Told, MessageType
    <3>2. QED
      BY <1>2, <1>5, <3>1 DEF Told, Grows
  <2>2. QED
    BY <1>5, <2>1 DEF Told, Grows
<1>6. Incoming(q \o ms, c, t)
  BY <1>1, <1>5, IncomingMore DEF Grows
<1>7. Coming(c, q \o ms, t)
  BY <1>1, <1>3, ComingMore DEF Grows
<1>8. ASSUME NEW m, Asked(m, c, s) PROVE Asked(m, c, t)
  BY <1>8 DEF Asked, Grows
<1>9. ASSUME NEW m, Begun(m, s) PROVE Begun(m, t)
  BY <1>9 DEF Begun, Grows
<1>10. Outgoing(u, c, t)
  BY <1>1, <1>8, <1>9 DEF Outgoing, Grows
<1>11. Whole(u, t, f)
  BY <1>1 DEF Whole, Grows
<1>12. /\ Count(q \o ms, "ping") = Count(q, "ping") + Count(ms, "ping")
       /\ Count(q, "ping") \in Nat /\ Count(ms, "ping") \in Nat
  BY <1>3, CountOn
<1>13. Count(u, "pong") \in Nat
  BY <1>3, CountOn
<1>14. Counted(q \o ms, u, t, f, k)
  <2>1. t.pings = s.pings + Count(ms, "ping") /\ t.met = s.met /\ t.open = s.open
        /\ s.gone \subseteq t.gone
    BY DEF Grows
  <2>2. /\ Count(q, "ping") + Count(u, "pong") <= s.pings
        /\ s.met + Count(u, "frame") <= k
        /\ ~f /\ s.open => s.pings = Count(q, "ping") + Count(u, "pong")
        /\ ~f /\ s.open /\ s.gone = {} => s.met + Count(u, "frame") = k
    BY <1>1 DEF Counted
  <2>3. Count(q \o ms, "ping") + Count(u, "pong") <= t.pings
    BY <1>2, <1>12, <1>13, <2>1, <2>2
  <2>4. ~f /\ t.open => t.pings = Count(q \o ms, "ping") + Count(u, "pong")
    BY <1>2, <1>12, <1>13, <2>1, <2>2
  <2>5. /\ t.met + Count(u, "frame") <= k
        /\ ~f /\ t.open /\ t.gone = {} => t.met + Count(u, "frame") = k
    <3>1. t.gone = {} => s.gone = {}
      BY <2>1
    <3>2. QED
      BY <2>1, <2>2, <3>1
  <2>6. QED
    BY <2>3, <2>4, <2>5 DEF Counted
<1>15. Greeting(md, u, t)
  BY <1>1 DEF Greeting, Grows
<1>16. QED
  BY <1>4, <1>6, <1>7, <1>10, <1>11, <1>14, <1>15 DEF Good

\* A goodbye, a greeting or a message that is cut off.
LEMMA SendMore ==
    ASSUME NEW md, NEW c, NEW q, NEW u, NEW s, NEW f \in BOOLEAN, NEW k,
           Good(md, c, q, u, s, f, k), s.open,
           NEW name \in {"disconnect", "hello", "cut"}, name = "cut" => f,
           name = "hello" => /\ md # "greet" /\ s.stage = "greeted"
                             /\ \A m \in Range(u) : m.name # "hello"
    PROVE  Good(md, c, q, u \o <<Plain(name)>>, s, f, k)
<1>1. /\ Knows(c, s, k) /\ Serves(s, c) /\ Incoming(q, c, s) /\ Outgoing(u, c, s)
      /\ Whole(u, s, f) /\ Counted(q, u, s, f, k) /\ Coming(c, q, s) /\ Greeting(md, u, s)
  BY DEF Good
<1>2. u \in Seq(MessageType)
  BY <1>1 DEF Outgoing
<1>3. PICK r : r = Plain(name)
  OBVIOUS
<1>4. name \in Requests
  BY DEF Requests
<1>5. r \in MessageType /\ r.name = name /\ r.dev = NoDevice
  BY <1>3, <1>4, PlainType
<1>6. Asked(r, c, s)
  BY <1>4, <1>5, EisAssumption DEF Asked, Framed
<1>7. r.name \notin Outer \cup Inner /\ r.name # "start" /\ r.name \notin {"pong", "frame"}
  BY <1>5 DEF Outer, Inner
<1>8. Outgoing(u \o <<r>>, c, s) /\ Range(u \o <<r>>) = Range(u) \cup {r}
  <2>1. r.name \notin Inner
    BY <1>7
  <2>2. r.name = "hello" => \A m \in Range(u) : m.name # "hello"
    BY <1>5
  <2>3. QED
    BY <1>1, <1>6, <1>7, <2>1, <2>2, OutgoingMore
<1>9. Whole(u \o <<r>>, s, f)
  <2>1. ~f => r.name \notin Outer \cup Inner \cup {"cut"}
    BY <1>5, <1>7
  <2>2. QED
    BY <1>1, <1>2, <1>5, <2>1, WholeMore
<1>10. Count(u \o <<r>>, "pong") = Count(u, "pong")
       /\ Count(u \o <<r>>, "frame") = Count(u, "frame")
  BY <1>2, <1>5, <1>7, CountMore
<1>11. Counted(q, u \o <<r>>, s, f, k)
  BY <1>1, <1>10 DEF Counted
<1>12. Greeting(md, u \o <<r>>, s)
  BY <1>1, <1>5, <1>8 DEF Greeting
<1>13. Good(md, c, q, u \o <<r>>, s, f, k)
  BY <1>1, <1>8, <1>9, <1>11, <1>12 DEF Good
<1>14. QED
  BY <1>3, <1>13

\* More may have failed, and the client may be further.
LEMMA GoodLater ==
    ASSUME NEW md, NEW c, NEW q, NEW u, NEW s, NEW f, NEW k, Good(md, c, q, u, s, f, k),
           NEW g, f => g, NEW mo, mo = md \/ mo # "greet"
    PROVE  Good(mo, c, q, u, s, g, k)
BY DEF Good, Whole, Counted, Greeting

-----------------------------------------------------------------------------
(* The steps of the server that say something.                             *)

\* The types of the server's fields.
LEMMA SvType ==
    ASSUME NEW s, NEW c, Serves(s, c)
    PROVE  /\ s.stage \in {"new", "greeted", "seat", "bound"} /\ s.open \in BOOLEAN
           /\ s.spare \in Nat /\ s.serial \in Nat /\ s.serial >= 1 /\ s.pings \in Nat
           /\ s.heard \in Nat /\ s.met \in Nat /\ s.mapped \in BOOLEAN /\ s.bad \in BOOLEAN
           /\ s.seqs \in [Devices -> Nat]
           /\ s.announced \subseteq Devices /\ s.gone \subseteq Devices
           /\ s.emulating \subseteq Devices /\ s.held \subseteq Devices
           /\ MaxEvents \in Nat
BY EisAssumption DEF Serves

\* What the invariant says, flattened.
LEMMA EInvIs ==
    ASSUME EInv
    PROVE  /\ failed \in BOOLEAN /\ calls \in 0..MaxCalls /\ calls \in Nat
           /\ buf \in Seq(MessageType) /\ down \in Seq(MessageType) /\ up \in Seq(MessageType)
           /\ Behind(mode, buf, sv, failed)
           /\ Good(mode, cl, buf \o down, up, sv, failed, calls)
           /\ Knows(cl, sv, calls) /\ Serves(sv, cl)
           /\ cl \in ClientType
<1>1. /\ failed \in BOOLEAN /\ calls \in 0..MaxCalls /\ calls \in Nat
      /\ buf \in Seq(MessageType) /\ down \in Seq(MessageType)
      /\ Behind(mode, buf, sv, failed)
      /\ Good(mode, cl, buf \o down, up, sv, failed, calls)
  BY EisAssumption DEF EInv
<1>2. Knows(cl, sv, calls) /\ Serves(sv, cl)
  BY <1>1 DEF Good
<1>3. up \in Seq(MessageType)
  BY <1>1 DEF Good, Outgoing
<1>4. cl \in ClientType
  BY <1>1, <1>2, Shapes
<1>5. QED
  BY <1>1, <1>2, <1>3, <1>4

\* A step of the server that says something.
LEMMA Said ==
    ASSUME EInv, NEW ms, Says(ms), Grows(ms, sv, sv'), Serves(sv', cl)
    PROVE  EInv'
<1>1. /\ down' = down \o ms /\ mode' = mode /\ cl' = cl /\ buf' = buf /\ up' = up
      /\ failed' = failed /\ calls' = calls
  BY DEF Says
<1>2. buf \in Seq(MessageType) /\ down \in Seq(MessageType) /\ ms \in Seq(MessageType)
  BY EInvIs DEF Grows
<1>3. (buf \o down) \o ms = buf \o (down \o ms)
  BY <1>2, ConcatAssociative
<1>4. Good(mode, cl, (buf \o down) \o ms, up, sv', failed, calls)
  <2>1. Good(mode, cl, buf \o down, up, sv, failed, calls)
    BY EInvIs
  <2>2. QED
    BY <2>1, SayMore
<1>5. Good(mode', cl', buf' \o down', up', sv', failed', calls')
  BY <1>1, <1>3, <1>4
<1>6. down' \in Seq(MessageType)
  BY <1>1, <1>2, ConcatAt
<1>7. Behind(mode', buf', sv', failed')
  <2>1. sv'.open = sv.open
    BY DEF Grows
  <2>2. QED
    BY <1>1, <2>1, EInvIs DEF Behind
<1>8. QED
  BY <1>1, <1>5, <1>6, <1>7 DEF EInv

\* What holds of what the server says when it is one message.
LEMMA OneSaid ==
    ASSUME NEW m, NEW s, NEW t, Told(m, t), m.name \in Dated => s.serial <= m.serial,
           NEW ms, ms = <<m>>
    PROVE  /\ ms \in Seq(MessageType) /\ Range(ms) = {m}
           /\ \A x \in Range(ms) : Told(x, t) /\ (x.name \in Dated => s.serial <= x.serial)
           /\ \A x, y : Precedes(x, y, ms) => ~(x.name \in Dated /\ y.name \in Dated)
           /\ m.name = "ping" => Count(ms, "ping") = 1
           /\ m.name # "ping" => Count(ms, "ping") = 0
<1>1. m \in MessageType
  BY DEF Told
<1>2. ms \in Seq(MessageType)
  BY <1>1
<1>3. Range(ms) = {m}
  BY RangeOne
<1>4. \A x, y : ~Precedes(x, y, ms)
  BY SingleOn
<1>5. Count(ms, "ping") = IF m.name = "ping" THEN 1 ELSE 0
  BY CountFew
<1>6. QED
  BY <1>2, <1>3, <1>4, <1>5

\* The server's counters.
LEMMA Spent ==
    ASSUME NEW s, NEW c, Serves(s, c), s.spare > 0
    PROVE  /\ s.spare - 1 \in 0..MaxEvents
           /\ s.serial + 1 \in 1..MaxEvents + 1 /\ s.serial + 1 \in Nat
           /\ s.pings + 1 \in 0..MaxEvents
           /\ s.serial + (s.spare - 1) <= MaxEvents + 1
           /\ s.serial + 1 + (s.spare - 1) <= MaxEvents + 1
           /\ s.pings + (s.spare - 1) <= MaxEvents
           /\ s.pings + 1 + (s.spare - 1) <= MaxEvents
           /\ s.serial <= s.serial + 1
<1>1. /\ s.spare \in 0..MaxEvents /\ s.serial \in 1..MaxEvents + 1 /\ s.pings \in 0..MaxEvents
      /\ s.serial + s.spare <= MaxEvents + 1 /\ s.pings + s.spare <= MaxEvents
      /\ MaxEvents \in Nat
  BY EisAssumption DEF Serves
<1>2. QED
  BY <1>1

\* The server says its version.
LEMMA SayVersionStep ==
    ASSUME EInv, SayVersion
    PROVE  EInv'
<1>1. PICK t, m : t = [sv EXCEPT !.stage = "greeted"] /\ m = Plain("handshake_version")
  OBVIOUS
<1>2. sv.stage = "new" /\ sv.open /\ sv' = t /\ Says(<<m>>)
  BY <1>1 DEF SayVersion
<1>3. Serves(sv, cl)
  BY EInvIs
<1>4. /\ t.stage = "greeted" /\ t.open = sv.open /\ t.spare = sv.spare
      /\ t.serial = sv.serial /\ t.announced = sv.announced /\ t.gone = sv.gone
      /\ t.mapped = sv.mapped /\ t.pings = sv.pings /\ t.heard = sv.heard
      /\ t.seqs = sv.seqs /\ t.emulating = sv.emulating /\ t.held = sv.held
      /\ t.met = sv.met /\ t.bad = sv.bad
  BY <1>1, <1>3 DEF Serves
<1>5. Serves(t, cl)
  BY <1>1, <1>2, <1>3 DEF Serves
<1>6. m \in MessageType /\ m.name = "handshake_version" /\ m.name \in Events
  BY <1>1, PlainType DEF Events
<1>7. Told(m, t)
  BY <1>4, <1>6 DEF Told, Dated
<1>8. PICK ms : ms = <<m>>
  OBVIOUS
<1>9. m.name \notin Dated
  BY <1>6 DEF Dated
<1>10. /\ ms \in Seq(MessageType) /\ Range(ms) = {m}
       /\ \A x \in Range(ms) : Told(x, t) /\ (x.name \in Dated => sv.serial <= x.serial)
       /\ \A x, y : Precedes(x, y, ms) => ~(x.name \in Dated /\ y.name \in Dated)
       /\ m.name # "ping" => Count(ms, "ping") = 0
  BY <1>7, <1>8, <1>9, OneSaid
<1>11. Announces(ms, sv, t)
  BY <1>4 DEF Announces
<1>12. sv.serial \in Nat /\ sv.pings \in Nat
  BY <1>3, SvType
<1>13. Grows(ms, sv, t)
  BY <1>2, <1>4, <1>6, <1>10, <1>11, <1>12 DEF Grows
<1>14. QED
  BY <1>2, <1>5, <1>8, <1>13, Said

\* It says the keymap, or one that cannot be used.
LEMMA SayKeymapStep ==
    ASSUME EInv, SayKeymap
    PROVE  EInv'
<1>3. Serves(sv, cl)
  BY EInvIs
<1>12. sv.serial \in Nat /\ sv.pings \in Nat /\ sv.spare \in Nat
  BY <1>3, SvType
<1>1. CASE sv' = [sv EXCEPT !.mapped = TRUE] /\ Says(<<Plain("keymap")>>)
  <2>1. PICK t, m : t = [sv EXCEPT !.mapped = TRUE] /\ m = Plain("keymap")
    OBVIOUS
  <2>2. sv' = t /\ Says(<<m>>)
    BY <1>1, <2>1
  <2>4. /\ t.stage = sv.stage /\ t.open = sv.open
        /\ t.serial = sv.serial /\ t.announced = sv.announced /\ t.gone = sv.gone
        /\ t.pings = sv.pings /\ t.heard = sv.heard
        /\ t.seqs = sv.seqs /\ t.emulating = sv.emulating /\ t.held = sv.held
        /\ t.met = sv.met /\ t.bad = sv.bad
    BY <2>1, <1>3 DEF Serves
  <2>5. Serves(t, cl)
    BY <2>1, <1>3 DEF Serves
  <2>6. m \in MessageType /\ m.name = "keymap" /\ m.name \in Events
    BY <2>1, PlainType DEF Events
  <2>7. Told(m, t)
    BY <2>4, <2>6 DEF Told, Dated
  <2>8. PICK ms : ms = <<m>>
    OBVIOUS
  <2>9. m.name \notin Dated
    BY <2>6 DEF Dated
  <2>10. /\ ms \in Seq(MessageType) /\ Range(ms) = {m}
         /\ \A x \in Range(ms) : Told(x, t) /\ (x.name \in Dated => sv.serial <= x.serial)
         /\ \A x, y : Precedes(x, y, ms) => ~(x.name \in Dated /\ y.name \in Dated)
         /\ m.name # "ping" => Count(ms, "ping") = 0
    BY <2>7, <2>8, <2>9, OneSaid
  <2>11. Announces(ms, sv, t)
    BY <2>4, <2>6, <2>10 DEF Announces
  <2>13. Grows(ms, sv, t)
    BY <1>12, <2>4, <2>6, <2>10, <2>11 DEF Grows
  <2>14. QED
    BY <2>2, <2>5, <2>8, <2>13, Said
<1>2. CASE /\ sv.spare > 0 /\ sv' = [sv EXCEPT !.spare = @ - 1]
           /\ Says(<<Plain("unusable")>>)
  <2>1. PICK t, m : t = [sv EXCEPT !.spare = @ - 1] /\ m = Plain("unusable")
    OBVIOUS
  <2>2. sv' = t /\ Says(<<m>>)
    BY <1>2, <2>1
  <2>4. /\ t.stage = sv.stage /\ t.open = sv.open /\ t.mapped = sv.mapped
        /\ t.serial = sv.serial /\ t.announced = sv.announced /\ t.gone = sv.gone
        /\ t.pings = sv.pings /\ t.heard = sv.heard
        /\ t.seqs = sv.seqs /\ t.emulating = sv.emulating /\ t.held = sv.held
        /\ t.met = sv.met /\ t.bad = sv.bad
    BY <2>1, <1>3 DEF Serves
  <2>5. Serves(t, cl)
    <3>1. PICK x : x = sv.spare - 1
      OBVIOUS
    <3>2. x \in 0..MaxEvents /\ sv.serial + x <= MaxEvents + 1 /\ sv.pings + x <= MaxEvents
      <4>1. sv.spare \in 0..MaxEvents /\ sv.serial + sv.spare <= MaxEvents + 1
            /\ sv.pings + sv.spare <= MaxEvents /\ MaxEvents \in Nat
        BY <1>3, SvType DEF Serves
      <4>2. QED
        BY <1>2, <1>12, <3>1, <4>1
    <3>3. t = [sv EXCEPT !.spare = x]
      BY <2>1, <3>1
    <3>4. QED
      BY <1>3, <3>2, <3>3 DEF Serves
  <2>6. m \in MessageType /\ m.name = "unusable" /\ m.name \in Events
    BY <2>1, PlainType DEF Events
  <2>7. Told(m, t)
    BY <2>4, <2>6 DEF Told, Dated
  <2>8. PICK ms : ms = <<m>>
    OBVIOUS
  <2>9. m.name \notin Dated
    BY <2>6 DEF Dated
  <2>10. /\ ms \in Seq(MessageType) /\ Range(ms) = {m}
         /\ \A x \in Range(ms) : Told(x, t) /\ (x.name \in Dated => sv.serial <= x.serial)
         /\ \A x, y : Precedes(x, y, ms) => ~(x.name \in Dated /\ y.name \in Dated)
         /\ m.name # "ping" => Count(ms, "ping") = 0
    BY <2>7, <2>8, <2>9, OneSaid
  <2>11. Announces(ms, sv, t)
    BY <2>4, <2>6, <2>10 DEF Announces
  <2>13. Grows(ms, sv, t)
    BY <1>12, <2>4, <2>6, <2>10, <2>11 DEF Grows
  <2>14. QED
    BY <2>2, <2>5, <2>8, <2>13, Said
<1>4. QED
  BY <1>1, <1>2 DEF SayKeymap

\* It says the modifiers, with a new serial.
LEMMA SayModifiersStep ==
    ASSUME EInv, SayModifiers
    PROVE  EInv'
<1>1. Serves(sv, cl)
  BY EInvIs
<1>2. /\ sv.stage = "bound" /\ sv.open /\ sv.spare > 0
      /\ sv' = [sv EXCEPT !.spare = @ - 1, !.serial = @ + 1]
      /\ Says(<<Serial("modifiers", NoDevice, sv.serial + 1)>>)
  BY DEF SayModifiers
<1>3. PICK t, x, n, m, ms :
        /\ x = sv.spare - 1 /\ n = sv.serial + 1
        /\ t = [sv EXCEPT !.spare = x, !.serial = n]
        /\ m = Serial("modifiers", NoDevice, n) /\ ms = <<m>>
  OBVIOUS
<1>4. sv' = t /\ Says(ms)
  BY <1>2, <1>3
<1>5. /\ x \in 0..MaxEvents /\ n \in 1..MaxEvents + 1 /\ n \in Nat
      /\ n + x <= MaxEvents + 1 /\ sv.pings + x <= MaxEvents /\ sv.serial <= n
  BY <1>1, <1>2, <1>3, Spent
<1>6. /\ t.stage = sv.stage /\ t.open = sv.open /\ t.mapped = sv.mapped
      /\ t.serial = n /\ t.announced = sv.announced /\ t.gone = sv.gone
      /\ t.pings = sv.pings /\ t.heard = sv.heard
      /\ t.seqs = sv.seqs /\ t.emulating = sv.emulating /\ t.held = sv.held
      /\ t.met = sv.met /\ t.bad = sv.bad
  BY <1>1, <1>3 DEF Serves
<1>7. Serves(t, cl)
  BY <1>1, <1>2, <1>3, <1>5 DEF Serves
<1>8. m \in MessageType /\ m.name = "modifiers" /\ m.name \in Events /\ m.serial = n
  BY <1>3, <1>5 DEF Serial, Message, MessageType, Events
<1>9. Told(m, t)
  BY <1>5, <1>6, <1>8 DEF Told
<1>10. m.name \in Dated /\ m.name # "ping"
  BY <1>8 DEF Dated
<1>11. /\ ms \in Seq(MessageType) /\ Range(ms) = {m}
       /\ \A y \in Range(ms) : Told(y, t) /\ (y.name \in Dated => sv.serial <= y.serial)
       /\ \A y, z : Precedes(y, z, ms) => ~(y.name \in Dated /\ z.name \in Dated)
       /\ m.name # "ping" => Count(ms, "ping") = 0
  BY <1>3, <1>5, <1>8, <1>9, OneSaid
<1>12. Announces(ms, sv, t)
  BY <1>6, <1>8, <1>10, <1>11 DEF Announces
<1>13. sv.pings \in Nat
  BY <1>1, SvType
<1>14. Grows(ms, sv, t)
  BY <1>5, <1>6, <1>10, <1>11, <1>12, <1>13 DEF Grows
<1>15. QED
  BY <1>4, <1>7, <1>14, Said

\* It pings.
LEMMA PingStep ==
    ASSUME EInv, Ping
    PROVE  EInv'
<1>1. Serves(sv, cl)
  BY EInvIs
<1>2. /\ sv.open /\ sv.spare > 0
      /\ sv' = [sv EXCEPT !.spare = @ - 1, !.pings = @ + 1]
      /\ Says(<<Plain("ping")>>)
  BY DEF Ping
<1>3. PICK t, x, n, m, ms :
        /\ x = sv.spare - 1 /\ n = sv.pings + 1
        /\ t = [sv EXCEPT !.spare = x, !.pings = n]
        /\ m = Plain("ping") /\ ms = <<m>>
  OBVIOUS
<1>4. sv' = t /\ Says(ms)
  BY <1>2, <1>3
<1>5. /\ x \in 0..MaxEvents /\ n \in 0..MaxEvents
      /\ sv.serial + x <= MaxEvents + 1 /\ n + x <= MaxEvents
  BY <1>1, <1>2, <1>3, Spent
<1>6. /\ t.stage = sv.stage /\ t.open = sv.open /\ t.mapped = sv.mapped
      /\ t.serial = sv.serial /\ t.announced = sv.announced /\ t.gone = sv.gone
      /\ t.pings = n /\ t.heard = sv.heard
      /\ t.seqs = sv.seqs /\ t.emulating = sv.emulating /\ t.held = sv.held
      /\ t.met = sv.met /\ t.bad = sv.bad
  BY <1>1, <1>3 DEF Serves
<1>7. Serves(t, cl)
  BY <1>1, <1>3, <1>5 DEF Serves
<1>8. m \in MessageType /\ m.name = "ping" /\ m.name \in Events
  BY <1>3, PlainType DEF Events
<1>9. Told(m, t) /\ m.name \notin Dated
  BY <1>8 DEF Told, Dated
<1>10. /\ ms \in Seq(MessageType) /\ Range(ms) = {m}
       /\ \A y \in Range(ms) : Told(y, t) /\ (y.name \in Dated => sv.serial <= y.serial)
       /\ \A y, z : Precedes(y, z, ms) => ~(y.name \in Dated /\ z.name \in Dated)
       /\ m.name = "ping" => Count(ms, "ping") = 1
  BY <1>3, <1>9, OneSaid
<1>11. Announces(ms, sv, t)
  BY <1>6 DEF Announces
<1>12. sv.serial \in Nat /\ t.pings = sv.pings + Count(ms, "ping")
  BY <1>1, <1>3, <1>6, <1>8, <1>10, SvType
<1>13. Grows(ms, sv, t)
  BY <1>6, <1>10, <1>11, <1>12 DEF Grows
<1>14. QED
  BY <1>4, <1>7, <1>13, Said

\* A device ends: whatever is under way for it is ignored from now on.
LEMMA DestroyStep ==
    ASSUME EInv, NEW d \in Devices, Destroy(d)
    PROVE  EInv'
<1>1. Serves(sv, cl)
  BY EInvIs
<1>2. /\ sv.open /\ sv.spare > 0 /\ d \in sv.announced \ sv.gone
      /\ sv' = [sv EXCEPT !.spare = @ - 1, !.serial = @ + 1, !.gone = @ \cup {d},
                          !.emulating = @ \ {d}, !.held = @ \ {d}]
      /\ Says(<<Serial("destroyed", d, sv.serial + 1)>>)
  BY DEF Destroy
<1>3. PICK t, x, n, m, ms, g, e, h :
        /\ x = sv.spare - 1 /\ n = sv.serial + 1
        /\ g = sv.gone \cup {d} /\ e = sv.emulating \ {d} /\ h = sv.held \ {d}
        /\ t = [sv EXCEPT !.spare = x, !.serial = n, !.gone = g, !.emulating = e, !.held = h]
        /\ m = Serial("destroyed", d, n) /\ ms = <<m>>
  OBVIOUS
<1>4. sv' = t /\ Says(ms)
  BY <1>2, <1>3
<1>5. /\ x \in 0..MaxEvents /\ n \in 1..MaxEvents + 1 /\ n \in Nat
      /\ n + x <= MaxEvents + 1 /\ sv.pings + x <= MaxEvents /\ sv.serial <= n
  BY <1>1, <1>2, <1>3, Spent
<1>6. /\ t.stage = sv.stage /\ t.open = sv.open /\ t.mapped = sv.mapped
      /\ t.serial = n /\ t.announced = sv.announced /\ t.gone = g
      /\ t.pings = sv.pings /\ t.heard = sv.heard
      /\ t.seqs = sv.seqs /\ t.emulating = e /\ t.held = h
      /\ t.met = sv.met /\ t.bad = sv.bad /\ t.spare = x
  BY <1>1, <1>3 DEF Serves
<1>16. sv.stage = "bound"
  BY <1>1, <1>2 DEF Serves
<1>17. /\ sv.gone \subseteq sv.announced /\ sv.held \subseteq sv.emulating
       /\ sv.gone \cap sv.emulating = {} /\ sv.gone \subseteq Devices
       /\ sv.emulating \subseteq Devices /\ sv.held \subseteq Devices
  BY <1>1 DEF Serves
<1>18. /\ g \subseteq sv.announced /\ h \subseteq e /\ g \cap e = {}
       /\ g \in SUBSET Devices /\ e \in SUBSET Devices /\ h \in SUBSET Devices
  BY <1>2, <1>3, <1>17
<1>19. t \in [stage : {"new", "greeted", "seat", "bound"}, open : BOOLEAN,
              spare : 0..MaxEvents, serial : 1..MaxEvents + 1,
              announced : SUBSET Devices, gone : SUBSET Devices, mapped : BOOLEAN,
              pings : 0..MaxEvents, heard : Nat, seqs : [Devices -> Nat],
              emulating : SUBSET Devices, held : SUBSET Devices, met : Nat,
              bad : BOOLEAN]
  BY <1>1, <1>3, <1>5, <1>18 DEF Serves
<1>7. Serves(t, cl)
  BY <1>1, <1>5, <1>6, <1>16, <1>18, <1>19 DEF Serves
<1>8. m \in MessageType /\ m.name = "destroyed" /\ m.name \in Events /\ m.serial = n
  BY <1>3, <1>5 DEF Serial, Message, MessageType, Events
<1>9. Told(m, t)
  BY <1>5, <1>6, <1>8 DEF Told
<1>10. m.name \in Dated /\ m.name # "ping"
  BY <1>8 DEF Dated
<1>11. /\ ms \in Seq(MessageType) /\ Range(ms) = {m}
       /\ \A y \in Range(ms) : Told(y, t) /\ (y.name \in Dated => sv.serial <= y.serial)
       /\ \A y, z : Precedes(y, z, ms) => ~(y.name \in Dated /\ z.name \in Dated)
       /\ m.name # "ping" => Count(ms, "ping") = 0
  BY <1>3, <1>5, <1>8, <1>9, OneSaid
<1>12. Announces(ms, sv, t)
  BY <1>6, <1>8, <1>10, <1>11 DEF Announces
<1>13. sv.pings \in Nat
  BY <1>1, SvType
<1>20. /\ sv.gone \subseteq g /\ e \subseteq sv.emulating /\ h \subseteq sv.held
       /\ sv.emulating \cup sv.gone \subseteq e \cup g
       /\ sv.held \cup sv.gone \subseteq h \cup g
  BY <1>3
<1>14. Grows(ms, sv, t)
  BY <1>5, <1>6, <1>10, <1>11, <1>12, <1>13, <1>20 DEF Grows
<1>15. QED
  BY <1>4, <1>7, <1>14, Said

\* A new device: all that is to be known of it is on its way.
LEMMA AnnounceStep ==
    ASSUME EInv, NEW d \in Devices, Announce(d)
    PROVE  EInv'
<1>1. Serves(sv, cl)
  BY EInvIs
<1>2. PICK r, is, ms, t :
        /\ r = Of("region", d, "")
        /\ is = [j \in DOMAIN Interfaces[d] |-> Of("interface", d, Interfaces[d][j])]
        /\ ms = <<r>> \o is
        /\ t = [sv EXCEPT !.announced = @ \cup {d}]
  OBVIOUS
<1>3. /\ sv.stage = "bound" /\ sv.open /\ d \notin sv.announced
      /\ sv' = t /\ Says(ms)
  BY <1>2 DEF Announce
<1>4. /\ t.stage = sv.stage /\ t.open = sv.open /\ t.mapped = sv.mapped
      /\ t.serial = sv.serial /\ t.announced = sv.announced \cup {d} /\ t.gone = sv.gone
      /\ t.pings = sv.pings /\ t.heard = sv.heard
      /\ t.seqs = sv.seqs /\ t.emulating = sv.emulating /\ t.held = sv.held
      /\ t.met = sv.met /\ t.bad = sv.bad
  BY <1>1, <1>2 DEF Serves
<1>5. Serves(t, cl)
  <2>1. sv.announced \cup {d} \in SUBSET Devices
    BY <1>1, SvType
  <2>2. PICK a \in SUBSET Devices : a = sv.announced \cup {d}
    BY <2>1
  <2>3. t = [sv EXCEPT !.announced = a] /\ sv.gone \subseteq a
    BY <1>1, <1>2, <2>2 DEF Serves
  <2>4. QED
    BY <1>1, <1>3, <2>3 DEF Serves
<1>6. r \in MessageType /\ r.name = "region" /\ r.dev = d /\ r.name \in Events
  BY <1>2 DEF Of, Message, MessageType, Events
<1>7. Interfaces[d] \in Seq(Names) /\ DOMAIN Interfaces[d] = 1..Len(Interfaces[d])
      /\ Len(Interfaces[d]) \in Nat
  BY InterfacesAre
<1>8. ASSUME NEW j \in 1..Len(Interfaces[d])
      PROVE  /\ is[j] \in MessageType /\ is[j].name = "interface" /\ is[j].dev = d
             /\ is[j].iface = Interfaces[d][j] /\ is[j].name \in Events
             /\ Interfaces[d][j] \in Range(Interfaces[d])
  <2>1. Interfaces[d][j] \in Names
    BY <1>7
  <2>2. is[j] = Of("interface", d, Interfaces[d][j])
    BY <1>2, <1>7
  <2>3. PICK i \in Names : i = Interfaces[d][j]
    BY <2>1
  <2>4. /\ Of("interface", d, i) \in MessageType /\ Of("interface", d, i).name = "interface"
        /\ Of("interface", d, i).dev = d /\ Of("interface", d, i).iface = i
    BY DEF Of, Message, MessageType, Events
  <2>5. "interface" \in Events
    BY DEF Events
  <2>6. Interfaces[d][j] \in Range(Interfaces[d])
    BY <1>7 DEF Range
  <2>7. QED
    BY <2>2, <2>3, <2>4, <2>5, <2>6
<1>9. is \in Seq(MessageType) /\ Len(is) = Len(Interfaces[d])
  <2>1. is \in [1..Len(Interfaces[d]) -> MessageType]
    <3>1. is = [j \in 1..Len(Interfaces[d]) |-> Of("interface", d, Interfaces[d][j])]
      BY <1>2, <1>7
    <3>2. \A j \in 1..Len(Interfaces[d]) : is[j] \in MessageType
      BY <1>8
    <3>3. QED
      BY <3>1, <3>2
  <2>2. QED
    BY <1>7, <2>1
<1>10. Range(is) = {is[j] : j \in 1..Len(is)}
  BY <1>9, RangeAt
<1>11. ms \in Seq(MessageType) /\ Range(ms) = {r} \cup Range(is)
  <2>1. PICK p : p = <<r>>
    OBVIOUS
  <2>2. p \in Seq(MessageType) /\ Range(p) = {r}
    BY <1>6, <2>1, RangeOne
  <2>3. ms = p \o is
    BY <1>2, <2>1
  <2>4. Range(p \o is) = Range(p) \cup Range(is) /\ p \o is \in Seq(MessageType)
    BY <1>9, <2>2, RangeOn, ConcatAt
  <2>5. QED
    BY <2>2, <2>3, <2>4
<1>12. ASSUME NEW m \in Range(ms)
       PROVE  Told(m, t) /\ m.name \notin Dated /\ m.name # "ping"
  <2>1. CASE m = r
    BY <1>4, <1>6, <2>1 DEF Told, Dated
  <2>2. CASE m \in Range(is)
    <3>1. PICK j \in 1..Len(Interfaces[d]) : m = is[j]
      BY <1>9, <1>10, <2>2
    <3>2. QED
      BY <1>4, <1>8, <3>1 DEF Told, Dated
  <2>3. QED
    BY <1>11, <2>1, <2>2
<1>13. ASSUME NEW x, NEW y, Precedes(x, y, ms) PROVE x \in Range(ms)
  BY <1>11, <1>13, RangeAt DEF Precedes
<1>14. Count(ms, "ping") = 0
  BY <1>11, <1>12, CountNone
<1>15. Announces(ms, sv, t)
  <2>1. \E m \in Range(ms) : m.name = "region" /\ m.dev = d
    BY <1>6, <1>11
  <2>2. ASSUME NEW i \in Range(Interfaces[d])
        PROVE  \E m \in Range(ms) : m.name = "interface" /\ m.dev = d /\ m.iface = i
    <3>1. PICK j \in 1..Len(Interfaces[d]) : i = Interfaces[d][j]
      BY <1>7 DEF Range
    <3>2. is[j] \in Range(ms)
      BY <1>9, <1>10, <1>11, <3>1
    <3>3. is[j].name = "interface" /\ is[j].dev = d /\ is[j].iface = i
      BY <1>8, <3>1
    <3>4. QED
      BY <3>2, <3>3
  <2>3. \A e \in t.announced : e \notin sv.announced => e = d
    BY <1>4
  <2>4. QED
    BY <1>4, <2>1, <2>2, <2>3 DEF Announces
<1>16. sv.pings \in Nat /\ sv.serial \in Nat
  BY <1>1, SvType
<1>17. Grows(ms, sv, t)
  BY <1>4, <1>11, <1>12, <1>13, <1>14, <1>15, <1>16 DEF Grows
<1>18. QED
  BY <1>3, <1>5, <1>17, Said

\* The server leaves, and what is on its way to it is lost.
LEMMA LeaveStep ==
    ASSUME EInv, Leave
    PROVE  EInv'
<1>1. /\ Serves(sv, cl) /\ buf \in Seq(MessageType) /\ down \in Seq(MessageType)
      /\ Good(mode, cl, buf \o down, up, sv, failed, calls)
  BY EInvIs
<1>2. /\ sv.open /\ sv.spare > 0
      /\ sv' = [sv EXCEPT !.spare = @ - 1, !.open = FALSE]
      /\ down' = down \o <<Plain("disconnected")>> \/ down' = down
      /\ up' = <<>>
      /\ mode' = mode /\ cl' = cl /\ buf' = buf /\ failed' = failed /\ calls' = calls
  <2>1. Plain("disconnected") \in MessageType
    BY PlainType DEF Events
  <2>2. Append(down, Plain("disconnected")) = down \o <<Plain("disconnected")>>
    BY <1>1, <2>1, AppendIsConcat
  <2>3. QED
    BY <2>2 DEF Leave
<1>3. PICK t, x, m, q : /\ x = sv.spare - 1 /\ t = [sv EXCEPT !.spare = x, !.open = FALSE]
                        /\ m = Plain("disconnected") /\ q = buf \o down
  OBVIOUS
<1>4. /\ x \in 0..MaxEvents /\ sv.serial + x <= MaxEvents + 1 /\ sv.pings + x <= MaxEvents
  BY <1>1, <1>2, <1>3, Spent
<1>5. /\ t.stage = sv.stage /\ ~t.open /\ t.mapped = sv.mapped
      /\ t.serial = sv.serial /\ t.announced = sv.announced /\ t.gone = sv.gone
      /\ t.pings = sv.pings /\ t.heard = sv.heard
      /\ t.seqs = sv.seqs /\ t.emulating = sv.emulating /\ t.held = sv.held
      /\ t.met = sv.met /\ t.bad = sv.bad
  BY <1>1, <1>3 DEF Serves
<1>6. Serves(t, cl)
  BY <1>1, <1>3, <1>4 DEF Serves
<1>7. /\ Knows(cl, sv, calls) /\ Incoming(q, cl, sv) /\ Outgoing(up, cl, sv)
      /\ Whole(up, sv, failed) /\ Counted(q, up, sv, failed, calls)
      /\ Coming(cl, q, sv) /\ Greeting(mode, up, sv)
  BY <1>1, <1>3 DEF Good
<1>8. Knows(cl, t, calls)
  BY <1>5, <1>7 DEF Knows
<1>9. /\ m \in MessageType /\ m.name = "disconnected" /\ m.name \in Events
      /\ m.name \notin Dated /\ m.name # "ping"
  BY <1>3, PlainType DEF Events, Dated
<1>10. Told(m, t)
  BY <1>5, <1>9 DEF Told, Dated
<1>11. ASSUME NEW y, Told(y, sv) PROVE Told(y, t)
  BY <1>5, <1>11 DEF Told
<1>12. q \in Seq(MessageType) /\ up \in Seq(MessageType)
  BY <1>7 DEF Incoming, Outgoing
<1>13. Outgoing(<<>>, cl, t) /\ Whole(<<>>, t, failed) /\ Greeting(mode, <<>>, t)
  <2>1. Range(<<>>) = {} /\ <<>> \in Seq(MessageType)
    BY RangeNone
  <2>2. Outgoing(<<>>, cl, t)
    BY <2>1 DEF Outgoing
  <2>3. Whole(<<>>, t, failed)
    BY <1>5, <1>7 DEF Whole
  <2>4. Greeting(mode, <<>>, t)
    BY <1>5, <1>7, <2>1 DEF Greeting
  <2>5. QED
    BY <2>2, <2>3, <2>4
<1>14. /\ Count(<<>>, "pong") = 0 /\ Count(<<>>, "frame") = 0
       /\ Count(up, "pong") \in Nat /\ Count(up, "frame") \in Nat /\ Count(q, "ping") \in Nat
       /\ sv.pings \in Nat /\ sv.met \in Nat /\ calls \in Nat
  <2>1. Count(<<>>, "pong") = 0 /\ Count(<<>>, "frame") = 0
    BY CountFew
  <2>2. Count(up, "pong") \in Nat /\ Count(up, "frame") \in Nat /\ Count(q, "ping") \in Nat
    BY <1>12, CountOn
  <2>3. sv.pings \in Nat /\ sv.met \in Nat /\ calls \in Nat
    BY <1>1, SvType, EInvIs
  <2>4. QED
    BY <2>1, <2>2, <2>3
<1>15. /\ Count(q, "ping") + Count(<<>>, "pong") <= sv.pings
       /\ sv.met + Count(<<>>, "frame") <= calls
  <2>1. Count(q, "ping") + Count(up, "pong") <= sv.pings /\ sv.met + Count(up, "frame") <= calls
    BY <1>7 DEF Counted
  <2>2. QED
    BY <1>14, <2>1
<1>16. ASSUME NEW r, Incoming(r, cl, t), Coming(cl, r, t), Count(r, "ping") = Count(q, "ping")
       PROVE  Good(mode, cl, r, <<>>, t, failed, calls)
  <2>1. Counted(r, <<>>, t, failed, calls)
    BY <1>5, <1>15, <1>16 DEF Counted
  <2>2. QED
    BY <1>6, <1>8, <1>13, <1>16, <2>1 DEF Good
<1>17. Behind(mode', buf', sv', failed')
  <2>1. Behind(mode, buf, sv, failed)
    BY EInvIs
  <2>2. QED
    BY <1>2, <1>3, <1>5, <2>1 DEF Behind
<1>18. sv' = t
  BY <1>2, <1>3
<1>19. CASE down' = down
  <2>1. Incoming(q, cl, t)
    BY <1>7, <1>11 DEF Incoming
  <2>2. Coming(cl, q, t)
    BY <1>5, <1>7 DEF Coming
  <2>3. Good(mode, cl, q, <<>>, t, failed, calls)
    BY <1>16, <2>1, <2>2
  <2>4. Good(mode', cl', buf' \o down', up', sv', failed', calls')
    BY <1>2, <1>3, <1>18, <1>19, <2>3
  <2>5. QED
    BY <1>1, <1>2, <1>17, <1>19, <2>4, EInvIs DEF EInv
<1>20. CASE down' = down \o <<Plain("disconnected")>>
  <2>1. PICK ms : ms = <<m>>
    OBVIOUS
  <2>2. /\ ms \in Seq(MessageType) /\ Range(ms) = {m}
        /\ \A y \in Range(ms) : Told(y, t) /\ (y.name \in Dated => sv.serial <= y.serial)
        /\ \A y, z : Precedes(y, z, ms) => ~(y.name \in Dated /\ z.name \in Dated)
        /\ m.name # "ping" => Count(ms, "ping") = 0
    BY <1>9, <1>10, <2>1, OneSaid
  <2>3. Incoming(q \o ms, cl, t)
    BY <1>1, <1>7, <1>11, <2>2, IncomingMore
  <2>4. Announces(ms, sv, t)
    BY <1>5 DEF Announces
  <2>5. Coming(cl, q \o ms, t)
    BY <1>7, <1>12, <2>2, <2>4, ComingMore
  <2>6. Count(q \o ms, "ping") = Count(q, "ping")
    <3>1. Count(q \o ms, "ping") = Count(q, "ping") + Count(ms, "ping")
      BY <1>12, <2>2, CountOn
    <3>2. QED
      BY <1>9, <1>14, <2>2, <3>1
  <2>7. Good(mode, cl, q \o ms, <<>>, t, failed, calls)
    BY <1>16, <2>3, <2>5, <2>6
  <2>8. down' = down \o ms
    BY <1>3, <1>20, <2>1
  <2>9. (buf \o down) \o ms = buf \o (down \o ms)
    BY <1>1, <2>2, ConcatAssociative
  <2>10. Good(mode', cl', buf' \o down', up', sv', failed', calls')
    BY <1>2, <1>3, <1>18, <2>7, <2>8, <2>9
  <2>11. down' \in Seq(MessageType)
    BY <1>1, <2>2, <2>8, ConcatAt
  <2>12. QED
    BY <1>1, <1>2, <1>17, <2>10, <2>11, EInvIs DEF EInv
<1>21. QED
  BY <1>2, <1>19, <1>20

-----------------------------------------------------------------------------
(* The server reads a message.                                             *)

\* The first message to the server, and the others.
LEMMA UpTail ==
    ASSUME NEW u, NEW c, NEW s, Outgoing(u, c, s), u # <<>>,
           NEW m, m = Head(u), NEW t, t = Tail(u)
    PROVE  /\ u \in Seq(MessageType) /\ t \in Seq(MessageType) /\ m \in MessageType
           /\ m \in Range(u) /\ Range(t) \subseteq Range(u)
           /\ Asked(m, c, s) /\ Begun(m, s)
           /\ \A x \in Range(t) : Precedes(m, x, u) /\ Asked(x, c, s)
           /\ \A x, y : Precedes(x, y, t) => Precedes(x, y, u)
           /\ \A x, y : Follows(x, y, t) => Follows(x, y, u)
           /\ t # <<>> => /\ Head(t) \in Range(t) /\ Follows(m, Head(t), u)
                          /\ Last(u) = Last(t)
           /\ t = <<>> => Last(u) = m
<1>1. u \in Seq(MessageType)
  BY DEF Outgoing
<1>2. PICK p : p = <<m>>
  OBVIOUS
<1>3. /\ m \in MessageType /\ t \in Seq(MessageType) /\ p \in Seq(MessageType)
      /\ u = p \o t
  BY <1>1, <1>2, HeadOn
<1>4. Range(p) = {m} /\ p # <<>> /\ Last(p) = m
  BY <1>2, RangeOne DEF Last
<1>5. Range(u) = {m} \cup Range(t)
  <2>1. Range(p \o t) = Range(p) \cup Range(t)
    BY <1>3, RangeOn
  <2>2. QED
    BY <1>3, <1>4, <2>1
<1>6. Asked(m, c, s) /\ Begun(m, s) /\ \A x \in Range(t) : Asked(x, c, s)
  BY <1>5 DEF Outgoing
<1>7. \A x \in Range(t) : Precedes(m, x, u)
  <2>1. m \in Range(p)
    BY <1>4
  <2>2. QED
    BY <1>3, <2>1, PrecedesOn
<1>8. \A x, y : Precedes(x, y, t) => Precedes(x, y, u)
  BY <1>3, PrecedesOn
<1>9. ASSUME NEW x, NEW y, Follows(x, y, t) PROVE Follows(x, y, u)
  <2>1. Follows(x, y, p \o t)
    BY <1>3, <1>9, FollowsOn
  <2>2. QED
    BY <1>3, <2>1
<1>10. ASSUME t # <<>>
       PROVE  Head(t) \in Range(t) /\ Follows(m, Head(t), u) /\ Last(u) = Last(t)
  <2>1. Head(t) \in Range(t)
    BY <1>3, <1>10, EndsOn
  <2>2. Follows(Last(p), Head(t), u)
    <3>1. Follows(Last(p), Head(t), p \o t)
      BY <1>3, <1>4, <1>10, FollowsOn
    <3>2. QED
      BY <1>3, <3>1
  <2>3. Last(u) = Last(t)
    BY <1>3, <1>10, EndsOn
  <2>4. QED
    BY <1>4, <2>1, <2>2, <2>3
<1>11. ASSUME t = <<>> PROVE Last(u) = m
  <2>1. u = p
    BY <1>3, <1>11
  <2>2. QED
    BY <1>4, <2>1
<1>12. QED
  BY <1>1, <1>3, <1>5, <1>6, <1>7, <1>8, <1>9, <1>10, <1>11

\* The next message is of the same frame, and it is the right one.
LEMMA NextUp ==
    ASSUME NEW u, NEW c, NEW s, NEW f, Outgoing(u, c, s), Whole(u, s, f), u # <<>>, s.open,
           NEW m, m = Head(u), NEW t, t = Tail(u)
    PROVE  /\ t # <<>> /\ Head(t).name \in Inner =>
                m.name = Before(Head(t).name) /\ m.dev = Head(t).dev
           /\ ~f /\ m.name \in Outer =>
                t # <<>> /\ Head(t).name \in Inner /\ Head(t).dev = m.dev
           /\ ~f => \A d \in s.emulating : m.name \in Inner /\ m.dev = d
<1>1. /\ m \in Range(u) /\ Range(t) \subseteq Range(u)
      /\ t # <<>> => /\ Head(t) \in Range(t) /\ Follows(m, Head(t), u)
                     /\ Last(u) = Last(t)
      /\ t = <<>> => Last(u) = m
  <2>1. m \in Range(u) /\ Range(t) \subseteq Range(u)
    BY UpTail
  <2>2. t # <<>> => Head(t) \in Range(t) /\ Follows(m, Head(t), u)
    BY UpTail
  <2>3. t # <<>> => Last(u) = Last(t)
    BY UpTail
  <2>4. t = <<>> => Last(u) = m
    BY UpTail
  <2>5. QED
    BY <2>1, <2>2, <2>3, <2>4
<1>2. ASSUME t # <<>>, Head(t).name \in Inner
      PROVE  m.name = Before(Head(t).name) /\ m.dev = Head(t).dev
  BY <1>1, <1>2 DEF Outgoing
<1>3. ASSUME ~f, m.name \in Outer PROVE t # <<>> /\ Head(t).name \in Inner
  BY <1>1, <1>3 DEF Whole
<1>4. ~f => \A d \in s.emulating : m.name \in Inner /\ m.dev = d
  BY DEF Whole
<1>5. QED
  BY <1>2, <1>3, <1>4

\* A frame goes on, unless something failed.
LEMMA NextOf ==
    ASSUME NEW u, NEW c, NEW s, NEW f, Outgoing(u, c, s), Whole(u, s, f), u # <<>>, s.open,
           NEW m, m = Head(u), NEW t, t = Tail(u), ~f, m.name \in Outer
    PROVE  t # <<>> /\ Head(t).name \in Inner /\ Head(t).dev = m.dev
BY NextUp

\* A sum is moved from the messages that wait to those that are read.
LEMMA Shift ==
    ASSUME NEW a \in Nat, NEW b \in Nat, NEW x \in Nat, NEW y \in Nat, NEW z \in Nat,
           z + x = a + y
    PROVE  (b + x <= a => b + y <= z) /\ (a = b + x => z = b + y)
OBVIOUS

\* How the counts change with the first message gone.
LEMMA CountsTail ==
    ASSUME NEW u \in Seq(MessageType), u # <<>>, NEW m, m = Head(u), NEW t, t = Tail(u)
    PROVE  /\ Count(u, "pong") \in Nat /\ Count(t, "pong") \in Nat
           /\ Count(u, "frame") \in Nat /\ Count(t, "frame") \in Nat
           /\ m.name = "pong" => Count(u, "pong") = Count(t, "pong") + 1
           /\ m.name # "pong" => Count(u, "pong") = Count(t, "pong")
           /\ m.name = "frame" => Count(u, "frame") = Count(t, "frame") + 1
           /\ m.name # "frame" => Count(u, "frame") = Count(t, "frame")
<1>1. /\ Count(u, "pong") \in Nat /\ Count(t, "pong") \in Nat
      /\ m.name = "pong" => Count(u, "pong") = Count(t, "pong") + 1
      /\ m.name # "pong" => Count(u, "pong") = Count(t, "pong")
  BY CountHead
<1>2. /\ Count(u, "frame") \in Nat /\ Count(t, "frame") \in Nat
      /\ m.name = "frame" => Count(u, "frame") = Count(t, "frame") + 1
      /\ m.name # "frame" => Count(u, "frame") = Count(t, "frame")
  BY CountHead
<1>3. QED
  BY <1>1, <1>2

\* What is needed of the server's new state z to go on with the other messages.
LEMMA TakeRest ==
    ASSUME NEW md, NEW c, NEW q, NEW u, NEW s, NEW f, NEW k \in Nat,
           Good(md, c, q, u, s, f, k), s.open, u # <<>>, NEW t, t = Tail(u),
           NEW z, Serves(z, c), z.open,
           z.announced = s.announced, z.serial = s.serial, z.mapped = s.mapped,
           z.bad = s.bad, z.gone = s.gone,
           z.stage = s.stage \/ (s.stage \in {"seat", "bound"} /\ z.stage = "bound"),
           \A x \in Range(t) : Asked(x, c, z),
           t # <<>> => Begun(Head(t), z),
           ~f => \A d \in z.emulating : t # <<>> /\ Head(t).name \in Inner /\ Head(t).dev = d,
           z.pings + Count(u, "pong") = s.pings + Count(t, "pong"),
           z.met + Count(t, "frame") <= s.met + Count(u, "frame"),
           z.gone = {} => z.met + Count(t, "frame") = s.met + Count(u, "frame")
    PROVE  Good(md, c, q, t, z, f, k)
<1>1. /\ Knows(c, s, k) /\ Serves(s, c) /\ Incoming(q, c, s) /\ Outgoing(u, c, s)
      /\ Whole(u, s, f) /\ Counted(q, u, s, f, k) /\ Coming(c, q, s) /\ Greeting(md, u, s)
  BY DEF Good
<1>2. /\ u \in Seq(MessageType) /\ t \in Seq(MessageType)
      /\ Head(u) \in Range(u) /\ Range(t) \subseteq Range(u)
      /\ \A x, y : Precedes(x, y, t) => Precedes(x, y, u)
      /\ \A x, y : Follows(x, y, t) => Follows(x, y, u)
      /\ t # <<>> => Last(u) = Last(t)
  BY <1>1, UpTail
<1>3. Knows(c, z, k)
  BY <1>1 DEF Knows
<1>4. Incoming(q, c, z)
  <2>1. ASSUME NEW m, Told(m, s) PROVE Told(m, z)
    BY <2>1 DEF Told
  <2>2. QED
    BY <1>1, <2>1 DEF Incoming
<1>5. Outgoing(t, c, z)
  <2>1. \A x, y \in Range(t) :
          Precedes(x, y, t) /\ x.name = "start" /\ y.name = "start" =>
              /\ x.serial <= y.serial
              /\ x.dev = y.dev => x.seq < y.seq
    BY <1>1, <1>2 DEF Outgoing
  <2>2. \A x, y \in Range(t) : Precedes(x, y, t) => ~(x.name = "hello" /\ y.name = "hello")
    BY <1>1, <1>2 DEF Outgoing
  <2>3. \A x, y \in Range(t) :
          Follows(x, y, t) /\ y.name \in Inner => x.name = Before(y.name) /\ x.dev = y.dev
    BY <1>1, <1>2 DEF Outgoing
  <2>4. QED
    BY <1>2, <2>1, <2>2, <2>3 DEF Outgoing
<1>6. Whole(t, z, f)
  <2>1. ASSUME ~f
        PROVE  /\ \A m \in Range(t) : m.name # "cut"
               /\ \A x, y \in Range(t) : Follows(x, y, t) /\ x.name \in Outer => y.name \in Inner
               /\ t # <<>> => Last(t).name \notin Outer
    BY <1>1, <1>2, <2>1 DEF Whole
  <2>2. z.bad => f
    BY <1>1 DEF Whole
  <2>3. QED
    BY <2>1, <2>2 DEF Whole
<1>7. /\ Count(q, "ping") \in Nat /\ Count(u, "pong") \in Nat /\ Count(t, "pong") \in Nat
      /\ Count(u, "frame") \in Nat /\ Count(t, "frame") \in Nat
      /\ s.pings \in Nat /\ z.pings \in Nat /\ s.met \in Nat /\ z.met \in Nat
  <2>1. q \in Seq(MessageType)
    BY <1>1 DEF Incoming
  <2>2. Count(q, "ping") \in Nat
    BY <2>1, CountOn
  <2>3. Count(u, "pong") \in Nat /\ Count(u, "frame") \in Nat
    BY <1>2, CountOn
  <2>4. Count(t, "pong") \in Nat /\ Count(t, "frame") \in Nat
    BY <1>2, CountOn
  <2>5. s.pings \in Nat /\ z.pings \in Nat /\ s.met \in Nat /\ z.met \in Nat
    BY <1>1, SvType
  <2>6. QED
    BY <2>2, <2>3, <2>4, <2>5
<1>8. Counted(q, t, z, f, k)
  <2>1. /\ Count(q, "ping") + Count(u, "pong") <= s.pings
        /\ s.met + Count(u, "frame") <= k
        /\ ~f => s.pings = Count(q, "ping") + Count(u, "pong")
        /\ ~f /\ s.gone = {} => s.met + Count(u, "frame") = k
    BY <1>1 DEF Counted
  <2>2. Count(q, "ping") + Count(t, "pong") <= z.pings
    BY <1>7, <2>1, Shift
  <2>3. z.met + Count(t, "frame") <= k
    BY <1>7, <2>1
  <2>4. ~f => z.pings = Count(q, "ping") + Count(t, "pong")
    BY <1>7, <2>1, Shift
  <2>5. ~f /\ z.gone = {} => z.met + Count(t, "frame") = k
    BY <2>1
  <2>6. QED
    BY <2>2, <2>3, <2>4, <2>5 DEF Counted
<1>9. Coming(c, q, z)
  BY <1>1 DEF Coming
<1>10. Greeting(md, t, z)
  BY <1>1, <1>2 DEF Greeting
<1>11. QED
  BY <1>3, <1>4, <1>5, <1>6, <1>8, <1>9, <1>10 DEF Good

\* The parts of Good.
LEMMA GoodParts ==
    ASSUME NEW md, NEW c, NEW q, NEW u, NEW s, NEW f, NEW k \in Nat,
           Good(md, c, q, u, s, f, k)
    PROVE  /\ Knows(c, s, k) /\ Serves(s, c) /\ Incoming(q, c, s) /\ Outgoing(u, c, s)
           /\ Whole(u, s, f) /\ Counted(q, u, s, f, k) /\ Coming(c, q, s)
           /\ Greeting(md, u, s) /\ c \in ClientType /\ u \in Seq(MessageType)
<1>1. /\ Knows(c, s, k) /\ Serves(s, c) /\ Incoming(q, c, s) /\ Outgoing(u, c, s)
      /\ Whole(u, s, f) /\ Counted(q, u, s, f, k) /\ Coming(c, q, s)
      /\ Greeting(md, u, s)
  BY DEF Good
<1>2. u \in Seq(MessageType)
  BY <1>1 DEF Outgoing
<1>3. c \in ClientType
  BY <1>1, Shapes
<1>4. QED
  BY <1>1, <1>2, <1>3

\* A message for a device that is gone.
LEMMA TakeGone ==
    ASSUME NEW md, NEW c, NEW q, NEW u, NEW s, NEW f, NEW k \in Nat,
           Good(md, c, q, u, s, f, k), s.open, u # <<>>, NEW t, t = Tail(u),
           NEW m, m = Head(u), m.dev \in s.gone
    PROVE  Good(md, c, q, t, s, f, k) /\ m.name # "hello"
<1>1. /\ Knows(c, s, k) /\ Serves(s, c) /\ Outgoing(u, c, s) /\ Whole(u, s, f)
      /\ u \in Seq(MessageType)
  BY GoodParts
<1>2. /\ Asked(m, c, s) /\ \A x \in Range(t) : Asked(x, c, s)
  BY <1>1, UpTail
<1>3. m.dev \in Devices /\ m.name \in Framed
  BY <1>1, <1>2, SvType DEF Asked
<1>4. s.gone \cap s.emulating = {} /\ s.held \subseteq s.emulating
  BY <1>1 DEF Serves
<1>5. ASSUME t # <<>> PROVE Begun(Head(t), s)
  <2>1. Head(t).name \in Inner => m.dev = Head(t).dev
    BY <1>1, <1>5, NextUp
  <2>2. QED
    BY <1>4, <2>1 DEF Begun
<1>6. ~f => s.emulating = {}
  BY <1>1, <1>4, NextUp
<1>7. m.name # "pong" /\ m.name # "hello"
  BY <1>3 DEF Framed
<1>8. Count(u, "pong") = Count(t, "pong")
  BY <1>1, <1>7, CountHead
<1>9. Count(t, "frame") <= Count(u, "frame") /\ s.met \in Nat
      /\ Count(t, "frame") \in Nat /\ Count(u, "frame") \in Nat
  <2>1. /\ Count(u, "frame") \in Nat /\ Count(t, "frame") \in Nat
        /\ m.name = "frame" => Count(u, "frame") = Count(t, "frame") + 1
        /\ m.name # "frame" => Count(u, "frame") = Count(t, "frame")
    BY <1>1, CountHead
  <2>2. s.met \in Nat
    BY <1>1, SvType
  <2>3. QED
    BY <2>1, <2>2
<1>10. s.met + Count(t, "frame") <= s.met + Count(u, "frame")
  BY <1>9
<1>11. s.gone # {}
  OBVIOUS
<1>12. s.pings + Count(u, "pong") = s.pings + Count(t, "pong")
  BY <1>8
<1>13. ~f => \A d \in s.emulating : t # <<>> /\ Head(t).name \in Inner /\ Head(t).dev = d
  BY <1>6
<1>14. Good(md, c, q, t, s, f, k)
  BY <1>1, <1>2, <1>5, <1>10, <1>11, <1>12, <1>13, TakeRest
<1>15. QED
  BY <1>7, <1>14

\* The server after a message it accepts, as After gives it.
Ponged(s) == [s EXCEPT !.pings = @ - 1]
Bound(s) == [s EXCEPT !.stage = "bound"]
Starts(s, m) ==
    [s EXCEPT !.emulating = @ \cup {m.dev}, !.heard = m.serial,
               !.seqs[m.dev] = m.seq]
Holds(s, m) == [s EXCEPT !.held = @ \cup {m.dev}]
Meets(s, m) == [s EXCEPT !.held = @ \ {m.dev}, !.met = @ + 1]
Stops(s, m) == [s EXCEPT !.emulating = @ \ {m.dev}]

\* The server reads the answer to a ping: one is owed less.
LEMMA TakePong ==
    ASSUME NEW md, NEW c, NEW q, NEW u, NEW s, NEW f, NEW k \in Nat,
           Good(md, c, q, u, s, f, k), s.open, u # <<>>, NEW t, t = Tail(u),
           NEW m, m = Head(u), m.name = "pong",
           NEW z, z = Ponged(s)
    PROVE  Good(md, c, q, t, z, f, k) /\ z.open
<1>0. z = [s EXCEPT !.pings = @ - 1]
  BY DEF Ponged
<1> USE <1>0
<1>1. /\ Knows(c, s, k) /\ Serves(s, c) /\ Incoming(q, c, s) /\ Outgoing(u, c, s)
      /\ Whole(u, s, f) /\ Counted(q, u, s, f, k) /\ u \in Seq(MessageType)
  BY GoodParts
<1>2. /\ Asked(m, c, s) /\ \A x \in Range(t) : Asked(x, c, s)
  BY <1>1, UpTail
<1>3. /\ Count(u, "pong") \in Nat /\ Count(t, "pong") \in Nat
      /\ Count(u, "pong") = Count(t, "pong") + 1
      /\ Count(u, "frame") = Count(t, "frame") /\ Count(t, "frame") \in Nat
  BY <1>1, CountsTail
<1>4. s.pings \in Nat /\ s.pings >= 1 /\ s.spare \in Nat /\ MaxEvents \in Nat
  <2>1. Count(q, "ping") + Count(u, "pong") <= s.pings
    BY <1>1 DEF Counted
  <2>2. q \in Seq(MessageType)
    BY <1>1 DEF Incoming
  <2>3. Count(q, "ping") \in Nat
    BY <2>2, CountOn
  <2>4. s.pings \in Nat /\ s.spare \in Nat /\ MaxEvents \in Nat
    BY <1>1, SvType
  <2>5. QED
    BY <1>3, <2>1, <2>3, <2>4
<1>5. PICK n : n = s.pings - 1
  OBVIOUS
<1>6. z = [s EXCEPT !.pings = n]
  BY <1>5
<1>7. n \in 0..MaxEvents /\ n + s.spare <= MaxEvents /\ n \in Nat
  <2>1. s.pings \in 0..MaxEvents /\ s.pings + s.spare <= MaxEvents
    BY <1>1 DEF Serves
  <2>2. QED
    BY <1>4, <1>5, <2>1
<1>8. Serves(z, c)
  BY <1>1, <1>6, <1>7 DEF Serves
<1>9. /\ z.stage = s.stage /\ z.open = s.open /\ z.mapped = s.mapped
      /\ z.serial = s.serial /\ z.announced = s.announced /\ z.gone = s.gone
      /\ z.pings = n /\ z.heard = s.heard
      /\ z.seqs = s.seqs /\ z.emulating = s.emulating /\ z.held = s.held
      /\ z.met = s.met /\ z.bad = s.bad
  BY <1>1, <1>6 DEF Serves
<1>10. ASSUME NEW x \in Range(t) PROVE Asked(x, c, z)
  BY <1>2, <1>9 DEF Asked
<1>11. ASSUME t # <<>> PROVE Begun(Head(t), z)
  <2>1. Head(t).name \in Inner => m.name = Before(Head(t).name)
    BY <1>1, <1>11, NextUp
  <2>2. Head(t).name \notin Inner
    BY <2>1 DEF Inner, Before
  <2>3. QED
    BY <2>2 DEF Begun
<1>12. ~f => z.emulating = {}
  <2>1. ~f => \A d \in s.emulating : m.name \in Inner
    BY <1>1, NextUp
  <2>2. QED
    BY <1>9, <2>1 DEF Inner
<1>13. ~f => \A d \in z.emulating : t # <<>> /\ Head(t).name \in Inner /\ Head(t).dev = d
  BY <1>12
<1>14. z.pings + Count(u, "pong") = s.pings + Count(t, "pong")
  <2>1. n + Count(u, "pong") = s.pings + Count(t, "pong")
    <3>1. PICK x \in Nat, y \in Nat : x = Count(u, "pong") /\ y = Count(t, "pong")
      BY <1>3
    <3>2. x = y + 1
      BY <1>3, <3>1
    <3>3. n + x = s.pings + y
      BY <1>4, <1>5, <3>1, <3>2
    <3>4. QED
      BY <3>1, <3>3
  <2>2. QED
    BY <1>9, <2>1
<1>15. s.met \in Nat
  BY <1>1, SvType
<1>16. /\ z.met + Count(t, "frame") <= s.met + Count(u, "frame")
       /\ z.met + Count(t, "frame") = s.met + Count(u, "frame")
  BY <1>3, <1>9, <1>15
<1>17. QED
  BY <1>8, <1>9, <1>10, <1>11, <1>13, <1>14, <1>16, TakeRest

\* It reads the binding of the seat.
LEMMA TakeBind ==
    ASSUME NEW md, NEW c, NEW q, NEW u, NEW s, NEW f, NEW k \in Nat,
           Good(md, c, q, u, s, f, k), s.open, u # <<>>, NEW t, t = Tail(u),
           NEW m, m = Head(u), m.name = "bind",
           NEW z, z = Bound(s)
    PROVE  Good(md, c, q, t, z, f, k) /\ z.open
<1>0. z = [s EXCEPT !.stage = "bound"]
  BY DEF Bound
<1> USE <1>0
<1>1. /\ Knows(c, s, k) /\ Serves(s, c) /\ Incoming(q, c, s) /\ Outgoing(u, c, s)
      /\ Whole(u, s, f) /\ Counted(q, u, s, f, k) /\ u \in Seq(MessageType)
  BY GoodParts
<1>2. /\ Asked(m, c, s) /\ \A x \in Range(t) : Asked(x, c, s)
  BY <1>1, UpTail
<1>3. s.stage \in {"seat", "bound"}
  BY <1>2 DEF Asked
<1>8. Serves(z, c)
  BY <1>1 DEF Serves
<1>9. /\ z.stage = "bound" /\ z.open = s.open /\ z.mapped = s.mapped
      /\ z.serial = s.serial /\ z.announced = s.announced /\ z.gone = s.gone
      /\ z.pings = s.pings /\ z.heard = s.heard
      /\ z.seqs = s.seqs /\ z.emulating = s.emulating /\ z.held = s.held
      /\ z.met = s.met /\ z.bad = s.bad
  BY <1>1 DEF Serves
<1>10. ASSUME NEW x \in Range(t) PROVE Asked(x, c, z)
  BY <1>2, <1>3, <1>9 DEF Asked
<1>11. ASSUME t # <<>> PROVE Begun(Head(t), z)
  <2>1. Head(t).name \in Inner => m.name = Before(Head(t).name)
    BY <1>1, <1>11, NextUp
  <2>2. Head(t).name \notin Inner
    BY <2>1 DEF Inner, Before
  <2>3. QED
    BY <2>2 DEF Begun
<1>12. ~f => z.emulating = {}
  <2>1. ~f => \A d \in s.emulating : m.name \in Inner
    BY <1>1, NextUp
  <2>2. QED
    BY <1>9, <2>1 DEF Inner
<1>13. ~f => \A d \in z.emulating : t # <<>> /\ Head(t).name \in Inner /\ Head(t).dev = d
  BY <1>12
<1>14. /\ Count(u, "pong") = Count(t, "pong")
       /\ Count(u, "frame") = Count(t, "frame") /\ Count(t, "frame") \in Nat
  <2>1. u \in Seq(MessageType) /\ m.name # "pong" /\ m.name # "frame"
    BY <1>1
  <2>2. QED
    BY <2>1, CountsTail
<1>15. s.met \in Nat
  BY <1>1, SvType
<1>16. /\ z.pings + Count(u, "pong") = s.pings + Count(t, "pong")
       /\ z.met + Count(t, "frame") <= s.met + Count(u, "frame")
       /\ z.met + Count(t, "frame") = s.met + Count(u, "frame")
  BY <1>9, <1>14, <1>15
<1>18. z.stage = s.stage \/ (s.stage \in {"seat", "bound"} /\ z.stage = "bound")
  BY <1>3, <1>9
<1>17. QED
  BY <1>8, <1>9, <1>10, <1>11, <1>13, <1>16, <1>18, TakeRest

\* It reads the start of a frame, and no device is emulating before it.
LEMMA TakeStart ==
    ASSUME NEW md, NEW c, NEW q, NEW u, NEW s, NEW f, NEW k \in Nat,
           Good(md, c, q, u, s, f, k), s.open, u # <<>>, NEW t, t = Tail(u),
           NEW m, m = Head(u), m.name = "start", m.dev \notin s.gone,
           NEW z, z = Starts(s, m)
    PROVE  Good(md, c, q, t, z, f, k) /\ z.open
<1>19. /\ Outgoing(u, c, s) /\ Whole(u, s, f)
  BY GoodParts
<1>12. ASSUME ~f PROVE t # <<>> /\ Head(t).name \in Inner /\ Head(t).dev = m.dev
  <2>1. m.name \in Outer
    BY DEF Outer
  <2>2. QED
    BY <1>12, <1>19, <2>1, NextOf
<1>0. z = [s EXCEPT !.emulating = @ \cup {m.dev}, !.heard = m.serial,
                    !.seqs[m.dev] = m.seq]
  BY DEF Starts
<1> USE <1>0
<1>1. /\ Knows(c, s, k) /\ Serves(s, c) /\ Incoming(q, c, s) /\ Outgoing(u, c, s)
      /\ Whole(u, s, f) /\ Counted(q, u, s, f, k) /\ u \in Seq(MessageType)
      /\ c \in ClientType
  BY GoodParts
<1>2. /\ Asked(m, c, s) /\ \A x \in Range(t) : Asked(x, c, s) /\ Precedes(m, x, u)
      /\ m \in Range(u) /\ Range(t) \subseteq Range(u)
  BY <1>1, UpTail
<1>3. /\ m.dev \in Devices /\ m.seq \in Nat /\ m.serial \in Nat
      /\ s.seqs[m.dev] < m.seq /\ m.seq <= c.seq[m.dev]
      /\ s.heard <= m.serial /\ m.serial <= c.serial
  BY <1>2 DEF Asked, Framed, MessageType
<1>4. s.seqs \in [Devices -> Nat] /\ s.emulating \subseteq Devices /\ s.held \subseteq s.emulating
      /\ s.gone \cap s.emulating = {}
  BY <1>1 DEF Serves
<1>5. PICK a, e : a = [s.seqs EXCEPT ![m.dev] = m.seq] /\ e = s.emulating \cup {m.dev}
  OBVIOUS
<1>6. /\ a \in [Devices -> Nat] /\ a[m.dev] = m.seq
      /\ \A d \in Devices : d # m.dev => a[d] = s.seqs[d]
  BY <1>3, <1>4, <1>5
<1>7. e \in SUBSET Devices /\ s.held \subseteq e /\ s.gone \cap e = {}
  BY <1>3, <1>4, <1>5
<1>8. z = [s EXCEPT !.emulating = e, !.heard = m.serial, !.seqs = a]
  BY <1>1, <1>5 DEF Serves
<1>9. /\ z.stage = s.stage /\ z.open = s.open /\ z.mapped = s.mapped
      /\ z.serial = s.serial /\ z.announced = s.announced /\ z.gone = s.gone
      /\ z.pings = s.pings /\ z.heard = m.serial
      /\ z.seqs = a /\ z.emulating = e /\ z.held = s.held
      /\ z.met = s.met /\ z.bad = s.bad /\ z.spare = s.spare
  BY <1>1, <1>8 DEF Serves
<1>18. Serves(z, c)
  <2>1. \A d \in Devices : a[d] <= c.seq[d]
    BY <1>1, <1>3, <1>6 DEF Serves
  <2>2. z \in [stage : {"new", "greeted", "seat", "bound"}, open : BOOLEAN,
               spare : 0..MaxEvents, serial : 1..MaxEvents + 1,
               announced : SUBSET Devices, gone : SUBSET Devices, mapped : BOOLEAN,
               pings : 0..MaxEvents, heard : Nat, seqs : [Devices -> Nat],
               emulating : SUBSET Devices, held : SUBSET Devices, met : Nat,
               bad : BOOLEAN]
    BY <1>1, <1>3, <1>6, <1>7, <1>8 DEF Serves
  <2>3. QED
    BY <1>1, <1>3, <1>7, <1>9, <2>1, <2>2 DEF Serves
<1>10. ASSUME NEW x \in Range(t) PROVE Asked(x, c, z)
  <2>1. Asked(x, c, s) /\ Precedes(m, x, u) /\ x \in Range(u) /\ m \in Range(u)
    BY <1>2
  <2>2. ASSUME x.name = "start"
        PROVE  a[x.dev] < x.seq /\ m.serial <= x.serial
    <3>1. m.serial <= x.serial /\ (m.dev = x.dev => m.seq < x.seq)
      BY <1>1, <2>1, <2>2 DEF Outgoing
    <3>2. x.dev \in Devices /\ s.seqs[x.dev] < x.seq
      BY <2>1, <2>2 DEF Asked, Framed
    <3>3. QED
      BY <1>6, <3>1, <3>2
  <2>3. QED
    BY <1>9, <2>1, <2>2 DEF Asked
<1>11. ASSUME t # <<>> PROVE Begun(Head(t), z)
  <2>1. Head(t).name \in Inner => m.name = Before(Head(t).name) /\ m.dev = Head(t).dev
    BY <1>1, <1>11, NextUp
  <2>2. Head(t).name \in Inner => Head(t).name = "event"
    BY <2>1 DEF Inner, Before
  <2>3. QED
    BY <1>5, <1>9, <2>1, <2>2 DEF Begun
<1>13. ASSUME ~f, NEW d \in z.emulating
       PROVE  t # <<>> /\ Head(t).name \in Inner /\ Head(t).dev = d
  <2>1. \A b \in s.emulating : m.name \in Inner
    BY <1>1, <1>13, NextUp
  <2>2. s.emulating = {}
    BY <2>1 DEF Inner
  <2>3. d = m.dev
    BY <1>5, <1>9, <2>2
  <2>4. QED
    BY <1>12, <1>13, <2>3
<1>14. /\ Count(u, "pong") = Count(t, "pong")
       /\ Count(u, "frame") = Count(t, "frame") /\ Count(t, "frame") \in Nat
  <2>1. u \in Seq(MessageType) /\ m.name # "pong" /\ m.name # "frame"
    BY <1>1
  <2>2. QED
    BY <2>1, CountsTail
<1>15. s.met \in Nat
  BY <1>1, SvType
<1>16. /\ z.pings + Count(u, "pong") = s.pings + Count(t, "pong")
       /\ z.met + Count(t, "frame") <= s.met + Count(u, "frame")
       /\ z.met + Count(t, "frame") = s.met + Count(u, "frame")
  BY <1>9, <1>14, <1>15
<1>17. QED
  BY <1>9, <1>10, <1>11, <1>13, <1>16, <1>18, TakeRest

\* It reads an event, which is held until the frame is closed.
LEMMA TakeEvent ==
    ASSUME NEW md, NEW c, NEW q, NEW u, NEW s, NEW f, NEW k \in Nat,
           Good(md, c, q, u, s, f, k), s.open, u # <<>>, NEW t, t = Tail(u),
           NEW m, m = Head(u), m.name = "event", m.dev \notin s.gone,
           NEW z, z = Holds(s, m)
    PROVE  Good(md, c, q, t, z, f, k) /\ z.open
<1>0. z = [s EXCEPT !.held = @ \cup {m.dev}]
  BY DEF Holds
<1> USE <1>0
<1>1. /\ Knows(c, s, k) /\ Serves(s, c) /\ Incoming(q, c, s) /\ Outgoing(u, c, s)
      /\ Whole(u, s, f) /\ Counted(q, u, s, f, k) /\ u \in Seq(MessageType)
      /\ c \in ClientType
  BY GoodParts
<1>2. /\ Asked(m, c, s) /\ Begun(m, s) /\ \A x \in Range(t) : Asked(x, c, s)
  BY <1>1, UpTail
<1>3. m.dev \in s.emulating
  BY <1>2 DEF Begun, Inner
<1>4. s.held \subseteq s.emulating /\ s.emulating \subseteq Devices
  BY <1>1 DEF Serves
<1>5. PICK h : h = s.held \cup {m.dev}
  OBVIOUS
<1>6. h \in SUBSET Devices /\ h \subseteq s.emulating /\ s.held \subseteq h /\ m.dev \in h
  BY <1>3, <1>4, <1>5
<1>7. z = [s EXCEPT !.held = h]
  BY <1>5
<1>8. Serves(z, c)
  BY <1>1, <1>6, <1>7 DEF Serves
<1>9. /\ z.stage = s.stage /\ z.open = s.open /\ z.mapped = s.mapped
      /\ z.serial = s.serial /\ z.announced = s.announced /\ z.gone = s.gone
      /\ z.pings = s.pings /\ z.heard = s.heard
      /\ z.seqs = s.seqs /\ z.emulating = s.emulating /\ z.held = h
      /\ z.met = s.met /\ z.bad = s.bad
  BY <1>1, <1>7 DEF Serves
<1>10. ASSUME NEW x \in Range(t) PROVE Asked(x, c, z)
  BY <1>2, <1>9 DEF Asked
<1>11. ASSUME t # <<>> PROVE Begun(Head(t), z)
  <2>1. Head(t).name \in Inner => m.name = Before(Head(t).name) /\ m.dev = Head(t).dev
    BY <1>1, <1>11, NextUp
  <2>2. Head(t).name \in Inner => Head(t).name = "frame"
    BY <2>1 DEF Inner, Before
  <2>3. QED
    BY <1>3, <1>6, <1>9, <2>1, <2>2 DEF Begun
<1>13. ASSUME ~f, NEW d \in z.emulating
       PROVE  t # <<>> /\ Head(t).name \in Inner /\ Head(t).dev = d
  <2>1. m.dev = d
    BY <1>1, <1>9, <1>13, NextUp
  <2>4. m.name \in Outer
    BY DEF Outer
  <2>5. t # <<>> /\ Head(t).name \in Inner /\ Head(t).dev = m.dev
    BY <1>1, <1>13, <2>4, NextOf
  <2>6. QED
    BY <2>1, <2>5
<1>14. /\ Count(u, "pong") = Count(t, "pong")
       /\ Count(u, "frame") = Count(t, "frame") /\ Count(t, "frame") \in Nat
  <2>1. u \in Seq(MessageType) /\ m.name # "pong" /\ m.name # "frame"
    BY <1>1
  <2>2. QED
    BY <2>1, CountsTail
<1>15. s.met \in Nat
  BY <1>1, SvType
<1>16. /\ z.pings + Count(u, "pong") = s.pings + Count(t, "pong")
       /\ z.met + Count(t, "frame") <= s.met + Count(u, "frame")
       /\ z.met + Count(t, "frame") = s.met + Count(u, "frame")
  BY <1>9, <1>14, <1>15
<1>17. QED
  BY <1>8, <1>9, <1>10, <1>11, <1>13, <1>16, TakeRest

\* It reads what closes a frame, whereupon the event counts.
LEMMA TakeFrame ==
    ASSUME NEW md, NEW c, NEW q, NEW u, NEW s, NEW f, NEW k \in Nat,
           Good(md, c, q, u, s, f, k), s.open, u # <<>>, NEW t, t = Tail(u),
           NEW m, m = Head(u), m.name = "frame", m.dev \notin s.gone, m.dev \in s.held
    PROVE  \A z : z = Meets(s, m) =>
             Good(md, c, q, t, z, f, k) /\ z.open
<1>1. /\ Knows(c, s, k) /\ Serves(s, c) /\ Incoming(q, c, s) /\ Outgoing(u, c, s)
      /\ Whole(u, s, f) /\ Counted(q, u, s, f, k) /\ u \in Seq(MessageType)
      /\ c \in ClientType
  BY GoodParts
<1>2. /\ Asked(m, c, s) /\ Begun(m, s) /\ \A x \in Range(t) : Asked(x, c, s)
  BY <1>1, UpTail
<1>12. ~f => t # <<>> /\ Head(t).name \in Inner /\ Head(t).dev = m.dev
  <2>1. m.name \in Outer
    BY DEF Outer
  <2>2. Outgoing(u, c, s) /\ Whole(u, s, f)
    BY <1>1
  <2>3. QED
    BY <2>1, <2>2, NextOf
<1>18. SUFFICES ASSUME NEW z, z = Meets(s, m)
                PROVE  Good(md, c, q, t, z, f, k) /\ z.open
  OBVIOUS
<1>4. s.held \subseteq s.emulating /\ s.emulating \subseteq Devices /\ s.met \in Nat
  BY <1>1 DEF Serves
<1>5. PICK h, n : h = s.held \ {m.dev} /\ n = s.met + 1
  OBVIOUS
<1>6. h \in SUBSET Devices /\ h \subseteq s.emulating /\ m.dev \notin h /\ n \in Nat
  BY <1>4, <1>5
<1>7. z = [s EXCEPT !.held = h, !.met = n]
  BY <1>5, <1>18 DEF Meets
<1>8. Serves(z, c)
  BY <1>1, <1>6, <1>7 DEF Serves
<1>9. /\ z.stage = s.stage /\ z.open = s.open /\ z.mapped = s.mapped
      /\ z.serial = s.serial /\ z.announced = s.announced /\ z.gone = s.gone
      /\ z.pings = s.pings /\ z.heard = s.heard
      /\ z.seqs = s.seqs /\ z.emulating = s.emulating /\ z.held = h
      /\ z.met = n /\ z.bad = s.bad
  BY <1>1, <1>7 DEF Serves
<1>10. ASSUME NEW x \in Range(t) PROVE Asked(x, c, z)
  BY <1>2, <1>9 DEF Asked
<1>11. ASSUME t # <<>> PROVE Begun(Head(t), z)
  <2>1. Head(t).name \in Inner => m.name = Before(Head(t).name) /\ m.dev = Head(t).dev
    BY <1>1, <1>11, NextUp
  <2>2. Head(t).name \in Inner => Head(t).name = "stop"
    BY <2>1 DEF Inner, Before
  <2>3. QED
    BY <1>4, <1>6, <1>9, <2>1, <2>2 DEF Begun
<1>13. ASSUME ~f, NEW d \in z.emulating
       PROVE  t # <<>> /\ Head(t).name \in Inner /\ Head(t).dev = d
  <2>1. m.dev = d
    BY <1>1, <1>9, <1>13, NextUp
  <2>6. QED
    BY <1>12, <1>13, <2>1
<1>14. /\ Count(u, "pong") = Count(t, "pong")
       /\ Count(u, "frame") = Count(t, "frame") + 1 /\ Count(t, "frame") \in Nat
  BY <1>1, CountsTail
<1>15. n + Count(t, "frame") = s.met + Count(u, "frame")
       /\ n + Count(t, "frame") <= s.met + Count(u, "frame")
  <2>1. PICK x \in Nat, y \in Nat : x = Count(u, "frame") /\ y = Count(t, "frame")
    BY <1>14
  <2>2. x = y + 1
    BY <1>14, <2>1
  <2>3. n + y = s.met + x /\ n + y <= s.met + x
    BY <1>4, <1>5, <2>1, <2>2
  <2>4. QED
    BY <2>1, <2>3
<1>16. /\ z.pings + Count(u, "pong") = s.pings + Count(t, "pong")
       /\ z.met + Count(t, "frame") <= s.met + Count(u, "frame")
       /\ z.met + Count(t, "frame") = s.met + Count(u, "frame")
  BY <1>9, <1>14, <1>15
<1>17. QED
  BY <1>8, <1>9, <1>10, <1>11, <1>13, <1>16, TakeRest

\* It reads the end of a frame, with nothing held.
LEMMA TakeStop ==
    ASSUME NEW md, NEW c, NEW q, NEW u, NEW s, NEW f, NEW k \in Nat,
           Good(md, c, q, u, s, f, k), s.open, u # <<>>, NEW t, t = Tail(u),
           NEW m, m = Head(u), m.name = "stop", m.dev \notin s.gone,
           NEW z, z = Stops(s, m)
    PROVE  Good(md, c, q, t, z, f, k) /\ z.open
<1>0. z = [s EXCEPT !.emulating = @ \ {m.dev}]
  BY DEF Stops
<1> USE <1>0
<1>1. /\ Knows(c, s, k) /\ Serves(s, c) /\ Incoming(q, c, s) /\ Outgoing(u, c, s)
      /\ Whole(u, s, f) /\ Counted(q, u, s, f, k) /\ u \in Seq(MessageType)
      /\ c \in ClientType
  BY GoodParts
<1>2. /\ Asked(m, c, s) /\ Begun(m, s) /\ \A x \in Range(t) : Asked(x, c, s)
  BY <1>1, UpTail
<1>3. m.dev \notin s.held
  BY <1>2 DEF Begun, Inner
<1>4. /\ s.held \subseteq s.emulating /\ s.emulating \subseteq Devices
      /\ s.gone \cap s.emulating = {}
  BY <1>1 DEF Serves
<1>5. PICK e : e = s.emulating \ {m.dev}
  OBVIOUS
<1>6. e \in SUBSET Devices /\ s.held \subseteq e /\ s.gone \cap e = {}
  BY <1>3, <1>4, <1>5
<1>7. z = [s EXCEPT !.emulating = e]
  BY <1>5
<1>8. Serves(z, c)
  BY <1>1, <1>6, <1>7 DEF Serves
<1>9. /\ z.stage = s.stage /\ z.open = s.open /\ z.mapped = s.mapped
      /\ z.serial = s.serial /\ z.announced = s.announced /\ z.gone = s.gone
      /\ z.pings = s.pings /\ z.heard = s.heard
      /\ z.seqs = s.seqs /\ z.emulating = e /\ z.held = s.held
      /\ z.met = s.met /\ z.bad = s.bad
  BY <1>1, <1>7 DEF Serves
<1>10. ASSUME NEW x \in Range(t) PROVE Asked(x, c, z)
  BY <1>2, <1>9 DEF Asked
<1>11. ASSUME t # <<>> PROVE Begun(Head(t), z)
  <2>1. Head(t).name \in Inner => m.name = Before(Head(t).name)
    BY <1>1, <1>11, NextUp
  <2>2. Head(t).name \notin Inner
    BY <2>1 DEF Inner, Before
  <2>3. QED
    BY <2>2 DEF Begun
<1>12. ~f => z.emulating = {}
  <2>1. ~f => \A d \in s.emulating : m.dev = d
    BY <1>1, NextUp
  <2>2. QED
    BY <1>5, <1>9, <2>1
<1>13. ~f => \A d \in z.emulating : t # <<>> /\ Head(t).name \in Inner /\ Head(t).dev = d
  BY <1>12
<1>14. /\ Count(u, "pong") = Count(t, "pong")
       /\ Count(u, "frame") = Count(t, "frame") /\ Count(t, "frame") \in Nat
  <2>1. u \in Seq(MessageType) /\ m.name # "pong" /\ m.name # "frame"
    BY <1>1
  <2>2. QED
    BY <2>1, CountsTail
<1>15. s.met \in Nat
  BY <1>1, SvType
<1>16. /\ z.pings + Count(u, "pong") = s.pings + Count(t, "pong")
       /\ z.met + Count(t, "frame") <= s.met + Count(u, "frame")
       /\ z.met + Count(t, "frame") = s.met + Count(u, "frame")
  BY <1>9, <1>14, <1>15
<1>17. QED
  BY <1>8, <1>9, <1>10, <1>11, <1>13, <1>16, TakeRest

\* The first greeting is the only one, and it leaves the queue first.
LEMMA HelloGone ==
    ASSUME NEW md, NEW c, NEW q, NEW u, NEW s, NEW f, NEW k \in Nat,
           Good(md, c, q, u, s, f, k), s.open, u # <<>>, NEW t, t = Tail(u),
           NEW m, m = Head(u), m.name = "hello"
    PROVE  /\ Good(md, c, q, t, s, f, k) /\ s.stage = "greeted" /\ md # "greet"
           /\ \A x \in Range(t) : x.name # "hello"
<1>1. /\ Knows(c, s, k) /\ Serves(s, c) /\ Incoming(q, c, s) /\ Outgoing(u, c, s)
      /\ Whole(u, s, f) /\ Counted(q, u, s, f, k) /\ u \in Seq(MessageType)
      /\ Greeting(md, u, s)
  BY GoodParts
<1>2. /\ Asked(m, c, s) /\ m \in Range(u) /\ Range(t) \subseteq Range(u)
      /\ \A x \in Range(t) : Precedes(m, x, u) /\ Asked(x, c, s)
  BY <1>1, UpTail
<1>3. s.stage = "greeted" /\ md # "greet"
  BY <1>1, <1>2 DEF Asked, Greeting
<1>4. ASSUME NEW x \in Range(t) PROVE x.name # "hello"
  <2>1. Precedes(m, x, u) /\ x \in Range(u) /\ m \in Range(u)
    BY <1>2
  <2>2. QED
    BY <1>1, <2>1 DEF Outgoing
<1>11. ASSUME t # <<>> PROVE Begun(Head(t), s)
  <2>1. Head(t).name \in Inner => m.name = Before(Head(t).name)
    BY <1>1, <1>11, NextUp
  <2>2. Head(t).name \notin Inner
    BY <2>1 DEF Inner, Before
  <2>3. QED
    BY <2>2 DEF Begun
<1>12. ~f => s.emulating = {}
  <2>1. ~f => \A d \in s.emulating : m.name \in Inner
    BY <1>1, NextUp
  <2>2. QED
    BY <2>1 DEF Inner
<1>13. ~f => \A d \in s.emulating : t # <<>> /\ Head(t).name \in Inner /\ Head(t).dev = d
  BY <1>12
<1>14. /\ Count(u, "pong") = Count(t, "pong")
       /\ Count(u, "frame") = Count(t, "frame") /\ Count(t, "frame") \in Nat
  <2>1. u \in Seq(MessageType) /\ m.name # "pong" /\ m.name # "frame"
    BY <1>1
  <2>2. QED
    BY <2>1, CountsTail
<1>15. s.met \in Nat
  BY <1>1, SvType
<1>16. /\ s.pings + Count(u, "pong") = s.pings + Count(t, "pong")
       /\ s.met + Count(t, "frame") <= s.met + Count(u, "frame")
       /\ s.met + Count(t, "frame") = s.met + Count(u, "frame")
  BY <1>14, <1>15
<1>17. Good(md, c, q, t, s, f, k)
  BY <1>1, <1>2, <1>11, <1>13, <1>16, TakeRest
<1>18. QED
  BY <1>3, <1>4, <1>17

\* What the server answers a greeting with.
LEMMA WelcomeIs ==
    ASSUME NEW ms, ms = <<Serial("connection", NoDevice, 1), Plain("seat_done")>>
    PROVE  /\ ms \in Seq(MessageType) /\ Count(ms, "ping") = 0
           /\ \A m \in Range(ms) : \/ m.name = "seat_done" /\ m \in MessageType
                                   \/ /\ m.name = "connection" /\ m \in MessageType
                                      /\ m.serial = 1
           /\ \E m \in Range(ms) : m.name = "connection" /\ m.serial = 1
           /\ \A x, y : Precedes(x, y, ms) => y.name = "seat_done"
<1>1. PICK a, b : a = Serial("connection", NoDevice, 1) /\ b = Plain("seat_done")
  OBVIOUS
<1>2. a \in MessageType /\ a.name = "connection" /\ a.serial = 1
  BY <1>1 DEF Serial, Message, MessageType, Events
<1>3. b \in MessageType /\ b.name = "seat_done"
  BY <1>1, PlainType DEF Events
<1>4. PICK p, r : p = <<a>> /\ r = <<b>>
  OBVIOUS
<1>5. p \in Seq(MessageType) /\ r \in Seq(MessageType) /\ ms = p \o r
  BY <1>1, <1>2, <1>3, <1>4
<1>6. Range(p) = {a} /\ Range(r) = {b}
  BY <1>4, RangeOne
<1>7. Range(p \o r) = Range(p) \cup Range(r) /\ p \o r \in Seq(MessageType)
  BY <1>5, RangeOn, ConcatAt
<1>8. Range(ms) = {a, b} /\ ms \in Seq(MessageType)
  BY <1>5, <1>6, <1>7
<1>9. Count(ms, "ping") = 0
  BY <1>2, <1>3, <1>8, CountNone
<1>10. ASSUME NEW x, NEW y, Precedes(x, y, ms) PROVE y.name = "seat_done"
  <2>1. ~Precedes(x, y, p) /\ ~Precedes(x, y, r)
    BY <1>4, SingleOn
  <2>2. Precedes(x, y, p \o r)
    BY <1>5, <1>10
  <2>3. y \in Range(r)
    BY <1>5, <2>1, <2>2, PrecedesOn
  <2>4. QED
    BY <1>3, <1>6, <2>3
<1>11. QED
  BY <1>2, <1>3, <1>8, <1>9, <1>10

Seated(s) == [s EXCEPT !.stage = "seat"]
Welcome == <<Serial("connection", NoDevice, 1), Plain("seat_done")>>

\* It reads the greeting and says what it has to offer.
LEMMA TakeHello ==
    ASSUME NEW md, NEW c, NEW q, NEW u, NEW s, NEW f, NEW k \in Nat,
           Good(md, c, q, u, s, f, k), s.open, u # <<>>, NEW t, t = Tail(u),
           NEW m, m = Head(u), m.name = "hello",
           NEW z, z = Seated(s), NEW ms, ms = Welcome
    PROVE  Good(md, c, q \o ms, t, z, f, k) /\ z.open /\ ms \in Seq(MessageType)
<1>1. /\ Good(md, c, q, t, s, f, k) /\ s.stage = "greeted" /\ md # "greet"
      /\ \A x \in Range(t) : x.name # "hello"
  BY HelloGone
<1>0. z = [s EXCEPT !.stage = "seat"]
  BY DEF Seated
<1> USE <1>0
<1>2. /\ Knows(c, s, k) /\ Serves(s, c) /\ Incoming(q, c, s) /\ Outgoing(t, c, s)
      /\ Whole(t, s, f) /\ Counted(q, t, s, f, k) /\ Coming(c, q, s)
  BY <1>1 DEF Good
<1>3. /\ z.stage = "seat" /\ z.open = s.open /\ z.mapped = s.mapped
      /\ z.serial = s.serial /\ z.announced = s.announced /\ z.gone = s.gone
      /\ z.pings = s.pings /\ z.heard = s.heard
      /\ z.seqs = s.seqs /\ z.emulating = s.emulating /\ z.held = s.held
      /\ z.met = s.met /\ z.bad = s.bad
  BY <1>2 DEF Serves
<1>4. s.serial = 1 /\ s.announced = {} /\ s.pings \in Nat
  BY <1>1, <1>2, SvType DEF Serves
<1>5. Serves(z, c)
  BY <1>1, <1>2, <1>4 DEF Serves
<1>6. Knows(c, z, k)
  BY <1>2, <1>3 DEF Knows
<1>7. /\ ms \in Seq(MessageType) /\ Count(ms, "ping") = 0
      /\ \A x \in Range(ms) : \/ x.name = "seat_done" /\ x \in MessageType
                              \/ /\ x.name = "connection" /\ x \in MessageType
                                 /\ x.serial = 1
      /\ \E x \in Range(ms) : x.name = "connection" /\ x.serial = 1
      /\ \A x, y : Precedes(x, y, ms) => y.name = "seat_done"
  BY WelcomeIs DEF Welcome
<1>8. \A x : Told(x, s) => Told(x, z)
  BY <1>1, <1>3 DEF Told
<1>9. ASSUME NEW x \in Range(ms) PROVE Told(x, z) /\ (x.name \in Dated => s.serial <= x.serial)
  <2>1. CASE x.name = "seat_done" /\ x \in MessageType
    BY <1>3, <2>1 DEF Told, Dated, Events
  <2>2. CASE x.name = "connection" /\ x \in MessageType /\ x.serial = 1
    BY <1>3, <1>4, <2>2 DEF Told, Dated, Events
  <2>3. QED
    BY <1>7, <2>1, <2>2
<1>10. \A x, y : Precedes(x, y, ms) => ~(x.name \in Dated /\ y.name \in Dated)
  BY <1>7 DEF Dated
<1>11. Incoming(q \o ms, c, z)
  BY <1>2, <1>7, <1>8, <1>9, <1>10, IncomingMore
<1>12. Announces(ms, s, z)
  <2>1. \E x \in Range(ms) : x.name \in Dated /\ x.serial = z.serial
    BY <1>3, <1>4, <1>7 DEF Dated
  <2>2. QED
    BY <1>3, <2>1 DEF Announces
<1>13. q \in Seq(MessageType)
  BY <1>2 DEF Incoming
<1>14. Coming(c, q \o ms, z)
  BY <1>2, <1>7, <1>12, <1>13, ComingMore
<1>15. Outgoing(t, c, z)
  <2>1. \A x \in Range(t) : Asked(x, c, z)
    BY <1>1, <1>2, <1>3 DEF Outgoing, Asked
  <2>2. t # <<>> => Begun(Head(t), z)
    BY <1>2, <1>3 DEF Outgoing, Begun
  <2>3. QED
    BY <1>2, <1>3, <2>1, <2>2 DEF Outgoing
<1>16. Whole(t, z, f)
  BY <1>2, <1>3 DEF Whole
<1>17. Count(q \o ms, "ping") = Count(q, "ping")
  BY <1>7, <1>13, QuietMore
<1>18. Counted(q \o ms, t, z, f, k)
  BY <1>2, <1>3, <1>17 DEF Counted
<1>19. Greeting(md, t, z)
  BY <1>1 DEF Greeting
<1>20. QED
  BY <1>3, <1>5, <1>6, <1>7, <1>11, <1>14, <1>15, <1>16, <1>18, <1>19 DEF Good

Shut(s) == [s EXCEPT !.open = FALSE]
Refused(s) == [s EXCEPT !.bad = TRUE, !.open = FALSE]

\* The server ends the connection: of its own, or because of a message.
LEMMA GoodClosed ==
    ASSUME NEW md, NEW c, NEW q, NEW u, NEW s, NEW f, NEW k \in Nat,
           Good(md, c, q, u, s, f, k), NEW z,
           z = Shut(s) \/ (z = Refused(s) /\ f)
    PROVE  Good(md, c, q, <<>>, z, f, k) /\ ~z.open
<1>0. \/ z = [s EXCEPT !.open = FALSE]
      \/ z = [s EXCEPT !.bad = TRUE, !.open = FALSE] /\ f
  BY DEF Shut, Refused
<1> USE <1>0
<1>1. /\ Knows(c, s, k) /\ Serves(s, c) /\ Incoming(q, c, s) /\ Outgoing(u, c, s)
      /\ Whole(u, s, f) /\ Counted(q, u, s, f, k) /\ Coming(c, q, s) /\ Greeting(md, u, s)
  BY DEF Good
<1>2. /\ z.stage = s.stage /\ ~z.open /\ z.mapped = s.mapped
      /\ z.serial = s.serial /\ z.announced = s.announced /\ z.gone = s.gone
      /\ z.pings = s.pings /\ z.heard = s.heard
      /\ z.seqs = s.seqs /\ z.emulating = s.emulating /\ z.held = s.held
      /\ z.met = s.met
  BY <1>1 DEF Serves
<1>3. z.bad => f
  BY <1>1 DEF Serves, Whole
<1>4. Serves(z, c)
  BY <1>1 DEF Serves
<1>5. Knows(c, z, k)
  BY <1>1, <1>2 DEF Knows
<1>6. ASSUME NEW y, Told(y, s) PROVE Told(y, z)
  BY <1>2, <1>6 DEF Told
<1>7. Incoming(q, c, z)
  BY <1>1, <1>6 DEF Incoming
<1>8. Coming(c, q, z)
  BY <1>1, <1>2 DEF Coming
<1>9. Range(<<>>) = {} /\ <<>> \in Seq(MessageType)
  BY RangeNone
<1>10. Outgoing(<<>>, c, z) /\ Greeting(md, <<>>, z) /\ Whole(<<>>, z, f)
  <2>1. Outgoing(<<>>, c, z)
    BY <1>9 DEF Outgoing
  <2>2. Whole(<<>>, z, f)
    BY <1>2, <1>3 DEF Whole
  <2>3. Greeting(md, <<>>, z)
    BY <1>1, <1>2, <1>9 DEF Greeting
  <2>4. QED
    BY <2>1, <2>2, <2>3
<1>11. /\ Count(<<>>, "pong") = 0 /\ Count(<<>>, "frame") = 0
       /\ Count(u, "pong") \in Nat /\ Count(u, "frame") \in Nat /\ Count(q, "ping") \in Nat
       /\ s.pings \in Nat /\ s.met \in Nat
  <2>1. Count(<<>>, "pong") = 0 /\ Count(<<>>, "frame") = 0
    BY CountFew
  <2>2. u \in Seq(MessageType) /\ q \in Seq(MessageType)
    BY <1>1 DEF Incoming, Outgoing
  <2>3. Count(u, "pong") \in Nat /\ Count(u, "frame") \in Nat /\ Count(q, "ping") \in Nat
    BY <2>2, CountOn
  <2>4. s.pings \in Nat /\ s.met \in Nat
    BY <1>1, SvType
  <2>5. QED
    BY <2>1, <2>3, <2>4
<1>12. /\ Count(q, "ping") + Count(<<>>, "pong") <= s.pings
       /\ s.met + Count(<<>>, "frame") <= k
  <2>1. Count(q, "ping") + Count(u, "pong") <= s.pings /\ s.met + Count(u, "frame") <= k
    BY <1>1 DEF Counted
  <2>2. QED
    BY <1>11, <2>1
<1>13. Counted(q, <<>>, z, f, k)
  BY <1>2, <1>12 DEF Counted
<1>14. QED
  BY <1>2, <1>4, <1>5, <1>7, <1>8, <1>10, <1>13 DEF Good

\* The server has read a message or has ended the connection.
LEMMA Taken ==
    ASSUME EInv, mode' = mode, cl' = cl, buf' = buf, failed' = failed, calls' = calls,
           down' \in Seq(MessageType), sv.open,
           Good(mode, cl, buf \o down', up', sv', failed, calls)
    PROVE  EInv'
<1>1. Behind(mode, buf, sv, failed) /\ buf \in Seq(MessageType)
  BY EInvIs
<1>2. Behind(mode', buf', sv', failed')
  BY <1>1 DEF Behind
<1>3. Good(mode', cl', buf' \o down', up', sv', failed', calls')
  OBVIOUS
<1>4. /\ mode' \in {"greet", "tree", "ready", "failed", "closed"}
      /\ failed' \in BOOLEAN /\ calls' \in 0..MaxCalls
      /\ buf' \in Seq(MessageType) /\ down' \in Seq(MessageType)
  BY <1>1 DEF EInv
<1>5. QED
  BY <1>2, <1>3, <1>4 DEF EInv

\* Unless something failed, the server can accept what comes first.
LEMMA Accepted ==
    ASSUME EInv, sv.open, up # <<>>, NEW m, m = Head(up), m.dev \notin sv.gone,
           ~failed
    PROVE  Acceptable(m)
<1>1. /\ Knows(cl, sv, calls) /\ Serves(sv, cl) /\ Outgoing(up, cl, sv)
      /\ Whole(up, sv, failed)
  BY EInvIs DEF Good
<1>2. Asked(m, cl, sv) /\ Begun(m, sv) /\ m \in Range(up)
  BY <1>1, UpTail
<1>3. CASE m.name = "start"
  <2>1. \A d \in sv.emulating : m.name \in Inner
    <3>1. PICK t : t = Tail(up)
      OBVIOUS
    <3>2. QED
      BY <1>1, <3>1, NextUp
  <2>2. m.dev \notin sv.emulating
    BY <1>3, <2>1 DEF Inner
  <2>3. /\ m.dev \in Devices /\ m.seq \in Nat /\ m.serial \in Nat
        /\ sv.seqs[m.dev] < m.seq /\ sv.heard <= m.serial /\ m.serial <= cl.serial
    BY <1>2, <1>3 DEF Asked, Framed, MessageType
  <2>4. cl.serial \in 0..sv.serial /\ sv.serial \in Nat /\ sv.heard \in Nat
        /\ sv.seqs[m.dev] \in Nat
    BY <1>1, <2>3, SvType DEF Knows
  <2>5. m.serial \in sv.heard..sv.serial
    BY <2>3, <2>4
  <2>6. m.seq > sv.seqs[m.dev]
    BY <2>3, <2>4
  <2>7. QED
    BY <1>3, <2>2, <2>5, <2>6 DEF Acceptable
<1>4. CASE m.name = "event"
  BY <1>2, <1>4 DEF Acceptable, Asked, Begun, Inner
<1>5. CASE m.name \in {"frame", "stop"}
  BY <1>2, <1>5 DEF Acceptable, Begun, Inner
<1>6. CASE m.name \notin {"start", "event", "frame", "stop"}
  <2>1. m.name # "cut"
    BY <1>1, <1>2 DEF Whole
  <2>2. QED
    BY <1>6, <2>1 DEF Acceptable
<1>7. QED
  BY <1>3, <1>4, <1>5, <1>6

\* The server reads a message, whichever it is.
LEMMA TakeStep ==
    ASSUME EInv, Take
    PROVE  EInv'
<1> DEFINE q == buf \o down
           t == Tail(up)
<1>1. PICK m : m = Head(up)
  OBVIOUS
<1>2. /\ sv.open /\ up # <<>>
      /\ sv' = CASE m.dev \in sv.gone -> sv
                 [] m.dev \notin sv.gone /\ (m.dev \in sv.gone \/ Acceptable(m)) -> After(m)
                 [] OTHER -> [sv EXCEPT !.bad = TRUE, !.open = FALSE]
      /\ up' = (IF sv'.open THEN t ELSE <<>>)
      /\ m.name = "hello" =>
           down' = down \o <<Serial("connection", NoDevice, 1), Plain("seat_done")>>
      /\ m.name # "hello" => down' = down
      /\ mode' = mode /\ cl' = cl /\ buf' = buf /\ failed' = failed /\ calls' = calls
  BY <1>1 DEF Take
<1>3. /\ Good(mode, cl, q, up, sv, failed, calls) /\ calls \in Nat
      /\ failed \in BOOLEAN /\ down \in Seq(MessageType) /\ buf \in Seq(MessageType)
      /\ Serves(sv, cl)
  BY EInvIs
<1>4. Outgoing(up, cl, sv) /\ Whole(up, sv, failed)
  BY <1>3 DEF Good
<1>5. Asked(m, cl, sv) /\ Begun(m, sv) /\ m.name \in Requests
  <2>1. Asked(m, cl, sv) /\ Begun(m, sv)
    BY <1>1, <1>2, <1>4, UpTail
  <2>2. QED
    BY <2>1 DEF Asked
<1>11. sv.open /\ up # <<>> /\ m = Head(up) /\ t = Tail(up)
  BY <1>1, <1>2
<1>12. Good(mode, cl, q, up, sv, failed, calls) /\ calls \in Nat
  BY <1>3
<1> HIDE DEF q, t
<1>6. ASSUME down' = down, Good(mode, cl, q, up', sv', failed, calls)
      PROVE  EInv'
  BY <1>2, <1>3, <1>6, Taken DEF q
<1>7. CASE m.dev \in sv.gone
  <2>1. sv' = sv
    BY <1>2, <1>7
  <2>2. Good(mode, cl, q, t, sv, failed, calls) /\ m.name # "hello"
    BY <1>11, <1>12, <1>7, TakeGone, Zenon
  <2>3. up' = t /\ down' = down
    BY <1>2, <2>1, <2>2
  <2>4. QED
    BY <1>6, <2>1, <2>2, <2>3
<1>8. CASE m.dev \notin sv.gone /\ ~Acceptable(m)
  <2>1. sv' = Refused(sv)
    BY <1>2, <1>8 DEF Refused
  <2>2. failed
    BY <1>1, <1>2, <1>8, Accepted
  <2>3. Good(mode, cl, q, <<>>, sv', failed, calls) /\ ~sv'.open
    BY <1>12, <2>1, <2>2, GoodClosed, Zenon
  <2>4. up' = <<>>
    BY <1>2, <2>3
  <2>5. CASE m.name = "hello"
    BY <1>8, <2>5 DEF Acceptable
  <2>6. CASE m.name # "hello"
    BY <1>2, <1>6, <2>3, <2>4, <2>6
  <2>7. QED
    BY <2>5, <2>6
<1>9. CASE m.dev \notin sv.gone /\ Acceptable(m)
  <2>1. sv' = After(m)
    BY <1>2, <1>9
  <2>2. m.name # "cut"
    BY <1>9 DEF Acceptable
  <2>3. ASSUME m.name # "hello", NEW z, sv' = z, Good(mode, cl, q, t, z, failed, calls), z.open
        PROVE  EInv'
    BY <1>2, <1>6, <2>3
  <2>4. CASE m.name = "bind"
    <3>1. PICK z : z = Bound(sv)
      OBVIOUS
    <3>2. sv' = z
      BY <2>1, <2>4, <3>1 DEF After, Bound
    <3>3. Good(mode, cl, q, t, z, failed, calls) /\ z.open
      BY <1>11, <1>12, <2>4, <3>1, TakeBind, Zenon
    <3>4. QED
      BY <2>3, <2>4, <3>2, <3>3
  <2>5. CASE m.name = "hello"
    <3>1. PICK z, ms : z = Seated(sv) /\ ms = Welcome
      OBVIOUS
    <3>2. sv' = z /\ down' = down \o ms
      BY <1>2, <2>1, <2>5, <3>1 DEF After, Seated, Welcome
    <3>3. Good(mode, cl, q \o ms, t, z, failed, calls) /\ z.open /\ ms \in Seq(MessageType)
      BY <1>11, <1>12, <2>5, <3>1, TakeHello, Zenon
    <3>4. up' = t
      BY <1>2, <3>2, <3>3
    <3>5. (buf \o down) \o ms = buf \o (down \o ms)
      BY <1>3, <3>3, ConcatAssociative
    <3>6. down' \in Seq(MessageType)
      BY <1>3, <3>2, <3>3, ConcatAt
    <3>7. Good(mode, cl, buf \o down', up', sv', failed, calls)
      BY <3>2, <3>3, <3>4, <3>5 DEF q
    <3>8. QED
      BY <1>2, <3>6, <3>7, Taken
  <2>6. CASE m.name = "pong"
    <3>1. PICK z : z = Ponged(sv)
      OBVIOUS
    <3>2. sv' = z
      BY <2>1, <2>6, <3>1 DEF After, Ponged
    <3>3. Good(mode, cl, q, t, z, failed, calls) /\ z.open
      BY <1>11, <1>12, <2>6, <3>1, TakePong, Zenon
    <3>4. QED
      BY <2>3, <2>6, <3>2, <3>3
  <2>7. CASE m.name = "start"
    <3>1. PICK z : z = Starts(sv, m)
      OBVIOUS
    <3>2. sv' = z
      BY <2>1, <2>7, <3>1 DEF After, Starts
    <3>3. Good(mode, cl, q, t, z, failed, calls) /\ z.open
      BY <1>11, <1>12, <1>9, <2>7, <3>1, TakeStart, Zenon
    <3>4. QED
      BY <2>3, <2>7, <3>2, <3>3
  <2>8. CASE m.name = "event"
    <3>1. PICK z : z = Holds(sv, m)
      OBVIOUS
    <3>2. sv' = z
      BY <2>1, <2>8, <3>1 DEF After, Holds
    <3>3. Good(mode, cl, q, t, z, failed, calls) /\ z.open
      BY <1>11, <1>12, <1>9, <2>8, <3>1, TakeEvent, Zenon
    <3>4. QED
      BY <2>3, <2>8, <3>2, <3>3
  <2>9. CASE m.name = "frame"
    <3>1. PICK z : z = Meets(sv, m)
      OBVIOUS
    <3>2. m.dev \in sv.held
      BY <1>5, <1>9, <2>9 DEF Begun, Inner
    <3>3. sv' = z
      BY <2>1, <2>9, <3>1, <3>2 DEF After, Meets
    <3>4. Good(mode, cl, q, t, z, failed, calls) /\ z.open
      BY <1>11, <1>12, <1>9, <2>9, <3>1, <3>2, TakeFrame, Zenon
    <3>5. QED
      BY <2>3, <2>9, <3>3, <3>4
  <2>10. CASE m.name = "stop"
    <3>1. PICK z : z = Stops(sv, m)
      OBVIOUS
    <3>2. sv' = z
      BY <2>1, <2>10, <3>1 DEF After, Stops
    <3>3. Good(mode, cl, q, t, z, failed, calls) /\ z.open
      BY <1>11, <1>12, <1>9, <2>10, <3>1, TakeStop, Zenon
    <3>4. QED
      BY <2>3, <2>10, <3>2, <3>3
  <2>11. CASE m.name = "disconnect"
    <3>1. PICK z : z = Shut(sv)
      OBVIOUS
    <3>2. sv' = z
      BY <2>1, <2>11, <3>1 DEF After, Shut
    <3>3. Good(mode, cl, q, <<>>, z, failed, calls) /\ ~z.open
      BY <1>12, <3>1, GoodClosed, Zenon
    <3>4. up' = <<>> /\ down' = down
      BY <1>2, <2>11, <3>2, <3>3
    <3>5. QED
      BY <1>6, <3>2, <3>3, <3>4
  <2>12. QED
    BY <1>5, <2>2, <2>4, <2>5, <2>6, <2>7, <2>8, <2>9, <2>10, <2>11 DEF Requests
<1>10. QED
  BY <1>7, <1>8, <1>9

-----------------------------------------------------------------------------
(* The client's steps but for its inputs.                                  *)

\* The invariant holds initially.
LEMMA InitStep ==
    ASSUME Init
    PROVE  EInv
<1>1. /\ sv.stage = "new" /\ sv.open = TRUE /\ sv.serial = 1 /\ sv.announced = {}
      /\ sv.gone = {} /\ sv.mapped = FALSE /\ sv.pings = 0 /\ sv.heard = 0
      /\ sv.emulating = {} /\ sv.held = {} /\ sv.met = 0 /\ sv.bad = FALSE
  BY DEF Init
<1>2. /\ buf = <<>> /\ down = <<>> /\ up = <<>> /\ failed = FALSE /\ calls = 0
      /\ mode = "greet" /\ buf \o down = <<>>
  BY DEF Init
<1>3. Knows(cl, sv, 0)
  <2>1. 0 \in 0..1 /\ 0 \in 0..0
    OBVIOUS
  <2>2. cl.seq \in [Devices -> 0..0] /\ cl.sub \in [Devices -> SUBSET Names]
        /\ \A d \in Devices : cl.sub[d] = {}
    BY DEF Init
  <2>3. cl \in [version : BOOLEAN, connected : BOOLEAN, bound : BOOLEAN, keymap : BOOLEAN,
                sub : [Devices -> SUBSET Names], regions : SUBSET sv.announced,
                serial : 0..sv.serial, seq : [Devices -> 0..0],
                keyboard : sv.announced \cup {NoDevice},
                pointer : sv.announced \cup {NoDevice},
                pointer_abs : sv.announced \cup {NoDevice}]
    BY <1>1, <2>1, <2>2 DEF Init
  <2>4. /\ cl.keyboard = NoDevice /\ cl.pointer = NoDevice /\ cl.pointer_abs = NoDevice
        /\ cl.version = FALSE
    BY DEF Init
  <2>5. QED
    BY <2>2, <2>3, <2>4 DEF Knows
<1>4. Serves(sv, cl)
  <2>1. MaxEvents \in Nat
    BY EisAssumption
  <2>2. MaxEvents \in 0..MaxEvents /\ 1 \in 1..MaxEvents + 1 /\ 0 \in 0..MaxEvents
        /\ 1 + MaxEvents <= MaxEvents + 1 /\ 0 + MaxEvents <= MaxEvents /\ 0 \in Nat
    BY <2>1
  <2>3. sv.seqs \in [Devices -> Nat]
    BY DEF Init
  <2>4. sv \in [stage : {"new", "greeted", "seat", "bound"}, open : BOOLEAN,
                spare : 0..MaxEvents, serial : 1..MaxEvents + 1,
                announced : SUBSET Devices, gone : SUBSET Devices, mapped : BOOLEAN,
                pings : 0..MaxEvents, heard : Nat, seqs : [Devices -> Nat],
                emulating : SUBSET Devices, held : SUBSET Devices, met : Nat,
                bad : BOOLEAN]
    BY <2>2, <2>3 DEF Init
  <2>5. sv.heard <= cl.serial /\ \A d \in Devices : sv.seqs[d] <= cl.seq[d]
    BY DEF Init
  <2>6. sv.spare = MaxEvents
    BY DEF Init
  <2>7. QED
    BY <1>1, <2>2, <2>4, <2>5, <2>6 DEF Serves
<1>5. Range(<<>>) = {} /\ <<>> \in Seq(MessageType)
  BY RangeNone
<1>6. Incoming(<<>>, cl, sv) /\ Outgoing(<<>>, cl, sv)
  BY <1>5 DEF Incoming, Outgoing
<1>7. Whole(<<>>, sv, FALSE)
  BY <1>1, <1>5 DEF Whole
<1>8. Counted(<<>>, <<>>, sv, FALSE, 0)
  <2>1. Count(<<>>, "ping") = 0 /\ Count(<<>>, "pong") = 0 /\ Count(<<>>, "frame") = 0
    BY CountFew
  <2>2. QED
    BY <1>1, <2>1 DEF Counted
<1>9. Coming(cl, <<>>, sv) /\ Greeting("greet", <<>>, sv)
  BY <1>1, <1>5 DEF Coming, Greeting
<1>10. Behind(mode, buf, sv, failed) /\ 0 \in 0..MaxCalls
  BY <1>2, EisAssumption DEF Behind
<1>11. Good(mode, cl, buf \o down, up, sv, failed, calls)
  BY <1>2, <1>3, <1>4, <1>6, <1>7, <1>8, <1>9 DEF Good
<1>12. QED
  BY <1>2, <1>5, <1>10, <1>11 DEF EInv

\* The client has got on by itself, without reading.
LEMMA Again ==
    ASSUME EInv, cl' = cl, buf' = buf, down' = down, sv' = sv, calls' = calls,
           failed' \in BOOLEAN, failed => failed',
           mode' \in {"greet", "tree", "ready", "failed", "closed"},
           mode' \in {"greet", "tree"} => mode = mode',
           Good(mode', cl, buf \o down, up', sv, failed', calls)
    PROVE  EInv'
<1>1. /\ Behind(mode, buf, sv, failed) /\ buf \in Seq(MessageType) /\ down \in Seq(MessageType)
      /\ calls \in 0..MaxCalls
  BY EInvIs
<1>2. Behind(mode', buf', sv', failed')
  BY <1>1 DEF Behind
<1>3. Good(mode', cl', buf' \o down', up', sv', failed', calls')
  OBVIOUS
<1>4. QED
  BY <1>1, <1>2, <1>3 DEF EInv

\* The handshake fails.
LEMMA HandshakeFailsStep ==
    ASSUME EInv, HandshakeFails
    PROVE  EInv'
<1>1. /\ mode' = "failed" /\ cl' = cl /\ buf' = buf /\ down' = down /\ up' = up /\ sv' = sv
      /\ failed' = failed /\ calls' = calls
  BY DEF HandshakeFails
<1>2. Good(mode, cl, buf \o down, up, sv, failed, calls) /\ failed \in BOOLEAN
  BY EInvIs
<1>3. Good("failed", cl, buf \o down, up, sv, failed, calls)
  BY <1>2, GoodLater
<1>4. QED
  BY <1>1, <1>2, <1>3, Again

\* The client closes.
LEMMA CloseStep ==
    ASSUME EInv, Close
    PROVE  EInv'
<1>1. cl' = cl /\ buf' = buf /\ down' = down /\ sv' = sv /\ calls' = calls
  BY DEF Close
<1>2. /\ Good(mode, cl, buf \o down, up, sv, failed, calls) /\ failed \in BOOLEAN
      /\ up \in Seq(MessageType)
  BY EInvIs
<1>3. CASE /\ cl.connected => sv.open
           /\ mode' = "closed" /\ failed' = failed
           /\ Sent(IF cl.connected THEN <<Plain("disconnect")>> ELSE <<>>, FALSE)
  <2>1. CASE cl.connected
    <3>1. PICK p : p = <<Plain("disconnect")>>
      OBVIOUS
    <3>2. p \in Seq(MessageType)
      <4>1. Plain("disconnect") \in MessageType
        BY PlainType DEF Requests
      <4>2. QED
        BY <3>1, <4>1
    <3>3. up' = (up \o p) \o <<>>
      BY <1>3, <2>1, <3>1 DEF Sent
    <3>4. up \o p \in Seq(MessageType)
      BY <1>2, <3>2, ConcatAt
    <3>5. up' = up \o p
      BY <3>3, <3>4
    <3>6. Good(mode, cl, buf \o down, up \o <<Plain("disconnect")>>, sv, failed, calls)
      BY <1>2, <1>3, <2>1, SendMore
    <3>7. Good("closed", cl, buf \o down, up', sv, failed, calls)
      BY <3>1, <3>5, <3>6, GoodLater
    <3>8. QED
      BY <1>1, <1>2, <1>3, <3>7, Again
  <2>2. CASE ~cl.connected
    <3>1. up' = (up \o <<>>) \o <<>>
      BY <1>3, <2>2 DEF Sent
    <3>2. up' = up
      BY <1>2, <3>1
    <3>3. Good("closed", cl, buf \o down, up', sv, failed, calls)
      BY <1>2, <3>2, GoodLater
    <3>4. QED
      BY <1>1, <1>2, <1>3, <3>3, Again
  <2>3. QED
    BY <2>1, <2>2
<1>4. CASE failed' = TRUE /\ mode' = mode /\ up' = up
  <2>1. Good(mode, cl, buf \o down, up', sv, failed', calls)
    BY <1>2, <1>4, GoodLater
  <2>2. mode' \in {"greet", "tree", "ready", "failed", "closed"}
    BY <1>4 DEF EInv
  <2>3. QED
    BY <1>1, <1>2, <1>4, <2>1, <2>2, Again
<1>5. QED
  BY <1>3, <1>4 DEF Close

\* The greeting is a reply.
LEMMA GreetShape ==
    ASSUME NEW a \in PumpType, NEW b, b = Reply(a, "hello")
    PROVE  /\ b \in PumpType /\ b.rest = a.rest
           /\ b.raised = a.raised \/ (b.raised /\ b.unsent)
<1>1. "hello" \in Requests
  BY DEF Requests
<1>2. QED
  BY <1>1, ReplyFacts

\* The greeting after the pump that read the server's version.
LEMMA GreetOne ==
    ASSUME NEW r, NEW u \in Seq(MessageType), NEW s, NEW f \in BOOLEAN, NEW k \in Nat,
           NEW a \in PumpType, a.cl.version, s.open \/ a.room = 0,
           NEW v, v = u \o a.sent, NEW g, g = (f \/ a.unsent), Good("greet", a.cl, r, v, s, g, k),
           NEW b, b = Reply(a, "hello"), NEW w, w = u \o b.sent, NEW z, z = (f \/ b.unsent),
           NEW c, c = b.cl
    PROVE  Good("tree", c, r, w, s, z, k)
<1>1. PICK x : x = a.sent /\ v = u \o x /\ g = (f \/ a.unsent)
  OBVIOUS
<1>2. x \in Seq(MessageType) /\ g \in BOOLEAN /\ v \in Seq(MessageType)
  <2>1. x \in Seq(MessageType) /\ g \in BOOLEAN
    BY <1>1 DEF PumpType
  <2>2. QED
    BY <1>1, <2>1, ConcatAt
<1>3. Good("greet", a.cl, r, v, s, g, k)
  BY <1>1
<1>4. /\ s.stage = "greeted" /\ \A m \in Range(v) : m.name # "hello"
  <2>1. Knows(a.cl, s, k) /\ Greeting("greet", v, s)
    BY <1>3 DEF Good
  <2>2. s.stage # "new"
    BY <2>1 DEF Knows
  <2>3. QED
    BY <2>1, <2>2 DEF Greeting
<1>5. Good("tree", a.cl, r, v, s, g, k)
  BY <1>3, GoodLater
<1>6. "hello" \in Requests
  BY DEF Requests
<1>7. /\ b.cl = a.cl
      /\ \/ /\ a.room > 0 /\ b.sent = a.sent \o <<Plain("hello")>>
            /\ b.unsent = a.unsent
         \/ a.room = 0 /\ b.sent = a.sent /\ b.unsent
  BY <1>6, ReplyFacts
<1>8. CASE a.room > 0 /\ b.sent = a.sent \o <<Plain("hello")>> /\ b.unsent = a.unsent
  <2>1. s.open
    BY <1>8
  <2>2. Good("tree", a.cl, r, v \o <<Plain("hello")>>, s, g, k)
    BY <1>2, <1>4, <1>5, <2>1, SendMore
  <2>3. PICK m : m = Plain("hello")
    OBVIOUS
  <2>4. m \in MessageType
    BY <1>6, <2>3, PlainType
  <2>5. (u \o x) \o <<m>> = u \o (x \o <<m>>)
    BY <1>2, <2>4, SentMore
  <2>6. u \o b.sent = v \o <<m>>
    BY <1>1, <1>8, <2>3, <2>5
  <2>7. QED
    BY <1>1, <1>7, <1>8, <2>2, <2>3, <2>6
<1>9. CASE a.room = 0 /\ b.sent = a.sent /\ b.unsent
  <2>1. Good("tree", a.cl, r, v, s, TRUE, k)
    BY <1>5, GoodLater
  <2>2. QED
    BY <1>1, <1>7, <1>9, <2>1
<1>10. QED
  BY <1>7, <1>8, <1>9

\* A pump on its own.
LEMMA PumpStep ==
    ASSUME EInv, NEW n \in 0..Len(down), NEW room \in Nat, sv.open \/ room = 0,
           NEW a, a = Pumped(buf \o SubSeq(down, 1, n), room)
    PROVE  /\ a \in PumpType /\ SubSeq(down, n + 1, Len(down)) \in Seq(MessageType)
           /\ a.raised => a.unsent \/ ~sv.open
           /\ ~a.raised => a.rest = <<>>
           /\ sv.open \/ a.room = 0
           /\ Good(mode, a.cl, a.rest \o SubSeq(down, n + 1, Len(down)), up \o a.sent, sv,
                   failed \/ a.unsent, calls)
<1>1. /\ buf \in Seq(MessageType) /\ down \in Seq(MessageType) /\ up \in Seq(MessageType)
      /\ Good(mode, cl, buf \o down, up, sv, failed, calls)
      /\ failed \in BOOLEAN /\ calls \in Nat
  BY EInvIs
<1>2. PICK flow, i : flow = buf \o down /\ i = Len(buf) + n
  OBVIOUS
<1>3. /\ flow \in Seq(MessageType) /\ i \in Nat /\ i <= Len(flow)
      /\ SubSeq(flow, 1, i) = buf \o SubSeq(down, 1, n)
      /\ SubSeq(flow, i + 1, Len(flow)) = SubSeq(down, n + 1, Len(down))
  <2>1. n \in 0..Len(down) /\ buf \in Seq(MessageType) /\ down \in Seq(MessageType)
    BY <1>1
  <2>2. QED
    BY <1>2, <2>1, CutFlow
<1>5. PICK h \in 0..i : Pumping(a, h, i, flow, mode, up, sv, failed, calls)
  <2>1. a = Pumped(SubSeq(flow, 1, i), room)
    BY <1>3
  <2>2. Good(mode, cl, flow, up, sv, failed, calls)
    BY <1>1, <1>2
  <2>3. QED
    BY <1>1, <1>3, <2>1, <2>2, PumpAll
<1>6. /\ a \in PumpType /\ (a.raised \/ h = i) /\ (a.raised => a.unsent \/ ~sv.open)
      /\ (sv.open \/ a.room = 0) /\ a.rest = SubSeq(flow, h + 1, i)
      /\ Good(mode, a.cl, SubSeq(flow, h + 1, Len(flow)), up \o a.sent, sv,
              failed \/ a.unsent, calls)
  BY <1>5 DEF Pumping
<1>7. /\ a.rest \o SubSeq(down, n + 1, Len(down)) = SubSeq(flow, h + 1, Len(flow))
      /\ h = i => a.rest = <<>>
  <2>1. /\ SubSeq(flow, h + 1, i) \o SubSeq(flow, i + 1, Len(flow)) =
              SubSeq(flow, h + 1, Len(flow))
        /\ h = i => SubSeq(flow, h + 1, i) = <<>>
    BY <1>3, <1>5, LeftOn
  <2>2. QED
    BY <1>3, <1>6, <2>1
<1>8. SubSeq(down, n + 1, Len(down)) \in Seq(MessageType)
  <2>1. n \in Nat /\ Len(down) \in Nat
    BY <1>1
  <2>2. \A j \in n + 1..Len(down) : down[j] \in MessageType
    BY <1>1, <2>1
  <2>3. QED
    BY <2>1, <2>2, SubSeqProperties
<1>9. QED
  BY <1>6, <1>7, <1>8

\* What a pump has sent and left behind, and what became of the handshake.
LEMMA PumpEnds ==
    ASSUME EInv, NEW b \in PumpType, NEW md,
           Good(md, b.cl, b.rest \o down', up \o b.sent, sv, failed \/ b.unsent, calls),
           b.raised => b.unsent \/ ~sv.open, ~b.raised => b.rest = <<>>,
           cl' = b.cl, buf' = b.rest, down' \in Seq(MessageType),
           NEW torn, torn => b.unsent /\ sv.open, Sent(b.sent, torn),
           failed' = (failed \/ b.unsent), sv' = sv, calls' = calls,
           mode' \in {"greet", "tree", "ready", "failed", "closed"},
           mode' = md \/ mode' # "greet", mode' \in {"greet", "tree"} => ~b.raised
    PROVE  EInv'
<1>1. /\ up \in Seq(MessageType) /\ failed \in BOOLEAN /\ calls \in Nat
      /\ calls \in 0..MaxCalls
  BY EInvIs
<1>2. /\ b.sent \in Seq(MessageType) /\ b.unsent \in BOOLEAN /\ b.rest \in Seq(MessageType)
  BY DEF PumpType
<1>3. PICK g, q, v, c : /\ g = failed' /\ q = b.rest \o down' /\ v = up \o b.sent
                        /\ c = b.cl
  OBVIOUS
<1>4. g \in BOOLEAN /\ v \in Seq(MessageType)
  <2>1. g \in BOOLEAN
    BY <1>1, <1>2, <1>3
  <2>2. QED
    BY <1>1, <1>2, <1>3, <2>1, ConcatAt
<1>5. Good(md, c, q, v, sv, g, calls)
  BY <1>3
<1>6. Good(md, c, q, up', sv, g, calls)
  <2>1. up' = v \o (IF torn THEN <<Plain("cut")>> ELSE <<>>)
    BY <1>3 DEF Sent
  <2>2. CASE torn
    <3>1. sv.open /\ g
      BY <1>3, <2>2
    <3>2. Good(md, c, q, v \o <<Plain("cut")>>, sv, g, calls)
      BY <1>4, <1>5, <3>1, SendMore
    <3>3. QED
      BY <2>1, <2>2, <3>2
  <2>3. CASE ~torn
    <3>1. up' = v
      BY <1>4, <2>1, <2>3
    <3>2. QED
      BY <1>5, <3>1
  <2>4. QED
    BY <2>2, <2>3
<1>7. PICK w, mo : w = up' /\ mo = mode'
  OBVIOUS
<1>8. Good(mo, c, q, w, sv, g, calls)
  <2>1. Good(md, c, q, w, sv, g, calls) /\ (mo = md \/ mo # "greet")
    BY <1>6, <1>7
  <2>2. QED
    BY <2>1, GoodLater
<1>9. Good(mode', cl', buf' \o down', up', sv', failed', calls')
  BY <1>3, <1>7, <1>8
<1>10. Behind(mode', buf', sv', failed')
  <2>1. mode' \in {"greet", "tree"} => buf' = <<>>
    OBVIOUS
  <2>2. ~failed' /\ sv'.open => buf' = <<>>
    OBVIOUS
  <2>3. QED
    BY <2>1, <2>2 DEF Behind
<1>11. failed' \in BOOLEAN /\ calls' \in 0..MaxCalls /\ buf' \in Seq(MessageType)
  BY <1>1, <1>2, <1>3, <1>4
<1>12. QED
  BY <1>9, <1>10, <1>11 DEF EInv

\* A pump, with or without the greeting.
LEMMA ReceiveStep ==
    ASSUME EInv, Receive
    PROVE  EInv'
<1>1. PICK n \in 0..Len(down), room \in (IF sv.open THEN 0..2 ELSE {0}) :
         LET a == Pumped(buf \o SubSeq(down, 1, n), room)
             greet == mode = "greet" /\ a.cl.version /\ ~a.raised
             b == IF greet THEN Reply(a, "hello") ELSE a
         IN  /\ cl' = b.cl
             /\ buf' = Leftover(b)
             /\ down' = SubSeq(down, n + 1, Len(down))
             /\ \E torn \in {FALSE, b.unsent /\ sv.open} : Sent(b.sent, torn)
             /\ failed' = (failed \/ b.unsent)
             /\ mode' = CASE Handshaking /\ b.raised -> "failed"
                          [] greet /\ ~b.raised -> "tree"
                          [] mode = "tree" /\ ~b.raised /\ Complete(b.cl) -> "ready"
                          [] OTHER -> mode
  BY DEF Receive
<1>2. sv' = sv /\ calls' = calls
  BY DEF Receive
<1>3. room \in Nat /\ (sv.open \/ room = 0)
  OBVIOUS
<1>4. PICK a : a = Pumped(buf \o SubSeq(down, 1, n), room)
  OBVIOUS
<1>5. /\ a \in PumpType /\ SubSeq(down, n + 1, Len(down)) \in Seq(MessageType)
      /\ a.raised => a.unsent \/ ~sv.open
      /\ ~a.raised => a.rest = <<>>
      /\ sv.open \/ a.room = 0
      /\ Good(mode, a.cl, a.rest \o SubSeq(down, n + 1, Len(down)), up \o a.sent, sv,
              failed \/ a.unsent, calls)
  BY <1>3, <1>4, PumpStep
<1>6. /\ up \in Seq(MessageType) /\ failed \in BOOLEAN /\ calls \in Nat
      /\ mode \in {"greet", "tree", "ready", "failed", "closed"}
  BY EInvIs DEF EInv
<1>7. CASE mode = "greet" /\ a.cl.version /\ ~a.raised
  <2>1. PICK b : b = Reply(a, "hello")
    OBVIOUS
  <2>2. /\ cl' = b.cl /\ buf' = Leftover(b)
        /\ down' = SubSeq(down, n + 1, Len(down))
        /\ \E torn \in {FALSE, b.unsent /\ sv.open} : Sent(b.sent, torn)
        /\ failed' = (failed \/ b.unsent)
    BY <1>1, <1>4, <1>7, <2>1
  <2>3. mode' = CASE Handshaking /\ b.raised -> "failed"
                  [] TRUE /\ ~b.raised -> "tree"
                  [] mode = "tree" /\ ~b.raised /\ Complete(b.cl) -> "ready"
                  [] OTHER -> mode
    BY <1>1, <1>4, <1>7, <2>1
  <2>4. PICK torn : (torn => b.unsent /\ sv.open) /\ Sent(b.sent, torn)
    BY <2>2
  <2>5. PICK r : r = a.rest \o down'
    OBVIOUS
  <2>15. PICK v, g, w, z, c : /\ v = up \o a.sent /\ g = (failed \/ a.unsent)
                              /\ w = up \o b.sent /\ z = (failed \/ b.unsent) /\ c = b.cl
    OBVIOUS
  <2>6. Good("greet", a.cl, r, v, sv, g, calls)
    BY <1>5, <1>7, <2>2, <2>5, <2>15
  <2>7. /\ Good("tree", c, r, w, sv, z, calls)
        /\ b \in PumpType /\ b.rest = a.rest
        /\ b.raised = a.raised \/ (b.raised /\ b.unsent)
    <3>1. /\ up \in Seq(MessageType) /\ failed \in BOOLEAN /\ calls \in Nat
          /\ a \in PumpType /\ a.cl.version /\ (sv.open \/ a.room = 0)
      BY <1>5, <1>6, <1>7
    <3>2. Good("tree", c, r, w, sv, z, calls)
      BY <3>1, <2>1, <2>6, <2>15, GreetOne
    <3>3. b \in PumpType /\ b.rest = a.rest
      BY <3>1, <2>1, GreetShape
    <3>4. b.raised = a.raised \/ (b.raised /\ b.unsent)
      BY <3>1, <2>1, GreetShape
    <3>5. QED
      BY <3>2, <3>3, <3>4
  <2>8. b.raised \in BOOLEAN
    BY <2>7 DEF PumpType
  <2>9. mode' = IF b.raised THEN "failed" ELSE "tree"
    <3>1. Handshaking
      BY <1>7 DEF Handshaking
    <3>2. CASE b.raised
      BY <2>3, <3>1, <3>2
    <3>3. CASE ~b.raised
      BY <1>7, <2>3, <3>1, <3>3
    <3>4. QED
      BY <2>8, <3>2, <3>3
  <2>10. b.rest = <<>> /\ buf' = b.rest /\ down' \in Seq(MessageType)
    BY <1>5, <1>7, <2>2, <2>7 DEF Leftover
  <2>11. b.raised => b.unsent \/ ~sv.open
    BY <1>7, <2>7
  <2>12. Good("tree", b.cl, b.rest \o down', up \o b.sent, sv, failed \/ b.unsent, calls)
    BY <2>5, <2>7, <2>15
  <2>13. /\ mode' \in {"greet", "tree", "ready", "failed", "closed"} /\ mode' # "greet"
         /\ mode' \in {"greet", "tree"} => ~b.raised
    BY <2>9
  <2>14. QED
    BY <1>2, <2>2, <2>4, <2>7, <2>10, <2>11, <2>12, <2>13, PumpEnds
<1>8. CASE ~(mode = "greet" /\ a.cl.version /\ ~a.raised)
  <2>1. /\ cl' = a.cl /\ buf' = Leftover(a)
        /\ down' = SubSeq(down, n + 1, Len(down))
        /\ \E torn \in {FALSE, a.unsent /\ sv.open} : Sent(a.sent, torn)
        /\ failed' = (failed \/ a.unsent)
    BY <1>1, <1>4, <1>8
  <2>2. mode' = CASE Handshaking /\ a.raised -> "failed"
                  [] FALSE /\ ~a.raised -> "tree"
                  [] mode = "tree" /\ ~a.raised /\ Complete(a.cl) -> "ready"
                  [] OTHER -> mode
    BY <1>1, <1>4, <1>8
  <2>3. PICK torn : (torn => a.unsent /\ sv.open) /\ Sent(a.sent, torn)
    BY <2>1
  <2>4. a.raised \in BOOLEAN
    BY <1>5 DEF PumpType
  <2>5. /\ mode' \in {"greet", "tree", "ready", "failed", "closed"}
        /\ mode' = mode \/ mode' # "greet"
        /\ mode' \in {"greet", "tree"} => ~a.raised
    BY <1>6, <2>2, <2>4 DEF Handshaking
  <2>6. buf' = a.rest /\ down' \in Seq(MessageType)
    BY <1>5, <2>1 DEF Leftover
  <2>7. Good(mode, a.cl, a.rest \o down', up \o a.sent, sv, failed \/ a.unsent, calls)
    BY <1>5, <2>1
  <2>8. QED
    BY <1>2, <1>5, <2>1, <2>3, <2>5, <2>6, <2>7, PumpEnds
<1>9. QED
  BY <1>7, <1>8

-----------------------------------------------------------------------------
(* An input: some of the messages of its frame get out.                    *)

\* The messages of an input's frame.
Framing(F, d, i, serial, n) ==
    /\ F \in Seq(MessageType) /\ Len(F) = 4
    /\ F[1].name = "start" /\ F[1].dev = d /\ F[1].serial = serial /\ F[1].seq = n
    /\ F[2].name = "event" /\ F[2].dev = d /\ F[2].iface = i
    /\ F[3].name = "frame" /\ F[3].dev = d
    /\ F[4].name = "stop" /\ F[4].dev = d
    /\ \A j \in 1..4 : F[j] \in MessageType

\* An input's frame is made of them.
LEMMA FrameIs ==
    ASSUME NEW d \in Devices, NEW i \in Names, NEW serial \in Nat, NEW n \in Nat,
           NEW F, F = Frame(d, i, serial, n)
    PROVE  Framing(F, d, i, serial, n)
<1>1. PICK a, b, e, g : /\ a = Message("start", d, "", serial, n)
                        /\ b = Of("event", d, i) /\ e = Serial("frame", d, serial)
                        /\ g = Serial("stop", d, serial)
  OBVIOUS
<1>2. a \in MessageType /\ a.name = "start" /\ a.dev = d /\ a.serial = serial /\ a.seq = n
  BY <1>1 DEF Message, MessageType, Requests
<1>3. b \in MessageType /\ b.name = "event" /\ b.dev = d /\ b.iface = i
  BY <1>1 DEF Of, Message, MessageType, Requests
<1>4. e \in MessageType /\ e.name = "frame" /\ e.dev = d
  BY <1>1 DEF Serial, Message, MessageType, Requests
<1>5. g \in MessageType /\ g.name = "stop" /\ g.dev = d
  BY <1>1 DEF Serial, Message, MessageType, Requests
<1>6. F = <<a, b, e, g>>
  BY <1>1 DEF Frame
<1>7. F[1] = a /\ F[2] = b /\ F[3] = e /\ F[4] = g /\ Len(F) = 4 /\ F \in Seq(MessageType)
  BY <1>2, <1>3, <1>4, <1>5, <1>6
<1>8. QED
  BY <1>2, <1>3, <1>4, <1>5, <1>7 DEF Framing

\* After the first j messages of the frame.
Sending(v, u, j, F, c, s) ==
    /\ Outgoing(v, c, s)
    /\ j = 0 => v = u
    /\ j > 0 => v # <<>> /\ Last(v) = F[j]
    /\ Count(v, "pong") = Count(u, "pong")
    /\ j < 3 => Count(v, "frame") = Count(u, "frame")
    /\ j >= 3 => Count(v, "frame") = Count(u, "frame") + 1

\* One message more of the frame.
LEMMA SendNext ==
    ASSUME NEW d \in Devices, NEW i, NEW serial \in Nat, NEW n \in Nat, NEW F,
           Framing(F, d, i, serial, n), NEW u \in Seq(MessageType), NEW s, NEW c, s.open,
           NEW j \in 0..3, NEW v, Sending(v, u, j, F, c, s), NEW l, l = j + 1,
           s.seqs[d] < n, n <= c.seq[d], s.heard <= serial, serial <= c.serial,
           \A x \in Range(u) : x.name = "start" =>
               x.serial <= serial /\ (x.dev = d => x.seq < n),
           j > 0 => i \in Range(Interfaces[d])
    PROVE  Sending(v \o <<F[l]>>, u, l, F, c, s)
<1>1. Outgoing(v, c, s) /\ v \in Seq(MessageType)
  BY DEF Sending, Outgoing
<1>2. PICK m : m = F[l]
  OBVIOUS
<1>3. l \in 1..4 /\ m \in MessageType
  <2>1. l \in 1..4
    OBVIOUS
  <2>2. QED
    BY <1>2, <2>1 DEF Framing
<1>4. /\ j = 0 => m.name = "start" /\ m.dev = d /\ m.serial = serial /\ m.seq = n
      /\ j = 1 => m.name = "event" /\ m.dev = d /\ m.iface = i
      /\ j = 2 => m.name = "frame" /\ m.dev = d
      /\ j = 3 => m.name = "stop" /\ m.dev = d
  BY <1>2 DEF Framing
<1>5. Asked(m, c, s)
  <2>1. CASE j = 0
    BY <1>3, <1>4, <2>1 DEF Asked, Framed, Requests
  <2>2. CASE j = 1
    BY <1>3, <1>4, <2>2 DEF Asked, Framed, Requests
  <2>3. CASE j = 2
    BY <1>3, <1>4, <2>3 DEF Asked, Framed, Requests
  <2>4. CASE j = 3
    BY <1>3, <1>4, <2>4 DEF Asked, Framed, Requests
  <2>5. QED
    BY <2>1, <2>2, <2>3, <2>4
<1>6. m.name = "start" => \A x \in Range(v) : x.name = "start" =>
          x.serial <= m.serial /\ (x.dev = m.dev => x.seq < m.seq)
  <2>1. m.name = "start" => j = 0
    BY <1>4
  <2>2. j = 0 => v = u
    BY DEF Sending
  <2>3. QED
    BY <1>4, <2>1, <2>2
<1>7. m.name # "hello" /\ m.name # "pong"
  BY <1>4
<1>8. m.name \in Inner => v # <<>> /\ Last(v).name = Before(m.name) /\ Last(v).dev = m.dev
  <2>1. m.name \in Inner => j > 0
    BY <1>4 DEF Inner
  <2>2. j > 0 => v # <<>> /\ Last(v) = F[j]
    BY DEF Sending
  <2>3. j = 1 => F[j].name = "start" /\ F[j].dev = d
    BY DEF Framing
  <2>4. j = 2 => F[j].name = "event" /\ F[j].dev = d
    BY DEF Framing
  <2>5. j = 3 => F[j].name = "frame" /\ F[j].dev = d
    BY DEF Framing
  <2>6. QED
    BY <1>4, <2>1, <2>2, <2>3, <2>4, <2>5 DEF Before
<1>10. Outgoing(v \o <<m>>, c, s) /\ v \o <<m>> # <<>> /\ Last(v \o <<m>>) = m
  BY <1>1, <1>5, <1>6, <1>7, <1>8, OutgoingMore
<1>11. /\ Count(v \o <<m>>, "pong") = Count(v, "pong")
       /\ m.name = "frame" => Count(v \o <<m>>, "frame") = Count(v, "frame") + 1
       /\ m.name # "frame" => Count(v \o <<m>>, "frame") = Count(v, "frame")
  BY <1>1, <1>3, <1>7, CountMore
<1>12. /\ Count(v, "pong") = Count(u, "pong")
       /\ j < 3 => Count(v, "frame") = Count(u, "frame")
       /\ j >= 3 => Count(v, "frame") = Count(u, "frame") + 1
  BY DEF Sending
<1>13. Count(v \o <<m>>, "pong") = Count(u, "pong")
  BY <1>11, <1>12
<1>14. l < 3 => Count(v \o <<m>>, "frame") = Count(u, "frame")
  <2>1. l < 3 => j < 3 /\ m.name # "frame"
    BY <1>4
  <2>2. QED
    BY <1>11, <1>12, <2>1
<1>15. l >= 3 => Count(v \o <<m>>, "frame") = Count(u, "frame") + 1
  <2>1. CASE j = 2
    <3>1. m.name = "frame" /\ Count(v, "frame") = Count(u, "frame")
      BY <1>4, <1>12, <2>1
    <3>2. QED
      BY <1>11, <3>1
  <2>2. CASE j = 3
    <3>1. m.name # "frame" /\ Count(v, "frame") = Count(u, "frame") + 1
      BY <1>4, <1>12, <2>2
    <3>2. QED
      BY <1>11, <3>1
  <2>3. CASE j \in {0, 1}
    BY <2>3
  <2>4. QED
    BY <2>1, <2>2, <2>3
<1>16. l > 0 /\ l # 0
  OBVIOUS
<1>17. Sending(v \o <<m>>, u, l, F, c, s)
  <2>1. Last(v \o <<m>>) = F[l]
    BY <1>2, <1>10
  <2>2. QED
    BY <1>10, <1>13, <1>14, <1>15, <1>16, <2>1 DEF Sending
<1>18. QED
  BY <1>2, <1>17

\* However many of the messages get out.
LEMMA SendFrame ==
    ASSUME NEW d \in Devices, NEW i, NEW serial \in Nat, NEW n \in Nat, NEW F,
           Framing(F, d, i, serial, n), NEW u \in Seq(MessageType), NEW s, NEW c,
           Outgoing(u, c, s), NEW k \in 0..4, k > 0 => s.open,
           s.seqs[d] < n, n <= c.seq[d], s.heard <= serial, serial <= c.serial,
           \A x \in Range(u) : x.name = "start" =>
               x.serial <= serial /\ (x.dev = d => x.seq < n),
           k > 1 => i \in Range(Interfaces[d])
    PROVE  Sending(u \o SubSeq(F, 1, k), u, k, F, c, s)
<1> DEFINE v(j) == u \o SubSeq(F, 1, j)
<1>1. F \in Seq(MessageType) /\ Len(F) = 4
  BY DEF Framing
<1>2. SubSeq(F, 1, 0) = <<>>
  BY SubSeqEmpty
<1>3. Sending(v(0), u, 0, F, c, s)
  <2>1. v(0) = u
    BY <1>2
  <2>2. PICK a : a = v(0)
    OBVIOUS
  <2>3. a = u /\ Outgoing(a, c, s)
    BY <2>1, <2>2
  <2>4. Sending(a, u, 0, F, c, s)
    BY <2>3 DEF Sending
  <2>5. QED
    BY <2>2, <2>4
<1>4. ASSUME NEW j \in 0..3, NEW l \in 1..4, l = j + 1
      PROVE  v(l) = v(j) \o <<F[l]>>
  <2>1. l \in 1..Len(F) /\ l - 1 = j
    BY <1>1, <1>4
  <2>2. SubSeq(F, 1, l) = SubSeq(F, 1, l - 1) \o <<F[l]>>
    <3>1. 1 \in 1..Len(F) /\ l \in 1..Len(F)
      BY <1>1, <2>1
    <3>2. QED
      BY <1>1, <3>1, SubSeqRecursiveSecond
  <2>3. PICK p, m : p = SubSeq(F, 1, j) /\ m = F[l]
    OBVIOUS
  <2>4. p \in Seq(MessageType) /\ m \in MessageType
    <3>0. \A x \in 1..4 : F[x] \in MessageType
      BY DEF Framing
    <3>1. \A x \in 1..j : F[x] \in MessageType
      BY <3>0
    <3>2. p \in Seq(MessageType)
      BY <1>4, <2>3, <3>1, SubSeqProperties
    <3>3. m \in MessageType
      BY <2>3, <3>0
    <3>4. QED
      BY <3>2, <3>3
  <2>5. (u \o p) \o <<m>> = u \o (p \o <<m>>)
    BY <2>4, SentMore
  <2>6. QED
    BY <2>1, <2>2, <2>3, <2>5
<1> HIDE DEF v
<1>5. ASSUME NEW j \in 0..3, NEW l \in 1..4, l = j + 1, Sending(v(j), u, j, F, c, s),
             s.open, j > 0 => i \in Range(Interfaces[d])
      PROVE  Sending(v(l), u, l, F, c, s)
  <2>1. PICK a, b : a = v(j) /\ b = v(l)
    OBVIOUS
  <2>2. b = a \o <<F[l]>> /\ Sending(a, u, j, F, c, s)
    BY <1>4, <1>5, <2>1
  <2>3. Sending(b, u, l, F, c, s)
    BY <1>5, <2>2, SendNext
  <2>4. QED
    BY <2>1, <2>3
<1>6. Sending(v(k), u, k, F, c, s)
  <2>1. k > 0 => Sending(v(1), u, 1, F, c, s)
    BY <1>3, <1>5
  <2>2. k > 1 => Sending(v(2), u, 2, F, c, s)
    BY <1>5, <2>1
  <2>3. k > 2 => Sending(v(3), u, 3, F, c, s)
    BY <1>5, <2>2
  <2>4. k > 3 => Sending(v(4), u, 4, F, c, s)
    BY <1>5, <2>3
  <2>5. k = 0 \/ k = 1 \/ k = 2 \/ k = 3 \/ k = 4
    OBVIOUS
  <2>6. QED
    BY <1>3, <2>1, <2>2, <2>3, <2>4, <2>5
<1>7. QED
  BY <1>6 DEF v

\* A whole frame leaves every frame whole.
LEMMA WholeFrame ==
    ASSUME NEW d, NEW i, NEW serial, NEW n, NEW F, Framing(F, d, i, serial, n),
           NEW u \in Seq(MessageType), NEW s, NEW f, Whole(u, s, f),
           NEW w, w = u \o F
    PROVE  Whole(w, s, f)
<1>1. F \in Seq(MessageType) /\ Len(F) = 4 /\ F # <<>>
  BY DEF Framing
<1>2. Range(F) = {F[j] : j \in 1..4}
  BY <1>1, RangeAt
<1>3. Last(F) = F[4]
  BY <1>1 DEF Last
<1>4. Range(u \o F) = Range(u) \cup Range(F)
  BY <1>1, RangeOn
<1>5. w # <<>> /\ Last(w) = F[4] /\ (u # <<>> => Head(w) = Head(u))
  <2>1. u \o F # <<>> /\ Last(u \o F) = Last(F)
    BY <1>1, EndsOn
  <2>2. u # <<>> => Head(u \o F) = Head(u)
    BY <1>1, EndsOn
  <2>3. QED
    BY <1>3, <2>1, <2>2
<1>6. Head(F) = F[1]
  BY <1>1
<1>7. ASSUME ~f, s.open, NEW m \in Range(w) PROVE m.name # "cut"
  <2>1. CASE m \in Range(u)
    BY <1>7, <2>1 DEF Whole
  <2>2. CASE m \in Range(F)
    <3>1. PICK j \in 1..4 : m = F[j]
      BY <1>2, <2>2
    <3>2. j = 1 \/ j = 2 \/ j = 3 \/ j = 4
      OBVIOUS
    <3>3. QED
      BY <3>1, <3>2 DEF Framing
  <2>3. QED
    BY <1>4, <1>7, <2>1, <2>2
<1>8. ASSUME ~f, s.open, NEW x, NEW y, Follows(x, y, w), x.name \in Outer
      PROVE  y.name \in Inner
  <2>1. Follows(x, y, u \o F)
    BY <1>8
  <2>2. \/ Follows(x, y, u) /\ x \in Range(u) /\ y \in Range(u)
        \/ Follows(x, y, F)
        \/ u # <<>> /\ x = Last(u)
    BY <1>1, <2>1, FollowsOn
  <2>3. CASE Follows(x, y, u) /\ x \in Range(u) /\ y \in Range(u)
    BY <1>8, <2>3 DEF Whole
  <2>4. CASE Follows(x, y, F)
    <3>1. PICK j \in 2..4 : y = F[j]
      <4>1. PICK a, b \in 1..Len(F) : b = a + 1 /\ y = F[b]
        BY <2>4 DEF Follows
      <4>2. b \in 2..4
        BY <1>1, <4>1
      <4>3. QED
        BY <4>1, <4>2
    <3>2. j = 2 \/ j = 3 \/ j = 4
      OBVIOUS
    <3>3. QED
      BY <3>1, <3>2 DEF Framing, Inner
  <2>5. CASE u # <<>> /\ x = Last(u)
    BY <1>8, <2>5 DEF Whole
  <2>6. QED
    BY <2>2, <2>3, <2>4, <2>5
<1>9. Last(w).name \notin Outer
  BY <1>5 DEF Framing, Outer
<1>10. ~f /\ s.open => \A e \in s.emulating : Head(w).name \in Inner /\ Head(w).dev = e
  BY <1>5 DEF Whole
<1>11. s.bad => f
  BY DEF Whole
<1>12. QED
  BY <1>5, <1>7, <1>8, <1>9, <1>10, <1>11 DEF Whole

\* The client with the sequence number of a new frame.
Numbered(c, d) == [c EXCEPT !.seq[d] = @ + 1]

\* What changes of the client, and what not.
LEMMA NumberedIs ==
    ASSUME NEW c \in ClientType, NEW d \in Devices, NEW e, e = Numbered(c, d)
    PROVE  /\ e \in ClientType /\ e.serial = c.serial
           /\ e.seq[d] = c.seq[d] + 1 /\ c.seq[d] \in Nat
           /\ \A x \in Devices : x # d => e.seq[x] = c.seq[x]
           /\ e.sub = c.sub /\ e.regions = c.regions /\ e.version = c.version
           /\ e.keymap = c.keymap /\ e.keyboard = c.keyboard
           /\ e.pointer = c.pointer /\ e.pointer_abs = c.pointer_abs
<1>2. c.seq \in [Devices -> Nat]
  BY DEF ClientType
<1>3. PICK r : r = [c.seq EXCEPT ![d] = @ + 1]
  OBVIOUS
<1>4. r \in [Devices -> Nat] /\ r[d] = c.seq[d] + 1 /\ \A x \in Devices : x # d => r[x] = c.seq[x]
  BY <1>2, <1>3
<1>5. e = [c EXCEPT !.seq = r]
  BY <1>3 DEF Numbered
<1>6. e \in ClientType /\ e.seq = r /\ e.serial = c.serial
  BY <1>4, <1>5 DEF ClientType
<1>7. /\ e.sub = c.sub /\ e.regions = c.regions /\ e.version = c.version
      /\ e.keymap = c.keymap /\ e.keyboard = c.keyboard
      /\ e.pointer = c.pointer /\ e.pointer_abs = c.pointer_abs
  BY <1>5 DEF ClientType
<1>8. QED
  BY <1>2, <1>4, <1>6, <1>7

\* What the client knows stays true.
LEMMA NumberedKnows ==
    ASSUME NEW c, NEW s, NEW k \in Nat, Knows(c, s, k), c \in ClientType, NEW d \in Devices,
           NEW l, l = k + 1
    PROVE  Knows(Numbered(c, d), s, l)
<1>1. PICK e : e = Numbered(c, d)
  OBVIOUS
<1>2. c.seq \in [Devices -> 0..k]
  BY DEF Knows
<1>3. c.seq[d] + 1 \in 0..l /\ \A x \in Devices : c.seq[x] \in 0..l
  BY <1>2
<1>4. PICK r : r = [c.seq EXCEPT ![d] = @ + 1]
  OBVIOUS
<1>5. r \in [Devices -> 0..l]
  BY <1>2, <1>3, <1>4
<1>6. e = [c EXCEPT !.seq = r]
  BY <1>1, <1>4 DEF Numbered
<1>7. e \in [version : BOOLEAN, connected : BOOLEAN, bound : BOOLEAN, keymap : BOOLEAN,
             sub : [Devices -> SUBSET Names], regions : SUBSET s.announced,
             serial : 0..s.serial, seq : [Devices -> 0..l],
             keyboard : s.announced \cup {NoDevice},
             pointer : s.announced \cup {NoDevice},
             pointer_abs : s.announced \cup {NoDevice}]
  BY <1>5, <1>6 DEF Knows
<1>8. /\ e.sub = c.sub /\ e.version = c.version /\ e.keyboard = c.keyboard
      /\ e.pointer = c.pointer /\ e.pointer_abs = c.pointer_abs
  BY <1>1, NumberedIs
<1>9. Knows(e, s, l)
  BY <1>7, <1>8 DEF Knows
<1>10. QED
  BY <1>1, <1>9

\* The frames that are waiting are older than a new one.
LEMMA OlderStarts ==
    ASSUME NEW c \in ClientType, NEW u, NEW s, Outgoing(u, c, s), NEW d \in Devices,
           NEW n, n = c.seq[d] + 1
    PROVE  \A x \in Range(u) : x.name = "start" =>
               x.serial <= c.serial /\ (x.dev = d => x.seq < n)
<1>1. TAKE x \in Range(u)
<1>2. HAVE x.name = "start"
<1>3. Asked(x, c, s)
  BY DEF Outgoing
<1>4. x.serial <= c.serial /\ x.seq <= c.seq[x.dev] /\ x.seq \in Nat
  BY <1>2, <1>3 DEF Asked, MessageType
<1>5. c.seq[d] \in Nat
  BY DEF ClientType
<1>6. x.dev = d => x.seq <= c.seq[d]
  BY <1>4
<1>7. QED
  BY <1>4, <1>5, <1>6

\* What gets out of a frame, sent by the client that has numbered it.
LEMMA FrameGoes ==
    ASSUME NEW c \in ClientType, NEW u, NEW s, Outgoing(u, c, s), Serves(s, c),
           NEW d \in Devices, NEW i \in Names, NEW n, n = c.seq[d] + 1,
           NEW j \in 0..4, j > 0 => s.open, j > 1 => i \in Range(Interfaces[d])
    PROVE  /\ Framing(Frame(d, i, c.serial, n), d, i, c.serial, n)
           /\ Sending(u \o SubSeq(Frame(d, i, c.serial, n), 1, j), u, j,
                      Frame(d, i, c.serial, n), Numbered(c, d), s)
<1>1. PICK e, F : e = Numbered(c, d) /\ F = Frame(d, i, c.serial, n)
  OBVIOUS
<1>2. PICK z : z = c.serial
  OBVIOUS
<1>3. /\ e \in ClientType /\ e.serial = z /\ z \in Nat /\ n \in Nat /\ e.seq[d] = n
      /\ c.seq[d] \in Nat /\ \A x \in Devices : c.seq[x] \in Nat /\ c.seq[x] <= e.seq[x]
  <2>1. c.seq[d] \in Nat /\ \A x \in Devices : c.seq[x] \in Nat
    BY DEF ClientType
  <2>2. z \in Nat
    BY <1>2 DEF ClientType
  <2>3. e \in ClientType /\ e.serial = z /\ e.seq[d] = n
    BY <1>1, <1>2, NumberedIs
  <2>4. ASSUME NEW x \in Devices PROVE c.seq[x] <= e.seq[x]
    <3>1. CASE x = d
      BY <2>1, <2>3, <3>1
    <3>2. CASE x # d
      <4>1. e.seq[x] = c.seq[x]
        BY <1>1, <3>2, NumberedIs
      <4>2. QED
        BY <2>1, <4>1
    <3>3. QED
      BY <3>1, <3>2
  <2>5. QED
    BY <2>1, <2>2, <2>3, <2>4
<1>4. Outgoing(u, e, s)
  <2>1. c.serial <= e.serial
    BY <1>2, <1>3
  <2>2. QED
    BY <1>3, <2>1, OutgoingLater
<1>5. s.seqs[d] < n /\ n <= e.seq[d] /\ s.heard <= z /\ z <= e.serial
  <2>1. s.seqs[d] <= c.seq[d] /\ s.heard <= z /\ s.seqs[d] \in Nat
    BY <1>2 DEF Serves
  <2>2. QED
    BY <1>3, <2>1
<1>6. Framing(F, d, i, z, n)
  <2>1. F = Frame(d, i, z, n)
    BY <1>1, <1>2
  <2>2. QED
    BY <1>3, <2>1, FrameIs
<1>7. \A x \in Range(u) : x.name = "start" => x.serial <= z /\ (x.dev = d => x.seq < n)
  BY <1>2, OlderStarts
<1>8. u \in Seq(MessageType)
  BY DEF Outgoing
<1>9. Sending(u \o SubSeq(F, 1, j), u, j, F, e, s)
  BY <1>3, <1>4, <1>5, <1>6, <1>7, <1>8, SendFrame
<1>10. QED
  BY <1>1, <1>2, <1>6, <1>9

\* An input, but for a message that is cut off.
LEMMA InputGood ==
    ASSUME NEW md, NEW c, NEW q, NEW u, NEW s, NEW f \in BOOLEAN, NEW k \in Nat,
           Good(md, c, q, u, s, f, k), md # "greet",
           NEW d \in Devices, NEW i \in Names, NEW n, n = c.seq[d] + 1,
           NEW j \in 0..4, j > 0 => s.open, j > 1 => i \in Range(Interfaces[d]),
           NEW g \in BOOLEAN, f => g, j < 4 => g, NEW l, l = k + 1
    PROVE  Good(md, Numbered(c, d), q, u \o SubSeq(Frame(d, i, c.serial, n), 1, j), s, g, l)
<1>1. /\ Knows(c, s, k) /\ Serves(s, c) /\ Incoming(q, c, s) /\ Outgoing(u, c, s)
      /\ Whole(u, s, f) /\ Counted(q, u, s, f, k) /\ Coming(c, q, s)
  BY DEF Good
<1>2. c \in ClientType /\ u \in Seq(MessageType) /\ q \in Seq(MessageType)
  BY <1>1, Shapes DEF Outgoing, Incoming
<1>3. PICK e, F, w, z : /\ e = Numbered(c, d) /\ z = c.serial /\ F = Frame(d, i, c.serial, n)
                        /\ w = u \o SubSeq(F, 1, j)
  OBVIOUS
<1>4. Framing(F, d, i, z, n) /\ Sending(w, u, j, F, e, s)
  BY <1>1, <1>2, <1>3, FrameGoes
<1>5. /\ e \in ClientType /\ e.serial = c.serial
      /\ e.sub = c.sub /\ e.regions = c.regions /\ e.keymap = c.keymap
  BY <1>2, <1>3, NumberedIs
<1>6. Knows(e, s, l)
  BY <1>1, <1>2, <1>3, NumberedKnows
<1>7. Serves(s, e)
  <2>1. c.serial <= e.serial
    BY <1>2, <1>5 DEF ClientType
  <2>2. \A x \in Devices : c.seq[x] <= e.seq[x]
    <3>1. TAKE x \in Devices
    <3>2. c.seq[x] \in Nat
      BY <1>2 DEF ClientType
    <3>3. /\ e.seq[d] = c.seq[d] + 1
          /\ x # d => e.seq[x] = c.seq[x]
      BY <1>2, <1>3, NumberedIs
    <3>4. QED
      BY <3>2, <3>3
  <2>3. QED
    BY <1>1, <1>2, <1>5, <2>1, <2>2, ServesLater
<1>8. Incoming(q, e, s) /\ Coming(e, q, s)
  BY <1>1, <1>5 DEF Incoming, Coming
<1>9. Outgoing(w, e, s)
  BY <1>4 DEF Sending
<1>10. Whole(w, s, g)
  <2>1. s.bad => f
    BY <1>1 DEF Whole
  <2>2. CASE g
    BY <2>1, <2>2 DEF Whole
  <2>3. CASE ~g
    <3>1. j = 4
      BY <2>3
    <3>2. w = u \o F
      <4>1. SubSeq(F, 1, 4) = F
        <5>1. F \in Seq(MessageType) /\ Len(F) = 4
          BY <1>4 DEF Framing
        <5>2. QED
          BY <5>1, SubSeqFull
      <4>2. QED
        BY <1>3, <3>1, <4>1
    <3>3. Whole(w, s, f)
      BY <1>1, <1>2, <1>4, <3>2, WholeFrame
    <3>4. f = g
      BY <2>3
    <3>5. QED
      BY <3>3, <3>4
  <2>4. QED
    BY <2>2, <2>3
<1>11. Counted(q, w, s, g, l)
  <2>1. /\ Count(w, "pong") = Count(u, "pong")
        /\ j < 3 => Count(w, "frame") = Count(u, "frame")
        /\ j >= 3 => Count(w, "frame") = Count(u, "frame") + 1
    BY <1>4 DEF Sending
  <2>2. Count(u, "frame") \in Nat
    BY <1>2, CountOn
  <2>3. PICK x, y, m : x = Count(w, "frame") /\ y = Count(u, "frame") /\ m = s.met
    OBVIOUS
  <2>4. m \in Nat
    BY <1>1, <2>3 DEF Serves
  <2>5. /\ m + y <= k
        /\ ~f /\ s.open /\ s.gone = {} => m + y = k
    BY <1>1, <2>3 DEF Counted
  <2>6. m + x <= l
    BY <2>1, <2>2, <2>3, <2>4, <2>5
  <2>7. ~g /\ s.open /\ s.gone = {} => m + x = l
    <3>1. ~g => ~f /\ j = 4
      OBVIOUS
    <3>2. j = 4 => x = y + 1
      BY <2>1, <2>3
    <3>3. QED
      BY <2>2, <2>3, <2>4, <2>5, <3>1, <3>2
  <2>8. /\ Count(q, "ping") + Count(w, "pong") <= s.pings
        /\ ~g /\ s.open => s.pings = Count(q, "ping") + Count(w, "pong")
    BY <1>1, <2>1 DEF Counted
  <2>9. QED
    BY <2>3, <2>6, <2>7, <2>8 DEF Counted
<1>12. Greeting(md, w, s)
  BY DEF Greeting
<1>13. Good(md, e, q, w, s, g, l)
  BY <1>6, <1>7, <1>8, <1>9, <1>10, <1>11, <1>12 DEF Good
<1>14. QED
  BY <1>3, <1>13

\* The device of an input, and the interface it uses.
LEMMA CallIs ==
    ASSUME NEW c, NEW s, NEW k, Knows(c, s, k), Serves(s, c), NEW call \in Inputs,
           NEW d, d = c[call[1]], d # NoDevice
    PROVE  d \in Devices /\ call[2] \in Names
<1>1. s.announced \subseteq Devices
  BY DEF Serves
<1>2. /\ c.keyboard \in Devices \cup {NoDevice}
      /\ c.pointer \in Devices \cup {NoDevice}
      /\ c.pointer_abs \in Devices \cup {NoDevice}
  BY <1>1 DEF Knows
<1>3. call \in Calls
  BY EisAssumption
<1>4. call[1] \in {"pointer", "keyboard", "pointer_abs"} /\ call[2] \in Names
  BY <1>3 DEF Calls, Names
<1>5. d = c.keyboard \/ d = c.pointer \/ d = c.pointer_abs
  BY <1>4
<1>6. QED
  BY <1>2, <1>4, <1>5

\* An input, whatever of it gets out.
LEMMA InputStep ==
    ASSUME EInv, Input
    PROVE  EInv'
<1>1. PICK call \in Inputs, k \in 0..4, torn \in BOOLEAN :
         LET d == cl[call[1]]
             all == IF call[2] \in cl.sub[d] THEN 4 ELSE 1
         IN  /\ d # NoDevice
             /\ call[2] = "ei_pointer_absolute" => d \in cl.regions
             /\ k <= (IF sv.open THEN all ELSE 0)
             /\ torn => k < all /\ sv.open
             /\ cl' = [cl EXCEPT !.seq[d] = @ + 1]
             /\ Sent(SubSeq(Frame(d, call[2], cl.serial, cl.seq[d] + 1), 1, k), torn)
             /\ calls' = calls + 1
             /\ failed' = (failed \/ k < 4)
  BY DEF Input
<1>2. PICK d, i, n, p : /\ d = cl[call[1]] /\ i = call[2] /\ n = cl.seq[d] + 1
                        /\ p = SubSeq(Frame(d, i, cl.serial, n), 1, k)
  OBVIOUS
<1>3. /\ mode = "ready" /\ mode' = mode /\ buf' = buf /\ down' = down /\ sv' = sv
      /\ calls < MaxCalls
  BY DEF Input
<1>4. /\ up \in Seq(MessageType) /\ failed \in BOOLEAN /\ calls \in Nat
      /\ calls \in 0..MaxCalls /\ buf \in Seq(MessageType) /\ down \in Seq(MessageType)
      /\ Behind(mode, buf, sv, failed)
      /\ Good(mode, cl, buf \o down, up, sv, failed, calls)
  BY EInvIs
<1>5. d # NoDevice /\ cl' = Numbered(cl, d) /\ calls' = calls + 1
  BY <1>1, <1>2 DEF Numbered
<1>6. Sent(p, torn) /\ failed' = (failed \/ k < 4)
  BY <1>1, <1>2
<1>7. /\ k <= (IF sv.open THEN IF i \in cl.sub[d] THEN 4 ELSE 1 ELSE 0)
      /\ torn => k < (IF i \in cl.sub[d] THEN 4 ELSE 1) /\ sv.open
  BY <1>1, <1>2
<1>8. Knows(cl, sv, calls) /\ Serves(sv, cl) /\ cl \in ClientType
  BY <1>4, Shapes DEF Good
<1>9. d \in Devices /\ i \in Names
  BY <1>2, <1>5, <1>8, CallIs
<1>10. /\ k > 0 => sv.open
       /\ k > 1 => i \in Range(Interfaces[d])
  <2>1. k > 0 => sv.open
    BY <1>7
  <2>2. k > 1 => i \in cl.sub[d]
    BY <1>7
  <2>3. cl.sub[d] \subseteq Range(Interfaces[d])
    BY <1>8, <1>9 DEF Knows
  <2>4. QED
    BY <2>1, <2>2, <2>3
<1>11. PICK g, l, e : g = failed' /\ l = calls' /\ e = Numbered(cl, d)
  OBVIOUS
<1>12. g \in BOOLEAN /\ (failed => g) /\ (k < 4 => g) /\ l = calls + 1
  BY <1>4, <1>5, <1>6, <1>11
<1>13. Good("ready", cl, buf \o down, up, sv, failed, calls)
  BY <1>3, <1>4
<1>14. Good("ready", e, buf \o down, up \o p, sv, g, l)
  <2>0. PICK q, md, c : q = buf \o down /\ md = "ready" /\ c = cl
    OBVIOUS
  <2>1. Good(md, Numbered(c, d), q, up \o SubSeq(Frame(d, i, c.serial, n), 1, k), sv, g, l)
    <3>1. Good(md, c, q, up, sv, failed, calls) /\ md # "greet"
      BY <1>13, <2>0
    <3>2. n = c.seq[d] + 1
      BY <1>2, <2>0
    <3>3. k \in 0..4
      OBVIOUS
    <3>4. failed \in BOOLEAN /\ calls \in Nat
      BY <1>4
    <3>5. g \in BOOLEAN /\ (failed => g) /\ (k < 4 => g) /\ l = calls + 1
      BY <1>12
    <3>6. QED
      BY <1>9, <1>10, <3>1, <3>2, <3>3, <3>4, <3>5, InputGood
  <2>2. QED
    BY <1>2, <1>11, <2>0, <2>1
<1>15. up \o p \in Seq(MessageType)
  <2>1. Outgoing(up \o p, e, sv)
    BY <1>14 DEF Good
  <2>2. QED
    BY <2>1 DEF Outgoing
<1>16. Good("ready", e, buf \o down, up', sv, g, l)
  <2>1. up' = (up \o p) \o (IF torn THEN <<Plain("cut")>> ELSE <<>>)
    BY <1>6 DEF Sent
  <2>2. PICK v : v = up \o p
    OBVIOUS
  <2>3. CASE torn
    <3>1. sv.open /\ k < 4
      BY <1>7, <2>3
    <3>2. g
      BY <1>12, <3>1
    <3>3. Good("ready", e, buf \o down, v, sv, g, l)
      BY <1>14, <2>2
    <3>4. Good("ready", e, buf \o down, v \o <<Plain("cut")>>, sv, g, l)
      BY <1>12, <3>1, <3>2, <3>3, SendMore
    <3>5. up' = v \o <<Plain("cut")>>
      BY <2>1, <2>2, <2>3
    <3>6. QED
      BY <3>4, <3>5
  <2>4. CASE ~torn
    <3>1. up' = up \o p
      BY <1>15, <2>1, <2>4
    <3>2. QED
      BY <1>14, <3>1
  <2>5. QED
    BY <2>3, <2>4
<1>17. Good(mode', cl', buf' \o down', up', sv', failed', calls')
  BY <1>3, <1>5, <1>11, <1>16
<1>18. Behind(mode', buf', sv', failed')
  BY <1>3, <1>4, <1>6 DEF Behind
<1>19. calls' \in 0..MaxCalls
  BY <1>3, <1>4, <1>5, EisAssumption
<1>20. failed' \in BOOLEAN /\ buf' \in Seq(MessageType) /\ down' \in Seq(MessageType)
  BY <1>3, <1>4, <1>11, <1>12
<1>21. QED
  BY <1>3, <1>17, <1>18, <1>19, <1>20 DEF EInv

-----------------------------------------------------------------------------
(* The theorems.                                                           *)

\* The invariant holds of every behaviour of the connection.
THEOREM EisInvariant == Spec => []EInv
<1>1. Init => EInv
  BY InitStep
<1>2. EInv /\ [Next]_vars => EInv'
  <2>1. SUFFICES ASSUME EInv, [Next]_vars
                 PROVE  EInv'
    OBVIOUS
  <2>2. CASE Receive
    BY <2>1, <2>2, ReceiveStep
  <2>3. CASE HandshakeFails
    BY <2>1, <2>3, HandshakeFailsStep
  <2>4. CASE Input
    BY <2>1, <2>4, InputStep
  <2>5. CASE Close
    BY <2>1, <2>5, CloseStep
  <2>6. CASE SayVersion
    BY <2>1, <2>6, SayVersionStep
  <2>7. CASE SayKeymap
    BY <2>1, <2>7, SayKeymapStep
  <2>8. CASE SayModifiers
    BY <2>1, <2>8, SayModifiersStep
  <2>9. CASE Ping
    BY <2>1, <2>9, PingStep
  <2>10. CASE Leave
    BY <2>1, <2>10, LeaveStep
  <2>11. CASE Take
    BY <2>1, <2>11, TakeStep
  <2>12. ASSUME NEW d \in Devices, Announce(d)
         PROVE  EInv'
    BY <2>1, <2>12, AnnounceStep
  <2>13. ASSUME NEW d \in Devices, Destroy(d)
         PROVE  EInv'
    BY <2>1, <2>13, DestroyStep
  <2>14. CASE UNCHANGED vars
    <3>1. /\ mode' = mode /\ cl' = cl /\ buf' = buf /\ down' = down /\ up' = up /\ sv' = sv
          /\ failed' = failed /\ calls' = calls
      BY <2>14 DEF vars
    <3>2. QED
      BY <2>1, <3>1 DEF EInv
  <2>15. QED
    BY <2>1, <2>2, <2>3, <2>4, <2>5, <2>6, <2>7, <2>8, <2>9, <2>10, <2>11, <2>12, <2>13, <2>14
       DEF Next, Server
<1>3. QED
  BY <1>1, <1>2, PTL DEF Spec

\* The invariant implies the properties.  The types:
LEMMA EisTyped ==
    ASSUME EInv
    PROVE  TypeOK
<1>1. /\ mode \in {"greet", "tree", "ready", "failed", "closed"}
      /\ buf \in Seq(MessageType) /\ down \in Seq(MessageType) /\ up \in Seq(MessageType)
      /\ Good(mode, cl, buf \o down, up, sv, failed, calls)
      /\ Behind(mode, buf, sv, failed)
      /\ failed \in BOOLEAN /\ calls \in Nat /\ calls \in 0..MaxCalls
  BY EInvIs DEF EInv
<1>2. Knows(cl, sv, calls) /\ Serves(sv, cl) /\ Counted(buf \o down, up, sv, failed, calls)
  BY <1>1 DEF Good
<1>3. cl \in ClientType /\ sv.announced \subseteq Devices /\ sv.serial \in Nat
  BY <1>1, <1>2, Shapes
<1>4. 0..calls \subseteq 0..MaxCalls
  BY <1>1, EisAssumption
<1>5. cl.seq \in [Devices -> 0..calls] /\ cl.serial \in 0..sv.serial
  BY <1>2 DEF Knows
<1>6. cl \in [version : BOOLEAN, connected : BOOLEAN, bound : BOOLEAN, keymap : BOOLEAN,
              sub : [Devices -> SUBSET Names], regions : SUBSET sv.announced,
              serial : 0..sv.serial, seq : [Devices -> 0..MaxCalls],
              keyboard : sv.announced \cup {NoDevice},
              pointer : sv.announced \cup {NoDevice},
              pointer_abs : sv.announced \cup {NoDevice}]
  <2>1. cl.seq \in [Devices -> 0..MaxCalls]
    BY <1>4, <1>5
  <2>2. QED
    BY <1>2, <2>1 DEF Knows
<1>7. /\ cl["keyboard"] # NoDevice => "ei_keyboard" \in cl.sub[cl["keyboard"]]
      /\ cl["pointer"] # NoDevice => "ei_pointer" \in cl.sub[cl["pointer"]]
      /\ cl["pointer_abs"] # NoDevice => "ei_pointer_absolute" \in cl.sub[cl["pointer_abs"]]
  BY <1>2 DEF Knows
<1>8. \A use \in {<<"keyboard", "ei_keyboard">>, <<"pointer", "ei_pointer">>,
                  <<"pointer_abs", "ei_pointer_absolute">>} :
        cl[use[1]] # NoDevice => use[2] \in cl.sub[cl[use[1]]]
  BY <1>7
<1>9. sv.heard \in 0..sv.serial
  <2>1. sv.heard \in Nat /\ sv.heard <= cl.serial
    BY <1>2 DEF Serves
  <2>2. QED
    BY <1>3, <1>5, <2>1
<1>10. sv.seqs \in [Devices -> 0..MaxCalls]
  <2>1. sv.seqs \in [Devices -> Nat] /\ \A d \in Devices : sv.seqs[d] <= cl.seq[d]
    BY <1>2 DEF Serves
  <2>2. \A d \in Devices : sv.seqs[d] \in 0..calls
    BY <1>1, <1>5, <2>1
  <2>3. QED
    BY <1>4, <2>1, <2>2
<1>11. sv.met \in 0..MaxCalls
  <2>1. sv.met \in Nat
    BY <1>2 DEF Serves
  <2>2. sv.met + Count(up, "frame") <= calls
    BY <1>2 DEF Counted
  <2>3. Count(up, "frame") \in Nat
    BY <1>1, CountOn
  <2>4. sv.met \in 0..calls
    BY <1>1, <2>1, <2>2, <2>3
  <2>5. QED
    BY <1>4, <2>4
<1>12. sv.gone \subseteq sv.announced /\ sv.held \subseteq sv.emulating
  BY <1>2 DEF Serves
<1>13. sv \in [stage : {"new", "greeted", "seat", "bound"}, open : BOOLEAN,
               spare : 0..MaxEvents, serial : 1..MaxEvents + 1,
               announced : SUBSET Devices, gone : SUBSET sv.announced, mapped : BOOLEAN,
               pings : 0..MaxEvents, heard : 0..sv.serial, seqs : [Devices -> 0..MaxCalls],
               emulating : SUBSET Devices, held : SUBSET sv.emulating, met : 0..MaxCalls,
               bad : BOOLEAN]
  BY <1>2, <1>9, <1>10, <1>11, <1>12 DEF Serves
<1>14. \A q \in {buf, down, up} : \A j \in DOMAIN q : q[j] \in MessageType
  <2>1. ASSUME NEW q \in Seq(MessageType), NEW j \in DOMAIN q
        PROVE  q[j] \in MessageType
    BY <2>1
  <2>2. QED
    BY <1>1, <2>1
<1>15. Handshaking => buf = <<>>
  BY <1>1 DEF Behind, Handshaking
<1>16. QED
  BY <1>1, <1>6, <1>8, <1>13, <1>14, <1>15 DEF TypeOK

\* The view of a client with nothing left to read:
LEMMA EisCatchesUp ==
    ASSUME EInv
    PROVE  ViewCatchesUp
<1>1. SUFFICES ASSUME buf = <<>>, down = <<>>
               PROVE  /\ \A d \in sv.announced : cl.sub[d] = Range(Interfaces[d]) /\ d \in cl.regions
                      /\ sv.mapped => cl.keymap
                      /\ sv.stage \in {"seat", "bound"} => cl.serial = sv.serial
  BY DEF ViewCatchesUp
<1>2. Good(mode, cl, buf \o down, up, sv, failed, calls)
  BY DEF EInv
<1>3. Knows(cl, sv, calls) /\ Serves(sv, cl) /\ Coming(cl, <<>>, sv)
  <2>1. buf \o down = <<>>
    BY <1>1
  <2>2. QED
    BY <1>2, <2>1 DEF Good
<1>4. Range(<<>>) = {}
  BY RangeNone
<1>5. ASSUME NEW d \in sv.announced
      PROVE  cl.sub[d] = Range(Interfaces[d]) /\ d \in cl.regions
  <2>1. d \in Devices
    BY <1>3 DEF Serves
  <2>2. cl.sub[d] \subseteq Range(Interfaces[d])
    BY <1>3, <2>1 DEF Knows
  <2>3. \A i \in Range(Interfaces[d]) : i \in cl.sub[d]
    BY <1>3, <1>4 DEF Coming
  <2>4. d \in cl.regions
    BY <1>3, <1>4 DEF Coming
  <2>5. QED
    BY <2>2, <2>3, <2>4
<1>6. /\ sv.mapped => cl.keymap
      /\ sv.stage \in {"seat", "bound"} => cl.serial = sv.serial
  BY <1>3, <1>4 DEF Coming
<1>7. QED
  BY <1>5, <1>6

\* The protocol:
LEMMA EisKeepsProtocol ==
    ASSUME EInv
    PROVE  CallsKeepProtocol
<1>1. Whole(up, sv, failed)
  BY DEF EInv, Good
<1>2. QED
  BY <1>1 DEF Whole, CallsKeepProtocol

\* The effect of every input:
LEMMA EisActs ==
    ASSUME EInv
    PROVE  EveryCallActs
<1>1. SUFFICES ASSUME ~failed, sv.open, sv.gone = {}, up = <<>>
               PROVE  sv.met = calls /\ sv.emulating = {}
  BY DEF EveryCallActs
<1>2. Good(mode, cl, buf \o down, up, sv, failed, calls)
  BY DEF EInv
<1>3. Whole(up, sv, failed) /\ Counted(buf \o down, up, sv, failed, calls) /\ Serves(sv, cl)
  BY <1>2 DEF Good
<1>4. sv.emulating = {}
  <2>1. \A d \in sv.emulating : up # <<>>
    BY <1>1, <1>3 DEF Whole
  <2>2. QED
    BY <1>1, <2>1
<1>5. sv.met + Count(up, "frame") = calls
  BY <1>1, <1>3 DEF Counted
<1>6. Count(up, "frame") = 0
  BY <1>1, CountFew
<1>7. sv.met \in Nat
  BY <1>3 DEF Serves
<1>8. QED
  BY <1>4, <1>5, <1>6, <1>7

\* The answers to the pings:
LEMMA EisAnswers ==
    ASSUME EInv
    PROVE  PingsAnswered
<1>1. SUFFICES ASSUME ~failed, sv.open, down = <<>>, up = <<>>
               PROVE  sv.pings = 0
  BY DEF PingsAnswered
<1>2. Good(mode, cl, buf \o down, up, sv, failed, calls) /\ Behind(mode, buf, sv, failed)
  BY DEF EInv
<1>3. buf \o down = <<>>
  <2>1. buf = <<>>
    BY <1>1, <1>2 DEF Behind
  <2>2. QED
    BY <1>1, <2>1
<1>4. Counted(<<>>, <<>>, sv, failed, calls)
  BY <1>1, <1>2, <1>3 DEF Good
<1>5. Count(<<>>, "ping") = 0 /\ Count(<<>>, "pong") = 0
  BY CountFew
<1>6. QED
  BY <1>1, <1>4, <1>5 DEF Counted

\* The types, the client's devices being announced ones that have the interface
\* they are used for, in every behaviour (EisClient and its handlers).
THEOREM EisTypeCorrect == Spec => []TypeOK
BY EisInvariant, EisTyped, PTL

\* Whatever the chunks, and whichever handlers raise: a client that has read all
\* the server sent knows all of it (_pump and the handlers).
THEOREM EisViewCatchesUp == Spec => []ViewCatchesUp
BY EisInvariant, EisCatchesUp, PTL

\* As long as every send succeeded the server has no cause to end the connection
\* (_begin_frame and the calls that use it).
THEOREM EisCallsKeepProtocol == Spec => []CallsKeepProtocol
BY EisInvariant, EisKeepsProtocol, PTL

\* Once the server has read everything, every input has had its effect once and
\* no device is left emulating, unless something failed or a device went away.
THEOREM EisEveryCallActs == Spec => []EveryCallActs
BY EisInvariant, EisActs, PTL

\* Once both have read everything, every ping has its answer, unless a send failed
\* (the ping handler, from within a pump).
THEOREM EisPingsAnswered == Spec => []PingsAnswered
BY EisInvariant, EisAnswers, PTL
=============================================================================
