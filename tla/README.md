# TLA+ verification of PyWaylandAuto

PyWaylandAuto injects keyboard and pointer input under Wayland.  A daemon holds
one RemoteDesktop portal session, which the user grants in a dialog; clients (the
Python library and the command line) send it JSON lines over a Unix socket.  This
directory holds TLA+ models of the program, the TLC configurations that check them
on small instances, and theorems that TLAPS proves for every value of the constants.
Sources are named relative to `src/pywaylandauto/`.

Run a check with `tlc -config <X>.cfg <Module>`, and the proofs of a module with
`tlapm <Module>.tla`, for `SequenceFacts` and each of the `*_proofs` modules.
`PROJECT.json` lists components, runs, hazards, findings and theorems, the source lines each definition
translates, and for each property a mutation of the code's model that breaks it.

## 1. Inventory

| Component | State it keeps | Operations | What is hard | What makes it correct |
|---|---|---|---|---|
| `PortalSession` (backends/portal.py) | state, last error, session path, devices, transport, EIS client, has_token, the retry flag | `start`, `stop`, the callbacks of CreateSession, SelectDevices, Start and Closed, `_choose_transport`, the input methods | callbacks know neither the session nor the `start()` they belong to; each D-Bus call can fail or time out; the token retry | never stuck in starting; started means usable, granted and on the transport reported; has_token is true |
| `PortalClient` and the portal (portal.py; external) | outstanding requests, signal queue, registered receivers | method calls, Response, Closed | replies come later, refusals, sessions that end at any time | (environment) |
| Daemon loop (daemon.py) | running flag, EIS watch | one handler per request, D-Bus signals, the EIS descriptor, stop | order of the callbacks; what is reset and what is not between sessions | the dialog is never raised again by an input after a refusal; the EIS connection is read |
| Socket and pid files (daemon.py) | two files, the listening socket | `_bind`, `_probe_live`, `_write_pid`, `_cleanup` | several processes, crash between any two system calls | one server, which the path leads to; stale files do no harm |
| Socket handlers (daemon.py) | a partial line per client | read a chunk, handle its lines, send, drop | half lines, several lines, hang-ups while handling | each request answered once, cut lines never carried out |
| Client library (client.py) | request id, read buffer, socket | connect/spawn, `request`, close | timeouts, late responses, partial `sendall`, several clients that spawn at once | a result belongs to its own request; a daemon is there in the end |
| CLI input commands (cli.py) | position in the dialog wait | the call, status polls, one retry | the session changes between poll and retry | no input twice; a truthful exit code |
| CLI daemon commands (cli.py) | none | start, stop, restart, status | waiting on files another process removes | a restart ends with a new daemon serving |
| Token cache (token_cache.py) | one file, a temporary one for each save | load, save, revoke | kills and loss of power between write, rename and fsync; two processes | an atomic register, durable once a save has returned |
| EIS client (backends/eis.py) | version, devices and their interfaces, last serial, keymap, receive buffer | handshake, pump, event handlers, inputs, close | events cut into any chunks, handlers that send and may raise, devices that appear and vanish, partial frames | the view catches up; frames keep to the protocol; each input acts once; the handshake ends |
| XKB keymap and keysyms (backends/xkb.py, keysyms.py) | none | parse, resolve | fallback rules, dropped levels, the numbering of the keys | the keys sent spell the text, and the compositor reads them so |
| EIS codec, monitors, Wayland wire codec, backend base class | none | pure functions | rounding | (not modelled, section 5) |

Interactions: a client's line reaches `_dispatch`, which may call
`PortalSession.start` (through `_ensure_started` or session.start) or an input
method.  The portal's signals reach the session's callbacks through the same main
loop, so **one callback runs at a time and to its end**; D-Bus calls block inside it.
Concurrency is therefore between the loop and what it talks to (portal, user,
clients, EIS server, other daemon processes), never inside it.  That is why each
callback is one action, and why `DaemonSocket`, where processes share files, has one
action for each system call.

## 2. Modules

| Module | Models | State and actions |
|---|---|---|
| `Portal` | the external portal, as portal.py uses it | sessions, requests outstanding, queue of signals, receivers; `AnswerCreate/Select/Start`, `EndSession` choose freely |
| `PortalSession` | backends/portal.py | `ps` is the object, field by field; one operator for each method and callback; `cached` is the token file |
| `Daemon` | daemon.py's loop and dispatch over `PortalSession` | `SessionStart`, `Status`, `InputServed`, `InputStarts`, `OnSignal`, `OnEisReady`, `Stop`, `Boot`; environment: `EisSends`, `PortalStep` |
| `ConsentGate` | abstract specification: what clients may rely on about consent | idle, asking, open, refused |
| `DaemonProperties` | properties of `Daemon`, the refinement mapping to `ConsentGate` | |
| `DaemonSocket` | daemon.py's start, refusal, cleanup, crash | a program counter for each process, the two files |
| `ClientProtocol` | client.py's `request` and daemon.py's socket handlers | pieces of lines in both directions, the kept fragment, the chunk being handled; the session behind it is `ConsentGate` |
| `DialogWait` | cli.py's `_call_with_dialog_wait` and chords, beside library users | a phase for each command over `ClientProtocol` |
| `KeyInjection` | portal.py's input methods, the frames of eis.py, the resolver of xkb.py, against a compositor | what is pressed there, the two sides' keymaps, the connection; `Key`, `TypeText`, `Button`, `Motion`, `OnKeymap`, ... |
| `EisClient` | backends/eis.py against an EIS server | `cl` is the object; `Receive` is one pump with its handlers (`OnConnection`, `OnInterface`, ...), which in the handshake also ends a stage of it; `Input`, `Close`; the server announces, destroys, pings, leaves, and judges each request (`Acceptable`) |
| `TokenRegister` | abstract specification: what users of the token cache may rely on | one register, the calls on it, what a loss of power may leave |
| `TokenCache` | token_cache.py, a system call a step | the token file, each save's temporary file, what the disk may hold; `Die`, `LosePower` |
| `Launcher` | cli.py's daemon start, stop and restart and client.py's `connect` | a program counter for each command, over the processes of `DaemonSocket` |
| `Daemon_proofs` | theorems about `Daemon`, under any portal and under one without stale signals | |
| `Launcher_proofs` | theorems about `DaemonSocket` (processes and their files) and `Launcher` (the commands over them) | |
| `DialogWait_proofs`, `DialogCommand_proofs` | theorems about the line protocol, and about a command on it | |
| `KeyInjection_proofs`, `TokenCache_proofs`, `EisClient_proofs` | theorems about those modules | |
| `SequenceFacts` | what the proofs about queues and texts share: induction, order and number of what is in two sequences one behind the other | |
| `MCDaemon`, `MCDaemonSocket`, `MCDialogWait`, `MCKeyInjection`, `MCEisClient`, `MCLauncher` | instances for TLC | |

Composition: `DialogWait` stands on `ClientProtocol`, which stands on `ConsentGate`;
`session_orderly` checks that `Daemon` implements `ConsentGate`.  So the protocol is
not multiplied by the session's own states.  `Launcher` stands on `DaemonSocket`: a
command only looks at the file or talks to the process behind it.  `TokenCache`
implements `TokenRegister`; `cached` of `PortalSession` is that register, used by one
process.  `PortalSession` sees of `EisClient` whether its handshake completed, and
`KeyInjection` the frames of one device.

What the main variables and definitions stand for:

- `ps` has exactly the fields `PortalSession.__init__` and `start()` set, reduced to
  what the code tests (`devices` non-empty, EIS client present and ready).  The ghost
  `eisPath` is the session the EIS connection was opened on.
- `requests` and `signals` carry a ghost `flow`, the `start()` call they stem from.
  The code has no such identity, and no guard of the model reads it.
- `Send` (KeyInjection) stands for all the sends of one method: any number of its
  events takes effect, and a send that fails inside a frame leaves the device
  emulating.  A frame begun in that state is a protocol error for the compositor,
  which drops the connection (docs/eis-protocol.md: start_emulating requires RESUMED).
- `owed` and `typed` (KeyInjection) are ghosts: the keysyms whose press may have been
  sent and whose release has not been answered, and what came of the last text:
  `named` is what its keys spell in the keymap, `got` what an application received.
- A failure does not say that nothing happened.  A Notify* call whose reply was late has
  been carried out, and so has an EIS frame whose stop_emulating failed; a click, a text or
  a shifted key can fail half-way.  `DispatchInput` therefore lets an open session answer
  any of `Failures` with or without the input in `injected`, where an input counts as soon
  as it took effect in part.
- `SendReply` drops a client that is gone, and one that is connected but has left so much
  unread that sendall times out.  A client that has closed its connection makes a new one
  with its next request (`Leave`, `SendRequest`).
- `asker` (what raised the dialog last), `injected` and `goal` are ghosts too.
- `DBusErrors` are the outcomes of a blocking D-Bus call; `MapDBusError` is the code's
  mapping.  A call with `NoReply` may have reached the portal when `"reply" \in Stale`.
- A client's line is one `Piece`, or two when `sendall` is cut: `end` says whether its
  newline was written.  `"huge"` is a line over `MAX_LINE`.
- In `EisClient` a message is whole; that it arrives in pieces is a `Receive` with
  n = 0 (only part of the next one came) or with several.  `room` is how many of the
  handlers' sends succeed in a pump, `torn` that the failing one wrote a part: the
  server reads that as `"cut"`.  The fourteen messages of the client's greeting are one
  `"hello"`, names and types of devices are left out, and a device's region comes
  before its interfaces, as tests/fakes.py sends them.  `failed` and `calls` are
  ghosts, and so are `met`, `held` and `bad` of the server.
- In `TokenCache` the file that was read is the one that was opened, so `Load` is one
  step.  `disk` holds every content the file may have after a loss of power: a rename
  adds one, the fsync of the directory or the kernel's write-back takes the old ones
  away.  `reliable` (chosen at the start) says whether the file system writes data
  before the name that leads to it and can sync a directory; the code syncs only the
  directory, and ignores it if that fails.
- In `Launcher` the processes of `daemon start` and of a client's `_spawn_daemon` are
  one hop shorter than in the code: the process that only spawns the daemon is left
  out.  `leaving` are the daemons that have answered daemon.stop; SIGTERM does the same.
  `calm` is a ghost for `Settles`.
- Definitions whose comment begins "Bug variant" are not part of any specification:
  each is a plausible slip, used to show that a property can fail.

Assumptions about the environment, each a constant or a named guard:

- `Stale` (Portal): what the portal may send about things that are over: `"closed"`,
  Closed of a session the daemon has given up; `"reply"`, a Response after a D-Bus
  timeout or to a request of a session that has ended.  With `{}` the portal ends only
  the session in use, and (`Settled`) a Closed in flight is dispatched before the next
  request that would begin a flow.
- Nobody but the daemon changes the token file while it runs.
- `StartupsOverlap` (DaemonSocket): may processes start or stop at the same time?
  `BacklogFull`: may a live daemon's `listen(8)` backlog be full when it is probed?
- `MaxFlows`, `MaxRequests`, `MaxEvents`, `MaxCalls`, `MaxKills`: bounds on counters, in
  the guards.  `OneAtLength` (MCDialogWait) is the one state constraint.
- `Offset` (KeyInjection): by how much a key's number in a keymap exceeds the code that the
  EIS connection takes for that key.  The code adds and subtracts nothing; xkb.py:3-4 and
  docs/eis-protocol.md:93 say the connection takes evdev codes, and the keymap of
  tests/test_xkb.py numbers them differently.
- CapsLock may be on (`Locks`), which the client does not see: over EIS it exchanges the
  two levels of a letter (docs/known-issues.md, R6).
- An EIS server announces a device once, sends a keymap after the keyboard it is of,
  issues serials that only grow, and never sends events for objects nobody announced.
- A descriptor number of a new EIS connection differs from that of the connection it
  replaces, which is still open at that time; otherwise it may be reused.

## 3. Runs

Passing runs:

| Run | Question | Bounds and why they are enough |
|---|---|---|
| `session_any_order` | Do the basic guarantees hold whatever the portal does, stale signals included? `TypeOK`, `StartedUsable`, `NeverWedged`, `HasTokenTruthful`, `StartingEnds` | 2 sessions, 2 descriptors, 2 flows: stale signals of the first flow meet the second. The safety properties are proved for all values. 0.9 M states |
| `session_orderly` | Without stale signals: `SingleFlow`, `TransportOfSession`, `OpenIsGranted`, and `Daemon` implements `ConsentGate` | 3 sessions, 3 flows: fail, refuse, start again, with an EIS connection replaced twice over reused numbers. All four are proved for all values. 34 k states |
| `socket_serial` | Processes that crash at any point but do not start or stop at the same time: `ServerReachable`, `PidNamesOwner`, `StartDecided` | 4 processes: one that left stale files, one that takes over, one that is refused, one more. The two invariants are proved for any number |
| `dialog_wait` | A two-call command beside a library user who goes on after timeouts and cut lines, with failures that took effect, a daemon restart, the dialog answered at any time: `AtMostOnce`, `AnswersOwn`, `CutNeverServed`, `NoAnswerMissing`, `CommandTruth`, `Served` | 5 requests of the command: two calls, their retry or polls to spare; so a poll that timed out is answered while the retry waits. 2 of the library user: a late answer needs a request given up and one after it, and so does a line joined to a cut one. `OneAtLength` explores the second of these beside the command's first request only: what a client's lines do to each other is within one connection, and what clients do to each other goes through the gate and the order of chunks, which one request of each shows; `Served` is checked for the behaviours within that bound. All but `Served` are proved for any clients, calls and requests. 1.0 M states |
| `key_injection` | Keys, texts and buttons of any clients in any order, over EIS and over Notify*, with calls that fail half-way: `TypeOK`, `DownIsOwed`, `KeysSpellText` | 3 keys whose numbers in the keymap exceed their codes by 1, 4 characters and Shift: two characters share a key, one is at the third level, one is beyond Latin-1, one only in the US table; two layouts that exchange keys and one that is read in part; 6 texts. All three are proved for all keymaps and texts. 33 k states |
| `eis_client` | The EIS connection with chunks of any size, sends that fail, devices that come and go: `TypeOK`, `ViewCatchesUp`, `CallsKeepProtocol`, `EveryCallActs`, `PingsAnswered`, `TreeSuffices` | 2 devices: one the handshake waits for, one plugged in before, during or after; it lacks a wheel, so a scroll raises inside its frame. 2 inputs: a frame left open shows at the next one. 2 events beside the tree: a ping and what waits behind it, a new serial and a hang-up. All but `TreeSuffices` are proved for any devices, inputs and bounds. 0.5 M states |
| `token_cache` | Two processes and losses of power: the file implements an atomic register | 2 processes, 2 tokens: an old and a new one, a reader or a revocation beside a save. The number of calls is not bounded. Types and refinement are proved for any number of processes and tokens. 0.2 M states |
| `launcher` | A restart, a client that spawns, daemons by hand, one killed: `LaunchTypeOK`, `Settles`, `RestartNotRefused` | 3 daemon processes: the old one, and two that race for its place; one kill leaves one stale file. All but `Settles` are proved for any commands and processes. 1.7 M states |

In these runs deadlock is not checked where the system really may stop: the daemon
exits, all the requests are made, all the processes are gone.

Violation runs show where the code differs from what the repository says:

| Run | Says | Does |
|---|---|---|
| `session_one` | daemon.py:3 "Holds ONE portal session per daemon" | `_fail` forgets the path without closing the session; the next flow opens a second beside it (no stale signal needed) |
| `session_eis_pumped` | daemon.py:335 "Once the EIS transport is up, pump its fd on the main loop" | `_eis_watched` is never reset: the EIS connection of a second session is not read |
| `socket_race` | daemon.py:43 "A live daemon already owns the socket." | between `bind` and `listen` another start's probe is refused and replaces the file: two daemons serve |
| `key_numbers` | xkb.py:3-4 the EIS keyboard "takes evdev keycodes", docs/eis-protocol.md:93 "keycode(evdev)" | key events carry the keymap's own numbers (xkb.py:90) beside evdev codes of the US table; tests/test_xkb.py:13 has `<ESC>` = 9, the US table 1. With an offset of 1 between them another text comes out |

Three more divergences are in the models, each seen there, without a run of its own:

- docs/architecture.md:47 draws STARTED as entered from STARTING only.  `_on_closed`
  takes any Closed for its own: a stale one stops the new flow, whose Start response
  then moves stopped to started.  `StartedUsable` survives: such a session has no path,
  so `ConnectToEIS` and the probe raise and fail it in the same step.
- docs/protocol.md:11 says every request has one response that echoes its id.  A line
  that cannot be decoded is answered with id 0, which the client skips until it times out.
- `daemon stop` prints "daemon stopped" (cli.py:93) when daemon.stop was answered, 50 ms
  before the daemon leaves its loop.  A `daemon start` made at once
  (docs/smoke-test.md:35-36) may be refused by the old daemon, and then nobody serves.

Properties worth a word:

- `NeverWedged`: `start()` does nothing while starting, so a callback that neither
  goes on nor fails would leave every input at permission_pending for ever.
- `SingleFlow` is why callbacks may ignore which flow they serve.  It fails with stale
  signals, and so do `TransportOfSession` and `OpenIsGranted`: that dependence is what
  the constant `Stale` makes explicit.
- `AtMostOnce` is the reason for the protocol's rule that permission_pending is sent
  *instead of* injecting, and why the CLI repeats only requests answered by it.
- `AnswersOwn` has two halves.  Success means that this very input was carried out.  One
  that was carried out may still end in an error, but only in its own failure, or without
  an answer: never in permission_pending, which a command takes as leave to repeat it, and
  never in what another request was answered.
- `CommandTruth`: a command that dies may have carried out its last call, wholly or in
  part, only if that call failed or no answer to it came; not if it gave up waiting for
  the dialog.
- `ViewCatchesUp` is about the buffer: a handler that raises leaves the events behind it
  in `_buf` (each was cut off before it was dispatched), and they must be handled later,
  once and in order.
- `EveryCallActs` and `CallsKeepProtocol` have the condition `~failed`, and the first one
  `sv.gone = {}`.  Both are needed: `_begin_frame` has no `finally`, so a call that fails
  leaves its device emulating for the next; and a device that was destroyed stays in use
  and swallows inputs even when another one has the same interface.
- `PingsAnswered` says nothing of the buffer, on purpose: a pump that left a ping in it
  with nothing more to come would be the fault.
- `ImplementsRegister`: `TakeLoad` may answer "no token" because `load` does so for any
  OSError.  What a loss of power may leave is part of the register (`may`), so the
  refinement says that a save which has returned is durable on a reliable file system,
  and that revocation is *not*: `revoke` does not sync the directory.
- `Settles` allows probes to remove each other's files on the way (`socket_race` shows
  that); it says that a last start, made when no daemon is on its way out, brings a
  daemon that serves at the path.
- `DownIsOwed` is about what a user would notice most: a key or Shift that stays down.
  It holds through failures because `owed` counts a failed call as a press nobody has
  released; with no failure `owed` is exactly what clients hold.  It is also why the
  resolver is kept when the layout changes: built anew, a release would name another
  key than its press.
- `KeysSpellText` says that the right keys at the right levels are sent; its conditions
  (`Undisturbed`) are needed.  Without them the code does type something else: a held Shift,
  CapsLock, a resolver of the old layout, a level the parser drops, a character only the US
  table knows.  These are limits, not promises broken.  Whether the *codes* that stand for
  these keys are those the compositor takes is `TypedAsAsked`, which `key_numbers` refutes
  for a keymap whose numbers are not evdev codes.
- A save that fails removes its temporary file, but a failing unlink is ignored
  (token_cache.py:51-54) and the copy stays (`Discard`).  Nothing promises otherwise, so
  there is no property; `ImplementsRegister` shows that the token file does not suffer.

### Fairness

- Daemon: weak fairness of dispatching a queued signal, of the first start and of
  polling a watched descriptor (GLib dispatches ready sources of equal priority); of
  the portal answering (a request is an object of the portal that ends with a
  Response; the user is assumed to answer the dialog, without which nothing can be
  promised); of some client asking for the status (only `EisPumped` needs it, since
  the watch is added there).  Clients, the EIS server and Closed are not fair.
- DaemonSocket: a process that starts or cleans up goes on; `Begin`, `Quit` and
  `Crash` are not fair.
- EisClient: the handshake polls and the main loop watches the descriptor
  (`WF(Receive)`), the server reads (`WF(Take)`).  No deadline and no event of the server
  is assumed, so `TreeSuffices` is not met by giving up.
- Launcher: as in DaemonSocket, and a daemon that has answered daemon.stop leaves
  (`_quit_soon` is a timer of its loop).  Commands, kills and starts by hand are not fair.
- DialogWait: the daemon handles what it has read; reading a client is *strongly*
  fair, because the loop is busy with other clients' chunks again and again; a client
  takes the lines that arrive; a command goes on when its request returned.  Nothing
  is assumed of the user, the portal, the library users or the clock: `Served` has
  "the session is open and stays so, and no timeout" as hypothesis.

## 4. Proofs

`Daemon_proofs` proves, for every number of sessions, descriptors and flows, every
`Stale`, `Transport` and `AutoStart`: `[]TypeOK`, `[]StartedUsable`,
`[]HasTokenTruthful` and `[]NeverWedged`.  They rest on one inductive invariant,

    SInv == TypeOK /\ Sound(ps, cached) /\ Heard(ps, requests, listening) /\ NeverWedged

`Sound` says the object is well formed, `has_token` is the truth, and started comes
with path, transport and EIS client.  `NeverWedged` alone is not inductive: the portal
may drop the requests of a session it ends, and then the Closed signal is all that can
move the session on.  It is emitted only if somebody listens; `Heard` states that a
session the object holds, or that a request is about, has its receiver registered, so
the signal is in the queue when the request is gone.  That `_on_create_session` registers the
receiver *before* it calls SelectDevices is what makes `Heard` hold.  There is one
lemma for each method (`SelectDevicesSound`, `OnStartSound`, ...), and `SInvNext` has
one step for each action.

`Launcher_proofs` proves of `DaemonSocket`, for any number of processes and crashes,
`[]TypeOK` and, from `~StartupsOverlap` and `~BacklogFull`, `[]ServerReachable` and
`[]PidNamesOwner`; `socket_race` shows that the first assumption is needed.  The invariant `Undisputed` adds that at most
one process is starting or stopping, that it finds the files as its own last step left
them, and that the file of a live daemon is never the one being replaced.

`TokenCache_proofs` proves, for any number of processes and tokens, `[]TypeOK`
and `Spec => Register!Spec`: the file implements the atomic register of
`TokenRegister`.  Its only assumption, `CacheAssumption`, is that tokens are not the
model's words for an empty or missing file.  The invariant is

    CacheInv == TypeOK /\ InItsCall /\ TempWhole /\ file \in Stored \cap disk /\ disk \subseteq Stored

The refinement holds of no step by itself: the rename puts the right token in place
because the temporary file is whole once its writing succeeded (`TempWhole`), a sync
leaves a value the register may have because the token file is always among what the
disk may hold, and a load answers with a value of the register because no file that
may come back is cut short (`Stored`).  `RegisterStep` maps each step: the rename is
`TakeSave`, the sync after it `SaveDone`, an unlink `TakeRevoke` or `Refuse`, the rest of
a save changes nothing of the register.

The second half of `Daemon_proofs` goes on from `SInv` with the hypothesis
`Stale = {}`: the portal says nothing about what is over.  (Section 3 says why that is
needed.)  It proves `[]SingleFlow`, `[]TransportOfSession`,
`[]OpenIsGranted` and that `Daemon` implements `ConsentGate`, all from

    OInv == SInv /\ OneAnswer /\ NotBegun /\ (running => AboutSession)
            /\ NoOldError /\ TransportOfSession /\ OpenIsGranted

`SingleFlow` is not inductive: that a callback finds the session in the state it
expects needs the request to be about *this* session and of the *last* flow
(`OneAnswer`, `AboutSession`; the latter only while the daemon runs, for `Boot` makes a
new object).  `OpenIsGranted` must be part of it because a granted session that the
portal has closed is told from one that was never granted only by the Closed in the
queue.  `NoOldError` is what the refinement needs: the gate is read off state and last
error, and an error left over from an earlier flow would look like a refusal.

`DialogWait_proofs` and `DialogCommand_proofs` are about the line protocol between any
number of clients and the daemon, with any number of calls and requests, and about a
command on it that waits for the dialog.  The invariant of the protocol is `PInv`:
lines come one client's at a time in the order of their ids (`Ordered`); an input that
was carried out, and an answer on its way, is older than everything that is pending
(`IdsPass`); an answer on its way that says "injected" is true, and the answer to what
was carried out says so or is a failure (`RepliesTrue`); a line still pending has not
been answered (`PendingUnanswered`).  Ids are thus what makes a late answer harmless
although the session behind the socket changes at any time.  `AtMostOnce` adds what is
wanted once: of the pending and the carried out, no two have the same goal
(`GoalsOnce`).  That a command keeps it up while it retries rests on `Command`, which
says for each place in the command which of its requests may still take effect (of the
present call only the latest), and on `Clean`: a command never goes on after a cut line,
hence before one there is no half line on its connection for the next one to join, and
an answer to what it waits for is bound to come.  `AtMostOnce`, `AnswersOwn`,
`CutNeverServed`, `NoAnswerMissing` and `CommandTruth` all follow from
`DInv == PInv /\ InOrder /\ \A c \in Cli : Command(c) /\ Clean(c)`.

Of `Launcher` the same module proves, for any commands and processes that start, stop, are killed
and overwrite each other's files, that the child of a restart is never refused by the
daemon that was told to stop.  The invariant `RestartInv` says that a daemon a command
has talked to has bound its socket, and nobody binds twice (`BoundOnce`); so once the
restart has seen the file of the old daemon gone, it never comes back.  The condition
`~late` stands for the restart that stopped waiting before the file went.

`KeyInjection_proofs` proves `[]TypeOK`, `[]DownIsOwed` and `[]KeysSpellText` for all
keymaps and for texts of any length.  `DownIsOwed` needs one thing more, the third part of
`KInv`: until a keysym has been resolved over EIS, only a button can be down.
Otherwise the first resolution, which fixes what the owed keysyms stand for, could change
it while they are held.  The proof is about sequences of events: each event that presses
something is followed by one that releases it (`Followed`), so after a whole text nothing
more is down than before, and after any part of it only keys of the text are.
`KeysSpellText` follows character by character: with nothing pressed, the events of a
character spell it in the keymap and nothing else (`CharTyped`), and leave
nothing pressed for the next.  `KeyAssumption` says that `Exotic` holds no character of
Latin-1: a character of both kinds would be typed while the resolver, which is not
consulted for an exotic first one, stays unset.

`EisClient_proofs` proves `[]TypeOK`, `[]ViewCatchesUp`, `[]CallsKeepProtocol`,
`[]EveryCallActs` and `[]PingsAnswered` for any devices with any interfaces, any of the
inputs and any number of calls and events.  Each of the properties but the first is
about a connection with nothing left on its way; the invariant `EInv` has to say what is
true while messages are on their way, so it is a statement about queues.  It takes the
client's buffer and the socket behind it as one queue, and its parts are

- `Knows`, `Serves`: the types of the two sides and how their counters compare;
- `Incoming`: each event is about what was announced, and the serials come in order.
  Without the order an old serial could arrive last and stay;
- `Coming`: what the client does not know yet is in that queue.  With the queue empty this
  is `ViewCatchesUp`;
- `Outgoing`: each message is one the client may send, serials and sequence numbers come
  in order, and what belongs to a frame follows the message of that frame it has to
  follow.  `Begun` ties the first of them to what the server knows of the frame: the
  server has read the others already;
- `Whole`: unless something failed, frames are complete and the last one is closed.  That
  is what makes each message acceptable when it is read (`Accepted`), hence
  `CallsKeepProtocol`;
- `Counted`: pings plus answers on their way are what the server is owed, events that
  counted plus frames on their way are the calls.  As soon as something failed or a device is
  gone only the inequalities are left, which the bounds in `TypeOK` need;
- `Greeting`: the greeting is sent once, so the server's serial starts once;
- `Behind`: only a raise leaves messages in the buffer, and a raise means that a send
  failed or that the connection is closed.

One pump handles any number of messages and may stop in between.  `PumpSteps` shows that
`FoldLeft` over what it reads is the sequence of single `Dispatch` steps, `PumpOne` that
one of them keeps `Pumping` (the invariant, of what has been handled up to now), and
`PumpAll` joins them by induction; `PumpEnds` turns the result into the next state.  An
input sends any part of its frame: `SendNext` adds one message, `SendFrame` as many as get
out, and `InputGood` the rest of the step.  For the server there is one lemma for each kind
of message (`TakeStart`, `TakeFrame`, ...) over what they have in common (`TakeRest`).

The proof showed a slip in the model: two guards of the `CASE` for the new `mode` in `Receive`
were true at once when the greeting could not be sent, and TLA+ leaves open which applies
(TLC takes the first).  The second guard now excludes a raise, as the code does.

The proofs about texts and about pumps need induction over a length, and that a
recursively defined function (`FlattenSeq`, the fold) has the values its definition says.
The library's theorems about both take an operator as a parameter, which the installed
provers cannot instantiate.  `SequenceFacts` therefore derives the least element of a set
of numbers (`LeastNat`) from the library's first-order fact about well-founded
relations, and induction as a statement about the *set* of numbers for which something
holds (`Induction`).

Every safety property of a passing run is thus a theorem.  Only model-checked is liveness
(`StartingEnds`, `StartDecided`, `Served`, `Settles`, `TreeSuffices`), which with fairness
is out of the prover's reach; and that the bounds on counters in the guards hide nothing is
argued in section 3, not proved (the theorems hold for any bounds).

## 5. Not modelled, and why

- Monitor layout (monitors.py): one D-Bus query and the bounding box of its reply; no
  state and no order of events to get wrong.
- backends/wayland.py: nothing in the program uses it yet.  backends/base.py: abstract
  methods and error types; the errors appear in the models where they are raised.
- EIS events a sender of version 1 does not know (a device paused or resumed): the client
  ignores them, the model's server does not send them.
- File modes, the directory's creation, a token that is not UTF-8 (`load` then raises).
- EIS and Wayland codecs, JSON, argument parsing, printing, logging: byte layout and
  wording, covered by unit tests; no property here depends on them.
- A portal process that dies with requests outstanding: nobody watches its bus name,
  so the session would stay starting.  The model assumes every request is answered.
- Time: a timeout may happen whenever something waits.

## 6. Plan

Done: `Portal`, `PortalSession`, `Daemon` with its theorems; `DaemonSocket` with its
theorems; `ConsentGate` and the refinement; `ClientProtocol` and `DialogWait`;
`KeyInjection` with its theorems; `EisClient` with its theorems; `TokenRegister`,
`TokenCache` and the refinement, proved; `Launcher` with its theorems.

What could follow: an abstract specification of `ClientProtocol` (a server that carries
out each request at most once and answers it) with the refinement proved, as for the
token cache; the two sides of `PortalSession` and `EisClient` composed, so that a dead
connection meets a new consent flow; the EIS codec as operators checked against each other.
