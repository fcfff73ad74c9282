--------------------------- MODULE ClientProtocol ---------------------------
(***************************************************************************)
(* The line protocol between clients (pywaylandauto/client.py) and the     *)
(* daemon's socket handlers (pywaylandauto/daemon.py).  A client has one   *)
(* connection and one request at a time, but may give up waiting and go    *)
(* on; the daemon reads chunks of several lines, or of half a line.  The   *)
(* portal session is the consent gate of ConsentGate, which Daemon is      *)
(* shown to implement.                                                     *)
(***************************************************************************)
EXTENDS ConsentGate, Naturals, Sequences, SequencesExt

CONSTANTS
    Clients,      \* Client objects
    MaxRequests   \* for each of them, a bound on the requests it makes

ASSUME ProtocolAssumption == MaxRequests \in [Clients -> Nat]

VARIABLES
    sent,       \* _req_id: the id of a client's latest request
    outcome,    \* what each of its requests has returned or raised, by id
    conn,       \* its connection: "none", "up", "hangup" (the client has
                \* closed it, which the daemon has not noticed) or "dropped"
                \* (the daemon has, which the client has not)
    up,         \* pieces of lines written and not read by the daemon
    down,       \* lines written by the daemon and not taken by the client
                \* (in the socket, or in the client's _buf)
    fragment,   \* _buffers: is half a line of this client kept?
    chunk,      \* the pieces _on_client_ready has read and not handled yet
    injected    \* ghost: the inputs carried out, wholly or in part, in order

linkVars == <<sent, outcome, conn, up, down, fragment>>
protocolVars == <<linkVars, chunk, injected, gateVars>>

\* "huge" stands for a line longer than MAX_LINE.
Methods == {"input", "status", "session.start", "huge"}

Ids == Nat \ {0}

\* A piece of a line: the whole of it, or (~end) a part without its newline.
\* "goal" is what the caller wants the request for: a ghost.
Piece == [client : Clients, id : Ids, goal : Ids, method : Methods, end : BOOLEAN]

\* What a response says.  "started" and "unstarted" answer a status request.
Answers == {"injected", "started", "unstarted", "begun", "permission_pending",
            "permission_denied", "failed", "invalid_json"}

\* A line that cannot be parsed is answered with id 0.
Reply == [id : Nat, answer : Answers]

Outcomes == Answers \cup {"timeout", "cut", "lost"}

\* How an injection may fail: map_dbus_error makes a permission_denied of a call
\* that the portal denies, too.
Failures == {"failed", "permission_denied"}

Waiting(c) == Len(outcome[c]) < sent[c]

ProtocolTypeOK ==
    /\ sent \in [Clients -> Nat]
    /\ outcome \in [Clients -> Seq(Outcomes)]
    /\ \A c \in Clients : Len(outcome[c]) \in {sent[c], sent[c] - 1}
    /\ conn \in [Clients -> {"none", "up", "hangup", "dropped"}]
    /\ up \in [Clients -> Seq(Piece)]
    /\ down \in [Clients -> Seq(Reply)]
    /\ fragment \in [Clients -> BOOLEAN]
    /\ chunk \in Seq(Piece)
    /\ injected \in Seq([client : Clients, id : Ids, goal : Ids])

ProtocolInit ==
    /\ GateInit
    /\ sent = [c \in Clients |-> 0]
    /\ outcome = [c \in Clients |-> <<>>]
    /\ conn = [c \in Clients |-> "none"]
    /\ up = [c \in Clients |-> <<>>]
    /\ down = [c \in Clients |-> <<>>]
    /\ fragment = [c \in Clients |-> FALSE]
    /\ chunk = <<>>
    /\ injected = <<>>

-----------------------------------------------------------------------------
(* The client.                                                             *)

Return(c, o) == outcome' = [outcome EXCEPT ![c] = Append(@, o)]

\* Only a long line can be cut, or one that follows a cut line.
MayBeCut(c, m) == m \in {"input", "huge"} \/ Contains(outcome[c], "cut")

\* Bug variant: the id is advanced only when the line has been sent.
SendRequestLateId(c, m, goal) ==
    LET p == [client |-> c, id |-> sent[c] + 1, goal |-> goal, method |-> m,
              end |-> TRUE]
    IN  /\ ~Waiting(c) /\ sent[c] < MaxRequests[c] /\ conn[c] # "hangup"
        /\ conn' = [conn EXCEPT ![c] = "up"]
        /\ \/ /\ up' = [up EXCEPT ![c] = Append(@, p)]
              /\ sent' = [sent EXCEPT ![c] = @ + 1]
              /\ UNCHANGED outcome
           \/ Return(c, "cut") /\ UNCHANGED <<up, sent>>
        /\ UNCHANGED <<down, fragment>>

\* request(), up to sendall(), which may time out with none or some of the line
\* written.  A connection the daemon has dropped is replaced only after close();
\* one the client has closed, after the daemon has noticed: before that, its
\* handlers cannot tell the difference.
SendRequest(c, m, goal) ==
    LET p == [client |-> c, id |-> sent[c] + 1, goal |-> goal, method |-> m,
              end |-> TRUE]
    IN  /\ ~Waiting(c) /\ sent[c] < MaxRequests[c] /\ conn[c] # "hangup"
        /\ sent' = [sent EXCEPT ![c] = @ + 1]
        /\ conn' = [conn EXCEPT ![c] = IF @ = "none" THEN "up" ELSE @]
        /\ IF conn[c] = "dropped" THEN Return(c, "lost") /\ UNCHANGED up
           ELSE \/ up' = [up EXCEPT ![c] = Append(@, p)] /\ UNCHANGED outcome
                \/ /\ MayBeCut(c, m)
                   /\ Return(c, "cut")
                   /\ \/ up' = [up EXCEPT ![c] = Append(@, [p EXCEPT !.end = FALSE])]
                      \/ UNCHANGED up
        /\ UNCHANGED <<down, fragment>>

\* Bug variant: the id of a response is not looked at.
TakeLineAny(c) ==
    /\ Waiting(c) /\ conn[c] \in {"up", "dropped"} /\ down[c] # <<>>
    /\ down' = [down EXCEPT ![c] = Tail(@)]
    /\ Return(c, Head(down[c]).answer)
    /\ UNCHANGED <<sent, conn, up, fragment, chunk, injected, gateVars>>

\* The loop of request() takes a line; one with another id is skipped.
TakeLine(c) ==
    /\ Waiting(c) /\ conn[c] \in {"up", "dropped"} /\ down[c] # <<>>
    /\ down' = [down EXCEPT ![c] = Tail(@)]
    /\ IF Head(down[c]).id = sent[c] THEN Return(c, Head(down[c]).answer)
       ELSE UNCHANGED outcome
    /\ UNCHANGED <<sent, conn, up, fragment, chunk, injected, gateVars>>

\* _read_line gives up: the request stays outstanding at the daemon.
TimeOut(c) ==
    /\ Waiting(c) /\ conn[c] \in {"up", "dropped"}
    /\ Return(c, "timeout")
    /\ UNCHANGED <<sent, conn, up, down, fragment, chunk, injected, gateVars>>

\* recv() returns nothing, or fails, because the daemon closed the connection.
Eof(c) ==
    /\ Waiting(c) /\ conn[c] = "dropped" /\ down[c] = <<>>
    /\ Return(c, "lost")
    /\ UNCHANGED <<sent, conn, up, down, fragment, chunk, injected, gateVars>>

\* close(), or the end of the client's process.
Leave(c) ==
    /\ conn' = [conn EXCEPT ![c] = CASE @ = "up" -> "hangup"
                                     [] @ = "dropped" -> "none"
                                     [] OTHER -> @]
    /\ down' = [down EXCEPT ![c] = <<>>]

HangUp(c) ==
    /\ conn[c] \in {"up", "dropped"}
    /\ Leave(c)
    /\ UNCHANGED <<sent, outcome, up, fragment, chunk, injected, gateVars>>

-----------------------------------------------------------------------------
(* The daemon: one callback at a time, a chunk handled to its end first.   *)

LoopIdle == chunk = <<>>

\* _on_client_ready: recv() takes what has been written, or a part of it.
Read(c) ==
    /\ LoopIdle /\ conn[c] = "up"
    /\ \E n \in 1..Len(up[c]) :
         /\ chunk' = SubSeq(up[c], 1, n)
         /\ up' = [up EXCEPT ![c] = SubSeq(@, n + 1, Len(@))]
    /\ UNCHANGED <<sent, outcome, conn, down, fragment, injected, gateVars>>

\* _drop_client: what the client had written and is unread is lost.
Drop(c) ==
    /\ conn' = [conn EXCEPT ![c] = IF @ = "hangup" THEN "none" ELSE "dropped"]
    /\ up' = [up EXCEPT ![c] = <<>>]
    /\ fragment' = [fragment EXCEPT ![c] = FALSE]

\* The poll reports a hang-up: nothing is read any more.
OnHangUp(c) ==
    /\ LoopIdle /\ conn[c] = "hangup"
    /\ Drop(c)
    /\ UNCHANGED <<sent, outcome, down, chunk, injected, gateVars>>

\* _dispatch of an input request: _ensure_started, and the injection.  One that
\* fails may all the same have been carried out (a Notify* call whose reply was
\* late, a stop_emulating that failed after the frame), or in part (a click, a
\* text, a key with Shift), or not at all.
DispatchInput(p, answer) ==
    \/ /\ gate = "open" /\ answer \in {"injected"} \cup Failures
       /\ injected' = Append(injected, [client |-> p.client, id |-> p.id,
                                       goal |-> p.goal])
       /\ UNCHANGED gateVars
    \/ /\ \/ gate = "open" /\ answer \in Failures
          \/ gate = "asking" /\ answer = "permission_pending"
          \/ gate = "refused" /\ answer = "permission_denied"
       /\ UNCHANGED <<injected, gateVars>>
    \/ /\ gate = "idle" /\ answer = "permission_pending"
       /\ Ask("input")
       /\ UNCHANGED injected

Dispatch(p, answer) ==
    CASE p.method = "input" -> DispatchInput(p, answer)
      [] p.method = "status" ->
           /\ answer = IF gate = "open" THEN "started" ELSE "unstarted"
           /\ UNCHANGED <<injected, gateVars>>
      [] p.method = "session.start" ->
           /\ answer = "begun"
           /\ IF gate \in {"asking", "open"} THEN UNCHANGED gateVars
              ELSE Ask("person")
           /\ UNCHANGED injected
      [] OTHER -> answer = "invalid_json" /\ UNCHANGED <<injected, gateVars>>

\* Bug variant: an error is logged, not sent.
SendErrorless(c, id, answer) ==
    /\ chunk' = Tail(chunk)
    /\ IF conn[c] = "up" /\ answer # "permission_denied"
       THEN down' = [down EXCEPT ![c] = Append(@, [id |-> id, answer |-> answer])]
       ELSE UNCHANGED down
    /\ UNCHANGED <<conn, up, fragment>>

\* sendall() of the response.  If the client is gone, or has left so much unread
\* that the call times out, it is dropped, with the rest of the chunk.
SendReply(c, id, answer) ==
    \/ /\ conn[c] = "up"
       /\ down' = [down EXCEPT ![c] = Append(@, [id |-> id, answer |-> answer])]
       /\ chunk' = Tail(chunk)
       /\ UNCHANGED <<conn, up>>
       /\ fragment' = [fragment EXCEPT ![c] = FALSE]
    \/ /\ conn[c] = "up" => down[c] # <<>>
       /\ Drop(c)
       /\ chunk' = <<>>
       /\ UNCHANGED down

\* A line is complete: with a fragment before it, it is no JSON.
HandleLine ==
    LET p == Head(chunk)
        c == p.client
    IN  /\ ~LoopIdle /\ p.end
        /\ \E answer \in Answers :
             IF fragment[c]
             THEN /\ answer = "invalid_json"
                  /\ SendReply(c, 0, answer)
                  /\ UNCHANGED <<injected, gateVars>>
             ELSE /\ Dispatch(p, answer)
                  /\ SendReply(c, IF answer = "invalid_json" THEN 0 ELSE p.id, answer)
        /\ UNCHANGED <<sent, outcome>>

\* Bug variant: a chunk is taken to end at a line's end.
KeepFragmentServed ==
    LET p == Head(chunk)
        c == p.client
    IN  /\ ~LoopIdle /\ ~p.end
        /\ \E answer \in Answers :
             Dispatch(p, answer) /\ SendReply(c, p.id, answer)
        /\ UNCHANGED <<sent, outcome>>

\* Half a line is kept until more comes.
KeepFragment ==
    /\ ~LoopIdle /\ ~Head(chunk).end
    /\ chunk' = Tail(chunk)
    /\ fragment' = [fragment EXCEPT ![Head(chunk).client] = TRUE]
    /\ UNCHANGED <<sent, outcome, conn, up, down, injected, gateVars>>

\* More than MAX_LINE is kept and no newline has come: the client is dropped.
DropOverlong ==
    /\ Len(chunk) = 1
    /\ Head(chunk).method = "huge" \/ fragment[Head(chunk).client]
    /\ Drop(Head(chunk).client)
    /\ chunk' = <<>>
    /\ UNCHANGED <<sent, outcome, down, injected, gateVars>>

\* The daemon stops or is killed, and another one takes its place.
Restart ==
    /\ \E c \in Clients : conn[c] = "up"
    /\ conn' = [c \in Clients |-> IF conn[c] \in {"none", "hangup"} THEN "none"
                                  ELSE "dropped"]
    /\ up' = [c \in Clients |-> <<>>]
    /\ fragment' = [c \in Clients |-> FALSE]
    /\ chunk' = <<>>
    /\ gate' = "idle" /\ asker' = "person"
    /\ UNCHANGED <<sent, outcome, down, injected>>

\* The portal and the user, between two callbacks.
GateMoves ==
    /\ LoopIdle
    /\ Answered \/ Shut
    /\ UNCHANGED <<linkVars, chunk, injected>>

DaemonNext ==
    \/ \E c \in Clients : Read(c) \/ OnHangUp(c)
    \/ HandleLine \/ KeepFragment \/ DropOverlong
    \/ Restart
    \/ GateMoves

ClientNext(c) == TakeLine(c) \/ TimeOut(c) \/ Eof(c)
=============================================================================
