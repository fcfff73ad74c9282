----------------------------- MODULE DialogWait -----------------------------
(***************************************************************************)
(* Input commands of the command line (pywaylandauto/cli.py) on top of the *)
(* protocol: _call_with_dialog_wait, which waits for the user's answer by  *)
(* polling the status and then retries once, and the sequence of such      *)
(* calls that a chord makes.  Other clients use the library as they like.  *)
(***************************************************************************)
EXTENDS ClientProtocol

CONSTANTS
    Cli,      \* the clients that are input commands of the command line
    Calls     \* how many _call_with_dialog_wait calls such a command makes

ASSUME DialogAssumption == Cli \subseteq Clients /\ Calls \in Nat \ {0}

VARIABLES
    phase,    \* where a command is: about to make a call ("call"), in its
              \* first request ("called"), sleeping ("wait"), in a status
              \* request ("polled"), in the retry ("retried"), or finished
    step      \* which of its calls it makes

vars == <<protocolVars, phase, step>>

TypeOK ==
    /\ ProtocolTypeOK
    /\ phase \in [Cli -> {"call", "called", "wait", "polled", "retried",
                          "done", "died"}]
    /\ step \in [Cli -> 1..Calls]

Init ==
    /\ ProtocolInit
    /\ phase = [c \in Cli |-> "call"]
    /\ step = [c \in Cli |-> 1]

Goto(c, p) == phase' = [phase EXCEPT ![c] = p]

Result(c) == Last(outcome[c])

Returned(c, p) == phase[c] = p /\ ~Waiting(c)

daemonSide == <<chunk, injected, gateVars>>

\* The command ends, and its connection with it.
Exit(c, p) ==
    /\ Goto(c, p)
    /\ Leave(c)
    /\ UNCHANGED <<sent, outcome, up, fragment, daemonSide, step>>

\* The call succeeded: on to the next, or done.
Advance(c) ==
    IF step[c] = Calls THEN Exit(c, "done")
    ELSE /\ step' = [step EXCEPT ![c] = @ + 1]
         /\ Goto(c, "call")
         /\ UNCHANGED protocolVars

Call(c) ==
    /\ phase[c] = "call"
    /\ SendRequest(c, "input", step[c])
    /\ Goto(c, "called")
    /\ UNCHANGED <<daemonSide, step>>

\* Bug variant: a request that timed out is taken not to have been served.
CalledRetries(c) ==
    /\ Returned(c, "called")
    /\ CASE Result(c) = "injected" -> Advance(c)
         [] Result(c) \in {"permission_pending", "timeout"} ->
              Goto(c, "wait") /\ UNCHANGED <<protocolVars, step>>
         [] OTHER -> Exit(c, "died")

\* Only permission_pending is waited for; everything else ends the command.
Called(c) ==
    /\ Returned(c, "called")
    /\ CASE Result(c) = "injected" -> Advance(c)
         [] Result(c) = "permission_pending" ->
              Goto(c, "wait") /\ UNCHANGED <<protocolVars, step>>
         [] OTHER -> Exit(c, "died")

Poll(c) ==
    /\ phase[c] = "wait"
    /\ SendRequest(c, "status", step[c])
    /\ Goto(c, "polled")
    /\ UNCHANGED <<daemonSide, step>>

\* The 60 seconds of DIALOG_WAIT_SECONDS are over.
GiveUp(c) == phase[c] = "wait" /\ Exit(c, "died")

\* Bug variant: the answer looked at is the one to the first request.
PolledFirst(c) ==
    /\ Returned(c, "polled")
    /\ IF outcome[c][1] = "started"
       THEN SendRequest(c, "input", step[c]) /\ Goto(c, "retried")
            /\ UNCHANGED <<daemonSide, step>>
       ELSE Goto(c, "wait") /\ UNCHANGED <<protocolVars, step>>

\* Once the session is started the request is repeated; an exception is a
\* state that is not known yet.
Polled(c) ==
    /\ Returned(c, "polled")
    /\ IF Result(c) = "started"
       THEN SendRequest(c, "input", step[c]) /\ Goto(c, "retried")
            /\ UNCHANGED <<daemonSide, step>>
       ELSE Goto(c, "wait") /\ UNCHANGED <<protocolVars, step>>

\* Bug variant: what the retry returns is not looked at.
RetriedBlindly(c) == Returned(c, "retried") /\ Advance(c)

Retried(c) ==
    /\ Returned(c, "retried")
    /\ IF Result(c) = "injected" THEN Advance(c) ELSE Exit(c, "died")

CliNext(c) == Call(c) \/ Called(c) \/ Poll(c) \/ GiveUp(c) \/ Polled(c) \/ Retried(c)

\* A user of the library makes any request, also after an exception.
LibraryNext(c) ==
    \/ \E m \in Methods : SendRequest(c, m, sent[c] + 1) /\ UNCHANGED daemonSide
    \/ HangUp(c)

Next ==
    \/ \E c \in Cli : CliNext(c)
    \/ \E c \in Clients \ Cli : LibraryNext(c) /\ UNCHANGED <<phase, step>>
    \/ /\ DaemonNext \/ \E c \in Clients : ClientNext(c)
       /\ UNCHANGED <<phase, step>>

\* The daemon serves what it can read and handles it to the end, and a command
\* goes on when its request has returned; nothing is assumed of the user, the
\* portal, the library's users or the clock.
Fairness ==
    /\ WF_vars(HandleLine /\ UNCHANGED <<phase, step>>)
    /\ WF_vars((KeepFragment \/ DropOverlong) /\ UNCHANGED <<phase, step>>)
    /\ \A c \in Clients :
         /\ SF_vars((Read(c) \/ OnHangUp(c)) /\ UNCHANGED <<phase, step>>)
         /\ WF_vars(TakeLine(c) /\ UNCHANGED <<phase, step>>)
    /\ \A c \in Cli : WF_vars(Call(c) \/ Called(c) \/ Poll(c) \/ Polled(c) \/ Retried(c))

Spec == Init /\ [][Next]_vars
FairSpec == Spec /\ Fairness

-----------------------------------------------------------------------------
(* Properties of the protocol.                                             *)

\* No input the caller wants once is carried out twice, not even in part,
\* whatever times out and is tried again: a command repeats only a request that
\* was answered permission_pending, which the daemon sends instead of injecting.
AtMostOnce ==
    \A i, j \in DOMAIN injected :
        /\ injected[i].client = injected[j].client
        /\ injected[i].goal = injected[j].goal
        => i = j

\* How a request may end, other than in success, that was carried out all the
\* same, or in part.
Doubtful == Failures \cup {"timeout", "lost"}

\* What request() returns is the answer to that request, although answers to
\* requests it gave up may arrive before it: success means that this very
\* input was carried out; and one that was, if only in part, ends in success,
\* in its own failure or without an answer, never in what lets the caller think
\* it was not: permission_pending, which a command takes as leave to repeat it,
\* a line that was cut or not understood, or the answer to a status poll.
AnswersOwn ==
    \A c \in Clients : \A id \in DOMAIN outcome[c] :
        LET served == \E i \in DOMAIN injected :
                        injected[i].client = c /\ injected[i].id = id
        IN  /\ outcome[c][id] = "injected" => served
            /\ served => outcome[c][id] \in {"injected"} \cup Doubtful

\* A request whose line was cut is never carried out, whatever is sent on the
\* connection afterwards.
CutNeverServed ==
    \A i \in DOMAIN injected :
        LET c == injected[i].client
            id == injected[i].id
        IN  id \in DOMAIN outcome[c] => outcome[c][id] # "cut"

Quiet(c) == LoopIdle /\ conn[c] = "up" /\ up[c] = <<>> /\ down[c] = <<>>

\* A command never waits in vain: while it waits and its connection is up,
\* its line or the answer is still on its way, whatever requests, answers and
\* errors came before on the same connection.
NoAnswerMissing == \A c \in Cli : Waiting(c) => ~Quiet(c)

\* What a client wanted of the inputs carried out for it.
Carried(c) == {e.goal : e \in {d \in ToSet(injected) : d.client = c}}

\* A command's calls are carried out in order.  One that reports success has had
\* all of them carried out; one that has died, those before its last, and that
\* one, wholly or in part, only if it failed or no answer to it came: never if
\* the wait for the dialog ended it, or a retry that was put off once more.
CommandTruth ==
    \A c \in Cli :
        /\ \A i, j \in DOMAIN injected :
              injected[i].client = c /\ injected[j].client = c /\ i < j
                  => injected[i].goal < injected[j].goal
        /\ phase[c] = "done" => Carried(c) = 1..Calls
        /\ phase[c] = "died" =>
             \/ Carried(c) = 1..(step[c] - 1)
             \/ Carried(c) = 1..step[c] /\ Result(c) \in Doubtful

\* The requests a command needs to poll once more and to make its calls.
Room(c) == sent[c] + 2 + Calls - step[c] <= MaxRequests[c]

\* If the user grants the session and it stays open, a command that waits for
\* it is carried out, unless it gives up, fails, times out or loses the daemon.
Served ==
    \A c \in Cli :
        [](phase[c] = "wait" /\ Room(c)
           /\ [](gate = "open" /\ phase[c] # "died"
              /\ ~Contains(outcome[c], "timeout") /\ ~Contains(outcome[c], "lost"))
           => <>(phase[c] = "done"))
=============================================================================
