------------------------- MODULE DialogWait_proofs -------------------------
(***************************************************************************)
(* Proofs about the line protocol, for any number of clients, commands and *)
(* requests: its types, and the invariant PInv of what is pending, answered*)
(* and carried out, which every kind of step keeps.  DialogCommand_proofs  *)
(* adds the invariant of the commands and draws the conclusions.           *)
(***************************************************************************)
EXTENDS DialogWait, SequenceTheorems, TLAPS

USE ProtocolAssumption, DialogAssumption

-----------------------------------------------------------------------------
(* Sequences.                                                              *)

\* The elements of a sequence.
LEMMA ToSetTyped ==
    ASSUME NEW S, NEW s \in Seq(S)
    PROVE  ToSet(s) \subseteq S
<1>1. \A i \in DOMAIN s : s[i] \in S
  BY ElementOfSeq
<1>2. QED
  BY <1>1 DEF ToSet

\* What Append adds.
LEMMA AppendAdds ==
    ASSUME NEW S, NEW s \in Seq(S), NEW e \in S
    PROVE  /\ Append(s, e) \in Seq(S)
           /\ Len(Append(s, e)) = Len(s) + 1
           /\ DOMAIN Append(s, e) = DOMAIN s \cup {Len(s) + 1}
           /\ Len(s) + 1 \notin DOMAIN s
           /\ \A i \in DOMAIN s : Append(s, e)[i] = s[i]
           /\ Append(s, e)[Len(s) + 1] = e
           /\ ToSet(Append(s, e)) = ToSet(s) \cup {e}
<1>1. /\ Append(s, e) \in Seq(S)
      /\ Len(Append(s, e)) = Len(s) + 1
      /\ \A i \in 1 .. Len(s) : Append(s, e)[i] = s[i]
      /\ Append(s, e)[Len(s) + 1] = e
  BY AppendProperties
<1>2. /\ Len(s) \in Nat /\ DOMAIN s = 1..Len(s)
      /\ DOMAIN Append(s, e) = 1..(Len(s) + 1)
  BY <1>1
<1>3. \A n \in Nat : 1..(n + 1) = 1..n \cup {n + 1} /\ n + 1 \notin 1..n
  OBVIOUS
<1>4. /\ DOMAIN Append(s, e) = DOMAIN s \cup {Len(s) + 1}
      /\ Len(s) + 1 \notin DOMAIN s
  BY <1>2, <1>3
<1>5. \A i \in DOMAIN s : Append(s, e)[i] = s[i]
  BY <1>1, <1>2
<1>6. ToSet(Append(s, e)) = ToSet(s) \cup {e}
  BY <1>1, <1>4, <1>5 DEF ToSet
<1>7. QED
  BY <1>1, <1>4, <1>5, <1>6

\* What Head takes and Tail leaves.
LEMMA TailTakes ==
    ASSUME NEW S, NEW s \in Seq(S), s # <<>>
    PROVE  /\ Head(s) \in S /\ Head(s) \in ToSet(s) /\ Head(s) = s[1]
           /\ 1 \in DOMAIN s /\ \A i \in DOMAIN s : i >= 1
           /\ Tail(s) \in Seq(S)
           /\ \A i \in DOMAIN Tail(s) : i + 1 \in DOMAIN s /\ Tail(s)[i] = s[i + 1]
           /\ ToSet(s) = {Head(s)} \cup ToSet(Tail(s))
<1>1. Len(s) \in Nat /\ Len(s) # 0 /\ DOMAIN s = 1..Len(s)
  BY EmptySeq
<1>2. 1 \in DOMAIN s /\ \A i \in DOMAIN s : i >= 1
  BY <1>1
<1>3. Tail(s) \in Seq(S) /\ Len(Tail(s)) = Len(s) - 1 /\ Head(s) \in S /\ Head(s) = s[1]
      /\ \A i \in 1..Len(Tail(s)) : Tail(s)[i] = s[i + 1]
  BY <1>1, HeadTailProperties
<1>4. DOMAIN Tail(s) = 1..(Len(s) - 1)
  BY <1>3
<1>5. \A i \in DOMAIN Tail(s) : i + 1 \in DOMAIN s /\ Tail(s)[i] = s[i + 1]
  BY <1>1, <1>3, <1>4
<1>6. \A i \in DOMAIN s : i = 1 \/ (i - 1 \in DOMAIN Tail(s) /\ s[i] = Tail(s)[i - 1])
  <2> TAKE i \in DOMAIN s
  <2>1. i \in 1..Len(s)
    BY <1>1
  <2>2. i # 1 => i - 1 \in 1..(Len(s) - 1) /\ i = (i - 1) + 1
    BY <1>1, <2>1
  <2>3. QED
    BY <1>3, <1>4, <2>2
<1>7. ToSet(s) = {Head(s)} \cup ToSet(Tail(s))
  BY <1>2, <1>3, <1>5, <1>6 DEF ToSet
<1>8. QED
  BY <1>2, <1>3, <1>5, <1>7 DEF ToSet

\* What recv() takes and what it leaves.
LEMMA SubSeqSplits ==
    ASSUME NEW S, NEW s \in Seq(S), NEW n \in 1..Len(s)
    PROVE  /\ SubSeq(s, 1, n) \in Seq(S) /\ SubSeq(s, n + 1, Len(s)) \in Seq(S)
           /\ \A i \in DOMAIN SubSeq(s, 1, n) :
                i \in DOMAIN s /\ i <= n /\ SubSeq(s, 1, n)[i] = s[i]
           /\ \A i \in DOMAIN SubSeq(s, n + 1, Len(s)) :
                i + n \in DOMAIN s /\ i > 0 /\ SubSeq(s, n + 1, Len(s))[i] = s[i + n]
           /\ ToSet(SubSeq(s, 1, n)) \cup ToSet(SubSeq(s, n + 1, Len(s))) = ToSet(s)
<1> DEFINE a == SubSeq(s, 1, n)
           b == SubSeq(s, n + 1, Len(s))
<1>1. Len(s) \in Nat /\ n \in Nat /\ 1 <= n /\ n <= Len(s) /\ DOMAIN s = 1..Len(s)
      /\ \A i \in DOMAIN s : s[i] \in S
  BY ElementOfSeq
<1>2. a = [i \in 1..n |-> s[i]]
  BY <1>1
<1>3. b = [i \in 1..(Len(s) - n) |-> s[i + n]]
  BY <1>1
<1>4. a \in Seq(S) /\ DOMAIN a = 1..n
  BY <1>1, <1>2
<1>5. b \in Seq(S) /\ DOMAIN b = 1..(Len(s) - n)
  BY <1>1, <1>3
<1>6. \A i \in DOMAIN a : i \in DOMAIN s /\ i <= n /\ a[i] = s[i]
  BY <1>1, <1>2, <1>4
<1>7. \A i \in DOMAIN b : i + n \in DOMAIN s /\ i > 0 /\ b[i] = s[i + n]
  BY <1>1, <1>3, <1>5
<1>8. \A i \in DOMAIN s : \/ i \in DOMAIN a /\ s[i] = a[i]
                          \/ i - n \in DOMAIN b /\ s[i] = b[i - n]
  <2> TAKE i \in DOMAIN s
  <2>1. i \in 1..Len(s)
    BY <1>1
  <2>2. i \in 1..n \/ (i - n \in 1..(Len(s) - n) /\ i = (i - n) + n)
    BY <1>1, <2>1
  <2>3. QED
    BY <1>2, <1>3, <1>4, <1>5, <2>2
<1> HIDE DEF a, b
<1>9. ToSet(a) \cup ToSet(b) = ToSet(s)
  BY <1>6, <1>7, <1>8 DEF ToSet
<1>10. QED
  BY <1>4, <1>5, <1>6, <1>7, <1>9 DEF a, b

-----------------------------------------------------------------------------
(* Types.                                                                  *)

\* The types of one client's end of the protocol.
LEMMA TypesOf ==
    ASSUME TypeOK, NEW c \in Clients
    PROVE  /\ sent[c] \in Nat /\ outcome[c] \in Seq(Outcomes)
           /\ Len(outcome[c]) \in Nat /\ DOMAIN outcome[c] = 1..Len(outcome[c])
           /\ Len(outcome[c]) \in {sent[c], sent[c] - 1}
           /\ Waiting(c) => /\ sent[c] = Len(outcome[c]) + 1
                            /\ sent[c] \notin DOMAIN outcome[c]
           /\ ~Waiting(c) => sent[c] = Len(outcome[c])
           /\ up[c] \in Seq(Piece) /\ down[c] \in Seq(Reply)
BY DEF TypeOK, ProtocolTypeOK, Waiting

\* A call of request() that returns.
LEMMA ReturnTyped ==
    ASSUME TypeOK, NEW c \in Clients, NEW o \in Outcomes, Return(c, o),
           \/ Waiting(c) /\ sent' = sent
           \/ ~Waiting(c) /\ sent' = [sent EXCEPT ![c] = @ + 1]
    PROVE  /\ outcome' \in [Clients -> Seq(Outcomes)]
           /\ \A d \in Clients : Len(outcome'[d]) \in {sent'[d], sent'[d] - 1}
           /\ \A d \in Clients \ {c} : outcome'[d] = outcome[d]
           /\ DOMAIN outcome'[c] = DOMAIN outcome[c] \cup {sent'[c]}
           /\ sent'[c] \notin DOMAIN outcome[c]
           /\ outcome'[c][sent'[c]] = o
           /\ \A id \in DOMAIN outcome[c] : outcome'[c][id] = outcome[c][id]
           /\ Len(outcome'[c]) = sent'[c]
<1>1. /\ sent[c] \in Nat /\ outcome[c] \in Seq(Outcomes)
      /\ sent \in [Clients -> Nat] /\ outcome \in [Clients -> Seq(Outcomes)]
      /\ \A d \in Clients : Len(outcome[d]) \in {sent[d], sent[d] - 1}
  BY DEF TypeOK, ProtocolTypeOK
<1>2. sent'[c] = Len(outcome[c]) + 1
  BY <1>1, TypesOf
<1>3. /\ outcome'[c] = Append(outcome[c], o)
      /\ \A d \in Clients \ {c} : outcome'[d] = outcome[d] /\ sent'[d] = sent[d]
      /\ outcome' = [outcome EXCEPT ![c] = Append(outcome[c], o)]
  BY <1>1 DEF Return
<1> DEFINE a == Append(outcome[c], o)
<1>4. /\ a \in Seq(Outcomes)
      /\ Len(a) = Len(outcome[c]) + 1
      /\ DOMAIN a = DOMAIN outcome[c] \cup {Len(outcome[c]) + 1}
      /\ Len(outcome[c]) + 1 \notin DOMAIN outcome[c]
      /\ \A i \in DOMAIN outcome[c] : a[i] = outcome[c][i]
      /\ a[Len(outcome[c]) + 1] = o
  BY <1>1, AppendAdds
<1> HIDE DEF a
<1>5. outcome'[c] = a /\ outcome' = [outcome EXCEPT ![c] = a]
  BY <1>3 DEF a
<1>6. outcome' \in [Clients -> Seq(Outcomes)]
  BY <1>1, <1>4, <1>5
<1>7. \A d \in Clients : Len(outcome'[d]) \in {sent'[d], sent'[d] - 1}
  BY <1>1, <1>2, <1>3, <1>4, <1>5
<1>8. QED
  BY <1>2, <1>3, <1>4, <1>5, <1>6, <1>7

\* A piece appended to what is written.
LEMMA WriteTyped ==
    ASSUME TypeOK, NEW c \in Clients, NEW p \in Piece,
           up' = [up EXCEPT ![c] = Append(@, p)]
    PROVE  up' \in [Clients -> Seq(Piece)]
<1>1. up \in [Clients -> Seq(Piece)]
  BY DEF TypeOK, ProtocolTypeOK
<1>2. Append(up[c], p) \in Seq(Piece)
  BY <1>1, AppendAdds
<1>3. QED
  BY <1>1, <1>2

\* The variables of the daemon's side and the command's.
CommandTypeOK ==
    /\ phase \in [Cli -> {"call", "called", "wait", "polled", "retried",
                          "done", "died"}]
    /\ step \in [Cli -> 1..Calls]

\* request(), whoever makes it.
LEMMA SendTyped ==
    ASSUME TypeOK, NEW c \in Clients, NEW m \in Methods, NEW goal \in Ids,
           SendRequest(c, m, goal), UNCHANGED daemonSide
    PROVE  ProtocolTypeOK'
<1> DEFINE p == [client |-> c, id |-> sent[c] + 1, goal |-> goal, method |-> m,
                 end |-> TRUE]
           p0 == [p EXCEPT !.end = FALSE]
<1>1. /\ sent \in [Clients -> Nat] /\ conn \in [Clients -> {"none", "up", "hangup", "dropped"}]
      /\ up \in [Clients -> Seq(Piece)] /\ outcome \in [Clients -> Seq(Outcomes)]
      /\ \A d \in Clients : Len(outcome[d]) \in {sent[d], sent[d] - 1}
  BY DEF TypeOK, ProtocolTypeOK
<1>2. p \in Piece /\ p0 \in Piece
  <2>1. sent[c] + 1 \in Ids
    BY <1>1 DEF Ids
  <2>2. p \in Piece
    BY <2>1 DEF Piece
  <2>3. p0 \in Piece
    BY <2>2 DEF Piece
  <2>4. QED
    BY <2>2, <2>3
<1>3. /\ ~Waiting(c)
      /\ sent' = [sent EXCEPT ![c] = @ + 1]
      /\ conn' = [conn EXCEPT ![c] = IF @ = "none" THEN "up" ELSE @]
      /\ UNCHANGED <<down, fragment>>
      /\ \/ Return(c, "lost") /\ UNCHANGED up
         \/ up' = [up EXCEPT ![c] = Append(@, p)] /\ UNCHANGED outcome
         \/ /\ Return(c, "cut")
            /\ UNCHANGED up \/ up' = [up EXCEPT ![c] = Append(@, p0)]
  BY DEF SendRequest
<1> HIDE DEF p, p0
<1>4. sent' \in [Clients -> Nat] /\ conn' \in [Clients -> {"none", "up", "hangup", "dropped"}]
  BY <1>1, <1>3
<1>5. up' \in [Clients -> Seq(Piece)]
  BY <1>1, <1>2, <1>3, WriteTyped
<1>6. /\ outcome' \in [Clients -> Seq(Outcomes)]
      /\ \A d \in Clients : Len(outcome'[d]) \in {sent'[d], sent'[d] - 1}
  <2>1. CASE Return(c, "lost") \/ Return(c, "cut")
    BY <1>3, <2>1, ReturnTyped DEF Outcomes
  <2>2. CASE outcome' = outcome
    BY <1>1, <1>3, <2>2, TypesOf
  <2>3. QED
    BY <1>3, <2>1, <2>2
<1>7. QED
  BY <1>3, <1>4, <1>5, <1>6 DEF TypeOK, ProtocolTypeOK, daemonSide

\* An answer, or an exception, for a call that waits.
LEMMA ClientTyped ==
    ASSUME TypeOK, NEW c \in Clients, ClientNext(c)
    PROVE  ProtocolTypeOK'
<1>1. /\ UNCHANGED <<sent, conn, up, fragment, chunk, injected, gateVars>>
      /\ Waiting(c)
      /\ down' \in [Clients -> Seq(Reply)]
      /\ outcome' = outcome \/ \E o \in Outcomes : Return(c, o)
  <2>1. CASE TakeLine(c)
    <3>1. /\ down \in [Clients -> Seq(Reply)] /\ down[c] # <<>>
          /\ down' = [down EXCEPT ![c] = Tail(@)]
      BY <2>1 DEF TakeLine, TypeOK, ProtocolTypeOK
    <3>2. Tail(down[c]) \in Seq(Reply) /\ Head(down[c]) \in Reply
      BY <3>1, TailTakes
    <3>3. QED
      BY <2>1, <3>1, <3>2 DEF TakeLine, Reply, Outcomes
  <2>2. CASE TimeOut(c) \/ Eof(c)
    BY <2>2 DEF TimeOut, Eof, TypeOK, ProtocolTypeOK, Outcomes
  <2>3. QED
    BY <2>1, <2>2 DEF ClientNext
<1>2. /\ outcome' \in [Clients -> Seq(Outcomes)]
      /\ \A d \in Clients : Len(outcome'[d]) \in {sent'[d], sent'[d] - 1}
  <2>1. CASE outcome' = outcome
    BY <1>1, <2>1 DEF TypeOK, ProtocolTypeOK
  <2>2. CASE \E o \in Outcomes : Return(c, o)
    BY <1>1, <2>2, ReturnTyped
  <2>3. QED
    BY <1>1, <2>1, <2>2
<1>3. QED
  BY <1>1, <1>2 DEF TypeOK, ProtocolTypeOK

\* The end of a connection, from either side.
LEMMA LeaveTyped ==
    ASSUME TypeOK, NEW c \in Clients, Leave(c)
    PROVE  /\ conn' \in [Clients -> {"none", "up", "hangup", "dropped"}]
           /\ down' \in [Clients -> Seq(Reply)]
BY DEF Leave, TypeOK, ProtocolTypeOK

\* The end of a connection from the daemon's side: what was unread is lost.
LEMMA DropTyped ==
    ASSUME TypeOK, NEW c \in Clients, Drop(c)
    PROVE  /\ conn' \in [Clients -> {"none", "up", "hangup", "dropped"}]
           /\ up' \in [Clients -> Seq(Piece)]
           /\ fragment' \in [Clients -> BOOLEAN]
BY DEF Drop, TypeOK, ProtocolTypeOK

\* What serving a piece answers: only an input can be carried out; one that was is
\* answered "injected" or with a failure, and only then is "injected" answered.
LEMMA DispatchAnswers ==
    ASSUME NEW p \in Piece, NEW answer, Dispatch(p, answer)
    PROVE  /\ \/ /\ p.method = "input" /\ answer \in {"injected"} \cup Failures
                 /\ injected' = Append(injected, [client |-> p.client, id |-> p.id,
                                                  goal |-> p.goal])
              \/ injected' = injected /\ answer # "injected"
           /\ p.method \in {"input", "status"} => answer # "invalid_json"
<1>1. p.method \in Methods
  BY DEF Piece
<1>2. \/ p.method = "input" /\ DispatchInput(p, answer)
      \/ /\ p.method = "status" /\ injected' = injected
         /\ answer = IF gate = "open" THEN "started" ELSE "unstarted"
      \/ /\ p.method = "session.start" /\ injected' = injected /\ answer = "begun"
      \/ /\ p.method = "huge" /\ injected' = injected /\ answer = "invalid_json"
  BY <1>1 DEF Dispatch, Methods
<1>3. QED
  BY <1>2 DEF DispatchInput, Failures

\* HandleLine serves the first piece of the chunk, if no fragment is before it,
\* and answers with its id or, when it is no JSON, with 0.
LEMMA HandleLineServes ==
    ASSUME TypeOK, HandleLine
    PROVE  /\ chunk # <<>> /\ Head(chunk) \in Piece /\ Head(chunk).end
           /\ UNCHANGED <<sent, outcome>>
           /\ \E answer \in Answers, id \in {0, Head(chunk).id} :
                /\ SendReply(Head(chunk).client, id, answer)
                /\ \/ /\ ~fragment[Head(chunk).client]
                      /\ Head(chunk).method = "input"
                      /\ id = Head(chunk).id /\ answer \in {"injected"} \cup Failures
                      /\ injected' = Append(injected, [client |-> Head(chunk).client,
                                           id |-> id, goal |-> Head(chunk).goal])
                   \/ injected' = injected /\ answer # "injected"
                /\ /\ ~fragment[Head(chunk).client]
                   /\ Head(chunk).method \in {"input", "status"}
                   => id = Head(chunk).id
<1> DEFINE p == Head(chunk)
<1>1. chunk # <<>> /\ p \in Piece /\ p.end /\ UNCHANGED <<sent, outcome>>
  BY TailTakes DEF HandleLine, LoopIdle, TypeOK, ProtocolTypeOK
<1>2. PICK answer \in Answers :
         IF fragment[p.client]
         THEN /\ answer = "invalid_json"
              /\ SendReply(p.client, 0, answer)
              /\ UNCHANGED <<injected, gateVars>>
         ELSE /\ Dispatch(p, answer)
              /\ SendReply(p.client, IF answer = "invalid_json" THEN 0 ELSE p.id, answer)
  BY DEF HandleLine
<1> HIDE DEF p
<1>3. CASE fragment[p.client]
  BY <1>1, <1>2, <1>3 DEF p
<1>4. CASE ~fragment[p.client]
  <2>1. /\ \/ /\ p.method = "input" /\ answer \in {"injected"} \cup Failures
              /\ injected' = Append(injected, [client |-> p.client, id |-> p.id,
                                               goal |-> p.goal])
           \/ injected' = injected /\ answer # "injected"
        /\ p.method \in {"input", "status"} => answer # "invalid_json"
        /\ SendReply(p.client, IF answer = "invalid_json" THEN 0 ELSE p.id, answer)
    BY <1>1, <1>2, <1>4, DispatchAnswers
  <2>2. "invalid_json" \notin {"injected"} \cup Failures
    BY DEF Failures
  <2>3. QED
    BY <1>1, <1>4, <2>1, <2>2 DEF p
<1>5. QED
  BY <1>3, <1>4

\* The reply, or the end of a connection that has gone or is full.
LEMMA SendReplyTyped ==
    ASSUME TypeOK, chunk # <<>>, NEW c \in Clients, NEW id \in Nat,
           NEW answer \in Answers, SendReply(c, id, answer)
    PROVE  /\ conn' \in [Clients -> {"none", "up", "hangup", "dropped"}]
           /\ up' \in [Clients -> Seq(Piece)]
           /\ down' \in [Clients -> Seq(Reply)]
           /\ fragment' \in [Clients -> BOOLEAN]
           /\ chunk' \in Seq(Piece)
<1> DEFINE r == [id |-> id, answer |-> answer]
<1>1. /\ conn \in [Clients -> {"none", "up", "hangup", "dropped"}]
      /\ up \in [Clients -> Seq(Piece)] /\ down \in [Clients -> Seq(Reply)]
      /\ fragment \in [Clients -> BOOLEAN] /\ chunk \in Seq(Piece)
  BY DEF TypeOK, ProtocolTypeOK
<1>2. CASE /\ down' = [down EXCEPT ![c] = Append(down[c], r)]
           /\ chunk' = Tail(chunk) /\ conn' = conn /\ up' = up
           /\ fragment' = [fragment EXCEPT ![c] = FALSE]
  <2>1. r \in Reply
    BY DEF Reply
  <2>2. Append(down[c], r) \in Seq(Reply) /\ Tail(chunk) \in Seq(Piece)
    BY <1>1, <2>1, AppendAdds, TailTakes
  <2> HIDE DEF r
  <2>3. QED
    BY <1>1, <1>2, <2>2
<1>3. CASE Drop(c) /\ chunk' = <<>> /\ down' = down
  <2>1. chunk' \in Seq(Piece)
    BY <1>3
  <2>2. QED
    BY <1>1, <1>3, <2>1, DropTyped
<1>4. QED
  BY <1>1, <1>2, <1>3 DEF SendReply

\* The daemon, whatever it does.
LEMMA DaemonTyped ==
    ASSUME TypeOK, DaemonNext
    PROVE  ProtocolTypeOK'
<1>1. ProtocolTypeOK
  BY DEF TypeOK
<1>2. CASE \E c \in Clients : Read(c)
  <2> PICK c \in Clients : Read(c)
    BY <1>2
  <2>1. up \in [Clients -> Seq(Piece)]
    BY <1>1 DEF ProtocolTypeOK
  <2>2. PICK n \in 1..Len(up[c]) :
           /\ chunk' = SubSeq(up[c], 1, n)
           /\ up' = [up EXCEPT ![c] = SubSeq(up[c], n + 1, Len(up[c]))]
    BY <2>1 DEF Read
  <2>3. SubSeq(up[c], 1, n) \in Seq(Piece) /\ SubSeq(up[c], n + 1, Len(up[c])) \in Seq(Piece)
    BY <2>1, SubSeqSplits
  <2>4. chunk' \in Seq(Piece) /\ up' \in [Clients -> Seq(Piece)]
    BY <2>1, <2>2, <2>3
  <2>5. UNCHANGED <<sent, outcome, conn, down, fragment, injected>>
    BY DEF Read
  <2>6. QED
    BY <1>1, <2>4, <2>5 DEF ProtocolTypeOK
<1>3. CASE \E c \in Clients : OnHangUp(c)
  <2> PICK c \in Clients : OnHangUp(c)
    BY <1>3
  <2>1. Drop(c) /\ UNCHANGED <<sent, outcome, down, chunk, injected>>
    BY DEF OnHangUp
  <2>2. QED
    BY <1>1, <2>1, DropTyped DEF ProtocolTypeOK
<1>4. CASE HandleLine
  <2> DEFINE p == Head(chunk)
  <2>1. /\ chunk # <<>> /\ p \in Piece /\ UNCHANGED <<sent, outcome>>
        /\ \E answer \in Answers, id \in {0, p.id} : SendReply(p.client, id, answer)
        /\ \/ injected' = injected
           \/ injected' = Append(injected, [client |-> p.client, id |-> p.id, goal |-> p.goal])
    BY <1>4, HandleLineServes
  <2> HIDE DEF p
  <2>2. p.client \in Clients /\ p.id \in Ids /\ p.id \in Nat /\ p.goal \in Ids
    BY <2>1 DEF Piece, Ids
  <2>3. /\ conn' \in [Clients -> {"none", "up", "hangup", "dropped"}]
        /\ up' \in [Clients -> Seq(Piece)]
        /\ down' \in [Clients -> Seq(Reply)]
        /\ fragment' \in [Clients -> BOOLEAN]
        /\ chunk' \in Seq(Piece)
    BY <2>1, <2>2, SendReplyTyped
  <2>4. injected' \in Seq([client : Clients, id : Ids, goal : Ids])
    <3> DEFINE e == [client |-> p.client, id |-> p.id, goal |-> p.goal]
               S == [client : Clients, id : Ids, goal : Ids]
    <3>1. e \in S
      BY <2>2
    <3>2. injected \in Seq(S)
      BY <1>1 DEF ProtocolTypeOK
    <3>3. injected' = injected \/ injected' = Append(injected, e)
      BY <2>1
    <3> HIDE DEF e, S
    <3>4. injected' \in Seq(S)
      BY <3>1, <3>2, <3>3, AppendAdds
    <3>5. QED
      BY <3>4 DEF S
  <2>5. QED
    BY <1>1, <2>1, <2>3, <2>4 DEF ProtocolTypeOK
<1>5. CASE KeepFragment
  <2>1. chunk' \in Seq(Piece) /\ fragment' \in [Clients -> BOOLEAN]
    BY <1>1, <1>5, TailTakes DEF KeepFragment, LoopIdle, ProtocolTypeOK
  <2>2. QED
    BY <1>1, <1>5, <2>1 DEF KeepFragment, ProtocolTypeOK
<1>6. CASE DropOverlong
  <2>1. Head(chunk).client \in Clients
    <3>1. chunk \in Seq(Piece) /\ Len(chunk) = 1
      BY <1>1, <1>6 DEF DropOverlong, ProtocolTypeOK
    <3>2. chunk # <<>>
      <4>1. chunk = <<>> => Len(chunk) = 0
        BY <3>1
      <4>2. QED
        BY <3>1, <4>1
    <3>3. Head(chunk) \in Piece
      BY <3>1, <3>2, TailTakes
    <3>4. QED
      BY <3>3 DEF Piece
  <2>2. /\ Drop(Head(chunk).client) /\ chunk' = <<>>
        /\ UNCHANGED <<sent, outcome, down, injected>>
    BY <1>6 DEF DropOverlong
  <2>3. QED
    BY <1>1, <2>1, <2>2, DropTyped DEF ProtocolTypeOK
<1>7. CASE Restart
  <2>1. /\ conn' \in [Clients -> {"none", "up", "hangup", "dropped"}]
        /\ up' \in [Clients -> Seq(Piece)]
        /\ fragment' \in [Clients -> BOOLEAN]
        /\ chunk' \in Seq(Piece)
        /\ UNCHANGED <<sent, outcome, down, injected>>
    BY <1>7 DEF Restart
  <2>2. QED
    BY <1>1, <2>1 DEF ProtocolTypeOK
<1>8. CASE GateMoves
  BY <1>1, <1>8 DEF GateMoves, ProtocolTypeOK, linkVars
<1>9. QED
  BY <1>2, <1>3, <1>4, <1>5, <1>6, <1>7, <1>8 DEF DaemonNext

\* What a command does: it sends, goes on to its next call, goes to sleep, or dies.
Sends(c) ==
    /\ UNCHANGED <<daemonSide, step>>
    /\ \/ /\ phase[c] \in {"call", "polled"} /\ SendRequest(c, "input", step[c])
          /\ phase' = [phase EXCEPT ![c] = IF @ = "call" THEN "called" ELSE "retried"]
       \/ /\ phase[c] = "wait" /\ SendRequest(c, "status", step[c])
          /\ phase' = [phase EXCEPT ![c] = "polled"]

Sleeps(c) ==
    /\ ~Waiting(c)
    /\ phase[c] = "polled" \/ (phase[c] = "called" /\ Result(c) = "permission_pending")
    /\ Goto(c, "wait") /\ UNCHANGED <<protocolVars, step>>

Succeeds(c) ==
    /\ ~Waiting(c) /\ phase[c] \in {"called", "retried"} /\ Result(c) = "injected"
    /\ Advance(c)

Dies(c) ==
    /\ \/ phase[c] = "wait"
       \/ /\ ~Waiting(c) /\ phase[c] \in {"called", "retried"}
          /\ Result(c) # "injected"
    /\ Exit(c, "died")

\* The six actions of a command are these four.
LEMMA CliCases ==
    ASSUME TypeOK, NEW c \in Cli, CliNext(c)
    PROVE  Sends(c) \/ Sleeps(c) \/ Succeeds(c) \/ Dies(c)
<1>1. CASE Call(c) \/ Poll(c)
  BY <1>1 DEF Call, Poll, Sends, Goto, TypeOK
<1>2. CASE Called(c)
  <2>1. phase[c] = "called" /\ ~Waiting(c)
    BY <1>2 DEF Called, Returned
  <2>2. \/ Result(c) = "injected" /\ Advance(c)
        \/ /\ Result(c) = "permission_pending" /\ Goto(c, "wait")
           /\ UNCHANGED <<protocolVars, step>>
        \/ Result(c) # "injected" /\ Exit(c, "died")
    BY <1>2, Zenon DEF Called
  <2>3. QED
    BY <2>1, <2>2 DEF Sleeps, Succeeds, Dies
<1>3. CASE GiveUp(c)
  BY <1>3 DEF GiveUp, Dies
<1>4. CASE Polled(c)
  BY <1>4 DEF Polled, Returned, Sends, Sleeps, Goto, TypeOK
<1>5. CASE Retried(c)
  BY <1>5 DEF Retried, Returned, Succeeds, Dies
<1>6. QED
  BY <1>1, <1>2, <1>3, <1>4, <1>5 DEF CliNext

\* A command.
LEMMA CliTyped ==
    ASSUME TypeOK, NEW c \in Cli, CliNext(c)
    PROVE  TypeOK'
<1>1. /\ ProtocolTypeOK /\ CommandTypeOK /\ c \in Clients
      /\ step[c] \in 1..Calls /\ step[c] \in Ids
  BY DEF TypeOK, CommandTypeOK, Ids
<1>2. CASE Sends(c)
  <2>1. \E m \in Methods : SendRequest(c, m, step[c])
    BY <1>2 DEF Sends, Methods
  <2>2. ProtocolTypeOK'
    BY <1>1, <1>2, <2>1, SendTyped DEF Sends
  <2>3. CommandTypeOK'
    BY <1>1, <1>2 DEF Sends, CommandTypeOK
  <2>4. QED
    BY <2>2, <2>3 DEF TypeOK, CommandTypeOK
<1>3. CASE Sleeps(c)
  BY <1>1, <1>3 DEF Sleeps, Goto, TypeOK, CommandTypeOK, ProtocolTypeOK, protocolVars,
     linkVars
<1>4. CASE \E p \in {"done", "died"} : Exit(c, p)
  <2>1. /\ conn' \in [Clients -> {"none", "up", "hangup", "dropped"}]
        /\ down' \in [Clients -> Seq(Reply)]
    BY <1>1, <1>4, LeaveTyped DEF Exit
  <2>2. UNCHANGED <<sent, outcome, up, fragment, chunk, injected, step>>
    BY <1>4 DEF Exit, daemonSide
  <2>3. CommandTypeOK'
    BY <1>1, <1>4, <2>2 DEF Exit, Goto, CommandTypeOK
  <2>4. QED
    BY <1>1, <2>1, <2>2, <2>3 DEF TypeOK, CommandTypeOK, ProtocolTypeOK
<1>5. CASE /\ step[c] # Calls /\ step' = [step EXCEPT ![c] = @ + 1]
           /\ Goto(c, "call") /\ UNCHANGED protocolVars
  <2>1. step[c] + 1 \in 1..Calls
    BY <1>1, <1>5
  <2>2. CommandTypeOK'
    BY <1>1, <1>5, <2>1 DEF Goto, CommandTypeOK
  <2>3. QED
    BY <1>1, <1>5, <2>2 DEF TypeOK, CommandTypeOK, ProtocolTypeOK, protocolVars, linkVars
<1>6. QED
  BY <1>2, <1>3, <1>4, <1>5, CliCases DEF Succeeds, Dies, Advance

\* A user of the library.
LEMMA LibraryTyped ==
    ASSUME TypeOK, NEW c \in Clients, LibraryNext(c), UNCHANGED <<phase, step>>
    PROVE  TypeOK'
<1>1. ProtocolTypeOK /\ CommandTypeOK /\ CommandTypeOK' /\ sent[c] + 1 \in Ids
  <2>1. ProtocolTypeOK /\ CommandTypeOK /\ CommandTypeOK'
    BY DEF TypeOK, CommandTypeOK
  <2>2. sent[c] \in Nat
    BY TypesOf
  <2>3. QED
    BY <2>1, <2>2 DEF Ids
<1>2. ProtocolTypeOK'
  <2>1. CASE HangUp(c)
    BY <1>1, <2>1, LeaveTyped DEF HangUp, ProtocolTypeOK
  <2>2. CASE \E m \in Methods : SendRequest(c, m, sent[c] + 1) /\ UNCHANGED daemonSide
    BY <1>1, <2>2, SendTyped
  <2>3. QED
    BY <2>1, <2>2 DEF LibraryNext
<1>3. QED
  BY <1>1, <1>2 DEF TypeOK, CommandTypeOK

\* In the initial state, and in every step.
LEMMA TypeInit == Init => TypeOK
BY DEF Init, ProtocolInit, TypeOK, ProtocolTypeOK

\* Every step keeps the types.
LEMMA TypeNext ==
    ASSUME TypeOK, [Next]_vars
    PROVE  TypeOK'
<1>1. CASE \E c \in Cli : CliNext(c)
  BY <1>1, CliTyped
<1>2. CASE \E c \in Clients \ Cli : LibraryNext(c) /\ UNCHANGED <<phase, step>>
  BY <1>2, LibraryTyped
<1>3. CASE /\ DaemonNext \/ \E c \in Clients : ClientNext(c)
           /\ UNCHANGED <<phase, step>>
  <2>1. ProtocolTypeOK'
    BY <1>3, DaemonTyped, ClientTyped
  <2>2. QED
    BY <1>3, <2>1 DEF TypeOK
<1>4. CASE UNCHANGED vars
  BY <1>4 DEF TypeOK, ProtocolTypeOK, vars, protocolVars, linkVars
<1>5. QED
  BY <1>1, <1>2, <1>3, <1>4 DEF Next

\* The types hold in every behaviour, with at most one request of a client
\* without an outcome.
THEOREM DialogTypeCorrect == Spec => []TypeOK
<1>1. Init => TypeOK
  BY TypeInit
<1>2. TypeOK /\ [Next]_vars => TypeOK'
  BY TypeNext
<1>3. QED
  BY <1>1, <1>2, PTL DEF Spec

-----------------------------------------------------------------------------
(* The inductive invariant of the protocol.                                *)

\* What a client has written and the daemon has not handled, and what has been
\* carried out for it.
Pending(c) == {p \in ToSet(chunk) : p.client = c} \cup ToSet(up[c])

Done(c) == {e \in ToSet(injected) : e.client = c}

CarriedOut(c, id) == \E e \in Done(c) : e.id = id

\* The pieces that can still lead to an injection.
Live(c) == {p \in Pending(c) : p.end /\ p.method = "input"}

Ascending(s) == \A i, j \in DOMAIN s : i < j => s[i].id < s[j].id

\* Pieces come one client's at a time, in the order of their ids.
Ordered ==
    /\ \A i, j \in DOMAIN chunk : chunk[i].client = chunk[j].client
    /\ Ascending(chunk)
    /\ \A c \in Clients :
         /\ Ascending(up[c])
         /\ \A q \in ToSet(up[c]) :
              /\ q.client = c
              /\ \A p \in ToSet(chunk) : p.client = c => p.id < q.id

\* An input or an answer is older than everything that is pending.
Past(c, x) ==
    /\ x.id <= sent[c]
    /\ \A p \in Pending(c) : x.id < p.id

IdsPass ==
    \A c \in Clients :
        /\ \A p \in Pending(c) : p.id <= sent[c]
        /\ \A e \in Done(c) : Past(c, e)
        /\ \A r \in ToSet(down[c]) : Past(c, r)

\* An answer on its way that says so tells of an input that was carried out, and
\* the answer to one that was says so or is a failure.
RepliesTrue ==
    \A c \in Clients : \A r \in ToSet(down[c]) :
        /\ r.answer = "injected" => CarriedOut(c, r.id)
        /\ CarriedOut(c, r.id) => r.answer \in {"injected"} \cup Failures

\* A request whose line is still pending has returned, if at all, without an
\* answer; and not as cut, for a cut line is not whole.
PendingUnanswered ==
    \A c \in Clients : \A p \in Pending(c) :
        p.end /\ p.id \in DOMAIN outcome[c] => outcome[c][p.id] \in {"timeout", "lost"}

\* What is pending and what has been carried out are wanted once.
GoalsOnce ==
    /\ AtMostOnce
    /\ \A c \in Clients :
         /\ \A p \in Live(c), e \in Done(c) : e.goal # p.goal
         /\ \A p, q \in Live(c) : p.goal = q.goal => p = q
         /\ c \notin Cli => \A x \in Live(c) \cup Done(c) : x.goal = x.id

PInv ==
    /\ TypeOK
    /\ Ordered
    /\ IdsPass
    /\ RepliesTrue
    /\ PendingUnanswered
    /\ AnswersOwn
    /\ GoalsOnce

\* The types of what is pending, done and answered.
LEMMA MembersTyped ==
    ASSUME TypeOK, NEW c \in Clients
    PROVE  /\ Pending(c) \subseteq Piece
           /\ \A p \in Pending(c) : p.id \in Nat /\ p.id # 0
           /\ \A e \in Done(c) : /\ e \in [client : Clients, id : Ids, goal : Ids]
                                 /\ e.id \in Nat /\ e.id # 0
           /\ \A r \in ToSet(down[c]) : r.id \in Nat /\ r.answer \in Answers
<1>1. /\ chunk \in Seq(Piece) /\ up[c] \in Seq(Piece) /\ down[c] \in Seq(Reply)
      /\ injected \in Seq([client : Clients, id : Ids, goal : Ids])
  BY DEF TypeOK, ProtocolTypeOK
<1>2. /\ ToSet(chunk) \subseteq Piece /\ ToSet(up[c]) \subseteq Piece
      /\ ToSet(down[c]) \subseteq Reply
      /\ ToSet(injected) \subseteq [client : Clients, id : Ids, goal : Ids]
  BY <1>1, ToSetTyped
<1>3. Pending(c) \subseteq Piece
  BY <1>2 DEF Pending
<1>4. \A p \in Piece : p.id \in Nat /\ p.id # 0
  BY DEF Piece, Ids
<1>5. \A e \in [client : Clients, id : Ids, goal : Ids] : e.id \in Nat /\ e.id # 0
  BY DEF Ids
<1>6. \A r \in Reply : r.id \in Nat /\ r.answer \in Answers
  BY DEF Reply
<1>7. QED
  BY <1>2, <1>3, <1>4, <1>5, <1>6 DEF Done

\* AnswersOwn in these terms, before and after a step.
LEMMA AnswersOwnIs ==
    AnswersOwn <=>
        \A c \in Clients : \A id \in DOMAIN outcome[c] :
            /\ outcome[c][id] = "injected" => CarriedOut(c, id)
            /\ CarriedOut(c, id) => outcome[c][id] \in {"injected"} \cup Doubtful
<1>1. \A c, id : CarriedOut(c, id)
         <=> \E i \in DOMAIN injected : injected[i].client = c /\ injected[i].id = id
  BY DEF CarriedOut, Done, ToSet
<1>2. QED
  BY <1>1 DEF AnswersOwn

\* The same of the state after a step.
LEMMA AnswersOwnPrimed ==
    AnswersOwn' <=>
        \A c \in Clients : \A id \in DOMAIN outcome'[c] :
            /\ outcome'[c][id] = "injected" => CarriedOut(c, id)'
            /\ CarriedOut(c, id)' => outcome'[c][id] \in {"injected"} \cup Doubtful
<1>1. \A c, id : CarriedOut(c, id)'
         <=> \E i \in DOMAIN injected' : injected'[i].client = c /\ injected'[i].id = id
  BY DEF CarriedOut, Done, ToSet
<1>2. QED
  BY <1>1 DEF AnswersOwn

-----------------------------------------------------------------------------
(* What is pending after a step.                                           *)

\* The first piece of the chunk is taken.
LEMMA TailPending ==
    ASSUME TypeOK, Ordered, chunk # <<>>, chunk' = Tail(chunk), up' = up,
           NEW h, h = Head(chunk)
    PROVE  /\ Ordered'
           /\ h \in Pending(h.client)
           /\ \A q \in Pending(h.client)' : h.id < q.id
           /\ \A c \in Clients : Pending(c)' \subseteq Pending(c)
           /\ \A c \in Clients : \A q \in Pending(c) :
                q \in Pending(c)' \/ (q = h /\ c = h.client)
<1> DEFINE t == Tail(chunk)
<1>1. /\ chunk \in Seq(Piece) /\ h \in Piece /\ h \in ToSet(chunk) /\ h = chunk[1]
      /\ 1 \in DOMAIN chunk /\ \A i \in DOMAIN chunk : i >= 1
      /\ t \in Seq(Piece)
      /\ \A i \in DOMAIN t : i + 1 \in DOMAIN chunk /\ t[i] = chunk[i + 1]
      /\ ToSet(chunk) = {h} \cup ToSet(t)
  BY TailTakes DEF TypeOK, ProtocolTypeOK
<1>2. \A i \in DOMAIN t : i \in Nat /\ i # 0
  BY <1>1
<1> HIDE DEF t
<1>3. chunk' = t /\ h.client \in Clients
  BY <1>1 DEF t, Piece
<1>4. \A i, j \in DOMAIN t : t[i].client = t[j].client
  BY <1>1 DEF Ordered
<1>5. Ascending(t)
  <2> SUFFICES ASSUME NEW i \in DOMAIN t, NEW j \in DOMAIN t, i < j
               PROVE  t[i].id < t[j].id
    BY DEF Ascending
  <2>1. i + 1 < j + 1
    BY <1>2
  <2>2. QED
    BY <1>1, <2>1 DEF Ordered, Ascending
<1>6. \A q \in ToSet(t) : h.id < q.id
  <2> SUFFICES ASSUME NEW i \in DOMAIN t PROVE h.id < t[i].id
    BY DEF ToSet
  <2>1. 1 < i + 1
    BY <1>2
  <2>2. QED
    BY <1>1, <2>1 DEF Ordered, Ascending
<1>7. Ordered'
  BY <1>1, <1>3, <1>4, <1>5 DEF Ordered, Ascending
<1>8. \A q \in ToSet(up[h.client]) : h.id < q.id
  BY <1>1, <1>3 DEF Ordered
<1>9. \A c \in Clients : Pending(c)' = {p \in ToSet(t) : p.client = c} \cup ToSet(up[c])
  BY <1>3 DEF Pending
<1>10. \A q \in Pending(h.client)' : h.id < q.id
  BY <1>3, <1>6, <1>8, <1>9
<1>11. h \in Pending(h.client) /\ \A c \in Clients : Pending(c)' \subseteq Pending(c)
  BY <1>1, <1>9 DEF Pending
<1>12. \A c \in Clients : \A q \in Pending(c) :
          q \in Pending(c)' \/ (q = h /\ c = h.client)
  BY <1>1, <1>9 DEF Pending
<1>13. QED
  BY <1>7, <1>10, <1>11, <1>12

\* A client is dropped when no chunk is left.
LEMMA DropPending ==
    ASSUME TypeOK, Ordered, NEW c \in Clients, Drop(c), chunk' = <<>>
    PROVE  /\ Ordered' /\ Pending(c)' = {}
           /\ \A d \in Clients : Pending(d)' \subseteq Pending(d)
<1>1. up' = [up EXCEPT ![c] = <<>>] /\ up \in [Clients -> Seq(Piece)]
  BY DEF Drop, TypeOK, ProtocolTypeOK
<1>2. up'[c] = <<>> /\ \A d \in Clients \ {c} : up'[d] = up[d]
  BY <1>1
<1>3. ToSet(chunk') = {} /\ DOMAIN chunk' = {} /\ ToSet(up'[c]) = {} /\ DOMAIN up'[c] = {}
  BY <1>2 DEF ToSet
<1>4. Ordered'
  BY <1>2, <1>3 DEF Ordered, Ascending
<1>5. \A d \in Clients : Pending(d)' = ToSet(up'[d])
  BY <1>3 DEF Pending
<1>6. QED
  BY <1>2, <1>3, <1>4, <1>5 DEF Pending

\* The daemon reads.
LEMMA ReadPending ==
    ASSUME TypeOK, Ordered, NEW c \in Clients, Read(c)
    PROVE  Ordered' /\ \A d \in Clients : Pending(d)' = Pending(d)
<1>1. up \in [Clients -> Seq(Piece)] /\ up[c] \in Seq(Piece) /\ ToSet(chunk) = {}
  BY DEF TypeOK, ProtocolTypeOK, Read, LoopIdle, ToSet
<1>2. PICK n \in 1..Len(up[c]) :
         /\ chunk' = SubSeq(up[c], 1, n)
         /\ up' = [up EXCEPT ![c] = SubSeq(up[c], n + 1, Len(up[c]))]
  BY <1>1 DEF Read
<1> DEFINE a == SubSeq(up[c], 1, n)
           b == SubSeq(up[c], n + 1, Len(up[c]))
<1>3. /\ \A i \in DOMAIN a : i \in DOMAIN up[c] /\ i <= n /\ a[i] = up[c][i]
      /\ \A i \in DOMAIN b : i + n \in DOMAIN up[c] /\ i > 0 /\ b[i] = up[c][i + n]
      /\ ToSet(a) \cup ToSet(b) = ToSet(up[c])
      /\ a \in Seq(Piece) /\ b \in Seq(Piece)
  BY <1>1, SubSeqSplits
<1>4. n \in Nat /\ (\A i \in DOMAIN a : i \in Nat) /\ (\A i \in DOMAIN b : i \in Nat)
  BY <1>1, <1>3
<1> HIDE DEF a, b
<1>5. chunk' = a /\ up'[c] = b /\ \A d \in Clients \ {c} : up'[d] = up[d]
  BY <1>1, <1>2 DEF a, b
<1>6. \A q \in ToSet(up[c]) : q.client = c
  BY DEF Ordered
<1>7. Ascending(a) /\ Ascending(b)
  <2>1. Ascending(a)
    BY <1>3 DEF Ordered, Ascending
  <2>2. ASSUME NEW i \in DOMAIN b, NEW j \in DOMAIN b, i < j
        PROVE  b[i].id < b[j].id
    <3>1. i + n < j + n
      BY <1>4, <2>2
    <3>2. QED
      BY <1>3, <3>1 DEF Ordered, Ascending
  <2>3. QED
    BY <2>1, <2>2 DEF Ascending
<1>8. \A p \in ToSet(a), q \in ToSet(b) : p.id < q.id
  <2> SUFFICES ASSUME NEW i \in DOMAIN a, NEW j \in DOMAIN b
               PROVE  a[i].id < b[j].id
    BY DEF ToSet
  <2>1. i < j + n
    BY <1>3, <1>4
  <2>2. QED
    BY <1>3, <2>1 DEF Ordered, Ascending
<1>9. \A p \in ToSet(a) : p.client = c
  BY <1>3, <1>6
<1>10. \A i \in DOMAIN a : a[i].client = c
  BY <1>9 DEF ToSet
<1>11. Ordered'
  <2>1. \A d \in Clients : Ascending(up'[d])
    BY <1>5, <1>7 DEF Ordered
  <2>2. \A d \in Clients : \A q \in ToSet(up'[d]) :
          q.client = d /\ \A p \in ToSet(a) : p.client = d => p.id < q.id
    BY <1>3, <1>5, <1>6, <1>8, <1>9 DEF Ordered
  <2>3. QED
    BY <1>5, <1>7, <1>10, <2>1, <2>2 DEF Ordered, Ascending
<1>12. \A d \in Clients : Pending(d)' = {p \in ToSet(a) : p.client = d} \cup ToSet(up'[d])
  BY <1>5 DEF Pending
<1>13. \A d \in Clients : Pending(d) = ToSet(up[d])
  BY <1>1 DEF Pending
<1>14. \A d \in Clients : Pending(d)' = Pending(d)
  <2> TAKE d \in Clients
  <2>1. CASE d = c
    <3>1. {p \in ToSet(a) : p.client = d} = ToSet(a)
      BY <1>9, <2>1
    <3>2. QED
      BY <1>3, <1>5, <1>12, <1>13, <2>1, <3>1
  <2>2. CASE d # c
    <3>1. {p \in ToSet(a) : p.client = d} = {}
      BY <1>9, <2>2
    <3>2. QED
      BY <1>5, <1>12, <1>13, <2>2, <3>1
  <2>3. QED
    BY <2>1, <2>2
<1>15. QED
  BY <1>11, <1>14

-----------------------------------------------------------------------------
(* The steps, as the invariant sees them.                                  *)

\* A step that adds nothing to what is pending, answered or carried out.
Shrinks ==
    /\ Ordered'
    /\ \A c \in Clients : /\ Pending(c)' \subseteq Pending(c)
                          /\ ToSet(down'[c]) \subseteq ToSet(down[c])
    /\ UNCHANGED <<sent, injected>>

\* A call that returns, for want of an answer or with the one that has come.
Returns(c) ==
    \E o \in Outcomes :
        /\ Waiting(c) /\ Return(c, o)
        /\ \/ o \in {"timeout", "lost"}
           \/ \E r \in ToSet(down[c]) : r.id = sent[c] /\ o = r.answer

\* Such a step keeps the invariant, also when a call returns with it.
LEMMA ShrinkKeeps ==
    ASSUME PInv, TypeOK', Shrinks, outcome' = outcome \/ \E c \in Clients : Returns(c)
    PROVE  PInv'
<1>1. /\ TypeOK /\ IdsPass /\ RepliesTrue /\ PendingUnanswered /\ AnswersOwn /\ GoalsOnce
  BY DEF PInv
<1>2. /\ \A c \in Clients : /\ Pending(c)' \subseteq Pending(c)
                            /\ Live(c)' \subseteq Live(c)
                            /\ ToSet(down'[c]) \subseteq ToSet(down[c])
      /\ \A c : Done(c)' = Done(c)
      /\ \A c, id : CarriedOut(c, id)' <=> CarriedOut(c, id)
      /\ sent' = sent /\ injected' = injected
  BY DEF Shrinks, Done, Live, CarriedOut
<1>3. IdsPass'
  BY <1>1, <1>2 DEF IdsPass, Past
<1>4. RepliesTrue'
  BY <1>1, <1>2 DEF RepliesTrue
<1>5. GoalsOnce'
  BY <1>1, <1>2 DEF GoalsOnce, AtMostOnce
<1>6. PendingUnanswered' /\ AnswersOwn'
  <2>1. CASE outcome' = outcome
    <3>1. PendingUnanswered'
      BY <1>1, <1>2, <2>1 DEF PendingUnanswered
    <3>2. AnswersOwn'
      BY <1>1, <1>2, <2>1 DEF AnswersOwn
    <3>3. QED
      BY <3>1, <3>2
  <2>2. CASE \E c \in Clients : Returns(c)
    <3> PICK c \in Clients, o \in Outcomes :
           /\ Waiting(c) /\ Return(c, o)
           /\ \/ o \in {"timeout", "lost"}
              \/ \E r \in ToSet(down[c]) : r.id = sent[c] /\ o = r.answer
      BY <2>2 DEF Returns
    <3>1. /\ \A d \in Clients \ {c} : outcome'[d] = outcome[d]
          /\ DOMAIN outcome'[c] = DOMAIN outcome[c] \cup {sent[c]}
          /\ sent[c] \notin DOMAIN outcome[c]
          /\ outcome'[c][sent[c]] = o
          /\ \A id \in DOMAIN outcome[c] : outcome'[c][id] = outcome[c][id]
      BY <1>1, <1>2, ReturnTyped
    <3>2. ASSUME NEW r \in ToSet(down[c]), r.id = sent[c], o = r.answer
          PROVE  /\ \A p \in Pending(c) : p.id # sent[c]
                 /\ o = "injected" => CarriedOut(c, sent[c])
                 /\ CarriedOut(c, sent[c]) => o \in {"injected"} \cup Failures
      <4>1. \A p \in Pending(c) : sent[c] < p.id
        BY <1>1, <3>2 DEF IdsPass, Past
      <4>2. sent[c] \in Nat
        BY <1>1, TypesOf
      <4>3. \A p \in Pending(c) : p.id # sent[c]
        BY <4>1, <4>2
      <4>4. QED
        BY <1>1, <3>2, <4>3 DEF RepliesTrue
    <3>3. PendingUnanswered'
      <4> SUFFICES ASSUME NEW d \in Clients, NEW p \in Pending(d)',
                          p.end, p.id \in DOMAIN outcome'[d]
                   PROVE  outcome'[d][p.id] \in {"timeout", "lost"}
        BY DEF PendingUnanswered
      <4>1. p \in Pending(d)
        BY <1>2
      <4>2. CASE p.id \in DOMAIN outcome[d]
        BY <1>1, <3>1, <4>1, <4>2 DEF PendingUnanswered
      <4>3. CASE p.id \notin DOMAIN outcome[d]
        <5>1. d = c /\ p.id = sent[c]
          BY <3>1, <4>3
        <5>2. QED
          BY <3>1, <3>2, <4>1, <5>1
      <4>4. QED
        BY <4>2, <4>3
    <3>4. ASSUME NEW d \in Clients, NEW id \in DOMAIN outcome'[d]
          PROVE  /\ outcome'[d][id] = "injected" => CarriedOut(d, id)'
                 /\ CarriedOut(d, id)' => outcome'[d][id] \in {"injected"} \cup Doubtful
      <4>1. CASE id \in DOMAIN outcome[d]
        BY <1>1, <1>2, <3>1, <4>1, AnswersOwnIs
      <4>2. CASE id \notin DOMAIN outcome[d]
        <5>1. d = c /\ id = sent[c]
          BY <3>1, <3>4, <4>2
        <5>2. o \in {"timeout", "lost"} => o # "injected" /\ o \in {"injected"} \cup Doubtful
          BY DEF Doubtful
        <5>3. o \in {"injected"} \cup Failures => o \in {"injected"} \cup Doubtful
          BY DEF Doubtful
        <5>4. QED
          BY <1>2, <3>1, <3>2, <5>1, <5>2, <5>3
      <4>3. QED
        BY <4>1, <4>2
    <3>5. AnswersOwn'
      BY <3>4, AnswersOwnPrimed
    <3>6. QED
      BY <3>3, <3>5
  <2>3. QED
    BY <2>1, <2>2
<1>7. QED
  BY <1>3, <1>4, <1>5, <1>6 DEF PInv, Shrinks

\* A line h is handled: it is pending no more, its answer may be on its way, and
\* it may have been carried out, which the answer then says.
Handles(h, id, answer) ==
    /\ h.client \in Clients /\ h \in Pending(h.client) /\ h.end
    /\ Ordered'
    /\ \A d \in Clients : Pending(d)' \subseteq Pending(d)
    /\ \A q \in Pending(h.client)' : h.id < q.id
    /\ id \in {0, h.id}
    /\ \A d \in Clients \ {h.client} : ToSet(down'[d]) \subseteq ToSet(down[d])
    /\ ToSet(down'[h.client])
         \subseteq ToSet(down[h.client]) \cup {[id |-> id, answer |-> answer]}
    /\ \/ /\ h.method = "input" /\ id = h.id /\ answer \in {"injected"} \cup Failures
          /\ injected' = Append(injected, [client |-> h.client, id |-> id, goal |-> h.goal])
       \/ injected' = injected /\ answer # "injected"
    /\ UNCHANGED <<sent, outcome>>

\* What is carried out after a line has been handled.
LEMMA HandlesDone ==
    ASSUME PInv, NEW h, NEW id, NEW answer, Handles(h, id, answer)
    PROVE  /\ \A d : Done(d) \subseteq Done(d)'
           /\ \A d \in Clients : \A e \in Done(d)' :
                \/ e \in Done(d)
                \/ /\ d = h.client /\ h \in Live(h.client) /\ answer \in {"injected"} \cup Failures
                   /\ id = h.id /\ e.id = h.id /\ e.goal = h.goal
           /\ answer = "injected" => CarriedOut(h.client, h.id)' /\ id = h.id
           /\ ~CarriedOut(h.client, h.id)
           /\ \A d, k : CarriedOut(d, k)' /\ d \in Clients =>
                \/ CarriedOut(d, k)
                \/ /\ d = h.client /\ k = h.id /\ id = h.id
                   /\ answer \in {"injected"} \cup Failures
<1> DEFINE e0 == [client |-> h.client, id |-> h.id, goal |-> h.goal]
           S == [client : Clients, id : Ids, goal : Ids]
<1>1. injected \in Seq(S) /\ TypeOK /\ IdsPass
  BY DEF PInv, TypeOK, ProtocolTypeOK
<1>2. e0 \in S /\ h.client \in Clients /\ h \in Pending(h.client)
  BY <1>1, MembersTyped DEF Handles, Piece
<1>3. /\ e0.client = h.client /\ e0.id = h.id /\ e0.goal = h.goal
      /\ \/ /\ h \in Live(h.client) /\ id = h.id /\ answer \in {"injected"} \cup Failures
            /\ injected' = Append(injected, e0)
         \/ injected' = injected /\ answer # "injected"
  BY DEF Handles, Live
<1> HIDE DEF e0, S
<1>4. \/ /\ h \in Live(h.client) /\ id = h.id /\ answer \in {"injected"} \cup Failures
         /\ ToSet(injected') = ToSet(injected) \cup {e0}
      \/ ToSet(injected') = ToSet(injected) /\ answer # "injected"
  <2>1. ToSet(Append(injected, e0)) = ToSet(injected) \cup {e0}
    BY <1>1, <1>2, AppendAdds
  <2>2. QED
    BY <1>3, <2>1
<1>5. \A d : Done(d) \subseteq Done(d)'
  BY <1>4 DEF Done
<1>6. \A d \in Clients : \A e \in Done(d)' :
         \/ e \in Done(d)
         \/ /\ d = h.client /\ h \in Live(h.client) /\ answer \in {"injected"} \cup Failures
            /\ id = h.id /\ e.id = h.id /\ e.goal = h.goal
  BY <1>3, <1>4 DEF Done
<1>7. answer = "injected" => CarriedOut(h.client, h.id)' /\ id = h.id
  BY <1>3, <1>4 DEF CarriedOut, Done
<1>8. ~CarriedOut(h.client, h.id)
  <2>1. \A e \in Done(h.client) : e.id < h.id /\ e.id \in Nat /\ h.id \in Nat
    BY <1>1, <1>2, MembersTyped DEF IdsPass, Past
  <2>2. QED
    BY <2>1 DEF CarriedOut
<1>9. \A d, k : CarriedOut(d, k)' /\ d \in Clients =>
          \/ CarriedOut(d, k)
          \/ /\ d = h.client /\ k = h.id /\ id = h.id
             /\ answer \in {"injected"} \cup Failures
  BY <1>6 DEF CarriedOut
<1>10. QED
  BY <1>5, <1>6, <1>7, <1>8, <1>9

\* Handling a line keeps the invariant: the line is older than what is still
\* pending and newer than what has been answered, so its answer is the only one.
LEMMA HandleKeeps ==
    ASSUME PInv, TypeOK', NEW h, NEW id, NEW answer, Handles(h, id, answer)
    PROVE  PInv'
<1>1. /\ TypeOK /\ IdsPass /\ RepliesTrue /\ PendingUnanswered /\ AnswersOwn /\ GoalsOnce
      /\ h.client \in Clients /\ h \in Pending(h.client) /\ h.end
      /\ \A d \in Clients : Pending(d)' \subseteq Pending(d)
      /\ \A q \in Pending(h.client)' : h.id < q.id
      /\ id \in {0, h.id}
      /\ sent' = sent /\ outcome' = outcome
      /\ h.id \in Nat /\ h.id # 0 /\ sent[h.client] \in Nat /\ h.id <= sent[h.client]
  BY MembersTyped, TypesOf DEF PInv, Handles, IdsPass
<1>2. /\ \A d : Done(d) \subseteq Done(d)'
      /\ \A d \in Clients : \A e \in Done(d)' :
           \/ e \in Done(d)
           \/ /\ d = h.client /\ h \in Live(h.client) /\ answer \in {"injected"} \cup Failures
              /\ id = h.id /\ e.id = h.id /\ e.goal = h.goal
      /\ answer = "injected" => CarriedOut(h.client, h.id)' /\ id = h.id
      /\ ~CarriedOut(h.client, h.id)
      /\ \A d, k : CarriedOut(d, k)' /\ d \in Clients =>
           \/ CarriedOut(d, k)
           \/ /\ d = h.client /\ k = h.id /\ id = h.id
              /\ answer \in {"injected"} \cup Failures
  BY HandlesDone
<1>3. \A d \in Clients : \A r \in ToSet(down'[d]) :
         \/ r \in ToSet(down[d])
         \/ d = h.client /\ r.id = id /\ r.answer = answer
  BY DEF Handles
<1>4. \A d, k : CarriedOut(d, k) => CarriedOut(d, k)'
  BY <1>2 DEF CarriedOut
<1>5. IdsPass'
  <2>1. ASSUME NEW d \in Clients, NEW e \in Done(d)' PROVE Past(d, e)'
    BY <1>1, <1>2 DEF IdsPass, Past
  <2>2. ASSUME NEW d \in Clients, NEW r \in ToSet(down'[d]) PROVE Past(d, r)'
    <3>1. CASE r \in ToSet(down[d])
      BY <1>1, <3>1 DEF IdsPass, Past
    <3>2. CASE d = h.client /\ r.id = h.id
      BY <1>1, <3>2 DEF Past
    <3>3. CASE r.id = 0
      <4>1. \A p \in Pending(d)' : 0 < p.id
        BY <1>1, MembersTyped
      <4>2. sent[d] \in Nat
        BY <1>1, TypesOf
      <4>3. QED
        BY <1>1, <3>3, <4>1, <4>2 DEF Past
    <3>4. QED
      BY <1>1, <1>3, <3>1, <3>2, <3>3
  <2>3. QED
    BY <1>1, <2>1, <2>2 DEF IdsPass
<1>6. RepliesTrue'
  <2> SUFFICES ASSUME NEW d \in Clients, NEW r \in ToSet(down'[d])
               PROVE  /\ r.answer = "injected" => CarriedOut(d, r.id)'
                      /\ CarriedOut(d, r.id)' => r.answer \in {"injected"} \cup Failures
    BY DEF RepliesTrue
  <2>1. CASE r \in ToSet(down[d])
    <3>1. d = h.client => r.id < h.id /\ r.id \in Nat
      BY <1>1, <2>1, MembersTyped DEF IdsPass, Past
    <3>2. CarriedOut(d, r.id)' => CarriedOut(d, r.id)
      BY <1>1, <1>2, <3>1
    <3>3. QED
      BY <1>1, <1>4, <2>1, <3>2 DEF RepliesTrue
  <2>2. CASE d = h.client /\ r.id = id /\ r.answer = answer
    <3>1. ~CarriedOut(d, 0)
      BY <1>1, MembersTyped DEF CarriedOut
    <3>2. QED
      BY <1>1, <1>2, <2>2, <3>1
  <2>3. QED
    BY <1>3, <2>1, <2>2
<1>7. PendingUnanswered'
  BY <1>1 DEF PendingUnanswered
<1>8. AnswersOwn'
  <2>1. ASSUME NEW d \in Clients, NEW k \in DOMAIN outcome[d]
        PROVE  /\ outcome[d][k] = "injected" => CarriedOut(d, k)'
               /\ CarriedOut(d, k)' => outcome[d][k] \in {"injected"} \cup Doubtful
    <3>1. /\ outcome[d][k] = "injected" => CarriedOut(d, k)
          /\ CarriedOut(d, k) => outcome[d][k] \in {"injected"} \cup Doubtful
      BY <1>1, <2>1, AnswersOwnIs
    <3>2. d = h.client /\ k = h.id => outcome[d][k] \in {"timeout", "lost"}
      BY <1>1, <2>1 DEF PendingUnanswered
    <3>3. {"timeout", "lost"} \subseteq Doubtful
      BY DEF Doubtful
    <3>4. QED
      BY <1>2, <1>4, <2>1, <3>1, <3>2, <3>3
  <2>2. QED
    BY <1>1, <2>1, AnswersOwnPrimed
<1>9. \A d \in Clients : Live(d)' \subseteq Live(d)
  BY <1>1 DEF Live
<1>10. AtMostOnce'
  <2>1. CASE injected' = injected
    BY <1>1, <2>1 DEF GoalsOnce, AtMostOnce
  <2>2. CASE /\ h.method = "input" /\ id = h.id
             /\ injected' = Append(injected, [client |-> h.client, id |-> id, goal |-> h.goal])
    <3> DEFINE e0 == [client |-> h.client, id |-> h.id, goal |-> h.goal]
               S == [client : Clients, id : Ids, goal : Ids]
    <3>1. injected \in Seq(S) /\ e0 \in S
      <4>1. injected \in Seq(S)
        BY <1>1 DEF TypeOK, ProtocolTypeOK
      <4>2. h \in Piece
        BY <1>1, MembersTyped
      <4>3. QED
        BY <4>1, <4>2 DEF Piece
    <3>2. injected' = Append(injected, e0) /\ e0.client = h.client /\ e0.goal = h.goal
      BY <2>2
    <3> HIDE DEF e0, S
    <3>3. /\ DOMAIN injected' = DOMAIN injected \cup {Len(injected) + 1}
          /\ \A i \in DOMAIN injected : injected'[i] = injected[i]
          /\ injected'[Len(injected) + 1] = e0
      BY <3>1, <3>2, AppendAdds
    <3>4. h \in Live(h.client)
      BY <1>1, <2>2 DEF Live
    <3>5. \A i \in DOMAIN injected :
             injected[i].client = h.client => injected[i].goal # h.goal
      BY <1>1, <3>4 DEF GoalsOnce, Done, ToSet
    <3>6. QED
      BY <1>1, <3>2, <3>3, <3>5 DEF GoalsOnce, AtMostOnce
  <2>3. QED
    BY <2>1, <2>2 DEF Handles
<1>11. GoalsOnce'
  <2>1. ASSUME NEW d \in Clients, NEW p \in Live(d)', NEW e \in Done(d)'
        PROVE  e.goal # p.goal
    <3>1. CASE e \in Done(d)
      BY <1>1, <1>9, <3>1 DEF GoalsOnce
    <3>2. CASE d = h.client /\ h \in Live(h.client) /\ e.goal = h.goal
      <4>1. h.id < p.id
        BY <1>1, <3>2 DEF Live
      <4>2. p # h
        BY <1>1, <4>1
      <4>3. QED
        BY <1>1, <1>9, <3>2, <4>2 DEF GoalsOnce
    <3>3. QED
      BY <1>2, <3>1, <3>2
  <2>2. ASSUME NEW d \in Clients, d \notin Cli, NEW x \in Live(d)' \cup Done(d)'
        PROVE  x.goal = x.id
    BY <1>1, <1>2, <1>9, <2>2 DEF GoalsOnce
  <2>3. \A d \in Clients : \A p, q \in Live(d)' : p.goal = q.goal => p = q
    BY <1>1, <1>9 DEF GoalsOnce
  <2>4. QED
    BY <1>10, <2>1, <2>2, <2>3 DEF GoalsOnce
<1>12. QED
  BY <1>5, <1>6, <1>7, <1>8, <1>11 DEF PInv, Handles

\* HandleLine handles the first piece of the chunk; an answer to a request that
\* can be parsed carries its id.
LEMMA HandleLineHandles ==
    ASSUME PInv, HandleLine
    PROVE  \E h, id, answer :
             /\ h \in Piece /\ Handles(h, id, answer)
             /\ ~fragment'[h.client]
             /\ \/ conn'[h.client] # "up"
                \/ /\ \A q \in Pending(h.client) : q = h \/ q \in Pending(h.client)'
                   /\ \A r \in ToSet(down[h.client]) : r \in ToSet(down'[h.client])
                   /\ [id |-> id, answer |-> answer] \in ToSet(down'[h.client])
                   /\ ~fragment[h.client] /\ h.method \in {"input", "status"} => id = h.id
                   /\ UNCHANGED conn
             /\ \A d \in Clients \ {h.client} :
                  /\ Pending(d)' = Pending(d) /\ conn'[d] = conn[d]
                  /\ down'[d] = down[d] /\ fragment'[d] = fragment[d]
<1>1. /\ TypeOK /\ Ordered /\ chunk # <<>> /\ Head(chunk) \in Piece
      /\ Head(chunk).end /\ UNCHANGED <<sent, outcome>>
  BY HandleLineServes DEF PInv
<1> PICK answer \in Answers, id \in {0, Head(chunk).id} :
      /\ SendReply(Head(chunk).client, id, answer)
      /\ \/ /\ ~fragment[Head(chunk).client]
            /\ Head(chunk).method = "input"
            /\ id = Head(chunk).id /\ answer \in {"injected"} \cup Failures
            /\ injected' = Append(injected, [client |-> Head(chunk).client,
                                 id |-> id, goal |-> Head(chunk).goal])
         \/ injected' = injected /\ answer # "injected"
      /\ /\ ~fragment[Head(chunk).client]
         /\ Head(chunk).method \in {"input", "status"}
         => id = Head(chunk).id
  BY <1>1, HandleLineServes
<1> PICK h : h = Head(chunk)
  OBVIOUS
<1>2. /\ h \in Piece /\ h.end /\ h.client \in Clients /\ id \in {0, h.id}
      /\ h.id \in Nat
      /\ SendReply(h.client, id, answer)
      /\ \/ /\ h.method = "input" /\ id = h.id /\ answer \in {"injected"} \cup Failures
            /\ injected' = Append(injected, [client |-> h.client, id |-> id, goal |-> h.goal])
         \/ injected' = injected /\ answer # "injected"
      /\ ~fragment[h.client] /\ h.method \in {"input", "status"} => id = h.id
  BY <1>1 DEF Piece, Ids
<1>3. /\ down \in [Clients -> Seq(Reply)] /\ fragment \in [Clients -> BOOLEAN]
      /\ conn \in [Clients -> {"none", "up", "hangup", "dropped"}]
      /\ up \in [Clients -> Seq(Piece)]
  BY <1>1 DEF TypeOK, ProtocolTypeOK
<1>4. h \in Pending(h.client)
  BY <1>1, <1>2, TailTakes DEF Pending, TypeOK, ProtocolTypeOK
<1>5. CASE /\ down' = [down EXCEPT ![h.client]
                         = Append(down[h.client], [id |-> id, answer |-> answer])]
           /\ chunk' = Tail(chunk) /\ conn' = conn /\ up' = up
           /\ fragment' = [fragment EXCEPT ![h.client] = FALSE]
  <2> DEFINE r == [id |-> id, answer |-> answer]
  <2>1. /\ down' = [down EXCEPT ![h.client] = Append(down[h.client], r)]
        /\ chunk' = Tail(chunk) /\ conn' = conn /\ up' = up
        /\ fragment' = [fragment EXCEPT ![h.client] = FALSE]
    BY <1>5
  <2>2. r \in Reply
    BY <1>2 DEF Reply
  <2>3. r = [id |-> id, answer |-> answer]
    OBVIOUS
  <2> HIDE DEF r
  <2>4. ToSet(Append(down[h.client], r)) = ToSet(down[h.client]) \cup {r}
    BY <1>2, <1>3, <2>2, AppendAdds
  <2>5. /\ ToSet(down'[h.client]) = ToSet(down[h.client]) \cup {r}
        /\ \A d \in Clients \ {h.client} : /\ down'[d] = down[d]
                                          /\ fragment'[d] = fragment[d]
        /\ ~fragment'[h.client]
    BY <1>2, <1>3, <2>1, <2>4
  <2>6. /\ Ordered'
        /\ \A q \in Pending(h.client)' : h.id < q.id
        /\ \A c \in Clients : Pending(c)' \subseteq Pending(c)
        /\ \A c \in Clients : \A q \in Pending(c) :
             q \in Pending(c)' \/ (q = h /\ c = h.client)
    BY <1>1, <2>1, TailPending
  <2>7. Handles(h, id, answer)
    BY <1>1, <1>2, <1>4, <2>3, <2>5, <2>6 DEF Handles
  <2>8. \A d \in Clients \ {h.client} : Pending(d)' = Pending(d)
    BY <2>6
  <2>9. QED
    BY <1>2, <2>1, <2>3, <2>5, <2>6, <2>7, <2>8
<1>6. CASE Drop(h.client) /\ chunk' = <<>> /\ down' = down
  <2>1. Drop(h.client) /\ chunk' = <<>> /\ down' = down
    BY <1>6
  <2>2. /\ Ordered' /\ Pending(h.client)' = {}
        /\ \A d \in Clients : Pending(d)' \subseteq Pending(d)
    BY <1>1, <1>2, <2>1, DropPending
  <2>3. Handles(h, id, answer)
    BY <1>1, <1>2, <1>4, <2>1, <2>2 DEF Handles
  <2>4. /\ conn'[h.client] # "up" /\ ~fragment'[h.client]
        /\ \A d \in Clients \ {h.client} :
             /\ conn'[d] = conn[d] /\ fragment'[d] = fragment[d] /\ up'[d] = up[d]
    BY <1>2, <1>3, <2>1 DEF Drop
  <2>5. \A d \in Clients \ {h.client} : Pending(d)' = Pending(d)
    <3>1. \A p \in ToSet(chunk) : p.client = h.client
      <4>1. 1 \in DOMAIN chunk /\ h = chunk[1]
        BY <1>1, TailTakes DEF TypeOK, ProtocolTypeOK
      <4>2. QED
        BY <1>1, <4>1 DEF Ordered, ToSet
    <3>2. ToSet(chunk') = {}
      BY <2>1 DEF ToSet
    <3>3. QED
      BY <2>4, <3>1, <3>2 DEF Pending
  <2>6. QED
    BY <1>2, <2>1, <2>3, <2>4, <2>5
<1>7. QED
  BY <1>3, <1>2, <1>5, <1>6 DEF SendReply

\* A connection that is up keeps what was pending and whole and what was answered,
\* and has a fragment only where half a line was pending.
Keeps(d) ==
    /\ fragment'[d] => fragment[d] \/ \E p \in Pending(d) : ~p.end
    /\ conn'[d] = "up" =>
         /\ conn[d] = "up"
         /\ \A p \in Pending(d) : p.end => p \in Pending(d)'
         /\ ToSet(down[d]) \subseteq ToSet(down'[d])

\* The daemon's other steps, and the portal's.
LEMMA DaemonShrinks ==
    ASSUME PInv, DaemonNext
    PROVE  \/ HandleLine
           \/ /\ Shrinks /\ outcome' = outcome
              /\ \A d \in Clients : Keeps(d)
<1>1. /\ TypeOK /\ Ordered
      /\ up \in [Clients -> Seq(Piece)] /\ fragment \in [Clients -> BOOLEAN]
      /\ conn \in [Clients -> {"none", "up", "hangup", "dropped"}]
      /\ chunk \in Seq(Piece)
  BY DEF PInv, TypeOK, ProtocolTypeOK
<1>2. CASE \E c \in Clients : Read(c)
  <2> PICK c \in Clients : Read(c)
    BY <1>2
  <2>1. UNCHANGED <<sent, outcome, conn, down, fragment, injected>>
    BY DEF Read
  <2>2. Ordered' /\ \A d \in Clients : Pending(d)' = Pending(d)
    BY <1>1, ReadPending
  <2>3. QED
    BY <2>1, <2>2 DEF Shrinks, Keeps
<1>3. ASSUME NEW c \in Clients, Drop(c), chunk' = <<>>,
             UNCHANGED <<sent, outcome, down, injected>>,
             \A p \in ToSet(chunk) : p.client = c
      PROVE  Shrinks /\ \A d \in Clients : Keeps(d)
  <2>1. /\ Ordered' /\ Pending(c)' = {}
        /\ \A d \in Clients : Pending(d)' \subseteq Pending(d)
    BY <1>1, <1>3, DropPending
  <2>2. /\ conn'[c] # "up" /\ ~fragment'[c]
        /\ \A d \in Clients \ {c} :
             /\ conn'[d] = conn[d] /\ fragment'[d] = fragment[d] /\ up'[d] = up[d]
    BY <1>1, <1>3 DEF Drop
  <2>3. \A d \in Clients \ {c} : Pending(d) \subseteq Pending(d)'
    BY <1>3, <2>2 DEF Pending
  <2>4. Keeps(c)
    BY <2>2 DEF Keeps
  <2>5. \A d \in Clients \ {c} : Keeps(d)
    BY <1>3, <2>2, <2>3 DEF Keeps
  <2>6. QED
    BY <1>3, <2>1, <2>4, <2>5 DEF Shrinks
<1>4. CASE \E c \in Clients : OnHangUp(c)
  <2> PICK c \in Clients : OnHangUp(c)
    BY <1>4
  <2>1. /\ Drop(c) /\ chunk' = <<>> /\ chunk = <<>>
        /\ UNCHANGED <<sent, outcome, down, injected>>
    BY DEF OnHangUp, LoopIdle
  <2>2. ToSet(chunk) = {}
    BY <2>1 DEF ToSet
  <2>3. QED
    BY <1>3, <2>1, <2>2
<1>5. CASE KeepFragment
  <2> PICK h : h = Head(chunk)
    OBVIOUS
  <2>1. /\ chunk # <<>> /\ ~h.end /\ chunk' = Tail(chunk) /\ up' = up
        /\ fragment' = [fragment EXCEPT ![h.client] = TRUE]
        /\ UNCHANGED <<sent, outcome, conn, down, injected>>
    BY <1>5 DEF KeepFragment, LoopIdle
  <2>2. /\ Ordered'
        /\ h \in Pending(h.client)
        /\ \A c \in Clients : Pending(c)' \subseteq Pending(c)
        /\ \A c \in Clients : \A q \in Pending(c) :
             q \in Pending(c)' \/ (q = h /\ c = h.client)
    BY <1>1, <2>1, TailPending
  <2>3. ~h.end /\ \A d \in Clients : fragment'[d] => fragment[d] \/ d = h.client
    BY <1>1, <2>1
  <2>4. \A d \in Clients : \A p \in Pending(d) : p.end => p \in Pending(d)'
    BY <2>2, <2>3
  <2>5. Shrinks /\ outcome' = outcome
    BY <2>1, <2>2 DEF Shrinks
  <2>6. \A d \in Clients : Keeps(d)
    BY <2>1, <2>2, <2>3, <2>4 DEF Keeps
  <2>7. QED
    BY <2>5, <2>6
<1>6. CASE DropOverlong
  <2> PICK h : h = Head(chunk)
    OBVIOUS
  <2>1. /\ Len(chunk) = 1 /\ Drop(h.client) /\ chunk' = <<>>
        /\ UNCHANGED <<sent, outcome, down, injected>>
    BY <1>6 DEF DropOverlong
  <2>2. chunk # <<>>
    <3>1. chunk = <<>> => Len(chunk) = 0
      OBVIOUS
    <3>2. QED
      BY <2>1, <3>1
  <2>3. h \in Piece /\ 1 \in DOMAIN chunk /\ h = chunk[1]
    BY <1>1, <2>2, TailTakes
  <2>4. h.client \in Clients /\ \A p \in ToSet(chunk) : p.client = h.client
    BY <1>1, <2>3 DEF Ordered, ToSet, Piece
  <2>5. QED
    BY <1>3, <2>1, <2>4
<1>7. CASE Restart
  <2>1. /\ \A c \in Clients : up'[c] = <<>> /\ ~fragment'[c] /\ conn'[c] # "up"
        /\ chunk' = <<>>
        /\ UNCHANGED <<sent, outcome, down, injected>>
    BY <1>7 DEF Restart
  <2>2. /\ ToSet(chunk') = {} /\ DOMAIN chunk' = {}
        /\ \A c \in Clients : ToSet(up'[c]) = {} /\ DOMAIN up'[c] = {}
    BY <2>1 DEF ToSet
  <2>3. Ordered'
    BY <2>2 DEF Ordered, Ascending
  <2>4. \A c \in Clients : Pending(c)' = {}
    BY <2>2 DEF Pending
  <2>5. QED
    BY <2>1, <2>3, <2>4 DEF Shrinks, Keeps
<1>8. CASE GateMoves
  <2>1. UNCHANGED <<sent, outcome, conn, up, down, fragment, chunk, injected>>
    BY <1>8 DEF GateMoves, linkVars
  <2>2. Ordered' /\ \A d \in Clients : Pending(d)' = Pending(d)
    BY <1>1, <2>1 DEF Ordered, Ascending, Pending
  <2>3. QED
    BY <2>1, <2>2 DEF Shrinks, Keeps
<1>9. QED
  <2>1. \/ \E c \in Clients : Read(c)
        \/ \E c \in Clients : OnHangUp(c)
        \/ HandleLine \/ KeepFragment \/ DropOverlong \/ Restart \/ GateMoves
    BY DEF DaemonNext
  <2>2. QED
    BY <2>1, <1>2, <1>4, <1>5, <1>6, <1>7, <1>8

\* A client takes an answer or gives up.
LEMMA ClientShrinks ==
    ASSUME PInv, NEW c \in Clients, ClientNext(c)
    PROVE  /\ Shrinks
           /\ outcome' = outcome \/ Returns(c)
           /\ UNCHANGED <<conn, fragment>> /\ \A d \in Clients : Pending(d)' = Pending(d)
           /\ \A d \in Clients \ {c} : down'[d] = down[d] /\ outcome'[d] = outcome[d]
           /\ Waiting(c)
           /\ outcome' = outcome =>
                \A r \in ToSet(down[c]) : r.id = sent[c] => r \in ToSet(down'[c])
<1>1. /\ TypeOK /\ Ordered /\ down \in [Clients -> Seq(Reply)]
      /\ outcome \in [Clients -> Seq(Outcomes)]
  BY DEF PInv, TypeOK, ProtocolTypeOK
<1>2. UNCHANGED <<sent, conn, up, fragment, chunk, injected>> /\ Waiting(c)
  BY DEF ClientNext, TakeLine, TimeOut, Eof
<1>3. Ordered' /\ \A d \in Clients : Pending(d)' = Pending(d)
  BY <1>1, <1>2 DEF Ordered, Ascending, Pending
<1>4. CASE TakeLine(c)
  <2> DEFINE r == Head(down[c])
  <2>1. /\ down[c] # <<>> /\ down' = [down EXCEPT ![c] = Tail(down[c])]
        /\ IF r.id = sent[c] THEN Return(c, r.answer) ELSE outcome' = outcome
    BY <1>1, <1>4 DEF TakeLine
  <2>2. r \in Reply /\ ToSet(down[c]) = {r} \cup ToSet(Tail(down[c]))
    BY <1>1, <2>1, TailTakes
  <2> HIDE DEF r
  <2>3. /\ down'[c] = Tail(down[c]) /\ \A d \in Clients \ {c} : down'[d] = down[d]
    BY <1>1, <2>1
  <2>4. Shrinks
    BY <1>2, <1>3, <2>2, <2>3 DEF Shrinks
  <2>5. CASE r.id = sent[c]
    <3>1. Return(c, r.answer) /\ r.answer \in Outcomes
      BY <2>1, <2>2, <2>5 DEF Reply, Outcomes
    <3>2. Returns(c)
      BY <1>2, <2>2, <2>5, <3>1 DEF Returns
    <3>3. outcome' # outcome /\ \A d \in Clients \ {c} : outcome'[d] = outcome[d]
      BY <1>1, <1>2, <3>1, ReturnTyped
    <3>4. QED
      BY <1>2, <1>3, <2>3, <2>4, <3>2, <3>3
  <2>6. CASE r.id # sent[c]
    BY <1>2, <1>3, <2>1, <2>2, <2>3, <2>4, <2>6
  <2>7. QED
    BY <2>5, <2>6
<1>5. CASE TimeOut(c) \/ Eof(c)
  <2>1. down' = down /\ \E o \in {"timeout", "lost"} : Return(c, o)
    BY <1>5 DEF TimeOut, Eof
  <2>2. Returns(c)
    BY <1>2, <2>1 DEF Returns, Outcomes
  <2>3. outcome' # outcome /\ \A d \in Clients \ {c} : outcome'[d] = outcome[d]
    BY <1>1, <1>2, <2>1, ReturnTyped DEF Outcomes
  <2>4. QED
    BY <1>2, <1>3, <2>1, <2>2, <2>3 DEF Shrinks
<1>6. QED
  BY <1>4, <1>5 DEF ClientNext

\* A request is sent: a piece x of a line may be pending from now on.
SendsPiece(c, m, goal, x, outcomeNow) ==
    /\ x \in Piece /\ x.client = c /\ x.id = sent[c] + 1
    /\ x.goal = goal /\ x.method = m
    /\ Ordered' /\ ~Waiting(c)
    /\ sent' = [sent EXCEPT ![c] = @ + 1]
    /\ UNCHANGED <<down, fragment, injected>>
    /\ \A d \in Clients \ {c} : Pending(d)' = Pending(d) /\ conn'[d] = conn[d]
    /\ \/ outcomeNow = "none" /\ outcome' = outcome /\ x.end
       \/ outcomeNow = "lost" /\ Return(c, "lost")
       \/ outcomeNow = "cut" /\ Return(c, "cut") /\ MayBeCut(c, m) /\ ~x.end
    /\ \/ Pending(c)' = Pending(c) \cup {x} /\ outcomeNow # "lost"
       \/ Pending(c)' = Pending(c) /\ outcomeNow # "none"

\* SendRequest writes one piece, or none, and may fail.
LEMMA SendEffect ==
    ASSUME PInv, NEW c \in Clients, NEW m \in Methods, NEW goal \in Ids,
           SendRequest(c, m, goal), UNCHANGED daemonSide
    PROVE  \E x, outcomeNow : SendsPiece(c, m, goal, x, outcomeNow)
<1> DEFINE p == [client |-> c, id |-> sent[c] + 1, goal |-> goal, method |-> m,
                 end |-> TRUE]
           p0 == [p EXCEPT !.end = FALSE]
<1>1. /\ TypeOK /\ Ordered /\ IdsPass /\ chunk' = chunk /\ injected' = injected
      /\ sent[c] \in Nat /\ up \in [Clients -> Seq(Piece)]
      /\ conn \in [Clients -> {"none", "up", "hangup", "dropped"}]
  BY TypesOf DEF PInv, TypeOK, ProtocolTypeOK, daemonSide
<1>2. \A x \in {p, p0} : /\ x \in Piece /\ x.client = c /\ x.id = sent[c] + 1
                         /\ x.goal = goal /\ x.method = m
  <2>1. sent[c] + 1 \in Ids
    BY <1>1 DEF Ids
  <2>2. p \in Piece
    BY <2>1 DEF Piece
  <2>3. p0 \in Piece /\ p0.client = c /\ p0.id = sent[c] + 1 /\ p0.goal = goal
        /\ p0.method = m
    BY <2>2 DEF Piece
  <2>4. QED
    BY <2>2, <2>3
<1>3. p.end /\ ~p0.end
  OBVIOUS
<1>4. /\ ~Waiting(c)
      /\ sent' = [sent EXCEPT ![c] = @ + 1]
      /\ conn' = [conn EXCEPT ![c] = IF @ = "none" THEN "up" ELSE @]
      /\ UNCHANGED <<down, fragment>>
      /\ \/ Return(c, "lost") /\ up' = up
         \/ up' = [up EXCEPT ![c] = Append(@, p)] /\ outcome' = outcome
         \/ /\ Return(c, "cut") /\ MayBeCut(c, m)
            /\ up' = up \/ up' = [up EXCEPT ![c] = Append(@, p0)]
  BY DEF SendRequest
<1> HIDE DEF p, p0
<1>5. (\A d \in Clients \ {c} : conn'[d] = conn[d]) /\ injected' = injected
  BY <1>1, <1>4
<1>6. CASE up' = up
  <2>1. Ordered' /\ \A d \in Clients : Pending(d)' = Pending(d)
    BY <1>1, <1>6 DEF Ordered, Ascending, Pending
  <2>2. QED
    <3>1. CASE Return(c, "lost")
      <4>1. SendsPiece(c, m, goal, p, "lost")
        BY <1>2, <1>4, <1>5, <2>1, <3>1 DEF SendsPiece
      <4>2. QED
        BY <4>1
    <3>2. CASE Return(c, "cut") /\ MayBeCut(c, m)
      <4>1. SendsPiece(c, m, goal, p0, "cut")
        BY <1>2, <1>3, <1>4, <1>5, <2>1, <3>2 DEF SendsPiece
      <4>2. QED
        BY <4>1
    <3>3. CASE up' = [up EXCEPT ![c] = Append(@, p)]
      <4>1. up'[c] = Append(up[c], p) /\ up[c] \in Seq(Piece) /\ p \in Piece
        BY <1>1, <1>2, <3>3
      <4>2. Len(up'[c]) = Len(up[c]) + 1 /\ Len(up[c]) \in Nat
        BY <4>1, AppendAdds
      <4>3. QED
        BY <1>6, <4>2
    <3>4. QED
      BY <1>4, <1>6, <3>1, <3>2, <3>3
<1>7. ASSUME NEW x \in {p, p0}, up' = [up EXCEPT ![c] = Append(@, x)]
      PROVE  /\ Ordered' /\ Pending(c)' = Pending(c) \cup {x}
             /\ \A d \in Clients \ {c} : Pending(d)' = Pending(d)
  <2>1. up[c] \in Seq(Piece) /\ x \in Piece /\ x.client = c /\ x.id = sent[c] + 1
    BY <1>1, <1>2
  <2> DEFINE s == up[c]
             t == Append(up[c], x)
  <2>2. /\ DOMAIN t = DOMAIN s \cup {Len(s) + 1}
        /\ \A i \in DOMAIN s : t[i] = s[i]
        /\ t[Len(s) + 1] = x
        /\ ToSet(t) = ToSet(s) \cup {x}
        /\ Len(s) \in Nat /\ DOMAIN s = 1..Len(s)
    BY <2>1, AppendAdds
  <2>3. /\ up'[c] = t /\ s = up[c]
        /\ \A d \in Clients \ {c} : up'[d] = up[d]
    BY <1>1, <1>7
  <2> HIDE DEF s, t
  <2>4. \A q \in Pending(c) : q.id < x.id
    <3>1. \A q \in Pending(c) : q.id \in Nat /\ q.id <= sent[c]
      BY <1>1, MembersTyped DEF IdsPass
    <3>2. QED
      BY <1>1, <2>1, <3>1
  <2>5. Ascending(t)
    <3> SUFFICES ASSUME NEW i \in DOMAIN t, NEW j \in DOMAIN t, i < j
                 PROVE  t[i].id < t[j].id
      BY DEF Ascending
    <3>1. i \in DOMAIN s
      BY <2>2
    <3>2. CASE j \in DOMAIN s
      BY <1>1, <2>2, <2>3, <3>1, <3>2 DEF Ordered, Ascending
    <3>3. CASE j = Len(s) + 1
      <4>1. s[i] \in Pending(c)
        BY <2>3, <3>1 DEF Pending, ToSet
      <4>2. QED
        BY <2>2, <2>4, <3>1, <3>3, <4>1
    <3>4. QED
      BY <2>2, <3>2, <3>3
  <2>6. \A y \in ToSet(chunk) : y.client = c => y.id < x.id
    BY <2>4 DEF Pending
  <2>7. \A d \in Clients : Ascending(up'[d])
    BY <1>1, <2>3, <2>5 DEF Ordered
  <2>8. \A d \in Clients : \A q \in ToSet(up'[d]) :
           q.client = d /\ \A y \in ToSet(chunk) : y.client = d => y.id < q.id
    BY <1>1, <2>1, <2>2, <2>3, <2>6 DEF Ordered
  <2>9. Ordered'
    BY <1>1, <2>7, <2>8 DEF Ordered, Ascending
  <2>10. \A d \in Clients : Pending(d)' = {y \in ToSet(chunk) : y.client = d} \cup ToSet(up'[d])
    BY <1>1 DEF Pending
  <2>11. QED
    BY <2>2, <2>3, <2>9, <2>10 DEF Pending
<1>8. CASE up' = [up EXCEPT ![c] = Append(@, p)] /\ outcome' = outcome
  <2>1. SendsPiece(c, m, goal, p, "none")
    BY <1>2, <1>3, <1>4, <1>7, <1>8, <1>5 DEF SendsPiece
  <2>2. QED
    BY <2>1
<1>9. CASE /\ Return(c, "cut") /\ MayBeCut(c, m)
           /\ up' = [up EXCEPT ![c] = Append(@, p0)]
  <2>1. SendsPiece(c, m, goal, p0, "cut")
    BY <1>2, <1>3, <1>4, <1>7, <1>9, <1>5 DEF SendsPiece
  <2>2. QED
    BY <2>1
<1>10. QED
  BY <1>4, <1>6, <1>8, <1>9

\* Sending keeps the invariant when the caller wants something new, or does not
\* ask for an input.
LEMMA SendKeeps ==
    ASSUME PInv, TypeOK', NEW c \in Clients, NEW m, NEW goal, NEW x, NEW outcomeNow,
           SendsPiece(c, m, goal, x, outcomeNow),
           m = "input" => \A y \in Live(c) \cup Done(c) : y.goal # goal,
           c \notin Cli => goal = sent[c] + 1
    PROVE  PInv'
<1>1. /\ TypeOK /\ IdsPass /\ RepliesTrue /\ PendingUnanswered /\ AnswersOwn /\ GoalsOnce
      /\ sent[c] \in Nat /\ sent \in [Clients -> Nat] /\ ~Waiting(c)
      /\ x.id = sent[c] + 1 /\ x.goal = goal /\ x.method = m
      /\ sent' = [sent EXCEPT ![c] = @ + 1]
      /\ down' = down /\ injected' = injected
  BY TypesOf DEF PInv, SendsPiece, TypeOK, ProtocolTypeOK
<1>2. /\ \A d : Done(d)' = Done(d)
      /\ \A d, k : CarriedOut(d, k)' <=> CarriedOut(d, k)
      /\ sent'[c] = sent[c] + 1 /\ \A d \in Clients \ {c} : sent'[d] = sent[d]
  BY <1>1 DEF Done, CarriedOut
<1>3. \A d \in Clients : \A p \in Pending(d)' : p \in Pending(d) \/ (d = c /\ p = x)
  BY DEF SendsPiece
<1>4. \A d \in Clients : \A p \in Live(d)' : p \in Live(d) \/ (d = c /\ p = x /\ m = "input")
  BY <1>1, <1>3 DEF Live
<1>5. \A n, k \in Nat : n <= k => n <= k + 1 /\ n < k + 1
  OBVIOUS
<1>6. ASSUME NEW d \in Clients, NEW e, e.id \in Nat, Past(d, e)
      PROVE  Past(d, e)'
  <2>1. CASE d = c
    BY <1>1, <1>2, <1>3, <1>5, <1>6, <2>1 DEF Past
  <2>2. CASE d # c
    BY <1>2, <1>3, <1>6, <2>2 DEF Past
  <2>3. QED
    BY <2>1, <2>2
<1>7. IdsPass'
  <2>1. ASSUME NEW d \in Clients, NEW p \in Pending(d)' PROVE p.id <= sent'[d]
    <3>1. CASE p \in Pending(d)
      <4>1. p.id \in Nat /\ p.id <= sent[d] /\ sent[d] \in Nat
        BY <1>1, <3>1, MembersTyped DEF IdsPass
      <4>2. sent'[d] = sent[d] \/ sent'[d] = sent[d] + 1
        BY <1>2
      <4>3. QED
        BY <1>5, <4>1, <4>2
    <3>2. CASE d = c /\ p = x
      BY <1>1, <1>2, <3>2
    <3>3. QED
      BY <1>3, <3>1, <3>2
  <2>2. ASSUME NEW d \in Clients, NEW e \in Done(d)' PROVE Past(d, e)'
    BY <1>1, <1>2, <1>6, MembersTyped DEF IdsPass
  <2>3. ASSUME NEW d \in Clients, NEW r \in ToSet(down'[d]) PROVE Past(d, r)'
    BY <1>1, <1>6, MembersTyped DEF IdsPass
  <2>4. QED
    BY <2>1, <2>2, <2>3 DEF IdsPass
<1>8. RepliesTrue'
  BY <1>1, <1>2 DEF RepliesTrue
<1>9. GoalsOnce'
  <2>1. AtMostOnce'
    BY <1>1 DEF GoalsOnce, AtMostOnce
  <2>2. \A d \in Clients : \A p \in Live(d)', e \in Done(d)' : e.goal # p.goal
    BY <1>1, <1>2, <1>4 DEF GoalsOnce
  <2>3. \A d \in Clients : \A p, q \in Live(d)' : p.goal = q.goal => p = q
    BY <1>1, <1>4 DEF GoalsOnce
  <2>4. \A d \in Clients : d \notin Cli => \A y \in Live(d)' \cup Done(d)' : y.goal = y.id
    BY <1>1, <1>2, <1>4 DEF GoalsOnce
  <2>5. QED
    BY <2>1, <2>2, <2>3, <2>4 DEF GoalsOnce
<1>10. \/ outcome' = outcome /\ outcomeNow = "none" /\ sent'[c] \notin DOMAIN outcome[c]
       \/ /\ outcomeNow \in {"lost", "cut"} /\ (outcomeNow = "cut" => ~x.end)
          /\ \A d \in Clients \ {c} : outcome'[d] = outcome[d]
          /\ DOMAIN outcome'[c] = DOMAIN outcome[c] \cup {sent'[c]}
          /\ outcome'[c][sent'[c]] = outcomeNow
          /\ \A id \in DOMAIN outcome[c] : outcome'[c][id] = outcome[c][id]
  <2>1. CASE outcome' = outcome /\ outcomeNow = "none"
    <3>1. DOMAIN outcome[c] = 1..sent[c]
      BY <1>1, TypesOf
    <3>2. sent[c] + 1 \notin 1..sent[c]
      BY <1>1
    <3>3. QED
      BY <1>2, <2>1, <3>1, <3>2
  <2>2. CASE /\ outcomeNow \in {"lost", "cut"} /\ (outcomeNow = "cut" => ~x.end)
             /\ Return(c, outcomeNow)
    <3>1. outcomeNow \in Outcomes
      BY <2>2 DEF Outcomes
    <3>2. QED
      BY <1>1, <2>2, <3>1, ReturnTyped
  <2>3. QED
    BY <2>1, <2>2 DEF SendsPiece
<1>11. PendingUnanswered'
  <2> SUFFICES ASSUME NEW d \in Clients, NEW p \in Pending(d)', p.end,
                      p.id \in DOMAIN outcome'[d]
               PROVE  outcome'[d][p.id] \in {"timeout", "lost"}
    BY DEF PendingUnanswered
  <2>1. CASE p \in Pending(d)
    <3>1. p.id \in DOMAIN outcome[d]
      <4>1. p.id \in Nat /\ p.id <= sent[d] /\ sent[d] \in Nat
        BY <1>1, <2>1, MembersTyped DEF IdsPass
      <4>2. d = c => p.id # sent[d] + 1
        BY <4>1
      <4>3. QED
        BY <1>2, <1>10, <4>2
    <3>2. QED
      BY <1>1, <1>10, <2>1, <3>1 DEF PendingUnanswered
  <2>2. CASE d = c /\ p = x
    BY <1>1, <1>2, <1>10, <2>2
  <2>3. QED
    BY <1>3, <2>1, <2>2
<1>12. AnswersOwn'
  <2>1. ~CarriedOut(c, sent'[c])
    <3>1. \A e \in Done(c) : e.id \in Nat /\ e.id <= sent[c]
      BY <1>1, MembersTyped DEF IdsPass, Past
    <3>2. \A e \in Done(c) : e.id # sent[c] + 1
      BY <1>1, <3>1
    <3>3. QED
      BY <1>2, <3>2 DEF CarriedOut
  <2>2. ASSUME NEW d \in Clients, NEW id \in DOMAIN outcome'[d]
        PROVE  /\ outcome'[d][id] = "injected" => CarriedOut(d, id)'
               /\ CarriedOut(d, id)' => outcome'[d][id] \in {"injected"} \cup Doubtful
    <3>1. CASE id \in DOMAIN outcome[d]
      BY <1>1, <1>2, <1>10, <3>1, AnswersOwnIs
    <3>2. CASE id \notin DOMAIN outcome[d]
      <4>1. d = c /\ id = sent'[c] /\ outcome'[d][id] \in {"lost", "cut"}
        BY <1>10, <2>2, <3>2
      <4>2. QED
        BY <1>2, <2>1, <4>1
    <3>3. QED
      BY <3>1, <3>2
  <2>3. QED
    BY <2>2, AnswersOwnPrimed
<1>13. QED
  BY <1>7, <1>8, <1>9, <1>11, <1>12 DEF PInv, SendsPiece
=============================================================================
