------------------------ MODULE DialogCommand_proofs ------------------------
(***************************************************************************)
(* Proofs about the commands of the command line: the inductive invariant  *)
(* of DialogWait, and with it its properties for any number of clients,    *)
(* commands, calls and requests: that no input is carried out twice, that  *)
(* an answer belongs to its request, that a cut line is never served, that *)
(* no command waits in vain, and that a command's end tells what has been  *)
(* carried out.                                                            *)
(***************************************************************************)
EXTENDS DialogWait_proofs

USE ProtocolAssumption, DialogAssumption

-----------------------------------------------------------------------------
(* The inductive invariant of a command.                                   *)

\* Where a command is, and what of its calls is pending and carried out: of the
\* calls before the present one all, of the present one only the latest request.
Command(c) ==
    /\ phase[c] \notin {"called", "polled", "retried"} => ~Waiting(c)
    /\ phase[c] # "call" => sent[c] # 0
    /\ \A p \in Live(c) : p.goal = step[c]
    /\ \A e \in Done(c) : e.goal <= step[c]
    /\ \A k \in 1..(step[c] - 1) : \E e \in Done(c) : e.goal = k
    /\ phase[c] \in {"call", "wait", "polled"} =>
         \A x \in Live(c) \cup Done(c) : x.goal # step[c]
    /\ phase[c] \in {"called", "retried"} =>
         \A x \in Live(c) \cup Done(c) : x.goal = step[c] <=> x.id = sent[c]
    /\ phase[c] = "done" =>
         Live(c) = {} /\ step[c] = Calls /\ \E e \in Done(c) : e.goal = Calls
    /\ phase[c] = "died" =>
         /\ \A p \in Live(c) : p.id = sent[c]
         /\ \A e \in Done(c) : e.goal = step[c] =>
              e.id = sent[c] /\ outcome[c][sent[c]] # "injected"

NoCut(c) == \A id \in DOMAIN outcome[c] : outcome[c][id] # "cut"

\* A command does not go on after a cut line; before it, no half line is on its
\* connection, so an answer to what it waits for is bound to come.
Clean(c) ==
    /\ phase[c] \in {"call", "wait", "polled", "done"} => NoCut(c)
    /\ phase[c] \in {"called", "retried"} =>
         \A id \in DOMAIN outcome[c] : outcome[c][id] = "cut" => id = sent[c]
    /\ NoCut(c) =>
         /\ ~fragment[c]
         /\ \A p \in Pending(c) : p.end /\ p.method \in {"input", "status"}
    /\ Waiting(c) /\ conn[c] = "up" =>
         \/ \E p \in Pending(c) : p.id = sent[c]
         \/ \E r \in ToSet(down[c]) : r.id = sent[c]

\* The first part of CommandTruth.
InOrder ==
    \A c \in Cli : \A i, j \in DOMAIN injected :
        injected[i].client = c /\ injected[j].client = c /\ i < j
            => injected[i].goal < injected[j].goal

DInv ==
    /\ PInv
    /\ InOrder
    /\ \A c \in Cli : Command(c) /\ Clean(c)

-----------------------------------------------------------------------------
(* What leaves a command alone.                                            *)

\* The result a command looks at is the outcome of its latest request.
LEMMA LastResult ==
    ASSUME TypeOK, NEW c \in Clients, ~Waiting(c), sent[c] # 0
    PROVE  sent[c] \in DOMAIN outcome[c] /\ Result(c) = outcome[c][sent[c]]
<1>1. /\ sent[c] = Len(outcome[c]) /\ sent[c] \in Nat
      /\ DOMAIN outcome[c] = 1..Len(outcome[c])
  BY TypesOf
<1>2. QED
  BY <1>1 DEF Result, Last

\* A step that adds nothing pending and carries nothing out for a command keeps
\* its invariant, also when the request it waits for returns.
LEMMA CommandFrame ==
    ASSUME NEW c \in Cli, Command(c), Live(c)' \subseteq Live(c), Done(c)' = Done(c),
           sent'[c] = sent[c], phase'[c] = phase[c], step'[c] = step[c],
           \/ outcome'[c] = outcome[c]
           \/ ~Waiting(c)' /\ phase[c] \in {"called", "polled", "retried"}
    PROVE  Command(c)'
<1>1. CASE outcome'[c] = outcome[c]
  BY <1>1 DEF Command, Waiting
<1>2. CASE ~Waiting(c)' /\ phase[c] \in {"called", "polled", "retried"}
  BY <1>2 DEF Command
<1>3. QED
  BY <1>1, <1>2

\* Nothing about the client changes.
Untouched(d) ==
    /\ Pending(d)' = Pending(d) /\ Done(d)' = Done(d)
    /\ sent'[d] = sent[d] /\ outcome'[d] = outcome[d] /\ conn'[d] = conn[d]
    /\ down'[d] = down[d] /\ fragment'[d] = fragment[d]
    /\ phase'[d] = phase[d] /\ step'[d] = step[d]

\* Then its part of the invariant stays.
LEMMA UntouchedKeeps ==
    ASSUME NEW d \in Cli, Command(d), Clean(d), Untouched(d)
    PROVE  Command(d)' /\ Clean(d)'
<1>1. Live(d)' = Live(d)
  BY DEF Untouched, Live
<1>2. Command(d)'
  BY <1>1, CommandFrame DEF Untouched
<1>3. Clean(d)'
  BY DEF Untouched, Clean, NoCut, Waiting
<1>4. QED
  BY <1>2, <1>3

\* The end of a connection from the client's side.
LEMMA LeaveShrinks ==
    ASSUME PInv, NEW c \in Clients, Leave(c),
           UNCHANGED <<sent, outcome, up, fragment, chunk, injected>>
    PROVE  /\ Shrinks
           /\ \A d \in Clients : Pending(d)' = Pending(d)
           /\ \A d \in Clients \ {c} : conn'[d] = conn[d] /\ down'[d] = down[d]
<1>1. /\ conn \in [Clients -> {"none", "up", "hangup", "dropped"}]
      /\ down \in [Clients -> Seq(Reply)] /\ Ordered
  BY DEF PInv, TypeOK, ProtocolTypeOK
<1>2. Ordered' /\ \A d \in Clients : Pending(d)' = Pending(d)
  BY <1>1 DEF Ordered, Ascending, Pending
<1>3. down'[c] = <<>> /\ \A d \in Clients \ {c} : conn'[d] = conn[d] /\ down'[d] = down[d]
  BY <1>1 DEF Leave
<1>4. ToSet(down'[c]) = {}
  BY <1>3 DEF ToSet
<1>5. QED
  BY <1>2, <1>3, <1>4 DEF Shrinks

\* Nothing of the protocol changes.
LEMMA StillShrinks ==
    ASSUME PInv, UNCHANGED protocolVars
    PROVE  /\ Shrinks /\ outcome' = outcome
           /\ \A d \in Clients : Pending(d)' = Pending(d)
<1>1. Ordered' /\ \A d \in Clients : Pending(d)' = Pending(d)
  BY DEF PInv, Ordered, Ascending, Pending, protocolVars, linkVars
<1>2. QED
  BY <1>1 DEF Shrinks, protocolVars, linkVars

-----------------------------------------------------------------------------
(* The daemon's steps.                                                     *)

\* A line is handled.
LEMMA HandleDialog ==
    ASSUME DInv, TypeOK', HandleLine, UNCHANGED <<phase, step>>
    PROVE  DInv'
<1>1. /\ PInv /\ TypeOK /\ InOrder /\ \A c \in Cli : Command(c) /\ Clean(c)
  BY DEF DInv, PInv
<1> PICK h, id, answer :
      /\ h \in Piece /\ Handles(h, id, answer)
      /\ ~fragment'[h.client]
      /\ \/ conn'[h.client] # "up"
         \/ /\ \A q \in Pending(h.client) : q = h \/ q \in Pending(h.client)'
            /\ \A r \in ToSet(down[h.client]) : r \in ToSet(down'[h.client])
            /\ [id |-> id, answer |-> answer] \in ToSet(down'[h.client])
            /\ ~fragment[h.client] /\ h.method \in {"input", "status"} => id = h.id
            /\ UNCHANGED conn
      /\ \A d \in Clients \ {h.client} :
           /\ Pending(d)' = Pending(d) /\ conn'[d] = conn[d]
           /\ down'[d] = down[d] /\ fragment'[d] = fragment[d]
  BY <1>1, HandleLineHandles
<1>2. PInv'
  BY <1>1, HandleKeeps
<1>3. /\ h.client \in Clients /\ h \in Pending(h.client) /\ h.end
      /\ \A d \in Clients : Pending(d)' \subseteq Pending(d)
      /\ \A d \in Clients : Live(d)' \subseteq Live(d)
      /\ sent' = sent /\ outcome' = outcome /\ phase' = phase /\ step' = step
      /\ \/ /\ h.method = "input" /\ id = h.id
            /\ injected' = Append(injected, [client |-> h.client, id |-> id, goal |-> h.goal])
         \/ injected' = injected
  BY DEF Handles, Live
<1>4. /\ \A d : Done(d) \subseteq Done(d)'
      /\ \A d \in Clients : \A e \in Done(d)' :
           \/ e \in Done(d)
           \/ /\ d = h.client /\ h \in Live(h.client)
              /\ e.id = h.id /\ e.goal = h.goal
  BY <1>1, HandlesDone
<1>5. ASSUME NEW d \in Cli, d # h.client
      PROVE  Command(d)' /\ Clean(d)'
  <2>1. Done(d)' = Done(d) /\ d \in Clients
    BY <1>4, <1>5
  <2>2. Untouched(d)
    BY <1>3, <1>5, <2>1 DEF Untouched
  <2>3. QED
    BY <1>1, <2>2, UntouchedKeeps
<1>6. ASSUME NEW c \in Cli, c = h.client
      PROVE  Command(c)'
  <2>1. /\ Command(c) /\ Live(c)' \subseteq Live(c) /\ Done(c) \subseteq Done(c)'
        /\ \A e \in Done(c)' :
             \/ e \in Done(c)
             \/ h \in Live(c) /\ e.id = h.id /\ e.goal = h.goal
        /\ Waiting(c)' <=> Waiting(c)
        /\ c \in Clients
    BY <1>1, <1>3, <1>4, <1>6 DEF Waiting
  <2>2. h \in Live(c) /\ phase[c] = "died" => outcome[c][sent[c]] # "injected"
    <3> SUFFICES ASSUME h \in Live(c), phase[c] = "died"
                 PROVE  outcome[c][sent[c]] # "injected"
      OBVIOUS
    <3>1. h.id = sent[c] /\ ~Waiting(c) /\ sent[c] # 0
      BY <2>1 DEF Command
    <3>2. h.id \in DOMAIN outcome[c]
      BY <1>1, <2>1, <3>1, LastResult
    <3>3. outcome[c][h.id] \in {"timeout", "lost"}
      BY <1>1, <1>3, <1>6, <3>2 DEF PInv, PendingUnanswered
    <3>4. QED
      BY <3>1, <3>3
  <2>3. step[c] \in Nat
    BY <1>1 DEF TypeOK
  <2> USE DEF Command
  <2>4. CASE h \notin Live(c)
    <3>1. Done(c)' = Done(c)
      BY <2>1, <2>4
    <3>2. QED
      BY <1>3, <2>1, <3>1, CommandFrame
  <2>5. CASE h \in Live(c)
    <3>1. h.goal = step[c] /\ phase[c] \notin {"call", "wait", "polled", "done"}
      BY <2>1, <2>5
    <3>2. \A e \in Done(c)' : e.goal <= step[c]
      BY <2>1, <2>3, <3>1
    <3>3. \A k \in 1..(step[c] - 1) : \E e \in Done(c)' : e.goal = k
      BY <2>1
    <3>4. phase[c] \in {"called", "retried"} =>
             \A x \in Live(c)' \cup Done(c)' : x.goal = step[c] <=> x.id = sent[c]
      BY <2>1, <2>5, <3>1
    <3>5. phase[c] = "died" =>
             /\ \A p \in Live(c)' : p.id = sent[c]
             /\ \A e \in Done(c)' : e.goal = step[c] =>
                  e.id = sent[c] /\ outcome[c][sent[c]] # "injected"
      BY <2>1, <2>2, <2>5, <3>1
    <3>6. \A p \in Live(c)' : p.goal = step[c]
      BY <2>1
    <3>7. QED
      BY <1>3, <2>1, <3>1, <3>2, <3>3, <3>4, <3>5, <3>6
  <2>6. QED
    BY <2>4, <2>5
<1>7. ASSUME NEW c \in Cli, c = h.client
      PROVE  Clean(c)'
  <2>1. /\ Clean(c) /\ Command(c) /\ ~fragment'[c] /\ Pending(c)' \subseteq Pending(c)
        /\ NoCut(c)' <=> NoCut(c)
        /\ Waiting(c)' <=> Waiting(c)
        /\ sent'[c] = sent[c] /\ phase'[c] = phase[c] /\ outcome'[c] = outcome[c]
    BY <1>1, <1>3, <1>7 DEF NoCut, Waiting
  <2>2. ASSUME Waiting(c), conn'[c] = "up"
        PROVE  \/ \E p \in Pending(c)' : p.id = sent[c]
               \/ \E r \in ToSet(down'[c]) : r.id = sent[c]
    <3>1. phase[c] \in {"called", "polled", "retried"} /\ sent[c] \notin DOMAIN outcome[c]
      BY <1>1, <1>3, <1>7, <2>1, <2>2, TypesOf DEF Command
    <3>2. NoCut(c)
      BY <2>1, <3>1 DEF Clean, NoCut
    <3>3. ~fragment[c] /\ h.method \in {"input", "status"}
      BY <1>3, <1>7, <2>1, <3>2 DEF Clean
    <3>4. /\ \A q \in Pending(c) : q = h \/ q \in Pending(c)'
          /\ \A r \in ToSet(down[c]) : r \in ToSet(down'[c])
          /\ [id |-> h.id, answer |-> answer] \in ToSet(down'[c])
          /\ conn[c] = "up"
      BY <1>7, <2>2, <3>3
    <3>5. CASE \E p \in Pending(c) : p.id = sent[c]
      <4> PICK p \in Pending(c) : p.id = sent[c]
        BY <3>5
      <4>1. CASE p = h
        <5> DEFINE r == [id |-> h.id, answer |-> answer]
        <5>1. r \in ToSet(down'[c]) /\ r.id = sent[c]
          BY <3>4, <4>1
        <5>2. QED
          BY <5>1
      <4>2. CASE p \in Pending(c)'
        BY <4>2
      <4>3. QED
        BY <3>4, <4>1, <4>2
    <3>6. CASE \E r \in ToSet(down[c]) : r.id = sent[c]
      BY <3>4, <3>6
    <3>7. QED
      BY <2>1, <2>2, <3>4, <3>5, <3>6 DEF Clean
  <2>3. QED
    BY <2>1, <2>2 DEF Clean
<1>8. InOrder'
  <2>1. CASE injected' = injected
    BY <1>1, <2>1 DEF InOrder
  <2>2. CASE /\ h.method = "input" /\ id = h.id
             /\ injected' = Append(injected, [client |-> h.client, id |-> id, goal |-> h.goal])
    <3> DEFINE e0 == [client |-> h.client, id |-> h.id, goal |-> h.goal]
               S == [client : Clients, id : Ids, goal : Ids]
    <3>1. injected \in Seq(S) /\ e0 \in S
      BY <1>1, <1>3, MembersTyped DEF TypeOK, ProtocolTypeOK, Piece
    <3>2. injected' = Append(injected, e0) /\ e0.client = h.client /\ e0.goal = h.goal
      BY <2>2
    <3>3. \A e \in S : e.goal \in Nat
      BY DEF Ids
    <3> HIDE DEF e0, S
    <3>4. /\ DOMAIN injected' = DOMAIN injected \cup {Len(injected) + 1}
          /\ \A i \in DOMAIN injected : injected'[i] = injected[i]
          /\ injected'[Len(injected) + 1] = e0
          /\ \A i \in DOMAIN injected : ~(Len(injected) + 1 < i)
          /\ ~(Len(injected) + 1 < Len(injected) + 1)
          /\ \A i \in DOMAIN injected : injected[i] \in S
      <4>1. Len(injected) \in Nat /\ DOMAIN injected = 1..Len(injected)
        BY <3>1
      <4>2. \A i \in DOMAIN injected : ~(Len(injected) + 1 < i)
        BY <4>1
      <4>3. ~(Len(injected) + 1 < Len(injected) + 1)
        BY <4>1
      <4>4. \A i \in DOMAIN injected : injected[i] \in S
        BY <3>1, ElementOfSeq
      <4>5. QED
        BY <3>1, <3>2, <4>2, <4>3, <4>4, AppendAdds
    <3>5. h \in Live(h.client)
      BY <1>3, <2>2 DEF Live
    <3>6. ASSUME NEW i \in DOMAIN injected, injected[i].client = h.client,
                 h.client \in Cli
          PROVE  injected[i].goal < h.goal
      <4>1. injected[i] \in Done(h.client) /\ injected[i].goal \in Nat
        BY <3>3, <3>4, <3>6 DEF Done, ToSet
      <4>2. h.goal = step[h.client] /\ injected[i].goal <= step[h.client]
        BY <1>1, <3>5, <3>6, <4>1 DEF Command
      <4>3. injected[i].goal # h.goal
        BY <1>1, <1>3, <3>5, <4>1 DEF PInv, GoalsOnce
      <4>4. step[h.client] \in Nat
        BY <1>1, <3>6 DEF TypeOK
      <4>5. QED
        BY <4>1, <4>2, <4>3, <4>4
    <3>7. QED
      BY <1>1, <3>2, <3>4, <3>6 DEF InOrder
  <2>3. QED
    BY <1>3, <2>1, <2>2
<1>9. QED
  BY <1>2, <1>5, <1>6, <1>7, <1>8 DEF DInv

\* The daemon's other steps, and the portal's.
LEMMA DaemonDialog ==
    ASSUME DInv, TypeOK', DaemonNext, UNCHANGED <<phase, step>>
    PROVE  DInv'
<1>1. PInv /\ TypeOK /\ InOrder /\ \A c \in Cli : Command(c) /\ Clean(c)
  BY DEF DInv, PInv
<1>2. CASE HandleLine
  BY <1>2, HandleDialog
<1>3. CASE /\ Shrinks /\ outcome' = outcome
           /\ \A d \in Clients : Keeps(d)
  <2>1. PInv'
    BY <1>1, <1>3, ShrinkKeeps
  <2>2. InOrder'
    BY <1>1, <1>3 DEF Shrinks, InOrder
  <2>3. ASSUME NEW c \in Cli PROVE Command(c)'
    <3>1. Live(c)' \subseteq Live(c) /\ Done(c)' = Done(c) /\ sent'[c] = sent[c]
      BY <1>3 DEF Shrinks, Live, Done
    <3>2. QED
      BY <1>1, <1>3, <3>1, CommandFrame
  <2>4. ASSUME NEW c \in Cli PROVE Clean(c)'
    <3>1. /\ Clean(c) /\ Command(c) /\ Keeps(c) /\ Pending(c)' \subseteq Pending(c)
          /\ NoCut(c)' <=> NoCut(c)
          /\ Waiting(c)' <=> Waiting(c)
          /\ sent'[c] = sent[c] /\ phase'[c] = phase[c] /\ outcome'[c] = outcome[c]
      BY <1>1, <1>3 DEF NoCut, Waiting, Shrinks
    <3>2. NoCut(c) => ~fragment'[c]
      BY <3>1 DEF Clean, Keeps
    <3>3. ASSUME Waiting(c), conn'[c] = "up"
          PROVE  \/ \E p \in Pending(c)' : p.id = sent[c]
                 \/ \E r \in ToSet(down'[c]) : r.id = sent[c]
      <4>1. phase[c] \in {"called", "polled", "retried"} /\ sent[c] \notin DOMAIN outcome[c]
        BY <1>1, <3>1, <3>3, TypesOf DEF Command
      <4>2. NoCut(c)
        BY <3>1, <4>1 DEF Clean, NoCut
      <4>3. QED
        BY <3>1, <3>3, <4>2 DEF Clean, Keeps
    <3>4. QED
      BY <3>1, <3>2, <3>3 DEF Clean
  <2>5. QED
    BY <2>1, <2>2, <2>3, <2>4 DEF DInv
<1>4. QED
  BY <1>1, <1>2, <1>3, DaemonShrinks

-----------------------------------------------------------------------------
(* The clients' steps.                                                     *)

\* A client takes an answer or gives up.
LEMMA ClientDialog ==
    ASSUME DInv, TypeOK', NEW c \in Clients, ClientNext(c), UNCHANGED <<phase, step>>
    PROVE  DInv'
<1>1. PInv /\ TypeOK /\ InOrder /\ \A d \in Cli : Command(d) /\ Clean(d)
  BY DEF DInv, PInv
<1>2. /\ Shrinks
      /\ outcome' = outcome \/ Returns(c)
      /\ UNCHANGED <<conn, fragment>> /\ \A d \in Clients : Pending(d)' = Pending(d)
      /\ \A d \in Clients \ {c} : down'[d] = down[d] /\ outcome'[d] = outcome[d]
      /\ Waiting(c)
      /\ outcome' = outcome =>
           \A r \in ToSet(down[c]) : r.id = sent[c] => r \in ToSet(down'[c])
  BY <1>1, ClientShrinks
<1>3. /\ sent' = sent /\ injected' = injected /\ \A d : Done(d)' = Done(d)
      /\ \A d \in Clients : Live(d)' = Live(d)
  BY <1>2 DEF Shrinks, Done, Live
<1>4. PInv' /\ InOrder'
  BY <1>1, <1>2, <1>3, ShrinkKeeps DEF InOrder
<1>5. ASSUME NEW d \in Cli, d # c PROVE Command(d)' /\ Clean(d)'
  BY <1>1, <1>2, <1>3, <1>5, UntouchedKeeps DEF Untouched
<1>6. ASSUME c \in Cli PROVE Command(c)' /\ Clean(c)'
  <2>1. CASE outcome' = outcome
    <3>1. Command(c)'
      BY <1>1, <1>2, <1>3, <1>6, <2>1, CommandFrame
    <3>2. Clean(c)'
      BY <1>1, <1>2, <1>3, <1>6, <2>1 DEF Clean, NoCut, Waiting
    <3>3. QED
      BY <3>1, <3>2
  <2>2. CASE Returns(c)
    <3> PICK o \in Outcomes :
          /\ Return(c, o)
          /\ \/ o \in {"timeout", "lost"}
             \/ \E r \in ToSet(down[c]) : r.id = sent[c] /\ o = r.answer
      BY <2>2 DEF Returns
    <3>1. o # "cut"
      BY <1>1, MembersTyped DEF Answers
    <3>2. /\ DOMAIN outcome'[c] = DOMAIN outcome[c] \cup {sent[c]}
          /\ outcome'[c][sent[c]] = o
          /\ \A id \in DOMAIN outcome[c] : outcome'[c][id] = outcome[c][id]
          /\ Len(outcome'[c]) = sent[c] /\ sent[c] \in Nat
      BY <1>1, <1>2, <1>3, ReturnTyped, TypesOf
    <3>3. ~Waiting(c)'
      BY <1>3, <3>2 DEF Waiting
    <3>4. phase[c] \in {"called", "polled", "retried"}
      BY <1>1, <1>2, <1>6 DEF Command
    <3>5. Command(c)'
      BY <1>1, <1>3, <1>6, <3>3, <3>4, CommandFrame
    <3>6. NoCut(c)' <=> NoCut(c)
      BY <3>1, <3>2 DEF NoCut
    <3>7. \A id \in DOMAIN outcome'[c] : outcome'[c][id] = "cut" =>
             id \in DOMAIN outcome[c] /\ outcome[c][id] = "cut"
      BY <3>1, <3>2
    <3>8. Clean(c)'
      BY <1>1, <1>2, <1>3, <1>6, <3>3, <3>6, <3>7 DEF Clean
    <3>9. QED
      BY <3>5, <3>8
  <2>3. QED
    BY <1>2, <2>1, <2>2
<1>7. QED
  BY <1>4, <1>5, <1>6 DEF DInv

\* A request of another client leaves a command alone.
LEMMA SendUntouched ==
    ASSUME TypeOK, NEW c \in Clients, NEW m, NEW goal, NEW x, NEW o,
           SendsPiece(c, m, goal, x, o)
    PROVE  \A d \in Clients \ {c} :
             /\ Pending(d)' = Pending(d) /\ Done(d)' = Done(d)
             /\ sent'[d] = sent[d] /\ outcome'[d] = outcome[d] /\ conn'[d] = conn[d]
             /\ down'[d] = down[d] /\ fragment'[d] = fragment[d]
<1>1. sent \in [Clients -> Nat] /\ outcome \in [Clients -> Seq(Outcomes)]
  BY DEF TypeOK, ProtocolTypeOK
<1>2. \A d \in Clients \ {c} : outcome'[d] = outcome[d] /\ sent'[d] = sent[d]
  BY <1>1 DEF SendsPiece, Return
<1>3. \A d : Done(d)' = Done(d)
  BY DEF SendsPiece, Done
<1>4. QED
  BY <1>2, <1>3 DEF SendsPiece

\* A user of the library.
LEMMA LibraryDialog ==
    ASSUME DInv, TypeOK', NEW c \in Clients \ Cli, LibraryNext(c),
           UNCHANGED <<phase, step>>
    PROVE  DInv'
<1>1. PInv /\ TypeOK /\ InOrder /\ \A d \in Cli : Command(d) /\ Clean(d)
  BY DEF DInv, PInv
<1>2. CASE HangUp(c)
  <2>1. /\ Leave(c) /\ UNCHANGED <<sent, outcome, up, fragment, chunk, injected>>
    BY <1>2 DEF HangUp
  <2>2. /\ Shrinks
        /\ \A d \in Clients : Pending(d)' = Pending(d)
        /\ \A d \in Clients \ {c} : conn'[d] = conn[d] /\ down'[d] = down[d]
    BY <1>1, <2>1, LeaveShrinks
  <2>3. PInv' /\ InOrder'
    BY <1>1, <2>1, <2>2, ShrinkKeeps DEF InOrder
  <2>4. \A d : Done(d)' = Done(d)
    BY <2>1 DEF Done
  <2>5. \A d \in Cli : Untouched(d)
    BY <2>1, <2>2, <2>4 DEF Untouched
  <2>6. QED
    BY <1>1, <2>3, <2>5, UntouchedKeeps DEF DInv
<1>3. CASE \E m \in Methods : SendRequest(c, m, sent[c] + 1) /\ UNCHANGED daemonSide
  <2> PICK m \in Methods : SendRequest(c, m, sent[c] + 1) /\ UNCHANGED daemonSide
    BY <1>3
  <2> DEFINE goal == sent[c] + 1
  <2>1. goal \in Ids
    BY <1>1, TypesOf DEF Ids
  <2>2. \A y \in Live(c) \cup Done(c) : y.goal # goal
    <3>1. \A y \in Live(c) \cup Done(c) : y.goal = y.id
      BY <1>1 DEF PInv, GoalsOnce
    <3>2. \A y \in Live(c) \cup Done(c) : y.id \in Nat /\ y.id <= sent[c]
      BY <1>1, MembersTyped DEF PInv, IdsPass, Past, Live
    <3>3. sent[c] \in Nat
      BY <1>1, TypesOf
    <3>4. QED
      BY <3>1, <3>2, <3>3
  <2>3. goal = sent[c] + 1
    OBVIOUS
  <2> HIDE DEF goal
  <2>4. PICK x, o : SendsPiece(c, m, goal, x, o)
    BY <1>1, <2>1, <2>3, SendEffect
  <2>5. PInv'
    BY <1>1, <2>2, <2>3, <2>4, SendKeeps
  <2>6. InOrder'
    BY <1>1, <2>4 DEF SendsPiece, InOrder
  <2>7. \A d \in Cli : Untouched(d)
    BY <1>1, <2>4, SendUntouched DEF Untouched
  <2>8. QED
    BY <1>1, <2>5, <2>6, <2>7, UntouchedKeeps DEF DInv
<1>4. QED
  BY <1>2, <1>3 DEF LibraryNext
-----------------------------------------------------------------------------
(* The commands' steps.                                                    *)

\* A command makes a request.
LEMMA SendsDialog ==
    ASSUME DInv, TypeOK', NEW c \in Cli, Sends(c)
    PROVE  DInv'
<1>1. /\ PInv /\ TypeOK /\ InOrder /\ \A d \in Cli : Command(d) /\ Clean(d)
      /\ c \in Clients /\ sent[c] \in Nat /\ step[c] \in Ids
      /\ phase \in [Cli -> {"call", "called", "wait", "polled", "retried",
                           "done", "died"}]
  BY TypesOf DEF DInv, PInv, TypeOK, Ids
<1> PICK m \in {"input", "status"} :
      /\ SendRequest(c, m, step[c])
      /\ \/ /\ m = "input" /\ phase[c] \in {"call", "polled"}
            /\ phase'[c] \in {"called", "retried"}
         \/ m = "status" /\ phase[c] = "wait" /\ phase'[c] = "polled"
  BY <1>1 DEF Sends
<1>2. /\ UNCHANGED daemonSide /\ step' = step
      /\ \A d \in Cli \ {c} : phase'[d] = phase[d]
      /\ m \in Methods
  BY <1>1 DEF Sends, Methods
<1>3. PICK x, o : SendsPiece(c, m, step[c], x, o)
  BY <1>1, <1>2, SendEffect
<1>4. \A y \in Live(c) \cup Done(c) : y.goal # step[c]
  BY <1>1 DEF Command
<1>5. PInv'
  BY <1>1, <1>3, <1>4, SendKeeps
<1>6. InOrder'
  BY <1>1, <1>3 DEF SendsPiece, InOrder
<1>7. ASSUME NEW d \in Cli, d # c PROVE Command(d)' /\ Clean(d)'
  BY <1>1, <1>2, <1>3, <1>7, SendUntouched, UntouchedKeeps DEF Untouched
<1>8. /\ x.client = c /\ x.id = sent[c] + 1 /\ x.goal = step[c] /\ x.method = m
      /\ ~Waiting(c) /\ sent'[c] = sent[c] + 1 /\ Done(c)' = Done(c)
      /\ fragment' = fragment /\ down' = down
      /\ \/ o = "none" /\ outcome' = outcome /\ x.end
         \/ o = "lost" /\ Return(c, "lost")
         \/ o = "cut" /\ Return(c, "cut") /\ MayBeCut(c, m) /\ ~x.end
      /\ \/ Pending(c)' = Pending(c) \cup {x} /\ o # "lost"
         \/ Pending(c)' = Pending(c) /\ o # "none"
  BY <1>1, <1>3 DEF SendsPiece, Done, TypeOK, ProtocolTypeOK
<1>9. Command(c)'
  <2>1. \A y \in Live(c)' : y \in Live(c) \/ (y = x /\ m = "input")
    BY <1>8 DEF Live
  <2>2. \A y \in Live(c) \cup Done(c) : y.id \in Nat /\ y.id <= sent[c]
    BY <1>1, MembersTyped DEF PInv, IdsPass, Past, Live
  <2>3. \A y \in Live(c) \cup Done(c) : y.id # sent'[c]
    BY <1>1, <1>8, <2>2
  <2>4. sent'[c] # 0 /\ phase'[c] \in {"called", "polled", "retried"} /\ step'[c] = step[c]
    BY <1>1, <1>2, <1>8
  <2>5. phase'[c] = "polled" => m = "status"
    OBVIOUS
  <2>6. phase'[c] \in {"called", "retried"} =>
           \A y \in Live(c)' \cup Done(c)' : y.goal = step[c] <=> y.id = sent'[c]
    BY <1>4, <1>8, <2>1, <2>3
  <2>7. phase'[c] = "polled" =>
           \A y \in Live(c)' \cup Done(c)' : y.goal # step[c]
    BY <1>4, <1>8, <2>1, <2>5
  <2>8. \A p \in Live(c)' : p.goal = step[c]
    BY <1>1, <1>8, <2>1 DEF Command
  <2>9. /\ \A e \in Done(c)' : e.goal <= step[c]
        /\ \A k \in 1..(step[c] - 1) : \E e \in Done(c)' : e.goal = k
    BY <1>1, <1>8 DEF Command
  <2>10. QED
    BY <2>4, <2>6, <2>7, <2>8, <2>9 DEF Command
<1>10. Clean(c)'
  <2>1. NoCut(c)
    BY <1>1 DEF Clean
  <2>2. ~fragment[c] /\ \A p \in Pending(c) : p.end /\ p.method \in {"input", "status"}
    BY <1>1, <2>1 DEF Clean
  <2>3. ~Contains(outcome[c], "cut")
    <3>1. DOMAIN outcome[c] = 1..Len(outcome[c])
      BY <1>1, TypesOf
    <3>2. QED
      BY <2>1, <3>1 DEF NoCut, Contains
  <2>4. CASE o = "none" /\ outcome' = outcome /\ x.end
    <3>1. NoCut(c)' /\ \E p \in Pending(c)' : p.id = sent'[c]
      BY <1>8, <2>1, <2>4 DEF NoCut
    <3>2. \A p \in Pending(c)' : p.end /\ p.method \in {"input", "status"}
      BY <1>8, <2>2, <2>4
    <3>3. QED
      BY <1>8, <2>2, <3>1, <3>2 DEF Clean, NoCut
  <2>5. CASE o \in {"lost", "cut"} /\ Return(c, o) /\ (o = "cut" => MayBeCut(c, m))
    <3>1. o \in Outcomes
      BY <2>5 DEF Outcomes
    <3>2. /\ DOMAIN outcome'[c] = DOMAIN outcome[c] \cup {sent'[c]}
          /\ outcome'[c][sent'[c]] = o
          /\ \A id \in DOMAIN outcome[c] : outcome'[c][id] = outcome[c][id]
          /\ Len(outcome'[c]) = sent'[c] /\ sent'[c] \in Nat
      <4>1. sent' = [sent EXCEPT ![c] = @ + 1]
        BY <1>3 DEF SendsPiece
      <4>2. sent'[c] \in Nat
        BY <1>1, <1>8
      <4>3. TypeOK /\ c \in Clients /\ ~Waiting(c) /\ Return(c, o)
        BY <1>1, <1>8, <2>5
      <4>4. QED
        BY <3>1, <4>1, <4>2, <4>3, ReturnTyped
    <3>3. ~Waiting(c)'
      BY <3>2 DEF Waiting
    <3>4. \A id \in DOMAIN outcome'[c] : outcome'[c][id] = "cut" => id = sent'[c]
      BY <2>1, <3>2 DEF NoCut
    <3>5. o = "cut" => phase'[c] \in {"called", "retried"} /\ ~NoCut(c)'
      BY <2>3, <2>5, <3>2 DEF MayBeCut, NoCut
    <3>6. o = "lost" =>
            /\ NoCut(c)'
            /\ ~fragment'[c]
            /\ \A p \in Pending(c)' : p.end /\ p.method \in {"input", "status"}
      BY <1>8, <2>1, <2>2, <3>2 DEF NoCut
    <3>7. phase'[c] \in {"called", "polled", "retried"}
      OBVIOUS
    <3>8. QED
      BY <2>5, <3>3, <3>4, <3>5, <3>6, <3>7 DEF Clean
  <2>6. QED
    BY <1>8, <2>4, <2>5
<1>11. QED
  BY <1>5, <1>6, <1>7, <1>9, <1>10 DEF DInv

\* The steps of a command that write nothing: what they leave of the protocol's
\* part of the invariant, and of the other commands.
LEMMA MovesKeep ==
    ASSUME DInv, TypeOK', NEW c \in Cli,
           \/ UNCHANGED protocolVars
           \/ Leave(c) /\ UNCHANGED <<sent, outcome, up, fragment, chunk, injected>>,
           \A d \in Cli \ {c} : phase'[d] = phase[d] /\ step'[d] = step[d],
           Command(c)', Clean(c)'
    PROVE  DInv'
<1>1. PInv /\ InOrder /\ (\A d \in Cli : Command(d) /\ Clean(d)) /\ c \in Clients
  BY DEF DInv
<1>2. /\ Shrinks
      /\ UNCHANGED <<sent, outcome, fragment, injected>>
      /\ \A d \in Clients : Pending(d)' = Pending(d)
      /\ \A d \in Clients \ {c} : conn'[d] = conn[d] /\ down'[d] = down[d]
  BY <1>1, StillShrinks, LeaveShrinks DEF protocolVars, linkVars
<1>3. PInv'
  BY <1>1, <1>2, ShrinkKeeps
<1>4. InOrder' /\ \A d : Done(d)' = Done(d)
  BY <1>1, <1>2 DEF InOrder, Done
<1>5. \A d \in Cli \ {c} : Untouched(d)
  BY <1>2, <1>4 DEF Untouched
<1>6. \A d \in Cli \ {c} : Command(d)' /\ Clean(d)'
  BY <1>1, <1>5, UntouchedKeeps
<1>7. QED
  BY <1>3, <1>4, <1>6 DEF DInv

\* A command waits for the user, or once more for the session.
LEMMA SleepsDialog ==
    ASSUME DInv, TypeOK', NEW c \in Cli, Sleeps(c)
    PROVE  DInv'
<1>1. /\ PInv /\ TypeOK /\ Command(c) /\ Clean(c) /\ c \in Clients
      /\ phase \in [Cli -> {"call", "called", "wait", "polled", "retried",
                           "done", "died"}]
  BY DEF DInv, PInv, TypeOK
<1>2. /\ UNCHANGED protocolVars /\ step' = step /\ phase'[c] = "wait"
      /\ \A d \in Cli \ {c} : phase'[d] = phase[d]
      /\ ~Waiting(c)
      /\ phase[c] = "polled" \/ (phase[c] = "called" /\ Result(c) = "permission_pending")
  BY <1>1 DEF Sleeps, Goto
<1>3. /\ \A d \in Clients : Pending(d)' = Pending(d)
      /\ UNCHANGED <<sent, outcome, conn, down, fragment, injected>>
  BY <1>1, <1>2, StillShrinks DEF protocolVars, linkVars
<1>4. Live(c)' = Live(c) /\ Done(c)' = Done(c) /\ (Waiting(c)' <=> Waiting(c))
  BY <1>1, <1>3 DEF Live, Done, Waiting
<1>5. sent[c] # 0 /\ sent[c] \in DOMAIN outcome[c] /\ Result(c) = outcome[c][sent[c]]
  BY <1>1, <1>2, LastResult DEF Command
<1>6. \A x \in Live(c) \cup Done(c) : x.goal # step[c]
  <2>1. CASE phase[c] = "polled"
    BY <1>1, <2>1 DEF Command
  <2>2. CASE phase[c] = "called" /\ Result(c) = "permission_pending"
    <3>1. outcome[c][sent[c]] \notin {"injected"} \cup Doubtful
      BY <1>5, <2>2 DEF Doubtful, Failures
    <3>2. \A p \in Live(c) : p.id # sent[c]
      BY <1>1, <1>5, <3>1 DEF PInv, PendingUnanswered, Live, Doubtful
    <3>3. \A e \in Done(c) : e.id # sent[c]
      BY <1>1, <1>5, <3>1, AnswersOwnIs DEF PInv, CarriedOut
    <3>4. QED
      BY <1>1, <2>2, <3>2, <3>3 DEF Command
  <2>3. QED
    BY <1>2, <2>1, <2>2
<1>7. Command(c)'
  BY <1>1, <1>2, <1>3, <1>4, <1>5, <1>6 DEF Command
<1>8. NoCut(c)
  <2>1. CASE phase[c] = "polled"
    BY <1>1, <2>1 DEF Clean
  <2>2. CASE phase[c] = "called" /\ Result(c) = "permission_pending"
    BY <1>1, <1>5, <2>2 DEF Clean, NoCut
  <2>3. QED
    BY <1>2, <2>1, <2>2
<1>9. Clean(c)'
  <2>1. NoCut(c)' /\ ~Waiting(c)'
    BY <1>2, <1>3, <1>4, <1>8 DEF NoCut
  <2>2. ~fragment'[c] /\ \A p \in Pending(c)' : p.end /\ p.method \in {"input", "status"}
    BY <1>1, <1>3, <1>8 DEF Clean
  <2>3. QED
    BY <1>2, <2>1, <2>2 DEF Clean
<1>10. QED
  BY <1>2, <1>7, <1>9, MovesKeep

\* Leaving a connection, or doing nothing with it, keeps a command that does not
\* wait clean, in a phase in which it may be.
LEMMA CleanEnd ==
    ASSUME NEW c \in Cli, Clean(c), ~Waiting(c), fragment' = fragment,
           outcome' = outcome, sent' = sent, Pending(c)' = Pending(c),
           phase'[c] = "died" \/ (NoCut(c) /\ phase'[c] \in {"call", "done"})
    PROVE  Clean(c)'
<1>1. ~Waiting(c)' /\ (NoCut(c)' <=> NoCut(c))
  BY DEF Waiting, NoCut
<1>2. NoCut(c) => /\ ~fragment'[c]
                  /\ \A p \in Pending(c)' : p.end /\ p.method \in {"input", "status"}
  BY DEF Clean
<1>3. QED
  BY <1>1, <1>2 DEF Clean

\* A call has succeeded.
LEMMA SucceedsDialog ==
    ASSUME DInv, TypeOK', NEW c \in Cli, Succeeds(c)
    PROVE  DInv'
<1>1. /\ PInv /\ TypeOK /\ Command(c) /\ Clean(c) /\ c \in Clients
      /\ phase \in [Cli -> {"call", "called", "wait", "polled", "retried",
                           "done", "died"}]
      /\ step \in [Cli -> 1..Calls] /\ step[c] \in Nat /\ step[c] # 0 /\ Calls \in Nat
  BY DEF DInv, PInv, TypeOK
<1>2. ~Waiting(c) /\ phase[c] \in {"called", "retried"} /\ Result(c) = "injected"
  BY DEF Succeeds
<1>3. sent[c] # 0 /\ sent[c] \in DOMAIN outcome[c] /\ outcome[c][sent[c]] = "injected"
  BY <1>1, <1>2, LastResult DEF Command
<1>4. PICK e \in Done(c) : e.id = sent[c]
  BY <1>1, <1>3, AnswersOwnIs DEF PInv, CarriedOut
<1>5. e.goal = step[c]
  BY <1>1, <1>2, <1>4 DEF Command
<1>6. Pending(c) = {}
  <2>1. \A p \in Pending(c) : p.id \in Nat /\ p.id <= sent[c] /\ sent[c] < p.id
    BY <1>1, <1>4, MembersTyped DEF PInv, IdsPass, Past
  <2>2. sent[c] \in Nat
    BY <1>1, TypesOf
  <2>3. QED
    BY <2>1, <2>2
<1>7. NoCut(c)
  BY <1>1, <1>2, <1>3 DEF Clean, NoCut
<1>8. CASE step[c] = Calls /\ Exit(c, "done")
  <2>1. /\ Leave(c) /\ UNCHANGED <<sent, outcome, up, fragment, chunk, injected>>
        /\ step' = step /\ phase'[c] = "done" /\ \A d \in Cli \ {c} : phase'[d] = phase[d]
    BY <1>1, <1>8 DEF Exit, Goto, daemonSide
  <2>2. Pending(c)' = Pending(c) /\ Done(c)' = Done(c)
    BY <1>1, <2>1, LeaveShrinks DEF Done
  <2>3. Live(c)' = {} /\ (Waiting(c)' <=> Waiting(c))
    BY <1>6, <2>1, <2>2 DEF Live, Waiting
  <2>4. Command(c)'
    BY <1>1, <1>2, <1>3, <1>4, <1>5, <1>8, <2>1, <2>2, <2>3 DEF Command
  <2>5. Clean(c)'
    BY <1>1, <1>2, <1>7, <2>1, <2>2, CleanEnd
  <2>6. QED
    BY <2>1, <2>4, <2>5, MovesKeep
<1>9. CASE /\ step[c] # Calls /\ step' = [step EXCEPT ![c] = @ + 1]
           /\ Goto(c, "call") /\ UNCHANGED protocolVars
  <2>1. /\ step'[c] = step[c] + 1 /\ phase'[c] = "call"
        /\ \A d \in Cli \ {c} : phase'[d] = phase[d] /\ step'[d] = step[d]
        /\ UNCHANGED <<sent, outcome, up, fragment, chunk, injected>>
    BY <1>1, <1>9 DEF Goto, protocolVars, linkVars
  <2>2. Pending(c)' = Pending(c) /\ Done(c)' = Done(c)
    BY <1>1, <1>9, <2>1, StillShrinks DEF Done
  <2>3. Live(c)' = {} /\ (Waiting(c)' <=> Waiting(c))
    BY <1>6, <2>1, <2>2 DEF Live, Waiting
  <2>4. \A y \in Done(c)' : y.goal <= step'[c] /\ y.goal # step'[c]
    <3>1. \A y \in Done(c) : y.goal \in Nat /\ y.goal <= step[c]
      BY <1>1, MembersTyped DEF Command, Ids
    <3>2. QED
      BY <1>1, <2>1, <2>2, <3>1
  <2>5. \A k \in 1..(step'[c] - 1) : \E y \in Done(c)' : y.goal = k
    <3> SUFFICES ASSUME NEW k \in 1..(step'[c] - 1)
                 PROVE  \E y \in Done(c) : y.goal = k
      BY <2>2
    <3>1. k \in 1..(step[c] - 1) \/ k = step[c]
      BY <1>1, <2>1
    <3>2. QED
      BY <1>1, <1>4, <1>5, <3>1 DEF Command
  <2>6. Command(c)'
    BY <1>2, <2>1, <2>3, <2>4, <2>5 DEF Command
  <2>7. Clean(c)'
    BY <1>1, <1>2, <1>7, <2>1, <2>2, CleanEnd
  <2>8. QED
    BY <1>9, <2>1, <2>6, <2>7, MovesKeep
<1>10. QED
  BY <1>8, <1>9 DEF Succeeds, Advance

\* A command gives up, or ends with an error.
LEMMA DiesDialog ==
    ASSUME DInv, TypeOK', NEW c \in Cli, Dies(c)
    PROVE  DInv'
<1>1. /\ PInv /\ TypeOK /\ Command(c) /\ Clean(c) /\ c \in Clients
      /\ phase \in [Cli -> {"call", "called", "wait", "polled", "retried",
                           "done", "died"}]
  BY DEF DInv, PInv, TypeOK
<1>2. /\ Leave(c) /\ UNCHANGED <<sent, outcome, up, fragment, chunk, injected>>
      /\ step' = step /\ phase'[c] = "died" /\ \A d \in Cli \ {c} : phase'[d] = phase[d]
  BY <1>1 DEF Dies, Exit, Goto, daemonSide
<1>3. Pending(c)' = Pending(c) /\ Done(c)' = Done(c)
  BY <1>1, <1>2, LeaveShrinks DEF Done
<1>4. Live(c)' = Live(c) /\ (Waiting(c)' <=> Waiting(c))
  BY <1>2, <1>3 DEF Live, Waiting
<1>5. ~Waiting(c) /\ sent[c] # 0
  BY <1>1 DEF Dies, Command
<1>6. /\ \A p \in Live(c) : p.id = sent[c]
      /\ \A e \in Done(c) : e.goal = step[c] =>
           e.id = sent[c] /\ outcome[c][sent[c]] # "injected"
  <2>1. CASE phase[c] = "wait"
    BY <1>1, <2>1 DEF Command
  <2>2. CASE phase[c] \in {"called", "retried"} /\ Result(c) # "injected"
    <3>1. outcome[c][sent[c]] # "injected"
      BY <1>1, <1>5, <2>2, LastResult
    <3>2. QED
      BY <1>1, <2>2, <3>1 DEF Command
  <2>3. QED
    BY <2>1, <2>2 DEF Dies
<1>7. Command(c)'
  BY <1>1, <1>2, <1>3, <1>4, <1>5, <1>6 DEF Command
<1>8. Clean(c)'
  BY <1>1, <1>2, <1>3, <1>5, CleanEnd
<1>9. QED
  BY <1>2, <1>7, <1>8, MovesKeep

-----------------------------------------------------------------------------
(* The theorems.                                                           *)

\* The invariant holds at first: nothing is pending, answered or carried out.
LEMMA DialogInit == Init => DInv
<1> SUFFICES ASSUME Init PROVE DInv
  OBVIOUS
<1>1. TypeOK
  BY TypeInit
<1>2. /\ \A c \in Clients : /\ sent[c] = 0 /\ outcome[c] = <<>> /\ up[c] = <<>>
                            /\ down[c] = <<>> /\ conn[c] = "none" /\ ~fragment[c]
      /\ chunk = <<>> /\ injected = <<>>
      /\ \A c \in Cli : c \in Clients /\ phase[c] = "call" /\ step[c] = 1
  BY DEF Init, ProtocolInit
<1>3. /\ ToSet(chunk) = {} /\ ToSet(injected) = {} /\ DOMAIN chunk = {} /\ DOMAIN injected = {}
      /\ \A c \in Clients : /\ ToSet(up[c]) = {} /\ ToSet(down[c]) = {}
                            /\ DOMAIN up[c] = {} /\ DOMAIN outcome[c] = {}
  BY <1>2 DEF ToSet
<1>4. /\ \A c : Done(c) = {}
      /\ \A c \in Clients : Pending(c) = {} /\ Live(c) = {} /\ ~Waiting(c)
  <2>1. \A c \in Clients : Len(outcome[c]) = 0
    BY <1>2
  <2>2. \A c \in Clients : ~Waiting(c)
    BY <1>2, <2>1 DEF Waiting
  <2>3. QED
    BY <1>3, <2>2 DEF Pending, Live, Done
<1>5. PInv
  <2>1. Ordered
    BY <1>3 DEF Ordered, Ascending
  <2>2. IdsPass /\ RepliesTrue /\ PendingUnanswered
    BY <1>3, <1>4 DEF IdsPass, RepliesTrue, PendingUnanswered
  <2>3. AnswersOwn /\ GoalsOnce
    BY <1>3, <1>4 DEF AnswersOwn, GoalsOnce, AtMostOnce
  <2>4. QED
    BY <1>1, <2>1, <2>2, <2>3 DEF PInv
<1>6. ASSUME NEW c \in Cli PROVE Command(c)
  <2>1. 1..(step[c] - 1) = {}
    BY <1>2
  <2>2. QED
    BY <1>2, <1>4, <2>1 DEF Command
<1>7. \A c \in Cli : Clean(c)
  BY <1>2, <1>3, <1>4 DEF Clean, NoCut
<1>8. InOrder
  BY <1>3 DEF InOrder
<1>9. QED
  BY <1>5, <1>6, <1>7, <1>8 DEF DInv

\* Every step keeps it.
LEMMA DialogNext ==
    ASSUME DInv, [Next]_vars
    PROVE  DInv'
<1>1. TypeOK'
  BY TypeNext DEF DInv, PInv
<1>2. CASE \E c \in Cli : CliNext(c)
  <2> PICK c \in Cli : CliNext(c)
    BY <1>2
  <2>1. Sends(c) \/ Sleeps(c) \/ Succeeds(c) \/ Dies(c)
    BY CliCases DEF DInv, PInv
  <2>2. QED
    BY <1>1, <2>1, SendsDialog, SleepsDialog, SucceedsDialog, DiesDialog
<1>3. CASE \E c \in Clients \ Cli : LibraryNext(c) /\ UNCHANGED <<phase, step>>
  BY <1>1, <1>3, LibraryDialog
<1>4. CASE DaemonNext /\ UNCHANGED <<phase, step>>
  BY <1>1, <1>4, DaemonDialog
<1>5. CASE (\E c \in Clients : ClientNext(c)) /\ UNCHANGED <<phase, step>>
  BY <1>1, <1>5, ClientDialog
<1>6. CASE UNCHANGED vars
  <2>1. UNCHANGED protocolVars /\ phase' = phase /\ step' = step
    BY <1>6 DEF vars
  <2>2. Shrinks /\ outcome' = outcome /\ \A d \in Clients : Pending(d)' = Pending(d)
    BY <2>1, StillShrinks DEF DInv
  <2>3. PInv' /\ InOrder' /\ \A d : Done(d)' = Done(d)
    BY <1>1, <2>2, ShrinkKeeps DEF DInv, Shrinks, InOrder, Done
  <2>4. \A d \in Cli : Untouched(d)
    BY <2>1, <2>2, <2>3 DEF Untouched, protocolVars, linkVars
  <2>5. QED
    BY <2>3, <2>4, UntouchedKeeps DEF DInv
<1>7. QED
  BY <1>2, <1>3, <1>4, <1>5, <1>6 DEF Next

\* The invariant holds in every behaviour.
THEOREM DialogInvariant == Spec => []DInv
<1>1. Init => DInv
  BY DialogInit
<1>2. DInv /\ [Next]_vars => DInv'
  BY DialogNext
<1>3. QED
  BY <1>1, <1>2, PTL DEF Spec

\* No input the caller wants once is carried out twice, whatever times out, is
\* lost or is tried again.
THEOREM DialogAtMostOnce == Spec => []AtMostOnce
<1>1. DInv => AtMostOnce
  BY DEF DInv, PInv, GoalsOnce
<1>2. QED
  BY <1>1, DialogInvariant, PTL

\* What request() returns is the answer to that request: success means that this
\* input was carried out, and one that was, if only in part, ends in success, in
\* its own failure or without an answer, never in what belongs to another request
\* or in permission_pending, which a command takes as leave to repeat it.
THEOREM DialogAnswersOwn == Spec => []AnswersOwn
<1>1. DInv => AnswersOwn
  BY DEF DInv, PInv
<1>2. QED
  BY <1>1, DialogInvariant, PTL

\* A request whose line was cut is never carried out.
THEOREM DialogCutNeverServed == Spec => []CutNeverServed
<1>1. ASSUME DInv PROVE CutNeverServed
  <2>1. TypeOK /\ AnswersOwn
    BY <1>1 DEF DInv, PInv
  <2>2. \A i \in DOMAIN injected : injected[i].client \in Clients
    <3> DEFINE S == [client : Clients, id : Ids, goal : Ids]
    <3>1. injected \in Seq(S) /\ \A e \in S : e.client \in Clients
      BY <2>1 DEF TypeOK, ProtocolTypeOK
    <3> HIDE DEF S
    <3>2. \A i \in DOMAIN injected : injected[i] \in S
      BY <3>1, ElementOfSeq
    <3>3. QED
      BY <3>1, <3>2
  <2>3. "cut" \notin {"injected"} \cup Doubtful
    BY DEF Doubtful, Failures
  <2>4. QED
    BY <2>1, <2>2, <2>3 DEF CutNeverServed, AnswersOwn
<1>2. QED
  BY <1>1, DialogInvariant, PTL

\* A command never waits in vain: while its connection is up, its line or its
\* answer is on its way.
THEOREM DialogNoAnswerMissing == Spec => []NoAnswerMissing
<1>1. ASSUME DInv PROVE NoAnswerMissing
  <2> SUFFICES ASSUME NEW c \in Cli, Waiting(c), Quiet(c)
               PROVE  FALSE
    BY DEF NoAnswerMissing
  <2>1. Clean(c) /\ conn[c] = "up" /\ chunk = <<>> /\ up[c] = <<>> /\ down[c] = <<>>
    BY <1>1 DEF DInv, Quiet, LoopIdle
  <2>2. ToSet(chunk) = {} /\ ToSet(up[c]) = {} /\ ToSet(down[c]) = {}
    BY <2>1 DEF ToSet
  <2>3. QED
    BY <2>1, <2>2 DEF Clean, Pending
<1>2. QED
  BY <1>1, DialogInvariant, PTL

\* A command's calls are carried out in order, all of them when it reports
\* success, and when it dies those before its last, and that one too, wholly or in
\* part, only if it failed or no answer to it came.
THEOREM DialogCommandTruth == Spec => []CommandTruth
<1>1. ASSUME DInv PROVE CommandTruth
  <2>1. /\ TypeOK /\ InOrder /\ AnswersOwn
        /\ \A c \in Cli : Command(c) /\ c \in Clients
    BY <1>1 DEF DInv, PInv
  <2>2. ASSUME NEW c \in Cli
        PROVE  /\ step[c] \in 1..Calls /\ Calls \in Nat
               /\ Carried(c) \subseteq 1..step[c]
               /\ 1..(step[c] - 1) \subseteq Carried(c)
               /\ \A k : k \in Carried(c) <=> \E e \in Done(c) : e.goal = k
    <3>1. \A k : k \in Carried(c) <=> \E e \in Done(c) : e.goal = k
      BY DEF Carried, Done
    <3>2. step[c] \in 1..Calls /\ Calls \in Nat
      BY <2>1 DEF TypeOK
    <3>3. \A e \in Done(c) : e.goal \in Nat /\ e.goal # 0 /\ e.goal <= step[c]
      BY <2>1, MembersTyped DEF Command, Ids
    <3>4. \A e \in Done(c) : e.goal \in 1..step[c]
      BY <3>2, <3>3
    <3>5. 1..(step[c] - 1) \subseteq Carried(c)
      BY <2>1, <3>1 DEF Command
    <3>6. QED
      BY <3>1, <3>2, <3>4, <3>5
  <2>3. \A n \in Nat : n # 0 => 1..n = 1..(n - 1) \cup {n}
    OBVIOUS
  <2>4. ASSUME NEW c \in Cli, phase[c] = "done" PROVE Carried(c) = 1..Calls
    <3>1. step[c] = Calls /\ Calls \in Carried(c)
      BY <2>1, <2>2, <2>4 DEF Command
    <3>2. 1..Calls = 1..(Calls - 1) \cup {Calls}
      BY <2>2, <2>3
    <3>3. 1..(Calls - 1) \subseteq Carried(c) /\ Carried(c) \subseteq 1..Calls
      BY <2>2, <3>1
    <3>4. QED
      BY <3>1, <3>2, <3>3, Zenon
  <2>5. ASSUME NEW c \in Cli, phase[c] = "died"
        PROVE  \/ Carried(c) = 1..(step[c] - 1)
               \/ Carried(c) = 1..step[c] /\ Result(c) \in Doubtful
    <3>1. step[c] \in Nat /\ step[c] # 0 /\ 1..step[c] = 1..(step[c] - 1) \cup {step[c]}
      BY <2>2, <2>3
    <3>2. CASE step[c] \in Carried(c)
      <4>1. PICK e \in Done(c) : e.goal = step[c]
        BY <2>2, <3>2
      <4>2. /\ e.id = sent[c] /\ outcome[c][sent[c]] # "injected"
            /\ ~Waiting(c) /\ sent[c] # 0
        BY <2>1, <2>5, <4>1 DEF Command
      <4>3. sent[c] \in DOMAIN outcome[c] /\ Result(c) = outcome[c][sent[c]]
        BY <2>1, <4>2, LastResult
      <4>4. CarriedOut(c, sent[c])
        BY <4>1, <4>2 DEF CarriedOut
      <4>5. Result(c) \in Doubtful
        BY <2>1, <4>2, <4>3, <4>4, AnswersOwnIs
      <4>6. QED
        BY <2>2, <3>1, <3>2, <4>5
    <3>3. CASE step[c] \notin Carried(c)
      BY <2>2, <3>1, <3>3
    <3>4. QED
      BY <3>2, <3>3
  <2>6. QED
    BY <2>1, <2>4, <2>5 DEF CommandTruth, InOrder
<1>2. QED
  BY <1>1, DialogInvariant, PTL
=============================================================================
