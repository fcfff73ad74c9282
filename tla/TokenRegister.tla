--------------------------- MODULE TokenRegister ---------------------------
(***************************************************************************)
(* What the users of the token cache may rely on: one register, read and   *)
(* written atomically somewhere between the call and its return.  A        *)
(* process may die at any time; a loss of power leaves the register at a   *)
(* value it has had since it was last made durable, and on a reliable file *)
(* system a save that has returned is durable.                             *)
(***************************************************************************)
EXTENDS Naturals

CONSTANTS
    Procs,   \* processes that use the cache
    Tokens,  \* restore tokens
    None     \* no token; not a member of Tokens

VARIABLES
    value,    \* the token, or None
    may,      \* what a loss of power may leave
    call,     \* the call each process is in
    phase,    \* how far it is: "idle", "asked", "taken" (in effect) or "done"
    result,   \* what it returns
    reliable  \* does the file system order data before a rename, and sync
              \* directories?

registerVars == <<value, may, call, phase, result, reliable>>

Calls == {[kind |-> "save", token |-> t] : t \in Tokens}
            \cup {[kind |-> k, token |-> None] : k \in {"load", "revoke"}}

NoCall == [kind |-> "none", token |-> None]

Init ==
    /\ value \in Tokens \cup {None}
    /\ may = {value}
    /\ call = [p \in Procs |-> NoCall]
    /\ phase = [p \in Procs |-> "idle"]
    /\ result = [p \in Procs |-> None]
    /\ reliable \in BOOLEAN

Move(p, from, to) == phase[p] = from /\ phase' = [phase EXCEPT ![p] = to]

Answer(p, r) == result' = [result EXCEPT ![p] = r]

Ask(p) ==
    /\ Move(p, "idle", "asked")
    /\ \E c \in Calls : call' = [call EXCEPT ![p] = c]
    /\ UNCHANGED <<value, may, result, reliable>>

\* A load that finds the file unreadable says that there is no token.
TakeLoad(p) ==
    /\ call[p].kind = "load"
    /\ Move(p, "asked", "done")
    /\ Answer(p, value) \/ Answer(p, None)
    /\ UNCHANGED <<value, may, call, reliable>>

TakeRevoke(p) ==
    /\ call[p].kind = "revoke"
    /\ Move(p, "asked", "done")
    /\ value' = None
    /\ may' = may \cup {None}
    /\ Answer(p, "ok")
    /\ UNCHANGED <<call, reliable>>

TakeSave(p) ==
    /\ call[p].kind = "save"
    /\ Move(p, "asked", "taken")
    /\ value' = call[p].token
    /\ may' = may \cup {value'} \cup (IF reliable THEN {} ELSE {None})
    /\ UNCHANGED <<call, result, reliable>>

\* Some of what a loss of power could leave is ruled out.
Settle == value \in may' /\ may' \subseteq may

SaveDone(p) ==
    /\ Move(p, "taken", "done")
    /\ Settle
    /\ reliable => may' = {value}
    /\ Answer(p, "ok")
    /\ UNCHANGED <<value, call, reliable>>

\* A save or a revocation raises, and has changed nothing.
Refuse(p) ==
    /\ call[p].kind # "load"
    /\ Move(p, "asked", "done")
    /\ Answer(p, "raised")
    /\ UNCHANGED <<value, may, call, reliable>>

Return(p) ==
    /\ Move(p, "done", "idle")
    /\ call' = [call EXCEPT ![p] = NoCall]
    /\ Answer(p, None)
    /\ UNCHANGED <<value, may, reliable>>

Die(p) ==
    /\ phase[p] # "idle"
    /\ phase' = [phase EXCEPT ![p] = "idle"]
    /\ call' = [call EXCEPT ![p] = NoCall]
    /\ Answer(p, None)
    /\ UNCHANGED <<value, may, reliable>>

WriteBack == Settle /\ UNCHANGED <<value, call, phase, result, reliable>>

LosePower ==
    /\ value' \in may
    /\ may' = {value'}
    /\ call' = [p \in Procs |-> NoCall]
    /\ phase' = [p \in Procs |-> "idle"]
    /\ result' = [p \in Procs |-> None]
    /\ UNCHANGED reliable

Next ==
    \/ \E p \in Procs :
         \/ Ask(p) \/ TakeLoad(p) \/ TakeRevoke(p) \/ TakeSave(p) \/ SaveDone(p)
         \/ Refuse(p) \/ Return(p) \/ Die(p)
    \/ WriteBack
    \/ LosePower

Spec == Init /\ [][Next]_registerVars
=============================================================================
