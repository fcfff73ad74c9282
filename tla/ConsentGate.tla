----------------------------- MODULE ConsentGate -----------------------------
(***************************************************************************)
(* What the daemon promises its clients about the user's consent (the      *)
(* authorisation convention of docs/protocol.md and the state diagram of   *)
(* docs/architecture.md): input flows only through an open gate; the gate  *)
(* opens only by an answer to a question that is pending; nobody is asked  *)
(* twice at a time; and once the user has refused, only a person           *)
(* (session.start) may have the question put again, never an input         *)
(* request.                                                                *)
(***************************************************************************)
VARIABLES
    gate,   \* "idle", "asking", "open" or "refused"
    asker   \* what had the latest question put: "person" or "input"

gateVars == <<gate, asker>>

GateInit == gate = "idle" /\ asker = "person"

\* A question is put; it may fail, or be refused, before anybody sees it.
Ask(by) ==
    /\ \/ gate = "idle"
       \/ gate = "refused" /\ by = "person"
    /\ gate' \in {"asking", "idle", "refused"}
    /\ asker' = by

Answered ==
    /\ gate = "asking"
    /\ gate' \in {"open", "refused", "idle"}
    /\ UNCHANGED asker

Shut ==
    /\ gate = "open"
    /\ gate' = "idle"
    /\ UNCHANGED asker

GateNext == Ask("person") \/ Ask("input") \/ Answered \/ Shut

GateSpec == GateInit /\ [][GateNext]_gateVars
=============================================================================
