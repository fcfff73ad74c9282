------------------------- MODULE TokenCache_proofs -------------------------
(***************************************************************************)
(* Proofs about TokenCache, for any number of processes and tokens: what   *)
(* the files hold, and that the cache is the register of TokenRegister.    *)
(***************************************************************************)
EXTENDS TokenCache, TLAPS

USE CacheAssumption

\* What the token file may hold: never a token that was cut short.
Stored == Tokens \cup {"missing", "empty"}

\* A process is where it is because of its call.
InItsCall ==
    \A p \in Procs :
        /\ pc[p] \in Saving \cup {"fsync"} => call[p].kind = "save" /\ call[p].token \in Tokens
        /\ pc[p] = "open" => call[p].kind = "load"
        /\ pc[p] = "unlink" => call[p].kind = "revoke"

\* A temporary file is whole once its writing has succeeded.
TempWhole ==
    \A p \in Procs : pc[p] \in {"chmod", "replace"} => tmp[p] = call[p].token

\* The inductive invariant.
CacheInv ==
    /\ TypeOK
    /\ InItsCall
    /\ TempWhole
    /\ file \in Stored \cap disk
    /\ disk \subseteq Stored

\* The invariant holds initially.
LEMMA CacheInit == Init => CacheInv
  BY DEF Init, CacheInv, TypeOK, InItsCall, TempWhole, Stored, Contents, NoCall, Calls, Saving

\* Each step of each process, and of the machine, preserves the invariant.
LEMMA CacheStep == CacheInv /\ [Next]_vars => CacheInv'
<1> SUFFICES ASSUME CacheInv, [Next]_vars PROVE CacheInv'
  OBVIOUS
<1> USE DEF CacheInv, TypeOK, InItsCall, TempWhole, Stored, Contents, NoCall, Calls, Saving,
            Goto, Result, Fill
<1>1. CASE UNCHANGED vars
  BY <1>1 DEF vars
<1>2. ASSUME NEW p \in Procs, Begin(p) PROVE CacheInv'
  BY <1>2 DEF Begin
<1>3. ASSUME NEW p \in Procs, Load(p) PROVE CacheInv'
  BY <1>3 DEF Load
<1>4. ASSUME NEW p \in Procs, Mkstemp(p) PROVE CacheInv'
  BY <1>4 DEF Mkstemp
<1>5. ASSUME NEW p \in Procs, Write(p) PROVE CacheInv'
  BY <1>5 DEF Write
<1>6. ASSUME NEW p \in Procs, Chmod(p) PROVE CacheInv'
  BY <1>6 DEF Chmod
<1>7. ASSUME NEW p \in Procs, Replace(p) PROVE CacheInv'
  BY <1>7 DEF Replace
<1>8. ASSUME NEW p \in Procs, FsyncDir(p) PROVE CacheInv'
  BY <1>8 DEF FsyncDir
<1>9. ASSUME NEW p \in Procs, Discard(p) PROVE CacheInv'
  BY <1>9 DEF Discard
<1>10. ASSUME NEW p \in Procs, Unlink(p) PROVE CacheInv'
  BY <1>10 DEF Unlink
<1>11. ASSUME NEW p \in Procs, Return(p) PROVE CacheInv'
  BY <1>11 DEF Return
<1>12. ASSUME NEW p \in Procs, Die(p) PROVE CacheInv'
  BY <1>12 DEF Die
<1>13. CASE WriteBack
  BY <1>13 DEF WriteBack
<1>14. CASE LosePower
  BY <1>14 DEF LosePower
<1>15. QED
  BY <1>1, <1>2, <1>3, <1>4, <1>5, <1>6, <1>7, <1>8, <1>9, <1>10, <1>11, <1>12, <1>13,
     <1>14 DEF Next

\* Whatever the processes do, are killed at or lose power at, the calls and the
\* files hold values of their types.
THEOREM CacheTypeCorrect == Spec => []TypeOK
<1>1. CacheInv => TypeOK
  BY DEF CacheInv
<1>2. QED
  BY <1>1, CacheInit, CacheStep, PTL DEF Spec

-----------------------------------------------------------------------------
(* The cache implements the register.                                      *)

\* The register's variables, as TokenCache maps them.
AsToken(c) == IF c \in {"missing", "empty"} THEN None ELSE c
Phase == [p \in Procs |-> IF pc[p] \in Saving \cup {"open", "unlink"} THEN "asked"
                          ELSE IF pc[p] = "fsync" THEN "taken" ELSE pc[p]]

\* A process that moves on moves on in the register, and no other does.
LEMMA PhaseMoves ==
    ASSUME TypeOK, NEW p \in Procs, NEW to \in Saving \cup {"idle", "open", "unlink", "fsync", "done"},
           pc' = [pc EXCEPT ![p] = to]
    PROVE Phase' = [Phase EXCEPT ![p] = IF to \in Saving \cup {"open", "unlink"} THEN "asked"
                                        ELSE IF to = "fsync" THEN "taken" ELSE to]
  BY DEF TypeOK, Phase

\* The initial files are an initial register.
LEMMA RegisterInit == Init => Register!Init
<1> SUFFICES ASSUME Init PROVE Register!Init
  OBVIOUS
<1>1. AsToken(file) \in Tokens \cup {None} /\ {AsToken(c) : c \in disk} = {AsToken(file)}
  BY DEF Init, AsToken
<1>2. Phase = [p \in Procs |-> "idle"]
  BY DEF Init, Phase, Saving
<1>3. QED
  BY <1>1, <1>2 DEF Init, Register!Init, AsToken, Phase, NoCall, Register!NoCall

\* Each step of the cache is a step of the register or changes nothing of it.
LEMMA RegisterStep == CacheInv /\ [Next]_vars => [Register!Next]_(Register!registerVars)
<1> SUFFICES ASSUME CacheInv, [Next]_vars
             PROVE  [Register!Next]_(Register!registerVars)
  OBVIOUS
<1> DEFINE value == AsToken(file)
           may == {AsToken(c) : c \in disk}
<1> USE DEF CacheInv, InItsCall, TempWhole, Stored, Goto, Result, Fill, Saving,
            Register!Move, Register!Answer
<1>1. CASE UNCHANGED vars
  BY <1>1 DEF vars, Register!registerVars
<1>2. ASSUME NEW p \in Procs, Begin(p) PROVE Register!Ask(p)
  <2>1. PICK c \in Calls :
          /\ call' = [call EXCEPT ![p] = c]
          /\ Goto(p, "idle", [save |-> "mkstemp", load |-> "open", revoke |-> "unlink"][c.kind])
    BY <1>2 DEF Begin
  <2>2. /\ pc[p] = "idle"
        /\ \E to \in {"mkstemp", "open", "unlink"} : pc' = [pc EXCEPT ![p] = to]
    <3> DEFINE first == [save |-> "mkstemp", load |-> "open", revoke |-> "unlink"]
    <3>1. c.kind \in {"save", "load", "revoke"}
      BY DEF Calls
    <3>2. first[c.kind] \in {"mkstemp", "open", "unlink"}
      BY <3>1
    <3>3. pc[p] = "idle" /\ pc' = [pc EXCEPT ![p] = first[c.kind]]
      BY <2>1
    <3> HIDE DEF first
    <3>4. QED
      BY <3>2, <3>3
  <2>3. Phase[p] = "idle" /\ Phase' = [Phase EXCEPT ![p] = "asked"]
    BY <2>2, PhaseMoves DEF Phase
  <2>4. UNCHANGED <<value, may, result, reliable>> /\ c \in Register!Calls
    BY <1>2, <2>1 DEF Begin, AsToken, Calls, Register!Calls
  <2>5. QED
    BY <2>1, <2>3, <2>4 DEF AsToken, Phase, Register!Ask
<1>3. ASSUME NEW p \in Procs, Load(p) PROVE Register!TakeLoad(p)
  <2>1. Phase[p] = "asked" /\ Phase' = [Phase EXCEPT ![p] = "done"]
    BY <1>3, PhaseMoves DEF Load, Phase
  <2>2. QED
    BY <1>3, <2>1 DEF Load, Register!TakeLoad, Phase
<1>4. ASSUME NEW p \in Procs, Mkstemp(p)
      PROVE  Register!Refuse(p) \/ UNCHANGED Register!registerVars
  <2>1. CASE pc' = [pc EXCEPT ![p] = "write"]
    <3>1. UNCHANGED Phase
      BY <1>4, <2>1, PhaseMoves DEF Mkstemp, Phase, TypeOK
    <3>2. QED
      BY <1>4, <2>1, <3>1 DEF Mkstemp, Phase, TypeOK, Register!registerVars
  <2>2. CASE pc' = [pc EXCEPT ![p] = "done"]
    <3>1. Phase[p] = "asked" /\ Phase' = [Phase EXCEPT ![p] = "done"]
      BY <1>4, <2>2, PhaseMoves DEF Mkstemp, Phase
    <3>2. QED
      BY <1>4, <2>2, <3>1 DEF Mkstemp, Phase, TypeOK, Register!Refuse
  <2>3. QED
    BY <1>4, <2>1, <2>2 DEF Mkstemp
<1>5. ASSUME NEW p \in Procs, Write(p) \/ Chmod(p) PROVE UNCHANGED Register!registerVars
  <2>1. UNCHANGED Phase
    BY <1>5, PhaseMoves DEF Write, Chmod, Phase, TypeOK
  <2>2. QED
    BY <1>5, <2>1 DEF Write, Chmod, Phase, Register!registerVars
<1>6. ASSUME NEW p \in Procs, Replace(p)
      PROVE  Register!TakeSave(p) \/ UNCHANGED Register!registerVars
  <2>1. CASE pc' = [pc EXCEPT ![p] = "fsync"] /\ file' = tmp[p]
    <3>1. Phase[p] = "asked" /\ Phase' = [Phase EXCEPT ![p] = "taken"]
      BY <1>6, <2>1, PhaseMoves DEF Replace, Phase
    <3>2. /\ value' = call[p].token
          /\ may' = may \cup {value'} \cup (IF reliable THEN {} ELSE {None})
          /\ UNCHANGED <<call, result, reliable>>
      BY <1>6, <2>1 DEF Replace, TypeOK, AsToken
    <3>3. QED
      BY <1>6, <3>1, <3>2 DEF Replace, Phase, AsToken, Register!TakeSave
  <2>2. CASE pc' = [pc EXCEPT ![p] = "discard"]
    <3>1. UNCHANGED Phase
      BY <1>6, <2>2, PhaseMoves DEF Replace, Phase, TypeOK
    <3>2. QED
      BY <1>6, <2>2, <3>1 DEF Replace, Phase, TypeOK, Register!registerVars
  <2>3. QED
    BY <1>6, <2>1, <2>2 DEF Replace
<1>7. ASSUME NEW p \in Procs, FsyncDir(p) PROVE Register!SaveDone(p)
  <2>1. Phase[p] = "taken" /\ Phase' = [Phase EXCEPT ![p] = "done"]
    BY <1>7, PhaseMoves DEF FsyncDir, Phase
  <2>2. /\ value \in may' /\ may' \subseteq may
        /\ reliable => may' = {value}
    BY <1>7 DEF FsyncDir, AsToken
  <2>3. QED
    BY <1>7, <2>1, <2>2 DEF FsyncDir, Phase, AsToken, Register!SaveDone, Register!Settle
<1>8. ASSUME NEW p \in Procs, Discard(p) PROVE Register!Refuse(p)
  <2>1. Phase[p] = "asked" /\ Phase' = [Phase EXCEPT ![p] = "done"]
    BY <1>8, PhaseMoves DEF Discard, Phase
  <2>2. QED
    BY <1>8, <2>1 DEF Discard, Phase, Register!Refuse
<1>9. ASSUME NEW p \in Procs, Unlink(p) PROVE Register!TakeRevoke(p) \/ Register!Refuse(p)
  <2>1. Phase[p] = "asked" /\ Phase' = [Phase EXCEPT ![p] = "done"]
    BY <1>9, PhaseMoves DEF Unlink, Phase
  <2>2. CASE file' = "missing" /\ disk' = disk \cup {"missing"} /\ Result(p, "ok")
    <3>1. value' = None /\ may' = may \cup {None}
      BY <2>2 DEF AsToken
    <3>2. QED
      BY <1>9, <2>1, <2>2, <3>1 DEF Unlink, Phase, AsToken, Register!TakeRevoke
  <2>3. CASE Result(p, "raised") /\ UNCHANGED <<file, disk>>
    BY <1>9, <2>1, <2>3 DEF Unlink, Phase, Register!Refuse
  <2>4. QED
    BY <1>9, <2>2, <2>3 DEF Unlink
<1>10. ASSUME NEW p \in Procs, Return(p) PROVE Register!Return(p)
  <2>1. Phase[p] = "done" /\ Phase' = [Phase EXCEPT ![p] = "idle"]
    BY <1>10, PhaseMoves DEF Return, Phase
  <2>2. QED
    BY <1>10, <2>1 DEF Return, Phase, NoCall, Register!Return, Register!NoCall
<1>11. ASSUME NEW p \in Procs, Die(p) PROVE Register!Die(p)
  <2>1. Phase[p] # "idle" /\ Phase' = [Phase EXCEPT ![p] = "idle"]
    BY <1>11, PhaseMoves DEF Die, Phase, TypeOK
  <2>2. QED
    BY <1>11, <2>1 DEF Die, Phase, NoCall, Register!Die, Register!NoCall
<1>12. CASE WriteBack
  <2>1. value \in may' /\ may' \subseteq may
    BY <1>12 DEF WriteBack, AsToken
  <2>2. UNCHANGED Phase
    BY <1>12 DEF WriteBack, Phase
  <2>3. UNCHANGED <<value, call, result, reliable>>
    BY <1>12 DEF WriteBack, AsToken
  <2>4. QED
    BY <2>1, <2>2, <2>3 DEF AsToken, Phase, Register!WriteBack, Register!Settle, Register!Next
<1>13. CASE LosePower
  <2>1. value' \in may
    BY <1>13 DEF LosePower, AsToken
  <2>2. may' = {value'}
    BY <1>13 DEF LosePower, AsToken
  <2>3. Phase' = [p \in Procs |-> "idle"]
    BY <1>13 DEF LosePower, Phase
  <2>4. /\ call' = [p \in Procs |-> Register!NoCall]
        /\ result' = [p \in Procs |-> None]
        /\ UNCHANGED reliable
    BY <1>13 DEF LosePower, NoCall, Register!NoCall
  <2>5. QED
    BY <2>1, <2>2, <2>3, <2>4 DEF AsToken, Phase, Register!LosePower, Register!Next
<1>14. QED
  BY <1>1, <1>2, <1>3, <1>4, <1>5, <1>6, <1>7, <1>8, <1>9, <1>10, <1>11, <1>12, <1>13
  DEF Next, Register!Next, WriteBack, LosePower

\* For any number of processes and tokens, with kills and losses of power
\* between any two system calls, the cache is one atomic register: a load sees
\* a whole token that was there, a save takes effect at once or not at all, and
\* on a reliable file system a save that has returned survives.
THEOREM CacheImplementsRegister == Spec => ImplementsRegister
<1>1. Init /\ [][Next]_vars => Register!Init /\ [][Register!Next]_(Register!registerVars)
  BY CacheInit, CacheStep, RegisterInit, RegisterStep, PTL
<1>2. QED
  BY <1>1 DEF Spec, ImplementsRegister, Register!Spec
=============================================================================
