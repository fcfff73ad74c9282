----------------------------- MODULE TokenCache -----------------------------
(***************************************************************************)
(* The cache of the portal's restore token (pywaylandauto/token_cache.py): *)
(* load, save and revoke of any number of processes on one file, a system  *)
(* call a step.  A process may be killed between any two of them, and the  *)
(* machine may lose power: what the directory then says, and whether the   *)
(* data of a file that was renamed is there, depends on what was synced.   *)
(***************************************************************************)
EXTENDS Naturals

CONSTANTS
    Procs,   \* processes that use the cache
    Tokens,  \* restore tokens
    None     \* load's answer when there is no token

ASSUME CacheAssumption ==
    /\ None \notin Tokens
    /\ ({None} \cup Tokens) \cap {"missing", "empty", "cut", "ok", "raised"} = {}

\* What a file may hold: a token, nothing, or a token that was cut short.
Contents == Tokens \cup {"missing", "empty", "cut"}

VARIABLES
    pc,       \* where each process is
    call,     \* the call it is in
    result,   \* what the call returns
    tmp,      \* the contents of the temporary file it has made
    file,     \* what the token file holds
    disk,     \* what it may hold after a loss of power
    reliable  \* does the file system order data before a rename, and sync
              \* directories?

vars == <<pc, call, result, tmp, file, disk, reliable>>

Saving == {"mkstemp", "write", "chmod", "replace", "discard"}

Register == INSTANCE TokenRegister WITH
    value <- IF file \in {"missing", "empty"} THEN None ELSE file,
    may <- {IF c \in {"missing", "empty"} THEN None ELSE c : c \in disk},
    phase <- [p \in Procs |-> IF pc[p] \in Saving \cup {"open", "unlink"} THEN "asked"
                              ELSE IF pc[p] = "fsync" THEN "taken" ELSE pc[p]]

Calls == {[kind |-> "save", token |-> t] : t \in Tokens}
            \cup {[kind |-> k, token |-> None] : k \in {"load", "revoke"}}

NoCall == [kind |-> "none", token |-> None]

Init ==
    /\ pc = [p \in Procs |-> "idle"]
    /\ call = [p \in Procs |-> NoCall]
    /\ result = [p \in Procs |-> None]
    /\ tmp = [p \in Procs |-> "missing"]
    /\ file \in Tokens \cup {"missing", "empty"}
    /\ disk = {file}
    /\ reliable \in BOOLEAN

Goto(p, from, to) == pc[p] = from /\ pc' = [pc EXCEPT ![p] = to]

Result(p, r) == result' = [result EXCEPT ![p] = r]

Fill(p, c) == tmp' = [tmp EXCEPT ![p] = c]

Begin(p) ==
    /\ \E c \in Calls :
         /\ call' = [call EXCEPT ![p] = c]
         /\ Goto(p, "idle", [save |-> "mkstemp", load |-> "open", revoke |-> "unlink"][c.kind])
    /\ UNCHANGED <<result, tmp, file, disk, reliable>>

-----------------------------------------------------------------------------
(* load *)

\* The file that was opened stays what it is when the name moves on.  Any
\* OSError, and a file that holds nothing but blanks, is no token.
Load(p) ==
    /\ Goto(p, "open", "done")
    /\ \/ file \notin {"missing", "empty"} /\ Result(p, file)
       \/ Result(p, None)
    /\ UNCHANGED <<call, tmp, file, disk, reliable>>

-----------------------------------------------------------------------------
(* save *)

\* makedirs, chmod of the directory and mkstemp are outside the try.
Mkstemp(p) ==
    /\ \/ Goto(p, "mkstemp", "write") /\ Fill(p, "empty") /\ UNCHANGED result
       \/ Goto(p, "mkstemp", "done") /\ Result(p, "raised") /\ UNCHANGED tmp
    /\ UNCHANGED <<call, file, disk, reliable>>

\* Bug variant: a write that failed half-way goes unnoticed.
WriteUnchecked(p) ==
    /\ Goto(p, "write", "chmod")
    /\ Fill(p, call[p].token) \/ Fill(p, "cut")
    /\ UNCHANGED <<call, result, file, disk, reliable>>

\* On a full disk any part of the token may have been written when it fails.
Write(p) ==
    /\ \/ Goto(p, "write", "chmod") /\ Fill(p, call[p].token)
       \/ Goto(p, "write", "discard") /\ Fill(p, "cut")
       \/ Goto(p, "write", "discard") /\ UNCHANGED tmp
    /\ UNCHANGED <<call, result, file, disk, reliable>>

Chmod(p) ==
    /\ Goto(p, "chmod", "replace") \/ Goto(p, "chmod", "discard")
    /\ UNCHANGED <<call, result, tmp, file, disk, reliable>>

\* Bug variant: the name is made free before the new file takes it.
ReplaceInTwo(p) ==
    /\ IF file # "missing"
       THEN /\ pc[p] = "replace" /\ UNCHANGED <<pc, tmp>>
            /\ file' = "missing"
            /\ disk' = disk \cup {"missing"}
       ELSE /\ Goto(p, "replace", "fsync")
            /\ file' = tmp[p]
            /\ disk' = disk \cup {tmp[p]} \cup (IF reliable THEN {} ELSE {"empty"})
            /\ Fill(p, "missing")
    /\ UNCHANGED <<call, result, reliable>>

\* The file itself is not synced: without ordering, its name may reach the disk
\* before its data.
Replace(p) ==
    /\ \/ /\ Goto(p, "replace", "fsync")
          /\ file' = tmp[p]
          /\ disk' = disk \cup {tmp[p]} \cup (IF reliable THEN {} ELSE {"empty"})
          /\ Fill(p, "missing")
       \/ Goto(p, "replace", "discard") /\ UNCHANGED <<tmp, file, disk>>
    /\ UNCHANGED <<call, result, reliable>>

\* Best effort: the name is now the last one given, unless the file system
\* cannot sync directories.
FsyncDir(p) ==
    /\ Goto(p, "fsync", "done")
    /\ \/ disk' = disk \cap (IF reliable THEN {file} ELSE {file, "empty"})
       \/ ~reliable /\ UNCHANGED disk
    /\ Result(p, "ok")
    /\ UNCHANGED <<call, tmp, file, reliable>>

\* An OSError of os.unlink is dropped: the copy stays then, and is nobody's.
Discard(p) ==
    /\ Goto(p, "discard", "done")
    /\ Fill(p, "missing") \/ UNCHANGED tmp
    /\ Result(p, "raised")
    /\ UNCHANGED <<call, file, disk, reliable>>

-----------------------------------------------------------------------------
(* revoke *)

\* The directory is not synced here: the old token may come back.
Unlink(p) ==
    /\ Goto(p, "unlink", "done")
    /\ \/ /\ file' = "missing"
          /\ disk' = disk \cup {"missing"}
          /\ Result(p, "ok")
       \/ Result(p, "raised") /\ UNCHANGED <<file, disk>>
    /\ UNCHANGED <<call, tmp, reliable>>

-----------------------------------------------------------------------------
Return(p) ==
    /\ Goto(p, "done", "idle")
    /\ call' = [call EXCEPT ![p] = NoCall]
    /\ Result(p, None)
    /\ UNCHANGED <<tmp, file, disk, reliable>>

\* A killed process leaves its temporary file for good; it is nobody's then.
Die(p) ==
    /\ pc[p] # "idle"
    /\ pc' = [pc EXCEPT ![p] = "idle"]
    /\ call' = [call EXCEPT ![p] = NoCall]
    /\ Result(p, None)
    /\ Fill(p, "missing")
    /\ UNCHANGED <<file, disk, reliable>>

\* The kernel writes everything back in its own time.
WriteBack ==
    /\ disk # {file}
    /\ disk' = {file}
    /\ UNCHANGED <<pc, call, result, tmp, file, reliable>>

LosePower ==
    /\ file' \in disk
    /\ disk' = {file'}
    /\ pc' = [p \in Procs |-> "idle"]
    /\ call' = [p \in Procs |-> NoCall]
    /\ result' = [p \in Procs |-> None]
    /\ tmp' = [p \in Procs |-> "missing"]
    /\ UNCHANGED reliable

Next ==
    \/ \E p \in Procs :
         \/ Begin(p) \/ Load(p)
         \/ Mkstemp(p) \/ Write(p) \/ Chmod(p) \/ Replace(p) \/ FsyncDir(p) \/ Discard(p)
         \/ Unlink(p) \/ Return(p) \/ Die(p)
    \/ WriteBack
    \/ LosePower

Spec == Init /\ [][Next]_vars

-----------------------------------------------------------------------------
(* Properties.                                                             *)

\* Type invariant of the calls, the files and what is on the disk.
TypeOK ==
    /\ pc \in [Procs -> Saving \cup {"idle", "open", "unlink", "fsync", "done"}]
    /\ call \in [Procs -> Calls \cup {NoCall}]
    /\ result \in [Procs -> Tokens \cup {None, "ok", "raised"}]
    /\ tmp \in [Procs -> Contents]
    /\ file \in Contents
    /\ disk \subseteq Contents
    /\ reliable \in BOOLEAN

\* token_cache.py:3-7: the token "must survive reboots" and is "written
\* atomically".  Whatever the other processes do and whenever one is killed, a
\* load sees the token that was there at one moment of it, whole; a save takes
\* effect at once or not at all; a loss of power leaves the old or the new
\* token, and on a reliable file system the new one if the save has returned.
ImplementsRegister == Register!Spec
=============================================================================
