---------------------------- MODULE MCDialogWait ----------------------------
(* An instance for TLC: a command of the command line and a library user.  *)
EXTENDS DialogWait

\* A command has room for two polls more than it needs with two calls; a user of
\* the library makes two requests.
RequestBound == [x \in Clients |-> IF x \in Cli THEN 5 ELSE 2]

\* The second request of a user of the library is explored beside a command's
\* first one only: either both clients are short, or one is long.
OneAtLength ==
    \/ \A x \in Clients \ Cli : sent[x] <= 1
    \/ \A c \in Cli : sent[c] <= 1
=============================================================================
