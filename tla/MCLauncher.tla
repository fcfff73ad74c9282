----------------------------- MODULE MCLauncher -----------------------------
(* An instance for TLC: a restart and a client that spawns its daemon.      *)
EXTENDS Launcher, TLC

CONSTANTS r, k

RestartAndConnect == r :> "restart" @@ k :> "connect"
=============================================================================
