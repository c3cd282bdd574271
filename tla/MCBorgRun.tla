----------------------------- MODULE MCBorgRun -----------------------------
(* A finite instance of BorgRun for TLC. *)
EXTENDS BorgRun
CONSTANTS kid, state, keys
=============================================================================
