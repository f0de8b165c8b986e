----------------------------- MODULE MCSession -----------------------------
(* One client with late replies and restarts; two clients and two workers for *)
(* the shared coder. *)
EXTENDS Session
=============================================================================
