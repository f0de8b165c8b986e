---- MODULE MCDaemon ----
(* An instance for TLC. *)
EXTENDS Daemon
====
