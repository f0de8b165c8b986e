---------------------------- MODULE MCUdpServer ----------------------------
(* Small pool, small queue: MaxQueue + 2 requests fill it and overflow it. *)
EXTENDS UdpServer
=============================================================================
