---------------------------- MODULE MC_TcpStream ----------------------------
(* Buffers of one frame and a half. *)
EXTENDS TcpStream
=============================================================================
