---------------------------- MODULE MCConnection ----------------------------
(* A small instance of Connection for TLC: two clients, answers of one or   *)
(* two units, and sockets that hold one of them.                            *)
EXTENDS Connection
=============================================================================
