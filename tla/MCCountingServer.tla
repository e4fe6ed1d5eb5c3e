--------------------------- MODULE MCCountingServer ---------------------------
(* A small instance of CountingServer for TLC.                                 *)
EXTENDS CountingServer
===============================================================================
