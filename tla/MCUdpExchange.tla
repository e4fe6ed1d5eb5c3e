---------------------------- MODULE MCUdpExchange -----------------------------
(* Small instances of UdpExchange for TLC.                                     *)
EXTENDS UdpExchange

\* A perfect network, and pairs of faults.
SomeFaults == {{}, {"lose"}, {"lose", "noise"}, {"delay"}, {"delay", "duplicate"},
               {"delay", "lose"}, {"noise"}}
===============================================================================
