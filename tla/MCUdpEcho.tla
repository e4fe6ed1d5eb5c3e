----------------------------- MODULE MCUdpEcho -------------------------------
(* Small instances of UdpEcho for TLC.                                         *)
EXTENDS UdpEcho

CONSTANTS c1, c2

\* The user of c1 presses Enter twice, the one of c2 once.
TwoOne == [c \in Clients |-> IF c = c1 THEN 2 ELSE 1]

\* c1 runs either client of labs 2.2, c2 the one of 2.1; or one that sends empty
\* datagrams disturbs an older one.
TwoKinds == {[c \in Clients |-> IF c = c1 THEN k ELSE "single"] : k \in {"repeat", "quits"}}
              \cup {[c \in Clients |-> IF c = c1 THEN "quits" ELSE "blank"]}

\* Networks that lose, or delay, or repeat datagrams.
OneFault == {{"lose"}, {"delay"}, {"duplicate"}}
===============================================================================
