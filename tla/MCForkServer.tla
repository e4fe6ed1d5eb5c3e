----------------------------- MODULE MCForkServer -----------------------------
(* Small instances of ForkServer for TLC.                                      *)
EXTENDS ForkServer, TLC

\* Pids and clients are interchangeable (for runs without temporal properties).
Symmetry == Permutations(Pids) \cup Permutations(Clients)

\* No faults, and those that a server can meet.  Of MixedMax no pre-forked child dies:
\* the counter counts on it.
NoFaults == [e \in Entries |-> {}]

FaultsOf == [e \in Entries |-> IF e = "MixedMax" THEN {"fork", "kill"}
                                               ELSE {"reset", "fork", "kill", "ctrlc"}]
===============================================================================
