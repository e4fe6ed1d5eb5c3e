--------------------------- MODULE BoundedAdmission ---------------------------
(* What a TCP server of the library promises to its callers: clients queue in  *)
(* arrival order, at most capacity of them are served at the same time, and a  *)
(* client at the head of the queue is admitted once there is room.             *)
EXTENDS Naturals, Sequences, FiniteSets

CONSTANT Clients     \* the clients that may connect

VARIABLES capacity,  \* how many are served at the same time, set by the caller
          waiting,   \* connected clients no process has accepted yet, oldest first
          serving    \* clients whose connection some process of the server holds

vars == <<capacity, waiting, serving>>

Queued == {waiting[i] : i \in DOMAIN waiting}

Init == capacity \in Nat /\ waiting = <<>> /\ serving = {}

Arrive(c) ==
  /\ c \notin Queued \cup serving
  /\ waiting' = Append(waiting, c)
  /\ UNCHANGED <<capacity, serving>>

Admit ==
  /\ waiting # <<>>
  /\ Cardinality(serving) < capacity
  /\ serving' = serving \cup {Head(waiting)}
  /\ waiting' = Tail(waiting)
  /\ UNCHANGED capacity

\* Connections end; a crash or a shutdown may end several in one step.
Leave ==
  /\ \E S \in SUBSET serving : S # {} /\ serving' = serving \ S
  /\ UNCHANGED <<capacity, waiting>>

Next == Admit \/ Leave \/ \E c \in Clients : Arrive(c)

Spec == Init /\ [][Next]_vars

FairSpec == Spec /\ WF_vars(Admit)
===============================================================================
