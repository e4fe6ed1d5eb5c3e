------------------------------- MODULE UdpLimit -------------------------------
(* myUdpLimitClients (src/myudpserver.c): the table of a server process that   *)
(* counts the datagrams of the clients it recognises.  A table is a sequence   *)
(* of entries; clientListIndex is its length minus one.                        *)
EXTENDS Naturals, Sequences

CONSTANTS maxDatagrams, maxClients

\* With maxClients = 0 the code writes clientList[-1]; no caller passes it.
ASSUME LimitAssumption == maxDatagrams \in Nat \ {0} /\ maxClients \in Nat \ {0}

\* A new client: the oldest entry makes room for it in a full table.
Recognise(list, c) ==
  Append(IF Len(list) = maxClients THEN Tail(list) ELSE list,
         [client |-> c, numberOfDatagrams |-> 1])

\* Deviation: the search stops before the last entry.
searchForClientShort(list, c) == {i \in 1..(Len(list) - 1) : list[i].client = c}

searchForClient(list, c) == {i \in DOMAIN list : list[i].client = c}

\* Deviation: the test comes after the increment.
MayAnswerOneMore(list, c) ==
  \A i \in searchForClient(list, c) : list[i].numberOfDatagrams # maxDatagrams + 1

\* What myUdpLimitClients returns ...
MayAnswer(list, c) ==
  \A i \in searchForClient(list, c) : list[i].numberOfDatagrams # maxDatagrams

\* ... and what it leaves in the table.
Counted(list, c) ==
  IF searchForClient(list, c) = {} THEN Recognise(list, c)
  ELSE [i \in DOMAIN list |->
          IF list[i].client = c /\ MayAnswer(list, c)
            THEN [list[i] EXCEPT !.numberOfDatagrams = @ + 1]
            ELSE list[i]]

-------------------------------------------------------------------------------
(* The same table as labs/old/2.2 keeps it, in its main.                       *)

\* areSockaddrinEqual returns 0 for equal addresses; the loop ends when found.
OldFound(list, c) ==
  {i \in DOMAIN list : list[i].client = c /\ \A j \in 1..(i - 1) : list[j].client # c}

\* valid, with the limit written as maxDatagrams - 1 = 2.
OldMayAnswer(list, c) ==
  \A i \in OldFound(list, c) : ~(list[i].numberOfDatagrams > maxDatagrams - 1)

\* The shift of the full array, by position, and the new entry in the last place.
OldShifted(list, c) ==
  LET last == IF Len(list) = maxClients THEN maxClients ELSE Len(list) + 1
      at(i) == IF Len(list) = maxClients THEN list[i + 1] ELSE list[i]
  IN  [i \in 1..last |-> IF i = last THEN [client |-> c, numberOfDatagrams |-> 1] ELSE at(i)]

OldCounted(list, c) ==
  IF OldFound(list, c) = {} THEN OldShifted(list, c)
  ELSE [i \in DOMAIN list |->
          IF i \in OldFound(list, c) /\ OldMayAnswer(list, c)
            THEN [list[i] EXCEPT !.numberOfDatagrams = @ + 1]
            ELSE list[i]]
===============================================================================
