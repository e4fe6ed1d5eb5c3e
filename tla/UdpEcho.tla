------------------------------- MODULE UdpEcho --------------------------------
(* The UDP echo service of labs 2.1 and 2.2: the retrying clients, the         *)
(* datagram-limiting server run by myUdpServerSimple (one process) or          *)
(* myUdpServerPreforked (several, each with its own static table), the older   *)
(* server that keeps its table in main, and a network that may lose, duplicate *)
(* and delay datagrams.                                                        *)
EXTENDS UdpLimit, FiniteSets

CONSTANTS
  Procs,         \* the server's processes
  OldProcs,      \* those that run the server of labs/old/2.2
  Clients,
  Kinds,         \* what each client may run: "repeat" (labs/2.2), "blank" (the same, with an
                 \* empty name), "quits" (labs/old/2.2), "single" (labs/2.1 and labs/old/2.1)
  MAX_ATTEMPTS,
  MaxRounds,     \* bound: how often the user of each client presses Enter
  Networks       \* the networks considered: sets of "lose", "duplicate", "delay"

ASSUME AttemptAssumption == MAX_ATTEMPTS \in Nat \ {0}
ASSUME RoundAssumption   == MaxRounds \in [Clients -> Nat]
ASSUME OldAssumption     == OldProcs \subseteq Procs
ASSUME KindAssumption    == Kinds \subseteq [Clients -> {"repeat", "blank", "quits", "single"}]
ASSUME FiniteAssumption  == IsFiniteSet(Procs) /\ IsFiniteSet(Clients)
ASSUME NetAssumption     == Networks \subseteq SUBSET {"lose", "duplicate", "delay"}

VARIABLES
  kind,        \* the program of each client; never changes
  network,     \* what the network of this behaviour may do to datagrams
  clientList,  \* each process's table
  gone,        \* the older servers that have ended
  net,         \* datagrams in flight or in a socket buffer
  waiting,     \* clients inside myWaitForSingleObject
  attempt,     \* the client's loop variable i, plus one
  round,       \* how many times clientTask was called
  got,         \* the round whose datagram the reply of this round echoes, 0 for none
  answered     \* how many datagrams of each client the server has answered

clientVars == <<waiting, attempt, round, got>>
vars == <<kind, network, clientList, gone, net, clientVars, answered>>

Datagrams == [kind : {"request", "reply"}, client : Clients,
              round : Nat \ {0}, attempt : 1..MAX_ATTEMPTS]

TypeOK ==
  /\ kind \in Kinds /\ network \in Networks
  /\ clientList \in [Procs -> Seq([client : Clients, numberOfDatagrams : 1..maxDatagrams])]
  /\ \A p \in Procs :
       /\ Len(clientList[p]) <= maxClients
       /\ \A i, j \in DOMAIN clientList[p] :
            clientList[p][i].client = clientList[p][j].client => i = j
  /\ gone \subseteq OldProcs /\ net \subseteq Datagrams
  /\ waiting \subseteq Clients
  /\ attempt \in [Clients -> 0..MAX_ATTEMPTS]
  /\ round \in [Clients -> Nat] /\ \A c \in Clients : got[c] \in 0..round[c]
  /\ answered \in [Clients -> Nat]

Request(c, r, i) == [kind |-> "request", client |-> c, round |-> r, attempt |-> i]

RepliesFor(c) == {m \in net : m.kind = "reply" /\ m.client = c}

\* What taking datagram m off the network leaves there.
Taken(m) == IF "duplicate" \in network THEN {net, net \ {m}} ELSE {net \ {m}}

-------------------------------------------------------------------------------

Requests == {m \in net : m.kind = "request"}

\* A process has read datagram m, its table becomes list, and m is echoed if allowed.
Answer(p, m, list, allowed) ==
  /\ clientList' = [clientList EXCEPT ![p] = list]
  /\ \E rest \in Taken(m) :
       IF allowed
         THEN /\ net' = rest \cup {[m EXCEPT !.kind = "reply"]}
              /\ answered' = [answered EXCEPT ![m.client] = @ + 1]
         ELSE net' = rest /\ UNCHANGED answered
  /\ UNCHANGED <<kind, network, gone, clientVars>>

\* childTask of the server.
Serve(p) ==
  /\ p \in Procs \ OldProcs
  /\ \E m \in Requests :
       Answer(p, m, Counted(clientList[p], m.client), MayAnswer(clientList[p], m.client))

Blank(m) == kind[m.client] = "blank"

\* The older server does the same in its main.
OldServe(p) ==
  /\ p \in OldProcs \ gone
  /\ \E m \in Requests :
       ~Blank(m) /\ Answer(p, m, OldCounted(clientList[p], m.client), OldMayAnswer(clientList[p], m.client))

\* A datagram of no bytes is taken for the end of the peer, and ends the older server.
OldServerEnds(p) ==
  /\ p \in OldProcs \ gone
  /\ \E m \in Requests : Blank(m) /\ net' \in Taken(m)
  /\ gone' = gone \cup {p}
  /\ UNCHANGED <<kind, network, clientList, clientVars, answered>>

\* The kernel drops what was sent to a server that has ended.
Unserved ==
  /\ gone # {} /\ \E m \in Requests : net' = net \ {m}
  /\ UNCHANGED <<kind, network, clientList, gone, clientVars, answered>>

\* clientTask begins: the first attempt.
Start(c) ==
  /\ c \notin waiting /\ round[c] < MaxRounds[c]
  /\ kind[c] = "single" => round[c] = 0
  /\ kind[c] = "quits" /\ round[c] > 0 => got[c] # 0   \* it exits without a reply
  /\ waiting' = waiting \cup {c}
  /\ round' = [round EXCEPT ![c] = @ + 1]
  /\ attempt' = [attempt EXCEPT ![c] = 1]
  /\ got' = [got EXCEPT ![c] = 0]
  /\ net' = net \cup {Request(c, round[c] + 1, 1)}
  /\ UNCHANGED <<kind, network, clientList, gone, answered>>

\* Deviation: the loop does not count its attempts.
TimeoutForever(c) ==
  /\ c \in waiting
  /\ "delay" \in network \/ \A m \in net : m.client # c
  /\ net' = net \cup {Request(c, round[c], attempt[c])}
  /\ UNCHANGED <<kind, network, waiting, attempt, clientList, gone, round, got, answered>>

\* Deviation: the client does not wait for MAX_SECONDS.
TimeoutUnprompted(c) ==
  /\ c \in waiting
  /\ IF attempt[c] < MAX_ATTEMPTS
       THEN /\ attempt' = [attempt EXCEPT ![c] = @ + 1]
            /\ net' = net \cup {Request(c, round[c], attempt[c] + 1)}
            /\ UNCHANGED waiting
       ELSE waiting' = waiting \ {c} /\ UNCHANGED <<net, attempt>>
  /\ UNCHANGED <<kind, network, clientList, gone, round, got, answered>>

\* select() reports nothing for MAX_SECONDS: the next attempt, or give up.  Without
\* delays that takes the loss of the request or of its reply, or a refusal.
Timeout(c) ==
  /\ c \in waiting
  /\ "delay" \in network \/ \A m \in net : m.client # c
  /\ IF attempt[c] < MAX_ATTEMPTS
       THEN /\ attempt' = [attempt EXCEPT ![c] = @ + 1]
            /\ net' = net \cup {Request(c, round[c], attempt[c] + 1)}
            /\ UNCHANGED waiting
       ELSE waiting' = waiting \ {c} /\ UNCHANGED <<net, attempt>>
  /\ UNCHANGED <<kind, network, clientList, gone, round, got, answered>>

\* Any datagram in the client's socket ends the wait.
GetReply(c) ==
  /\ c \in waiting
  /\ \E m \in RepliesFor(c) : /\ net' \in Taken(m)
                              /\ got' = [got EXCEPT ![c] = m.round]
  /\ waiting' = waiting \ {c}
  /\ UNCHANGED <<kind, network, clientList, gone, attempt, round, answered>>

Lose ==
  /\ "lose" \in network
  /\ \E m \in net : net' = net \ {m}
  /\ UNCHANGED <<kind, network, clientList, gone, clientVars, answered>>

\* The programs.  Those of labs/old send eight bytes, whatever the name: none of these
\* programs sends them an empty datagram, which would end them.
Client22(c)    == kind[c] \in {"repeat", "blank"} /\ (Start(c) \/ Timeout(c) \/ GetReply(c))
OldClient22(c) == kind[c] = "quits"  /\ (Start(c) \/ Timeout(c) \/ GetReply(c))
Client21(c)    == kind[c] = "single" /\ (Start(c) \/ Timeout(c) \/ GetReply(c))

Init ==
  /\ kind \in Kinds /\ network \in Networks
  /\ clientList = [p \in Procs |-> <<>>] /\ net = {} /\ gone = {}
  /\ waiting = {} /\ attempt = [c \in Clients |-> 0]
  /\ round = [c \in Clients |-> 0] /\ got = [c \in Clients |-> 0]
  /\ answered = [c \in Clients |-> 0]

Next ==
  \/ \E p \in Procs : Serve(p) \/ OldServe(p) \/ OldServerEnds(p)
  \/ \E c \in Clients : Client22(c) \/ OldClient22(c) \/ Client21(c)
  \/ Lose \/ Unserved

Spec == Init /\ [][Next]_vars

\* The server runs and select() returns; the user and the network owe nothing.
FairSpec ==
  /\ Spec
  /\ \A p \in Procs : WF_vars(Serve(p) \/ OldServe(p) \/ OldServerEnds(p))
  /\ WF_vars(Unserved)
  /\ \A c \in Clients : WF_vars(Timeout(c) \/ GetReply(c))

-------------------------------------------------------------------------------
(* Properties *)

\* The limit over the whole service when every client is recognised: the tables
\* are per process, so it is maxDatagrams for each of them, duplicates included.
AnswersBounded ==
  Cardinality(Clients) <= maxClients =>
    \A c \in Clients : answered[c] <= maxDatagrams * Cardinality(Procs)

\* The reply that ends a round echoes a datagram of that round, when the network
\* at worst loses datagrams (there are no sequence numbers): the last timeout of a
\* round leaves nothing behind that could answer the next one.
RepliesAreFresh == network \subseteq {"lose"} => \A c \in Clients : got[c] \in {0, round[c]}

\* clientTask returns after at most MAX_ATTEMPTS timeouts, whatever is lost and even
\* when the server is gone.
RoundsEnd == \A c \in Clients : c \in waiting ~> c \notin waiting
===============================================================================
