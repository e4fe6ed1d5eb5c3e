------------------------------ MODULE UdpExchange ------------------------------
(* One client and one stateless server over UDP: the adder with transaction    *)
(* ids (exams/2014-07-21, and "old", the server of exams/old), the echo of labs *)
(* 1.4 ("oldecho" in labs/old), the XDR adder of labs 2.4 and the file server   *)
(* of labs/old/2.3/udp.  The user runs the client several times; the kernel may *)
(* give every run the same port, so that what was sent to an earlier run can    *)
(* reach a later one.                                                           *)
EXTENDS Integers, Sequences, SequencesExt

CONSTANTS
  Programs,             \* subset of AllPrograms
  Ids,                  \* transaction ids the user may type
  Ops,                  \* pairs of operands, texts, or file names
  Absent,               \* the file names among Ops that the server does not have
  MAX_RETRANSMISSIONS,
  Networks,             \* sets of "lose", "duplicate", "delay", "noise"
  MaxRuns, MaxCopies,   \* bounds: runs and duplicates
  MaxNoise              \* bound: foreign datagrams in flight at the same time

AllPrograms == {"once", "again", "struct2", "old", "echo", "oldecho", "xdr", "file"}

ASSUME ProgramAssumption == Programs \subseteq AllPrograms
ASSUME NetAssumption     == Networks \subseteq SUBSET {"lose", "duplicate", "delay", "noise"}
ASSUME BoundAssumption   == {MaxRuns, MaxCopies, MaxNoise} \subseteq Nat
ASSUME RetransmissionAssumption == MAX_RETRANSMISSIONS \in Nat \ {0}

VARIABLES
  program, network,     \* chosen once
  toServer, toClient,   \* datagrams in flight or in a socket buffer
  cpc,                  \* where the client is
  id, op,               \* what the user has typed for this run
  attempt,              \* requests sent in this run
  size,                 \* the file of the size announced, or "garbage"
  outcome, result,      \* what the run has written or printed
  runs, copies,         \* counters for the bounds
  serverOver,           \* the server has ended, or closed its socket
  used, fresh,          \* (history) ids of earlier runs; id is not among them
  lost                  \* (history) requests and replies of this run lost, capped

netVars    == <<toServer, toClient, copies, serverOver, lost>>
clientVars == <<cpc, id, op, attempt, size, outcome, result, runs, used, fresh>>
vars == <<program, network, netVars, clientVars>>

HasId == program \in {"once", "again", "struct2", "old"}
Idle  == cpc \in {"idle", "over"}

\* An empty datagram is the end of these servers.
Fragile == program \in {"old", "oldecho", "file"}

\* Requests of a run before it gives up.
Attempts == CASE program = "again"   -> MAX_RETRANSMISSIONS
              [] program = "struct2" -> MAX_RETRANSMISSIONS + 1
              [] OTHER               -> 1

Datagram(t, i, o) == [type |-> t, id |-> i, op |-> o]
Foreign == Datagram("noise", 0, "noise")      \* short, or with a foreign id
Empty   == Datagram("empty", 0, "noise")      \* a datagram of no bytes
Strange == {Foreign, Empty}

Types == {"request", "quit", "reply", "ok", "err", "size", "data", "noise", "empty"}

TypeOK ==
  /\ program \in Programs /\ network \in Networks
  /\ LET datagrams == [type : Types, id : Ids \cup {0}, op : Ops \cup {"noise"}] IN
       toServer \in Seq(datagrams) /\ toClient \in Seq(datagrams)
  /\ cpc \in {"idle", "wait", "read", "status", "size", "data", "over"}
  /\ id \in Ids \cup {0} /\ op \in Ops \cup {"noise"}
  /\ attempt \in 0..Attempts
  /\ size \in Ops \cup {"garbage"}
  /\ outcome \in {"none", "success", "wrong", "expired"}
  /\ result \in Ops \cup {"none", "noise", "garbage"}
  /\ runs \in 0..MaxRuns /\ copies \in 0..MaxCopies /\ serverOver \in BOOLEAN
  /\ used \subseteq Ids /\ fresh \in BOOLEAN /\ lost \in 0..(MAX_RETRANSMISSIONS + 1)

\* Which datagrams of queue q may arrive next.
Arriving(q) == IF "delay" \in network THEN DOMAIN q ELSE DOMAIN q \cap {1}

-------------------------------------------------------------------------------
(* The servers: the datagrams that answer request m *)

\* array/server1.c and server2.c: a short request is ignored.
AdderReply(m) ==
  {IF m \in Strange THEN <<>> ELSE <<Datagram("reply", m.id, m.op)>>}

StructReply(m) ==
  {IF m \in Strange THEN <<>> ELSE <<Datagram("reply", m.id, m.op)>>}

\* exams/old: a request in which sscanf does not find three numbers is ignored.
TextReply(m) ==
  {IF m = Foreign THEN <<>> ELSE <<Datagram("reply", m.id, m.op)>>}

\* What somebody else has sent is echoed to somebody else.
EchoReply(m) ==
  {IF m \in Strange THEN <<>> ELSE <<Datagram("reply", 0, m.op)>>}

OldEchoReply(m) ==
  {IF m = Foreign THEN <<>> ELSE <<Datagram("reply", 0, m.op)>>}

XdrReply(m) ==
  {IF m \in Strange THEN <<>> ELSE <<Datagram("reply", 0, m.op)>>}

\* The buffer is not terminated after "QUIT\r\n", which is then taken for the name of
\* a file that does not exist.
FileReply(m) ==
  CASE m.type = "quit" -> {<<>>, <<Datagram("err", 0, m.op)>>}
    [] m.op \in Absent -> {<<Datagram("err", 0, m.op)>>}
    [] OTHER           -> {<<Datagram("ok", 0, m.op), Datagram("size", 0, m.op),
                             Datagram("data", 0, m.op)>>}

\* A read of no bytes is taken for the end of the peer.
Ending(m) == Fragile /\ m = Empty

\* One call of childTask, service, serviClient or serveClient.
Answer(i, ds) ==
  /\ ~serverOver /\ ~Ending(toServer[i])
  /\ toServer' = RemoveAt(toServer, i)
  /\ toClient' = toClient \o ds
  /\ UNCHANGED <<program, network, copies, serverOver, lost, clientVars>>

\* labs/old/1.4 and labs/old/2.3/udp: the program ends.  exams/old: the socket is
\* closed and every later recvfrom fails.
EmptyRead ==
  /\ ~serverOver /\ serverOver' = TRUE
  /\ \E i \in Arriving(toServer) : Ending(toServer[i]) /\ toServer' = RemoveAt(toServer, i)
  /\ UNCHANGED <<program, network, toClient, copies, lost, clientVars>>

\* The kernel drops what comes for a port that nobody has open.
Unserved ==
  /\ serverOver
  /\ \E i \in Arriving(toServer) : toServer' = RemoveAt(toServer, i)
  /\ UNCHANGED <<program, network, toClient, copies, serverOver, lost, clientVars>>

AdderServer ==
  /\ program \in {"once", "again"}
  /\ \E i \in Arriving(toServer) : \E ds \in AdderReply(toServer[i]) : Answer(i, ds)

StructServer ==
  /\ program = "struct2"
  /\ \E i \in Arriving(toServer) : \E ds \in StructReply(toServer[i]) : Answer(i, ds)

TextServer ==
  /\ program = "old"
  /\ \/ \E i \in Arriving(toServer) : \E ds \in TextReply(toServer[i]) : Answer(i, ds)
     \/ EmptyRead

EchoServer ==
  /\ program = "echo"
  /\ \E i \in Arriving(toServer) : \E ds \in EchoReply(toServer[i]) : Answer(i, ds)

OldEchoServer ==
  /\ program = "oldecho"
  /\ \/ \E i \in Arriving(toServer) : \E ds \in OldEchoReply(toServer[i]) : Answer(i, ds)
     \/ EmptyRead

XdrServer ==
  /\ program = "xdr"
  /\ \E i \in Arriving(toServer) : \E ds \in XdrReply(toServer[i]) : Answer(i, ds)

FileServer ==
  /\ program = "file"
  /\ \/ \E i \in Arriving(toServer) : \E ds \in FileReply(toServer[i]) : Answer(i, ds)
     \/ EmptyRead

Serve ==
  \/ AdderServer \/ StructServer \/ TextServer \/ EchoServer \/ OldEchoServer
  \/ XdrServer \/ FileServer \/ Unserved

-------------------------------------------------------------------------------
(* The client *)

SendRequest(i, o) ==
  toServer' = Append(toServer, Datagram("request", IF HasId THEN i ELSE 0, o))

\* The user runs the client, or types the next file name.
Start(i, o) ==
  /\ cpc = "idle" /\ runs < MaxRuns
  /\ SendRequest(i, o)
  /\ id' = i /\ op' = o /\ attempt' = 1 /\ size' = "garbage"
  /\ outcome' = "none" /\ result' = "none" /\ lost' = 0
  /\ cpc' = CASE program = "xdr"  -> "read"
              [] program = "file" -> "status"
              [] OTHER            -> "wait"
  /\ runs' = runs + 1 /\ fresh' = (i \notin used) /\ used' = used \cup {i}
  /\ UNCHANGED <<program, network, toClient, copies, serverOver>>

\* MAX_SECONDS pass: without delays, no request is on its way any more and nothing
\* has come for the client.
TimePasses ==
  /\ cpc = "wait"
  /\ "delay" \in network
       \/ (toClient = <<>> /\ \A i \in DOMAIN toServer : toServer[i] \in Strange)

Ends(o, r) == cpc' = "idle" /\ outcome' = o /\ result' = r

Expired == Ends("expired", "none") /\ UNCHANGED <<toServer, attempt>>

Resend == SendRequest(id, op) /\ attempt' = attempt + 1 /\ UNCHANGED <<outcome, result>>

TimeoutOnce == program \in {"once", "old", "echo", "oldecho"} /\ Expired

\* Deviation: attempts are not counted.
TimeoutAgainUncounted ==
  /\ program = "again"
  /\ SendRequest(id, op) /\ UNCHANGED <<cpc, outcome, result, attempt>>

\* Deviation: retransmissionCount <= MAX_RETRANSMISSIONS.
TimeoutAgainOneMore ==
  /\ program = "again"
  /\ IF attempt <= MAX_RETRANSMISSIONS THEN Resend /\ UNCHANGED cpc ELSE Expired

TimeoutAgain ==
  /\ program = "again"
  /\ IF attempt < MAX_RETRANSMISSIONS THEN Resend /\ UNCHANGED cpc ELSE Expired

\* struct/client2.c: after the retransmission comes a read without a time limit.
TimeoutStruct2 ==
  /\ program = "struct2"
  /\ IF attempt <= MAX_RETRANSMISSIONS THEN Resend /\ cpc' = "read" ELSE Expired

\* Deviation: the client does not wait before it gives up.
TimeoutUnprompted ==
  /\ cpc = "wait"
  /\ TimeoutOnce \/ TimeoutAgain \/ TimeoutStruct2
  /\ UNCHANGED <<program, network, toClient, copies, serverOver, lost, id, op, size, runs, used, fresh>>

Timeout ==
  /\ TimePasses
  /\ TimeoutOnce \/ TimeoutAgain \/ TimeoutStruct2
  /\ UNCHANGED <<program, network, toClient, copies, serverOver, lost, id, op, size, runs, used, fresh>>

\* The datagram has the expected length and transaction id.
Mine(m) == m.type = "reply" /\ m.id = id

ReceiveOnce(m) ==
  /\ program \in {"once", "old"}
  /\ IF Mine(m) THEN Ends("success", m.op) ELSE Ends("wrong", "none")

\* Deviation: the transaction id is not compared.
ReceiveAgainAny(m) ==
  /\ program = "again"
  /\ Ends("success", m.op)

\* Everything else is skipped, and the wait starts again.
ReceiveAgain(m) ==
  /\ program = "again"
  /\ IF Mine(m) THEN Ends("success", m.op) ELSE UNCHANGED <<cpc, outcome, result>>

ReceiveStruct2(m) ==
  /\ program = "struct2"
  /\ IF Mine(m) THEN Ends("success", m.op) ELSE cpc' = "wait" /\ UNCHANGED <<outcome, result>>

ReceiveEcho(m) == program = "echo" /\ Ends("success", m.op)

\* The older client takes a reply of no bytes for an error.
ReceiveOldEcho(m) ==
  /\ program = "oldecho"
  /\ IF m = Empty THEN Ends("wrong", "none") ELSE Ends("success", m.op)

\* A datagram that is no XDR integer ends the program.
ReceiveXdr(m) ==
  /\ program = "xdr"
  /\ IF m \in Strange THEN Ends("wrong", "none") ELSE Ends("success", m.op)

\* resMessage has no room for the end of the string: strcmp may miss "-ERR\r\n".
ReceiveStatus(m) ==
  /\ cpc = "status"
  /\ \/ (m.type = "err" \/ m = Empty) /\ Ends("wrong", "none")
     \/ m # Empty /\ cpc' = "size" /\ UNCHANGED <<outcome, result>>

\* The first four bytes, whatever they are.
ReceiveSize(m) ==
  /\ cpc = "size"
  /\ \/ m = Empty /\ Ends("wrong", "none") /\ UNCHANGED size
     \/ /\ m # Empty /\ cpc' = "data"
        /\ size' = IF m.type = "size" THEN m.op ELSE "garbage"
        /\ UNCHANGED <<outcome, result>>

\* As many bytes as announced are written to the file; the read may also fail.
ReceiveData(m) ==
  /\ cpc = "data"
  /\ \/ /\ m # Empty
        /\ Ends("success", IF m.type = "data" /\ m.op = size THEN m.op ELSE "garbage")
     \/ m.type # "data" /\ Ends("wrong", "none")

Receive ==
  \E i \in Arriving(toClient) :
    LET m == toClient[i] IN
      /\ toClient' = RemoveAt(toClient, i)
      /\ \/ /\ cpc \in {"wait", "read"}
            /\ \/ ReceiveOnce(m) \/ ReceiveAgain(m) \/ ReceiveStruct2(m)
               \/ ReceiveEcho(m) \/ ReceiveOldEcho(m) \/ ReceiveXdr(m)
            /\ UNCHANGED size
         \/ (ReceiveStatus(m) \/ ReceiveData(m)) /\ UNCHANGED size
         \/ ReceiveSize(m)
      /\ UNCHANGED <<program, network, toServer, copies, serverOver, lost,
                     id, op, attempt, runs, used, fresh>>

\* An empty file name ends the client of old/2.3/udp.
QuitFile ==
  /\ program = "file" /\ cpc = "idle" /\ op \in Ops
  /\ cpc' = "over" /\ toServer' = Append(toServer, Datagram("quit", 0, op))
  /\ UNCHANGED <<program, network, toClient, copies, serverOver, lost, id, op, attempt, size,
                 outcome, result, runs, used, fresh>>

-------------------------------------------------------------------------------
(* The network *)

\* A request or a reply of the run, or of an earlier one with its id.
Own(m) == m \notin Strange /\ (HasId => m.id = id)

Loss(m) == IF Own(m) /\ lost <= MAX_RETRANSMISSIONS THEN lost + 1 ELSE lost

Lose ==
  /\ "lose" \in network
  /\ \/ \E i \in DOMAIN toServer :
          toServer' = RemoveAt(toServer, i) /\ lost' = Loss(toServer[i]) /\ UNCHANGED toClient
     \/ \E i \in DOMAIN toClient :
          toClient' = RemoveAt(toClient, i) /\ lost' = Loss(toClient[i]) /\ UNCHANGED toServer
  /\ UNCHANGED <<program, network, copies, serverOver, clientVars>>

Duplicate ==
  /\ "duplicate" \in network /\ copies < MaxCopies
  /\ copies' = copies + 1
  /\ \/ /\ \E i \in DOMAIN toServer : toServer' = InsertAt(toServer, i, toServer[i])
        /\ UNCHANGED toClient
     \/ /\ \E i \in DOMAIN toClient : toClient' = InsertAt(toClient, i, toClient[i])
        /\ UNCHANGED toServer
  /\ UNCHANGED <<program, network, serverOver, lost, clientVars>>

StrangeIn(q) == {i \in DOMAIN q : q[i] \in Strange}

\* A datagram from elsewhere (never one with the id of the transaction), again and
\* again.  The file server would look for "\r" beyond one that is no request.
Noise ==
  /\ "noise" \in network
  /\ Cardinality(StrangeIn(toServer)) + Cardinality(StrangeIn(toClient)) < MaxNoise
  /\ \E m \in Strange :
       \/ /\ program = "file" => m = Empty
          /\ toServer' = Append(toServer, m) /\ UNCHANGED toClient
       \/ toClient' = Append(toClient, m) /\ UNCHANGED toServer
  /\ UNCHANGED <<program, network, copies, serverOver, lost, clientVars>>

\* Nobody has the port open between two runs.
PortClosed ==
  /\ cpc = "over" \/ (cpc = "idle" /\ program # "file")
  /\ \E i \in DOMAIN toClient : toClient' = RemoveAt(toClient, i)
  /\ UNCHANGED <<program, network, toServer, copies, serverOver, lost, clientVars>>

-------------------------------------------------------------------------------

Init ==
  /\ program \in Programs /\ network \in Networks
  /\ toServer = <<>> /\ toClient = <<>> /\ copies = 0 /\ lost = 0
  /\ serverOver = FALSE
  /\ cpc = "idle" /\ id = 0 /\ op = "noise" /\ attempt = 0 /\ size = "garbage"
  /\ outcome = "none" /\ result = "none" /\ runs = 0 /\ used = {} /\ fresh = TRUE

ClientStep == Timeout \/ Receive

Client == ClientStep \/ \E i \in Ids, o \in Ops : Start(i, o)

\* The programs.
ClientOnce    == program = "once" /\ Client
ClientAgain   == program = "again" /\ Client
ClientStruct2 == program = "struct2" /\ Client
ClientText    == program = "old" /\ Client
ClientEcho    == program = "echo" /\ Client
ClientOldEcho == program = "oldecho" /\ Client
ClientXdr     == program = "xdr" /\ Client
ClientFile    == program = "file" /\ (Client \/ QuitFile)

Next ==
  \/ Serve
  \/ ClientOnce \/ ClientAgain \/ ClientStruct2 \/ ClientText
  \/ ClientEcho \/ ClientOldEcho \/ ClientXdr \/ ClientFile
  \/ Lose \/ Duplicate \/ Noise \/ PortClosed

Spec == Init /\ [][Next]_vars

\* The server runs; select and recvfrom return.  The user and the network owe nothing.
FairSpec == Spec /\ WF_vars(Serve) /\ WF_vars(ClientStep)

-------------------------------------------------------------------------------
(* Properties *)

\* A run that reports success reports the answer to its own request: with a fresh
\* transaction id on any network, without one (and for the three datagrams of a
\* file) on a network that only loses datagrams.
ResultIsMine ==
  outcome = "success" /\ (IF HasId THEN fresh ELSE network \subseteq {"lose"})
    => result = op

\* A run gives up only after as many of its own datagrams were lost as it may send
\* requests: the retries are all made, none of them is given up too early, and no
\* foreign datagram uses one up.  Only the servers that an empty datagram ends may be
\* gone instead.
ExpiresOnlyByLoss ==
  outcome = "expired" /\ "delay" \notin network =>
    lost >= Attempts \/ (Fragile /\ serverOver)

\* The clients that read once, with a time limit, end on every network.
\* array/client2.c starts its wait again, uncounted, after each datagram that is not
\* the reply: it ends if foreign datagrams stop coming some day.  The others read
\* without a time limit (struct/client2.c after a retransmission) and end if the
\* network has no faults and, for a file, the server has it.
RunEnds ==
  /\ (~Idle /\ program \in {"once", "old", "echo", "oldecho"}) ~> Idle
  /\ <>[][~Noise]_vars => ((~Idle /\ program = "again") ~> Idle)
  /\ (~Idle /\ network = {} /\ op \notin Absent) ~> Idle
===============================================================================
