------------------------------ MODULE ExamSessions ------------------------------
(* The TCP programs of the exams and of labs 2.4, whole requests and replies at *)
(* a time: the upload servers of 2014-09-10 (one directory, or one per          *)
(* connection), the redirecting servers of 2015-09-14, the XDR adder of labs    *)
(* 2.4, the XDR encoder of 2014-06-23 and the XDR file servers of exams/sample  *)
(* and exams/old/sample.  Several clients, and every process of the servers.    *)
EXTENDS Integers, Sequences, FiniteSets, FiniteSetsExt, SequencesExt

CONSTANTS
  Programs,             \* subset of AllPrograms
  Clients, NoClient,    \* runs of the client program
  Workers,              \* processes of a server that has more than one
  Layouts,              \* 2015-09-14: [next, holds], where each server redirects to
                        \* (0: nowhere) and which servers have the file
  FileData,             \* the chunks of an uploaded file
  Ports,                \* client ports, which the kernel gives again
  MaxRuns, MaxKilled    \* bounds: clients started and killed, by program

AllPrograms ==
  {"upload", "upload dirs", "redirect", "sum", "sum once", "encode", "get", "old get"}
Addresses   == UNION {DOMAIN l.next : l \in Layouts}

ASSUME ProgramAssumption == Programs \subseteq AllPrograms /\ NoClient \notin Clients
ASSUME LayoutAssumption  == /\ Layouts # {} /\ 1 \in Addresses
                            /\ \A l \in Layouts : l.holds \subseteq DOMAIN l.next
ASSUME NumberAssumption  == /\ Workers \in Nat \ {0}
                            /\ {MaxRuns, MaxKilled} \subseteq [Programs -> Nat]
                            /\ Ports \subseteq Nat \ {0} /\ 1 \in Ports
ASSUME DataAssumption    == FileData \in Seq(STRING) /\ FileData # <<>>

VARIABLES
  program, layout,      \* chosen once
  conn,                 \* a client's (last) connection
  cpc,                  \* where a client is
  sent, hops,           \* chunks sent; count of 2015-09-14/client.c
  outcome, found,       \* how the client has ended; the server its file came from
  queue,                \* connections that an address has not accepted
  pc, serves,           \* where a process is, and the client it serves
  store, made,          \* uploaded files, and the directories made for them
  received, saved       \* (history) complete uploads, and what was in the file then

clientVars == <<cpc, sent, hops, outcome, found>>
processVars == <<pc, serves, queue>>
fileVars == <<store, made, received, saved>>
vars == <<program, layout, conn, clientVars, processVars, fileVars>>

Dirs        == program = "upload dirs"
Interactive == program \in {"sum", "sum once", "get", "old get"}

\* A Simple server is one process, also server1.c in front of others.
Size(a) == IF program \in {"upload", "sum", "sum once"} \/ (program = "redirect" /\ a % 2 = 1)
             THEN 1 ELSE Workers
Processes == Addresses \X (1..Workers)

\* The file of client c, chunk by chunk (HP: not empty).
Chunks  == ToSet(FileData)
File(c) == [i \in DOMAIN FileData |-> <<c, FileData[i]>>]

Connections ==
  [at : Addresses, port : Ports, client : BOOLEAN, server : BOOLEAN, reset : BOOLEAN,
   up : Seq(Chunks \cup {"PUT", "GET", "absent", "QUIT", "num", "req"}),
   down : Seq({"OK", "ERR", "RED"})]

TypeOK ==
  /\ program \in Programs /\ layout \in Layouts
  /\ conn \in [Clients -> Connections]
  /\ cpc \in [Clients -> {"new", "prompt", "send", "second", "wait", "chunks", "blind", "over"}]
  /\ sent \in [Clients -> 0..Len(FileData)] /\ hops \in [Clients -> 0..5]
  /\ outcome \in [Clients -> {"none", "sent", "blind", "ok", "nothing", "failed", "killed"}]
  /\ found \in [Clients -> Addresses \cup {0}]
  /\ queue \in [Addresses -> Seq(Clients)]
  /\ pc \in [Processes -> {"idle", "mkdir", "request", "second", "ok", "err", "reply", "chunks",
                           "fail", "dead"}]
  /\ serves \in [Processes -> Clients \cup {NoClient}]
  /\ \A p \in Processes : (serves[p] = NoClient) <=> pc[p] \in {"idle", "dead"}
  /\ store \in [Ports \cup {0} -> Seq(Clients \X Chunks)]
  /\ made \subseteq Ports /\ received \subseteq Clients
  /\ saved \in [Clients -> Seq(Clients \X Chunks)]

-------------------------------------------------------------------------------
(* Connections: reset is a RST, sent by an end that is closed with data unread  *)
(* or that is written to after it was closed.                                   *)

Opened(a, n) == [at |-> a, port |-> n, up |-> <<>>, down |-> <<>>,
                 client |-> TRUE, server |-> TRUE, reset |-> FALSE]

ClosedByServer(k) == [k EXCEPT !.server = FALSE, !.reset = @ \/ k.up # <<>>]
ClosedByClient(k) == [k EXCEPT !.client = FALSE, !.reset = @ \/ k.down # <<>>]

WrittenByServer(k, xs) == IF k.client THEN [k EXCEPT !.down = @ \o xs]
                          ELSE [k EXCEPT !.reset = TRUE]
WrittenByClient(k, xs) == IF k.server THEN [k EXCEPT !.up = @ \o xs]
                          ELSE [k EXCEPT !.reset = TRUE]

ReadByServer(k) == [k EXCEPT !.up = Tail(@)]
ReadByClient(k) == [k EXCEPT !.down = Tail(@)]

-------------------------------------------------------------------------------
(* Server processes *)

Session(p)   == conn[serves[p]]
Listening(a) == \E p \in Processes : p[1] = a /\ pc[p] # "dead"

ProcessGoes(p, next) == pc' = [pc EXCEPT ![p] = next] /\ UNCHANGED <<serves, queue>>

SetSession(p, k) == conn' = [conn EXCEPT ![serves[p]] = k]

\* The process takes the next connection; server2.c of 2014-09-10 forks one for it.
Accept(p) ==
  /\ pc[p] = "idle" /\ queue[p[1]] # <<>>
  /\ pc' = [pc EXCEPT ![p] = IF Dirs THEN "mkdir" ELSE "request"]
  /\ serves' = [serves EXCEPT ![p] = Head(queue[p[1]])]
  /\ queue' = [queue EXCEPT ![p[1]] = Tail(@)]
  /\ UNCHANGED <<conn, fileVars>>

\* The task returns, and the connection, now k, is closed.
Return(p, k) ==
  /\ SetSession(p, ClosedByServer(k))
  /\ pc' = [pc EXCEPT ![p] = "idle"] /\ serves' = [serves EXCEPT ![p] = NoClient]
  /\ UNCHANGED queue

\* Deviation: the process keeps its client.
DieKeepsClient(p) ==
  /\ pc' = [pc EXCEPT ![p] = IF Dirs THEN "idle" ELSE "dead"]
  /\ SetSession(p, ClosedByServer(Session(p))) /\ UNCHANGED <<serves, queue>>

\* The process ends; with the last one, the connections nobody has accepted.
Die(p) ==
  LET a    == p[1]
      last == ~Dirs /\ \A q \in Processes : q # p /\ q[1] = a => pc[q] = "dead"
  IN
    /\ pc' = [pc EXCEPT ![p] = IF Dirs THEN "idle" ELSE "dead"]
    /\ serves' = [serves EXCEPT ![p] = NoClient]
    /\ queue' = [queue EXCEPT ![a] = IF last THEN <<>> ELSE @]
    /\ conn' = [c \in Clients |->
                  IF c = serves[p] THEN ClosedByServer(conn[c])
                  ELSE IF last /\ Contains(queue[a], c)
                    THEN [conn[c] EXCEPT !.server = FALSE, !.reset = TRUE]
                  ELSE conn[c]]

\* The next thing to read, the end of the stream, and an error, with which Readn ends
\* the process.
Reads(p, x) == Session(p).up # <<>> /\ Head(Session(p).up) = x
Ended(p)    == Session(p).up = <<>> /\ ~Session(p).client
ReadnDies(p) == Ended(p) /\ Session(p).reset /\ Die(p)

Took(p, next) == SetSession(p, ReadByServer(Session(p))) /\ ProcessGoes(p, next)

Wrote(p, xs) == WrittenByServer(Session(p), xs)

\* The client is gone: a first write is not noticed, a second one is, by SIGPIPE or (the
\* client was killed with something unread) by an error.
WriteDies(p) == ~Session(p).client /\ Die(p)

\* A last reply, and one after which the task goes on.
WriteAndReturn(p, xs)   == Return(p, Wrote(p, xs))
WriteAndGo(p, xs, next) == SetSession(p, Wrote(p, xs)) /\ ProcessGoes(p, next)

\* A reply of several writes, whose failure ends the session.
WritesAndGo(p, xs, next) ==
  \/ ~Session(p).reset /\ WriteAndGo(p, xs, next)
  \/ ~Session(p).client /\ Return(p, Wrote(p, xs))
  \/ WriteDies(p)

-------------------------------------------------------------------------------
(* 2014-09-10: childTask of server1.c and server2.c *)

\* The directory of client c's files; server1.c has only one.
Directory(c) == IF Dirs THEN conn[c].port ELSE 0

\* Deviation: the result of mkdir is not looked at.
MakeDirectoryUnchecked(p) ==
  /\ pc[p] = "mkdir" /\ made' = made \cup {Directory(serves[p])}
  /\ ProcessGoes(p, "request") /\ UNCHANGED <<conn, store, received, saved>>

\* A directory that exists ends the child.
MakeDirectory(p) ==
  /\ pc[p] = "mkdir"
  /\ \/ /\ Directory(serves[p]) \notin made
        /\ made' = made \cup {Directory(serves[p])}
        /\ ProcessGoes(p, "request") /\ UNCHANGED conn
     \/ Directory(serves[p]) \in made /\ Die(p) /\ UNCHANGED made
  /\ UNCHANGED <<store, received, saved>>

PutRequest(p) ==
  /\ pc[p] = "request"
  /\ \/ Reads(p, "PUT") /\ Took(p, "ok")
     \/ Ended(p) /\ ProcessGoes(p, "err") /\ UNCHANGED conn
  /\ UNCHANGED fileVars

\* OK, and fopen; or ERR.
PutReply(p) ==
  \/ /\ pc[p] = "ok" /\ WriteAndGo(p, <<"OK">>, "chunks")
     /\ store' = [store EXCEPT ![Directory(serves[p])] = <<>>]
     /\ UNCHANGED <<made, received, saved>>
  \/ pc[p] = "err" /\ WriteAndReturn(p, <<"ERR">>) /\ UNCHANGED fileVars

\* myTcpReadChunksAndWriteToFile2: up to the end of the stream, whatever ended it.
PutChunk(p, x) ==
  /\ pc[p] = "chunks" /\ Reads(p, x) /\ Took(p, "chunks")
  /\ store' = [store EXCEPT ![Directory(serves[p])] = Append(@, <<serves[p], x>>)]
  /\ UNCHANGED <<made, received, saved>>

PutEnds(p) ==
  /\ pc[p] = "chunks" /\ Ended(p)
  /\ received' = received \cup {serves[p]}
  /\ saved' = [saved EXCEPT ![serves[p]] = store[Directory(serves[p])]]
  /\ Return(p, Session(p)) /\ UNCHANGED <<store, made>>

PutServer(p) ==
  \/ MakeDirectory(p) \/ PutRequest(p) \/ PutReply(p) \/ PutEnds(p)
  \/ \E x \in Chunks : PutChunk(p, x)
  \/ pc[p] = "chunks" /\ ReadnDies(p) /\ UNCHANGED fileVars

-------------------------------------------------------------------------------
(* 2015-09-14: childTask of server1.c and server2.c *)

RedirectRequest(p) ==
  /\ pc[p] = "request"
  /\ \/ Reads(p, "GET") /\ Took(p, "reply")
     \/ Ended(p) /\ Return(p, Session(p))

\* ERR is one write, the others are several.
Answer(a) == IF a \in layout.holds THEN "OK" ELSE IF layout.next[a] = 0 THEN "ERR" ELSE "RED"

RedirectReply(p) ==
  /\ pc[p] = "reply"
  /\ \/ WriteAndReturn(p, <<Answer(p[1])>>)
     \/ Answer(p[1]) # "ERR" /\ WriteDies(p)

RedirectServer(p) == RedirectRequest(p) \/ RedirectReply(p)

-------------------------------------------------------------------------------
(* The XDR servers: a read that fails does not end the process *)

\* labs/2.4
SumServer(p) ==
  \/ pc[p] = "request" /\ Reads(p, "num") /\ Took(p, "second")
  \/ pc[p] = "second" /\ Reads(p, "num") /\ Took(p, "reply")
  \/ pc[p] \in {"request", "second"} /\ Ended(p) /\ Return(p, Session(p))
  \/ pc[p] = "reply" /\ WriteAndReturn(p, <<"OK">>)

\* Deviation: the program ends when that was not both numbers.
SumOnceServerExits(p) ==
  \/ pc[p] = "request" /\ Len(Session(p).up) = 1 /\ Die(p)
  \/ /\ pc[p] = "request" /\ Len(Session(p).up) = 2
     /\ SetSession(p, [Session(p) EXCEPT !.up = <<>>]) /\ ProcessGoes(p, "reply")
  \/ pc[p] = "request" /\ Ended(p) /\ Return(p, Session(p))
  \/ pc[p] = "reply" /\ WriteAndReturn(p, <<"OK">>)

\* labs/2.4/xdrmem_create reads once, and returns when that was not both numbers.
SumOnceServer(p) ==
  \/ /\ pc[p] = "request" /\ Len(Session(p).up) = 1
     /\ Return(p, ReadByServer(Session(p)))
  \/ /\ pc[p] = "request" /\ Len(Session(p).up) = 2
     /\ SetSession(p, [Session(p) EXCEPT !.up = <<>>]) /\ ProcessGoes(p, "reply")
  \/ pc[p] = "request" /\ Ended(p) /\ Return(p, Session(p))
  \/ pc[p] = "reply" /\ WriteAndReturn(p, <<"OK">>)

\* Deviation: the failure of the reply is not looked at.
FailReplyForgiven(p) ==
  /\ pc[p] = "fail" /\ SetSession(p, Wrote(p, <<"ERR">>)) /\ ProcessGoes(p, "request")

\* The end of the stream is answered like a bad request.  The reply is written to a
\* connection that is gone and pointers of the last request are freed again (or never
\* were set): the process ends here or in the next turn, unless a reset connection is
\* reported by the write, with nothing of an earlier request to free.
FailReply(p) ==
  /\ pc[p] = "fail"
  /\ \/ ~Session(p).reset /\ SetSession(p, Wrote(p, <<"ERR">>)) /\ ProcessGoes(p, "request")
     \/ ~Session(p).client /\ Session(p).reset /\ Return(p, Session(p))
     \/ Die(p)

\* exams/2014-06-23
EncodeServer(p) ==
  \/ pc[p] = "request" /\ Reads(p, "req") /\ Took(p, "reply")
  \/ pc[p] = "request" /\ Ended(p) /\ ProcessGoes(p, "fail") /\ UNCHANGED conn
  \/ pc[p] = "reply" /\ WritesAndGo(p, <<"OK">>, "request")
  \/ FailReply(p)

\* exams/sample
GetServer(p) ==
  \/ pc[p] = "request" /\ Reads(p, "GET") /\ Took(p, "ok")
  \/ pc[p] = "request" /\ Reads(p, "absent") /\ Took(p, "err")
  \/ pc[p] = "request" /\ Reads(p, "QUIT") /\ Return(p, ReadByServer(Session(p)))
  \/ pc[p] = "request" /\ Ended(p) /\ ProcessGoes(p, "fail") /\ UNCHANGED conn
  \/ pc[p] = "ok" /\ WritesAndGo(p, <<"OK">>, "request")
  \/ pc[p] = "err" /\ WritesAndGo(p, <<"ERR">>, "request")
  \/ FailReply(p)

\* exams/old/sample: ERR closes the connection.  Its data has no address and a length
\* that was never set: the reply may fail, or end the process.
OldGetServer(p) ==
  \/ pc[p] = "request" /\ Reads(p, "GET") /\ Took(p, "ok")
  \/ pc[p] = "request" /\ Reads(p, "absent") /\ Took(p, "err")
  \/ pc[p] = "request" /\ Reads(p, "QUIT") /\ Return(p, ReadByServer(Session(p)))
  \/ pc[p] = "request" /\ Ended(p) /\ Return(p, Session(p))
  \/ pc[p] = "ok" /\ (WriteAndGo(p, <<"OK">>, "request") \/ WriteDies(p))
  \/ pc[p] = "err" /\ WriteAndReturn(p, <<"ERR">>)
  \/ pc[p] = "err" /\ Return(p, Session(p))
  \/ pc[p] = "err" /\ Die(p)

Process(p) ==
  /\ UNCHANGED <<program, layout, clientVars>>
  /\ \/ Accept(p)
     \/ program \in {"upload", "upload dirs"} /\ PutServer(p)
     \/ program = "redirect" /\ RedirectServer(p) /\ UNCHANGED fileVars
     \/ program = "sum" /\ SumServer(p) /\ UNCHANGED fileVars
     \/ program = "sum once" /\ SumOnceServer(p) /\ UNCHANGED fileVars
     \/ program = "encode" /\ EncodeServer(p) /\ UNCHANGED fileVars
     \/ program = "get" /\ GetServer(p) /\ UNCHANGED fileVars
     \/ program = "old get" /\ OldGetServer(p) /\ UNCHANGED fileVars

-------------------------------------------------------------------------------
(* The clients *)

ClientGoes(c, next) == cpc' = [cpc EXCEPT ![c] = next]
SetConn(c, k) == conn' = [conn EXCEPT ![c] = k]

Write(c, xs) == SetConn(c, WrittenByClient(conn[c], xs))

\* The first thing that has arrived; the end of the stream.
Arrived(c, x) == conn[c].down # <<>> /\ Head(conn[c].down) = x
AtEnd(c)      == conn[c].down = <<>> /\ ~conn[c].server

\* The program closes its connection and ends.
End(c, result) ==
  /\ SetConn(c, ClosedByClient(conn[c]))
  /\ ClientGoes(c, "over") /\ outcome' = [outcome EXCEPT ![c] = result]

EndReading(c, result) ==
  /\ SetConn(c, ClosedByClient(ReadByClient(conn[c])))
  /\ ClientGoes(c, "over") /\ outcome' = [outcome EXCEPT ![c] = result]

\* A write or a read on a connection that was reset ends the program (SIGPIPE, err_sys,
\* myFunctionError).
Fail(c) == conn[c].reset /\ End(c, "failed")

\* connect to address a, which refuses when nobody listens.
Connect(c, a, n, next) ==
  IF Listening(a)
    THEN /\ SetConn(c, Opened(a, n)) /\ ClientGoes(c, next)
         /\ queue' = [queue EXCEPT ![a] = Append(@, c)] /\ UNCHANGED outcome
    ELSE End(c, "failed") /\ UNCHANGED queue

\* The kernel gives the program a port that nobody uses.
FreePort(n) == \A c \in Clients : conn[c].port = n => ~conn[c].client /\ ~conn[c].server

Start(c) ==
  /\ cpc[c] = "new" /\ Cardinality({d \in Clients : cpc[d] # "new"}) < MaxRuns[program]
  /\ \E n \in Ports :
       /\ IF Dirs THEN FreePort(n) ELSE n = 1
       /\ Connect(c, 1, n, IF Interactive THEN "prompt" ELSE "send")
  /\ UNCHANGED <<sent, hops, found>>

\* 2014-09-10/client.c, of a file that exists.  No line at all is taken for OK; ERR
\* answers no request that this client sends.
PutClient(c) ==
  \/ cpc[c] = "send" /\ Write(c, <<"PUT">>) /\ ClientGoes(c, "wait") /\ UNCHANGED <<sent, outcome>>
  \/ /\ cpc[c] = "wait" /\ Arrived(c, "OK") /\ SetConn(c, ReadByClient(conn[c]))
     /\ ClientGoes(c, "chunks") /\ UNCHANGED <<sent, outcome>>
  \/ cpc[c] = "wait" /\ AtEnd(c) /\ ClientGoes(c, "blind") /\ UNCHANGED <<conn, sent, outcome>>
  \/ /\ cpc[c] \in {"chunks", "blind"} /\ sent[c] < Len(FileData)
     /\ Write(c, <<FileData[sent[c] + 1]>>) /\ sent' = [sent EXCEPT ![c] = @ + 1]
     /\ UNCHANGED <<cpc, outcome>>
  \/ cpc[c] = "chunks" /\ sent[c] = Len(FileData) /\ End(c, "sent") /\ UNCHANGED sent
  \/ cpc[c] = "blind" /\ sent[c] = Len(FileData) /\ End(c, "blind") /\ UNCHANGED sent
  \/ cpc[c] \in {"send", "wait", "chunks", "blind"} /\ Fail(c) /\ UNCHANGED sent

\* 2015-09-14/client.c; the QUIT at the end goes to the first connection, which the
\* server has closed.
MAX_REDIRECTIONS == 4

\* Deviation: one redirection less.
RedirectedOneLess(c) ==
  IF hops[c] < MAX_REDIRECTIONS - 1
    THEN Connect(c, layout.next[conn[c].at], conn[c].port, "send")
    ELSE EndReading(c, "nothing") /\ UNCHANGED queue

Redirected(c) ==
  IF hops[c] < MAX_REDIRECTIONS
    THEN Connect(c, layout.next[conn[c].at], conn[c].port, "send")
    ELSE EndReading(c, "nothing") /\ UNCHANGED queue

RedirectClient(c) ==
  \/ /\ cpc[c] = "send" /\ Write(c, <<"GET">>) /\ ClientGoes(c, "wait")
     /\ UNCHANGED <<hops, outcome, found, queue>>
  \/ /\ cpc[c] = "wait" /\ Arrived(c, "OK") /\ EndReading(c, "ok")
     /\ found' = [found EXCEPT ![c] = conn[c].at] /\ UNCHANGED <<hops, queue>>
  \/ /\ cpc[c] = "wait" /\ Arrived(c, "RED") /\ Redirected(c)
     /\ hops' = [hops EXCEPT ![c] = @ + 1] /\ UNCHANGED found
  \/ /\ cpc[c] = "wait" /\ Arrived(c, "ERR") /\ EndReading(c, "nothing")
     /\ UNCHANGED <<hops, found, queue>>
  \/ /\ cpc[c] = "wait" /\ AtEnd(c) /\ End(c, "nothing") /\ UNCHANGED <<hops, found, queue>>
  \/ cpc[c] \in {"send", "wait"} /\ Fail(c) /\ UNCHANGED <<hops, found, queue>>

-------------------------------------------------------------------------------
(* The XDR clients *)

\* Both numbers are typed after connect; labs/2.4 writes them one by one, its
\* xdrmem_create and labs/old/2.4 at once.
SumUser(c) == cpc[c] = "prompt" /\ ClientGoes(c, "send") /\ UNCHANGED <<conn, outcome>>

SumClient(c) ==
  \/ cpc[c] = "send" /\ Write(c, <<"num">>) /\ ClientGoes(c, "second") /\ UNCHANGED outcome
  \/ cpc[c] = "second" /\ Write(c, <<"num">>) /\ ClientGoes(c, "wait") /\ UNCHANGED outcome
  \/ cpc[c] = "send" /\ Write(c, <<"num", "num">>) /\ ClientGoes(c, "wait") /\ UNCHANGED outcome
  \/ cpc[c] = "wait" /\ Arrived(c, "OK") /\ EndReading(c, "ok")
  \/ cpc[c] = "wait" /\ AtEnd(c) /\ End(c, "failed")

EncodeClient(c) ==
  \/ cpc[c] = "send" /\ Write(c, <<"req">>) /\ ClientGoes(c, "wait") /\ UNCHANGED outcome
  \/ cpc[c] = "wait" /\ Arrived(c, "OK") /\ EndReading(c, "ok")
  \/ cpc[c] = "wait" /\ AtEnd(c) /\ End(c, "failed")
  \/ cpc[c] = "send" /\ Fail(c)

\* A file name, or an empty string: QUIT, and the end.
GetUser(c) ==
  /\ cpc[c] = "prompt"
  /\ \/ \E x \in {"GET", "absent"} : Write(c, <<x>>) /\ ClientGoes(c, "wait") /\ UNCHANGED outcome
     \/ /\ SetConn(c, ClosedByClient(WrittenByClient(conn[c], <<"QUIT">>)))
        /\ ClientGoes(c, "over") /\ outcome' = [outcome EXCEPT ![c] = "ok"]
     \/ Fail(c)

GetClient(c) ==
  /\ cpc[c] = "wait"
  /\ \/ /\ conn[c].down # <<>> /\ SetConn(c, ReadByClient(conn[c]))
        /\ ClientGoes(c, "prompt") /\ UNCHANGED outcome
     \/ AtEnd(c) /\ End(c, "failed")

\* exams/old/sample: nobody looks whether the reply could be read; its fields are then
\* those of the last reply, or were never set.
OldGetClient(c) ==
  /\ cpc[c] = "wait"
  /\ \/ /\ Arrived(c, "OK") /\ SetConn(c, ReadByClient(conn[c]))
        /\ ClientGoes(c, "prompt") /\ UNCHANGED outcome
     \/ Arrived(c, "ERR") /\ EndReading(c, "nothing")
     \/ AtEnd(c) /\ \E o \in {"nothing", "failed"} : End(c, o)
     \/ AtEnd(c) /\ ClientGoes(c, "prompt") /\ UNCHANGED <<conn, outcome>>

-------------------------------------------------------------------------------

Client(c) ==
  /\ UNCHANGED <<program, layout, pc, serves, fileVars>>
  /\ \/ program \in {"upload", "upload dirs"} /\ PutClient(c) /\ UNCHANGED <<hops, found, queue>>
     \/ program = "redirect" /\ RedirectClient(c) /\ UNCHANGED sent
     \/ program \in {"sum", "sum once"} /\ SumClient(c) /\ UNCHANGED <<sent, hops, found, queue>>
     \/ program = "encode" /\ EncodeClient(c) /\ UNCHANGED <<sent, hops, found, queue>>
     \/ program = "get" /\ GetClient(c) /\ UNCHANGED <<sent, hops, found, queue>>
     \/ program = "old get" /\ OldGetClient(c) /\ UNCHANGED <<sent, hops, found, queue>>

\* The user starts the program, and types.
User(c) ==
  /\ UNCHANGED <<program, layout, pc, serves, fileVars>>
  /\ \/ Start(c)
     \/ program \in {"sum", "sum once"} /\ SumUser(c) /\ UNCHANGED <<sent, hops, found, queue>>
     \/ program \in {"get", "old get"} /\ GetUser(c) /\ UNCHANGED <<sent, hops, found, queue>>

Killed == {c \in Clients : outcome[c] = "killed"}

ClientKilled(c) ==
  /\ cpc[c] \notin {"new", "over"} /\ Cardinality(Killed) < MaxKilled[program]
  /\ End(c, "killed")
  /\ UNCHANGED <<program, layout, sent, hops, found, processVars, fileVars>>

Init ==
  /\ program \in Programs /\ layout \in Layouts
  /\ program # "redirect" => layout = CHOOSE l \in Layouts : TRUE
  /\ conn = [c \in Clients |-> ClosedByServer(ClosedByClient(Opened(1, 1)))]
  /\ cpc = [c \in Clients |-> "new"] /\ sent = [c \in Clients |-> 0]
  /\ hops = [c \in Clients |-> 0] /\ outcome = [c \in Clients |-> "none"]
  /\ found = [c \in Clients |-> 0]
  /\ queue = [a \in Addresses |-> <<>>]
  /\ pc = [p \in Processes |-> IF p[2] <= Size(p[1]) THEN "idle" ELSE "dead"]
  /\ serves = [p \in Processes |-> NoClient]
  /\ store = [n \in Ports \cup {0} |-> <<>>] /\ made = {}
  /\ received = {} /\ saved = [c \in Clients |-> <<>>]

Next ==
  \/ \E p \in Processes : Process(p)
  \/ \E c \in Clients : Client(c) \/ User(c) \/ ClientKilled(c)

Spec == Init /\ [][Next]_vars

\* Every process runs (of different addresses, one at least); users owe nothing.
FairSpec ==
  /\ Spec
  /\ \A n \in 1..Workers : WF_vars(\E a \in Addresses : Process(<<a, n>>))
  /\ \A c \in Clients : WF_vars(Client(c))

-------------------------------------------------------------------------------
(* Properties *)

Served(c) == \E p \in Processes : serves[p] = c

\* What a server reports as received is the beginning of one client's file, and the
\* whole of it unless that client was killed; server2.c keeps it.  A client that was
\* told OK and reports success is not mistaken.
UploadsWhole ==
  \A c \in Clients :
    /\ c \in received => /\ IsPrefix(saved[c], File(c))
                         /\ c \in Killed \/ saved[c] = File(c)
                         /\ Dirs => store[conn[c].port] = saved[c]
    /\ outcome[c] = "sent" => c \in received \/ Served(c)

\* The servers a client may be sent to, one after the other (0: none).
Hop[k \in 0..MAX_REDIRECTIONS] ==
  IF k = 0 THEN 1 ELSE IF Hop[k - 1] = 0 THEN 0 ELSE layout.next[Hop[k - 1]]

\* While no client is killed, the client of 2015-09-14 ends with the file of the first
\* server on its way that has it, and without only if the first five have not.
RedirectFinds ==
  LET having == {k \in 0..MAX_REDIRECTIONS : Hop[k] \in layout.holds} IN
    \A c \in Clients :
      program = "redirect" /\ Killed = {} /\ outcome[c] # "none" =>
        found[c] = IF having = {} THEN 0 ELSE Hop[Min(having)]

\* A client runs (of interactive programs, it is being served) or its session has not
\* ended at the server.
Busy(c)   == /\ cpc[c] \notin {"new", "prompt"}
             /\ Served(c) \/ (cpc[c] # "over" /\ ~Interactive)

\* The clients for which a process may end: those killed; of 2014-06-23, whose end of
\* stream is answered, all that have ended, and of exams/old/sample, whose refusal sends
\* fields that were never set, all that have begun.
Harmful == CASE program = "encode"  -> {c \in Clients : cpc[c] = "over"}
             [] program = "old get" -> {c \in Clients : cpc[c] # "new"}
             [] OTHER               -> Killed

\* The forked processes of these servers, and the server that is one process, end for
\* one such client each at most: an end of stream, a short request or a reply that nobody
\* reads costs nothing but the session.
OneProcessEach ==
  Cardinality({p \in Processes : pc[p] = "dead" /\ p[2] <= Size(p[1])}) <= Cardinality(Harmful)

\* Every session ends, for the client and for the process.
SessionsEnd == \A c \in Clients : Busy(c) ~> ~Busy(c)
===============================================================================
