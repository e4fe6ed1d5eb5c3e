-------------------------- MODULE ExamSessionsProofs --------------------------
(* Proofs about ExamSessions for every number of clients, processes, servers,  *)
(* ports and chunks.                                                           *)
EXTENDS ExamSessions, QueueLemmas

-------------------------------------------------------------------------------
(* Types.  A client that has been redirected five times has ended, and only    *)
(* the children of server2.c make directories.                                 *)
TypeInv ==
  /\ TypeOK
  /\ \A c \in Clients : hops[c] = 5 => cpc[c] = "over"
  /\ \A p \in Processes : pc[p] = "mkdir" => Dirs

\* Its parts about connections and about processes.
ConnInv == conn \in [Clients -> Connections]

ProcessInv ==
  /\ queue \in [Addresses -> Seq(Clients)]
  /\ pc \in [Processes -> {"idle", "mkdir", "request", "second", "ok", "err", "reply", "chunks",
                           "fail", "dead"}]
  /\ serves \in [Processes -> Clients \cup {NoClient}]
  /\ \A p \in Processes : (serves[p] = NoClient) <=> pc[p] \in {"idle", "dead"}
  /\ \A p \in Processes : pc[p] = "mkdir" => Dirs

InSession == {"request", "second", "ok", "err", "reply", "chunks", "fail"}

Sends   == Chunks \cup {"PUT", "GET", "absent", "QUIT", "num", "req"}
Answers == {"OK", "ERR", "RED"}

(* What the operations on a connection make of it is a connection.             *)
LEMMA OpenedType ==
  ASSUME NEW a \in Addresses, NEW n \in Ports
  PROVE  Opened(a, n) \in Connections
<1>1. <<>> \in Seq(Sends) /\ <<>> \in Seq(Answers)
  OBVIOUS
<1> QED
  BY <1>1 DEF Opened, Connections, Sends, Answers

LEMMA ClosedType ==
  ASSUME NEW k \in Connections
  PROVE  ClosedByServer(k) \in Connections /\ ClosedByClient(k) \in Connections
BY DEF ClosedByServer, ClosedByClient, Connections

LEMMA WrittenByServerType ==
  ASSUME NEW k \in Connections, NEW xs \in Seq(Answers)
  PROVE  WrittenByServer(k, xs) \in Connections
<1>1. k.down \in Seq(Answers)
  BY DEF Connections, Answers
<1>2. k.down \o xs \in Seq(Answers)
  BY <1>1
<1>3. [k EXCEPT !.down = k.down \o xs] \in Connections
  BY <1>2 DEF Connections, Answers
<1>4. [k EXCEPT !.reset = TRUE] \in Connections
  BY DEF Connections
<1> QED
  BY <1>3, <1>4 DEF WrittenByServer

LEMMA WrittenByClientType ==
  ASSUME NEW k \in Connections, NEW xs \in Seq(Sends)
  PROVE  WrittenByClient(k, xs) \in Connections
<1>1. k.up \in Seq(Sends)
  BY DEF Connections, Sends
<1>2. k.up \o xs \in Seq(Sends)
  BY <1>1
<1>3. [k EXCEPT !.up = k.up \o xs] \in Connections
  BY <1>2 DEF Connections, Sends
<1>4. [k EXCEPT !.reset = TRUE] \in Connections
  BY DEF Connections
<1> QED
  BY <1>3, <1>4 DEF WrittenByClient

LEMMA ReadType ==
  ASSUME NEW k \in Connections
  PROVE  /\ k.up # <<>> => ReadByServer(k) \in Connections
         /\ k.down # <<>> => ReadByClient(k) \in Connections
<1>1. k.up \in Seq(Sends) /\ k.down \in Seq(Answers)
  BY DEF Connections, Sends, Answers
<1>2. /\ k.up # <<>> => Tail(k.up) \in Seq(Sends)
      /\ k.down # <<>> => Tail(k.down) \in Seq(Answers)
  BY <1>1, Departed
<1> QED
  BY <1>2 DEF ReadByServer, ReadByClient, Connections, Sends, Answers

(* The words of the protocols.                                                 *)
LEMMA Words ==
  /\ <<"PUT">> \in Seq(Sends) /\ <<"GET">> \in Seq(Sends) /\ <<"absent">> \in Seq(Sends)
  /\ <<"QUIT">> \in Seq(Sends) /\ <<"num">> \in Seq(Sends) /\ <<"num", "num">> \in Seq(Sends)
  /\ <<"req">> \in Seq(Sends)
  /\ <<"OK">> \in Seq(Answers) /\ <<"ERR">> \in Seq(Answers) /\ <<"RED">> \in Seq(Answers)
  /\ \A x \in Chunks : <<x>> \in Seq(Sends)
BY DEF Sends, Answers

(* A process that is not idle has a session.                                   *)
LEMMA SessionType ==
  ASSUME TypeInv, NEW p \in Processes, pc[p] \notin {"idle", "dead"}
  PROVE  serves[p] \in Clients /\ Session(p) \in Connections
BY DEF TypeInv, TypeOK, Session

LEMMA TypeParts == TypeInv => ConnInv /\ ProcessInv
BY DEF TypeInv, TypeOK, ConnInv, ProcessInv

(* What each part of a process's step keeps.                                   *)
LEMMA GoesType ==
  ASSUME ConnInv, ProcessInv, program' = program, NEW p \in Processes, serves[p] \in Clients,
         NEW next \in InSession, ProcessGoes(p, next)
  PROVE  ProcessInv'
BY NumberAssumption, ProgramAssumption DEF ProcessInv, ProcessGoes, InSession, Dirs

LEMMA SetSessionType ==
  ASSUME ConnInv, NEW p \in Processes, serves[p] \in Clients, NEW k \in Connections, SetSession(p, k)
  PROVE  ConnInv'
BY DEF ConnInv, SetSession

LEMMA ReturnType ==
  ASSUME ConnInv, ProcessInv, program' = program, NEW p \in Processes, serves[p] \in Clients,
         NEW k \in Connections, Return(p, k)
  PROVE  ConnInv' /\ ProcessInv'
<1>1. ClosedByServer(k) \in Connections
  BY ClosedType
<1>2. ConnInv'
  BY <1>1, SetSessionType DEF Return
<1>3. ProcessInv'
  BY ProgramAssumption DEF ProcessInv, Return, Dirs
<1> QED
  BY <1>2, <1>3

LEMMA DieType ==
  ASSUME ConnInv, ProcessInv, program' = program, NEW p \in Processes, serves[p] \in Clients, Die(p)
  PROVE  ConnInv' /\ ProcessInv'
<1>1. ASSUME NEW c \in Clients PROVE conn'[c] \in Connections
  <2>1. conn[c] \in Connections
    BY DEF ConnInv
  <2>2. ClosedByServer(conn[c]) \in Connections
    BY <2>1, ClosedType
  <2>3. [conn[c] EXCEPT !.server = FALSE, !.reset = TRUE] \in Connections
    BY <2>1 DEF Connections
  <2> QED
    BY <2>1, <2>2, <2>3 DEF Die
<1>2. ConnInv'
  <2>1. DOMAIN conn' = Clients /\ conn' = [c \in Clients |-> conn'[c]]
    BY DEF Die
  <2> QED
    BY <1>1, <2>1 DEF ConnInv
<1>3. ProcessInv'
  <2>1. p[1] \in Addresses /\ <<>> \in Seq(Clients)
    BY DEF Processes
  <2>2. queue' \in [Addresses -> Seq(Clients)]
    BY <2>1 DEF Die, ProcessInv
  <2>3. pc' = [pc EXCEPT ![p] = IF Dirs THEN "idle" ELSE "dead"] /\ serves' = [serves EXCEPT ![p] = NoClient]
    BY DEF Die
  <2> QED
    BY <2>2, <2>3, ProgramAssumption DEF ProcessInv, Dirs
<1> QED
  BY <1>2, <1>3

LEMMA AcceptType ==
  ASSUME ConnInv, ProcessInv, program' = program, NEW p \in Processes, Accept(p)
  PROVE  ConnInv' /\ ProcessInv'
<1>1. p[1] \in Addresses
  BY DEF Processes
<1>2. queue[p[1]] \in Seq(Clients) /\ queue[p[1]] # <<>>
  BY <1>1 DEF Accept, ProcessInv
<1>3. Head(queue[p[1]]) \in Clients /\ Tail(queue[p[1]]) \in Seq(Clients)
  BY <1>2, Departed
<1>4. queue' \in [Addresses -> Seq(Clients)]
  BY <1>1, <1>3 DEF Accept, ProcessInv
<1> QED
  BY <1>3, <1>4, ProgramAssumption DEF Accept, ConnInv, ProcessInv, Dirs

(* Replies, and what follows a reading.                                        *)
LEMMA TookType ==
  ASSUME ConnInv, ProcessInv, program' = program, NEW p \in Processes, serves[p] \in Clients,
         NEW x, Reads(p, x), NEW next \in InSession, Took(p, next)
  PROVE  ConnInv' /\ ProcessInv'
<1>1. Session(p) \in Connections
  BY DEF Session, ConnInv
<1>2. ReadByServer(Session(p)) \in Connections
  BY <1>1, ReadType DEF Reads
<1> QED
  BY <1>2, SetSessionType, GoesType DEF Took

LEMMA WriteType ==
  ASSUME ConnInv, ProcessInv, program' = program, NEW p \in Processes, serves[p] \in Clients,
         NEW xs \in Seq(Answers), NEW next \in InSession,
         WriteAndReturn(p, xs) \/ WriteAndGo(p, xs, next) \/ WritesAndGo(p, xs, next) \/ WriteDies(p)
  PROVE  ConnInv' /\ ProcessInv'
<1>1. Session(p) \in Connections
  BY DEF Session, ConnInv
<1>2. Wrote(p, xs) \in Connections
  BY <1>1, WrittenByServerType DEF Wrote
<1>3. CASE Return(p, Wrote(p, xs))
  BY <1>2, <1>3, ReturnType
<1>4. CASE WriteAndGo(p, xs, next)
  BY <1>2, <1>4, SetSessionType, GoesType DEF WriteAndGo
<1>5. CASE Die(p)
  BY <1>5, DieType
<1> QED
  BY <1>3, <1>4, <1>5 DEF WriteAndReturn, WritesAndGo, WriteDies

LEMMA FailReplyType ==
  ASSUME ConnInv, ProcessInv, program' = program, NEW p \in Processes, serves[p] \in Clients,
         FailReply(p)
  PROVE  ConnInv' /\ ProcessInv'
<1>1. "request" \in InSession
  BY DEF InSession
<1>2. CASE WriteAndGo(p, <<"ERR">>, "request")
  BY <1>1, <1>2, Words, WriteType
<1>3. CASE Die(p)
  BY <1>3, DieType
<1>4. CASE Return(p, Session(p))
  <2>1. Session(p) \in Connections
    BY DEF Session, ConnInv
  <2> QED
    BY <1>4, <2>1, ReturnType
<1> QED
  BY <1>2, <1>3, <1>4 DEF FailReply, WriteAndGo

(* Each task keeps these types, and the upload servers those of the files.     *)
LEMMA TaskType ==
  ASSUME ConnInv, ProcessInv, program' = program, NEW p \in Processes, serves[p] \in Clients,
         \/ RedirectServer(p) \/ SumServer(p) \/ SumOnceServer(p) \/ EncodeServer(p)
         \/ GetServer(p) \/ OldGetServer(p)
  PROVE  ConnInv' /\ ProcessInv'
<1>1. {"request", "second", "ok", "err", "reply", "chunks", "fail"} \subseteq InSession
  BY DEF InSession
<1>2. Session(p) \in Connections
  BY DEF Session, ConnInv
<1>3. ASSUME Return(p, Session(p)) PROVE ConnInv' /\ ProcessInv'
  BY <1>2, <1>3, ReturnType
<1>4. ASSUME NEW x, Reads(p, x), Return(p, ReadByServer(Session(p))) PROVE ConnInv' /\ ProcessInv'
  <2>1. ReadByServer(Session(p)) \in Connections
    BY <1>2, <1>4, ReadType DEF Reads
  <2> QED
    BY <1>4, <2>1, ReturnType
<1>5. ASSUME NEW next \in InSession, UNCHANGED conn, ProcessGoes(p, next) PROVE ConnInv' /\ ProcessInv'
  <2>1. ConnInv'
    BY <1>5 DEF ConnInv
  <2> QED
    BY <1>5, <2>1, GoesType
<1>6. CASE RedirectServer(p)
  <2>1. Answer(p[1]) \in Answers
    BY DEF Answer, Answers
  <2>2. <<Answer(p[1])>> \in Seq(Answers)
    BY <2>1
  <2> HIDE DEF Answers
  <2>3. CASE RedirectReply(p)
    <3>1. CASE WriteAndReturn(p, <<Answer(p[1])>>)
      BY <1>1, <2>2, <3>1, WriteType
    <3>2. CASE WriteDies(p)
      BY <1>1, <2>2, <3>2, WriteType
    <3> QED
      BY <2>3, <3>1, <3>2 DEF RedirectReply
  <2> QED
    BY <1>1, <1>3, <1>6, <2>3, TookType DEF RedirectServer, RedirectRequest
<1>7. CASE SumServer(p)
  BY <1>1, <1>3, <1>7, Words, TookType, WriteType DEF SumServer
<1>8. CASE SumOnceServer(p)
  <2>1. ASSUME Len(Session(p).up) = 1, Return(p, ReadByServer(Session(p))) PROVE ConnInv' /\ ProcessInv'
    <3>1. Session(p).up \in Seq(Sends)
      BY <1>2 DEF Connections, Sends
    <3>2. Session(p).up # <<>>
      BY <2>1, Deserted
    <3>3. ReadByServer(Session(p)) \in Connections
      BY <1>2, <3>2, ReadType
    <3> QED
      BY <2>1, <3>3, ReturnType
  <2>2. ASSUME SetSession(p, [Session(p) EXCEPT !.up = <<>>]), ProcessGoes(p, "reply")
        PROVE  ConnInv' /\ ProcessInv'
    <3>1. <<>> \in Seq(Sends)
      OBVIOUS
    <3>2. [Session(p) EXCEPT !.up = <<>>] \in Connections
      BY <1>2, <3>1 DEF Connections, Sends
    <3> QED
      BY <1>1, <2>2, <3>2, SetSessionType, GoesType
  <2> QED
    BY <1>1, <1>3, <1>8, <2>1, <2>2, Words, WriteType DEF SumOnceServer
<1>9. CASE EncodeServer(p)
  BY <1>1, <1>5, <1>9, Words, TookType, WriteType, FailReplyType DEF EncodeServer
<1>10. CASE GetServer(p)
  BY <1>1, <1>4, <1>5, <1>10, Words, TookType, WriteType, FailReplyType DEF GetServer
<1>11. CASE OldGetServer(p)
  BY <1>1, <1>3, <1>4, <1>11, Words, TookType, WriteType, DieType DEF OldGetServer
<1> QED
  BY <1>6, <1>7, <1>8, <1>9, <1>10, <1>11

\* The files.
FileInv ==
  /\ store \in [Ports \cup {0} -> Seq(Clients \X Chunks)]
  /\ made \subseteq Ports /\ received \subseteq Clients
  /\ saved \in [Clients -> Seq(Clients \X Chunks)]

LEMMA DirectoryType ==
  ASSUME ConnInv, NEW c \in Clients
  PROVE  Directory(c) \in Ports \cup {0} /\ (Dirs => Directory(c) \in Ports)
<1>1. conn[c] \in Connections
  BY DEF ConnInv
<1> QED
  BY <1>1 DEF Directory, Connections

LEMMA PutType ==
  ASSUME ConnInv, ProcessInv, FileInv, program' = program,
         NEW p \in Processes, serves[p] \in Clients, PutServer(p)
  PROVE  ConnInv' /\ ProcessInv' /\ FileInv'
<1>1. {"request", "second", "ok", "err", "reply", "chunks", "fail"} \subseteq InSession
  BY DEF InSession
<1>2. Session(p) \in Connections
  BY DEF Session, ConnInv
<1>3. Directory(serves[p]) \in Ports \cup {0} /\ (Dirs => Directory(serves[p]) \in Ports)
  BY DirectoryType
<1>4. UNCHANGED fileVars => FileInv'
  BY DEF FileInv, fileVars
<1>5. ASSUME NEW next \in InSession, UNCHANGED conn, ProcessGoes(p, next) PROVE ConnInv' /\ ProcessInv'
  <2>1. ConnInv'
    BY <1>5 DEF ConnInv
  <2> QED
    BY <1>5, <2>1, GoesType
<1>6. CASE MakeDirectory(p)
  <2>1. ConnInv' /\ ProcessInv'
    BY <1>1, <1>5, <1>6, DieType DEF MakeDirectory
  <2>2. Dirs
    BY <1>6 DEF MakeDirectory, ProcessInv
  <2>3. FileInv'
    BY <1>3, <1>6, <2>2 DEF MakeDirectory, FileInv
  <2> QED
    BY <2>1, <2>3
<1>7. CASE PutRequest(p)
  BY <1>1, <1>4, <1>5, <1>7, TookType DEF PutRequest
<1>8. CASE PutReply(p)
  <2>1. ConnInv' /\ ProcessInv'
    BY <1>1, <1>8, Words, WriteType DEF PutReply
  <2>2. <<>> \in Seq(Clients \X Chunks)
    OBVIOUS
  <2>3. FileInv'
    BY <1>3, <1>4, <1>8, <2>2 DEF PutReply, FileInv
  <2> QED
    BY <2>1, <2>3
<1>9. ASSUME NEW x \in Chunks, PutChunk(p, x) PROVE ConnInv' /\ ProcessInv' /\ FileInv'
  <2> DEFINE f == store[Directory(serves[p])]
  <2>1. ConnInv' /\ ProcessInv'
    BY <1>1, <1>9, TookType DEF PutChunk
  <2>2. f \in Seq(Clients \X Chunks) /\ <<serves[p], x>> \in Clients \X Chunks
    BY <1>3 DEF FileInv
  <2>3. Append(f, <<serves[p], x>>) \in Seq(Clients \X Chunks)
    BY <2>2, Joined
  <2>4. FileInv'
    BY <1>3, <1>9, <2>3 DEF PutChunk, FileInv
  <2> QED
    BY <2>1, <2>4
<1>10. CASE PutEnds(p)
  <2>1. ConnInv' /\ ProcessInv'
    BY <1>2, <1>10, ReturnType DEF PutEnds
  <2>2. FileInv'
    BY <1>3, <1>10 DEF PutEnds, FileInv
  <2> QED
    BY <2>1, <2>2
<1>11. CASE ReadnDies(p) /\ UNCHANGED fileVars
  BY <1>4, <1>11, DieType DEF ReadnDies
<1> QED
  BY <1>6, <1>7, <1>8, <1>9, <1>10, <1>11 DEF PutServer

LEMMA ProcessType ==
  ASSUME TypeInv, NEW p \in Processes, Process(p)
  PROVE  ConnInv' /\ ProcessInv' /\ FileInv'
<1>1. ConnInv /\ ProcessInv /\ FileInv /\ program' = program
  BY TypeParts DEF TypeInv, TypeOK, FileInv, Process
<1>2. UNCHANGED fileVars => FileInv'
  BY <1>1 DEF FileInv, fileVars
<1>3. CASE Accept(p)
  BY <1>1, <1>2, <1>3, AcceptType DEF Accept
<1>4. CASE ~Accept(p)
  <2>1. pc[p] \notin {"idle", "dead"}
    BY <1>4 DEF Process, PutServer, MakeDirectory, PutRequest, PutReply, PutEnds, PutChunk, RedirectServer,
       RedirectRequest, RedirectReply, SumServer, SumOnceServer, EncodeServer, FailReply, GetServer,
       OldGetServer
  <2>2. serves[p] \in Clients
    BY <2>1, SessionType
  <2> QED
    BY <1>1, <1>2, <1>4, <2>2, PutType, TaskType DEF Process
<1> QED
  BY <1>3, <1>4

\* Where the clients are.
Places   == {"new", "prompt", "send", "second", "wait", "chunks", "blind", "over"}
Outcomes == {"none", "sent", "blind", "ok", "nothing", "failed", "killed"}

ClientInv ==
  /\ ConnInv
  /\ cpc \in [Clients -> Places] /\ outcome \in [Clients -> Outcomes]
  /\ queue \in [Addresses -> Seq(Clients)]

(* What each part of a client's step keeps.                                    *)
LEMMA SetConnType ==
  ASSUME ConnInv, NEW c \in Clients, NEW k \in Connections, SetConn(c, k)
  PROVE  ConnInv'
BY DEF ConnInv, SetConn

LEMMA WriteConnType ==
  ASSUME ConnInv, NEW c \in Clients, NEW xs \in Seq(Sends), Write(c, xs)
  PROVE  ConnInv'
<1>1. WrittenByClient(conn[c], xs) \in Connections
  BY WrittenByClientType DEF ConnInv
<1> QED
  BY <1>1, SetConnType DEF Write

LEMMA EndType ==
  ASSUME ClientInv, NEW c \in Clients, NEW result \in Outcomes,
         End(c, result) \/ (conn[c].down # <<>> /\ EndReading(c, result)), UNCHANGED queue
  PROVE  ClientInv' /\ cpc'[c] = "over" /\ \A d \in Clients \ {c} : cpc'[d] = cpc[d]
<1>1. conn[c] \in Connections
  BY DEF ClientInv, ConnInv
<1>2. ClosedByClient(conn[c]) \in Connections
  BY <1>1, ClosedType
<1>3. conn[c].down # <<>> => ClosedByClient(ReadByClient(conn[c])) \in Connections
  BY <1>1, ReadType, ClosedType
<1>4. ConnInv'
  BY <1>2, <1>3, SetConnType DEF ClientInv, End, EndReading
<1> QED
  BY <1>4 DEF ClientInv, End, EndReading, ClientGoes, Places, Outcomes

LEMMA ReadConnType ==
  ASSUME ConnInv, NEW c \in Clients, conn[c].down # <<>>, SetConn(c, ReadByClient(conn[c]))
  PROVE  ConnInv'
<1>1. ReadByClient(conn[c]) \in Connections
  BY ReadType DEF ConnInv
<1> QED
  BY <1>1, SetConnType

LEMMA GoesOn ==
  ASSUME ClientInv, ConnInv', NEW c \in Clients, NEW next \in Places, ClientGoes(c, next),
         UNCHANGED <<outcome, queue>>
  PROVE  ClientInv' /\ \A d \in Clients \ {c} : cpc'[d] = cpc[d]
BY DEF ClientInv, ClientGoes

LEMMA ConnectType ==
  ASSUME ClientInv, NEW c \in Clients, NEW a, NEW n \in Ports, NEW next \in Places, Connect(c, a, n, next)
  PROVE  ClientInv' /\ \A d \in Clients \ {c} : cpc'[d] = cpc[d]
<1>1. CASE Listening(a)
  <2>1. a \in Addresses
    BY <1>1 DEF Listening, Processes
  <2>2. Opened(a, n) \in Connections
    BY <2>1, OpenedType
  <2>3. ConnInv'
    BY <1>1, <2>2, SetConnType DEF Connect, ClientInv
  <2>4. Append(queue[a], c) \in Seq(Clients)
    BY <2>1, Joined DEF ClientInv
  <2>5. queue' \in [Addresses -> Seq(Clients)]
    BY <1>1, <2>1, <2>4 DEF Connect, ClientInv
  <2> QED
    BY <1>1, <2>3, <2>5 DEF Connect, ClientInv, ClientGoes
<1>2. CASE ~Listening(a)
  <2>1. "failed" \in Outcomes
    BY DEF Outcomes
  <2> QED
    BY <1>2, <2>1, EndType DEF Connect
<1> QED
  BY <1>1, <1>2

(* Each client keeps them, and its own counts.                                 *)
CountsInv ==
  /\ sent \in [Clients -> 0..Len(FileData)] /\ hops \in [Clients -> 0..5]
  /\ found \in [Clients -> Addresses \cup {0}]
  /\ \A c \in Clients : hops[c] = 5 => cpc[c] = "over"

LEMMA PutClientType ==
  ASSUME ClientInv, CountsInv, NEW c \in Clients, PutClient(c), UNCHANGED <<hops, found, queue>>
  PROVE  ClientInv' /\ CountsInv'
<1>1. /\ {"new", "prompt", "send", "second", "wait", "chunks", "blind", "over"} \subseteq Places
      /\ {"none", "sent", "blind", "ok", "nothing", "failed", "killed"} \subseteq Outcomes
  BY DEF Places, Outcomes
<1>2. ConnInv
  BY DEF ClientInv
<1>3. ASSUME sent' = sent, ClientInv', \A d \in Clients \ {c} : cpc'[d] = cpc[d],
             hops[c] = 5 => cpc'[c] = "over"
      PROVE  ClientInv' /\ CountsInv'
  BY <1>3 DEF CountsInv
<1>h. cpc[c] # "over" => hops[c] # 5
  BY DEF CountsInv
<1>4. ASSUME cpc[c] \in {"send", "wait"}, NEW next \in Places, ClientGoes(c, next), ConnInv',
             UNCHANGED <<sent, outcome>>
      PROVE  ClientInv' /\ CountsInv'
  BY <1>3, <1>4, <1>h, GoesOn
<1>5. ASSUME NEW result \in Outcomes, End(c, result), UNCHANGED sent PROVE ClientInv' /\ CountsInv'
  BY <1>3, <1>5, EndType
<1>6. CASE cpc[c] = "send" /\ Write(c, <<"PUT">>) /\ ClientGoes(c, "wait") /\ UNCHANGED <<sent, outcome>>
  <2>1. ConnInv'
    BY <1>2, <1>6, Words, WriteConnType
  <2> QED
    BY <1>1, <1>4, <1>6, <2>1
<1>7. CASE /\ cpc[c] = "wait" /\ Arrived(c, "OK") /\ SetConn(c, ReadByClient(conn[c]))
           /\ ClientGoes(c, "chunks") /\ UNCHANGED <<sent, outcome>>
  <2>1. ConnInv'
    BY <1>2, <1>7, ReadConnType DEF Arrived
  <2> QED
    BY <1>1, <1>4, <1>7, <2>1
<1>8. CASE cpc[c] = "wait" /\ ClientGoes(c, "blind") /\ UNCHANGED <<conn, sent, outcome>>
  <2>1. ConnInv'
    BY <1>2, <1>8 DEF ConnInv
  <2> QED
    BY <1>1, <1>4, <1>8, <2>1
<1>9. CASE /\ cpc[c] \in {"chunks", "blind"} /\ sent[c] < Len(FileData)
           /\ Write(c, <<FileData[sent[c] + 1]>>) /\ sent' = [sent EXCEPT ![c] = @ + 1]
           /\ UNCHANGED <<cpc, outcome>>
  <2>1. Len(FileData) \in Nat /\ sent[c] + 1 \in 1..Len(FileData)
    BY <1>9, DataAssumption DEF CountsInv
  <2>2. FileData[sent[c] + 1] \in Chunks
    BY <2>1, DataAssumption DEF Chunks, ToSet
  <2>3. ConnInv'
    BY <1>2, <1>9, <2>2, Words, WriteConnType
  <2>4. ClientInv'
    BY <1>9, <2>3 DEF ClientInv
  <2>5. sent' \in [Clients -> 0..Len(FileData)]
    BY <1>9, <2>1 DEF CountsInv
  <2> QED
    BY <1>9, <2>4, <2>5 DEF CountsInv
<1>10. CASE cpc[c] = "chunks" /\ End(c, "sent") /\ UNCHANGED sent
  BY <1>1, <1>5, <1>10
<1>11. CASE cpc[c] = "blind" /\ End(c, "blind") /\ UNCHANGED sent
  BY <1>1, <1>5, <1>11
<1>12. CASE Fail(c) /\ UNCHANGED sent
  BY <1>1, <1>5, <1>12 DEF Fail
<1> QED
  BY <1>6, <1>7, <1>8, <1>9, <1>10, <1>11, <1>12 DEF PutClient

(* The counts of the others are not touched.                                   *)
LEMMA CountsKept ==
  ASSUME CountsInv, NEW c \in Clients, \A d \in Clients \ {c} : cpc'[d] = cpc[d],
         UNCHANGED <<sent, hops, found>>, cpc[c] # "over" \/ cpc'[c] = "over"
  PROVE  CountsInv'
BY DEF CountsInv

LEMMA RedirectClientType ==
  ASSUME ClientInv, CountsInv, NEW c \in Clients, RedirectClient(c), UNCHANGED sent
  PROVE  ClientInv' /\ CountsInv'
<1>1. /\ {"new", "prompt", "send", "second", "wait", "chunks", "blind", "over"} \subseteq Places
      /\ {"none", "sent", "blind", "ok", "nothing", "failed", "killed"} \subseteq Outcomes
  BY DEF Places, Outcomes
<1>2. conn[c] \in Connections /\ conn[c].at \in Addresses /\ conn[c].port \in Ports
  BY DEF ClientInv, ConnInv, Connections
<1>3. ConnInv
  BY DEF ClientInv
<1>4. CASE cpc[c] = "send" /\ Write(c, <<"GET">>) /\ ClientGoes(c, "wait") /\ UNCHANGED <<hops, outcome, found, queue>>
  <2>1. ConnInv'
    BY <1>3, <1>4, Words, WriteConnType
  <2> QED
    BY <1>1, <1>4, <2>1, GoesOn, CountsKept
<1>5. CASE /\ cpc[c] = "wait" /\ Arrived(c, "OK") /\ EndReading(c, "ok")
           /\ found' = [found EXCEPT ![c] = conn[c].at] /\ UNCHANGED <<hops, queue>>
  <2>1. ClientInv' /\ cpc'[c] = "over" /\ \A d \in Clients \ {c} : cpc'[d] = cpc[d]
    BY <1>1, <1>5, EndType DEF Arrived
  <2>2. found' \in [Clients -> Addresses \cup {0}]
    BY <1>2, <1>5 DEF CountsInv
  <2> QED
    BY <1>5, <2>1, <2>2 DEF CountsInv
<1>6. CASE /\ cpc[c] = "wait" /\ Arrived(c, "RED") /\ Redirected(c)
           /\ hops' = [hops EXCEPT ![c] = @ + 1] /\ UNCHANGED found
  <2>1. hops[c] \in 0..4
    BY <1>6 DEF CountsInv
  <2>2. hops' \in [Clients -> 0..5] /\ hops'[c] = hops[c] + 1 /\ \A d \in Clients \ {c} : hops'[d] = hops[d]
    BY <1>6, <2>1 DEF CountsInv
  <2>3. CASE hops[c] < MAX_REDIRECTIONS
    <3> DEFINE a == layout.next[conn[c].at]
    <3>1. Connect(c, a, conn[c].port, "send")
      BY <1>6, <2>3 DEF Redirected
    <3> HIDE DEF a
    <3>2. ClientInv' /\ \A d \in Clients \ {c} : cpc'[d] = cpc[d]
      BY <1>1, <1>2, <3>1, ConnectType
    <3> QED
      BY <1>6, <2>1, <2>2, <2>3, <3>2 DEF CountsInv, MAX_REDIRECTIONS
  <2>4. CASE ~(hops[c] < MAX_REDIRECTIONS)
    <3>1. ClientInv' /\ cpc'[c] = "over" /\ \A d \in Clients \ {c} : cpc'[d] = cpc[d]
      BY <1>1, <1>6, <2>4, EndType DEF Redirected, Arrived
    <3> QED
      BY <1>6, <2>2, <3>1 DEF CountsInv
  <2> QED
    BY <2>3, <2>4
<1>7. CASE /\ cpc[c] = "wait" /\ Arrived(c, "ERR") /\ EndReading(c, "nothing")
           /\ UNCHANGED <<hops, found, queue>>
  BY <1>1, <1>7, EndType, CountsKept DEF Arrived
<1>8. CASE cpc[c] = "wait" /\ End(c, "nothing") /\ UNCHANGED <<hops, found, queue>>
  BY <1>1, <1>8, EndType, CountsKept
<1>9. CASE Fail(c) /\ UNCHANGED <<hops, found, queue>>
  BY <1>1, <1>9, EndType, CountsKept DEF Fail
<1> QED
  BY <1>4, <1>5, <1>6, <1>7, <1>8, <1>9 DEF RedirectClient

LEMMA XdrClientType ==
  ASSUME ClientInv, CountsInv, NEW c \in Clients, UNCHANGED <<sent, hops, found, queue>>,
         SumClient(c) \/ EncodeClient(c) \/ GetClient(c) \/ OldGetClient(c) \/ SumUser(c) \/ GetUser(c)
  PROVE  ClientInv' /\ CountsInv'
<1>1. /\ {"new", "prompt", "send", "second", "wait", "chunks", "blind", "over"} \subseteq Places
      /\ {"none", "sent", "blind", "ok", "nothing", "failed", "killed"} \subseteq Outcomes
  BY DEF Places, Outcomes
<1>2. ConnInv
  BY DEF ClientInv
<1>3. ASSUME cpc[c] # "over", NEW xs \in Seq(Sends), Write(c, xs), NEW next \in Places,
             ClientGoes(c, next), UNCHANGED outcome
      PROVE  ClientInv' /\ CountsInv'
  <2>1. ConnInv'
    BY <1>2, <1>3, WriteConnType
  <2> QED
    BY <1>3, <2>1, GoesOn, CountsKept
<1>4. ASSUME NEW result \in Outcomes, End(c, result) \/ (conn[c].down # <<>> /\ EndReading(c, result))
      PROVE  ClientInv' /\ CountsInv'
  BY <1>4, EndType, CountsKept
<1>5. ASSUME cpc[c] # "over", SetConn(c, ReadByClient(conn[c])), conn[c].down # <<>>,
             ClientGoes(c, "prompt"), UNCHANGED outcome
      PROVE  ClientInv' /\ CountsInv'
  <2>1. ConnInv'
    BY <1>2, <1>5, ReadConnType
  <2> QED
    BY <1>1, <1>5, <2>1, GoesOn, CountsKept
<1>6. ASSUME cpc[c] # "over", NEW next \in Places, ClientGoes(c, next), UNCHANGED <<conn, outcome>>
      PROVE  ClientInv' /\ CountsInv'
  <2>1. ConnInv'
    BY <1>2, <1>6 DEF ConnInv
  <2> QED
    BY <1>6, <2>1, GoesOn, CountsKept
<1>7. CASE SumClient(c)
  BY <1>1, <1>3, <1>4, <1>7, Words DEF SumClient, Arrived
<1>8. CASE EncodeClient(c)
  BY <1>1, <1>3, <1>4, <1>8, Words DEF EncodeClient, Arrived, Fail
<1>9. CASE GetClient(c)
  BY <1>1, <1>4, <1>5, <1>9 DEF GetClient
<1>10. CASE OldGetClient(c)
  BY <1>1, <1>4, <1>5, <1>6, <1>10 DEF OldGetClient, Arrived
<1>11. CASE SumUser(c)
  BY <1>1, <1>6, <1>11 DEF SumUser
<1>12. CASE GetUser(c)
  <2>1. CASE /\ SetConn(c, ClosedByClient(WrittenByClient(conn[c], <<"QUIT">>)))
             /\ ClientGoes(c, "over") /\ outcome' = [outcome EXCEPT ![c] = "ok"]
    <3>1. WrittenByClient(conn[c], <<"QUIT">>) \in Connections
      BY <1>2, Words, WrittenByClientType DEF ConnInv
    <3>2. ClosedByClient(WrittenByClient(conn[c], <<"QUIT">>)) \in Connections
      BY <3>1, ClosedType
    <3>3. ConnInv'
      BY <1>2, <2>1, <3>2, SetConnType
    <3>4. ClientInv' /\ cpc'[c] = "over" /\ \A d \in Clients \ {c} : cpc'[d] = cpc[d]
      BY <1>1, <2>1, <3>3 DEF ClientInv, ClientGoes
    <3> QED
      BY <3>4, CountsKept
  <2>2. CASE \E x \in {"GET", "absent"} : Write(c, <<x>>) /\ ClientGoes(c, "wait") /\ UNCHANGED outcome
    BY <1>1, <1>3, <1>12, <2>2, Words DEF GetUser
  <2> QED
    BY <1>1, <1>4, <1>12, <2>1, <2>2 DEF GetUser, Fail
<1> QED
  BY <1>7, <1>8, <1>9, <1>10, <1>11, <1>12

LEMMA StartType ==
  ASSUME ClientInv, CountsInv, NEW c \in Clients, Start(c)
  PROVE  ClientInv' /\ CountsInv'
<1>1. {"prompt", "send"} \subseteq Places
  BY DEF Places
<1>2. PICK n \in Ports : Connect(c, 1, n, IF Interactive THEN "prompt" ELSE "send")
  BY DEF Start
<1>3. ClientInv' /\ \A d \in Clients \ {c} : cpc'[d] = cpc[d]
  BY <1>1, <1>2, ConnectType
<1> QED
  BY <1>3, CountsKept DEF Start

LEMMA TypeInitial == Init => TypeInv
<1> SUFFICES ASSUME Init PROVE TypeInv
  OBVIOUS
<1>1. 1 \in Addresses /\ 1 \in Ports
  BY LayoutAssumption, NumberAssumption
<1>2. ClosedByServer(ClosedByClient(Opened(1, 1))) \in Connections
  BY <1>1, OpenedType, ClosedType
<1>3. ConnInv
  BY <1>2 DEF Init, ConnInv
<1>4. <<>> \in Seq(Clients) /\ <<>> \in Seq(Clients \X Chunks) /\ Len(FileData) \in Nat
  BY DataAssumption
<1>5. ProcessInv
  BY <1>4, ProgramAssumption DEF Init, ProcessInv
<1>6. FileInv
  BY <1>4 DEF Init, FileInv
<1>7. program \in Programs /\ layout \in Layouts
  BY DEF Init
<1>8. ClientInv /\ CountsInv
  <2>1. cpc \in [Clients -> Places] /\ outcome \in [Clients -> Outcomes] /\ \A c \in Clients : cpc[c] = "new"
    BY DEF Init, Places, Outcomes
  <2>2. sent \in [Clients -> 0..Len(FileData)] /\ hops \in [Clients -> 0..5] /\ \A c \in Clients : hops[c] = 0
    BY <1>4 DEF Init
  <2>3. found \in [Clients -> Addresses \cup {0}]
    BY DEF Init
  <2> QED
    BY <1>3, <1>5, <2>1, <2>2, <2>3 DEF ClientInv, CountsInv, ProcessInv
<1> QED
  BY <1>3, <1>5, <1>6, <1>7, <1>8
     DEF TypeInv, TypeOK, ConnInv, ProcessInv, FileInv, ClientInv, CountsInv, Places, Outcomes

LEMMA TypeStep == TypeInv /\ [Next]_vars => TypeInv'
<1> SUFFICES ASSUME TypeInv, [Next]_vars PROVE TypeInv'
  OBVIOUS
<1>1. ConnInv /\ ProcessInv /\ FileInv /\ ClientInv /\ CountsInv /\ program \in Programs /\ layout \in Layouts
  BY DEF TypeInv, TypeOK, ConnInv, ProcessInv, FileInv, ClientInv, CountsInv, Places, Outcomes
<1>2. ASSUME ProcessInv', FileInv', ClientInv', CountsInv', UNCHANGED <<program, layout>> PROVE TypeInv'
  BY <1>1, <1>2 DEF TypeInv, TypeOK, ConnInv, ProcessInv, FileInv, ClientInv, CountsInv, Places, Outcomes
<1>3. ASSUME NEW p \in Processes, Process(p) PROVE TypeInv'
  <2>1. ConnInv' /\ ProcessInv' /\ FileInv'
    BY <1>3, ProcessType
  <2>2. ClientInv' /\ CountsInv' /\ UNCHANGED <<program, layout>>
    BY <1>1, <1>3, <2>1 DEF Process, clientVars, ClientInv, CountsInv, ProcessInv
  <2> QED
    BY <1>2, <2>1, <2>2
<1>4. ASSUME ClientInv', CountsInv', UNCHANGED <<program, layout, pc, serves, fileVars>> PROVE TypeInv'
  <2>1. ProcessInv' /\ FileInv'
    BY <1>1, <1>4 DEF ProcessInv, FileInv, ClientInv, fileVars, Dirs
  <2> QED
    BY <1>2, <1>4, <2>1
<1>5. ASSUME NEW c \in Clients, Client(c) PROVE TypeInv'
  BY <1>1, <1>4, <1>5, PutClientType, RedirectClientType, XdrClientType DEF Client
<1>6. ASSUME NEW c \in Clients, User(c) PROVE TypeInv'
  BY <1>1, <1>4, <1>6, StartType, XdrClientType DEF User
<1>7. ASSUME NEW c \in Clients, ClientKilled(c) PROVE TypeInv'
  <2>1. "killed" \in Outcomes
    BY DEF Outcomes
  <2>2. ClientInv' /\ CountsInv'
    BY <1>1, <1>7, <2>1, EndType, CountsKept DEF ClientKilled, processVars
  <2> QED
    BY <1>4, <1>7, <2>2 DEF ClientKilled, processVars, fileVars
<1>8. CASE UNCHANGED vars
  BY <1>8 DEF vars, clientVars, processVars, fileVars, TypeInv, TypeOK, Dirs
<1> QED
  BY <1>3, <1>5, <1>6, <1>7, <1>8 DEF Next

LEMMA TypeInvariant == Spec => []TypeInv
BY TypeInitial, TypeStep, PTL DEF Spec

(* Every variable keeps its type: connections stay well-formed, whatever is    *)
(* written, read and closed in which order, and a process has a client just    *)
(* when it is in a session.                                                    *)
THEOREM ExamTypeCorrect == Spec => []TypeOK
<1>1. TypeInv => TypeOK
  BY DEF TypeInv
<1> QED
  BY <1>1, TypeInvariant, PTL

-------------------------------------------------------------------------------
(* Where a connection is.                                                      *)

(* What the operations do to the parts of a connection.                        *)
LEMMA ClosedFields ==
  ASSUME NEW k \in Connections
  PROVE  LET s == ClosedByServer(k)  c == ClosedByClient(k) IN
         /\ s.at = k.at /\ s.port = k.port /\ s.client = k.client /\ s.server = FALSE
         /\ s.up = k.up /\ s.down = k.down /\ s.reset = (k.reset \/ k.up # <<>>)
         /\ c.at = k.at /\ c.port = k.port /\ c.client = FALSE /\ c.server = k.server
         /\ c.up = k.up /\ c.down = k.down /\ c.reset = (k.reset \/ k.down # <<>>)
BY DEF Connections, ClosedByServer, ClosedByClient

LEMMA WrittenFields ==
  ASSUME NEW k \in Connections, NEW xs
  PROVE  LET s == WrittenByServer(k, xs)  c == WrittenByClient(k, xs) IN
         /\ s.at = k.at /\ s.port = k.port /\ s.client = k.client /\ s.server = k.server
         /\ s.up = k.up /\ s.down = (IF k.client THEN k.down \o xs ELSE k.down)
         /\ s.reset = (k.reset \/ ~k.client)
         /\ c.at = k.at /\ c.port = k.port /\ c.client = k.client /\ c.server = k.server
         /\ c.up = (IF k.server THEN k.up \o xs ELSE k.up) /\ c.down = k.down
         /\ c.reset = (k.reset \/ ~k.server)
BY DEF Connections, WrittenByServer, WrittenByClient

LEMMA ReadFields ==
  ASSUME NEW k \in Connections
  PROVE  LET s == ReadByServer(k)  c == ReadByClient(k) IN
         /\ s.at = k.at /\ s.port = k.port /\ s.client = k.client /\ s.server = k.server
         /\ s.up = Tail(k.up) /\ s.down = k.down /\ s.reset = k.reset
         /\ c.at = k.at /\ c.port = k.port /\ c.client = k.client /\ c.server = k.server
         /\ c.up = k.up /\ c.down = Tail(k.down) /\ c.reset = k.reset
BY DEF Connections, ReadByServer, ReadByClient

LEMMA OpenedFields ==
  ASSUME NEW a, NEW n
  PROVE  LET k == Opened(a, n) IN
         /\ k.at = a /\ k.port = n /\ k.client /\ k.server /\ ~k.reset
         /\ k.up = <<>> /\ k.down = <<>>
BY DEF Opened

LEMMA DroppedFields ==
  ASSUME NEW k \in Connections
  PROVE  LET d == [k EXCEPT !.server = FALSE, !.reset = TRUE] IN
         /\ d.at = k.at /\ d.port = k.port /\ d.client = k.client /\ ~d.server /\ d.reset
         /\ d.up = k.up /\ d.down = k.down
BY DEF Connections

\* The programs whose properties are proved.
Followed == program \in {"upload", "upload dirs", "redirect"}

Queued(c) == \E a \in Addresses : c \in Elements(queue[a])

\* A connection that its server has not closed is in the queue of its address, or a
\* process of that address serves it, and it is in one place only.
PlaceInv ==
  /\ \A a \in Addresses : Distinct(queue[a])
  /\ \A a \in Addresses : \A c \in Elements(queue[a]) : conn[c].at = a /\ ~Served(c)
  /\ \A p \in Processes : serves[p] # NoClient => conn[serves[p]].at = p[1]
  /\ \A p, q \in Processes : serves[p] # NoClient /\ serves[p] = serves[q] => p = q
  /\ \A c \in Clients : conn[c].server <=> (Queued(c) \/ Served(c))
  /\ \A c \in Clients : cpc[c] = "new" => ~conn[c].server

\* A redirecting server answers once and closes.
AnswerInv == program = "redirect" => \A c \in Clients : conn[c].down # <<>> => ~conn[c].server

(* The steps, by what they do to these places.                                 *)
SameClient(c) ==
  /\ conn'[c].at = conn[c].at /\ conn'[c].port = conn[c].port
  /\ cpc'[c] = "new" => cpc[c] = "new"

Stays ==
  /\ UNCHANGED <<serves, queue>>
  /\ \A c \in Clients : SameClient(c) /\ conn'[c].server = conn[c].server

Leaves(p) ==
  /\ serves[p] \in Clients /\ UNCHANGED queue /\ serves' = [serves EXCEPT ![p] = NoClient]
  /\ \A c \in Clients : /\ SameClient(c)
                       /\ conn'[c].server = (conn[c].server /\ c # serves[p])

Perishes(p) ==
  /\ serves[p] \in Clients /\ queue' = [queue EXCEPT ![p[1]] = <<>>]
  /\ serves' = [serves EXCEPT ![p] = NoClient]
  /\ \A c \in Clients :
       /\ SameClient(c)
       /\ conn'[c].server = (conn[c].server /\ c # serves[p] /\ c \notin Elements(queue[p[1]]))

Connects(c, a) ==
  /\ cpc[c] = "new" \/ (program = "redirect" /\ conn[c].down # <<>>)
  /\ cpc'[c] # "new" /\ conn'[c].at = a /\ conn'[c].server
  /\ queue' = [queue EXCEPT ![a] = Append(@, c)] /\ UNCHANGED serves
  /\ \A d \in Clients \ {c} : SameClient(d) /\ conn'[d].server = conn[d].server

(* The death of a process.                                                     *)
LEMMA Deaths ==
  ASSUME TypeInv, NEW p \in Processes, serves[p] \in Clients, Die(p), UNCHANGED cpc
  PROVE  Leaves(p) \/ Perishes(p)
<1> DEFINE a == p[1]
           last == ~Dirs /\ \A q \in Processes : q # p /\ q[1] = a => pc[q] = "dead"
<1>1. a \in Addresses /\ queue[a] \in Seq(Clients) /\ queue \in [Addresses -> Seq(Clients)]
  BY DEF Processes, TypeInv, TypeOK
<1>2. \A c : Contains(queue[a], c) <=> c \in Elements(queue[a])
  BY <1>1 DEF Contains, Elements
<1>3. serves' = [serves EXCEPT ![p] = NoClient]
  BY DEF Die
<1>4. ASSUME NEW c \in Clients
      PROVE  /\ SameClient(c)
             /\ conn'[c].server = (conn[c].server /\ c # serves[p]
                                      /\ ~(last /\ c \in Elements(queue[a])))
  <2>1. conn[c] \in Connections
    BY DEF TypeInv, TypeOK
  <2>2. conn'[c] = IF c = serves[p] THEN ClosedByServer(conn[c])
                   ELSE IF last /\ Contains(queue[a], c)
                     THEN [conn[c] EXCEPT !.server = FALSE, !.reset = TRUE]
                   ELSE conn[c]
    BY DEF Die
  <2> HIDE DEF last, a
  <2>3. CASE c = serves[p]
    BY <2>1, <2>2, <2>3, ClosedFields DEF SameClient
  <2>4. CASE c # serves[p] /\ last /\ Contains(queue[a], c)
    <3> DEFINE d == [conn[c] EXCEPT !.server = FALSE, !.reset = TRUE]
    <3>1. d.at = conn[c].at /\ d.port = conn[c].port /\ ~d.server
      BY <2>1, DroppedFields
    <3>2. conn'[c] = d
      BY <2>2, <2>4
    <3>3. d.server = FALSE
      BY <2>1 DEF Connections
    <3> HIDE DEF d
    <3> QED
      BY <1>2, <2>4, <3>1, <3>2, <3>3 DEF SameClient
  <2>5. CASE c # serves[p] /\ ~(last /\ Contains(queue[a], c))
    <3>1. conn[c].server \in BOOLEAN
      BY <2>1 DEF Connections
    <3> QED
      BY <1>2, <2>2, <2>5, <3>1 DEF SameClient
  <2> QED
    BY <2>3, <2>4, <2>5
<1>5. queue' = [queue EXCEPT ![a] = IF last THEN <<>> ELSE @]
  BY DEF Die
<1>6. CASE last
  <2>1. queue' = [queue EXCEPT ![a] = <<>>]
    BY <1>5, <1>6
  <2> QED
    BY <1>3, <1>4, <1>6, <2>1 DEF Perishes
<1>7. CASE ~last
  <2>1. queue' = queue
    BY <1>1, <1>5, <1>7
  <2>2. \A c \in Clients : conn[c].server \in BOOLEAN
    BY DEF TypeInv, TypeOK, Connections
  <2> HIDE DEF last
  <2> QED
    BY <1>3, <1>4, <1>7, <2>1, <2>2 DEF Leaves
<1> QED
  BY <1>6, <1>7

(* A process of these servers either goes on with its client, leaves him or    *)
(* dies.                                                                       *)
LEMMA ProcessPlaces ==
  ASSUME TypeInv, Followed, NEW p \in Processes, Process(p)
  PROVE  Stays \/ Accept(p) \/ Leaves(p) \/ Perishes(p)
<1>1. UNCHANGED cpc /\ conn \in [Clients -> Connections]
  BY DEF Process, clientVars, TypeInv, TypeOK
<1> SUFFICES ASSUME ~Accept(p) PROVE Stays \/ Leaves(p) \/ Perishes(p)
  OBVIOUS
<1>2. PutServer(p) \/ RedirectServer(p)
  BY DEF Process, Followed
<1>3. serves[p] \in Clients /\ Session(p) = conn[serves[p]] /\ Session(p) \in Connections
  <2>1. pc[p] \notin {"idle", "dead"}
    BY <1>2 DEF PutServer, MakeDirectory, PutRequest, PutReply, PutEnds, PutChunk, RedirectServer,
       RedirectRequest, RedirectReply
  <2> QED
    BY <2>1, SessionType DEF Session
<1>4. ASSUME NEW k, k.at = Session(p).at, k.port = Session(p).port, k.server = Session(p).server,
             SetSession(p, k), UNCHANGED <<serves, queue>>
      PROVE  Stays
  BY <1>1, <1>3, <1>4 DEF SetSession, Stays, SameClient
<1>5. ASSUME NEW k \in Connections, k.at = Session(p).at, k.port = Session(p).port, Return(p, k)
      PROVE  Leaves(p)
  <2> DEFINE d == ClosedByServer(k)
  <2>1. d.at = k.at /\ d.port = k.port /\ d.server = FALSE
    BY <1>5, ClosedFields
  <2>2. conn' = [conn EXCEPT ![serves[p]] = d] /\ UNCHANGED queue /\ serves' = [serves EXCEPT ![p] = NoClient]
    BY <1>5 DEF Return, SetSession
  <2>3. \A c \in Clients : conn[c].server \in BOOLEAN
    BY <1>1 DEF Connections
  <2> HIDE DEF d
  <2> QED
    BY <1>1, <1>3, <1>5, <2>1, <2>2, <2>3 DEF Leaves, SameClient
<1>6. ASSUME NEW next, UNCHANGED conn, ProcessGoes(p, next) PROVE Stays
  BY <1>1, <1>6 DEF ProcessGoes, Stays, SameClient
<1>7. ASSUME NEW x, Reads(p, x), NEW next, Took(p, next) PROVE Stays
  <2> DEFINE k == ReadByServer(Session(p))
  <2>1. k.at = Session(p).at /\ k.port = Session(p).port /\ k.server = Session(p).server
    BY <1>3, ReadFields
  <2>2. SetSession(p, k) /\ UNCHANGED <<serves, queue>>
    BY <1>7 DEF Took, ProcessGoes
  <2> HIDE DEF k
  <2> QED
    BY <1>4, <2>1, <2>2
<1>8. ASSUME NEW xs \in Seq(Answers), NEW next, WriteAndGo(p, xs, next) PROVE Stays
  <2> DEFINE k == Wrote(p, xs)
  <2>1. k.at = Session(p).at /\ k.port = Session(p).port /\ k.server = Session(p).server
    BY <1>3, WrittenFields DEF Wrote
  <2>2. SetSession(p, k) /\ UNCHANGED <<serves, queue>>
    BY <1>8 DEF WriteAndGo, ProcessGoes
  <2> HIDE DEF k
  <2> QED
    BY <1>4, <2>1, <2>2
<1>9. ASSUME NEW xs \in Seq(Answers), WriteAndReturn(p, xs) PROVE Leaves(p)
  <2> DEFINE k == Wrote(p, xs)
  <2>1. k \in Connections /\ k.at = Session(p).at /\ k.port = Session(p).port
    BY <1>3, WrittenFields, WrittenByServerType DEF Wrote
  <2>2. Return(p, k)
    BY <1>9 DEF WriteAndReturn
  <2> HIDE DEF k
  <2> QED
    BY <1>5, <2>1, <2>2
<1>10. ASSUME Return(p, Session(p)) PROVE Leaves(p)
  BY <1>3, <1>5, <1>10
<1>11. ASSUME Die(p) PROVE Leaves(p) \/ Perishes(p)
  BY <1>1, <1>3, <1>11, Deaths
<1>12. CASE PutServer(p)
  <2>1. CASE MakeDirectory(p)
    BY <1>6, <1>11, <2>1 DEF MakeDirectory
  <2>2. CASE PutRequest(p)
    BY <1>6, <1>7, <2>2 DEF PutRequest
  <2>3. CASE PutReply(p)
    BY <1>8, <1>9, <2>3, Words DEF PutReply
  <2>4. CASE \E x \in Chunks : PutChunk(p, x)
    BY <1>7, <2>4 DEF PutChunk
  <2>5. CASE PutEnds(p)
    BY <1>10, <2>5 DEF PutEnds
  <2>6. CASE ReadnDies(p)
    BY <1>11, <2>6 DEF ReadnDies
  <2> QED
    BY <1>12, <2>1, <2>2, <2>3, <2>4, <2>5, <2>6 DEF PutServer
<1>13. CASE RedirectServer(p)
  <2>1. <<Answer(p[1])>> \in Seq(Answers)
    BY DEF Answer, Answers
  <2> QED
    BY <1>7, <1>9, <1>10, <1>11, <1>13, <2>1 DEF RedirectServer, RedirectRequest, RedirectReply, WriteDies
<1> QED
  BY <1>2, <1>12, <1>13

LEMMA ClientPlaces ==
  ASSUME TypeInv, Followed, NEW c \in Clients, Client(c) \/ User(c) \/ ClientKilled(c)
  PROVE  Stays \/ \E a \in Addresses : Connects(c, a)
<1>1. conn \in [Clients -> Connections] /\ conn[c] \in Connections /\ cpc \in [Clients -> Places]
  BY DEF TypeInv, TypeOK, Places
<1>2. UNCHANGED serves
  BY DEF Client, User, ClientKilled, processVars
<1>3. ASSUME NEW k, k.at = conn[c].at, k.port = conn[c].port, k.server = conn[c].server, SetConn(c, k),
             UNCHANGED queue, cpc' = cpc \/ \E next \in Places \ {"new"} : ClientGoes(c, next)
      PROVE  Stays
  BY <1>1, <1>2, <1>3 DEF SetConn, Stays, SameClient, ClientGoes
<1>4. ASSUME NEW result, End(c, result), UNCHANGED queue PROVE Stays
  <2> DEFINE k == ClosedByClient(conn[c])
  <2>1. k.at = conn[c].at /\ k.port = conn[c].port /\ k.server = conn[c].server
    BY <1>1, ClosedFields
  <2>2. SetConn(c, k) /\ ClientGoes(c, "over") /\ "over" \in Places \ {"new"}
    BY <1>4 DEF End, Places
  <2> HIDE DEF k
  <2> QED
    BY <1>3, <1>4, <2>1, <2>2
<1>5. ASSUME NEW result, EndReading(c, result), conn[c].down # <<>>, UNCHANGED queue PROVE Stays
  <2> DEFINE r == ReadByClient(conn[c])
             k == ClosedByClient(r)
  <2>1. r \in Connections /\ r.at = conn[c].at /\ r.port = conn[c].port /\ r.server = conn[c].server
    BY <1>1, <1>5, ReadFields, ReadType
  <2>2. SetConn(c, k) /\ ClientGoes(c, "over") /\ "over" \in Places \ {"new"}
    BY <1>5 DEF EndReading, Places
  <2> HIDE DEF r
  <2>3. k.at = conn[c].at /\ k.port = conn[c].port /\ k.server = conn[c].server
    BY <2>1, ClosedFields
  <2> HIDE DEF k
  <2> QED
    BY <1>3, <1>5, <2>2, <2>3
<1>6. ASSUME NEW xs, Write(c, xs), UNCHANGED queue,
             cpc' = cpc \/ \E next \in Places \ {"new"} : ClientGoes(c, next)
      PROVE  Stays
  <2> DEFINE k == WrittenByClient(conn[c], xs)
  <2>1. k.at = conn[c].at /\ k.port = conn[c].port /\ k.server = conn[c].server
    BY <1>1, WrittenFields
  <2>2. SetConn(c, k)
    BY <1>6 DEF Write
  <2> HIDE DEF k
  <2> QED
    BY <1>3, <1>6, <2>1, <2>2
<1>7. ASSUME NEW a, NEW n, NEW next \in Places \ {"new"}, Connect(c, a, n, next),
             cpc[c] = "new" \/ (program = "redirect" /\ conn[c].down # <<>>)
      PROVE  Stays \/ \E b \in Addresses : Connects(c, b)
  <2>1. CASE Listening(a)
    <3> DEFINE k == Opened(a, n)
    <3>1. a \in Addresses
      BY <2>1 DEF Listening, Processes
    <3>2. k.at = a /\ k.server
      BY OpenedFields
    <3>3. /\ conn' = [conn EXCEPT ![c] = k] /\ cpc' = [cpc EXCEPT ![c] = next]
          /\ queue' = [queue EXCEPT ![a] = Append(@, c)]
      BY <1>7, <2>1 DEF Connect, SetConn, ClientGoes
    <3> HIDE DEF k
    <3>4. Connects(c, a)
      BY <1>1, <1>2, <1>7, <3>2, <3>3 DEF Connects, SameClient
    <3> QED
      BY <3>1, <3>4
  <2>2. CASE ~Listening(a)
    BY <1>4, <1>7, <2>2 DEF Connect
  <2> QED
    BY <2>1, <2>2
<1>8. {"prompt", "send", "second", "wait", "chunks", "blind", "over"} \subseteq Places \ {"new"}
  BY DEF Places
<1>9. CASE ClientKilled(c)
  BY <1>4, <1>9 DEF ClientKilled, processVars
<1>10. CASE User(c)
  <2>1. Start(c)
    BY <1>10 DEF User, Followed
  <2> QED
    BY <1>7, <1>8, <2>1 DEF Start
<1>11. CASE PutClient(c) /\ UNCHANGED queue
  <2>1. CASE Arrived(c, "OK") /\ SetConn(c, ReadByClient(conn[c])) /\ ClientGoes(c, "chunks")
    <3> DEFINE k == ReadByClient(conn[c])
    <3>1. k.at = conn[c].at /\ k.port = conn[c].port /\ k.server = conn[c].server
      BY <1>1, ReadFields
    <3>2. SetConn(c, k)
      BY <2>1
    <3> HIDE DEF k
    <3> QED
      BY <1>3, <1>8, <1>11, <2>1, <3>1, <3>2
  <2>2. CASE ClientGoes(c, "blind") /\ UNCHANGED conn
    BY <1>1, <1>2, <1>11, <2>2 DEF Stays, SameClient, ClientGoes
  <2> QED
    BY <1>4, <1>6, <1>8, <1>11, <2>1, <2>2 DEF PutClient, Fail
<1>12. CASE program = "redirect" /\ RedirectClient(c)
  <2>1. CASE Arrived(c, "RED") /\ Redirected(c)
    BY <1>5, <1>7, <1>8, <1>12, <2>1 DEF Redirected, Arrived
  <2> QED
    BY <1>4, <1>5, <1>6, <1>8, <1>12, <2>1 DEF RedirectClient, Arrived, Fail
<1> QED
  BY <1>9, <1>10, <1>11, <1>12 DEF Client, Followed

(* The answer of a redirecting server is its last word.                        *)
LEMMA AnswerInitial == Init => AnswerInv
<1>1. 1 \in Addresses /\ 1 \in Ports
  BY LayoutAssumption, NumberAssumption
<1> DEFINE k == ClosedByClient(Opened(1, 1))
<1>2. k \in Connections
  BY <1>1, OpenedType, ClosedType
<1> HIDE DEF k
<1>3. ~ClosedByServer(k).server
  BY <1>2, ClosedFields
<1> QED
  BY <1>3 DEF Init, AnswerInv, k

LEMMA AnswerStep ==
  ASSUME TypeInv, AnswerInv, [Next]_vars
  PROVE  AnswerInv'
<1> DEFINE Fine(k) == k.down # <<>> => ~k.server
<1> SUFFICES ASSUME program = "redirect", program' = program, NEW d \in Clients, Fine(conn[d])
             PROVE  Fine(conn'[d])
  BY DEF AnswerInv, Next, Process, Client, User, ClientKilled, vars
<1>1. conn \in [Clients -> Connections]
  BY DEF TypeInv, TypeOK
<1>2. ASSUME NEW k \in Connections PROVE Fine(ClosedByServer(k)) /\ (Fine(k) => Fine(ClosedByClient(k)))
  BY ClosedFields
<1>3. ASSUME NEW k \in Connections, Fine(k)
      PROVE  Fine(ReadByServer(k)) /\ (k.down # <<>> => Fine(ReadByClient(k)))
             /\ \A xs : Fine(WrittenByClient(k, xs))
  BY <1>3, ReadFields, WrittenFields
<1>4. ASSUME NEW k \in Connections PROVE Fine([k EXCEPT !.server = FALSE, !.reset = TRUE])
  BY DroppedFields
<1>5. ASSUME NEW a, NEW n PROVE Fine(Opened(a, n))
  BY OpenedFields
<1> HIDE DEF Fine
<1>6. ASSUME NEW c \in Clients, NEW k, SetConn(c, k), c = d => Fine(k) PROVE Fine(conn'[d])
  BY <1>1, <1>6 DEF SetConn
<1>7. ASSUME NEW p \in Processes, Process(p) PROVE Fine(conn'[d])
  <2>1. CASE Accept(p)
    BY <2>1 DEF Accept
  <2>2. CASE RedirectServer(p)
    <3>1. serves[p] \in Clients /\ Session(p) = conn[serves[p]] /\ Session(p) \in Connections
      <4>1. pc[p] \notin {"idle", "dead"}
        BY <2>2 DEF RedirectServer, RedirectRequest, RedirectReply
      <4> QED
        BY <4>1, SessionType DEF Session
    <3>2. ASSUME NEW k, SetSession(p, k), serves[p] = d => Fine(k) PROVE Fine(conn'[d])
      BY <1>1, <3>1, <3>2 DEF SetSession
    <3>3. ASSUME NEW k \in Connections, Return(p, k) PROVE Fine(conn'[d])
      BY <1>2, <3>2, <3>3 DEF Return
    <3>4. CASE Took(p, "reply")
      BY <1>3, <3>1, <3>2, <3>4 DEF Took
    <3>5. CASE WriteAndReturn(p, <<Answer(p[1])>>)
      <4>1. <<Answer(p[1])>> \in Seq(Answers)
        BY DEF Answer, Answers
      <4>2. Wrote(p, <<Answer(p[1])>>) \in Connections
        BY <3>1, <4>1, WrittenByServerType DEF Wrote
      <4> QED
        BY <3>3, <3>5, <4>2 DEF WriteAndReturn
    <3>6. CASE Die(p)
      BY <1>1, <1>2, <1>4, <3>6 DEF Die
    <3> QED
      BY <2>2, <3>1, <3>3, <3>4, <3>5, <3>6
         DEF RedirectServer, RedirectRequest, RedirectReply, WriteDies
  <2> QED
    BY <1>7, <2>1, <2>2 DEF Process
<1>8. ASSUME NEW c \in Clients, Client(c) \/ User(c) \/ ClientKilled(c) PROVE Fine(conn'[d])
  <2>1. conn[c] \in Connections
    BY <1>1
  <2>2. ASSUME NEW result, End(c, result) PROVE Fine(conn'[d])
    BY <1>2, <1>6, <2>1, <2>2 DEF End
  <2>3. ASSUME NEW result, EndReading(c, result), conn[c].down # <<>> PROVE Fine(conn'[d])
    <3>1. ReadByClient(conn[c]) \in Connections
      BY <2>1, <2>3, ReadType
    <3>2. c = d => Fine(ClosedByClient(ReadByClient(conn[c])))
      BY <1>2, <1>3, <2>1, <2>3, <3>1
    <3> QED
      BY <1>6, <2>3, <3>2 DEF EndReading
  <2>4. ASSUME NEW a, NEW n, NEW next, Connect(c, a, n, next) PROVE Fine(conn'[d])
    BY <1>5, <1>6, <2>2, <2>4 DEF Connect
  <2>5. ASSUME NEW xs, Write(c, xs) PROVE Fine(conn'[d])
    BY <1>3, <1>6, <2>1, <2>5 DEF Write
  <2>6. CASE RedirectClient(c)
    BY <2>2, <2>3, <2>4, <2>5, <2>6 DEF RedirectClient, Redirected, Fail, Arrived
  <2> QED
    BY <1>8, <2>2, <2>4, <2>6 DEF Client, User, ClientKilled, Start
<1>9. CASE UNCHANGED vars
  BY <1>9 DEF vars
<1> QED
  BY <1>7, <1>8, <1>9 DEF Next

(* Each kind of step keeps everybody in one place.                             *)
LEMMA QueueTypes ==
  ASSUME TypeInv
  PROVE  /\ queue \in [Addresses -> Seq(Clients)] /\ serves \in [Processes -> Clients \cup {NoClient}]
         /\ \A a \in Addresses : Elements(queue[a]) \subseteq Clients
         /\ \A p \in Processes : p[1] \in Addresses
         /\ \A c \in Clients : conn[c].server \in BOOLEAN
         /\ NoClient \notin Clients
BY ProgramAssumption DEF TypeInv, TypeOK, Elements, Processes, Connections

LEMMA PlacesStay ==
  ASSUME TypeInv, PlaceInv, Stays
  PROVE  PlaceInv'
<1>1. UNCHANGED <<serves, queue>> /\ \A c \in Clients : SameClient(c) /\ conn'[c].server = conn[c].server
  BY DEF Stays
<1>2. \A c \in Clients : (Served(c)' <=> Served(c)) /\ (Queued(c)' <=> Queued(c))
  BY <1>1 DEF Served, Queued
<1> QED
  BY SMTT(30), <1>1, <1>2, QueueTypes DEF PlaceInv, SameClient

LEMMA PlacesAccept ==
  ASSUME TypeInv, PlaceInv, NEW p \in Processes, Accept(p), UNCHANGED cpc
  PROVE  PlaceInv'
<1> DEFINE a == p[1]
           q == queue[a]
           h == Head(q)
<1>1. a \in Addresses /\ q \in Seq(Clients) /\ q # <<>> /\ serves[p] = NoClient
  BY QueueTypes DEF Accept, TypeInv, TypeOK
<1>2. /\ h \in Clients /\ h \in Elements(q) /\ Elements(q) = Elements(Tail(q)) \cup {h}
      /\ Distinct(Tail(q)) /\ h \notin Elements(Tail(q))
  BY <1>1, Departed DEF PlaceInv
<1>3. /\ serves' = [serves EXCEPT ![p] = h] /\ queue' = [queue EXCEPT ![a] = Tail(q)]
      /\ UNCHANGED <<conn, cpc>>
  BY DEF Accept
<1>4. conn[h].at = a /\ ~Served(h)
  BY <1>1, <1>2 DEF PlaceInv
<1>5. \A b \in Addresses \ {a} : h \notin Elements(queue[b])
  BY <1>1, <1>4 DEF PlaceInv
<1> HIDE DEF a, q, h
<1>6. \A c \in Clients : Served(c)' <=> Served(c) \/ c = h
  BY <1>1, <1>2, <1>3, QueueTypes DEF Served
<1>7. \A b \in Addresses : queue'[b] = IF b = a THEN Tail(q) ELSE queue[b]
  BY <1>1, <1>3, QueueTypes
<1>8. \A b \in Addresses : Elements(queue'[b]) = Elements(queue[b]) \ {h}
  BY <1>1, <1>2, <1>5, <1>7 DEF q
<1>9. \A c \in Clients : Queued(c)' <=> Queued(c) /\ c # h
  BY <1>8 DEF Queued
<1>10. Queued(h)
  BY <1>1, <1>2 DEF Queued, q
<1>11. \A b \in Addresses : Distinct(queue'[b])
  BY <1>2, <1>7 DEF PlaceInv
<1>12. \A b \in Addresses : \A c \in Elements(queue[b]) : conn[c].at = b /\ ~Served(c) /\ c \in Clients
  BY QueueTypes DEF PlaceInv
<1>13. \A b \in Addresses : \A c \in Elements(queue'[b]) : conn'[c].at = b /\ ~Served(c)'
  BY <1>3, <1>6, <1>8, <1>12
<1>14. \A r \in Processes : serves'[r] = IF r = p THEN h ELSE serves[r]
  BY <1>3, QueueTypes
<1>15. \A r \in Processes : serves'[r] # NoClient => conn'[serves'[r]].at = r[1]
  BY <1>3, <1>4, <1>14 DEF PlaceInv, a
<1>16. \A r, s \in Processes : serves'[r] # NoClient /\ serves'[r] = serves'[s] => r = s
  BY <1>4, <1>14 DEF PlaceInv, Served
<1>17. \A c \in Clients : conn'[c].server <=> (Queued(c) \/ Served(c))'
  BY <1>3, <1>6, <1>9, <1>10 DEF PlaceInv
<1> QED
  BY <1>3, <1>11, <1>13, <1>15, <1>16, <1>17 DEF PlaceInv

LEMMA PlacesLeave ==
  ASSUME TypeInv, PlaceInv, NEW p \in Processes, Leaves(p) \/ Perishes(p)
  PROVE  PlaceInv'
<1> DEFINE a == p[1]
           Gone == IF Leaves(p) THEN {} ELSE Elements(queue[a])
<1>1. a \in Addresses /\ serves[p] \in Clients /\ serves' = [serves EXCEPT ![p] = NoClient]
  BY QueueTypes DEF Leaves, Perishes
<1>2. \A c \in Clients : SameClient(c) /\ (conn'[c].server <=> conn[c].server /\ c # serves[p] /\ c \notin Gone)
  BY DEF Leaves, Perishes
<1>3. \A b \in Addresses :
        /\ Elements(queue'[b]) = Elements(queue[b]) \ Gone
        /\ Distinct(queue[b]) => Distinct(queue'[b])
  <2>1. CASE Leaves(p)
    BY <2>1 DEF Leaves
  <2>2. CASE ~Leaves(p)
    <3>1. queue' = [queue EXCEPT ![a] = <<>>]
      BY <2>2 DEF Perishes
    <3>2. \A b \in Addresses : queue'[b] = IF b = a THEN <<>> ELSE queue[b]
      BY <1>1, <3>1, QueueTypes
    <3>3. Elements(<<>>) = {} /\ Distinct(<<>>)
      BY Deserted
    <3>4. \A b \in Addresses \ {a} : Elements(queue[b]) \cap Elements(queue[a]) = {}
      BY <1>1 DEF PlaceInv
    <3> HIDE DEF a
    <3> QED
      BY <2>2, <3>2, <3>3, <3>4
  <2> QED
    BY <2>1, <2>2
<1>g. Gone \subseteq Elements(queue[a])
  OBVIOUS
<1>4. \A c \in Clients : (Queued(c)' <=> Queued(c) /\ c \notin Gone) /\ (c \in Gone => ~Served(c))
  BY <1>1, <1>3, <1>g DEF Queued, PlaceInv
<1> HIDE DEF Gone
<1>5. \A r \in Processes : serves'[r] = IF r = p THEN NoClient ELSE serves[r]
  BY <1>1, QueueTypes
<1>6. \A c \in Clients : Served(c)' <=> Served(c) /\ c # serves[p]
  BY <1>1, <1>5, QueueTypes DEF Served, PlaceInv
<1>7. ~Queued(serves[p])
  BY <1>1 DEF PlaceInv, Queued, Served
<1>8. \A c \in Clients : conn'[c].server <=> (Queued(c) \/ Served(c))'
  BY <1>2, <1>4, <1>6, <1>7 DEF PlaceInv
<1>9. \A b \in Addresses : \A c \in Elements(queue'[b]) : conn'[c].at = b /\ ~Served(c)'
  <2> SUFFICES ASSUME NEW b \in Addresses, NEW c \in Elements(queue'[b]) PROVE conn'[c].at = b /\ ~Served(c)'
    OBVIOUS
  <2>1. c \in Elements(queue[b]) /\ c \in Clients
    BY <1>3, QueueTypes
  <2> QED
    BY <1>2, <1>6, <2>1 DEF PlaceInv, SameClient
<1>10. \A r \in Processes : serves'[r] # NoClient => conn'[serves'[r]].at = r[1]
  BY <1>2, <1>5, QueueTypes DEF PlaceInv, SameClient
<1>11. \A r, s \in Processes : serves'[r] # NoClient /\ serves'[r] = serves'[s] => r = s
  BY <1>5 DEF PlaceInv
<1>12. \A c \in Clients : cpc'[c] = "new" => ~conn'[c].server
  BY <1>2 DEF PlaceInv, SameClient
<1> QED
  BY <1>3, <1>8, <1>9, <1>10, <1>11, <1>12 DEF PlaceInv

LEMMA PlacesConnect ==
  ASSUME TypeInv, AnswerInv, PlaceInv, NEW c \in Clients, NEW a \in Addresses, Connects(c, a)
  PROVE  PlaceInv'
<1>1. ~conn[c].server
  BY DEF Connects, AnswerInv, PlaceInv
<1>2. ~Queued(c) /\ ~Served(c)
  BY <1>1 DEF PlaceInv
<1>3. /\ queue[a] \in Seq(Clients) /\ UNCHANGED serves
      /\ queue' = [queue EXCEPT ![a] = Append(queue[a], c)]
  BY QueueTypes DEF Connects
<1>4. /\ Elements(Append(queue[a], c)) = Elements(queue[a]) \cup {c}
      /\ Distinct(Append(queue[a], c))
  BY <1>2, <1>3, Joined DEF PlaceInv, Queued
<1>5. \A b \in Addresses : queue'[b] = IF b = a THEN Append(queue[a], c) ELSE queue[b]
  BY <1>3, QueueTypes
<1>6. \A b \in Addresses : Elements(queue'[b]) = Elements(queue[b]) \cup (IF b = a THEN {c} ELSE {})
  BY <1>4, <1>5
<1>7. \A d \in Clients : Served(d)' <=> Served(d)
  BY <1>3 DEF Served
<1>8. \A d \in Clients : Queued(d)' <=> Queued(d) \/ d = c
  BY <1>6 DEF Queued
<1>9. /\ conn'[c].at = a /\ conn'[c].server /\ cpc'[c] # "new"
      /\ \A d \in Clients \ {c} : SameClient(d) /\ conn'[d].server = conn[d].server
  BY DEF Connects
<1>10. \A b \in Addresses : Distinct(queue'[b])
  BY <1>4, <1>5 DEF PlaceInv
<1>11. ASSUME NEW b \in Addresses, NEW d \in Elements(queue'[b]) PROVE conn'[d].at = b /\ ~Served(d)'
  <2>1. CASE d = c
    <3>1. b = a
      BY <1>2, <1>6, <1>11, <2>1 DEF Queued
    <3> QED
      BY <1>2, <1>7, <1>9, <2>1, <3>1
  <2>2. CASE d # c
    <3>1. d \in Elements(queue[b]) /\ d \in Clients
      BY <1>6, <1>11, <2>2, QueueTypes
    <3> QED
      BY <1>7, <1>9, <2>2, <3>1 DEF PlaceInv, SameClient
  <2> QED
    BY <2>1, <2>2
<1>12. \A r \in Processes : serves'[r] # NoClient => serves[r] \in Clients /\ serves[r] # c
  BY <1>2, <1>3, QueueTypes DEF Served
<1>13. \A r \in Processes : serves'[r] # NoClient => conn'[serves'[r]].at = r[1]
  BY <1>3, <1>9, <1>12 DEF PlaceInv, SameClient
<1>14. \A r, s \in Processes : serves'[r] # NoClient /\ serves'[r] = serves'[s] => r = s
  BY <1>3 DEF PlaceInv
<1>15. \A d \in Clients : conn'[d].server <=> (Queued(d) \/ Served(d))'
  BY <1>7, <1>8, <1>9 DEF PlaceInv
<1>16. \A d \in Clients : cpc'[d] = "new" => ~conn'[d].server
  BY <1>9 DEF PlaceInv, SameClient
<1> QED
  BY <1>10, <1>11, <1>13, <1>14, <1>15, <1>16 DEF PlaceInv

LEMMA PlacesInitial == Init => PlaceInv
<1>1. 1 \in Addresses /\ 1 \in Ports
  BY LayoutAssumption, NumberAssumption
<1> DEFINE k == ClosedByClient(Opened(1, 1))
<1>2. k \in Connections
  BY <1>1, OpenedType, ClosedType
<1> HIDE DEF k
<1>3. ~ClosedByServer(k).server
  BY <1>2, ClosedFields
<1>4. Elements(<<>>) = {} /\ Distinct(<<>>)
  BY Deserted
<1> SUFFICES ASSUME Init PROVE PlaceInv
  OBVIOUS
<1>5. \A c \in Clients : ~conn[c].server
  BY <1>3 DEF Init, k
<1>6. /\ \A a \in Addresses : queue[a] = <<>>
      /\ \A p \in Processes : serves[p] = NoClient
  BY DEF Init
<1> QED
  BY <1>4, <1>5, <1>6, ProgramAssumption DEF PlaceInv, Queued, Served

LEMMA PlacesStep ==
  ASSUME TypeInv, Followed, AnswerInv, PlaceInv, [Next]_vars
  PROVE  PlaceInv'
<1>1. ASSUME NEW p \in Processes, Process(p) PROVE PlaceInv'
  <2>1. UNCHANGED cpc
    BY <1>1 DEF Process, clientVars
  <2> QED
    BY <1>1, <2>1, ProcessPlaces, PlacesStay, PlacesAccept, PlacesLeave
<1>2. ASSUME NEW c \in Clients, Client(c) \/ User(c) \/ ClientKilled(c) PROVE PlaceInv'
  BY <1>2, ClientPlaces, PlacesStay, PlacesConnect
<1>3. CASE UNCHANGED vars
  <2>1. Stays
    BY <1>3 DEF vars, clientVars, processVars, Stays, SameClient
  <2> QED
    BY <2>1, PlacesStay
<1> QED
  BY <1>1, <1>2, <1>3 DEF Next

LEMMA PlacesInvariant == Spec => [](TypeInv /\ (Followed => AnswerInv /\ PlaceInv))
<1>1. TypeInv /\ (Followed => AnswerInv /\ PlaceInv) /\ [Next]_vars => (Followed => AnswerInv /\ PlaceInv)'
  <2> SUFFICES ASSUME TypeInv, Followed => AnswerInv /\ PlaceInv, [Next]_vars, Followed'
               PROVE  AnswerInv' /\ PlaceInv'
    OBVIOUS
  <2>1. program' = program
    BY DEF Next, Process, Client, User, ClientKilled, vars
  <2>2. Followed
    BY <2>1 DEF Followed
  <2> QED
    BY <2>2, AnswerStep, PlacesStep
<1> QED
  BY <1>1, AnswerInitial, PlacesInitial, TypeInvariant, PTL DEF Spec

-------------------------------------------------------------------------------
(* The uploads: what has been written and read of each client's file.          *)
Uploads == program \in {"upload", "upload dirs"}

\* Nothing of client c has been read yet ...
Untouched(c) ==
  /\ conn[c].down = <<>> /\ sent[c] = 0 /\ conn[c].up \in {<<>>, <<"PUT">>}
  /\ conn[c].client => /\ ~conn[c].reset
                       /\ cpc[c] = IF conn[c].up = <<>> THEN "send" ELSE "wait"
  /\ ~conn[c].client => outcome[c] = "killed"

\* ... his PUT has been ...
Asked(c) ==
  /\ conn[c].down = <<>> /\ sent[c] = 0 /\ conn[c].up = <<>>
  /\ conn[c].client => ~conn[c].reset /\ cpc[c] = "wait"
  /\ ~conn[c].client => outcome[c] = "killed"

\* ... or the first chunks of his file, which are in file f; the next are in the stream.
Sending(c, f) ==
  /\ Len(f) + Len(conn[c].up) = sent[c]
  /\ \A i \in 1..Len(f) : f[i] = <<c, FileData[i]>>
  /\ \A i \in 1..Len(conn[c].up) : conn[c].up[i] = FileData[Len(f) + i]
  /\ conn[c].client =>
       /\ ~conn[c].reset
       /\ \/ cpc[c] = "wait" /\ sent[c] = 0 /\ conn[c].down = <<"OK">>
          \/ cpc[c] = "chunks" /\ conn[c].down = <<>>
  /\ ~conn[c].client =>
       \/ outcome[c] = "killed"
       \/ outcome[c] = "sent" /\ sent[c] = Len(FileData) /\ ~conn[c].reset

\* The server has closed the connection of c.
Left(c) ==
  /\ conn[c].client => cpc[c] \in {"send", "wait", "blind"} /\ conn[c].down = <<>>
  /\ outcome[c] = "sent" => c \in received

\* A process has its directory, and what it does with its client.
Past == {"request", "ok", "err", "chunks"}

Task(p) ==
  /\ pc[p] \in Past \cup {"idle", "dead", "mkdir"}
  /\ pc[p] \in {"mkdir", "request"} => Untouched(serves[p])
  /\ pc[p] = "ok" => Asked(serves[p])
  /\ pc[p] = "err" => ~conn[serves[p]].client /\ outcome[serves[p]] = "killed"
  /\ pc[p] = "chunks" => Sending(serves[p], store[Directory(serves[p])])

\* What has been reported as received is in the file, and stays there.
Whole(c) ==
  /\ cpc[c] = "over" /\ outcome[c] \in {"killed", "sent"}
  /\ outcome[c] = "sent" => sent[c] = Len(FileData)
  /\ Len(saved[c]) = sent[c] /\ \A i \in 1..sent[c] : saved[c][i] = <<c, FileData[i]>>
  /\ Dirs => conn[c].port \in made /\ store[conn[c].port] = saved[c]

RunInv(c) ==
  /\ conn[c].at = 1
  /\ cpc[c] = "new" => ~conn[c].client /\ sent[c] = 0
  /\ cpc[c] # "new" => (conn[c].client <=> cpc[c] # "over")
  /\ outcome[c] # "none" => cpc[c] = "over"

\* Nobody else writes to the directory of a session.
DirInv ==
  IF Dirs
    THEN \A p \in Processes : pc[p] \in Past =>
           /\ conn[serves[p]].port \in made
           /\ \A q \in Processes :
                pc[q] \in Past /\ conn[serves[q]].port = conn[serves[p]].port => p = q
           /\ \A c \in received : conn[serves[p]].port # conn[c].port
    ELSE \A p \in Processes : pc[p] # "dead" => p[2] = 1

SessionsInv ==
  /\ \A c \in Clients : RunInv(c)
  /\ \A c \in Elements(queue[1]) : Untouched(c)
  /\ \A p \in Processes : Task(p)
  /\ \A c \in Clients : cpc[c] # "new" /\ ~conn[c].server => Left(c)
  /\ \A c \in received : Whole(c)
  /\ DirInv

\* No other program uploads.
UploadInv ==
  IF Uploads THEN SessionsInv ELSE received = {} /\ \A c \in Clients : outcome[c] # "sent"

\* What is known before a step of the upload programs.
UploadState == TypeInv /\ PlaceInv /\ Uploads /\ SessionsInv

(* The values that the proofs about these steps need.                          *)
LEMMA UploadTypes ==
  ASSUME UploadState
  PROVE  /\ conn \in [Clients -> Connections] /\ 1 \in Addresses
         /\ pc \in [Processes -> {"idle", "mkdir", "request", "second", "ok", "err", "reply", "chunks",
                                  "fail", "dead"}]
         /\ serves \in [Processes -> Clients \cup {NoClient}] /\ NoClient \notin Clients
         /\ \A p \in Processes : (serves[p] = NoClient) <=> pc[p] \in {"idle", "dead"}
         /\ \A p \in Processes : pc[p] = "mkdir" => Dirs
         /\ \A c \in Clients : Directory(c) \in Ports \cup {0} /\ conn[c].port \in Ports
         /\ \A c \in Clients : Directory(c) = IF Dirs THEN conn[c].port ELSE 0
         /\ received \subseteq Clients /\ Elements(queue[1]) \subseteq Clients
         /\ \A c \in Elements(queue[1]) : ~Served(c)
         /\ store \in [Ports \cup {0} -> Seq(Clients \X Chunks)]
<1>1. TypeOK /\ \A p \in Processes : pc[p] = "mkdir" => Dirs
  BY DEF UploadState, TypeInv
<1>2. \A c \in Clients : conn[c] \in Connections /\ conn[c].port \in Ports
  BY <1>1 DEF TypeOK, Connections
<1>3. 1 \in Addresses /\ NoClient \notin Clients
  BY LayoutAssumption, ProgramAssumption
<1>4. Elements(queue[1]) \subseteq Clients
  BY <1>1, <1>3 DEF TypeOK, Elements
<1> QED
  BY <1>1, <1>2, <1>3, <1>4 DEF UploadState, PlaceInv, TypeOK, Directory

(* A session has its directory for itself.                                     *)
LEMMA Alone ==
  ASSUME UploadState, NEW p \in Processes, NEW q \in Processes, pc[p] \in Past, pc[q] \in Past,
         Directory(serves[p]) = Directory(serves[q])
  PROVE  p = q
<1>1. serves[p] \in Clients /\ serves[q] \in Clients
  BY UploadTypes DEF Past
<1>2. CASE Dirs
  <2>1. conn[serves[p]].port = conn[serves[q]].port
    BY <1>1, <1>2, UploadTypes
  <2> QED
    BY <1>2, <2>1 DEF UploadState, SessionsInv, DirInv
<1>3. CASE ~Dirs
  <2>1. p[2] = 1 /\ q[2] = 1
    BY <1>3 DEF UploadState, SessionsInv, DirInv, Past
  <2>2. p[1] = 1 /\ q[1] = 1
    BY <1>1, UploadTypes DEF UploadState, SessionsInv, RunInv, PlaceInv
  <2> QED
    BY <2>1, <2>2 DEF Processes
<1> QED
  BY <1>2, <1>3

(* Who is served is neither in the queue nor served by another process.        *)
LEMMA Elsewhere ==
  ASSUME UploadState, NEW p \in Processes, serves[p] \in Clients
  PROVE  /\ serves[p] \notin Elements(queue[1]) /\ conn[serves[p]].server
         /\ cpc[serves[p]] # "new"
         /\ \A q \in Processes \ {p} : serves[q] # serves[p]
BY UploadTypes DEF UploadState, PlaceInv, Served

(* A session is as it was when its client and its file are.                    *)
LEMMA SameTask ==
  ASSUME NEW q, Task(q), pc'[q] = pc[q], serves'[q] = serves[q], conn'[serves[q]] = conn[serves[q]],
         program' = program, cpc'[serves[q]] = cpc[serves[q]], sent'[serves[q]] = sent[serves[q]],
         outcome'[serves[q]] = outcome[serves[q]],
         pc[q] = "chunks" => store'[Directory(serves[q])] = store[Directory(serves[q])]
  PROVE  Task(q)'
<1> DEFINE d == serves[q]
           f == store[Directory(d)]
<1>1. pc'[q] \in {"mkdir", "request"} => Untouched(serves[q])'
  BY DEF Task, Untouched
<1>2. pc'[q] = "ok" => Asked(serves[q])'
  BY DEF Task, Asked
<1>3. pc'[q] = "err" => ~conn'[serves'[q]].client /\ outcome'[serves'[q]] = "killed"
  BY DEF Task
<1>4. pc'[q] = "chunks" => Sending(serves[q], store[Directory(serves[q])])'
  <2>1. Directory(serves[q])' = Directory(serves[q])
    BY DEF Directory, Dirs
  <2> SUFFICES ASSUME pc'[q] = "chunks" PROVE Sending(serves[q], store[Directory(serves[q])])'
    OBVIOUS
  <2>2. Sending(d, f)
    BY DEF Task
  <2>3. f = store[Directory(serves[q])]' /\ d = serves'[q]
    BY <2>1
  <2>4. conn'[d] = conn[d] /\ cpc'[d] = cpc[d] /\ sent'[d] = sent[d] /\ outcome'[d] = outcome[d]
    OBVIOUS
  <2> HIDE DEF d, f
  <2> QED
    BY <2>2, <2>3, <2>4 DEF Sending
<1>5. pc'[q] \in Past \cup {"idle", "dead", "mkdir"}
  BY DEF Task
<1> QED
  BY <1>1, <1>2, <1>3, <1>4, <1>5 DEF Task

(* A step with which a process goes on with its client leaves all others alone.*)
LEMMA SessionGoesOn ==
  ASSUME UploadState, NEW p \in Processes, serves[p] \in Clients, NEW k \in Connections,
         LET j == conn[serves[p]] IN
           k.at = j.at /\ k.port = j.port /\ k.client = j.client /\ k.server = j.server,
         conn' = [conn EXCEPT ![serves[p]] = k], NEW next \in Past, pc' = [pc EXCEPT ![p] = next],
         UNCHANGED <<program, layout, clientVars, serves, queue, received, saved>>,
         \/ pc[p] \in Past /\ made' = made
         \/ /\ pc[p] = "mkdir" /\ conn[serves[p]].port \notin made /\ store' = store
            /\ made' = made \cup {conn[serves[p]].port},
         \A n \in Ports \cup {0} : n # Directory(serves[p]) => store'[n] = store[n],
         Task(p)'
  PROVE  SessionsInv'
<1> DEFINE c == serves[p]
<1>0. UNCHANGED <<cpc, sent, outcome>> /\ SessionsInv
  BY DEF clientVars, UploadState
<1>1. /\ \A d \in Clients \ {c} : conn'[d] = conn[d]
      /\ \A d \in Clients : conn'[d].at = conn[d].at /\ conn'[d].port = conn[d].port
      /\ \A d \in Clients : conn'[d].client = conn[d].client /\ conn'[d].server = conn[d].server
  BY UploadTypes
<1>2. \A d \in Clients : Directory(d)' = Directory(d)
  BY <1>1 DEF Directory, Dirs
<1>3. Dirs' = Dirs
  BY DEF Dirs
<1>4. c \in Clients /\ c \notin Elements(queue[1]) /\ conn[c].server
      /\ \A q \in Processes \ {p} : serves[q] # c
  BY Elsewhere
<1>5. \A q \in Processes : pc'[q] = IF q = p THEN next ELSE pc[q]
  BY UploadTypes
<1> HIDE DEF c
<1>6. ASSUME NEW d \in Clients PROVE RunInv(d)'
  BY <1>0, <1>1 DEF SessionsInv, RunInv
<1>7. ASSUME NEW d \in Elements(queue'[1]) PROVE Untouched(d)'
  <2>1. d \in Clients \ {c} /\ Untouched(d)
    BY <1>0, <1>4, UploadTypes DEF SessionsInv
  <2> QED
    BY <1>0, <1>1, <2>1 DEF Untouched
<1>8. ASSUME NEW q \in Processes PROVE Task(q)'
  <2>1. CASE serves[q] \in Clients /\ q # p
    <3>1. Task(q) /\ serves[q] \in Clients \ {c} /\ pc'[q] = pc[q]
      BY <1>0, <1>4, <1>5, <2>1 DEF SessionsInv
    <3>2. /\ conn'[serves[q]] = conn[serves[q]] /\ UNCHANGED serves
          /\ Directory(serves[q])' = Directory(serves[q])
      BY <1>1, <1>2, <3>1
    <3>3. pc[q] = "chunks" => store'[Directory(serves[q])] = store[Directory(serves[q])]
      <4>1. CASE pc[p] \in Past /\ pc[q] = "chunks"
        <5>1. pc[q] \in Past
          BY <4>1 DEF Past
        <5>2. Directory(serves[q]) # Directory(serves[p]) /\ Directory(serves[q]) \in Ports \cup {0}
          BY <2>1, <4>1, <5>1, Alone, UploadTypes
        <5> QED
          BY <5>2
      <4> QED
        BY <4>1
    <3> QED
      BY <1>0, <3>1, <3>2, <3>3, SameTask
  <2>2. CASE serves[q] \notin Clients
    <3>1. q # p /\ pc[q] \in {"idle", "dead"} /\ pc'[q] = pc[q]
      BY <1>4, <1>5, <2>2, UploadTypes DEF c
    <3> QED
      BY <3>1 DEF Task
  <2> QED
    BY <2>1, <2>2
<1>9. ASSUME NEW d \in Clients, cpc'[d] # "new", ~conn'[d].server PROVE Left(d)'
  <2>1. d # c /\ conn'[d] = conn[d] /\ Left(d)
    BY <1>0, <1>1, <1>4, <1>9 DEF SessionsInv
  <2> QED
    BY <1>0, <2>1 DEF Left
<1>10. ASSUME NEW d \in received' PROVE Whole(d)'
  <2>1. d \in Clients /\ Whole(d) /\ conn'[d].port = conn[d].port /\ conn[d].port \in Ports \cup {0}
    BY <1>0, <1>1, UploadTypes DEF SessionsInv
  <2>2. Dirs => store'[conn[d].port] = store[conn[d].port]
    <3>1. Dirs /\ pc[p] \in Past => conn[d].port # Directory(c)
      BY <1>0, <1>4, UploadTypes DEF SessionsInv, DirInv, c
    <3> QED
      BY <2>1, <3>1 DEF c
  <2> QED
    BY <1>0, <1>3, <2>1, <2>2 DEF Whole
<1>11. DirInv'
  <2>1. CASE Dirs
    <3>1. c \in Clients /\ conn[c].port \in made' /\ pc'[p] \in Past
      <4>1. pc[p] \in Past => conn[c].port \in made
        BY <1>0, <2>1 DEF SessionsInv, DirInv, c
      <4> QED
        BY <1>4, <1>5, <4>1 DEF c
    <3>2. ASSUME NEW q \in Processes, q # p, pc[q] \in Past PROVE conn[serves[q]].port # conn[c].port
      <4>1. conn[serves[q]].port \in made /\ serves[q] \in Clients
        BY <1>0, <2>1, <3>2, UploadTypes DEF SessionsInv, DirInv, Past
      <4> QED
        BY <1>4, <2>1, <3>2, <4>1, Alone, UploadTypes DEF c
    <3>3. ASSUME NEW d \in received PROVE conn[d].port # conn[c].port
      <4>1. conn[d].port \in made
        BY <1>0, <2>1 DEF SessionsInv, Whole
      <4> QED
        BY <1>0, <2>1, <4>1 DEF SessionsInv, DirInv, c
    <3>4. ASSUME NEW q \in Processes, q # p, pc[q] \in Past
          PROVE  /\ conn[serves[q]].port \in made' /\ serves[q] \in Clients
                 /\ \A r \in Processes :
                      pc[r] \in Past /\ conn[serves[r]].port = conn[serves[q]].port => q = r
                 /\ \A d \in received : conn[serves[q]].port # conn[d].port
      BY <1>0, <2>1, <3>4, UploadTypes DEF SessionsInv, DirInv, Past
    <3>5. \A q \in Processes : pc'[q] \in Past => serves[q] \in Clients
      BY <1>4, <1>5, <3>4 DEF c
    <3>6. \A q \in Processes : pc'[q] \in Past => conn'[serves'[q]].port = conn[serves[q]].port
      BY <1>1, <3>5
    <3>7. \A d \in received' : conn'[d].port = conn[d].port /\ d \in received
      BY <1>1, UploadTypes
    <3>8. ASSUME NEW q \in Processes, pc'[q] \in Past
          PROVE  /\ conn[serves[q]].port \in made'
                 /\ \A r \in Processes :
                      pc'[r] \in Past /\ conn[serves[r]].port = conn[serves[q]].port => q = r
                 /\ \A d \in received : conn[serves[q]].port # conn[d].port
      <4>1. CASE q = p
        BY <1>5, <3>1, <3>2, <3>3, <4>1 DEF c
      <4>2. CASE q # p
        BY <1>5, <3>2, <3>4, <3>8, <4>2 DEF c
      <4> QED
        BY <4>1, <4>2
    <3> QED
      BY <1>3, <2>1, <3>6, <3>7, <3>8 DEF DirInv
  <2>2. CASE ~Dirs
    BY <1>0, <1>3, <1>4, <1>5, <2>2, UploadTypes DEF SessionsInv, DirInv, c
  <2> QED
    BY <2>1, <2>2
<1> QED
  BY <1>6, <1>7, <1>8, <1>9, <1>10, <1>11 DEF SessionsInv

(* Nor does one with which it leaves its client, and drops those who wait.     *)
LEMMA SessionEnds ==
  ASSUME UploadState, NEW p \in Processes, NEW c \in Clients, serves[p] = c,
         NEW Gone \in SUBSET Elements(queue[1]),
         NEW next \in {"idle", "dead"}, pc' = [pc EXCEPT ![p] = next],
         serves' = [serves EXCEPT ![p] = NoClient],
         Elements(queue'[1]) = Elements(queue[1]) \ Gone,
         UNCHANGED <<program, layout, clientVars, store, made>>,
         \A d \in Clients : d \notin Gone /\ d # c => conn'[d] = conn[d],
         \A d \in Gone \cup {c} :
           /\ conn'[d].at = conn[d].at /\ conn'[d].port = conn[d].port
           /\ conn'[d].client = conn[d].client /\ conn'[d].down = conn[d].down /\ ~conn'[d].server,
         Left(c)',
         \/ UNCHANGED <<received, saved>>
         \/ /\ pc[p] = "chunks" /\ received' = received \cup {c}
            /\ \A d \in Clients : d # c => saved'[d] = saved[d]
            /\ Whole(c)'
  PROVE  SessionsInv'
<1>0. UNCHANGED <<cpc, sent, outcome>> /\ SessionsInv
  BY DEF clientVars, UploadState
<1>1. \A d \in Clients : /\ conn'[d].at = conn[d].at /\ conn'[d].port = conn[d].port
                         /\ conn'[d].client = conn[d].client
  OBVIOUS
<1>2. Gone \subseteq Clients /\ \A d \in Gone : ~Served(d) /\ Untouched(d)
  BY <1>0, UploadTypes DEF SessionsInv
<1>3. Dirs' = Dirs
  BY DEF Dirs
<1>4. c \in Clients /\ c \notin Elements(queue[1]) /\ cpc[c] # "new"
      /\ \A q \in Processes \ {p} : serves[q] # c
  BY Elsewhere
<1>5. /\ \A q \in Processes : pc'[q] = IF q = p THEN next ELSE pc[q]
      /\ \A q \in Processes : serves'[q] = IF q = p THEN NoClient ELSE serves[q]
  BY UploadTypes
<1>6. ASSUME NEW d \in Clients PROVE RunInv(d)'
  BY <1>0, <1>1 DEF SessionsInv, RunInv
<1>7. ASSUME NEW d \in Elements(queue'[1]) PROVE Untouched(d)'
  <2>1. d \in Clients /\ d \notin Gone /\ d # c /\ Untouched(d)
    BY <1>0, <1>4, UploadTypes DEF SessionsInv
  <2> QED
    BY <1>0, <2>1 DEF Untouched
<1>8. ASSUME NEW q \in Processes PROVE Task(q)'
  <2>1. CASE serves[q] \in Clients /\ q # p
    <3>1. Task(q) /\ serves[q] \in Clients /\ serves[q] # c /\ pc'[q] = pc[q] /\ serves'[q] = serves[q]
      BY <1>0, <1>4, <1>5, <2>1 DEF SessionsInv
    <3>2. serves[q] \notin Gone
      BY <1>2 DEF Served
    <3>3. conn'[serves[q]] = conn[serves[q]]
      BY <3>1, <3>2
    <3> QED
      BY <1>0, <3>1, <3>3, SameTask
  <2>2. CASE serves[q] \notin Clients \/ q = p
    <3>1. pc'[q] \in {"idle", "dead"}
      BY <1>5, <2>2, UploadTypes
    <3> QED
      BY <3>1 DEF Task
  <2> QED
    BY <2>1, <2>2
<1>9. ASSUME NEW d \in Clients, cpc'[d] # "new", ~conn'[d].server PROVE Left(d)'
  <2>1. CASE d \notin Gone /\ d # c
    <3>1. conn'[d] = conn[d] /\ Left(d) /\ received \subseteq received'
      BY <1>0, <1>9, <2>1 DEF SessionsInv
    <3> QED
      BY <1>0, <3>1 DEF Left
  <2>2. CASE d \in Gone
    <3>1. /\ Untouched(d) /\ conn'[d].client = conn[d].client /\ conn'[d].down = conn[d].down
          /\ RunInv(d)
      BY <1>0, <1>2, <2>2 DEF SessionsInv
    <3>2. conn[d].client => cpc[d] \in {"send", "wait"} /\ conn[d].down = <<>>
      BY <3>1 DEF Untouched
    <3>3. outcome[d] # "sent"
      BY <3>1, <3>2 DEF Untouched, RunInv
    <3> QED
      BY <1>0, <3>1, <3>2, <3>3 DEF Left
  <2> QED
    BY <2>1, <2>2
<1>10. ASSUME NEW d \in received' PROVE Whole(d)'
  <2>1. CASE d = c /\ ~UNCHANGED <<received, saved>>
    BY <2>1
  <2>2. CASE d # c \/ UNCHANGED <<received, saved>>
    <3>1. d \in Clients /\ Whole(d) /\ conn'[d].port = conn[d].port
      BY <1>0, <1>1, <1>10, <2>2, UploadTypes DEF SessionsInv
    <3>2. saved'[d] = saved[d]
      BY <2>2, <3>1
    <3> QED
      BY <1>0, <1>3, <3>1, <3>2 DEF Whole
  <2> QED
    BY <2>1, <2>2
<1>11. DirInv'
  <2>1. CASE Dirs
    <3>1. ASSUME NEW q \in Processes, pc'[q] \in Past
          PROVE  /\ q # p /\ serves[q] \in Clients /\ conn[serves[q]].port \in made
                 /\ \A r \in Processes :
                      pc[r] \in Past /\ conn[serves[r]].port = conn[serves[q]].port => q = r
                 /\ \A d \in received : conn[serves[q]].port # conn[d].port
      BY <1>0, <1>5, <2>1, <3>1, UploadTypes DEF SessionsInv, DirInv, Past
    <3>2. \A q \in Processes : pc'[q] \in Past => conn'[serves'[q]].port = conn[serves[q]].port
      BY <1>1, <1>5, <3>1
    <3>3. ASSUME NEW q \in Processes, pc'[q] \in Past, NEW d \in received' PROVE conn[serves[q]].port # conn[d].port
      <4>1. CASE d \in received
        BY <3>1, <3>3, <4>1
      <4>2. CASE d \notin received
        <5>1. d = c /\ pc[p] \in Past
          BY <3>3, <4>2 DEF Past
        <5> QED
          BY <3>1, <3>3, <5>1
      <4> QED
        BY <4>1, <4>2
    <3>4. \A d \in received' : conn'[d].port = conn[d].port
      BY <1>1, <1>4, UploadTypes
    <3>5. \A q, r \in Processes :
            pc'[q] \in Past /\ pc'[r] \in Past /\ conn'[serves'[r]].port = conn'[serves'[q]].port => q = r
      BY <1>5, <3>1, <3>2
    <3> QED
      BY <1>3, <2>1, <3>1, <3>2, <3>3, <3>4, <3>5 DEF DirInv
  <2>2. CASE ~Dirs
    BY <1>0, <1>3, <1>4, <1>5, <2>2, UploadTypes DEF SessionsInv, DirInv
  <2> QED
    BY <2>1, <2>2
<1> QED
  BY <1>6, <1>7, <1>8, <1>9, <1>10, <1>11 DEF SessionsInv

(* So it is when the connection has nobody waiting behind it.                  *)
LEMMA SessionReturns ==
  ASSUME UploadState, NEW p \in Processes, NEW c \in Clients, serves[p] = c, NEW j,
         conn' = [conn EXCEPT ![c] = j], pc' = [pc EXCEPT ![p] = "idle"],
         serves' = [serves EXCEPT ![p] = NoClient],
         UNCHANGED <<program, layout, clientVars, queue, store, made>>,
         j.at = conn[c].at /\ j.port = conn[c].port /\ j.client = conn[c].client
           /\ j.down = conn[c].down /\ ~j.server,
         Left(c)',
         \/ UNCHANGED <<received, saved>>
         \/ /\ pc[p] = "chunks" /\ received' = received \cup {c}
            /\ \A d \in Clients : d # c => saved'[d] = saved[d]
            /\ Whole(c)'
  PROVE  SessionsInv'
<1> DEFINE Gone == {}
<1>1. Gone \in SUBSET Elements(queue[1]) /\ Elements(queue'[1]) = Elements(queue[1]) \ Gone
  OBVIOUS
<1>2. conn'[c] = j /\ \A d \in Clients : d # c => conn'[d] = conn[d]
  BY UploadTypes
<1>3. \A d \in Clients : d \notin Gone /\ d # c => conn'[d] = conn[d]
  BY <1>2
<1>4. \A d \in Gone \cup {c} :
        /\ conn'[d].at = conn[d].at /\ conn'[d].port = conn[d].port
        /\ conn'[d].client = conn[d].client /\ conn'[d].down = conn[d].down /\ ~conn'[d].server
  BY <1>2
<1>5. "idle" \in {"idle", "dead"} /\ UNCHANGED <<program, layout, clientVars, store, made>>
  OBVIOUS
<1> HIDE DEF Gone
<1> QED
  BY ZenonT(40), <1>1, <1>3, <1>4, <1>5, SessionEnds

(* What is to be shown of a session in which chunks arrive.                    *)
LEMMA ChunksTask ==
  ASSUME NEW q, pc'[q] = "chunks", NEW c, serves'[q] = c, NEW k, conn'[c] = k,
         NEW f, store'[Directory(c)'] = f,
         Len(f) + Len(k.up) = sent'[c],
         \A i \in 1..Len(f) : f[i] = <<c, FileData[i]>>,
         \A i \in 1..Len(k.up) : k.up[i] = FileData[Len(f) + i],
         k.client =>
           /\ ~k.reset
           /\ \/ cpc'[c] = "wait" /\ sent'[c] = 0 /\ k.down = <<"OK">>
              \/ cpc'[c] = "chunks" /\ k.down = <<>>,
         ~k.client =>
           \/ outcome'[c] = "killed"
           \/ outcome'[c] = "sent" /\ sent'[c] = Len(FileData) /\ ~k.reset
  PROVE  Task(q)'
<1>1. store[Directory(serves[q])]' = f
  <2>1. Directory(serves[q])' = Directory(c)'
    BY DEF Directory, Dirs
  <2> QED
    BY <2>1
<1>2. Sending(serves[q], store[Directory(serves[q])])'
  BY <1>1 DEF Sending
<1> QED
  BY <1>2 DEF Task, Past

(* A process that dies had told its client nothing.                            *)
LEMMA SessionDies ==
  ASSUME UploadState, NEW p \in Processes, NEW c \in Clients, serves[p] = c, Die(p),
         UNCHANGED <<program, layout, clientVars, fileVars>>,
         conn[c].client => cpc[c] \in {"send", "wait", "blind"} /\ conn[c].down = <<>>,
         outcome[c] = "sent" => c \in received
  PROVE  SessionsInv'
<1> DEFINE last == ~Dirs /\ \A q \in Processes : q # p /\ q[1] = p[1] => pc[q] = "dead"
           Gone == IF last THEN Elements(queue[1]) ELSE {}
<1>1. /\ queue \in [Addresses -> Seq(Clients)] /\ p[1] = 1 /\ 1 \in Addresses
      /\ \A d \in Clients : conn[d] \in Connections
  <2>1. queue \in [Addresses -> Seq(Clients)] /\ \A d \in Clients : conn[d] \in Connections
    BY DEF UploadState, TypeInv, TypeOK
  <2>2. conn[c].at = p[1] /\ conn[c].at = 1
    BY UploadTypes DEF UploadState, PlaceInv, SessionsInv, RunInv
  <2> QED
    BY <2>1, <2>2, UploadTypes
<1>2. \A d : Contains(queue[1], d) <=> d \in Elements(queue[1])
  BY <1>1 DEF Contains, Elements
<1>3. /\ pc' = [pc EXCEPT ![p] = IF Dirs THEN "idle" ELSE "dead"]
      /\ serves' = [serves EXCEPT ![p] = NoClient]
      /\ queue' = [queue EXCEPT ![1] = IF last THEN <<>> ELSE queue[1]]
      /\ conn' = [d \in Clients |->
                    IF d = c THEN ClosedByServer(conn[d])
                    ELSE IF last /\ Contains(queue[1], d)
                      THEN [conn[d] EXCEPT !.server = FALSE, !.reset = TRUE]
                    ELSE conn[d]]
  BY <1>1 DEF Die
<1> HIDE DEF last
<1>4. Gone \in SUBSET Elements(queue[1]) /\ Elements(queue'[1]) = Elements(queue[1]) \ Gone
  <2>1. Elements(<<>>) = {}
    BY Deserted
  <2> QED
    BY <1>1, <1>3, <2>1
<1>5. c \notin Gone
  BY Elsewhere
<1>6. conn'[c] = ClosedByServer(conn[c])
  BY <1>3
<1>7. \A d \in Clients : d \notin Gone /\ d # c => conn'[d] = conn[d]
  BY <1>2, <1>3
<1>8. ASSUME NEW d \in Gone \cup {c}
      PROVE  /\ conn'[d].at = conn[d].at /\ conn'[d].port = conn[d].port
             /\ conn'[d].client = conn[d].client /\ conn'[d].down = conn[d].down /\ ~conn'[d].server
  <2>1. CASE d = c
    <3> DEFINE j == ClosedByServer(conn[c])
    <3>1. /\ j.at = conn[c].at /\ j.port = conn[c].port /\ j.client = conn[c].client
          /\ j.down = conn[c].down /\ ~j.server
      BY <1>1, ClosedFields
    <3> HIDE DEF j
    <3> QED
      BY <1>6, <2>1, <3>1 DEF j
  <2>2. CASE d # c
    <3>1. last /\ d \in Elements(queue[1]) /\ d \in Clients
      BY <1>8, <2>2, UploadTypes
    <3>2. conn'[d] = [conn[d] EXCEPT !.server = FALSE, !.reset = TRUE]
      BY <1>2, <1>3, <2>2, <3>1
    <3> QED
      BY <1>1, <3>1, <3>2, DroppedFields
  <2> QED
    BY <2>1, <2>2
<1>9. Left(c)'
  BY <1>8 DEF Left, clientVars, fileVars
<1>10. UNCHANGED <<store, made, received, saved>>
  BY DEF fileVars
<1>11. (IF Dirs THEN "idle" ELSE "dead") \in {"idle", "dead"}
  OBVIOUS
<1> HIDE DEF Gone
<1> QED
  BY <1>3, <1>4, <1>7, <1>8, <1>9, <1>10, <1>11, SessionEnds

(* The upload servers keep what is known of the uploads.                       *)
LEMMA PutTask ==
  ASSUME UploadState, NEW p \in Processes, NEW c \in Clients, serves[p] = c,
         UNCHANGED <<program, layout, clientVars>>, PutServer(p)
  PROVE  SessionsInv'
<1>1. /\ Session(p) = conn[c] /\ conn[c] \in Connections /\ conn \in [Clients -> Connections]
      /\ sent[c] \in Nat /\ conn[c].up \in Seq(Sends) /\ outcome' = outcome /\ cpc' = cpc /\ sent' = sent
  <2>1. conn[c].up \in Seq(Sends)
    BY DEF UploadState, TypeInv, TypeOK, Connections, Sends
  <2> QED
    BY <2>1, DataAssumption DEF UploadState, TypeInv, TypeOK, Session, clientVars
<1>2. Task(p) /\ RunInv(c) /\ cpc[c] # "new" /\ (conn[c].client <=> cpc[c] # "over")
  BY Elsewhere DEF UploadState, SessionsInv, RunInv
<1>3. Directory(c) \in Ports \cup {0}
  BY UploadTypes
<1>4. ASSUME NEW k \in Connections, NEW next \in Past, pc[p] \in Past, SetSession(p, k), ProcessGoes(p, next),
             UNCHANGED <<made, received, saved>>,
             k.at = conn[c].at /\ k.port = conn[c].port /\ k.client = conn[c].client /\ k.server = conn[c].server,
             \A n \in Ports \cup {0} : n # Directory(c) => store'[n] = store[n], Task(p)'
      PROVE  SessionsInv'
  BY <1>4, SessionGoesOn DEF SetSession, ProcessGoes
<1>5. \A next \in Past : ProcessGoes(p, next) => pc'[p] = next /\ serves'[p] = c
  BY UploadTypes DEF ProcessGoes
<1>6. CASE MakeDirectory(p)
  <2>1. Dirs /\ Directory(c) = conn[c].port /\ pc[p] = "mkdir" /\ Untouched(c)
    BY <1>2, <1>6, UploadTypes DEF MakeDirectory, Task
  <2>2. CASE Directory(c) \notin made
    <3>1. /\ made' = made \cup {conn[c].port} /\ ProcessGoes(p, "request")
          /\ UNCHANGED <<conn, store, received, saved>> /\ "request" \in Past
      BY <1>6, <2>1, <2>2 DEF MakeDirectory, Past
    <3>2. Task(p)'
      <4>1. pc'[p] = "request" /\ serves'[p] = c
        BY <1>5, <3>1
      <4>2. Untouched(serves[p])'
        BY <1>1, <2>1, <3>1, <4>1 DEF Untouched
      <4> QED
        BY <4>1, <4>2 DEF Task, Past
    <3>3. conn' = [conn EXCEPT ![c] = conn[c]]
      BY <1>1, <3>1
    <3> QED
      BY <1>1, <2>1, <2>2, <3>1, <3>2, <3>3, SessionGoesOn DEF ProcessGoes
  <2>3. CASE Directory(c) \in made
    <3>1. Die(p) /\ UNCHANGED fileVars
      BY <1>6, <2>3 DEF MakeDirectory, fileVars
    <3>2. conn[c].client => cpc[c] \in {"send", "wait", "blind"} /\ conn[c].down = <<>>
      BY <2>1 DEF Untouched
    <3>3. outcome[c] # "sent"
      BY <1>2, <2>1, <3>2 DEF Untouched, RunInv
    <3> QED
      BY <3>1, <3>2, <3>3, SessionDies
  <2> QED
    BY <2>2, <2>3
<1>7. CASE PutRequest(p)
  <2>1. pc[p] = "request" /\ pc[p] \in Past /\ Untouched(c) /\ UNCHANGED <<store, made, received, saved>>
    BY <1>2, <1>7 DEF PutRequest, Task, fileVars, Past
  <2>2. CASE Reads(p, "PUT") /\ Took(p, "ok")
    <3> DEFINE k == ReadByServer(conn[c])
    <3>1. conn[c].up = <<"PUT">>
      BY <1>1, <2>1, <2>2 DEF Reads, Untouched
    <3>2. /\ k \in Connections /\ k.at = conn[c].at /\ k.port = conn[c].port /\ k.client = conn[c].client
          /\ k.server = conn[c].server /\ k.up = Tail(conn[c].up) /\ k.down = conn[c].down
          /\ k.reset = conn[c].reset
      <4>1. conn[c].up # <<>>
        BY <3>1
      <4> QED
        BY <1>1, <4>1, ReadFields, ReadType
    <3>3. k.up = <<>>
      BY <3>1, <3>2
    <3>4. SetSession(p, k) /\ ProcessGoes(p, "ok") /\ "ok" \in Past
      BY <1>1, <2>2 DEF Took, Past
    <3> HIDE DEF k
    <3>5. conn'[c] = k /\ pc'[p] = "ok" /\ serves'[p] = c
      BY <1>1, <1>5, <3>4 DEF SetSession
    <3>6. Task(p)'
      <4>1. Asked(serves[p])'
        BY <1>1, <2>1, <3>1, <3>2, <3>3, <3>5 DEF Untouched, Asked
      <4> QED
        BY <3>5, <4>1 DEF Task, Past
    <3> QED
      BY <1>4, <2>1, <3>2, <3>4, <3>6
  <2>3. CASE Ended(p) /\ ProcessGoes(p, "err") /\ UNCHANGED conn
    <3>1. "err" \in Past /\ SetSession(p, conn[c])
      BY <1>1, <2>3 DEF Past, SetSession
    <3>2. Task(p)'
      <4>1. pc'[p] = "err" /\ serves'[p] = c
        BY <1>5, <2>3, <3>1
      <4>2. ~conn[c].client /\ outcome[c] = "killed"
        BY <1>1, <2>1, <2>3 DEF Ended, Untouched
      <4> QED
        BY <1>1, <2>3, <4>1, <4>2 DEF Task, Past
    <3> QED
      BY <1>1, <1>4, <2>1, <2>3, <3>1, <3>2
  <2> QED
    BY <1>7, <2>2, <2>3 DEF PutRequest
<1>8. CASE PutReply(p)
  <2>1. CASE pc[p] = "ok"
    <3> DEFINE k == WrittenByServer(conn[c], <<"OK">>)
    <3>1. Asked(c) /\ pc[p] \in Past
      BY <1>2, <2>1 DEF Task, Past
    <3>2. /\ k \in Connections /\ k.at = conn[c].at /\ k.port = conn[c].port /\ k.client = conn[c].client
          /\ k.server = conn[c].server /\ k.up = conn[c].up
          /\ k.down = IF conn[c].client THEN conn[c].down \o <<"OK">> ELSE conn[c].down
          /\ k.reset = (conn[c].reset \/ ~conn[c].client)
      <4>1. k \in Connections
        BY <1>1, Words, WrittenByServerType
      <4> QED
        BY <1>1, <4>1, WrittenFields
    <3>3. /\ SetSession(p, k) /\ ProcessGoes(p, "chunks") /\ "chunks" \in Past
          /\ store' = [store EXCEPT ![Directory(c)] = <<>>] /\ UNCHANGED <<made, received, saved>>
      BY <1>1, <1>8, <2>1 DEF PutReply, WriteAndGo, Wrote, Past
    <3> HIDE DEF k
    <3>4. conn'[c] = k /\ pc'[p] = "chunks" /\ serves'[p] = c
      BY <1>1, <1>5, <3>3 DEF SetSession
    <3>5. Task(p)'
      <4>1. Directory(c)' = Directory(c)
        BY <3>2, <3>4 DEF Directory, Dirs
      <4>2. store'[Directory(c)'] = <<>>
        BY <1>3, <3>3, <4>1, UploadTypes
      <4>3. conn[c].client => k.down = <<"OK">>
        BY <3>1, <3>2 DEF Asked
      <4>4. k.up = <<>> /\ Len(<<>>) = 0 /\ sent'[c] = 0
        BY <1>1, <3>1, <3>2 DEF Asked
      <4>5. /\ k.client => ~k.reset /\ cpc'[c] = "wait" /\ k.down = <<"OK">>
            /\ ~k.client => outcome'[c] = "killed"
        BY <1>1, <3>1, <3>2, <4>3 DEF Asked
      <4>6. Len(<<>>) + Len(k.up) = sent'[c]
        BY <4>4
      <4>7. /\ \A i \in 1..Len(<<>>) : <<>>[i] = <<c, FileData[i]>>
            /\ \A i \in 1..Len(k.up) : k.up[i] = FileData[Len(<<>>) + i]
        BY <4>4
      <4> QED
        BY <3>4, <4>2, <4>4, <4>5, <4>6, <4>7, ChunksTask
    <3> QED
      BY <1>4, <3>1, <3>2, <3>3, <3>5
  <2>2. CASE pc[p] = "err"
    <3> DEFINE k == WrittenByServer(conn[c], <<"ERR">>)
               j == ClosedByServer(k)
    <3>1. ~conn[c].client /\ outcome[c] = "killed"
      BY <1>2, <2>2 DEF Task
    <3>2. /\ k \in Connections /\ k.at = conn[c].at /\ k.port = conn[c].port /\ k.client = conn[c].client
          /\ k.down = conn[c].down
      <4>1. k \in Connections
        BY <1>1, Words, WrittenByServerType
      <4> QED
        BY <1>1, <3>1, <4>1, WrittenFields
    <3>3. Return(p, k) /\ UNCHANGED <<store, made, received, saved>>
      BY <1>1, <1>8, <2>2 DEF PutReply, WriteAndReturn, Wrote, fileVars
    <3> HIDE DEF k
    <3>4. /\ j.at = conn[c].at /\ j.port = conn[c].port /\ j.client = conn[c].client
          /\ j.down = conn[c].down /\ ~j.server
      BY <3>2, ClosedFields
    <3>5. /\ conn' = [conn EXCEPT ![c] = j] /\ pc' = [pc EXCEPT ![p] = "idle"] /\ UNCHANGED queue
          /\ serves' = [serves EXCEPT ![p] = NoClient]
      BY <3>3 DEF Return, SetSession
    <3> HIDE DEF j
    <3>6. conn'[c] = j /\ \A d \in Clients : d # c => conn'[d] = conn[d]
      BY <1>1, <3>5
    <3>7. Left(c)'
      BY <1>1, <3>1, <3>4, <3>6 DEF Left
    <3> QED
      BY <3>3, <3>4, <3>5, <3>7, SessionReturns
  <2> QED
    BY <1>8, <2>1, <2>2 DEF PutReply
<1>9. ASSUME NEW x \in Chunks, PutChunk(p, x) PROVE SessionsInv'
  <2> DEFINE k == ReadByServer(conn[c])
             f == store[Directory(c)]
             g == Append(f, <<c, x>>)
  <2>1. pc[p] = "chunks" /\ pc[p] \in Past /\ Sending(c, f)
    BY <1>2, <1>9 DEF PutChunk, Task, Past
  <2>2. conn[c].up # <<>> /\ Head(conn[c].up) = x
    BY <1>1, <1>9 DEF PutChunk, Reads
  <2>3. /\ k \in Connections /\ k.at = conn[c].at /\ k.port = conn[c].port /\ k.client = conn[c].client
        /\ k.server = conn[c].server /\ k.up = Tail(conn[c].up) /\ k.down = conn[c].down
        /\ k.reset = conn[c].reset
    BY <1>1, <2>2, ReadFields, ReadType
  <2>4. /\ SetSession(p, k) /\ ProcessGoes(p, "chunks") /\ "chunks" \in Past
        /\ store' = [store EXCEPT ![Directory(c)] = g] /\ UNCHANGED <<made, received, saved>>
    BY <1>1, <1>9 DEF PutChunk, Took, Past
  <2>5. /\ f \in Seq(Clients \X Chunks) /\ <<c, x>> \in Clients \X Chunks /\ Len(f) \in Nat
    BY <1>3, UploadTypes
  <2>6. Len(g) = Len(f) + 1 /\ (\A i \in 1..Len(f) : g[i] = f[i]) /\ g[Len(f) + 1] = <<c, x>>
    BY <2>5
  <2>7. /\ Len(conn[c].up) \in Nat \ {0} /\ Len(k.up) = Len(conn[c].up) - 1 /\ conn[c].up[1] = x
        /\ \A i \in 1..Len(k.up) : k.up[i] = conn[c].up[i + 1]
    BY <1>1, <2>2, <2>3
  <2> HIDE DEF k, f, g
  <2>8. conn'[c] = k /\ pc'[p] = "chunks" /\ serves'[p] = c /\ store'[Directory(c)] = g
    BY <1>1, <1>3, <1>5, <2>4, UploadTypes DEF SetSession
  <2>9. Task(p)'
    <3>1. store'[Directory(c)'] = g
      BY <2>3, <2>8 DEF Directory, Dirs
    <3>2. Len(g) + Len(k.up) = sent'[c] /\ sent[c] # 0
      <4>1. Len(f) + Len(conn[c].up) = sent[c]
        BY <2>1 DEF Sending
      <4>2. /\ Len(f) \in Nat /\ Len(g) = Len(f) + 1
            /\ Len(conn[c].up) \in Nat \ {0} /\ Len(k.up) = Len(conn[c].up) - 1
        BY <2>5, <2>6, <2>7
      <4>3. sent'[c] = sent[c]
        BY <1>1
      <4>4. \A a \in Nat, b \in Nat \ {0} : (a + 1) + (b - 1) = a + b /\ a + b # 0
        OBVIOUS
      <4>5. Len(g) + Len(k.up) = Len(f) + Len(conn[c].up) /\ Len(f) + Len(conn[c].up) # 0
        BY <4>2, <4>4
      <4> QED
        BY <4>1, <4>3, <4>5
    <3>3. ASSUME NEW i \in 1..Len(g) PROVE g[i] = <<c, FileData[i]>>
      <4>1. CASE i \in 1..Len(f)
        BY <2>1, <2>6, <4>1 DEF Sending
      <4>2. CASE i = Len(f) + 1
        <5>1. 1 \in 1..Len(conn[c].up)
          BY <2>7
        <5>2. conn[c].up[1] = FileData[Len(f) + 1]
          BY <2>1, <5>1 DEF Sending
        <5> QED
          BY <2>6, <2>7, <4>2, <5>2
      <4> QED
        BY <2>5, <2>6, <3>3, <4>1, <4>2
    <3>4. ASSUME NEW i \in 1..Len(k.up) PROVE k.up[i] = FileData[Len(g) + i]
      <4>1. i + 1 \in 1..Len(conn[c].up) /\ k.up[i] = conn[c].up[i + 1]
        BY <2>7, <3>4
      <4>2. conn[c].up[i + 1] = FileData[Len(f) + (i + 1)]
        BY <2>1, <4>1 DEF Sending
      <4>3. Len(f) + (i + 1) = Len(g) + i
        BY <2>5, <2>6
      <4> QED
        BY <4>1, <4>2, <4>3
    <3>5. k.client => ~k.reset /\ cpc'[c] = "chunks" /\ k.down = <<>>
      BY <1>1, <2>1, <2>3, <3>2 DEF Sending
    <3>6. ~k.client => \/ outcome'[c] = "killed"
                       \/ outcome'[c] = "sent" /\ sent'[c] = Len(FileData) /\ ~k.reset
      BY <1>1, <2>1, <2>3 DEF Sending
    <3>7. /\ \A i \in 1..Len(g) : g[i] = <<c, FileData[i]>>
          /\ \A i \in 1..Len(k.up) : k.up[i] = FileData[Len(g) + i]
      BY <3>3, <3>4
    <3>8. k.client =>
            /\ ~k.reset
            /\ \/ cpc'[c] = "wait" /\ sent'[c] = 0 /\ k.down = <<"OK">>
               \/ cpc'[c] = "chunks" /\ k.down = <<>>
      BY <3>5
    <3>9. Len(g) + Len(k.up) = sent'[c] /\ pc'[p] = "chunks" /\ serves'[p] = c /\ conn'[c] = k
      BY <2>8, <3>2
    <3> QED
      <4>1. store[Directory(serves[p])]' = g
        BY <3>1, <3>9 DEF Directory, Dirs
      <4>2. Sending(serves[p], store[Directory(serves[p])])'
        BY <3>6, <3>7, <3>8, <3>9, <4>1 DEF Sending
      <4> QED
        BY <3>9, <4>2 DEF Task, Past
  <2>10. \A n \in Ports \cup {0} : n # Directory(c) => store'[n] = store[n]
    BY <2>4, UploadTypes
  <2> QED
    BY <1>4, <2>1, <2>3, <2>4, <2>9, <2>10
<1>10. CASE PutEnds(p)
  <2> DEFINE j == ClosedByServer(conn[c])
             f == store[Directory(c)]
  <2>1. pc[p] = "chunks" /\ pc[p] \in Past /\ Sending(c, f) /\ conn[c].up = <<>> /\ ~conn[c].client
    BY <1>1, <1>2, <1>10 DEF PutEnds, Task, Past, Ended
  <2>2. /\ conn' = [conn EXCEPT ![c] = j] /\ pc' = [pc EXCEPT ![p] = "idle"] /\ UNCHANGED queue
        /\ serves' = [serves EXCEPT ![p] = NoClient]
        /\ received' = received \cup {c} /\ saved' = [saved EXCEPT ![c] = f] /\ UNCHANGED <<store, made>>
    BY <1>1, <1>10 DEF PutEnds, Return, SetSession
  <2>3. /\ j.at = conn[c].at /\ j.port = conn[c].port /\ j.client = conn[c].client
        /\ j.down = conn[c].down /\ ~j.server
    BY <1>1, ClosedFields
  <2>4. saved'[c] = f /\ \A d \in Clients : d # c => saved'[d] = saved[d]
    BY <2>2 DEF UploadState, TypeInv, TypeOK
  <2>f. f \in Seq(Clients \X Chunks) /\ Len(f) \in Nat
    BY <1>3, UploadTypes
  <2> HIDE DEF j, f
  <2>5. conn'[c] = j /\ \A d \in Clients : d # c => conn'[d] = conn[d]
    BY <1>1, <2>2
  <2>6. Len(f) = sent[c] /\ \A i \in 1..sent[c] : f[i] = <<c, FileData[i]>>
    <3>1. Len(f) + 0 = sent[c] /\ \A i \in 1..Len(f) : f[i] = <<c, FileData[i]>>
      BY <2>1 DEF Sending
    <3> QED
      BY <2>f, <3>1
  <2>7. Whole(c)'
    <3>1. cpc[c] = "over" /\ outcome[c] \in {"killed", "sent"} /\ (outcome[c] = "sent" => sent[c] = Len(FileData))
      BY <1>2, <2>1 DEF Sending
    <3>2. Dirs => conn[c].port \in made /\ store[conn[c].port] = f
      BY <2>1, UploadTypes DEF UploadState, SessionsInv, DirInv, f
    <3> QED
      BY <1>1, <2>2, <2>3, <2>4, <2>5, <2>6, <3>1, <3>2 DEF Whole, Dirs
  <2>8. Left(c)'
    BY <2>1, <2>2, <2>3, <2>5 DEF Left
  <2> QED
    BY <2>1, <2>2, <2>3, <2>4, <2>7, <2>8, SessionReturns
<1>11. CASE pc[p] = "chunks" /\ ReadnDies(p) /\ UNCHANGED fileVars
  <2>1. Sending(c, store[Directory(c)]) /\ ~conn[c].client /\ conn[c].reset /\ Die(p)
    BY <1>1, <1>2, <1>11 DEF ReadnDies, Ended, Task
  <2>2. outcome[c] = "killed"
    BY <2>1 DEF Sending
  <2> QED
    BY <1>11, <2>1, <2>2, SessionDies
<1> QED
  BY <1>6, <1>7, <1>8, <1>9, <1>10, <1>11 DEF PutServer

(* A process that takes a client finds nothing read yet.                       *)
LEMMA SessionStarts ==
  ASSUME UploadState, NEW p \in Processes, Accept(p), UNCHANGED <<program, layout, clientVars>>
  PROVE  SessionsInv'
<1> DEFINE q == queue[p[1]]
           c == Head(q)
<1>0. UNCHANGED <<cpc, sent, outcome, conn, store, made, received, saved>> /\ SessionsInv
  BY DEF Accept, clientVars, fileVars, UploadState
<1>1. p[1] \in Addresses /\ q \in Seq(Clients) /\ q # <<>> /\ queue \in [Addresses -> Seq(Clients)]
  BY DEF Accept, Processes, UploadState, TypeInv, TypeOK
<1>2. c \in Clients /\ c \in Elements(q) /\ Elements(q) = Elements(Tail(q)) \cup {c}
  BY <1>1, Departed
<1>3. p[1] = 1
  <2>1. conn[c].at = p[1]
    BY ZenonT(40), <1>1, <1>2 DEF UploadState, PlaceInv
  <2>2. conn[c].at = 1
    BY <1>0, <1>2 DEF SessionsInv, RunInv
  <2> QED
    BY <2>1, <2>2
<1>4. Untouched(c)
  BY <1>0, <1>2, <1>3 DEF SessionsInv
<1>5. Elements(queue'[1]) \subseteq Elements(queue[1])
  BY <1>1, <1>2, <1>3 DEF Accept
<1> DEFINE next == IF Dirs THEN "mkdir" ELSE "request"
<1>6. /\ pc[p] = "idle" /\ serves' = [serves EXCEPT ![p] = c] /\ pc' = [pc EXCEPT ![p] = next]
  BY DEF Accept
<1>7. /\ \A r \in Processes : pc'[r] = IF r = p THEN next ELSE pc[r]
      /\ \A r \in Processes : serves'[r] = IF r = p THEN c ELSE serves[r]
  BY <1>6, UploadTypes
<1>8. Dirs' = Dirs
  BY DEF Dirs
<1> HIDE DEF c, q
<1>9. ASSUME NEW d \in Clients PROVE RunInv(d)' /\ (cpc'[d] # "new" /\ ~conn'[d].server => Left(d)')
  BY <1>0 DEF SessionsInv, RunInv, Left
<1>10. ASSUME NEW d \in Elements(queue'[1]) PROVE Untouched(d)'
  <2>1. Untouched(d)
    BY <1>0, <1>5 DEF SessionsInv
  <2> QED
    BY <1>0, <2>1 DEF Untouched
<1>11. ASSUME NEW r \in Processes PROVE Task(r)'
  <2>1. CASE r = p
    <3>1. serves'[r] = c /\ pc'[r] \in {"mkdir", "request"}
      BY <1>7, <2>1
    <3>2. Untouched(serves[r])'
      BY <1>0, <1>4, <3>1 DEF Untouched
    <3> QED
      BY <3>1, <3>2 DEF Task, Past
  <2>2. CASE r # p
    <3>1. Task(r) /\ pc'[r] = pc[r] /\ serves'[r] = serves[r] /\ Directory(serves[r])' = Directory(serves[r])
      BY <1>0, <1>7, <1>8, <2>2 DEF SessionsInv, Directory
    <3> QED
      BY <1>0, <3>1, SameTask
  <2> QED
    BY <2>1, <2>2
<1>12. ASSUME NEW d \in received' PROVE Whole(d)'
  BY <1>0, <1>8, <1>12 DEF SessionsInv, Whole
<1>13. DirInv'
  <2>1. CASE Dirs
    <3>1. \A r \in Processes : pc'[r] \in Past => pc[r] \in Past /\ serves'[r] = serves[r]
      BY <1>7, <2>1 DEF Past
    <3> QED
      BY <1>0, <1>8, <2>1, <3>1 DEF SessionsInv, DirInv
  <2>2. CASE ~Dirs
    <3>1. \A r \in Processes : pc'[r] # "dead" => pc[r] # "dead"
      BY <1>6, <1>7
    <3> QED
      BY <1>0, <1>8, <2>2, <3>1 DEF SessionsInv, DirInv
  <2> QED
    BY <2>1, <2>2
<1> QED
  BY <1>9, <1>10, <1>11, <1>12, <1>13 DEF SessionsInv

(* A step of a client that runs concerns only its own session.                 *)
LEMMA ClientGoesOn ==
  ASSUME UploadState, NEW c \in Clients, cpc[c] \notin {"new", "over"}, NEW k,
         conn' = [conn EXCEPT ![c] = k],
         k.port = conn[c].port /\ k.server = conn[c].server,
         \A d \in Clients : d # c => cpc'[d] = cpc[d] /\ sent'[d] = sent[d] /\ outcome'[d] = outcome[d],
         UNCHANGED <<program, pc, serves, queue, fileVars>>,
         RunInv(c)',
         c \in Elements(queue[1]) => Untouched(c)',
         \A p \in Processes : serves[p] = c => Task(p)',
         ~k.server => Left(c)'
  PROVE  SessionsInv'
<1>0. UNCHANGED <<store, made, received, saved>> /\ SessionsInv
  BY DEF fileVars, UploadState
<1>1. conn'[c] = k /\ \A d \in Clients : d # c => conn'[d] = conn[d]
  BY UploadTypes
<1>2. Dirs' = Dirs /\ \A d \in Clients : conn'[d].port = conn[d].port
  BY <1>1 DEF Dirs
<1>3. ASSUME NEW d \in Clients PROVE RunInv(d)' /\ (cpc'[d] # "new" /\ ~conn'[d].server => Left(d)')
  <2>1. CASE d = c
    BY <1>1, <2>1
  <2>2. CASE d # c
    BY <1>0, <1>1, <2>2 DEF SessionsInv, RunInv, Left
  <2> QED
    BY <2>1, <2>2
<1>4. ASSUME NEW d \in Elements(queue'[1]) PROVE Untouched(d)'
  <2>1. CASE d = c
    BY <1>4, <2>1
  <2>2. CASE d # c
    <3>1. Untouched(d) /\ d \in Clients
      BY <1>0, <1>4, UploadTypes DEF SessionsInv
    <3> QED
      BY <1>1, <2>2, <3>1 DEF Untouched
  <2> QED
    BY <2>1, <2>2
<1>5. ASSUME NEW p \in Processes PROVE Task(p)'
  <2>1. CASE serves[p] = c
    BY <2>1
  <2>2. CASE serves[p] \in Clients /\ serves[p] # c
    <3> DEFINE d == serves[p]
    <3>1. Task(p) /\ conn'[d] = conn[d] /\ cpc'[d] = cpc[d] /\ sent'[d] = sent[d] /\ outcome'[d] = outcome[d]
      BY <1>0, <1>1, <2>2 DEF SessionsInv
    <3> QED
      BY <1>0, <3>1, SameTask
  <2>3. CASE serves[p] \notin Clients
    <3>1. pc'[p] \in {"idle", "dead"}
      BY <2>3, UploadTypes
    <3> QED
      BY <3>1 DEF Task
  <2> QED
    BY <2>1, <2>2, <2>3
<1>6. ASSUME NEW d \in received' PROVE Whole(d)'
  <2>1. Whole(d) /\ d \in Clients /\ d # c
    BY <1>0, <1>6, UploadTypes DEF SessionsInv, Whole
  <2> QED
    BY <1>0, <1>1, <1>2, <2>1 DEF Whole
<1>7. DirInv'
  <2>1. CASE Dirs
    <3>1. \A p \in Processes : pc[p] \in Past => serves[p] \in Clients
      BY UploadTypes DEF Past
    <3>2. \A p \in Processes : pc'[p] \in Past => conn'[serves'[p]].port = conn[serves[p]].port
      BY <1>2, <3>1
    <3>3. \A d \in received' : conn'[d].port = conn[d].port
      BY <1>0, <1>2, UploadTypes
    <3> QED
      BY <1>0, <1>2, <2>1, <3>2, <3>3 DEF SessionsInv, DirInv
  <2>2. CASE ~Dirs
    BY <1>0, <1>2, <2>2 DEF SessionsInv, DirInv
  <2> QED
    BY <2>1, <2>2
<1> QED
  BY <1>3, <1>4, <1>5, <1>6, <1>7 DEF SessionsInv

(* What is to be shown of a session whose client has done something.           *)
LEMMA SessionPhases ==
  ASSUME UploadState, NEW p \in Processes, NEW c \in Clients, serves[p] = c, conn[c].client
  PROVE  \/ pc[p] \in {"mkdir", "request"} /\ Untouched(c)
         \/ pc[p] = "ok" /\ Asked(c)
         \/ pc[p] = "chunks" /\ Sending(c, store[Directory(c)])
<1>1. Task(p) /\ pc[p] \notin {"idle", "dead"}
  BY UploadTypes DEF UploadState, SessionsInv
<1> QED
  BY <1>1 DEF Task, Past

LEMMA PhaseKept ==
  ASSUME UploadState, NEW p \in Processes, NEW c \in Clients, serves[p] = c,
         UNCHANGED <<program, pc, serves, store>>, conn'[c].port = conn[c].port,
         \/ pc[p] \in {"mkdir", "request"} /\ Untouched(c)'
         \/ pc[p] = "ok" /\ Asked(c)'
         \/ /\ pc[p] = "chunks"
            /\ Len(store[Directory(c)]) + Len(conn'[c].up) = sent'[c]
            /\ \A i \in 1..Len(store[Directory(c)]) : store[Directory(c)][i] = <<c, FileData[i]>>
            /\ \A i \in 1..Len(conn'[c].up) : conn'[c].up[i] = FileData[Len(store[Directory(c)]) + i]
            /\ conn'[c].client =>
                 /\ ~conn'[c].reset
                 /\ \/ cpc'[c] = "wait" /\ sent'[c] = 0 /\ conn'[c].down = <<"OK">>
                    \/ cpc'[c] = "chunks" /\ conn'[c].down = <<>>
            /\ ~conn'[c].client =>
                 \/ outcome'[c] = "killed"
                 \/ outcome'[c] = "sent" /\ sent'[c] = Len(FileData) /\ ~conn'[c].reset
  PROVE  Task(p)'
<1>1. serves'[p] = c /\ pc'[p] = pc[p]
  OBVIOUS
<1>2. store[Directory(serves[p])]' = store[Directory(c)]
  BY <1>1 DEF Directory, Dirs
<1>3. CASE pc[p] \in {"mkdir", "request"} /\ Untouched(c)'
  <2>1. Untouched(serves[p])'
    BY <1>1, <1>3 DEF Untouched
  <2> QED
    BY <1>1, <1>3, <2>1 DEF Task, Past
<1>4. CASE pc[p] = "ok" /\ Asked(c)'
  <2>1. Asked(serves[p])'
    BY <1>1, <1>4 DEF Asked
  <2> QED
    BY <1>1, <1>4, <2>1 DEF Task, Past
<1>5. CASE pc[p] \notin {"mkdir", "request", "ok"}
  <2>1. Sending(serves[p], store[Directory(serves[p])])'
    BY <1>1, <1>2, <1>5 DEF Sending
  <2> QED
    BY <1>1, <1>5, <2>1 DEF Task, Past
<1> QED
  BY <1>3, <1>4, <1>5

(* The client keeps what is known, and so does its death.                      *)
LEMMA PutClientTask ==
  ASSUME UploadState, NEW c \in Clients, UNCHANGED <<program, pc, serves, queue, fileVars>>,
         \/ PutClient(c)
         \/ cpc[c] \notin {"new", "over"} /\ End(c, "killed") /\ UNCHANGED sent
  PROVE  SessionsInv'
<1> DEFINE f == store[Directory(c)]
<1>0. /\ conn[c] \in Connections /\ conn \in [Clients -> Connections]
      /\ cpc \in [Clients -> Places] /\ outcome \in [Clients -> Outcomes]
      /\ sent \in [Clients -> 0..Len(FileData)] /\ Len(FileData) \in Nat
  BY DataAssumption DEF UploadState, TypeInv, TypeOK, Places, Outcomes
<1>1. cpc[c] \notin {"new", "over"} /\ conn[c].client /\ outcome[c] = "none" /\ conn[c].at = 1 /\ RunInv(c)
  BY DEF PutClient, UploadState, SessionsInv, RunInv
<1>2. ~conn[c].server => Left(c)
  BY <1>1 DEF UploadState, SessionsInv
<1>3. c \in Elements(queue[1]) => Untouched(c) /\ conn[c].server
  BY UploadTypes DEF UploadState, SessionsInv, PlaceInv, Queued
<1>4. \A p \in Processes : serves[p] = c => conn[c].server
  BY Elsewhere
<1>5. store' = store /\ received' = received
  BY DEF fileVars
<1>f. f \in Seq(Clients \X Chunks) /\ Len(f) \in Nat
  BY UploadTypes
<1>b. conn[c].reset \in BOOLEAN /\ conn[c].server \in BOOLEAN /\ conn[c].client \in BOOLEAN
  BY <1>0 DEF Connections
<1>u. conn[c].up \in Seq(Sends) /\ Len(conn[c].up) \in Nat
  BY <1>0 DEF Connections, Sends
<1>6. ASSUME NEW k, conn' = [conn EXCEPT ![c] = k], k.at = conn[c].at,
             k.port = conn[c].port, k.server = conn[c].server,
             NEW x \in Places \ {"new"}, cpc' = [cpc EXCEPT ![c] = x],
             NEW n, sent' = [sent EXCEPT ![c] = n],
             NEW o, outcome' = [outcome EXCEPT ![c] = o],
             k.client <=> x # "over", o # "none" => x = "over",
             c \in Elements(queue[1]) => Untouched(c)',
             \A p \in Processes : serves[p] = c => Task(p)',
             ~k.server => Left(c)'
      PROVE  SessionsInv'
  <2>1. conn'[c] = k /\ cpc'[c] = x /\ outcome'[c] = o
    BY <1>0, <1>6
  <2>2. RunInv(c)'
    BY <1>1, <1>6, <2>1 DEF RunInv
  <2>3. \A d \in Clients : d # c => cpc'[d] = cpc[d] /\ sent'[d] = sent[d] /\ outcome'[d] = outcome[d]
    BY <1>0, <1>6
  <2> QED
    BY <1>1, <1>6, <2>2, <2>3, ClientGoesOn
<1>7. CASE cpc[c] = "send" /\ Write(c, <<"PUT">>) /\ ClientGoes(c, "wait") /\ UNCHANGED <<sent, outcome>>
  <2> DEFINE k == WrittenByClient(conn[c], <<"PUT">>)
  <2>1. /\ k.at = conn[c].at /\ k.port = conn[c].port /\ k.client = conn[c].client /\ k.server = conn[c].server
        /\ k.down = conn[c].down
        /\ conn[c].server => k.up = conn[c].up \o <<"PUT">> /\ k.reset = conn[c].reset
    <3>1. /\ k.at = conn[c].at /\ k.port = conn[c].port /\ k.client = conn[c].client
          /\ k.server = conn[c].server /\ k.down = conn[c].down
      BY <1>0, WrittenFields
    <3>2. k.up = IF conn[c].server THEN conn[c].up \o <<"PUT">> ELSE conn[c].up
      BY <1>0, WrittenFields
    <3>3. k.reset = (conn[c].reset \/ ~conn[c].server)
      BY <1>0, WrittenFields
    <3> HIDE DEF k
    <3> QED
      BY <1>b, <3>1, <3>2, <3>3
  <2>2. conn' = [conn EXCEPT ![c] = k] /\ cpc' = [cpc EXCEPT ![c] = "wait"]
    BY <1>7 DEF Write, SetConn, ClientGoes
  <2> HIDE DEF k
  <2>3. conn'[c] = k /\ cpc'[c] = "wait" /\ sent'[c] = sent[c] /\ outcome'[c] = outcome[c]
    BY <1>0, <1>7, <2>2
  <2>4. Untouched(c) /\ conn[c].server => Untouched(c)'
    <3> SUFFICES ASSUME Untouched(c), conn[c].server PROVE Untouched(c)'
      OBVIOUS
    <3>1. conn[c].up = <<>> /\ ~conn[c].reset
      BY <1>1, <1>7 DEF Untouched
    <3>2. k.up = <<"PUT">> /\ ~k.reset
      BY <2>1, <3>1
    <3>3. <<"PUT">> # <<>> /\ k.client
      BY <1>1, <2>1
    <3>4. conn'[c].up = <<"PUT">> /\ ~conn'[c].reset /\ conn'[c].client /\ conn'[c].down = <<>> /\ sent'[c] = 0
      BY <2>1, <2>3, <3>2, <3>3 DEF Untouched
    <3> QED
      BY <2>3, <3>3, <3>4 DEF Untouched
  <2>5. ASSUME NEW p \in Processes, serves[p] = c PROVE Task(p)'
    <3>1. pc[p] \in {"mkdir", "request"} /\ Untouched(c)
      BY <1>1, <1>7, <2>5, SessionPhases DEF Asked, Sending
    <3> QED
      BY <1>4, <1>5, <2>1, <2>3, <2>4, <2>5, <3>1, PhaseKept
  <2>6. ~k.server => Left(c)'
    BY <1>1, <1>2, <2>1, <2>3 DEF Left
  <2>7. sent' = [sent EXCEPT ![c] = sent[c]] /\ outcome' = [outcome EXCEPT ![c] = outcome[c]]
    BY <1>0, <1>7
  <2>8. "wait" \in Places \ {"new"}
    BY DEF Places
  <2> QED
    BY <1>1, <1>3, <1>6, <2>1, <2>2, <2>4, <2>5, <2>6, <2>7, <2>8
<1>8. CASE /\ cpc[c] = "wait" /\ Arrived(c, "OK") /\ SetConn(c, ReadByClient(conn[c]))
           /\ ClientGoes(c, "chunks") /\ UNCHANGED <<sent, outcome>>
  <2> DEFINE k == ReadByClient(conn[c])
  <2>1. /\ k.at = conn[c].at /\ k.port = conn[c].port /\ k.client = conn[c].client /\ k.server = conn[c].server
        /\ k.down = Tail(conn[c].down) /\ k.up = conn[c].up /\ k.reset = conn[c].reset
    BY <1>0, ReadFields
  <2>2. conn' = [conn EXCEPT ![c] = k] /\ cpc' = [cpc EXCEPT ![c] = "chunks"]
    BY <1>8 DEF SetConn, ClientGoes
  <2> HIDE DEF k
  <2>3. conn'[c] = k /\ cpc'[c] = "chunks" /\ sent'[c] = sent[c] /\ outcome'[c] = outcome[c]
    BY <1>0, <1>8, <2>2
  <2>4. conn[c].down # <<>>
    BY <1>8 DEF Arrived
  <2>5. ASSUME NEW p \in Processes, serves[p] = c PROVE Task(p)'
    <3>1. pc[p] = "chunks" /\ Sending(c, f)
      BY <1>1, <2>4, <2>5, SessionPhases DEF Asked, Untouched
    <3>2. conn[c].down = <<"OK">> /\ ~conn[c].reset
      BY <1>1, <2>4, <3>1 DEF Sending
    <3>3. k.down = <<>>
      BY <2>1, <3>2
    <3>4. /\ Len(f) + Len(k.up) = sent[c]
          /\ \A i \in 1..Len(f) : f[i] = <<c, FileData[i]>>
          /\ \A i \in 1..Len(k.up) : k.up[i] = FileData[Len(f) + i]
      BY <2>1, <3>1 DEF Sending
    <3>5. k.client /\ ~k.reset /\ k.port = conn[c].port
      BY <1>1, <2>1, <3>2
    <3> HIDE DEF f
    <3>6. /\ Len(f) + Len(conn'[c].up) = sent'[c]
          /\ \A i \in 1..Len(f) : f[i] = <<c, FileData[i]>>
          /\ \A i \in 1..Len(conn'[c].up) : conn'[c].up[i] = FileData[Len(f) + i]
          /\ conn'[c].client /\ ~conn'[c].reset /\ conn'[c].down = <<>> /\ conn'[c].port = conn[c].port
      BY <2>3, <3>3, <3>4, <3>5
    <3> QED
      BY <1>5, <2>3, <2>5, <3>1, <3>6, PhaseKept DEF f
  <2>6. conn[c].server /\ c \notin Elements(queue[1])
    BY <1>1, <1>2, <1>3, <2>4 DEF Left, Untouched
  <2>7. sent' = [sent EXCEPT ![c] = sent[c]] /\ outcome' = [outcome EXCEPT ![c] = outcome[c]]
    BY <1>0, <1>8
  <2>8. "chunks" \in Places \ {"new"}
    BY DEF Places
  <2> QED
    BY <1>1, <1>6, <2>1, <2>2, <2>5, <2>6, <2>7, <2>8
<1>9. CASE cpc[c] = "wait" /\ AtEnd(c) /\ ClientGoes(c, "blind") /\ UNCHANGED <<conn, sent, outcome>>
  <2>1. ~conn[c].server /\ Left(c) /\ conn[c].down = <<>>
    BY <1>0, <1>2, <1>9 DEF AtEnd, Connections
  <2>2. cpc' = [cpc EXCEPT ![c] = "blind"] /\ cpc'[c] = "blind"
    BY <1>0, <1>9 DEF ClientGoes
  <2>3. Left(c)'
    BY <1>1, <1>9, <2>1, <2>2 DEF Left
  <2>4. /\ conn' = [conn EXCEPT ![c] = conn[c]] /\ sent' = [sent EXCEPT ![c] = sent[c]]
        /\ outcome' = [outcome EXCEPT ![c] = outcome[c]]
    BY <1>0, <1>9
  <2>5. "blind" \in Places \ {"new"}
    BY DEF Places
  <2> QED
    BY <1>1, <1>3, <1>4, <1>6, <2>1, <2>2, <2>3, <2>4, <2>5
<1>10. CASE /\ cpc[c] \in {"chunks", "blind"} /\ sent[c] < Len(FileData)
            /\ Write(c, <<FileData[sent[c] + 1]>>) /\ sent' = [sent EXCEPT ![c] = @ + 1]
            /\ UNCHANGED <<cpc, outcome>>
  <2> DEFINE x == FileData[sent[c] + 1]
             k == WrittenByClient(conn[c], <<x>>)
  <2>x. x \in Chunks
    <3>1. sent[c] + 1 \in 1..Len(FileData)
      BY <1>0, <1>10
    <3> QED
      BY <3>1, DataAssumption DEF Chunks, ToSet
  <2>1. /\ k.at = conn[c].at /\ k.port = conn[c].port /\ k.client = conn[c].client /\ k.server = conn[c].server
        /\ k.down = conn[c].down
        /\ conn[c].server => k.up = conn[c].up \o <<x>> /\ k.reset = conn[c].reset
    <3>1. /\ k.at = conn[c].at /\ k.port = conn[c].port /\ k.client = conn[c].client
          /\ k.server = conn[c].server /\ k.down = conn[c].down
      BY <1>0, WrittenFields
    <3>2. k.up = IF conn[c].server THEN conn[c].up \o <<x>> ELSE conn[c].up
      BY <1>0, WrittenFields
    <3>3. k.reset = (conn[c].reset \/ ~conn[c].server)
      BY <1>0, WrittenFields
    <3> HIDE DEF k
    <3> QED
      BY <1>b, <3>1, <3>2, <3>3
  <2>2. conn' = [conn EXCEPT ![c] = k] /\ cpc' = [cpc EXCEPT ![c] = cpc[c]] /\ sent' = [sent EXCEPT ![c] = sent[c] + 1]
    BY <1>0, <1>10 DEF Write, SetConn
  <2> HIDE DEF k
  <2>3. conn'[c] = k /\ cpc'[c] = cpc[c] /\ sent'[c] = sent[c] + 1 /\ outcome'[c] = outcome[c]
    BY <1>0, <1>10, <2>2
  <2>4. c \notin Elements(queue[1])
    BY <1>1, <1>3, <1>10 DEF Untouched
  <2>5. ASSUME NEW p \in Processes, serves[p] = c PROVE Task(p)'
    <3>1. pc[p] = "chunks" /\ Sending(c, f) /\ conn[c].server
      BY <1>1, <1>4, <1>10, <2>5, SessionPhases DEF Asked, Untouched
    <3>2. k.up = conn[c].up \o <<x>> /\ ~k.reset /\ cpc[c] = "chunks" /\ k.down = <<>>
      BY <1>1, <1>10, <2>1, <3>1 DEF Sending
    <3>3. /\ Len(k.up) = Len(conn[c].up) + 1 /\ k.up[Len(conn[c].up) + 1] = x
          /\ \A i \in 1..Len(conn[c].up) : k.up[i] = conn[c].up[i]
      BY <1>u, <2>x, <3>2, Words
    <3> HIDE DEF x, f
    <3>4. Len(f) + Len(conn[c].up) = sent[c] /\ \A i \in 1..Len(f) : f[i] = <<c, FileData[i]>>
      BY <3>1 DEF Sending
    <3>5. Len(f) + Len(k.up) = sent'[c]
      BY <1>f, <1>u, <2>3, <3>3, <3>4
    <3>6. ASSUME NEW i \in 1..Len(k.up) PROVE k.up[i] = FileData[Len(f) + i]
      <4>1. CASE i \in 1..Len(conn[c].up)
        BY <3>1, <3>3, <4>1 DEF Sending
      <4>2. CASE i = Len(conn[c].up) + 1
        <5>1. Len(f) + i = sent[c] + 1
          BY <1>f, <1>u, <3>4, <4>2
        <5> QED
          BY <3>3, <4>2, <5>1 DEF x
      <4> QED
        BY SMTT(30), <1>u, <3>3, <3>6, <4>1, <4>2
    <3>7. k.client /\ k.port = conn[c].port
      BY <1>1, <2>1
    <3>8. /\ Len(f) + Len(conn'[c].up) = sent'[c]
          /\ \A i \in 1..Len(f) : f[i] = <<c, FileData[i]>>
          /\ \A i \in 1..Len(conn'[c].up) : conn'[c].up[i] = FileData[Len(f) + i]
          /\ conn'[c].client /\ ~conn'[c].reset /\ conn'[c].down = <<>> /\ conn'[c].port = conn[c].port
          /\ cpc'[c] = "chunks"
      BY <2>3, <3>2, <3>4, <3>5, <3>6, <3>7
    <3> QED
      BY <1>5, <2>5, <3>1, <3>8, PhaseKept DEF f
  <2>6. ~k.server => Left(c)'
    BY <1>1, <1>2, <2>1, <2>3 DEF Left
  <2>7. outcome' = [outcome EXCEPT ![c] = outcome[c]]
    BY <1>0, <1>10
  <2>8. cpc[c] \in Places \ {"new"}
    BY <1>0, <1>1
  <2> QED
    BY <1>1, <1>6, <2>1, <2>2, <2>4, <2>5, <2>6, <2>7, <2>8
<1>11. ASSUME NEW o \in {"sent", "blind", "failed", "killed"}, End(c, o), UNCHANGED sent,
              o = "sent" => cpc[c] = "chunks" /\ sent[c] = Len(FileData),
              o = "blind" => cpc[c] = "blind",
              o = "failed" => conn[c].reset
       PROVE  SessionsInv'
  <2> DEFINE k == ClosedByClient(conn[c])
  <2>1. /\ k.at = conn[c].at /\ k.port = conn[c].port /\ ~k.client /\ k.server = conn[c].server
        /\ k.down = conn[c].down /\ k.up = conn[c].up /\ k.reset = (conn[c].reset \/ conn[c].down # <<>>)
    BY <1>0, ClosedFields
  <2>2. conn' = [conn EXCEPT ![c] = k] /\ cpc' = [cpc EXCEPT ![c] = "over"] /\ outcome' = [outcome EXCEPT ![c] = o]
    BY <1>11 DEF End, SetConn, ClientGoes
  <2> HIDE DEF k
  <2>3. conn'[c] = k /\ cpc'[c] = "over" /\ sent'[c] = sent[c] /\ outcome'[c] = o
    BY <1>0, <1>11, <2>2
  <2>4. Untouched(c) => Untouched(c)'
    BY <1>1, <1>11, <2>1, <2>3 DEF Untouched
  <2>5. ASSUME NEW p \in Processes, serves[p] = c PROVE Task(p)'
    <3>1. CASE pc[p] \in {"mkdir", "request"} /\ Untouched(c)
      BY <1>5, <2>1, <2>3, <2>4, <2>5, <3>1, PhaseKept
    <3>2. CASE pc[p] = "ok" /\ Asked(c)
      <4>1. Asked(c)'
        BY <1>1, <1>11, <2>1, <2>3, <3>2 DEF Asked
      <4> QED
        BY <1>5, <2>1, <2>3, <2>5, <3>2, <4>1, PhaseKept
    <3>3. CASE pc[p] = "chunks" /\ Sending(c, f)
      <4>1. /\ Len(f) + Len(k.up) = sent[c]
            /\ \A i \in 1..Len(f) : f[i] = <<c, FileData[i]>>
            /\ \A i \in 1..Len(k.up) : k.up[i] = FileData[Len(f) + i]
        BY <2>1, <3>3 DEF Sending
      <4>2. \/ o = "killed"
            \/ o = "sent" /\ sent[c] = Len(FileData) /\ ~k.reset
        BY <1>1, <1>11, <2>1, <3>3 DEF Sending
      <4> QED
        BY <1>5, <2>1, <2>3, <2>5, <3>3, <4>1, <4>2, PhaseKept
    <3> QED
      BY <1>1, <2>5, <3>1, <3>2, <3>3, SessionPhases
  <2>6. ~k.server => Left(c)'
    BY <1>1, <1>2, <1>11, <2>1, <2>3 DEF Left
  <2>7. sent' = [sent EXCEPT ![c] = sent[c]]
    BY <1>0, <1>11
  <2>8. "over" \in Places \ {"new"}
    BY DEF Places
  <2> QED
    BY <1>3, <1>6, <2>1, <2>2, <2>4, <2>5, <2>6, <2>7, <2>8
<1>12. CASE cpc[c] \notin {"new", "over"} /\ End(c, "killed") /\ UNCHANGED sent
  BY <1>11, <1>12
<1>13. CASE PutClient(c)
  <2>1. CASE cpc[c] = "chunks" /\ sent[c] = Len(FileData) /\ End(c, "sent") /\ UNCHANGED sent
    BY <1>11, <2>1
  <2>2. CASE cpc[c] = "blind" /\ End(c, "blind") /\ UNCHANGED sent
    BY <1>11, <2>2
  <2>3. CASE Fail(c) /\ UNCHANGED sent
    BY <1>11, <2>3 DEF Fail
  <2> QED
    BY <1>7, <1>8, <1>9, <1>10, <1>13, <2>1, <2>2, <2>3 DEF PutClient
<1> QED
  BY <1>12, <1>13

(* A client that starts is in nobody's way, and nobody knows it yet.           *)
LEMMA ClientStarts ==
  ASSUME UploadState, NEW c \in Clients, cpc[c] = "new",
         \A d \in Clients : d # c => conn'[d] = conn[d] /\ cpc'[d] = cpc[d] /\ outcome'[d] = outcome[d],
         UNCHANGED <<program, sent, pc, serves, fileVars>>,
         RunInv(c)',
         Elements(queue'[1]) \subseteq Elements(queue[1]) \cup {c},
         c \in Elements(queue'[1]) => Untouched(c)',
         ~conn'[c].server => Left(c)'
  PROVE  SessionsInv'
<1>0. UNCHANGED <<store, made, received, saved>> /\ SessionsInv /\ Dirs' = Dirs
  BY DEF fileVars, UploadState, Dirs
<1>1. \A p \in Processes : serves[p] # c
  BY DEF UploadState, PlaceInv, Served
<1>2. c \notin received
  BY <1>0 DEF SessionsInv, Whole
<1>3. ASSUME NEW d \in Clients PROVE RunInv(d)' /\ (cpc'[d] # "new" /\ ~conn'[d].server => Left(d)')
  <2>1. CASE d = c
    BY <2>1
  <2>2. CASE d # c
    BY <1>0, <2>2 DEF SessionsInv, RunInv, Left
  <2> QED
    BY <2>1, <2>2
<1>4. ASSUME NEW d \in Elements(queue'[1]) PROVE Untouched(d)'
  <2>1. CASE d = c
    BY <1>4, <2>1
  <2>2. CASE d # c
    <3>1. Untouched(d) /\ d \in Clients
      BY <1>0, <1>4, <2>2, UploadTypes DEF SessionsInv
    <3> QED
      BY <2>2, <3>1 DEF Untouched
  <2> QED
    BY <2>1, <2>2
<1>5. ASSUME NEW p \in Processes PROVE Task(p)'
  <2>1. CASE serves[p] \in Clients
    <3> DEFINE d == serves[p]
    <3>1. Task(p) /\ conn'[d] = conn[d] /\ cpc'[d] = cpc[d] /\ sent'[d] = sent[d] /\ outcome'[d] = outcome[d]
      BY <1>0, <1>1, <2>1 DEF SessionsInv
    <3> QED
      BY <1>0, <3>1, SameTask
  <2>2. CASE serves[p] \notin Clients
    <3>1. pc'[p] \in {"idle", "dead"}
      BY <2>2, UploadTypes
    <3> QED
      BY <3>1 DEF Task
  <2> QED
    BY <2>1, <2>2
<1>6. ASSUME NEW d \in received' PROVE Whole(d)'
  <2>1. Whole(d) /\ d \in Clients /\ d # c
    BY <1>0, <1>2, <1>6, UploadTypes DEF SessionsInv
  <2> QED
    BY <1>0, <2>1 DEF Whole
<1>7. DirInv'
  <2>1. CASE Dirs
    <3>1. \A p \in Processes : pc[p] \in Past => serves[p] \in Clients /\ serves[p] # c
      BY <1>1, UploadTypes DEF Past
    <3>2. \A p \in Processes : pc'[p] \in Past => conn'[serves'[p]].port = conn[serves[p]].port
      BY <3>1
    <3>3. \A d \in received' : conn'[d].port = conn[d].port
      BY <1>0, <1>2, UploadTypes
    <3> QED
      BY <1>0, <2>1, <3>2, <3>3 DEF SessionsInv, DirInv
  <2>2. CASE ~Dirs
    BY <1>0, <2>2 DEF SessionsInv, DirInv
  <2> QED
    BY <2>1, <2>2
<1> QED
  BY <1>3, <1>4, <1>5, <1>6, <1>7 DEF SessionsInv

LEMMA StartTask ==
  ASSUME UploadState, NEW c \in Clients, Start(c),
         UNCHANGED <<program, layout, pc, serves, fileVars>>
  PROVE  SessionsInv'
<1>0. /\ conn[c] \in Connections /\ conn \in [Clients -> Connections]
      /\ cpc \in [Clients -> Places] /\ outcome \in [Clients -> Outcomes]
      /\ queue \in [Addresses -> Seq(Clients)] /\ 1 \in Addresses
  BY UploadTypes DEF UploadState, TypeInv, TypeOK, Places, Outcomes
<1>1. cpc[c] = "new" /\ conn[c].at = 1 /\ ~conn[c].client /\ sent[c] = 0 /\ outcome[c] = "none" /\ UNCHANGED sent
  BY DEF Start, UploadState, SessionsInv, RunInv
<1>2. ~conn[c].server /\ c \notin Elements(queue[1])
  BY <1>0, <1>1 DEF UploadState, PlaceInv, Queued
<1>3. ~Interactive
  BY DEF UploadState, Uploads, Interactive
<1>4. PICK n \in Ports : Connect(c, 1, n, "send")
  BY <1>3 DEF Start
<1>5. CASE Listening(1)
  <2> DEFINE k == Opened(1, n)
  <2>1. /\ k.at = 1 /\ k.client /\ k.server /\ ~k.reset /\ k.up = <<>> /\ k.down = <<>>
    BY OpenedFields
  <2>2. /\ conn' = [conn EXCEPT ![c] = k] /\ cpc' = [cpc EXCEPT ![c] = "send"] /\ UNCHANGED outcome
        /\ queue' = [queue EXCEPT ![1] = Append(queue[1], c)]
    BY <1>4, <1>5 DEF Connect, SetConn, ClientGoes
  <2> HIDE DEF k
  <2>3. conn'[c] = k /\ cpc'[c] = "send" /\ sent'[c] = 0 /\ outcome'[c] = "none"
    BY <1>0, <1>1, <2>2
  <2>4. RunInv(c)'
    BY <2>1, <2>3 DEF RunInv
  <2>5. Untouched(c)'
    BY <2>1, <2>3 DEF Untouched
  <2>6. queue'[1] = Append(queue[1], c)
    BY <1>0, <2>2
  <2>7. Elements(queue'[1]) = Elements(queue[1]) \cup {c}
    BY <1>0, <2>6, Joined
  <2>8. \A d \in Clients : d # c => conn'[d] = conn[d] /\ cpc'[d] = cpc[d] /\ outcome'[d] = outcome[d]
    BY <1>0, <2>2
  <2> QED
    BY <1>1, <2>1, <2>3, <2>4, <2>5, <2>7, <2>8, ClientStarts
<1>6. CASE ~Listening(1)
  <2> DEFINE k == ClosedByClient(conn[c])
  <2>1. k.at = 1 /\ ~k.client /\ ~k.server
    BY <1>0, <1>1, <1>2, ClosedFields
  <2>2. /\ conn' = [conn EXCEPT ![c] = k] /\ cpc' = [cpc EXCEPT ![c] = "over"] /\ UNCHANGED queue
        /\ outcome' = [outcome EXCEPT ![c] = "failed"]
    BY <1>4, <1>6 DEF Connect, End, SetConn, ClientGoes
  <2> HIDE DEF k
  <2>3. conn'[c] = k /\ cpc'[c] = "over" /\ outcome'[c] = "failed"
    BY <1>0, <2>2
  <2>4. RunInv(c)' /\ Left(c)'
    BY <2>1, <2>3 DEF RunInv, Left
  <2>5. \A d \in Clients : d # c => conn'[d] = conn[d] /\ cpc'[d] = cpc[d] /\ outcome'[d] = outcome[d]
    BY <1>0, <2>2
  <2> QED
    BY <1>1, <1>2, <2>2, <2>4, <2>5, ClientStarts
<1> QED
  BY <1>5, <1>6

LEMMA UploadInitial == Init => UploadInv
<1> SUFFICES ASSUME Init PROVE UploadInv
  OBVIOUS
<1>1. 1 \in Addresses /\ 1 \in Ports
  BY LayoutAssumption, NumberAssumption
<1> DEFINE j == ClosedByClient(Opened(1, 1))
           k == ClosedByServer(j)
<1>2. j \in Connections
  BY <1>1, OpenedType, ClosedType
<1>3. j.at = 1 /\ ~j.client
  <2>1. Opened(1, 1) \in Connections /\ Opened(1, 1).at = 1
    BY <1>1, OpenedType, OpenedFields
  <2> QED
    BY <2>1, ClosedFields
<1>4. k.at = 1 /\ ~k.client
  <2> HIDE DEF j
  <2> QED
    BY <1>2, <1>3, ClosedFields
<1>5. /\ \A c \in Clients : conn[c] = k /\ cpc[c] = "new" /\ sent[c] = 0 /\ outcome[c] = "none"
      /\ received = {} /\ queue[1] = <<>>
      /\ \A p \in Processes : pc[p] = IF p[2] <= Size(p[1]) THEN "idle" ELSE "dead"
  BY <1>1 DEF Init
<1> HIDE DEF k
<1>6. \A c \in Clients : RunInv(c)
  BY <1>4, <1>5 DEF RunInv
<1>7. \A p \in Processes : Task(p) /\ pc[p] \notin Past
  BY <1>5 DEF Task, Past
<1>8. Uploads => DirInv
  <2> SUFFICES ASSUME Uploads, ~Dirs, NEW p \in Processes, pc[p] # "dead" PROVE p[2] = 1
    BY <1>7 DEF DirInv
  <2>1. program = "upload"
    BY DEF Uploads, Dirs
  <2>2. p[2] \in 1..Workers /\ p[2] <= 1
    BY <1>5, <2>1 DEF Size, Processes
  <2> QED
    BY <2>2, NumberAssumption
<1>9. Elements(<<>>) = {}
  BY Deserted
<1> QED
  BY <1>5, <1>6, <1>7, <1>8, <1>9 DEF UploadInv, SessionsInv

LEMMA UploadStep ==
  ASSUME TypeInv, Followed => PlaceInv, UploadInv, [Next]_vars
  PROVE  UploadInv'
<1>1. program' = program
  BY DEF Next, Process, Client, User, ClientKilled, vars
<1>2. CASE Uploads
  <2> SUFFICES SessionsInv'
    BY <1>1, <1>2 DEF UploadInv, Uploads
  <2>1. UploadState
    BY <1>2 DEF UploadState, UploadInv, Uploads, Followed
  <2>2. ASSUME NEW p \in Processes, Process(p) PROVE SessionsInv'
    <3>1. UNCHANGED <<program, layout, clientVars>> /\ (Accept(p) \/ PutServer(p))
      BY <1>2, <2>2 DEF Process, Uploads
    <3>2. CASE PutServer(p)
      <4>1. pc[p] \notin {"idle", "dead"}
        BY <3>2 DEF PutServer, MakeDirectory, PutRequest, PutReply, PutEnds, PutChunk
      <4>2. serves[p] \in Clients
        BY <4>1, SessionType
      <4> QED
        BY <2>1, <3>1, <3>2, <4>2, PutTask
    <3> QED
      BY <2>1, <3>1, <3>2, SessionStarts
  <2>3. ASSUME NEW c \in Clients, Client(c) \/ User(c) \/ ClientKilled(c) PROVE SessionsInv'
    <3>1. CASE Client(c)
      BY <1>2, <2>1, <3>1, PutClientTask DEF Client, Uploads
    <3>2. CASE User(c)
      BY <1>2, <2>1, <3>2, StartTask DEF User, Uploads
    <3>3. CASE ClientKilled(c)
      BY <2>1, <3>3, PutClientTask DEF ClientKilled, processVars
    <3> QED
      BY <2>3, <3>1, <3>2, <3>3
  <2>4. CASE UNCHANGED vars
    <3>1. UNCHANGED <<program, conn, cpc, sent, outcome, queue, pc, serves, store, made, received, saved>>
      BY <2>4 DEF vars, clientVars, processVars, fileVars
    <3>2. \A p : Task(p)' <=> Task(p)
      BY <3>1 DEF Task, Untouched, Asked, Sending, Directory, Dirs
    <3>3. \A c : (RunInv(c)' <=> RunInv(c)) /\ (Untouched(c)' <=> Untouched(c)) /\ (Left(c)' <=> Left(c))
      BY <3>1 DEF RunInv, Untouched, Left
    <3>4. \A c : Whole(c)' <=> Whole(c)
      BY <3>1 DEF Whole, Dirs
    <3>5. DirInv' <=> DirInv
      BY <3>1 DEF DirInv, Dirs
    <3>6. SessionsInv
      BY <2>1 DEF UploadState
    <3> QED
      BY <3>1, <3>2, <3>3, <3>4, <3>5, <3>6 DEF SessionsInv
  <2> QED
    BY <2>2, <2>3, <2>4 DEF Next
<1>3. CASE ~Uploads
  <2> SUFFICES received' = {} /\ \A c \in Clients : outcome'[c] # "sent"
    BY <1>1, <1>3 DEF UploadInv, Uploads
  <2>1. received = {} /\ outcome \in [Clients -> Outcomes] /\ \A c \in Clients : outcome[c] # "sent"
    BY <1>3 DEF UploadInv, TypeInv, TypeOK, Outcomes
  <2>2. ASSUME NEW p \in Processes, Process(p) PROVE UNCHANGED <<received, outcome>>
    BY <1>3, <2>2 DEF Process, Uploads, Accept, clientVars, fileVars
  <2>3. ASSUME NEW c \in Clients, Client(c) \/ User(c) \/ ClientKilled(c)
        PROVE  received' = received /\ (outcome' = outcome \/ \E o \in Outcomes \ {"sent"} : outcome' = [outcome EXCEPT ![c] = o])
    <3>1. received' = received
      BY <2>3 DEF Client, User, ClientKilled, fileVars
    <3>2. {"blind", "ok", "nothing", "failed", "killed"} \subseteq Outcomes \ {"sent"}
      BY DEF Outcomes
    <3>3. CASE ClientKilled(c)
      BY <3>1, <3>2, <3>3 DEF ClientKilled, End
    <3>4. CASE User(c)
      BY <3>1, <3>2, <3>4 DEF User, Start, Connect, SumUser, GetUser, Fail, End
    <3>5. CASE Client(c)
      BY <1>3, <3>1, <3>2, <3>5 DEF Client, Uploads, RedirectClient, Redirected, Connect, SumClient, EncodeClient,
         GetClient, OldGetClient, Fail, End, EndReading
    <3> QED
      BY <2>3, <3>3, <3>4, <3>5
  <2>4. CASE UNCHANGED vars
    BY <2>1, <2>4 DEF vars, clientVars, fileVars
  <2> QED
    BY <2>1, <2>2, <2>3, <2>4 DEF Next
<1> QED
  BY <1>2, <1>3

LEMMA UploadInvariant == Spec => [](TypeInv /\ (Followed => PlaceInv) /\ UploadInv)
<1>1. (TypeInv /\ (Followed => AnswerInv /\ PlaceInv)) /\ UploadInv /\ [Next]_vars => UploadInv'
  BY UploadStep
<1>2. (TypeInv /\ (Followed => AnswerInv /\ PlaceInv)) => TypeInv /\ (Followed => PlaceInv)
  OBVIOUS
<1> QED
  BY <1>1, <1>2, UploadInitial, PlacesInvariant, PTL DEF Spec

(* A file that a server of 2014-09-10 reports as received is the beginning of  *)
(* one client's file, and all of it unless that client was killed; the child   *)
(* of server2.c has it in a directory of its own, where it stays.  A client    *)
(* that reports success was received or is still being served.                 *)
THEOREM ExamUploadsWhole == Spec => []UploadsWhole
<1>1. ASSUME TypeInv, Followed => PlaceInv, UploadInv PROVE UploadsWhole
  <2>1. CASE ~Uploads
    BY <1>1, <2>1 DEF UploadInv, UploadsWhole
  <2>2. CASE Uploads
    <3>1. UploadState /\ SessionsInv
      BY <1>1, <2>2 DEF UploadState, UploadInv, Uploads, Followed
    <3>2. ASSUME NEW c \in received
          PROVE  /\ IsPrefix(saved[c], File(c)) /\ (c \in Killed \/ saved[c] = File(c))
                 /\ Dirs => store[conn[c].port] = saved[c]
      <4>1. Whole(c) /\ c \in Clients
        BY <3>1, <3>2, UploadTypes DEF SessionsInv
      <4> DEFINE s == saved[c]
                 w == File(c)
      <4>2. /\ s \in Seq(Clients \X Chunks) /\ Len(s) \in Nat /\ sent[c] \in 0..Len(FileData)
            /\ Len(FileData) \in Nat /\ DOMAIN FileData = 1..Len(FileData)
        <5>1. s \in Seq(Clients \X Chunks) /\ sent[c] \in 0..Len(FileData)
          BY <1>1, <4>1 DEF TypeInv, TypeOK
        <5> HIDE DEF s
        <5> QED
          BY <5>1, DataAssumption
      <4>3. /\ w \in Seq(Clients \X Chunks) /\ Len(w) = Len(FileData)
            /\ \A i \in 1..Len(FileData) : w[i] = <<c, FileData[i]>>
        <5>1. \A i \in 1..Len(FileData) : <<c, FileData[i]>> \in Clients \X Chunks
          BY <4>1, <4>2, DataAssumption DEF Chunks, ToSet
        <5> QED
          BY <4>2, <5>1 DEF File
      <4>4. Len(s) = sent[c] /\ \A i \in 1..sent[c] : s[i] = <<c, FileData[i]>>
        BY <4>1 DEF Whole
      <4> HIDE DEF s, w
      <4>5. Len(s) <= Len(w) /\ \A i \in 1..Len(s) : s[i] = w[i]
        BY <4>2, <4>3, <4>4
      <4>6. IsPrefix(s, w)
        <5>1. SubSeq(s, 1, Len(s)) = SubSeq(w, 1, Len(s))
          BY <4>2, <4>3, <4>5
        <5> QED
          BY <4>5, <5>1 DEF IsPrefix
      <4>7. c \in Killed \/ s = w
        <5>1. CASE outcome[c] = "killed"
          BY <4>1, <5>1 DEF Killed
        <5>2. CASE outcome[c] = "sent"
          <6>1. Len(s) = Len(w)
            BY <4>1, <4>3, <4>4, <5>2 DEF Whole
          <6> QED
            BY <4>2, <4>3, <4>5, <6>1
        <5> QED
          BY <4>1, <5>1, <5>2 DEF Whole
      <4> QED
        BY <4>1, <4>6, <4>7 DEF Whole, s, w
    <3>3. ASSUME NEW c \in Clients, outcome[c] = "sent" PROVE c \in received \/ Served(c)
      <4>1. cpc[c] # "new" /\ ~conn[c].client
        BY <3>1, <3>3 DEF SessionsInv, RunInv
      <4>2. CASE ~conn[c].server
        BY <3>1, <3>3, <4>1, <4>2 DEF SessionsInv, Left
      <4>3. CASE conn[c].server
        <5>1. CASE Served(c)
          BY <5>1
        <5>2. CASE Queued(c)
          <6>1. PICK a \in Addresses : c \in Elements(queue[a])
            BY <5>2 DEF Queued
          <6>2. conn[c].at = a /\ conn[c].at = 1
            BY <3>1, <6>1 DEF UploadState, PlaceInv, SessionsInv, RunInv
          <6>3. Untouched(c)
            BY <3>1, <6>1, <6>2 DEF SessionsInv
          <6> QED
            BY <3>3, <4>1, <6>3 DEF Untouched
        <5> QED
          BY <3>1, <4>3, <5>1, <5>2 DEF UploadState, PlaceInv
      <4> QED
        BY <4>2, <4>3
    <3> QED
      BY <3>2, <3>3 DEF UploadsWhole
  <2> QED
    BY <2>1, <2>2
<1> QED
  BY <1>1, UploadInvariant, PTL

-------------------------------------------------------------------------------
(* The redirections: a client that is under way has tried the first servers    *)
(* and is at the next.                                                         *)

\* Every server that one is sent to is there (server 0 is none).
ServersThere ==
  \A l \in Layouts : /\ 1 \in DOMAIN l.next /\ 0 \notin DOMAIN l.next
                     /\ \A a \in DOMAIN l.next : l.next[a] \in DOMAIN l.next \cup {0}

Having == {k \in 0..MAX_REDIRECTIONS : Hop[k] \in layout.holds}
Target == IF Having = {} THEN 0 ELSE Hop[Min(Having)]

\* Client c has come so far.
UnderWay(c) ==
  /\ cpc[c] \in {"send", "wait"} /\ found[c] = 0 /\ outcome[c] = "none"
  /\ conn[c].client /\ ~conn[c].reset
  /\ hops[c] \in 0..MAX_REDIRECTIONS /\ conn[c].at = Hop[hops[c]] /\ conn[c].at \in DOMAIN layout.next
  /\ \A j \in 0..MAX_REDIRECTIONS : j < hops[c] => Hop[j] \notin layout.holds
  /\ ~conn[c].server => cpc[c] = "wait" /\ conn[c].down = <<Answer(conn[c].at)>>

Route(c) ==
  \/ cpc[c] = "new" /\ found[c] = 0 /\ outcome[c] = "none" /\ hops[c] = 0
  \/ UnderWay(c)
  \/ cpc[c] = "over" /\ outcome[c] # "none" /\ found[c] = Target

\* Its request has not been read; has been, and not answered.
Before(c) ==
  cpc[c] \in {"send", "wait"} /\ conn[c].down = <<>>
    /\ conn[c].up = IF cpc[c] = "send" THEN <<>> ELSE <<"GET">>

After(c) == cpc[c] = "wait" /\ conn[c].down = <<>> /\ conn[c].up = <<>>

Turn(p) ==
  /\ pc[p] \in {"idle", "dead", "request", "reply"}
  /\ p[2] <= Size(p[1]) => pc[p] # "dead"
  /\ pc[p] = "request" => Before(serves[p])
  /\ pc[p] = "reply" => After(serves[p])

RoutesInv ==
  /\ \A c \in Clients : Route(c)
  /\ \A a \in Addresses : \A c \in Elements(queue[a]) : Before(c)
  /\ \A p \in Processes : Turn(p)

RouteInv == program = "redirect" /\ Killed = {} => RoutesInv

\* A client that has ended, as a client that was killed, has ended for good.
EndInv == \A c \in Clients : program = "redirect" /\ outcome[c] # "none" => cpc[c] = "over"

\* What is known before a step of these programs.
RouteState == TypeInv /\ AnswerInv /\ PlaceInv /\ program = "redirect" /\ RoutesInv

(* The stations of the way, one after the other.                               *)
LEMMA Stations ==
  /\ Hop[0] = 1
  /\ \A k \in 1..MAX_REDIRECTIONS : Hop[k] = IF Hop[k - 1] = 0 THEN 0 ELSE layout.next[Hop[k - 1]]
<1> DEFINE N(x) == IF x = 0 THEN 0 ELSE layout.next[x]
           S == 0..MAX_REDIRECTIONS
           Is(h) == h = [k \in S |-> IF k = 0 THEN 1 ELSE IF h[k - 1] = 0 THEN 0 ELSE layout.next[h[k - 1]]]
           g == [k \in S |-> IF k = 0 THEN 1 ELSE IF k = 1 THEN N(1) ELSE IF k = 2 THEN N(N(1))
                             ELSE IF k = 3 THEN N(N(N(1))) ELSE N(N(N(N(1))))]
<1>1. S = {0, 1, 2, 3, 4}
  BY DEF MAX_REDIRECTIONS
<1>2. Is(g)
  <2> SUFFICES ASSUME NEW k \in S
               PROVE  g[k] = IF k = 0 THEN 1 ELSE IF g[k - 1] = 0 THEN 0 ELSE layout.next[g[k - 1]]
    OBVIOUS
  <2> HIDE DEF N, S
  <2>1. CASE k = 0
    BY <1>1, <2>1
  <2>2. CASE k # 0
    <3>1. k - 1 \in S /\ g[k] = N(g[k - 1])
      BY <1>1, <2>2
    <3> QED
      BY <2>2, <3>1 DEF N
  <2> QED
    BY <2>1, <2>2
<1>3. Hop = CHOOSE h : Is(h)
  BY DEF Hop
<1> HIDE DEF Is
<1>4. Is(Hop)
  BY <1>2, <1>3
<1> USE DEF Is
<1>5. Hop = [k \in S |-> IF k = 0 THEN 1 ELSE IF Hop[k - 1] = 0 THEN 0 ELSE layout.next[Hop[k - 1]]]
  BY <1>4
<1> HIDE DEF Hop, Is
<1>6. \A k \in S : Hop[k] = IF k = 0 THEN 1 ELSE IF Hop[k - 1] = 0 THEN 0 ELSE layout.next[Hop[k - 1]]
  BY <1>5
<1>7. 0 \in S /\ \A k \in 1..MAX_REDIRECTIONS : k \in S /\ k # 0
  BY DEF MAX_REDIRECTIONS
<1> HIDE DEF S
<1> QED
  BY <1>6, <1>7

(* The first station with the file is where it is found.                       *)
LEMMA TargetFound ==
  ASSUME NEW k \in 0..MAX_REDIRECTIONS, Hop[k] \in layout.holds,
         \A j \in 0..MAX_REDIRECTIONS : j < k => Hop[j] \notin layout.holds
  PROVE  Target = Hop[k]
<1>1. k \in Having /\ \A j \in Having : k <= j /\ j \in Nat
  BY DEF Having, MAX_REDIRECTIONS
<1>2. \A m \in Having : (\A j \in Having : m <= j) => m = k
  BY <1>1
<1>3. Min(Having) = k
  BY <1>1, <1>2 DEF Min
<1> QED
  BY <1>1, <1>3 DEF Target

LEMMA TargetMissing ==
  ASSUME \A j \in 0..MAX_REDIRECTIONS : Hop[j] \notin layout.holds
  PROVE  Target = 0
BY DEF Target, Having

(* Nobody is elsewhere on his way because of what others do.                   *)
LEMMA RouteKept ==
  ASSUME UNCHANGED <<program, layout>>, NEW d, Route(d), conn'[d] = conn[d], cpc'[d] = cpc[d],
         hops'[d] = hops[d], found'[d] = found[d], outcome'[d] = outcome[d]
  PROVE  Route(d)'
<1>1. Hop' = Hop /\ Target' = Target
  BY DEF Hop, Target, Having
<1> HIDE DEF Hop
<1>2. UnderWay(d) => UnderWay(d)'
  BY <1>1 DEF UnderWay, Answer
<1> QED
  BY <1>1, <1>2 DEF Route

(* A step that concerns one client.                                            *)
LEMMA RouteFrame ==
  ASSUME RouteState, NEW c \in Clients, UNCHANGED <<program, layout>>,
         \A d \in Clients : d # c =>
           /\ conn'[d] = conn[d] /\ cpc'[d] = cpc[d] /\ hops'[d] = hops[d]
           /\ found'[d] = found[d] /\ outcome'[d] = outcome[d],
         \A p \in Processes :
           \/ pc'[p] = pc[p] /\ serves'[p] = serves[p] /\ serves[p] # c
           \/ Turn(p)',
         \A a \in Addresses : \A d \in Elements(queue'[a]) :
           (d \in Elements(queue[a]) /\ d # c) \/ Before(d)',
         Route(c)'
  PROVE  RoutesInv'
<1>0. RoutesInv /\ TypeInv
  BY DEF RouteState
<1>2. ASSUME NEW d \in Clients PROVE Route(d)'
  BY <1>0, RouteKept DEF RoutesInv
<1>3. ASSUME NEW a \in Addresses, NEW d \in Elements(queue'[a]) PROVE Before(d)'
  <2>1. CASE d \in Elements(queue[a]) /\ d # c
    <3>1. Before(d) /\ d \in Clients
      BY <1>0, <2>1, QueueTypes DEF RoutesInv
    <3> QED
      BY <2>1, <3>1 DEF Before
  <2> QED
    BY <1>3, <2>1
<1>4. ASSUME NEW p \in Processes PROVE Turn(p)'
  <2>1. CASE pc'[p] = pc[p] /\ serves'[p] = serves[p] /\ serves[p] # c
    <3>1. Turn(p) /\ serves[p] \in Clients \cup {NoClient} /\ (Size(p[1])' = Size(p[1]))
          /\ (serves[p] = NoClient <=> pc[p] \in {"idle", "dead"})
      BY <1>0 DEF RoutesInv, TypeInv, TypeOK, Size
    <3>2. pc[p] = "request" => Before(serves[p])'
      BY <2>1, <3>1 DEF Turn, Before
    <3>3. pc[p] = "reply" => After(serves[p])'
      BY <2>1, <3>1 DEF Turn, After
    <3> QED
      BY <2>1, <3>1, <3>2, <3>3 DEF Turn
  <2> QED
    BY <2>1
<1> QED
  BY <1>2, <1>3, <1>4 DEF RoutesInv

(* Where there is no next station, there is none later.                        *)
LEMMA NoneAfter ==
  ASSUME NEW k \in 0..MAX_REDIRECTIONS, layout.next[Hop[k]] = 0,
         NEW j \in 0..MAX_REDIRECTIONS, k < j
  PROVE  Hop[j] = 0
<1>1. \A i \in 1..4 : Hop[i] = IF Hop[i - 1] = 0 THEN 0 ELSE layout.next[Hop[i - 1]]
  BY Stations DEF MAX_REDIRECTIONS
<1> HIDE DEF Hop
<1>2. k < 4 => Hop[k + 1] = 0
  BY <1>1 DEF MAX_REDIRECTIONS
<1>3. \A i \in 1..4 : Hop[i - 1] = 0 => Hop[i] = 0
  BY <1>1
<1>4. (Hop[1] = 0 => Hop[2] = 0) /\ (Hop[2] = 0 => Hop[3] = 0) /\ (Hop[3] = 0 => Hop[4] = 0)
  BY <1>3
<1>5. k \in {0, 1, 2, 3} /\ j \in {1, 2, 3, 4}
  BY DEF MAX_REDIRECTIONS
<1>6. \/ k = 0 /\ Hop[1] = 0
      \/ k = 1 /\ Hop[2] = 0
      \/ k = 2 /\ Hop[3] = 0
      \/ k = 3 /\ Hop[4] = 0
  BY <1>2, <1>5
<1> QED
  BY <1>4, <1>5, <1>6

(* Where a client that runs on its own stands among the servers.               *)
LEMMA Unplaced ==
  ASSUME RouteState, NEW c \in Clients, ~conn[c].server
  PROVE  /\ \A p \in Processes : serves[p] # c
         /\ \A a \in Addresses : c \notin Elements(queue[a])
BY DEF RouteState, PlaceInv, Queued, Served

(* What is there to read for a client that is under way.                       *)
LEMMA AnswerThere ==
  ASSUME RouteState, NEW c \in Clients, UnderWay(c), conn[c].down # <<>>
  PROVE  /\ ~conn[c].server /\ conn[c].down = <<Answer(conn[c].at)>>
         /\ ReadByClient(conn[c]).down = <<>> /\ conn[c] \in Connections
<1>1. ~conn[c].server /\ conn[c] \in Connections
  BY DEF RouteState, AnswerInv, TypeInv, TypeOK
<1>2. conn[c].down = <<Answer(conn[c].at)>>
  BY <1>1 DEF UnderWay
<1>3. \A x : Tail(<<x>>) = <<>>
  OBVIOUS
<1>4. ReadByClient(conn[c]).down = Tail(conn[c].down)
  BY <1>1, ReadFields
<1> QED
  BY <1>1, <1>2, <1>3, <1>4

(* The client ends, having found what it should.                               *)
LEMMA RouteEnds ==
  ASSUME RouteState, NEW c \in Clients, UNCHANGED <<program, layout, pc, serves, queue>>,
         NEW result, result # "none", End(c, result) \/ EndReading(c, result), ~conn[c].server,
         \A d \in Clients : d # c => hops'[d] = hops[d] /\ found'[d] = found[d],
         found'[c] = Target
  PROVE  RoutesInv'
<1>1. /\ conn \in [Clients -> Connections] /\ cpc \in [Clients -> Places]
      /\ outcome \in [Clients -> Outcomes]
  BY DEF RouteState, TypeInv, TypeOK, Places, Outcomes
<1>2. /\ cpc'[c] = "over" /\ outcome'[c] = result
      /\ \A d \in Clients : d # c => conn'[d] = conn[d] /\ cpc'[d] = cpc[d] /\ outcome'[d] = outcome[d]
  BY <1>1 DEF End, EndReading, SetConn, ClientGoes
<1>3. Target' = Target
  BY DEF Target, Having, Hop
<1>4. Route(c)'
  BY <1>2, <1>3 DEF Route
<1>5. \A p \in Processes : pc'[p] = pc[p] /\ serves'[p] = serves[p] /\ serves[p] # c
  BY Unplaced
<1>6. \A a \in Addresses : \A d \in Elements(queue'[a]) : d \in Elements(queue[a]) /\ d # c
  BY Unplaced
<1> QED
  BY <1>2, <1>4, <1>5, <1>6, RouteFrame

(* The client is where it is sent.                                             *)
LEMMA RouteConnects ==
  ASSUME RouteState, NEW c \in Clients, UNCHANGED <<program, layout, pc, serves>>,
         NEW a \in DOMAIN layout.next, NEW n, Connect(c, a, n, "send"), ~conn[c].server,
         \A d \in Clients : d # c => hops'[d] = hops[d] /\ found'[d] = found[d],
         outcome[c] = "none", found'[c] = 0,
         hops'[c] \in 0..MAX_REDIRECTIONS, a = Hop[hops'[c]],
         \A j \in 0..MAX_REDIRECTIONS : j < hops'[c] => Hop[j] \notin layout.holds
  PROVE  RoutesInv'
<1>1. /\ conn \in [Clients -> Connections] /\ cpc \in [Clients -> Places]
      /\ queue \in [Addresses -> Seq(Clients)] /\ layout \in Layouts
  BY DEF RouteState, TypeInv, TypeOK, Places
<1>2. a \in Addresses
  BY <1>1 DEF Addresses
<1>3. Listening(a)
  <2>1. Workers \in Nat \ {0} /\ 1 \in 1..Workers
    BY NumberAssumption
  <2>2. <<a, 1>> \in Processes /\ <<a, 1>>[1] = a /\ <<a, 1>>[2] = 1
    BY <1>2, <2>1 DEF Processes
  <2>3. 1 <= Size(a)
    <3>1. Size(a) = 1 \/ Size(a) = Workers
      BY Zenon DEF Size
    <3> QED
      BY <2>1, <3>1
  <2>4. Turn(<<a, 1>>)
    BY <2>2 DEF RouteState, RoutesInv
  <2>5. pc[<<a, 1>>] # "dead"
    BY <2>2, <2>3, <2>4 DEF Turn
  <2> QED
    BY <2>2, <2>5 DEF Listening
<1>4. /\ conn' = [conn EXCEPT ![c] = Opened(a, n)] /\ cpc' = [cpc EXCEPT ![c] = "send"]
      /\ queue' = [queue EXCEPT ![a] = Append(@, c)] /\ UNCHANGED outcome
  BY <1>3 DEF Connect, SetConn, ClientGoes
<1>5. /\ conn'[c] = Opened(a, n) /\ cpc'[c] = "send" /\ outcome'[c] = "none"
      /\ \A d \in Clients : d # c => conn'[d] = conn[d] /\ cpc'[d] = cpc[d] /\ outcome'[d] = outcome[d]
  BY <1>1, <1>4
<1>6. /\ conn'[c].at = a /\ conn'[c].client /\ conn'[c].server /\ ~conn'[c].reset
      /\ conn'[c].up = <<>> /\ conn'[c].down = <<>>
  BY <1>5, OpenedFields
<1>7. Before(c)'
  BY <1>5, <1>6 DEF Before
<1>8. Route(c)'
  <2>1. Hop' = Hop
    BY DEF Hop
  <2> HIDE DEF Hop
  <2>2. UnderWay(c)'
    BY <1>5, <1>6, <2>1 DEF UnderWay
  <2> QED
    BY <2>2 DEF Route
<1>9. \A p \in Processes : pc'[p] = pc[p] /\ serves'[p] = serves[p] /\ serves[p] # c
  BY Unplaced
<1>10. ASSUME NEW b \in Addresses, NEW d \in Elements(queue'[b])
       PROVE  (d \in Elements(queue[b]) /\ d # c) \/ Before(d)'
  <2>1. Elements(Append(queue[a], c)) = Elements(queue[a]) \cup {c}
    BY <1>1, <1>2, Joined
  <2>2. Elements(queue'[b]) \subseteq Elements(queue[b]) \cup {c}
    BY <1>1, <1>2, <1>4, <2>1
  <2> QED
    BY <1>7, <1>10, <2>2
<1> QED
  BY <1>5, <1>8, <1>9, <1>10, RouteFrame

(* The steps of the client.                                                    *)
LEMMA RouteSends ==
  ASSUME RouteState, NEW c \in Clients, cpc[c] = "send", Write(c, <<"GET">>), ClientGoes(c, "wait"),
         UNCHANGED <<program, layout, pc, serves, queue, hops, outcome, found>>
  PROVE  RoutesInv'
<1>1. conn \in [Clients -> Connections] /\ cpc \in [Clients -> Places] /\ conn[c] \in Connections
  BY DEF RouteState, TypeInv, TypeOK, Places
<1>2. UnderWay(c)
  BY DEF RouteState, RoutesInv, Route
<1>3. conn[c].server
  BY <1>1, <1>2 DEF UnderWay, Connections
<1>4. /\ \A p \in Processes : serves[p] = c => pc[p] = "request" /\ Before(c)
      /\ \A a \in Addresses : c \in Elements(queue[a]) => Before(c)
  <2>1. ASSUME NEW p \in Processes, serves[p] = c PROVE pc[p] = "request" /\ Before(c)
    <3>1. Turn(p) /\ pc[p] \notin {"idle", "dead"}
      BY <2>1, QueueTypes DEF RouteState, RoutesInv, TypeInv, TypeOK
    <3> QED
      BY <2>1, <3>1 DEF Turn, After
  <2> QED
    BY <2>1 DEF RouteState, RoutesInv
<1>5. Before(c)
  <2>1. Queued(c) \/ Served(c)
    BY <1>3 DEF RouteState, PlaceInv
  <2> QED
    BY <1>4, <2>1 DEF Queued, Served
<1> DEFINE k == WrittenByClient(conn[c], <<"GET">>)
<1>6. /\ k.at = conn[c].at /\ k.client = conn[c].client /\ k.server = conn[c].server
      /\ k.up = conn[c].up \o <<"GET">> /\ k.down = conn[c].down /\ k.reset = conn[c].reset
  <2>1. /\ k.at = conn[c].at /\ k.client = conn[c].client /\ k.server = conn[c].server
        /\ k.up = (IF conn[c].server THEN conn[c].up \o <<"GET">> ELSE conn[c].up)
        /\ k.down = conn[c].down /\ k.reset = (conn[c].reset \/ ~conn[c].server)
    BY <1>1, WrittenFields
  <2>2. conn[c].reset \in BOOLEAN /\ conn[c].server \in BOOLEAN
    BY <1>1 DEF Connections
  <2> HIDE DEF k
  <2> QED
    BY <1>3, <2>1, <2>2
<1>7. <<>> \o <<"GET">> = <<"GET">>
  OBVIOUS
<1>8. k.up = <<"GET">> /\ k.down = <<>>
  BY <1>5, <1>6, <1>7 DEF Before
<1>9. /\ conn'[c] = k /\ cpc'[c] = "wait"
      /\ \A d \in Clients : d # c => conn'[d] = conn[d] /\ cpc'[d] = cpc[d]
  BY <1>1 DEF Write, SetConn, ClientGoes
<1> HIDE DEF k
<1>10. Before(c)'
  BY <1>8, <1>9 DEF Before
<1>11. Route(c)'
  <2>1. Hop' = Hop
    BY DEF Hop
  <2> HIDE DEF Hop
  <2>2. UnderWay(c)'
    BY <1>2, <1>3, <1>6, <1>9, <2>1 DEF UnderWay
  <2> QED
    BY <2>2 DEF Route
<1>12. ASSUME NEW p \in Processes, serves[p] = c PROVE Turn(p)'
  <2>1. pc[p] = "request" /\ Turn(p) /\ Size(p[1])' = Size(p[1])
    BY <1>4, <1>12 DEF RouteState, RoutesInv, Size
  <2> QED
    BY <1>10, <1>12, <2>1 DEF Turn
<1> QED
  BY <1>9, <1>10, <1>11, <1>12, RouteFrame

LEMMA RouteClient ==
  ASSUME ServersThere, RouteState, NEW c \in Clients, RedirectClient(c),
         UNCHANGED <<program, layout, pc, serves>>
  PROVE  RoutesInv'
<1>1. UnderWay(c)
  BY DEF RouteState, RoutesInv, Route, RedirectClient, Fail
<1>2. /\ hops \in [Clients -> 0..5] /\ found \in [Clients -> Addresses \cup {0}] /\ layout \in Layouts
      /\ hops[c] \in 0..MAX_REDIRECTIONS /\ found[c] = 0 /\ outcome[c] = "none"
      /\ conn[c].at = Hop[hops[c]] /\ conn[c].at \in DOMAIN layout.next
      /\ \A j \in 0..MAX_REDIRECTIONS : j < hops[c] => Hop[j] \notin layout.holds
  BY <1>1 DEF UnderWay, RouteState, TypeInv, TypeOK
<1> DEFINE x == conn[c].at
<1>3. layout.next[x] \in DOMAIN layout.next \cup {0} /\ 0 \notin DOMAIN layout.next /\ 0 \notin layout.holds
  BY <1>2, LayoutAssumption DEF ServersThere
<1>4. ASSUME NEW y, Arrived(c, y) PROVE y = Answer(x) /\ ~conn[c].server /\ conn[c].down # <<>>
  <2>1. conn[c].down # <<>> /\ Head(conn[c].down) = y
    BY <1>4 DEF Arrived
  <2>2. ~conn[c].server /\ conn[c].down = <<Answer(x)>>
    BY <1>1, <2>1, AnswerThere
  <2>3. \A z : Head(<<z>>) = z
    OBVIOUS
  <2> QED
    BY <2>1, <2>2, <2>3
<1> HIDE DEF Hop
<1>5. CASE cpc[c] = "send" /\ Write(c, <<"GET">>) /\ ClientGoes(c, "wait") /\ UNCHANGED <<hops, outcome, found, queue>>
  BY <1>5, RouteSends
<1>6. CASE /\ cpc[c] = "wait" /\ Arrived(c, "OK") /\ EndReading(c, "ok")
           /\ found' = [found EXCEPT ![c] = x] /\ UNCHANGED <<hops, queue>>
  <2>1. Answer(x) = "OK" /\ ~conn[c].server
    BY <1>4, <1>6
  <2>2. x \in layout.holds
    BY <2>1 DEF Answer
  <2>3. Target = x
    BY <1>2, <2>2, TargetFound
  <2>4. /\ \A d \in Clients : d # c => hops'[d] = hops[d] /\ found'[d] = found[d]
        /\ found'[c] = Target
    BY <1>2, <1>6, <2>3
  <2> QED
    BY <1>6, <2>1, <2>4, RouteEnds
<1>7. CASE /\ cpc[c] = "wait" /\ Arrived(c, "RED") /\ Redirected(c)
           /\ hops' = [hops EXCEPT ![c] = @ + 1] /\ UNCHANGED found
  <2>1. Answer(x) = "RED" /\ ~conn[c].server
    BY <1>4, <1>7
  <2>2. x \notin layout.holds /\ layout.next[x] # 0
    BY <2>1 DEF Answer
  <2>3. hops'[c] = hops[c] + 1 /\ \A d \in Clients : d # c => hops'[d] = hops[d] /\ found'[d] = found[d]
    BY <1>2, <1>7
  <2>4. \A j \in 0..MAX_REDIRECTIONS : j < hops[c] + 1 => Hop[j] \notin layout.holds
    <3>1. \A j \in 0..MAX_REDIRECTIONS : j < hops[c] + 1 => j < hops[c] \/ j = hops[c]
      BY <1>2 DEF MAX_REDIRECTIONS
    <3> QED
      BY <1>2, <2>2, <3>1
  <2>5. CASE hops[c] < MAX_REDIRECTIONS
    <3> DEFINE a == layout.next[x]
    <3>1. a \in DOMAIN layout.next
      BY <1>3, <2>2
    <3>2. hops[c] + 1 \in 1..MAX_REDIRECTIONS /\ (hops[c] + 1) - 1 = hops[c]
      BY <1>2, <2>5 DEF MAX_REDIRECTIONS
    <3>3. a = Hop[hops[c] + 1]
      <4>1. Hop[hops[c] + 1] = IF Hop[hops[c]] = 0 THEN 0 ELSE layout.next[Hop[hops[c]]]
        BY <3>2, Stations
      <4> QED
        BY <1>2, <1>3, <4>1
    <3>4. Connect(c, a, conn[c].port, "send")
      BY <1>7, <2>5 DEF Redirected
    <3>5. hops'[c] \in 0..MAX_REDIRECTIONS
      BY <2>3, <3>2 DEF MAX_REDIRECTIONS
    <3>6. found'[c] = 0 /\ a = Hop[hops'[c]]
      BY <1>2, <1>7, <2>3, <3>3
    <3>7. \A j \in 0..MAX_REDIRECTIONS : j < hops'[c] => Hop[j] \notin layout.holds
      BY <2>3, <2>4
    <3> HIDE DEF a
    <3> QED
      BY <1>2, <2>1, <2>3, <3>1, <3>4, <3>5, <3>6, <3>7, RouteConnects
  <2>6. CASE ~(hops[c] < MAX_REDIRECTIONS)
    <3>1. \A j \in 0..MAX_REDIRECTIONS : j < hops[c] + 1
      BY <1>2, <2>6 DEF MAX_REDIRECTIONS
    <3>2. Target = 0
      BY <2>4, <3>1, TargetMissing
    <3>3. EndReading(c, "nothing") /\ UNCHANGED queue
      BY <1>7, <2>6 DEF Redirected
    <3> QED
      BY <1>2, <1>7, <2>1, <2>3, <3>2, <3>3, RouteEnds
  <2> QED
    BY <2>5, <2>6
<1>8. CASE /\ cpc[c] = "wait" /\ Arrived(c, "ERR") /\ EndReading(c, "nothing")
           /\ UNCHANGED <<hops, found, queue>>
  <2>1. Answer(x) = "ERR" /\ ~conn[c].server
    BY <1>4, <1>8
  <2>2. x \notin layout.holds /\ layout.next[x] = 0
    BY <2>1 DEF Answer
  <2>3. ASSUME NEW j \in 0..MAX_REDIRECTIONS PROVE Hop[j] \notin layout.holds
    <3>1. CASE hops[c] < j
      <4>1. Hop[j] = 0
        BY <1>2, <2>2, <3>1, NoneAfter
      <4> QED
        BY <1>3, <4>1
    <3>2. CASE hops[c] = j
      BY <1>2, <2>2, <3>2
    <3>3. hops[c] < j \/ hops[c] = j \/ j < hops[c]
      BY <1>2 DEF MAX_REDIRECTIONS
    <3> QED
      BY <1>2, <3>1, <3>2, <3>3
  <2>4. Target = 0
    BY <2>3, TargetMissing
  <2> QED
    BY <1>2, <1>8, <2>1, <2>4, RouteEnds
<1>9. ASSUME AtEnd(c), cpc[c] = "wait" PROVE FALSE
  <2>1. conn[c].down = <<>> /\ ~conn[c].server
    BY <1>9 DEF AtEnd
  <2>2. conn[c].down = <<Answer(x)>>
    BY <1>1, <2>1 DEF UnderWay
  <2>3. \A z : <<z>> # <<>>
    OBVIOUS
  <2> QED
    BY <2>1, <2>2, <2>3
<1>10. ~Fail(c)
  BY <1>1 DEF Fail, UnderWay
<1> QED
  BY <1>5, <1>6, <1>7, <1>8, <1>9, <1>10 DEF RedirectClient

LEMMA RouteStarts ==
  ASSUME ServersThere, RouteState, NEW c \in Clients, Start(c),
         UNCHANGED <<program, layout, pc, serves>>
  PROVE  RoutesInv'
<1>1. PICK n \in Ports : Connect(c, 1, n, IF Interactive THEN "prompt" ELSE "send")
  BY DEF Start
<1>2. ~Interactive
  BY DEF Interactive, RouteState
<1>3. cpc[c] = "new" /\ UNCHANGED <<hops, found>>
  BY DEF Start
<1>4. found[c] = 0 /\ outcome[c] = "none" /\ hops[c] = 0
  BY <1>3 DEF RouteState, RoutesInv, Route, UnderWay
<1>5. ~conn[c].server
  BY <1>3 DEF RouteState, PlaceInv
<1>6. 1 \in DOMAIN layout.next
  BY DEF ServersThere, RouteState, TypeInv, TypeOK
<1>7. Hop[0] = 1
  BY Stations
<1>8. 0 \in 0..MAX_REDIRECTIONS /\ \A j \in 0..MAX_REDIRECTIONS : ~(j < 0)
  BY DEF MAX_REDIRECTIONS
<1> HIDE DEF Hop
<1> QED
  BY <1>1, <1>2, <1>3, <1>4, <1>5, <1>6, <1>7, <1>8, RouteConnects

(* The steps of the servers.                                                   *)
LEMMA RouteAccepts ==
  ASSUME RouteState, NEW p \in Processes, Accept(p), UNCHANGED <<program, layout, clientVars>>
  PROVE  RoutesInv'
<1> DEFINE a == p[1]
<1>1. /\ a \in Addresses /\ queue \in [Addresses -> Seq(Clients)] /\ queue[a] # <<>>
      /\ pc \in [Processes -> {"idle", "mkdir", "request", "second", "ok", "err", "reply", "chunks",
                               "fail", "dead"}]
      /\ serves \in [Processes -> Clients \cup {NoClient}]
  BY QueueTypes DEF Accept, RouteState, TypeInv, TypeOK
<1>2. PICK h \in Clients : h = Head(queue[a]) /\ h \in Elements(queue[a]) /\ h \notin Elements(Tail(queue[a]))
                           /\ Elements(Tail(queue[a])) \subseteq Elements(queue[a])
  BY <1>1, Departed DEF RouteState, PlaceInv
<1>3. /\ pc' = [pc EXCEPT ![p] = "request"] /\ serves' = [serves EXCEPT ![p] = h]
      /\ queue' = [queue EXCEPT ![a] = Tail(@)] /\ UNCHANGED conn
  BY <1>2 DEF Accept, RouteState, Dirs
<1> HIDE DEF a
<1>4. conn[h].at = a /\ ~Served(h) /\ Before(h)
  BY <1>1, <1>2 DEF RouteState, PlaceInv, RoutesInv
<1>5. \A d \in Clients : /\ conn'[d] = conn[d] /\ cpc'[d] = cpc[d] /\ hops'[d] = hops[d]
                         /\ found'[d] = found[d] /\ outcome'[d] = outcome[d]
  BY <1>3 DEF clientVars
<1>6. Before(h)'
  BY <1>2, <1>4, <1>5 DEF Before
<1>7. Turn(p)'
  BY <1>1, <1>3, <1>6 DEF Turn
<1>8. \A r \in Processes : \/ pc'[r] = pc[r] /\ serves'[r] = serves[r] /\ serves[r] # h
                           \/ Turn(r)'
  BY <1>1, <1>3, <1>4, <1>7 DEF Served
<1>9. ASSUME NEW b \in Addresses, NEW d \in Elements(queue'[b]) PROVE d \in Elements(queue[b]) /\ d # h
  <2>1. CASE b = a
    <3>1. queue'[b] = Tail(queue[a])
      BY <1>1, <1>3, <2>1
    <3> QED
      BY <1>2, <1>9, <2>1, <3>1
  <2>2. CASE b # a
    <3>1. queue'[b] = queue[b]
      BY <1>1, <1>3, <2>2
    <3>2. h \notin Elements(queue[b])
      BY <1>4, <2>2 DEF RouteState, PlaceInv
    <3> QED
      BY <1>9, <3>1, <3>2
  <2> QED
    BY <2>1, <2>2
<1>10. Route(h)'
  BY <1>2, <1>5, RouteKept DEF RouteState, RoutesInv
<1> QED
  BY <1>2, <1>5, <1>8, <1>9, <1>10, RouteFrame

(* A process goes on with its client, or leaves it.                            *)
LEMMA RouteServes ==
  ASSUME RouteState, NEW p \in Processes, NEW c \in Clients, serves[p] = c, NEW k, SetSession(p, k),
         UNCHANGED <<program, layout, clientVars, queue>>,
         NEW next, pc' = [pc EXCEPT ![p] = next], \A r \in Processes : r # p => serves'[r] = serves[r],
         Turn(p)', Route(c)'
  PROVE  RoutesInv'
<1>1. /\ conn \in [Clients -> Connections]
      /\ pc \in [Processes -> {"idle", "mkdir", "request", "second", "ok", "err", "reply", "chunks",
                               "fail", "dead"}]
  BY DEF RouteState, TypeInv, TypeOK
<1>2. \A d \in Clients : d # c => /\ conn'[d] = conn[d] /\ cpc'[d] = cpc[d] /\ hops'[d] = hops[d]
                                  /\ found'[d] = found[d] /\ outcome'[d] = outcome[d]
  BY <1>1 DEF SetSession, clientVars
<1>3. c # NoClient /\ Served(c)
  BY ProgramAssumption DEF Served
<1>4. ASSUME NEW r \in Processes
      PROVE  \/ pc'[r] = pc[r] /\ serves'[r] = serves[r] /\ serves[r] # c
             \/ Turn(r)'
  <2>1. CASE r = p
    BY <2>1
  <2>2. CASE r # p
    <3>1. serves[r] # c
      BY <1>3, <2>2 DEF RouteState, PlaceInv
    <3> QED
      BY <1>1, <2>2, <3>1
  <2> QED
    BY <2>1, <2>2
<1>5. \A a \in Addresses : \A d \in Elements(queue'[a]) : d \in Elements(queue[a]) /\ d # c
  BY <1>3 DEF RouteState, PlaceInv
<1> QED
  BY <1>2, <1>4, <1>5, RouteFrame

LEMMA RouteServer ==
  ASSUME RouteState, NEW p \in Processes, RedirectServer(p),
         UNCHANGED <<program, layout, clientVars>>
  PROVE  RoutesInv'
<1>1. pc[p] \in {"request", "reply"}
  BY DEF RedirectServer, RedirectRequest, RedirectReply
<1>2. PICK c \in Clients : serves[p] = c /\ Session(p) = conn[c] /\ conn[c] \in Connections
  BY <1>1, SessionType DEF RouteState, Session
<1>3. /\ conn \in [Clients -> Connections]
      /\ pc \in [Processes -> {"idle", "mkdir", "request", "second", "ok", "err", "reply", "chunks",
                               "fail", "dead"}]
      /\ serves \in [Processes -> Clients \cup {NoClient}]
  BY DEF RouteState, TypeInv, TypeOK
<1>4. Turn(p)
  BY DEF RouteState, RoutesInv
<1>5. cpc[c] \in {"send", "wait"} /\ conn[c].down = <<>>
  BY <1>1, <1>2, <1>4 DEF Turn, Before, After
<1>6. UnderWay(c)
  BY <1>2, <1>5 DEF RouteState, RoutesInv, Route
<1>7. conn[c].client /\ ~conn[c].reset /\ conn[c].server /\ conn[c].at = p[1]
  <2>1. c # NoClient /\ Served(c)
    BY <1>2, ProgramAssumption DEF Served
  <2> QED
    BY <1>2, <1>6, <2>1 DEF RouteState, PlaceInv, UnderWay
<1> HIDE DEF Hop
<1>8. Hop' = Hop
  BY DEF Hop
<1>9. CASE pc[p] = "request" /\ Reads(p, "GET") /\ Took(p, "reply")
  <2> DEFINE k == ReadByServer(conn[c])
  <2>1. conn[c].up # <<>>
    BY <1>2, <1>9 DEF Reads
  <2>2. cpc[c] = "wait" /\ conn[c].up = <<"GET">>
    BY <1>2, <1>4, <1>9, <2>1 DEF Turn, Before
  <2>3. /\ k.at = conn[c].at /\ k.client = conn[c].client /\ k.server = conn[c].server
        /\ k.up = Tail(conn[c].up) /\ k.down = conn[c].down /\ k.reset = conn[c].reset
    BY <1>2, ReadFields
  <2>4. k.up = <<>>
    <3>1. Tail(<<"GET">>) = <<>>
      OBVIOUS
    <3> QED
      BY <2>2, <2>3, <3>1
  <2>5. SetSession(p, k) /\ pc' = [pc EXCEPT ![p] = "reply"] /\ UNCHANGED <<serves, queue>>
    BY <1>2, <1>9 DEF Took, ProcessGoes
  <2>6. conn'[c] = k /\ UNCHANGED <<cpc, hops, found, outcome>>
    BY <1>2, <1>3, <2>5 DEF SetSession, clientVars
  <2> HIDE DEF k
  <2>7. After(c)'
    BY <1>5, <2>2, <2>3, <2>4, <2>6 DEF After
  <2>8. Turn(p)'
    BY <1>2, <1>3, <2>5, <2>7 DEF Turn
  <2>9. Route(c)'
    <3>1. UnderWay(c)'
      BY <1>6, <1>7, <1>8, <2>3, <2>6 DEF UnderWay
    <3> QED
      BY <3>1 DEF Route
  <2> QED
    BY <1>2, <2>5, <2>8, <2>9, RouteServes
<1>10. ~Ended(p)
  BY <1>2, <1>7 DEF Ended
<1>11. CASE pc[p] = "reply" /\ WriteAndReturn(p, <<Answer(p[1])>>)
  <2> DEFINE w == Wrote(p, <<Answer(p[1])>>)
             k == ClosedByServer(w)
  <2>1. cpc[c] = "wait" /\ conn[c].up = <<>>
    BY <1>2, <1>4, <1>11 DEF Turn, After
  <2>2. \A x : <<>> \o <<x>> = <<x>>
    OBVIOUS
  <2>3. <<Answer(p[1])>> \in Seq(Answers)
    <3>1. Answer(p[1]) \in Answers
      BY DEF Answer, Answers
    <3> QED
      BY <3>1
  <2>4. /\ w \in Connections /\ w.at = conn[c].at /\ w.client = conn[c].client
        /\ w.up = conn[c].up /\ w.down = <<Answer(p[1])>> /\ ~w.reset
    <3>1. w \in Connections
      BY <1>2, <2>3, WrittenByServerType DEF Wrote
    <3>2. /\ w.at = conn[c].at /\ w.client = conn[c].client /\ w.up = conn[c].up
          /\ w.down = (IF conn[c].client THEN conn[c].down \o <<Answer(p[1])>> ELSE conn[c].down)
          /\ w.reset = (conn[c].reset \/ ~conn[c].client)
      BY <1>2, WrittenFields DEF Wrote
    <3> HIDE DEF w
    <3> QED
      BY <1>5, <1>7, <2>2, <3>1, <3>2
  <2> HIDE DEF w
  <2>5. /\ k.at = conn[c].at /\ k.client = conn[c].client /\ k.server = FALSE
        /\ k.down = <<Answer(p[1])>> /\ ~k.reset
    <3>1. /\ k.at = w.at /\ k.client = w.client /\ k.server = FALSE /\ k.down = w.down
          /\ k.reset = (w.reset \/ w.up # <<>>)
      BY <2>4, ClosedFields
    <3>2. w.up = <<>>
      BY <2>1, <2>4
    <3> HIDE DEF k
    <3> QED
      BY <2>4, <3>1, <3>2
  <2>6. /\ SetSession(p, k) /\ pc' = [pc EXCEPT ![p] = "idle"]
        /\ serves' = [serves EXCEPT ![p] = NoClient] /\ UNCHANGED queue
    BY <1>11 DEF WriteAndReturn, Return, w
  <2>7. conn'[c] = k /\ UNCHANGED <<cpc, hops, found, outcome>>
    BY <1>2, <1>3, <2>6 DEF SetSession, clientVars
  <2> HIDE DEF k
  <2>8. Turn(p)'
    BY <1>3, <2>6 DEF Turn
  <2>9. Route(c)'
    <3>1. Answer(p[1])' = Answer(p[1])
      BY DEF Answer
    <3>2. Answer(conn[c].at)' = Answer(p[1])
      BY <1>7, <2>5, <2>7 DEF Answer
    <3>3. UnderWay(c)'
      BY <1>6, <1>7, <1>8, <2>1, <2>5, <2>7, <3>2 DEF UnderWay
    <3> QED
      BY <3>3 DEF Route
  <2> QED
    BY <1>2, <1>3, <2>6, <2>8, <2>9, RouteServes
<1>12. ~WriteDies(p)
  BY <1>2, <1>7 DEF WriteDies
<1> QED
  BY <1>9, <1>10, <1>11, <1>12 DEF RedirectServer, RedirectRequest, RedirectReply

(* A client that has ended stays so, and one that was killed remains killed.   *)
LEMMA OneClientSteps ==
  ASSUME TypeInv, EndInv, program = "redirect", NEW c \in Clients,
         Client(c) \/ User(c) \/ ClientKilled(c)
  PROVE  /\ outcome[c] = "none"
         /\ outcome'[c] = "none" \/ cpc'[c] = "over"
         /\ \A d \in Clients : d # c => cpc'[d] = cpc[d] /\ outcome'[d] = outcome[d]
<1>1. cpc \in [Clients -> Places] /\ outcome \in [Clients -> Outcomes]
  BY DEF TypeInv, TypeOK, Places, Outcomes
<1>2. RedirectClient(c) \/ Start(c) \/ ClientKilled(c)
  BY DEF Client, User
<1>3. cpc[c] # "over" /\ outcome[c] = "none"
  BY <1>2 DEF RedirectClient, Start, ClientKilled, Fail, EndInv
<1>4. \/ \E result : End(c, result) \/ EndReading(c, result)
      \/ (\E next : ClientGoes(c, next)) /\ UNCHANGED outcome
  BY <1>2 DEF RedirectClient, Redirected, Start, Connect, ClientKilled, Fail
<1>5. CASE \E result : End(c, result) \/ EndReading(c, result)
  BY <1>1, <1>3, <1>5 DEF End, EndReading, ClientGoes
<1>6. CASE (\E next : ClientGoes(c, next)) /\ UNCHANGED outcome
  BY <1>1, <1>3, <1>6 DEF ClientGoes
<1> QED
  BY <1>4, <1>5, <1>6, <1>3

LEMMA EndStep ==
  ASSUME TypeInv, EndInv, [Next]_vars
  PROVE  EndInv' /\ (program = "redirect" => Killed \subseteq Killed')
<1>1. program' = program
  BY DEF Next, Process, Client, User, ClientKilled, vars
<1>2. CASE program # "redirect"
  BY <1>1, <1>2 DEF EndInv
<1>3. CASE program = "redirect"
  <2>1. ASSUME NEW c \in Clients, Client(c) \/ User(c) \/ ClientKilled(c)
        PROVE  EndInv' /\ Killed \subseteq Killed'
    BY <1>1, <1>3, <2>1, OneClientSteps DEF EndInv, Killed
  <2>2. ASSUME UNCHANGED <<cpc, outcome>> PROVE EndInv' /\ Killed \subseteq Killed'
    BY <1>1, <2>2 DEF EndInv, Killed
  <2>3. ASSUME NEW p \in Processes, Process(p) PROVE UNCHANGED <<cpc, outcome>>
    BY <2>3 DEF Process, clientVars
  <2>4. UNCHANGED vars => UNCHANGED <<cpc, outcome>>
    BY DEF vars, clientVars
  <2> QED
    BY <2>1, <2>2, <2>3, <2>4 DEF Next
<1> QED
  BY <1>2, <1>3

LEMMA RouteInitial == Init => RouteInv /\ EndInv
<1> SUFFICES ASSUME Init PROVE RouteInv /\ EndInv
  OBVIOUS
<1>1. /\ \A c \in Clients : cpc[c] = "new" /\ found[c] = 0 /\ outcome[c] = "none" /\ hops[c] = 0
      /\ \A a \in Addresses : queue[a] = <<>>
      /\ \A p \in Processes : pc[p] = IF p[2] <= Size(p[1]) THEN "idle" ELSE "dead"
  BY DEF Init
<1>2. Elements(<<>>) = {}
  BY Deserted
<1>3. \A p \in Processes : Turn(p)
  BY <1>1 DEF Turn
<1> QED
  BY <1>1, <1>2, <1>3 DEF RouteInv, RoutesInv, Route, EndInv

LEMMA RouteStep ==
  ASSUME ServersThere, TypeInv, Followed => AnswerInv /\ PlaceInv, EndInv, RouteInv, [Next]_vars
  PROVE  RouteInv'
<1> SUFFICES ASSUME (program = "redirect")', Killed' = {} PROVE RoutesInv'
  BY DEF RouteInv
<1>1. UNCHANGED <<program, layout>>
  BY DEF Next, Process, Client, User, ClientKilled, vars
<1>2. Killed = {}
  BY <1>1, EndStep
<1>3. RouteState
  BY <1>1, <1>2 DEF RouteState, RouteInv, Followed
<1>4. program = "redirect" /\ RoutesInv
  BY <1>3 DEF RouteState
<1>5. ASSUME NEW p \in Processes, Process(p) PROVE RoutesInv'
  <2>1. Accept(p) \/ RedirectServer(p)
    BY <1>4, <1>5 DEF Process
  <2>2. UNCHANGED clientVars
    BY <1>5 DEF Process
  <2> QED
    BY <1>1, <1>3, <2>1, <2>2, RouteAccepts, RouteServer
<1>6. ASSUME NEW c \in Clients, Client(c) PROVE RoutesInv'
  BY <1>1, <1>3, <1>4, <1>6, RouteClient DEF Client
<1>7. ASSUME NEW c \in Clients, User(c) PROVE RoutesInv'
  BY <1>1, <1>3, <1>4, <1>7, RouteStarts DEF User
<1>8. ASSUME NEW c \in Clients, ClientKilled(c) PROVE FALSE
  <2>1. outcome'[c] = "killed"
    BY <1>8 DEF ClientKilled, End, TypeInv, TypeOK
  <2> QED
    BY <2>1 DEF Killed
<1>9. CASE UNCHANGED vars
  <2>1. UNCHANGED <<program, layout, conn, cpc, hops, found, outcome, pc, serves, queue>>
    BY <1>9 DEF vars, clientVars, processVars
  <2>2. \A c \in Clients : Route(c)'
    BY <1>4, <2>1, RouteKept DEF RoutesInv
  <2>3. \A p \in Processes : Turn(p)'
    BY <1>4, <2>1 DEF RoutesInv, Turn, Before, After, Size
  <2>4. \A a \in Addresses : \A c \in Elements(queue'[a]) : Before(c)'
    BY <1>4, <2>1 DEF RoutesInv, Before
  <2> QED
    BY <2>2, <2>3, <2>4 DEF RoutesInv
<1> QED
  BY <1>5, <1>6, <1>7, <1>8, <1>9 DEF Next

(* While no client is killed, and with servers that are there where one is     *)
(* sent to, the client of 2015-09-14 ends with the file of the first server on *)
(* its way that has it, and without a file only if none of the five has.       *)
THEOREM ExamRedirectFinds ==
  ASSUME ServersThere
  PROVE  Spec => []RedirectFinds
<1>1. ASSUME RouteInv, EndInv PROVE RedirectFinds
  <2>1. Target = IF {k \in 0..MAX_REDIRECTIONS : Hop[k] \in layout.holds} = {} THEN 0
                 ELSE Hop[Min({k \in 0..MAX_REDIRECTIONS : Hop[k] \in layout.holds})]
    BY DEF Target, Having
  <2>2. ASSUME NEW c \in Clients, program = "redirect", Killed = {}, outcome[c] # "none"
        PROVE  found[c] = Target
    BY <1>1, <2>2 DEF RouteInv, RoutesInv, Route, UnderWay
  <2> QED
    BY <2>1, <2>2 DEF RedirectFinds
<1>2. TypeInv /\ EndInv /\ [Next]_vars => EndInv'
  BY EndStep
<1>3. TypeInv /\ (Followed => AnswerInv /\ PlaceInv) /\ EndInv /\ RouteInv /\ [Next]_vars => RouteInv'
  BY RouteStep
<1>4. (TypeInv /\ (Followed => AnswerInv /\ PlaceInv)) => TypeInv
  OBVIOUS
<1> QED
  BY <1>1, <1>2, <1>3, <1>4, RouteInitial, PlacesInvariant, PTL DEF Spec
===============================================================================
