# Verification of dp1-lump

`dp1-lump` is a C library for network programs (`src/src`) with the programs
written on top of it (`src/labs`, `src/exams`). This directory holds TLA+ models
of its concurrent and distributed parts, TLC configurations that check them on
small instances, and TLAPS proofs that hold for all instances.

    tlc -config ForkAtomic.cfg MCForkServer      # check one configuration
    tlapm ForkServerProofs.tla                   # check the proofs about one model

## 1. Inventory

| component | state it keeps | operations | modelled in |
|---|---|---|---|
| fork servers `mytcpserver.c` (Simple, OCPC, OCPCMax, Preforked, Mixed, MixedMax), `signal.c` | `numChildren_ocpc`, `childpids`, the father's place in its loop, its signal mask and pending signals, children, connections | accept loops, fork, wait, `sigchldHandler`, `sigintHandler` | `ForkServer` |
| select server `myTcpServerSelect`, `myWaitForMultipleObjectsArray` (`myother.c`) | `sockfdArray`, `sockfdCount`, `freeSockfd` | wait, accept, run the task, close and shift | `SelectServer` |
| UDP servers `myudpserver.c` and the datagram limit | per process: static `clientList`, `clientListIndex` | read, limit, answer | `UdpLimit`, `UdpEcho` |
| UDP echo clients and servers (labs 1.4, 2.1, 2.2 and their `labs/old` versions) | attempt counter, table | send, wait with timeout, retry; read, limit, answer | `UdpEcho`, `UdpExchange` |
| UDP request and reply (exam 2014-07-21 in four versions, labs 2.4 `udp`, `labs/old/2.3/udp`) | transaction id, retransmissions, announced size | request, answer, timeout, retransmission | `UdpExchange` |
| TCP streams `mytcp.c`, `readn.c`, `writen.c`, `readline.c` | partial counts and the open file (async, static) | read n bytes, a line, chunks; async variants; writes | `FileTransfer`, `OldTransfer`, `ExamSessions`; the buffered line nowhere |
| file transfer (labs 2.3, 3.1, 3.3) and the asynchronous client (lab 3.2) | request line, file size, bytes read, destination file, status, `flagQuit` | GET, QUIT, reply, transfer | `FileTransfer` |
| file transfer of `labs/old` 2.3, 3.1, 3.1/thread, 3.2, 3.2/pipe, 3.3 | the same; a pipe and SIGUSR1 between father and child | the same | `OldTransfer` |
| stand-alone servers of `labs/old` and `server2.c` of exam 2014-09-10 | `numChildren`, a semaphore, pids, pending signals | accept, fork or start a thread, count up and down, wait, SIGINT | `CountingServer` |
| upload (exam 2014-09-10) | file, directory of a connection | PUT, OK, chunks up to the end of the stream | `ExamSessions` |
| redirection (exam 2015-09-14) | next server, `count` of a client | GET, OK, ERR, RED, connect again | `ExamSessions` |
| XDR programs over TCP (labs 2.4, exams 2014-06-23, sample, old/sample) | decoded request, session | decode, answer, free | `ExamSessions` |
| system-call wrappers, `myerror.c`, name resolution | none | each ends the process when its call fails | as the death of a process |

How they interact. A program calls one library server with a task callback
(`childTask`). Father and children share the listening socket, hence the queue of
established connections; they share no memory. The father learns of the death of a
child by SIGCHLD or `wait`. A client shares nothing with a server but a connection,
or datagrams that may be lost, delayed or repeated.

What is hard in this code, each at its line in `PROJECT.json` under `hazards`:

* SIGCHLD between any two instructions of the father: the test and increment of
  `numChildren_ocpc` (lines 215 and 249 of `mytcpserver.c`), the mask around the
  test, signals that merge while pending, reapers that compete for one child;
* the limit of clients when pre-forked and per-client processes are mixed, and
  when a worker dies (a peer that resets its connection kills the process that
  serves it);
* shutdown by SIGINT at any moment, with OCPC children that must outlive it;
* descriptors: a copy left open hides the end of a connection from the client;
* the select server's array, which is shifted while positions in it are in use,
  calls that could block every client, starvation by the scan order;
* UDP: retransmissions that race late replies, counters per process, table eviction;
* UDP exchanges: a retransmission that is answered twice, an answer to an earlier run
  or to somebody else, three datagrams that must arrive in order;
* datagrams without bytes, which some servers take for the end of their peer;
* file transfer: a stream that is cut anywhere, static state between asynchronous
  calls, commands typed in the middle of a reply, either side dying at any point;
* own counting: an end that is announced before it happens, signals that merge or
  come before the count, a limit that is tested before a wait;
* exam sessions: an end of stream taken for a reply or a request, names that come
  back (ports), data of the last request used again, servers that refer to others.

What makes each component correct:

* *fork servers*: clients are admitted in arrival order and never more than the
  entry point's capacity; no client waits for ever while there is room; the
  counter agrees with reality; dead children are reaped; SIGINT ends everything
  but not the sessions of OCPC children;
* *select server*: array and open descriptors stay in step; nothing but `select`
  blocks; what accepted clients send is read;
* *UDP*: a process answers a client at most `maxDatagrams` times while it
  recognises it; a refused client stays refused; every round of a client ends, and
  with a reply of that round when the network only loses datagrams;
* *UDP exchanges*: a result is the answer to the request of this run, no run gives up
  without losses, every run ends;
* *file transfer*: a download is what the server answered, no other file is touched,
  every GET is dealt with, and the server's task ends when its client is gone;
* *counting servers*: the count is never below the clients in service, arrival order,
  no client waits for ever, SIGINT ends all processes;
* *exam sessions*: what is reported as received is what was sent, a client finds the
  file that a chain of redirections leads to, every session ends, and a client that ends
  badly costs a server no more than one process.

## 2. Modules

`BoundedAdmission` is the abstract specification of a TCP server: a queue in
arrival order, a set of clients being served, a capacity. `ForkServer` and
`SelectServer` implement it (properties `AdmitsInOrder` and, with liveness,
`AdmitsEventually`): `waiting` is the queue of the listening socket, `serving` the
set of connections that some process holds, `capacity` is 1 for Simple,
`childCount` for Preforked, `maxChildCount` for OCPCMax and Select, and not a limit for
OCPC and Mixed. For MixedMax it is what the code keeps, the sum of both numbers, which is
more than its header says: `ServedAtMostMax` states the doc's number, and is violated.

`ForkServer` has one action per step of the father between which a signal can
arrive: the fork loop and `signal(SIGINT)` of `tcpServerPreforked`
(`PreforkChild`, `InstallSigint`), then the loop of `tcpServerOCPC(Max)`
(`BlockSigchld`, `TestCount`, `WaitChild` or `WaitFails`, `UnblockSigchld`,
`FatherAccept`, `ForkChild`, `LoadCount`/`StoreCount` for `numChildren_ocpc++`,
`CloseCopy`) or of `myTcpServerSimple` (`FatherAccept`, `FatherTaskReturns`,
`CloseCopy`). `frames` is the stack of signal handlers on top of that flow:
`DeliverSigchld`, one `HandlerReap` per turn of the `while` of
`waitForZombieChildren`, `HandlerReturn`; `DeliverSigint` (which begins with the
SIGTERMs), `SigintWait`, `SigintExit`. Children take `ChildAccept`, `ChildStart`,
`TaskReturns`. `entry` is the library function the program has called; it never
changes. `AtomicIncrement` says whether the build makes the increment of line 249
one instruction: `numChildren_ocpc` is a plain `int`, and both builds exist. Pids
are reused once reaped, so `childpids` may go stale as in the code.

`SelectServer` has one action per turn of the loop up to its next call: `Select`
(with the scan that returns the lowest ready position), `AcceptClient`,
`TaskContinues`, `TaskEnds` (close and shift).

`UdpLimit` holds the pure operators of `myUdpLimitClients`: what it returns
(`MayAnswer`) and what it leaves in the table (`Counted`), and those of the table that
`labs/old/2.2` keeps in its `main` (`OldMayAnswer`, `OldCounted`). `UdpEcho` composes them
with the clients of labs 2.1 and 2.2, several server processes and a network. A client of
2.2 that was started with an empty name (kind `blank`) sends datagrams without bytes; the
first one that a server of `old/2.2` reads ends it (`OldServerEnds`, `gone`). No datagrams
but those of the clients are in this model.

`UdpExchange` is one client and one server. `program` says which: `once` (array and struct
`client1.c`, one try), `again` (`array/client2.c`, the time limit restarts after every
datagram that is not the answer), `struct2` (`struct/client2.c`, which after a timeout sends
again and then reads without a limit), `old` (the server of `exams/old/2014-07-21`, with a
client of one try that is external), `echo` (labs 1.4), `oldecho` (`labs/old/1.4`), `xdr`
(labs 2.4 `udp`), `file` (`labs/old/2.3/udp`: status, size and data in a datagram each). The
only state of a server is `serverOver`: those of `old`, `oldecho` and `file` (`Fragile`)
take a datagram without bytes for the end of their peer (`EmptyRead`); the first then fails
in every `recvfrom`, since it has closed its socket, and the others exit. A client is
`Start`, a `Receive...` and a `Timeout...` action; the server is `Serve`, which sends what
the `...Reply` operator of the program gives. The user runs the client several times, from
the same port.

`CountingServer` has the fathers of five kinds of stand-alone server, step by step
(`TestCount`, `WaitChild`, `FatherAccept`, `ForkChild`, `LoadCount`, `StoreCount`, `CloseCopy`,
`SemWait`, `PreforkChild`), their handlers (`SigUsr`, `SigchldHandler2`, `SigInt`,
`HandlerReap`, `WaitAll`) and their children or threads. A child's `chiudiClient` is two
steps, `AnnounceEnd` (SIGUSR1) or `PostEnd` (`sem_post`) and then `CloseAndExit`. It, too,
implements `BoundedAdmission` (`AdmitsInOrder`).

`ExamSessions` has several clients, and all processes of one or more servers. A
connection is a record: what is under way in each direction (`up`, `down`), which end
is open, and whether a reset has been sent. A message is one item of a stream. `pc`
and `serves` are a process's place in its `childTask` and its client; `Accept` and `Return`
are the loop of `myTcpServerSimple`, which every process of a preforked server runs,
and `Die` is the end of a process by a failed call or a signal. `PutServer`,
`RedirectServer`, `SumServer`, `SumOnceServer`, `EncodeServer`, `GetServer` and `OldGetServer`
are the tasks, `PutClient`, `RedirectClient`, `SumClient`, `EncodeClient`, `GetClient` and
`OldGetClient` the clients; users type in `SumUser` and `GetUser`. How
`exams/2014-09-10/server2.c` counts its children is in `CountingServer`; here its children
are `Workers` processes that serve one client each. The older copies of these programs
(`exams/old/2014-09-10`) differ from them in comments and in the byte order of a port in
a directory's name.

`FileTransfer` is one connection: `ReadRequest`, `SendReply`, `SendData`, `CheckTime`
are the server's `childTask`, for a kind of write that succeeds, returns false
(ECONNRESET, once) or kills (SIGPIPE, which nobody in this code ignores). The client
of lab 2.3 (`Get23`, `ReadLine23`, `ReadSize23`, `ReadChunk23`, ...) waits in each
read; that of lab 3.2 performs one `freeSocket` per readiness (`FreeSocketInit`,
`FreeSocketLine`, `FreeSocketSize`, `FreeSocketFile`, one per `status`) and handles
`GET`, `Q` and `A` in between. `inGet` says that `freeStdInput` is inside its call of
`freeSocket`; `got` is the buffer up to `readByteCount`. `toClient` is a stream of
bytes, any prefix of which a read may return. Assumptions: files are not empty (the
source says "HP: fileSize > 0"), the server's files change only between requests, the
user types GET when prompted or after an `-ERR`, and request lines arrive whole.

`OldTransfer` extends it with the stand-alone programs, whose `serviClient` ends at the
first `-ERR`, whose writes do not raise SIGPIPE, and whose clients give up where the library
goes on. `ServiClient...`, `Client...` and `User...` are named after the directory the
program is in. `Libero`, `SocketLibero0` to `SocketLibero3` and `StdinputLibero...` are the
select-driven client of `old/3.2`; `Figlio`, `Father` and `Signal` are the two processes of
`old/3.2/pipe`, with the commands in the pipe (`typed`) and the signal that A sends (`stop`:
it interrupts a `recv`, or comes at another moment).

`MC...` modules give TLC its instances. Each `...Proofs` module extends the model it is
named after with its inductive invariants, lemmas and theorems; `QueueLemmas` has the
facts about queues, arrays without repetitions and sizes of sets that they share.
Operators whose comment begins with "Deviation" are wrong versions of the operator
after them; each one breaks a property, which shows that the property depends on
what the code does there.

## 3. Runs

| run | question | instance |
|---|---|---|
| `fork_atomic` | all six entry points, no faults, increment in one instruction: is the counter exact, does `wait` always have a child to wait for, are zombies reaped, does a server admit every client, does every connection end? | 3 pids, 3 clients, limit 2, childCount 1 |
| `fork_split` | torn increment, SIGINT at any moment, resets, Ctrl-C, failing forks: limit, counter, arrival order, shutdown; is a queued client served as long as somebody listens? | 4 pids, 2 clients, childCount 2, limit 1 |
| `fork_lost_decrement` | *violation*: the father waits for a child it does not have and exits | 2 pids, 1 client, limit 1 |
| `mixed_over_max` | *violation*: MixedMax serves more than `maxChildCount` clients | 3 pids, 3 clients, childCount 1, limit 1, no faults |
| `select_server` | array, arrival order, and service unless the server is full with a connection waiting | 2 places, 4 clients, 1 request each per connection |
| `select_full` | *violation*: a full server with a connection waiting spins and serves nobody | 1 place, 2 clients |
| `file_transfer` | the clients of 2.3 and 3.2 with the server of 3.3, and the pairs of `labs/old`: are downloads complete, other files kept, requests answered, `Q` and `A` obeyed, tasks ended? | 8 programs, 2 files of 1 and 3 bytes, chunks of 2, 2 commands in the pipe |
| `udp_echo` | limits, end of rounds, freshness of replies | 2 processes (one with the table of `old/2.2`), 2 clients, 2 attempts, one client with 2 rounds and one with 1, limit 2 |
| `udp_exchange` | whose answer does a run report, when does it give up, does it end? | 8 programs, 2 runs with 2 ids and 2 operands, 3 transmissions, 7 networks, 1 copy, 1 foreign datagram at a time |
| `counting_servers` | count, arrival order, queued clients, shutdown | 5 programs, 2 clients, 3 pids, limit 2, 1 permit, 2 workers |
| `counting_over_max` | *violation*: the SIGUSR1 server serves more than `maxNumberOfChildren` | 4 clients, 4 pids, limit 2 |
| `exam_sessions` | are uploads whole, do redirections lead to the file, do sessions end, and at the price of how many processes? | 8 programs, 2 or 3 clients, 1 or 2 of them killed, 2 processes, 5 servers, 2 ports, files of 2 chunks |

Why the bounds suffice. The interesting events need one more client than places (there are),
two children dead at once (merged signals), one child reaped while another is being counted,
and a pid that is reused: 3 pids and 2 clients give all of them. Client connections are
unbounded: a client may connect again as soon as its last connection is gone. The select
server needs three entries in the array to shift one over another while a third client
waits; the fourth client makes arrival order observable. The UDP service needs two tables
and a client whose retransmissions reach both. The file transfer needs a file of more than
one chunk, one shorter than a chunk, a second file that must be left alone, and replies
whose parts (two bytes each for the line and the size) can be cut; the number of requests is
not bounded. Bytes that are not a size decode to a negative number or to a plausible wrong
one (`Garbage`). `MaxRequests` bounds what a client sends in one connection; `MaxRounds` how
often the user starts a round. A UDP exchange needs a second run that meets datagrams of the
first, all retransmissions, and a foreign datagram between them; `MaxRuns` and `MaxCopies`
bound runs and repetitions. `MaxNoise` bounds the foreign datagrams under way at the same
time, not their number: they may come for ever. The counting servers need a child that is
counted while another ends and a third that waits; in that model nobody connects while the
count is above `CountBound`, since lost or merged signals let it grow for ever. The exam
sessions need a client that takes the port of an earlier one, a chain of exactly as many
redirections as `client.c` follows, one that goes in a circle and one that ends without the
file, and two processes that both die; `MaxRuns` and `MaxKilled` bound, by program, how many
clients are started and killed.

`Faults` says for each entry point what may go wrong. In `fork_split` no pre-forked child
of MixedMax dies (`FaultsOf`); Simple, OCPCMax and Preforked meet every fault. OCPC and
Mixed with a torn increment are not in that run: every lost decrement
leaves their counter (which they never read) one higher, for ever, so the state
space is infinite. The proofs cover them.

Deadlock is checked where the system cannot stop (`fork_atomic`, `select_server`);
the other runs contain exits of the server, or users who stop typing.

Fairness. Processes are scheduled and signals delivered: weak fairness of the father's flow,
of SIGINT and of each child; strong fairness of SIGCHLD, because the father masks it again
and again and the kernel delivers a pending signal no later than when `sigprocmask` unmasks
it (line 222). Weak fairness of `TaskReturns` and `FatherTaskReturns` is an assumption about
clients: each ends its session some day (lab 3.3 enforces it with a timeout of ten seconds,
the library does not). Clients need not connect and faults need not happen. The select
server's process is scheduled; nothing is assumed of its clients. UDP: the server processes
run and `select` returns; users owe nothing, and the network may lose what it likes (to a
port without a server, the kernel drops what comes). File transfer: weak fairness of the
server's task, of the client's program and of a signal that was sent; users type nothing,
and nothing is killed, unless they do. UDP exchanges: weak fairness of the server and of the
client's step (a time limit passes, or a datagram that is there is read). `RunEnds` says per
program what it needs of the network: nothing for a client that reads once with a time
limit, that foreign datagrams stop some day for `array/client2.c`, which waits anew after
each, and no faults for the clients that read without a limit. Counting servers: weak
fairness of the father, of each handler and child, and of the delivery of signals. Exam
sessions: weak fairness of each client's program, and of the processes with the same number
on all servers together, which is less than every process being scheduled; users owe
nothing.

`Trusted` limits the properties of the client of lab 3.2 to the time before its first
`-ERR`, and of `old/3.2` to the time before a size was cut: afterwards their bookkeeping
is wrong (observations below).

The violations are in `PROJECT.json` under `findings`:

* `fork_lost_decrement`: SIGCHLD in the middle of the increment of line 249;
* `mixed_over_max`: `myTcpServerMixedMax` does not count its pre-forked children
  (`mytcpserver.c:88-92`), and serves `minChildCount + maxChildCount` clients where
  `mytcpserver.h:70-73` says `maxChildCount`;
* `select_full`: a full select server with a connection waiting spins;
* `counting_over_max`: the SIGUSR1 server's count is tested before a wait that may wait for
  something else.

### Observations

Behaviour that the models contain and that conditions of the properties set aside.

* A pre-forked child that dies is reaped and subtracted from the OCPC counter
  (`mytcpserver.c:260`), so that one client too many is admitted later: the reason for
  `NoWorkerDeath` below. Its pid stays in `childpids` and may later belong to
  an OCPC child, which `sigintHandler` then kills.
* A father that dies while SIGINT is pending (its own client resets, a fork fails) leaves its
  pre-forked children listening; `SigintStopsServer` is about a signal that is delivered.
* A datagram without bytes ends the servers of `labs/old` 1.4, 2.2 and 2.3/udp and leaves
  that of `exams/old/2014-07-21` without a socket. The library's servers ignore or echo it.
* With more than `maxClients` clients `myUdpLimitClients` forgets the client it evicts, and
  every pre-forked process has its own table: a client's total may exceed `maxDatagrams`.
* `RepliesAreFresh` needs a network without delays and repetitions: the datagrams of lab
  2.2 carry no number. `ResultIsMine` needs a fresh id, or such a network, likewise.
* `struct/client2.c` of 2014-07-21 waits without a limit after its first
  retransmission; the file client of `old/2.3/udp` does not recognise every `-ERR`.
* The client of lab 3.2 leaves the count and the buffer of an `-ERR` reply as they are
  (`3.2 client.c:67`), so that the next reply is appended to them. When the
  server goes away while it is idle, it takes the end of the stream for a line, a size
  and a file, and empties the file it downloaded last (so `OthersKept` asks that the
  server is there). After an `-ERR` its status stays `okErr`, so that Q only sets a flag that
  is read after a file (lines 91 and 114), and the client does not end.
* The client of `old/3.2` does not advance its pointer between two reads of a size
  (`client.c:163`): a size that TCP cuts is put together wrongly.
* `mytcp.h:28` says that a write returns false when the peer has closed the connection. But
  `mytcp.c:378` knows only ECONNRESET; SIGPIPE ends the process, in labs 2.3 the whole server.
  `TaskEnds` is about the programs of `labs/old`, which avoid the signal, and about the
  library's servers while they wait for a request.
* A read from a connection that was reset always ends the process: one client that is
  killed at the right moment ends the only process of the upload server `server1.c`.
* That server stores what has come before a client was killed as a whole file; its client
  takes an end of stream for `OK` (outcome `blind`), and may send its file to nobody.
* The process of exam 2014-06-23 that has served a client dies after it
  (`server.c:50-58` frees the last request again), so that after five clients nobody
  listens. That of exams/sample does so after a client that ends without QUIT, and that
  of exams/old/sample may after a request for a file that does not exist
  (a length that was never set, line 178). `OneProcessEach` bounds all these losses: one
  process for each client that was killed, or that these servers do not survive.

## 4. Proofs

The theorems hold for every number of processes, clients and requests, every limit and every
set of faults that the assumptions of the models allow. These assumptions only say what kind
of thing a constant is (finite sets of processes and clients, positive limits, a `NoClient`
that is no client, contents that are sequences of bytes); `RetransmissionAssumption` says
that `MAX_RETRANSMISSIONS`, a `#define` of 3, is not 0. What a theorem needs beyond that is
in its ASSUME.

| model | theorem | property | needs |
|---|---|---|---|
| `ForkServer` | `TypeCorrect` | `TypeOK` | |
| | `CapacityRespected` | `OcpcBound` | `NoWorkerDeath` |
| | `CounterCovers` | `CounterNeverLow` | `NoWorkerDeath` |
| | `CountExact` | `CounterExact` | `NoWorkerDeath`, `AtomicIncrement` |
| | `WaitSafe` | `WaitHasChild` | the same, and a limit that is not 0 |
| | `ShutdownSpares` | `ShutdownSparesOcpc` | `NoWorkerDeath` |
| | `ForkImplementsAdmission` | `AdmitsInOrder` | `NoWorkerDeath` |
| `SelectServer` | `SelectTypeCorrect` | `TypeOK` | |
| | `ArrayCorrect` | `ArrayMirrorsDescriptors` | |
| | `NeverBlocks` | `NeverBlocksOutsideSelect` | a statement no run checks |
| | `SelectImplementsAdmission` | `AdmitsInOrder` | |
| `UdpLimit` | `OldTableSame` | the table of `old/2.2` decides and counts like the library's | |
| `UdpEcho` | `UdpTypeCorrect` | `TypeOK` | |
| | `RepliesFresh` | `RepliesAreFresh` | |
| | `AnswersLimited` | `AnswersBounded` | |
| `UdpExchange` | `ExchangeTypeCorrect` | `TypeOK` | |
| | `ResultMine` | `ResultIsMine` | |
| | `ExpiryByLoss` | `ExpiresOnlyByLoss` | |
| `CountingServer` | `CountingTypeCorrect` | `TypeOK` | |
| | `CountCovers` | `CountNeverLow` | |
| | `CountingImplementsAdmission` | `AdmitsInOrder` | |
| `ExamSessions` | `ExamTypeCorrect` | `TypeOK` | |
| | `ExamUploadsWhole` | `UploadsWhole` | |
| | `ExamRedirectFinds` | `RedirectFinds` | `ServersThere` |
| `OldTransfer` | `TransferTypeCorrect` | `OldTypeOK` | |
| | `TransferLeavesOthers` | `OthersKept` | |
| | `TransferComplete` | `DownloadComplete` | |

`NoWorkerDeath`: no pre-forked child can die before the server is stopped (the observation
about line 260 shows that it is needed). `WaitHasChild` fails in the build with a torn
increment (run `fork_lost_decrement`), and with a limit of 0 the first `wait` has nobody to
wait for. `ServersThere`: each server of 2015-09-14 redirects to one of the servers that the
user has started, or to none; otherwise a client is refused by a server that is not there
and gives up. The layouts of the run satisfy it.

The arguments. Each proof has an inductive invariant, checked by TLC on the instance of
the run before it was proved, one step per action, and a theorem that combines them.

*Fork servers.* `OcpcBound` is not inductive. A torn increment holds the old value in a
register while the handler decrements the counter, so nothing about the counter alone says
that line 249 will store enough. `CapacityInv` therefore says of a father that works
(alive, not in `sigintHandler`): only OCPC children can be dead and unreaped;
`numChildren_ocpc`, plus one between fork and increment, covers the OCPC children; between
load and store the register plus one covers them too; and the counter is below the limit
from the moment the test of line 215 lets the father through to the end of the increment
(the register is, between load and store). A lost decrement then only makes the server too
careful, which is why the limit holds in a build in which `WaitHasChild` fails.
`WorkingBefore` shows that a father that works after a step worked before it, since
`sigintHandler` never returns; `OcpcForked`, `OcpcReaped` and `OcpcShrinks` count the OCPC
children. `ExactInv` is the equality for the other build, with the mask around the test of
line 215: what the father has read is still so when he waits. `AdmissionInv` says where a
connection can be held (`HoldInv`), that `childpids` has the pids of the workers and, while
the father works, no other (`RosterInv`, on which `ShutdownSpares` rests), and that a client
whom the father has accepted left room behind (`RoomInv`). `StepAdmits` then maps each step
to `Arrive`, `Admit`, `Leave` or a stutter: an accept finds room since the holders are
workers, OCPC children and the father, and `WorkersCount` and `OcpcBound` count them.

*Select server.* Array, descriptors, queue and what `select` reported are one invariant
(`ServerInv`): a step of the loop is safe because the array was right before it, and the
array stays right because the loop acts on a ready position. The shift in `TaskEnds` is
the core of the proof: it removes one entry and keeps the others distinct.

*UDP echo.* `TypeInv` adds to the types that nothing is under way in a round that has not
begun. `Fresh` is the invariant of networks that only lose datagrams: at most one datagram
of a client is under way, it is of the client's round, and a client between two rounds has
none, since a timeout means that it is lost. For the limit, `SlotsInv` says that the number
of answers to a client is the number of places (process, count) that the tables account
for; a table that has room for all clients evicts nobody (`NoEviction`), so places are only
added, and there are `maxDatagrams` of them in each process.

*UDP exchanges.* With ids, `IdInv` says that each datagram with the id of the run has its
operand, since a fresh id was on no datagram before. Without, `Fits` says for a lossy
network which datagrams are under way: a request or its replies, in order and at most as
many as the client is still to read. `ExpiryInv` counts (`Accounted`): every transmission of
the run has been lost or is under way as itself or as its reply, so a client that gives up
with nothing to read has lost them all, as long as the server is there (`serverOver` is
never undone, and only the servers of `Fragile` set it); `Count` and its lemmas count places
in the two queues, which repetitions only lengthen.

*Counting servers.* `ServerInv` says where the children of each program can be, that a
client is in the queue once or accepted (hence the length of the queue), where the father
holds one, that permits are in the semaphore, with the main thread or with a thread that
has not posted (`PermitInv`), and that there are never more than `Workers - 1` preforked
children. `CountNeverLow` is not inductive: a pending signal will take one off later.
`CountInv` asks for one more while one is pending; merging signals then only add slack.
`ServingSteps` says how the clients served change, and `FatherHasRoom` and `WorkerHasRoom`
that an accept has room, which is the simulation of `BoundedAdmission`.

*Exam sessions.* `TypeInv` adds to the types that a client redirected five times has ended.
`PlaceInv` says where a connection is: as long as its server has not closed it, it is in the
queue of its address or one process of that address serves it, never both or twice; each
step keeps this by being of one of four kinds (`Stays`, `Leaves`, `Perishes`, `Connects`) or
an accept. For the uploads, `SessionsInv` says of each session that what is in the file and
what is still in the stream are together the chunks that the client has sent (`Sending`), of
a connection that its server has closed that a client still running is not told OK (`Left`),
of a file reported as received that it is all that the client sent before it ended
(`Whole`), and of a child of `server2.c` that nobody else has its directory (`DirInv`): a
port that is in use is not given again (`Alone`), and one that was used before is in `made`,
so that the `mkdir` of a later child fails. For the redirections, `RouteInv` says that a
client under way is at station number `hops` and that no earlier one had the file, that a
connection which the server has closed has its answer unread, and that no process of these
servers dies while no client is killed; a process has read a request just when it is to
answer it. `Stations` unrolls the recursive function `Hop`, whose domain is finite, so that
no induction is needed.

*File transfer.* `OldTypeOK` is not inductive. The server needs `ReplyInv`: from the moment it
has found a file it answers about that one, which is there, and the last byte of its data
ends the reply. The clients need `OpenInv`: what a client appends to has been opened. In the
blocking clients this is so because a prompt and a reply exclude each other; the
select-driven ones keep the descriptor in a static variable (`target`). `Grows` is what
every client step does to the local files, and `Reads` and `Finished` are the two ways in
which a step leaves the client, from which its type follows at once.

`SyncInv` is behind the other two theorems: as long as a client runs and its bookkeeping can
be trusted, it and the server are `InStep`, in one of five situations. The user is at the
prompt and nothing is under way (`Idle`); the server has yet to read the request (`Asked`);
the reply is -ERR (`Failing`) or the file `d` (`Sending(d)`); or the server has ended and
nothing of it is left (`Silence`: the clients of labs 2.3 and 3.2 go on, with an empty
size). In a reply the server has sent a beginning of `Whole(d)`, the line, the size and the
data in one sequence; what the client has read of the part it is at, and the bytes in
flight, are that beginning from `Base` on (`Follows`), and what it has read of the file is in
its local file (`Waiting`). A read then either takes more of this part (`ReadMore`) or ends
it (`ReadPart`), wherever TCP has cut: the line is -ERR just when the server has sent -ERR,
the size is the file's, and when the announced number of bytes has been read nothing is left
in the stream (`AllRead`), so that the next prompt is `Idle` again. The invariant does not
hold once `refused` is set: 3.2 keeps the bytes of an -ERR, old/3.2 mistakes a cut size.
`Deeds` lists the steps that write to a file or come to the next prompt.

Every invariant and every action property that the passing runs check is a theorem, but for
`OneProcessEach`. Only model-checked are this one and the liveness properties
(`AdmitsEventually`, `ConnectionEnds`, `ZombiesReaped`, `SigintStopsServer`,
`QueuedClientServed`, `AcceptedServedUnlessFull`, `RoundsEnd`, `RunEnds`,
`QueuedClientAdmitted`, `SigintEndsAll`, `GetAnswered`, `QuitEnds`, `TaskEnds`,
`SessionsEnd`), since liveness under fairness is beyond this proof system.

## 5. Not modelled

To the servers of `ForkServer` and `SelectServer` `childTask` is external: it returns, or
its process dies. What the tasks do is in `FileTransfer` and `ExamSessions`. Failing system
calls other than `fork`, `connect` and `wait` end the process like the faults that are
modelled. `signal` semantics are those of `sigaction` with `SA_RESTART`, as `signal.c`
installs them, so `accept` and `wait` are not interrupted. An `accept` that blocks because
the client disconnected after `select` is a behaviour of other systems than Linux.

* `readline.c` with its static read-ahead buffer, and `myTcpBufferedReadLine`, which no
  program calls; `src/exams/*/my_mytcp.c`, whose functions no program calls either.
* Files that change while they are sent (`labs/2.3/server.c:44`): size and data would
  differ, which the programs do not try to prevent.
* The SIGINT handler and the forking of `myudpserver.c`, which are those of
  `mytcpserver.c`.
* `exams/old/2014-07-21/client1.c`: it prints numbers into buffers of four bytes (lines 62
  and 79-89), so that nothing is certain of any of its runs. The server of that directory
  is modelled with the client that its format strings expect.
* SIGUSR1 that reaches the child of `old/3.2/pipe` before its handler is installed, and
  the ignored result of its read from the pipe (`client.c:208`).
* The numbers that are added or encoded, formats, prompts and messages.
* Wrappers and name resolution, which keep no state; configuration scripts and headers,
  which hold no behaviour.

## 6. Plan

1. The models of the library and of every program: done.
2. Theorems for every invariant, every action property and the three refinements of
   `BoundedAdmission`: done.
3. Next: `OneProcessEach` as a theorem; that client and server of a transfer never wait for
   each other (`SyncInv` has the argument), as the safety part of `GetAnswered`; an abstract
   specification of a download that every client implements; the like for `UdpExchange` (a
   run answers or expires).
