------------------------------ MODULE OldTransfer -------------------------------
(* The stand-alone file-transfer programs of labs/old: serviClient of the six  *)
(* servers, the blocking clients of 2.3, 3.1, 3.1/thread and 3.3, the select-  *)
(* driven client of 3.2, and the client of 3.2/pipe, whose father reads the    *)
(* keyboard and whose child the socket.  The protocol, the stream and the user *)
(* are those of FileTransfer; the programs give up where the library goes on.  *)
EXTENDS FileTransfer

CONSTANT MaxTyped          \* bound: commands in the pipe

ASSUME TypedAssumption == MaxTyped \in Nat

VARIABLES
  typed,                   \* 3.2/pipe: commands in the pipe
  father,                  \* 3.2/pipe: what the father does
  stop                     \* 3.2/pipe: SIGUSR1 has come, in the middle of a recv or not

pipeVars == <<typed, father, stop>>
allVars  == <<vars, pipeVars>>

Commands == Files \cup {"Q", "A"}

OldTypeOK ==
  /\ TypeOK
  /\ typed \in Seq(Commands) /\ Len(typed) <= MaxTyped
  /\ father \in {"types", "kills", "over"} /\ stop \in {"no", "recv", "yes"}

Old == program \notin {"2.3", "3.2"}

-------------------------------------------------------------------------------
(* The servers' serviClient *)

\* readn returns 0 or -1: chiudiClient.
OldReadEnds ==
  /\ spc = "line" /\ toServer = <<>> /\ peer # "open"
  /\ spc' = "returned"
  /\ UNCHANGED <<program, disk, sfile, rest, peer, toServer, toClient, clientOpen,
                 clientVars, refused, answer, pipeVars>>

\* writen of b with MSG_NOSIGNAL: next is where serviClient goes on; a failure ends it.
Writen(b, next) ==
  \/ WriteSucceeds(b) /\ spc' = next
  \/ peer # "open" /\ spc' = "returned" /\ UNCHANGED <<peer, toClient>>

\* -ERR ends the session, sent or not.
OldReply ==
  /\ \/ spc = "err" /\ Writen(ERR, "returned") /\ answer' = ERR /\ UNCHANGED rest
     \/ spc = "ok" /\ Writen(OK, "size") /\ UNCHANGED <<answer, rest>>
     \/ spc = "size" /\ Writen(Size(Len(disk[sfile])), "data")
        /\ rest' = disk[sfile] /\ UNCHANGED answer
  /\ UNCHANGED <<program, disk, sfile, toServer, clientOpen, clientVars, refused, pipeVars>>

\* The file, byte by byte.
OldSendData ==
  /\ spc = "data"
  /\ Writen(<<Head(rest)>>, IF Len(rest) > 1 THEN "data" ELSE "time")
  /\ rest' = Tail(rest)
  /\ answer' = IF spc' = "time" THEN disk[sfile] ELSE answer
  /\ UNCHANGED <<program, disk, sfile, toServer, clientOpen, clientVars, refused, pipeVars>>

\* The next request; 3.3 may close the session first.
NextRequest(pcs) ==
  /\ spc = "time" /\ spc' \in pcs /\ sfile' = NoFile
  /\ UNCHANGED <<program, disk, rest, peer, toServer, toClient, clientOpen, clientVars,
                 refused, answer, pipeVars>>

ServiClient ==
  \/ ReadRequest /\ UNCHANGED pipeVars
  \/ OldReadEnds \/ OldReply \/ OldSendData

ServiClient23     == program = "old 2.3"    /\ (ServiClient \/ NextRequest({"line"}))
ServiClient31     == program = "old 3.1"    /\ (ServiClient \/ NextRequest({"line"}))
ServiClientThread == program = "old thread" /\ (ServiClient \/ NextRequest({"line"}))
ServiClient32     == program = "old 3.2"    /\ (ServiClient \/ NextRequest({"line"}))
ServiClientPipe   == program = "old pipe"   /\ (ServiClient \/ NextRequest({"line"}))
ServiClient33     == program = "old 3.3"    /\ (ServiClient \/ NextRequest({"line", "returned"}))

OldServer == \/ ServiClient23 \/ ServiClient31 \/ ServiClientThread
             \/ ServiClient32 \/ ServiClientPipe \/ ServiClient33

-------------------------------------------------------------------------------
(* One reply, as the blocking clients and the child of 3.2/pipe read it *)

\* close, and the program or child ends, with everything read.
CloseSocket == clientOpen' = FALSE /\ peer' = "fin" /\ toClient' = <<>>

\* writen of the GET.
OldSendGet(f) ==
  /\ clientOpen /\ prompt
  /\ SendGet(f) /\ status' = "okErr"
  /\ UNCHANGED <<program, disk, serverVars, toClient, clientOpen, local, fileSize, got,
                 target, inGet, flagQuit, refused>>

\* The line, byte by byte; an error ends the client.
OldReadLine ==
  /\ clientOpen /\ status = "okErr"
  /\ \E k \in 1..Len(toClient) :
       /\ toClient[k] = NL /\ \A i \in 1..(k - 1) : toClient[i] # NL
       /\ IF First(k) = ERR THEN CloseSocket /\ UNCHANGED status
                            ELSE Take(k) /\ status' = "size" /\ UNCHANGED <<clientOpen, peer>>
  /\ UNCHANGED <<program, disk, spc, sfile, rest, toServer, local, name, fileSize, got,
                 target, inGet, flagQuit, prompt, refused, answer, pipeVars>>

\* readn of the size, then fopen.
OldReadSize ==
  /\ clientOpen /\ status = "size" /\ Len(toClient) >= 2
  /\ Take(2) /\ fileSize' \in Decoded(First(2))
  /\ status' = "file" /\ got' = <<>> /\ local' = [local EXCEPT ![name] = <<>>]
  /\ UNCHANGED <<program, disk, serverVars, toServer, clientOpen, name, target, inGet,
                 flagQuit, prompt, refused, answer, pipeVars>>

\* readn meets the end of the stream; the bytes of a chunk that is not complete are
\* dropped.
OldReadnEnds ==
  /\ clientOpen /\ TaskOver
  /\ \/ status = "okErr" /\ \A i \in DOMAIN toClient : toClient[i] # NL
     \/ status = "size" /\ Len(toClient) < 2
     \/ status = "file" /\ fileSize > Len(got)
        /\ Len(toClient) < Lesser(fileSize - Len(got), ChunkSize)
  /\ CloseSocket
  /\ UNCHANGED <<program, disk, spc, sfile, rest, toServer, clientVars, refused, answer,
                 pipeVars>>

\* A reset connection: the server has ended without reading the request.
OldReadnFails == status = "okErr" /\ ReadFails /\ UNCHANGED pipeVars

\* fclose, and the next command.
OldFileDone ==
  /\ clientOpen /\ status = "file" /\ fileSize <= Len(got)
  /\ NextPrompt
  /\ UNCHANGED <<program, disk, serverVars, toServer, toClient, clientOpen, local, name,
                 target, inGet, flagQuit, refused, pipeVars>>

OldReceive == \/ OldReadLine \/ OldReadSize \/ OldReadnEnds \/ OldReadnFails \/ OldFileDone

-------------------------------------------------------------------------------
(* The blocking clients *)

OldReadChunk == ReadChunk /\ clientOpen /\ UNCHANGED pipeVars

OldQuit ==
  /\ clientOpen /\ prompt /\ QuitAndClose
  /\ UNCHANGED <<program, disk, spc, sfile, rest, clientVars, refused, answer, pipeVars>>

\* writen fails: the server's process is gone.
OldGetFails == clientOpen /\ prompt /\ TaskOver /\ ClientDies /\ UNCHANGED pipeVars

OldUser ==
  \/ \E f \in Files : OldSendGet(f) /\ UNCHANGED pipeVars
  \/ OldQuit \/ OldGetFails

OldClient == OldReceive \/ OldReadChunk

User23     == program = "old 2.3"    /\ OldUser
User31     == program = "old 3.1"    /\ OldUser
UserThread == program = "old thread" /\ OldUser
User33     == program = "old 3.3"    /\ OldUser

Client23     == program = "old 2.3"    /\ OldClient
Client31     == program = "old 3.1"    /\ OldClient
ClientThread == program = "old thread" /\ OldClient
Client33     == program = "old 3.3"    /\ OldClient

-------------------------------------------------------------------------------
(* The client of 3.2/pipe *)

\* The father writes a command into the pipe; SIGPIPE ends it when the child is gone.
Type(c) ==
  /\ father = "types" /\ Len(typed) < MaxTyped
  /\ IF clientOpen
       THEN /\ typed' = Append(typed, c)
            /\ father' = CASE c = "Q" -> "over" [] c = "A" -> "kills" [] OTHER -> "types"
       ELSE father' = "over" /\ UNCHANGED typed
  /\ UNCHANGED <<vars, stop>>

\* kill(childpid, SIGUSR1) and sig_usr; a recv under way is restarted.
KillChild ==
  /\ father = "kills" /\ father' = "over"
  /\ stop' \in IF status = "file" THEN {"recv", "yes"} ELSE {"yes"}
  /\ UNCHANGED <<vars, typed>>

\* The child reads the next command.
NextCommand ==
  /\ clientOpen /\ prompt /\ typed # <<>>
  /\ typed' = Tail(typed)
  /\ \/ \E f \in Files : Head(typed) = f /\ OldSendGet(f)
     \/ /\ Head(typed) = "Q" /\ QuitAndClose
        /\ UNCHANGED <<program, disk, spc, sfile, rest, clientVars, refused, answer>>
     \/ Head(typed) \in {"A"} \cup (IF TaskOver THEN Files ELSE {}) /\ ClientDies
  /\ UNCHANGED <<father, stop>>

\* readnConAbort returns a whole chunk.
ReadnConAbort ==
  /\ clientOpen /\ stop # "yes" /\ ReadChunk
  /\ stop' = IF stop = "recv" THEN "yes" ELSE stop
  /\ UNCHANGED <<typed, father>>

\* readnConAbort finds stop set before a recv.
Abort ==
  /\ clientOpen /\ status = "file" /\ fileSize > Len(got)
  /\ stop = "yes" \/ (stop = "recv" /\ toClient # <<>>)
  /\ ClientDies /\ UNCHANGED pipeVars

Figlio == program = "old pipe" /\ (NextCommand \/ OldReceive \/ ReadnConAbort \/ Abort)
Father == program = "old pipe" /\ \E c \in Commands : Type(c)
Signal == program = "old pipe" /\ KillChild

-------------------------------------------------------------------------------
(* The select-driven client of 3.2 *)

\* select finds the socket readable, or stdinputLibero calls and the read may block.
Libero(s) == clientOpen /\ status = s /\ (toClient # <<>> \/ AtEnd)

\* Case 0: the server has closed the connection while nothing was asked for.
SocketLibero0 ==
  /\ Libero("init") /\ ~inGet
  /\ got' = <<>> /\ status' = "okErr"
  /\ UNCHANGED <<program, disk, serverVars, toServer, toClient, clientOpen, local, name,
                 fileSize, target, inGet, flagQuit, prompt, refused, answer>>

\* Case 1: one byte of the line.  The end of the stream and -ERR end the client, also
\* inside stdinputLibero, which ignores the reply: select then refuses the descriptor.
SocketLibero1 ==
  /\ Libero("okErr")
  /\ inGet' = FALSE
  /\ LET line == got \o First(Lesser(1, Len(toClient))) IN
       \/ /\ toClient = <<>> \/ line = ERR
          /\ CloseSocket /\ UNCHANGED <<status, got>>
       \/ /\ toClient # <<>> /\ line # ERR /\ Take(1)
          /\ IF Head(toClient) = NL THEN status' = "size" /\ got' = <<>>
                                    ELSE got' = line /\ UNCHANGED status
          /\ UNCHANGED <<clientOpen, peer>>
  /\ UNCHANGED <<program, disk, spc, sfile, rest, toServer, local, name, fileSize, target,
                 flagQuit, prompt, refused, answer>>

\* Case 2: some bytes of the size.  ptr does not advance: a size that TCP has cut is put
\* together wrongly (a negative number stands for one beyond every file).
SocketLibero2 ==
  /\ Libero("size")
  /\ inGet' = FALSE
  /\ \/ /\ toClient = <<>> /\ CloseSocket
        /\ UNCHANGED <<status, got, fileSize, local, target, refused>>
     \/ \E k \in 1..Lesser(2 - Len(got), Len(toClient)) :
          /\ Take(k)
          /\ IF Len(got) + k < 2
               THEN got' = First(k) /\ UNCHANGED <<status, fileSize, local, target, refused>>
               ELSE /\ fileSize' \in IF got = <<>> THEN Decoded(First(k)) ELSE Garbage
                    /\ refused' = (refused \/ got # <<>>)
                    /\ status' = "file" /\ got' = <<>>
                    /\ target' = name /\ local' = [local EXCEPT ![name] = <<>>]
          /\ UNCHANGED <<clientOpen, peer>>
  /\ UNCHANGED <<program, disk, spc, sfile, rest, toServer, name, flagQuit, prompt, answer>>

\* Case 3: some bytes of the file that case 2 has opened; with the last ones quit, or the
\* next prompt.
SocketLibero3 ==
  LET chunk == IF fileSize < 0 THEN ChunkSize ELSE Lesser(fileSize - Len(got), ChunkSize) IN
  /\ Libero("file")
  /\ inGet' = FALSE
  /\ \/ /\ toClient = <<>> /\ CloseSocket /\ target' = NoFile
        /\ UNCHANGED <<toServer, local, status, prompt, fileSize, got, answer>>
     \/ \E k \in 1..Lesser(chunk, Len(toClient)) :
          /\ local' = [local EXCEPT ![target] = @ \o First(k)]
          /\ target' = IF Len(got) + k # fileSize THEN target ELSE NoFile
          /\ IF Len(got) + k # fileSize
               THEN /\ Take(k) /\ got' = got \o First(k)
                    /\ UNCHANGED <<toServer, clientOpen, peer, status, prompt, fileSize, answer>>
             ELSE IF flagQuit
               THEN QuitAndClose /\ UNCHANGED <<status, prompt, fileSize, got, answer>>
             ELSE Take(k) /\ NextPrompt /\ UNCHANGED <<toServer, clientOpen, peer>>
  /\ UNCHANGED <<program, disk, spc, sfile, rest, name, flagQuit, refused>>

SocketLibero == SocketLibero0 \/ SocketLibero1 \/ SocketLibero2 \/ SocketLibero3

\* stdinputLibero: GET, which calls socketLibero at once.
StdinputLiberoGet(f) ==
  /\ clientOpen /\ prompt /\ ~inGet
  /\ SendGet(f)
  /\ IF status = "init" THEN status' = "okErr" /\ got' = <<>> /\ inGet' = FALSE
                        ELSE inGet' = TRUE /\ UNCHANGED <<status, got>>
  /\ UNCHANGED <<program, disk, serverVars, toClient, clientOpen, local, fileSize, target,
                 flagQuit, refused>>

\* stdinputLibero: Q.
StdinputLiberoQuit ==
  /\ clientOpen /\ ~inGet /\ ~flagQuit
  /\ IF status = "init"
       THEN QuitAndClose /\ UNCHANGED flagQuit
       ELSE flagQuit' = TRUE /\ UNCHANGED <<peer, toServer, toClient, clientOpen>>
  /\ UNCHANGED <<program, disk, spc, sfile, rest, local, name, status, fileSize, got,
                 target, inGet, prompt, refused, answer>>

\* stdinputLibero: A.
StdinputLiberoAbort == clientOpen /\ ~inGet /\ ClientDies

Client32 ==
  /\ program = "old 3.2" /\ UNCHANGED pipeVars
  /\ SocketLibero \/ ReadFails

User32 ==
  /\ program = "old 3.2" /\ UNCHANGED pipeVars
  /\ \/ \E f \in Files : StdinputLiberoGet(f)
     \/ StdinputLiberoQuit \/ StdinputLiberoAbort \/ GetKills

-------------------------------------------------------------------------------

AllInit == Init /\ typed = <<>> /\ father = "types" /\ stop = "no"

OldClients == Client23 \/ Client31 \/ ClientThread \/ Client33 \/ Client32 \/ Figlio
OldUsers   == User23 \/ User31 \/ UserThread \/ User33 \/ User32 \/ Father

AllServer == (~Old /\ Server /\ UNCHANGED pipeVars) \/ OldServer
AllClient == (~Old /\ Client /\ UNCHANGED pipeVars) \/ OldClients

Others == ServerKilled \/ ClientKilled \/ (\E f \in Files : ChangeFile(f)) \/ (~Old /\ User)

AllNext == AllServer \/ AllClient \/ OldUsers \/ Signal \/ (Others /\ UNCHANGED pipeVars)

AllSpec == AllInit /\ [][AllNext]_allVars

\* Both programs run, and the father of 3.2/pipe between its write and its exit; the
\* user types nothing, and nothing fails, unless they do.
AllFairSpec == AllSpec /\ WF_allVars(AllServer) /\ WF_allVars(AllClient) /\ WF_allVars(Signal)

\* Q (3.2 and old/3.2 in the middle of a transfer) and Q and A (3.2/pipe, behind other
\* commands) end the client.  Not Q after an -ERR in 3.2, where ~Trusted: status stays
\* okErr, and flagQuit is only looked at after a file.
QuitEnds == (flagQuit \/ father = "over") ~> (~clientOpen \/ ~Trusted)

\* When the client is gone, serviClient of labs/old returns, at whatever point of a reply
\* it is, unless somebody kills the process.  childTask of the library's servers does not
\* go on waiting for requests.  In a reply it is no return that ends it but SIGPIPE,
\* though mytcp.h, line 28, speaks of one: of that case nothing is claimed.
TaskEnds ==
  /\ (Old /\ ~clientOpen) ~> spc \in {"returned", "killed"}
  /\ (~Old /\ ~clientOpen /\ spc = "line" /\ toServer = <<>>) ~> TaskOver
===============================================================================
