----------------------------- MODULE FileTransfer -----------------------------
(* One connection of the file-transfer programs: the childTask of the servers  *)
(* labs/2.3, 3.1 and 3.3, and the clients labs/2.3 (blocking reads) and        *)
(* labs/3.2 (select on socket and keyboard, one read at a time), on top of     *)
(* the readers and writers of src/mytcp.c.  A reply is a stream of bytes that  *)
(* TCP may cut anywhere; "+OK\r\n", "-ERR\r\n" and the file size have two      *)
(* bytes each here, which is enough to cut them.                               *)
EXTENDS Integers, Sequences, FiniteSets

CONSTANTS
  Programs,     \* the clients considered: "2.3", "3.2" and those of OldTransfer
  Timed,        \* may childTask return after MAX_SECOND_COUNT (3.3; FALSE: 2.3, 3.1)?
  Files,
  Versions,     \* what each file may contain: sets of sequences of bytes
  Absent,       \* "content" of a file that does not exist
  ChunkSize,    \* DEFAULT_CHUNK_SIZE
  Garbage       \* sizes that bytes which are not a size may decode to

ASSUME ProgramAssumption ==
  /\ Programs \subseteq {"2.3", "3.2", "old 2.3", "old 3.1", "old thread", "old 3.2",
                        "old pipe", "old 3.3"}
  /\ Timed \in BOOLEAN
ASSUME ContentAssumption == \A f \in Files : Absent \notin Versions[f] /\ \A d \in Versions[f] : Len(d) > 0
ASSUME NumberAssumption  == ChunkSize \in Nat \ {0} /\ Garbage \subseteq Int

VARIABLES
  program,          \* the client program
  disk,             \* the server's files
  spc, sfile, rest, \* the server: what childTask does, for which file, bytes to send
  peer,             \* what the server's socket knows of a client that has closed
  toServer,         \* request lines in flight (the server reads whole lines)
  toClient,         \* bytes in flight
  clientOpen,       \* the client runs and has its socket open
  local,            \* the client's files
  name,             \* the file name last typed
  status, fileSize, \* the client's position in a reply, and the announced size
  got,              \* the first readByteCount bytes of the operation under way
  target,           \* the file that the select-driven clients have open
  inGet,            \* freeStdInput is inside its call of freeSocket
  flagQuit,
  prompt,           \* the user is asked for a file name
  refused,          \* (history) the client's bookkeeping has gone wrong
  answer            \* (history) what the server has answered since the last GET

serverVars == <<spc, sfile, rest, peer>>
clientVars == <<local, name, status, fileSize, got, target, inGet, flagQuit, prompt>>
vars == <<program, disk, serverVars, toServer, toClient, clientOpen, clientVars,
          refused, answer>>

Contents == UNION {Versions[f] : f \in Files}

Quit     == <<"QUIT">>
NL       == <<"\n">>
OK       == << <<"+OK">>, NL >>
ERR      == << <<"-ERR">>, NL >>
Size(n)  == << <<"size", n, 1>>, <<"size", n, 2>> >>
Sizes    == {Len(d) : d \in Contents}
NoFile   == <<"none">>
NoAnswer == <<>>

Bytes == {OK[i] : i \in 1..2} \cup {ERR[i] : i \in 1..2}
           \cup UNION {{Size(n)[i] : i \in 1..2} : n \in Sizes}
           \cup UNION {{d[i] : i \in DOMAIN d} : d \in Contents}

ASSUME ByteAssumption == Contents \subseteq Seq(Bytes) /\ {NoFile, Quit} \cap Files = {}

TypeOK ==
  /\ program \in Programs
  /\ disk \in [Files -> Contents \cup {Absent}]
  /\ spc \in {"line", "err", "ok", "size", "data", "time", "returned", "died", "killed"}
  /\ sfile \in Files \cup {NoFile} /\ rest \in Seq(Bytes)
  /\ peer \in {"open", "fin", "rst", "reported"}
  /\ toServer \in Seq(Files \cup {Quit}) /\ toClient \in Seq(Bytes)
  /\ clientOpen \in BOOLEAN /\ inGet \in BOOLEAN /\ flagQuit \in BOOLEAN
  /\ local \in [Files -> Seq(Bytes) \cup {Absent}]
  /\ name \in Files \cup {NoFile} /\ target \in Files \cup {NoFile}
  /\ status \in {"init", "okErr", "size", "file"}
  /\ fileSize \in Sizes \cup Garbage \cup {0} /\ got \in Seq(Bytes)
  /\ prompt \in BOOLEAN /\ refused \in BOOLEAN
  /\ answer \in Contents \cup {NoAnswer, ERR}

TaskOver == spc \in {"returned", "died", "killed"}

-------------------------------------------------------------------------------
(* The server's childTask *)

ReadRequest ==
  /\ spc = "line" /\ toServer # <<>>
  /\ toServer' = Tail(toServer)
  /\ IF Head(toServer) = Quit
       THEN spc' = "returned" /\ UNCHANGED sfile
       ELSE /\ sfile' = Head(toServer)
            /\ spc' = IF disk[Head(toServer)] = Absent THEN "err" ELSE "ok"
  /\ UNCHANGED <<program, disk, rest, peer, toClient, clientOpen, clientVars, refused, answer>>

\* Deviation: the false of myTcpReadLine is ignored.
ReadRequestNeverEnds ==
  /\ spc = "line" /\ toServer = <<>> /\ peer = "rst"
  /\ spc' = "died"
  /\ UNCHANGED <<program, disk, sfile, rest, peer, toServer, toClient, clientOpen,
                 clientVars, refused, answer>>

\* myTcpReadLine meets the end of the stream, or err_sys a reset connection.
ReadRequestEnds ==
  /\ spc = "line" /\ toServer = <<>> /\ peer # "open"
  /\ spc' = IF peer = "rst" THEN "died" ELSE "returned"
  /\ UNCHANGED <<program, disk, sfile, rest, peer, toServer, toClient, clientOpen,
                 clientVars, refused, answer>>

\* myTcpWriteBytes of b; the reset that a closed client answers may come later.
WriteSucceeds(b) ==
  /\ peer \in {"open", "fin", "rst"}
  /\ toClient' = IF peer = "open" THEN toClient \o b ELSE toClient
  /\ UNCHANGED peer

\* ECONNRESET, reported once: myTcpWriteBytes returns false.
WriteReturnsFalse ==
  /\ peer = "rst" /\ peer' = "reported"
  /\ UNCHANGED toClient

\* EPIPE: SIGPIPE ends the process.
WriteKills ==
  /\ spc \in {"err", "ok", "size", "data"}
  /\ peer \in {"fin", "reported"}
  /\ spc' = "died"
  /\ UNCHANGED <<program, disk, sfile, rest, peer, toServer, toClient, clientOpen,
                 clientVars, refused, answer>>

\* Deviation: the reply to a GET of an existing file lacks +OK.
ReplyNoOk ==
  \/ /\ spc = "err" /\ spc' = "time" /\ (WriteSucceeds(ERR) \/ WriteReturnsFalse)
     /\ answer' = ERR /\ UNCHANGED rest
  \/ /\ spc = "ok" /\ spc' = "size" /\ UNCHANGED <<peer, toClient, answer, rest>>

\* The replies whose result childTask ignores: -ERR, +OK and the size.  After the
\* size the file is opened and read.
Reply ==
  \/ /\ spc = "err" /\ spc' = "time" /\ (WriteSucceeds(ERR) \/ WriteReturnsFalse)
     /\ answer' = ERR /\ UNCHANGED rest
  \/ /\ spc = "ok" /\ spc' = "size" /\ (WriteSucceeds(OK) \/ WriteReturnsFalse)
     /\ UNCHANGED <<answer, rest>>
  \/ /\ spc = "size" /\ spc' = "data"
     /\ (WriteSucceeds(Size(Len(disk[sfile]))) \/ WriteReturnsFalse)
     /\ rest' = disk[sfile] /\ UNCHANGED answer

SendReply ==
  /\ Reply
  /\ UNCHANGED <<program, disk, sfile, toServer, clientOpen, clientVars, refused>>

\* myTcpReadFromFileAndWriteChunks, a byte at a time.
SendData ==
  /\ spc = "data"
  /\ \/ /\ WriteSucceeds(<<Head(rest)>>)
        /\ rest' = Tail(rest)
        /\ IF Len(rest) > 1 THEN UNCHANGED <<spc, answer>>
                            ELSE spc' = "time" /\ answer' = disk[sfile]
     \/ WriteReturnsFalse /\ spc' = "returned" /\ UNCHANGED <<rest, answer>>
  /\ UNCHANGED <<program, disk, sfile, toServer, clientOpen, clientVars, refused>>

\* 3.3 ends the session when its time is over; 2.3 and 3.1 go on.
CheckTime ==
  /\ spc = "time"
  /\ spc' \in IF Timed THEN {"line", "returned"} ELSE {"line"}
  /\ sfile' = NoFile
  /\ UNCHANGED <<program, disk, rest, peer, toServer, toClient, clientOpen,
                 clientVars, refused, answer>>

\* Another process kills the server's process (Ctrl-C, SIGTERM).
ServerKilled ==
  /\ ~TaskOver /\ spc' = "killed"
  /\ UNCHANGED <<program, disk, sfile, rest, peer, toServer, toClient, clientOpen,
                 clientVars, refused, answer>>

\* A file of the server changes, but not while childTask deals with a request.
ChangeFile(f) ==
  /\ spc = "line"
  /\ \E d \in (Versions[f] \cup {Absent}) \ {disk[f]} : disk' = [disk EXCEPT ![f] = d]
  /\ UNCHANGED <<program, serverVars, toServer, toClient, clientOpen, clientVars, refused, answer>>

Server == \/ ReadRequest \/ ReadRequestEnds \/ WriteKills
          \/ SendReply \/ SendData \/ CheckTime

-------------------------------------------------------------------------------
(* What both clients do *)

AtEnd == TaskOver /\ toClient = <<>>     \* read() returns 0

\* exit, error or signal: the kernel closes the socket, with a reset if bytes
\* have arrived that were not read.
ClientEnds ==
  /\ clientOpen' = FALSE
  /\ peer' \in IF toClient = <<>> THEN {"fin"} ELSE {"fin", "rst"}
  /\ toClient' = <<>>

ClientDies ==
  /\ ClientEnds
  /\ UNCHANGED <<program, disk, spc, sfile, rest, toServer, clientVars, refused, answer>>

\* Another process, or the terminal, kills the client.
ClientKilled == clientOpen /\ ClientDies

\* A server that went away with unread requests has reset the connection.
ReadFails ==
  /\ clientOpen /\ status # "init" /\ TaskOver /\ toServer # <<>>
  /\ ClientDies

\* Deviation: the name is sent before the new one is read.
SendGetStale(f) ==
  /\ ~TaskOver \/ toServer = <<>>
  /\ toServer' = Append(toServer, name)
  /\ name' = f /\ prompt' = FALSE /\ answer' = NoAnswer

\* The user types a file name; to a server that is gone the first write succeeds.
SendGet(f) ==
  /\ ~TaskOver \/ toServer = <<>>
  /\ toServer' = Append(toServer, f)
  /\ name' = f /\ prompt' = FALSE /\ answer' = NoAnswer

GetKills ==
  /\ clientOpen /\ prompt /\ TaskOver
  /\ ClientDies

\* The quit message, then Close.
QuitAndClose ==
  /\ toServer' = Append(toServer, Quit)
  /\ ClientEnds

\* Deviation: no ntohl.
DecodedUnconverted(s) == Garbage

\* Bytes that are not a size decode to anything; so does a size that was cut short.
Decoded(s) == IF \E n \in Sizes : s = Size(n)
                THEN {n \in Sizes : s = Size(n)} ELSE Garbage

Lesser(m, n) == IF m < n THEN m ELSE n

\* The next prompt; the size and the bytes of this reply are not read again.
NextPrompt ==
  status' = "init" /\ prompt' = TRUE /\ fileSize' = 0 /\ got' = <<>> /\ answer' = NoAnswer

\* k bytes are read from the stream.
Take(k) == toClient' = SubSeq(toClient, k + 1, Len(toClient))
First(k) == SubSeq(toClient, 1, k)

-------------------------------------------------------------------------------
(* The blocking client of 2.3 *)

In23 == program = "2.3" /\ clientOpen

Get23(f) ==
  /\ In23 /\ prompt
  /\ SendGet(f)
  /\ status' = "okErr"
  /\ UNCHANGED <<program, disk, serverVars, toClient, clientOpen, local, fileSize, got,
                 target, inGet, flagQuit, refused>>

\* myTcpReadLine up to the newline, or to the end of the stream.
ReadLine23 ==
  /\ In23 /\ status = "okErr"
  /\ \E k \in 0..Len(toClient) :
       /\ \A i \in 1..(k - 1) : toClient[i] # NL
       /\ (k > 0 /\ toClient[k] = NL) \/ (TaskOver /\ k = Len(toClient))
       /\ Take(k)
       /\ IF First(k) = ERR THEN NextPrompt
                             ELSE status' = "size" /\ UNCHANGED <<prompt, fileSize, got, answer>>
  /\ UNCHANGED <<program, disk, serverVars, toServer, clientOpen, local, name, target,
                 inGet, flagQuit, refused>>

\* myTcpReadBytes of the size; then fopen empties the file.
ReadSize23 ==
  /\ In23 /\ status = "size"
  /\ \E k \in 0..Lesser(2, Len(toClient)) :
       /\ k = 2 \/ (TaskOver /\ k = Len(toClient))
       /\ Take(k) /\ fileSize' \in Decoded(First(k))
  /\ status' = "file" /\ got' = <<>>
  /\ local' = [local EXCEPT ![name] = <<>>]
  /\ UNCHANGED <<program, disk, serverVars, toServer, clientOpen, name, target, inGet,
                 flagQuit, prompt, refused, answer>>

\* One whole chunk is read and written.
ReadChunk ==
  LET left == fileSize - Len(got)  chunk == Lesser(left, ChunkSize) IN
  /\ status = "file" /\ left > 0
  /\ Len(toClient) >= chunk
  /\ Take(chunk) /\ got' = got \o First(chunk)
  /\ local' = [local EXCEPT ![name] = @ \o First(chunk)]
  /\ UNCHANGED <<program, disk, serverVars, toServer, clientOpen, name, status, fileSize,
                 target, inGet, flagQuit, prompt, refused, answer>>

\* One turn of the loop of myTcpReadChunks.
ReadChunk23 == In23 /\ ReadChunk

\* Fewer bytes than a chunk before the end: they are written, and myError exits.
ReadChunkEnds23 ==
  LET left == fileSize - Len(got)  chunk == Lesser(left, ChunkSize) IN
  /\ In23 /\ status = "file" /\ left > 0
  /\ TaskOver /\ Len(toClient) < chunk
  /\ local' = [local EXCEPT ![name] = @ \o toClient]
  /\ clientOpen' = FALSE /\ peer' = "fin" /\ toClient' = <<>>
  /\ UNCHANGED <<program, disk, spc, sfile, rest, toServer, name, status, fileSize, got,
                 target, inGet, flagQuit, prompt, refused, answer>>

FileDone23 ==
  /\ In23 /\ status = "file" /\ fileSize <= Len(got)
  /\ NextPrompt
  /\ UNCHANGED <<program, disk, serverVars, toServer, toClient, clientOpen, local, name,
                 target, inGet, flagQuit, refused>>

Quit23 ==
  /\ In23 /\ prompt
  /\ QuitAndClose
  /\ UNCHANGED <<program, disk, spc, sfile, rest, clientVars, refused, answer>>

-------------------------------------------------------------------------------
(* The select-driven client of 3.2 *)

In32 == program = "3.2" /\ clientOpen

\* freeStdInput: GET.  It ends with a call of freeSocket, which in case init only
\* resets readByteCount and in every other case reads (and may block).
Get32(f) ==
  /\ In32 /\ prompt /\ ~inGet
  /\ SendGet(f)
  /\ IF status = "init" THEN status' = "okErr" /\ got' = <<>> /\ inGet' = FALSE
                        ELSE inGet' = TRUE /\ UNCHANGED <<status, got>>
  /\ UNCHANGED <<program, disk, serverVars, toClient, clientOpen, local, fileSize, target,
                 flagQuit, refused>>

\* freeStdInput: Q.
Quit32 ==
  /\ In32 /\ ~inGet /\ ~flagQuit
  /\ IF status = "init"
       THEN QuitAndClose /\ UNCHANGED <<spc, sfile, rest, clientVars>>
       ELSE /\ flagQuit' = TRUE
            /\ UNCHANGED <<serverVars, toServer, toClient, clientOpen, local, name, status,
                           fileSize, got, target, inGet, prompt>>
  /\ UNCHANGED <<program, disk, refused, answer>>

\* freeStdInput: A.
Abort32 ==
  /\ In32 /\ ~inGet
  /\ ClientDies

\* freeSocket runs: select has found the socket readable, or freeStdInput calls it
\* and the read blocks until there is something.
Reading(s) == In32 /\ status = s /\ (toClient # <<>> \/ AtEnd)

\* case init: something (the end of the stream) although nothing was asked for.
FreeSocketInit ==
  /\ Reading("init") /\ ~inGet
  /\ got' = <<>> /\ status' = "okErr"
  /\ UNCHANGED <<program, disk, serverVars, toServer, toClient, clientOpen, local, name,
                 fileSize, target, inGet, flagQuit, prompt, refused, answer>>

\* case okErr: myTcpReadLineAsync reads one byte.  After -ERR status and
\* readByteCount stay as they are.
FreeSocketLine ==
  /\ Reading("okErr")
  /\ inGet' = FALSE
  /\ LET k == Lesser(1, Len(toClient))  line == got \o First(k) IN
       /\ Take(k)
       /\ IF k = 1 /\ Head(toClient) # NL
            THEN got' = line /\ UNCHANGED <<status, prompt, refused>>
          ELSE IF line = ERR
            THEN got' = line /\ prompt' = TRUE /\ refused' = TRUE /\ UNCHANGED status
          ELSE got' = <<>> /\ status' = "size" /\ UNCHANGED <<prompt, refused>>
  /\ UNCHANGED <<program, disk, serverVars, toServer, clientOpen, local, name, fileSize,
                 target, flagQuit, answer>>

\* case size: myTcpReadBytesAsync reads what there is, at most what is missing.
FreeSocketSize ==
  /\ Reading("size")
  /\ inGet' = FALSE
  /\ \E k \in 0..Lesser(2 - Len(got), Len(toClient)) :
       /\ k = 0 => AtEnd
       /\ Take(k)
       /\ IF k = 0 \/ Len(got) + k = 2
            THEN got' = <<>> /\ status' = "file" /\ fileSize' \in Decoded(got \o First(k))
            ELSE got' = got \o First(k) /\ UNCHANGED <<status, fileSize>>
  /\ UNCHANGED <<program, disk, serverVars, toServer, clientOpen, local, name, target,
                 flagQuit, prompt, refused, answer>>

\* Deviation: the static "open" stays set.
FileReceivedStaysOpen(file, k) ==
  /\ target' = file /\ Take(k) /\ NextPrompt
  /\ UNCHANGED <<toServer, clientOpen, peer>>

\* Deviation: flagQuit is not looked at.
FileReceivedNoQuit(file, k) ==
  /\ target' = NoFile /\ Take(k) /\ NextPrompt
  /\ UNCHANGED <<toServer, clientOpen, peer>>

\* The last k bytes are there: the file is closed; then quit, or the next prompt.
\* freeStdInput ignores freeSocket's wish to quit.
FileReceived(file, k) ==
  /\ target' = NoFile
  /\ \/ /\ flagQuit /\ ~inGet /\ QuitAndClose
        /\ got' = got \o First(k) /\ UNCHANGED <<status, prompt, fileSize, answer>>
     \/ /\ flagQuit /\ inGet /\ Take(k) /\ toServer' = Append(toServer, Quit)
        /\ got' = got \o First(k)
        /\ UNCHANGED <<clientOpen, peer, status, prompt, fileSize, answer>>
     \/ /\ ~flagQuit /\ Take(k) /\ NextPrompt
        /\ UNCHANGED <<toServer, clientOpen, peer>>

\* case file: myTcpReadChunksAndWriteToFileAsync reads what there is, at most a
\* chunk; its static fd is opened (which empties the file) by the first call.
FreeSocketFile ==
  LET file  == IF target = NoFile THEN name ELSE target
      left  == fileSize - Len(got)
      chunk == Lesser(left, ChunkSize)
      sofar == IF target = NoFile THEN <<>> ELSE local[file] IN
  /\ Reading("file") /\ left >= 0
  /\ inGet' = FALSE
  /\ \E k \in 0..Lesser(chunk, Len(toClient)) :
       /\ k = 0 => AtEnd \/ chunk = 0
       /\ local' = [local EXCEPT ![file] = sofar \o First(k)]
       /\ IF ~(k = 0 \/ Len(got) + k = fileSize)
            THEN /\ target' = file /\ Take(k) /\ got' = got \o First(k)
                 /\ UNCHANGED <<toServer, clientOpen, peer, status, prompt, fileSize, answer>>
            ELSE FileReceived(file, k)
  /\ UNCHANGED <<program, disk, spc, sfile, rest, name, flagQuit, refused>>

\* A negative size: read() refuses it, and err_sys exits (the file is empty by now).
FreeSocketFileFails ==
  /\ Reading("file") /\ fileSize < Len(got)
  /\ local' = IF target = NoFile THEN [local EXCEPT ![name] = <<>>] ELSE local
  /\ ClientEnds
  /\ UNCHANGED <<program, disk, spc, sfile, rest, toServer, name, status, fileSize, got,
                 target, inGet, flagQuit, prompt, refused, answer>>

-------------------------------------------------------------------------------

Init ==
  /\ program \in Programs
  /\ disk \in {d \in [Files -> Contents \cup {Absent}] : \A f \in Files : d[f] \in Versions[f] \cup {Absent}}
  /\ spc = "line" /\ sfile = NoFile /\ rest = <<>> /\ peer = "open"
  /\ toServer = <<>> /\ toClient = <<>> /\ clientOpen = TRUE
  /\ local = [f \in Files |-> Absent] /\ name = NoFile
  /\ status = "init" /\ fileSize = 0 /\ got = <<>> /\ target = NoFile
  /\ inGet = FALSE /\ flagQuit = FALSE /\ prompt = TRUE
  /\ refused = FALSE /\ answer = NoAnswer

Client == \/ ReadLine23 \/ ReadSize23 \/ ReadChunk23 \/ ReadChunkEnds23 \/ FileDone23
          \/ FreeSocketInit \/ FreeSocketLine \/ FreeSocketSize \/ FreeSocketFile
          \/ FreeSocketFileFails \/ ReadFails

User == \/ \E f \in Files : Get23(f) \/ Get32(f)
        \/ GetKills \/ Quit23 \/ Quit32 \/ Abort32

Next == Server \/ Client \/ User \/ ServerKilled \/ ClientKilled \/ \E f \in Files : ChangeFile(f)

Spec == Init /\ [][Next]_vars

-------------------------------------------------------------------------------
(* Properties *)

Pending == ~prompt            \* a GET has been typed and not dealt with

\* The bookkeeping of 3.2 can be trusted until it has met an -ERR; that of old/3.2
\* until TCP has cut a size.
Trusted == ~refused

\* What a client stores as the file it asked for is what the server has answered,
\* however TCP cuts the line, the size and the data.
DownloadComplete ==
  [][(Pending /\ prompt' /\ status' = "init" /\ status = "file"
       /\ Trusted /\ answer # NoAnswer)
        => local'[name] = answer]_vars

\* A file that is not being asked for is left alone, while the server is there.
OthersKept ==
  [][Trusted /\ (program # "3.2" \/ ~TaskOver) =>
       \A f \in Files : local'[f] # local[f] => Pending /\ f = name]_vars

\* Every GET is dealt with, unless the client ends: the two programs do not wait
\* for each other, whatever the server, the time limit and other processes do.
GetAnswered == (Pending /\ Trusted) ~> (~Pending \/ ~clientOpen \/ ~Trusted)
===============================================================================
