---------------------------- MODULE TransferProofs ----------------------------
(* Proofs about FileTransfer and OldTransfer for every set of files, every     *)
(* content and every chunk size.                                               *)
EXTENDS OldTransfer, QueueLemmas

-------------------------------------------------------------------------------
(* Types.                                                                      *)

\* A reply is about a file that is there, and the last byte of its data ends it.
ReplyInv ==
  /\ spc \in {"ok", "size", "data"} => sfile \in Files /\ disk[sfile] \in Contents
  /\ spc = "data" => rest # <<>>

\* What a client appends to is open, and it is one of its files.
OpenInv ==
  /\ ~prompt => name \in Files
  /\ target # NoFile => local[target] \in Seq(Bytes)
  /\ program \notin {"3.2", "old 3.2"} /\ clientOpen =>
       /\ prompt <=> status = "init"
       /\ status = "file" => local[name] \in Seq(Bytes)

TypeInv == OldTypeOK /\ ReplyInv /\ OpenInv

\* Its parts: the task and its files, the connection, the client, the pipe of 3.2/pipe.
TaskT ==
  /\ disk \in [Files -> Contents \cup {Absent}]
  /\ spc \in {"line", "err", "ok", "size", "data", "time", "returned", "died", "killed"}
  /\ sfile \in Files \cup {NoFile} /\ rest \in Seq(Bytes)
  /\ ReplyInv

StreamT ==
  /\ peer \in {"open", "fin", "rst", "reported"}
  /\ toServer \in Seq(Files \cup {Quit}) /\ toClient \in Seq(Bytes)
  /\ answer \in Contents \cup {NoAnswer, ERR}

ClientT ==
  /\ program \in Programs
  /\ clientOpen \in BOOLEAN /\ inGet \in BOOLEAN /\ flagQuit \in BOOLEAN
  /\ local \in [Files -> Seq(Bytes) \cup {Absent}]
  /\ name \in Files \cup {NoFile} /\ target \in Files \cup {NoFile}
  /\ status \in {"init", "okErr", "size", "file"}
  /\ fileSize \in Sizes \cup Garbage \cup {0} /\ got \in Seq(Bytes)
  /\ prompt \in BOOLEAN /\ refused \in BOOLEAN
  /\ OpenInv

PipeT ==
  /\ typed \in Seq(Commands) /\ Len(typed) <= MaxTyped
  /\ father \in {"types", "kills", "over"} /\ stop \in {"no", "recv", "yes"}

LEMMA TypeParts == TypeInv <=> TaskT /\ StreamT /\ ClientT /\ PipeT
BY DEF TypeInv, OldTypeOK, TypeOK, TaskT, StreamT, ClientT, PipeT

(* Pieces of a stream are streams.                                             *)
LEMMA Pieces ==
  ASSUME NEW S, NEW s \in Seq(S)
  PROVE  /\ Len(s) \in Nat
         /\ \A k \in 0..Len(s) : SubSeq(s, 1, k) \in Seq(S) /\ SubSeq(s, k + 1, Len(s)) \in Seq(S)
         /\ \A t \in Seq(S) : s \o t \in Seq(S)
         /\ s # <<>> => Head(s) \in S /\ Tail(s) \in Seq(S) /\ Len(s) > 0
         /\ Len(s) > 1 => Tail(s) # <<>>
OBVIOUS

LEMMA Replies ==
  /\ OK \in Seq(Bytes) /\ ERR \in Seq(Bytes) /\ \A n \in Sizes : Size(n) \in Seq(Bytes)
  /\ Sizes \subseteq Nat /\ Contents \subseteq Seq(Bytes) /\ \A d \in Contents : d # <<>> /\ Len(d) \in Sizes
<1>1. ASSUME NEW a, NEW b, a \in Bytes, b \in Bytes PROVE <<a, b>> \in Seq(Bytes)
  BY <1>1
<1>2. OK[1] \in Bytes /\ OK[2] \in Bytes /\ ERR[1] \in Bytes /\ ERR[2] \in Bytes
  BY DEF Bytes
<1>3. ASSUME NEW n \in Sizes PROVE Size(n)[1] \in Bytes /\ Size(n)[2] \in Bytes
  <2>1. {Size(n)[i] : i \in 1..2} \in {{Size(m)[i] : i \in 1..2} : m \in Sizes}
    OBVIOUS
  <2> HIDE DEF Size, Sizes
  <2>2. {Size(n)[i] : i \in 1..2} \subseteq Bytes
    BY <2>1 DEF Bytes
  <2> QED
    BY <2>2
<1>4. Contents \subseteq Seq(Bytes)
  BY ByteAssumption
<1> HIDE DEF Bytes
<1>5. OK = <<OK[1], OK[2]>> /\ ERR = <<ERR[1], ERR[2]>> /\ \A n : Size(n) = <<Size(n)[1], Size(n)[2]>>
  BY DEF OK, ERR, Size
<1>6. OK \in Seq(Bytes) /\ ERR \in Seq(Bytes) /\ \A n \in Sizes : Size(n) \in Seq(Bytes)
  BY <1>1, <1>2, <1>3, <1>5
<1>7. ASSUME NEW d \in Contents PROVE Len(d) \in Nat /\ d # <<>> /\ Len(d) \in Sizes
  <2>1. d \in Seq(Bytes)
    BY <1>4
  <2>2. Len(d) > 0
    BY ContentAssumption DEF Contents
  <2> QED
    BY <2>1, <2>2 DEF Sizes
<1> QED
  BY <1>4, <1>6, <1>7 DEF Sizes

LEMMA DecodedSize == \A s : Decoded(s) \subseteq Sizes \cup Garbage \cup {0}
BY DEF Decoded

(* The server.                                                                 *)
LEMMA WriteStream ==
  ASSUME StreamT, NEW b \in Seq(Bytes), WriteSucceeds(b) \/ WriteReturnsFalse
  PROVE  /\ peer' \in {"open", "fin", "rst", "reported"} /\ toClient' \in Seq(Bytes)
BY Pieces DEF StreamT, WriteSucceeds, WriteReturnsFalse

LEMMA WritenStream ==
  ASSUME StreamT, NEW b \in Seq(Bytes), NEW next, Writen(b, next)
  PROVE  /\ peer' \in {"open", "fin", "rst", "reported"} /\ toClient' \in Seq(Bytes)
         /\ spc' \in {next, "returned"}
BY Pieces DEF StreamT, WriteSucceeds, Writen

LEMMA ReadRequestType ==
  ASSUME TaskT, StreamT, ReadRequest
  PROVE  TaskT' /\ StreamT'
<1>1. toServer \in Seq(Files \cup {Quit}) /\ toServer # <<>>
  BY DEF StreamT, ReadRequest
<1>2. Head(toServer) \in Files \cup {Quit} /\ Tail(toServer) \in Seq(Files \cup {Quit})
  BY <1>1, Pieces
<1>3. StreamT'
  BY <1>2 DEF StreamT, ReadRequest
<1>4. CASE Head(toServer) = Quit
  BY <1>3, <1>4 DEF TaskT, ReplyInv, ReadRequest
<1>5. CASE Head(toServer) # Quit
  <2>1. /\ Head(toServer) \in Files /\ sfile' = Head(toServer) /\ UNCHANGED <<disk, rest>>
        /\ spc' = IF disk[Head(toServer)] = Absent THEN "err" ELSE "ok"
    BY <1>2, <1>5 DEF ReadRequest
  <2>2. disk[Head(toServer)] \in Contents \cup {Absent}
    BY <2>1 DEF TaskT
  <2> QED
    BY <1>3, <2>1, <2>2 DEF TaskT, ReplyInv
<1> QED
  BY <1>4, <1>5

LEMMA SendReplyType ==
  ASSUME TaskT, StreamT, SendReply \/ OldReply
  PROVE  TaskT' /\ StreamT'
<1>1. UNCHANGED <<disk, sfile, toServer>>
  BY DEF SendReply, OldReply
<1>2. spc = "err" \/ spc = "ok" \/ spc = "size"
  BY DEF SendReply, OldReply, Reply
<1>3. CASE spc = "err"
  <2>1. /\ peer' \in {"open", "fin", "rst", "reported"} /\ toClient' \in Seq(Bytes)
        /\ answer' = ERR /\ rest' = rest /\ spc' \in {"time", "returned"}
    BY <1>3, Replies, WriteStream, WritenStream DEF SendReply, OldReply, Reply
  <2> QED
    BY <1>1, <2>1 DEF TaskT, StreamT, ReplyInv
<1>4. CASE spc = "ok"
  <2>1. /\ peer' \in {"open", "fin", "rst", "reported"} /\ toClient' \in Seq(Bytes)
        /\ answer' = answer /\ rest' = rest /\ spc' \in {"size", "returned"}
    BY <1>4, Replies, WriteStream, WritenStream DEF SendReply, OldReply, Reply
  <2> QED
    BY <1>1, <1>4, <2>1 DEF TaskT, StreamT, ReplyInv
<1>5. CASE spc = "size"
  <2>1. disk[sfile] \in Contents /\ sfile \in Files
    BY <1>5 DEF TaskT, ReplyInv
  <2>2. Size(Len(disk[sfile])) \in Seq(Bytes) /\ disk[sfile] \in Seq(Bytes) /\ disk[sfile] # <<>>
    BY <2>1, Replies
  <2>3. /\ peer' \in {"open", "fin", "rst", "reported"} /\ toClient' \in Seq(Bytes)
        /\ answer' = answer /\ rest' = disk[sfile] /\ spc' \in {"data", "returned"}
    BY <1>5, <2>2, WriteStream, WritenStream DEF SendReply, OldReply, Reply
  <2> QED
    BY <1>1, <2>1, <2>2, <2>3 DEF TaskT, StreamT, ReplyInv
<1> QED
  BY <1>2, <1>3, <1>4, <1>5

LEMMA SendDataType ==
  ASSUME TaskT, StreamT, SendData \/ OldSendData
  PROVE  TaskT' /\ StreamT'
<1>1. /\ UNCHANGED <<disk, sfile, toServer>> /\ spc = "data"
  BY DEF SendData, OldSendData
<1>2. rest \in Seq(Bytes) /\ rest # <<>> /\ disk[sfile] \in Contents /\ sfile \in Files
  BY <1>1 DEF TaskT, ReplyInv
<1>3. /\ Head(rest) \in Bytes /\ Tail(rest) \in Seq(Bytes) /\ <<Head(rest)>> \in Seq(Bytes)
      /\ Len(rest) > 1 => Tail(rest) # <<>>
  BY <1>2, Pieces
<1>4. peer' \in {"open", "fin", "rst", "reported"} /\ toClient' \in Seq(Bytes)
  <2>1. CASE SendData
    BY <1>3, <2>1, WriteStream DEF SendData
  <2>2. CASE OldSendData
    <3>1. PICK next : Writen(<<Head(rest)>>, next)
      BY <2>2 DEF OldSendData
    <3> QED
      BY <1>3, <3>1, WritenStream
  <2> QED
    BY <2>1, <2>2
<1>5. /\ rest' \in {rest, Tail(rest)} /\ answer' \in {answer, disk[sfile]}
      /\ \/ spc' \in {"time", "returned"}
         \/ spc' = "data" /\ rest' = Tail(rest) /\ Len(rest) > 1
  <2>1. CASE SendData
    BY <1>1, <2>1 DEF SendData
  <2>2. CASE OldSendData
    BY <1>1, <2>2 DEF OldSendData, Writen
  <2> QED
    BY <2>1, <2>2
<1> QED
  BY <1>1, <1>2, <1>3, <1>4, <1>5 DEF TaskT, StreamT, ReplyInv

LEMMA ServerType ==
  ASSUME TaskT, StreamT, Server \/ ServiClient \/ NextRequest({"line", "returned"})
                         \/ NextRequest({"line"}) \/ ServerKilled
  PROVE  TaskT' /\ StreamT'
<1>1. CASE ReadRequest
  BY <1>1, ReadRequestType
<1>2. CASE SendReply \/ OldReply
  BY <1>2, SendReplyType
<1>3. CASE SendData \/ OldSendData
  BY <1>3, SendDataType
<1>4. CASE ReadRequestEnds \/ WriteKills \/ OldReadEnds \/ ServerKilled
  <2>1. spc' \in {"returned", "died", "killed"} /\ UNCHANGED <<disk, sfile, rest, peer, toServer, toClient, answer>>
    BY <1>4 DEF ReadRequestEnds, WriteKills, OldReadEnds, ServerKilled
  <2> QED
    BY <2>1 DEF TaskT, StreamT, ReplyInv
<1>5. CASE CheckTime \/ NextRequest({"line", "returned"}) \/ NextRequest({"line"})
  <2>1. /\ spc' \in {"line", "returned"} /\ sfile' = NoFile
        /\ UNCHANGED <<disk, rest, peer, toServer, toClient, answer>>
    BY <1>5 DEF CheckTime, NextRequest
  <2> QED
    BY <2>1 DEF TaskT, StreamT, ReplyInv
<1> QED
  BY <1>1, <1>2, <1>3, <1>4, <1>5 DEF Server, ServiClient

LEMMA ChangeFileType ==
  ASSUME TaskT, StreamT, NEW f \in Files, ChangeFile(f)
  PROVE  TaskT' /\ StreamT'
<1>1. PICK d \in Versions[f] \cup {Absent} : disk' = [disk EXCEPT ![f] = d]
  BY DEF ChangeFile
<1>2. d \in Contents \cup {Absent}
  BY DEF Contents
<1>3. spc = "line" /\ UNCHANGED <<spc, sfile, rest, peer, toServer, toClient, answer>>
  BY DEF ChangeFile, serverVars
<1> QED
  BY <1>1, <1>2, <1>3 DEF TaskT, StreamT, ReplyInv

(* The client: what each part of a step does.                                  *)
LEMMA TakeType ==
  ASSUME StreamT, NEW k \in 0..Len(toClient)
  PROVE  First(k) \in Seq(Bytes) /\ (Take(k) => toClient' \in Seq(Bytes))
BY Pieces DEF StreamT, First, Take

LEMMA LesserNumber == \A m, n : Lesser(m, n) \in {m, n}
BY DEF Lesser

LEMMA Numbers ==
  ASSUME StreamT, ClientT
  PROVE  /\ Len(toClient) \in Nat /\ Len(got) \in Nat /\ fileSize \in Int /\ ChunkSize \in Nat \ {0}
         /\ \A k \in 0..Lesser(1, Len(toClient)) : k \in 0..Len(toClient)
         /\ \A n \in Int : \A k \in 0..Lesser(n, Len(toClient)) : k \in 0..Len(toClient)
<1>1. /\ Len(toClient) \in Nat /\ Len(got) \in Nat /\ fileSize \in Int /\ ChunkSize \in Nat \ {0}
  BY Pieces, Replies, NumberAssumption DEF StreamT, ClientT
<1>2. \A n \in Int : \A k \in 0..Lesser(n, Len(toClient)) : k \in 0..Len(toClient)
  BY <1>1 DEF Lesser
<1> QED
  BY <1>1, <1>2

\* A file, once opened, is never closed to what it was.
Grows ==
  /\ local' \in [Files -> Seq(Bytes) \cup {Absent}]
  /\ \A f \in Files : local[f] \in Seq(Bytes) => local'[f] \in Seq(Bytes)

LEMMA Kept ==
  ASSUME ClientT, UNCHANGED local
  PROVE  Grows
BY DEF ClientT, Grows

LEMMA Grown ==
  ASSUME ClientT, NEW f, NEW d, local' = [local EXCEPT ![f] = d], f \in Files => d \in Seq(Bytes)
  PROVE  Grows /\ (f \in Files => local'[f] \in Seq(Bytes))
BY DEF ClientT, Grows

\* The client has ended.
Finished ==
  /\ clientOpen' = FALSE /\ toClient' = <<>> /\ peer' \in {"open", "fin", "rst", "reported"}
  /\ UNCHANGED <<program, name, status, fileSize, prompt, answer>>
  /\ inGet' \in BOOLEAN /\ flagQuit' \in BOOLEAN /\ refused' \in BOOLEAN /\ got' \in Seq(Bytes)
  /\ toServer' = toServer \/ toServer' = Append(toServer, Quit)
  /\ target' \in {target, NoFile} /\ Grows

LEMMA FinishedType ==
  ASSUME StreamT, ClientT, Finished
  PROVE  StreamT' /\ ClientT'
<1>1. toServer \in Seq(Files \cup {Quit}) /\ Quit \in Files \cup {Quit}
  BY DEF StreamT
<1>2. Append(toServer, Quit) \in Seq(Files \cup {Quit}) /\ <<>> \in Seq(Bytes)
  BY <1>1, Joined, Deserted
<1>3. StreamT'
  BY <1>1, <1>2 DEF StreamT, Finished
<1>4. OpenInv'
  BY DEF ClientT, OpenInv, Finished, Grows
<1>5. ClientT'
  BY <1>4 DEF ClientT, Finished, Grows
<1> QED
  BY <1>3, <1>5

LEMMA DiesType ==
  ASSUME StreamT, ClientT,
         \/ ClientDies
         \/ QuitAndClose /\ UNCHANGED <<program, clientVars, refused, answer>>
         \/ CloseSocket /\ UNCHANGED <<program, toServer, clientVars, refused, answer>>
  PROVE  StreamT' /\ ClientT'
<1>1. /\ clientOpen' = FALSE /\ toClient' = <<>> /\ peer' \in {"open", "fin", "rst", "reported"}
      /\ UNCHANGED <<program, clientVars, refused, answer>>
      /\ toServer' = toServer \/ toServer' = Append(toServer, Quit)
  BY DEF ClientDies, ClientEnds, QuitAndClose, CloseSocket
<1>2. UNCHANGED local /\ Grows
  BY <1>1, Kept DEF clientVars
<1>3. Finished
  BY <1>1, <1>2 DEF Finished, clientVars, ClientT
<1> QED
  BY <1>3, FinishedType

\* The next GET.
LEMMA SendGetType ==
  ASSUME StreamT, ClientT, NEW f \in Files, prompt, SendGet(f), UNCHANGED <<peer, toClient>>,
         UNCHANGED <<program, clientOpen, local, fileSize, target, flagQuit, refused>>,
         inGet' \in BOOLEAN, got' \in {got, <<>>},
         \/ status' = "okErr"
         \/ UNCHANGED status /\ program = "3.2"
         \/ UNCHANGED status /\ program = "old 3.2"
  PROVE  StreamT' /\ ClientT'
<1>1. toServer \in Seq(Files \cup {Quit}) /\ f \in Files \cup {Quit}
  BY DEF StreamT
<1>2. Append(toServer, f) \in Seq(Files \cup {Quit})
  BY <1>1, Joined
<1>3. StreamT'
  BY <1>2 DEF StreamT, SendGet
<1>4. name' = f /\ prompt' = FALSE
  BY DEF SendGet
<1>5. status' \in {"init", "okErr", "size", "file"} /\ (status' = "okErr" \/ program' \in {"3.2", "old 3.2"})
  BY DEF ClientT
<1>6. got' \in Seq(Bytes)
  BY Deserted DEF ClientT
<1>7. target # NoFile => local[target] \in Seq(Bytes)
  BY DEF ClientT, OpenInv
<1>8. OpenInv'
  BY <1>4, <1>5, <1>7 DEF OpenInv
<1>9. ClientT'
  BY <1>4, <1>5, <1>8, <1>6 DEF ClientT
<1> QED
  BY <1>3, <1>9

\* A piece of the stream is read; the file that is open grows.
Reads ==
  /\ UNCHANGED <<program, clientOpen, name, flagQuit, peer>>
  /\ toServer' = toServer \/ toServer' = Append(toServer, Quit)
  /\ toClient' \in Seq(Bytes) /\ answer' \in {answer, NoAnswer} /\ inGet' \in BOOLEAN
  /\ prompt' \in BOOLEAN /\ refused' \in BOOLEAN /\ got' \in Seq(Bytes)
  /\ fileSize' \in Sizes \cup Garbage \cup {0} /\ status' \in {"init", "okErr", "size", "file"}
  /\ Grows
  /\ prompt' \/ prompt' = prompt
  /\ \/ target' \in {target, NoFile}
     \/ target' = name /\ (name \in Files => local'[name] \in Seq(Bytes))
  /\ \/ program \in {"3.2", "old 3.2"}
     \/ (prompt' <=> status' = "init") /\ (status' = "file" => local'[name] \in Seq(Bytes))

LEMMA ReadType ==
  ASSUME StreamT, ClientT, Reads
  PROVE  StreamT' /\ ClientT'
<1>1. toServer \in Seq(Files \cup {Quit}) /\ Quit \in Files \cup {Quit}
  BY DEF StreamT
<1>2. Append(toServer, Quit) \in Seq(Files \cup {Quit}) /\ NoAnswer \in {NoAnswer}
  BY <1>1, Joined
<1>3. StreamT'
  BY <1>1, <1>2 DEF StreamT, Reads
<1>4. target' \in Files \cup {NoFile}
  BY DEF ClientT, Reads
<1>5. target' # NoFile => local'[target'] \in Seq(Bytes)
  <2>1. CASE target' \in {target, NoFile}
    <3>1. target # NoFile => target \in Files /\ local[target] \in Seq(Bytes)
      BY DEF ClientT, OpenInv
    <3>2. target # NoFile => local'[target] \in Seq(Bytes)
      BY <3>1 DEF Reads, Grows
    <3> QED
      BY <2>1, <3>2
  <2>2. CASE target' = name /\ (name \in Files => local'[name] \in Seq(Bytes))
    BY <2>2 DEF ClientT
  <2> QED
    BY <2>1, <2>2 DEF Reads
<1>6. ~prompt' => name' \in Files
  <2>1. ~prompt => name \in Files
    BY DEF ClientT, OpenInv
  <2>2. (prompt' \/ prompt' = prompt) /\ name' = name
    BY DEF Reads
  <2> QED
    BY <2>1, <2>2
<1>7. program' \notin {"3.2", "old 3.2"} /\ clientOpen' =>
        /\ prompt' <=> status' = "init"
        /\ status' = "file" => local'[name'] \in Seq(Bytes)
  BY DEF Reads
<1>8. OpenInv'
  BY <1>5, <1>6, <1>7 DEF OpenInv
<1>9. ClientT'
  BY <1>4, <1>8 DEF ClientT, Reads, Grows
<1> QED
  BY <1>3, <1>9

(* The blocking clients.                                                       *)
Blocking == program \notin {"3.2", "old 3.2"} /\ clientOpen

LEMMA BlockingState ==
  ASSUME ClientT, Blocking
  PROVE  /\ status # "init" => prompt = FALSE /\ name \in Files
         /\ status = "file" => local[name] \in Seq(Bytes)
BY DEF ClientT, OpenInv, Blocking

LEMMA ReadLineType ==
  ASSUME StreamT, ClientT, Blocking, ReadLine23 \/ OldReadLine
  PROVE  StreamT' /\ ClientT'
<1>1. prompt = FALSE /\ status = "okErr"
  BY BlockingState DEF ReadLine23, OldReadLine
<1>2. ASSUME OldReadLine, CloseSocket, UNCHANGED status PROVE StreamT' /\ ClientT'
  BY <1>2, DiesType DEF OldReadLine, clientVars
<1>3. ASSUME NEW k \in 0..Len(toClient), Take(k),
             UNCHANGED <<program, clientOpen, peer, local, name, target, inGet, flagQuit, refused, toServer>>,
             NextPrompt \/ (status' = "size" /\ UNCHANGED <<prompt, fileSize, got, answer>>)
      PROVE  StreamT' /\ ClientT'
  <2>1. toClient' \in Seq(Bytes) /\ Grows
    BY <1>3, TakeType, Kept
  <2>2. /\ prompt' \in BOOLEAN /\ (prompt' \/ prompt' = prompt)
        /\ (prompt' <=> status' = "init") /\ status' \in {"init", "size"}
        /\ got' \in {got, <<>>} /\ fileSize' \in {0, fileSize} /\ answer' \in {answer, NoAnswer}
    <3>1. CASE NextPrompt
      BY <3>1 DEF NextPrompt
    <3>2. CASE status' = "size" /\ UNCHANGED <<prompt, fileSize, got, answer>>
      BY <1>1, <3>2
    <3> QED
      BY <1>3, <3>1, <3>2
  <2>3. got' \in Seq(Bytes)
    BY <2>2, Deserted DEF ClientT
  <2>4. fileSize' \in Sizes \cup Garbage \cup {0} /\ inGet' \in BOOLEAN /\ refused' \in BOOLEAN
    BY <1>3, <2>2 DEF ClientT
  <2>5. /\ UNCHANGED <<program, clientOpen, name, flagQuit, peer>> /\ toServer' = toServer
        /\ target' \in {target, NoFile} /\ status' \in {"init", "okErr", "size", "file"} /\ status' # "file"
    BY <1>3, <2>2
  <2>6. Reads
    BY <2>1, <2>2, <2>3, <2>4, <2>5 DEF Reads
  <2> QED
    BY <2>6, ReadType
<1>4. CASE ReadLine23
  <2>1. PICK k \in 0..Len(toClient) :
          /\ Take(k)
          /\ NextPrompt \/ (status' = "size" /\ UNCHANGED <<prompt, fileSize, got, answer>>)
    BY <1>4 DEF ReadLine23
  <2> QED
    BY <1>3, <1>4, <2>1 DEF ReadLine23, serverVars
<1>5. CASE OldReadLine
  <2>1. PICK k \in 1..Len(toClient) :
          \/ CloseSocket /\ UNCHANGED status
          \/ Take(k) /\ status' = "size" /\ UNCHANGED <<clientOpen, peer>>
    BY <1>5 DEF OldReadLine
  <2>2. k \in 0..Len(toClient)
    BY Numbers
  <2>3. UNCHANGED <<program, local, name, target, inGet, flagQuit, refused, toServer, prompt, fileSize, got, answer>>
    BY <1>5 DEF OldReadLine
  <2> QED
    BY <1>2, <1>3, <1>5, <2>1, <2>2, <2>3
<1> QED
  BY <1>4, <1>5

LEMMA ReadSizeType ==
  ASSUME StreamT, ClientT, Blocking, ReadSize23 \/ OldReadSize
  PROVE  StreamT' /\ ClientT'
<1>1. prompt = FALSE /\ name \in Files
  BY BlockingState DEF ReadSize23, OldReadSize
<1>2. PICK k \in 0..Len(toClient) : Take(k) /\ fileSize' \in Decoded(First(k))
  <2>1. CASE ReadSize23
    BY <2>1, Numbers DEF ReadSize23
  <2>2. CASE OldReadSize
    <3>1. 2 \in 0..Len(toClient)
      BY <2>2, Numbers DEF OldReadSize
    <3> QED
      BY <2>2, <3>1 DEF OldReadSize
  <2> QED
    BY <2>1, <2>2
<1>3. /\ status' = "file" /\ got' = <<>> /\ local' = [local EXCEPT ![name] = <<>>]
      /\ UNCHANGED <<program, toServer, clientOpen, peer, name, target, inGet, flagQuit, prompt, refused, answer>>
  BY DEF ReadSize23, OldReadSize, serverVars
<1>4. Grows /\ local'[name] \in Seq(Bytes)
  BY <1>1, <1>3, Grown, Deserted
<1>5. toClient' \in Seq(Bytes) /\ got' \in Seq(Bytes) /\ inGet' \in BOOLEAN /\ refused' \in BOOLEAN
  BY <1>2, <1>3, TakeType, Deserted DEF ClientT
<1>6. fileSize' \in Sizes \cup Garbage \cup {0}
  BY <1>2, DecodedSize
<1>7. Reads
  BY <1>1, <1>3, <1>4, <1>5, <1>6 DEF Reads
<1> QED
  BY <1>7, ReadType

LEMMA ReadChunkType ==
  ASSUME StreamT, ClientT, Blocking, ReadChunk
  PROVE  StreamT' /\ ClientT'
<1>1. prompt = FALSE /\ name \in Files /\ local[name] \in Seq(Bytes)
  BY BlockingState DEF ReadChunk
<1>2. PICK k \in 0..Len(toClient) :
        Take(k) /\ got' = got \o First(k) /\ local' = [local EXCEPT ![name] = @ \o First(k)]
  <2> DEFINE k == Lesser(fileSize - Len(got), ChunkSize)
  <2>1. /\ fileSize - Len(got) > 0 /\ Len(toClient) >= k
        /\ Take(k) /\ got' = got \o First(k) /\ local' = [local EXCEPT ![name] = @ \o First(k)]
    BY DEF ReadChunk
  <2>2. k \in 0..Len(toClient)
    BY <2>1, Numbers DEF Lesser
  <2> QED
    BY <2>1, <2>2
<1>3. First(k) \in Seq(Bytes) /\ toClient' \in Seq(Bytes)
  BY <1>2, TakeType
<1>4. got' \in Seq(Bytes) /\ local[name] \o First(k) \in Seq(Bytes)
  BY <1>1, <1>2, <1>3, Pieces DEF ClientT
<1>5. Grows /\ local'[name] \in Seq(Bytes)
  <2>1. local' = [local EXCEPT ![name] = local[name] \o First(k)]
    BY <1>2
  <2> QED
    BY <1>1, <1>4, <2>1, Grown
<1>6. UNCHANGED <<program, toServer, clientOpen, peer, name, status, fileSize, target, inGet,
                  flagQuit, prompt, refused, answer>> /\ status = "file"
  BY DEF ReadChunk, serverVars
<1>7. inGet' \in BOOLEAN /\ refused' \in BOOLEAN /\ fileSize' \in Sizes \cup Garbage \cup {0}
  BY <1>6 DEF ClientT
<1>8. Reads
  BY <1>1, <1>3, <1>4, <1>5, <1>6, <1>7 DEF Reads
<1> QED
  BY <1>8, ReadType

LEMMA ReadChunkEndsType ==
  ASSUME StreamT, ClientT, Blocking, ReadChunkEnds23
  PROVE  StreamT' /\ ClientT'
<1>1. name \in Files /\ local[name] \in Seq(Bytes)
  BY BlockingState DEF ReadChunkEnds23
<1>2. local[name] \o toClient \in Seq(Bytes)
  BY <1>1, Pieces DEF StreamT
<1>3. local' = [local EXCEPT ![name] = local[name] \o toClient]
  BY DEF ReadChunkEnds23
<1>4. Grows
  BY <1>2, <1>3, Grown
<1>5. Finished
  BY <1>4 DEF Finished, ReadChunkEnds23, ClientT
<1> QED
  BY <1>5, FinishedType

LEMMA FileDoneType ==
  ASSUME StreamT, ClientT, FileDone23 \/ OldFileDone
  PROVE  StreamT' /\ ClientT'
<1>1. /\ UNCHANGED <<program, toServer, toClient, clientOpen, peer, local, name, target, inGet, flagQuit, refused>>
      /\ status' = "init" /\ prompt' = TRUE /\ fileSize' = 0 /\ got' = <<>> /\ answer' = NoAnswer
  BY DEF FileDone23, OldFileDone, NextPrompt, serverVars
<1>2. Grows /\ got' \in Seq(Bytes)
  BY <1>1, Kept, Deserted
<1>3. inGet' \in BOOLEAN /\ refused' \in BOOLEAN /\ toClient' \in Seq(Bytes)
  BY <1>1 DEF ClientT, StreamT
<1>4. Reads
  BY <1>1, <1>2, <1>3 DEF Reads
<1> QED
  BY <1>4, ReadType

LEMMA BlockingGetType ==
  ASSUME StreamT, ClientT, NEW f \in Files, Get23(f) \/ OldSendGet(f)
  PROVE  StreamT' /\ ClientT'
<1>1. /\ prompt /\ SendGet(f) /\ status' = "okErr"
      /\ UNCHANGED <<peer, toClient, program, clientOpen, local, fileSize, got, target, inGet, flagQuit, refused>>
  BY DEF Get23, OldSendGet, serverVars
<1>2. inGet' \in BOOLEAN
  BY <1>1 DEF ClientT
<1> QED
  BY <1>1, <1>2, SendGetType

\* The client ends, or is killed; the server's process is gone, or cannot be reached.
LEMMA EndsType ==
  ASSUME StreamT, ClientT,
         \/ ReadFails \/ ClientKilled \/ GetKills \/ Abort32 \/ StdinputLiberoAbort
         \/ OldReadnEnds \/ OldReadnFails \/ OldQuit \/ OldGetFails \/ Abort \/ Quit23
  PROVE  StreamT' /\ ClientT'
<1>1. CASE ReadFails \/ ClientKilled \/ GetKills \/ Abort32 \/ StdinputLiberoAbort
           \/ OldReadnFails \/ OldGetFails \/ Abort
  BY <1>1, DiesType DEF ReadFails, ClientKilled, GetKills, Abort32, StdinputLiberoAbort,
                        OldReadnFails, OldGetFails, Abort
<1>2. CASE OldReadnEnds
  BY <1>2, DiesType DEF OldReadnEnds
<1>3. CASE OldQuit \/ Quit23
  BY <1>3, DiesType DEF OldQuit, Quit23
<1> QED
  BY <1>1, <1>2, <1>3

(* The select-driven clients.                                                  *)
Driven == program \in {"3.2", "old 3.2"}

LEMMA DrivenGetType ==
  ASSUME StreamT, ClientT, Driven, NEW f \in Files, Get32(f) \/ StdinputLiberoGet(f)
  PROVE  StreamT' /\ ClientT'
<1>1. /\ prompt /\ SendGet(f)
      /\ UNCHANGED <<peer, toClient, program, clientOpen, local, fileSize, target, flagQuit, refused>>
      /\ status' = "okErr" \/ status' = status
      /\ got' \in {got, <<>>} /\ inGet' \in BOOLEAN
  BY DEF Get32, StdinputLiberoGet, serverVars
<1> QED
  BY <1>1, SendGetType DEF Driven

LEMMA DrivenQuitType ==
  ASSUME StreamT, ClientT, Driven, Quit32 \/ StdinputLiberoQuit
  PROVE  StreamT' /\ ClientT'
<1>1. CASE QuitAndClose /\ UNCHANGED <<program, clientVars, refused, answer>>
  BY <1>1, DiesType
<1>2. CASE flagQuit' = TRUE /\ UNCHANGED <<program, peer, toServer, toClient, clientOpen, local, name, status,
                                           fileSize, got, target, inGet, prompt, refused, answer>>
  <2>1. StreamT'
    BY <1>2 DEF StreamT
  <2>2. OpenInv'
    BY <1>2 DEF ClientT, OpenInv
  <2>3. ClientT'
    BY <1>2, <2>2 DEF ClientT
  <2> QED
    BY <2>1, <2>3
<1>3. \/ QuitAndClose /\ UNCHANGED <<program, clientVars, refused, answer>>
      \/ flagQuit' = TRUE /\ UNCHANGED <<program, peer, toServer, toClient, clientOpen, local, name, status,
                                         fileSize, got, target, inGet, prompt, refused, answer>>
  <2>1. CASE Quit32
    BY <2>1 DEF Quit32, serverVars
  <2>2. CASE StdinputLiberoQuit
    BY <2>2 DEF StdinputLiberoQuit, clientVars
  <2> QED
    BY <2>1, <2>2
<1> QED
  BY <1>1, <1>2, <1>3

\* A read that was not asked for.
LEMMA InitReadType ==
  ASSUME StreamT, ClientT, Driven, FreeSocketInit \/ SocketLibero0
  PROVE  StreamT' /\ ClientT'
<1>1. /\ got' = <<>> /\ status' = "okErr"
      /\ UNCHANGED <<program, peer, toServer, toClient, clientOpen, local, name, fileSize, target, inGet,
                     flagQuit, prompt, refused, answer>>
  BY DEF FreeSocketInit, SocketLibero0, serverVars
<1>2. got' \in Seq(Bytes) /\ Grows
  BY <1>1, Kept, Deserted
<1>3. /\ toClient' \in Seq(Bytes) /\ inGet' \in BOOLEAN /\ prompt' \in BOOLEAN /\ refused' \in BOOLEAN
      /\ fileSize' \in Sizes \cup Garbage \cup {0}
  BY <1>1 DEF StreamT, ClientT
<1>4. Reads
  BY <1>1, <1>2, <1>3 DEF Reads, Driven
<1> QED
  BY <1>4, ReadType

LEMMA FreeSocketLineType ==
  ASSUME StreamT, ClientT, Driven, FreeSocketLine
  PROVE  StreamT' /\ ClientT'
<1> DEFINE k == Lesser(1, Len(toClient))
           line == got \o First(k)
<1>1. /\ inGet' = FALSE /\ Take(k) /\ got' \in {line, <<>>}
      /\ UNCHANGED <<program, peer, toServer, clientOpen, local, name, fileSize, target, flagQuit, answer>>
      /\ status' \in {status, "size"}
  BY DEF FreeSocketLine, serverVars
<1>2. /\ UNCHANGED <<prompt, refused>> \/ (prompt' = TRUE /\ refused' = TRUE)
  BY DEF FreeSocketLine
<1>3. k \in 0..Len(toClient)
  BY Numbers DEF Lesser
<1>4. First(k) \in Seq(Bytes) /\ toClient' \in Seq(Bytes)
  BY <1>1, <1>3, TakeType
<1>5. line \in Seq(Bytes)
  BY <1>4, Pieces DEF ClientT
<1>6. got' \in Seq(Bytes) /\ Grows
  BY <1>1, <1>5, Kept, Deserted
<1>7. prompt' \in BOOLEAN /\ refused' \in BOOLEAN /\ (prompt' \/ prompt' = prompt)
  BY <1>2 DEF ClientT
<1>8. fileSize' \in Sizes \cup Garbage \cup {0} /\ status' \in {"init", "okErr", "size", "file"}
  BY <1>1 DEF ClientT
<1>9. Reads
  BY <1>1, <1>4, <1>6, <1>7, <1>8 DEF Reads, Driven
<1> QED
  BY <1>9, ReadType

LEMMA SocketLibero1Type ==
  ASSUME StreamT, ClientT, Driven, SocketLibero1
  PROVE  StreamT' /\ ClientT'
<1> DEFINE k == Lesser(1, Len(toClient))
           line == got \o First(k)
<1>1. /\ inGet' = FALSE
      /\ UNCHANGED <<program, toServer, local, name, fileSize, target, flagQuit, prompt, refused, answer>>
  BY DEF SocketLibero1
<1>2. Grows /\ prompt' \in BOOLEAN /\ refused' \in BOOLEAN /\ flagQuit' \in BOOLEAN
  BY <1>1, Kept DEF ClientT
<1>3. CASE CloseSocket /\ UNCHANGED <<status, got>>
  <2>1. Finished
    BY <1>1, <1>2, <1>3 DEF Finished, CloseSocket, ClientT
  <2> QED
    BY <2>1, FinishedType
<1>4. CASE /\ toClient # <<>> /\ Take(1) /\ UNCHANGED <<clientOpen, peer>>
           /\ (status' = "size" /\ got' = <<>>) \/ (got' = line /\ UNCHANGED status)
  <2>1. k \in 0..Len(toClient) /\ 1 \in 0..Len(toClient)
    BY <1>4, Numbers, Pieces DEF Lesser, StreamT
  <2>2. First(k) \in Seq(Bytes) /\ toClient' \in Seq(Bytes)
    BY <1>4, <2>1, TakeType
  <2>3. line \in Seq(Bytes)
    BY <2>2, Pieces DEF ClientT
  <2>4. got' \in Seq(Bytes)
    BY <1>4, <2>3, Deserted
  <2>5. fileSize' \in Sizes \cup Garbage \cup {0} /\ status' \in {"init", "okErr", "size", "file"}
    BY <1>1, <1>4 DEF ClientT
  <2>6. Reads
    BY <1>1, <1>2, <1>4, <2>2, <2>4, <2>5 DEF Reads, Driven
  <2> QED
    BY <2>6, ReadType
<1> QED
  BY <1>3, <1>4 DEF SocketLibero1

LEMMA FreeSocketSizeType ==
  ASSUME StreamT, ClientT, Driven, FreeSocketSize
  PROVE  StreamT' /\ ClientT'
<1>1. PICK k \in 0..Lesser(2 - Len(got), Len(toClient)) :
        /\ Take(k)
        /\ IF k = 0 \/ Len(got) + k = 2
             THEN got' = <<>> /\ status' = "file" /\ fileSize' \in Decoded(got \o First(k))
             ELSE got' = got \o First(k) /\ UNCHANGED <<status, fileSize>>
  BY DEF FreeSocketSize
<1>2. /\ inGet' = FALSE
      /\ UNCHANGED <<program, peer, toServer, clientOpen, local, name, target, flagQuit, prompt, refused, answer>>
  BY DEF FreeSocketSize, serverVars
<1>3. k \in 0..Len(toClient)
  <2>1. 2 - Len(got) \in Int
    BY Numbers
  <2> QED
    BY <2>1, Numbers
<1>4. First(k) \in Seq(Bytes) /\ toClient' \in Seq(Bytes)
  BY <1>1, <1>3, TakeType
<1>5. got \o First(k) \in Seq(Bytes)
  BY <1>4, Pieces DEF ClientT
<1>6. got' \in Seq(Bytes) /\ Grows
  BY <1>1, <1>2, <1>5, Kept, Deserted
<1>7. fileSize' \in Sizes \cup Garbage \cup {0} /\ status' \in {"init", "okErr", "size", "file"}
  BY <1>1, DecodedSize DEF ClientT
<1>8. prompt' \in BOOLEAN /\ refused' \in BOOLEAN
  BY <1>2 DEF ClientT
<1>9. Reads
  BY <1>2, <1>4, <1>6, <1>7, <1>8 DEF Reads, Driven
<1> QED
  BY <1>9, ReadType

LEMMA SocketLibero2Type ==
  ASSUME StreamT, ClientT, Driven, SocketLibero2
  PROVE  StreamT' /\ ClientT'
<1>1. /\ inGet' = FALSE
      /\ UNCHANGED <<program, toServer, name, flagQuit, prompt, answer>>
  BY DEF SocketLibero2
<1>2. prompt' \in BOOLEAN /\ flagQuit' \in BOOLEAN
  BY <1>1 DEF ClientT
<1>3. CASE CloseSocket /\ UNCHANGED <<status, got, fileSize, local, target, refused>>
  <2>1. Grows
    BY <1>3, Kept
  <2>2. Finished
    BY <1>1, <1>2, <1>3, <2>1 DEF Finished, CloseSocket, ClientT
  <2> QED
    BY <2>2, FinishedType
<1>4. ASSUME NEW k \in 1..Lesser(2 - Len(got), Len(toClient)), Take(k), UNCHANGED <<clientOpen, peer>>,
             IF Len(got) + k < 2
               THEN got' = First(k) /\ UNCHANGED <<status, fileSize, local, target, refused>>
               ELSE /\ fileSize' \in IF got = <<>> THEN Decoded(First(k)) ELSE Garbage
                    /\ refused' = (refused \/ got # <<>>)
                    /\ status' = "file" /\ got' = <<>>
                    /\ target' = name /\ local' = [local EXCEPT ![name] = <<>>]
      PROVE  StreamT' /\ ClientT'
  <2>1. k \in 0..Len(toClient)
    <3>1. 2 - Len(got) \in Int
      BY Numbers
    <3>2. k \in 0..Lesser(2 - Len(got), Len(toClient))
      BY <3>1, Numbers DEF Lesser
    <3> QED
      BY <3>1, <3>2, Numbers
  <2>2. First(k) \in Seq(Bytes) /\ toClient' \in Seq(Bytes)
    BY <1>4, <2>1, TakeType
  <2>3. /\ got' \in Seq(Bytes) /\ status' \in {"init", "okErr", "size", "file"}
        /\ fileSize' \in Sizes \cup Garbage \cup {0}
    BY <1>4, <2>2, Deserted, DecodedSize DEF ClientT
  <2>4. refused' \in BOOLEAN
    BY <1>4 DEF ClientT
  <2>5. Grows /\ (target' = target \/ (target' = name /\ (name \in Files => local'[name] \in Seq(Bytes))))
    <3>1. CASE UNCHANGED <<local, target>>
      BY <3>1, Kept
    <3>2. CASE target' = name /\ local' = [local EXCEPT ![name] = <<>>]
      BY <3>2, Grown, Deserted
    <3> QED
      BY <1>4, <3>1, <3>2
  <2>6. Reads
    BY <1>1, <1>2, <1>4, <2>2, <2>3, <2>4, <2>5 DEF Reads, Driven
  <2> QED
    BY <2>6, ReadType
<1> QED
  BY <1>3, <1>4 DEF SocketLibero2

LEMMA SocketLibero3Type ==
  ASSUME StreamT, ClientT, Driven, SocketLibero3
  PROVE  StreamT' /\ ClientT'
<1> DEFINE chunk == IF fileSize < 0 THEN ChunkSize ELSE Lesser(fileSize - Len(got), ChunkSize)
<1>1. /\ inGet' = FALSE
      /\ UNCHANGED <<program, name, flagQuit, refused>>
  BY DEF SocketLibero3
<1>2. refused' \in BOOLEAN /\ flagQuit' \in BOOLEAN /\ prompt \in BOOLEAN
  BY <1>1 DEF ClientT
<1>3. CASE /\ CloseSocket /\ target' = NoFile
           /\ UNCHANGED <<toServer, local, status, prompt, fileSize, got, answer>>
  <2>1. Grows
    BY <1>3, Kept
  <2>2. Finished
    BY <1>1, <1>2, <1>3, <2>1 DEF Finished, CloseSocket, ClientT
  <2> QED
    BY <2>2, FinishedType
<1>4. ASSUME NEW k \in 1..Lesser(chunk, Len(toClient)),
             local' = [local EXCEPT ![target] = @ \o First(k)],
             target' \in {target, NoFile},
             \/ /\ Take(k) /\ got' = got \o First(k)
                /\ UNCHANGED <<toServer, clientOpen, peer, status, prompt, fileSize, answer>>
             \/ QuitAndClose /\ UNCHANGED <<status, prompt, fileSize, got, answer>>
             \/ Take(k) /\ NextPrompt /\ UNCHANGED <<toServer, clientOpen, peer>>
      PROVE  StreamT' /\ ClientT'
  <2>1. k \in 0..Len(toClient)
    <3>1. chunk \in Int
      BY Numbers DEF Lesser
    <3>2. k \in 0..Lesser(chunk, Len(toClient))
      BY <3>1, Numbers DEF Lesser
    <3> HIDE DEF chunk
    <3> QED
      BY <3>1, <3>2, Numbers
  <2>2. First(k) \in Seq(Bytes) /\ (Take(k) => toClient' \in Seq(Bytes))
    BY <2>1, TakeType
  <2>3. got \o First(k) \in Seq(Bytes)
    BY <2>2, Pieces DEF ClientT
  <2>4. Grows
    <3>1. local' = [local EXCEPT ![target] = local[target] \o First(k)]
      BY <1>4
    <3>2. target \in Files => local[target] \in Seq(Bytes)
      BY ByteAssumption DEF ClientT, OpenInv
    <3>3. target \in Files => local[target] \o First(k) \in Seq(Bytes)
      BY <2>2, <3>2, Pieces
    <3> QED
      BY <3>1, <3>3, Grown
  <2>5. CASE /\ Take(k) /\ got' = got \o First(k)
             /\ UNCHANGED <<toServer, clientOpen, peer, status, prompt, fileSize, answer>>
    <3>1. fileSize' \in Sizes \cup Garbage \cup {0} /\ status' \in {"init", "okErr", "size", "file"}
      BY <2>5 DEF ClientT
    <3>2. Reads
      BY <1>1, <1>2, <1>4, <2>2, <2>3, <2>4, <2>5, <3>1 DEF Reads, Driven
    <3> QED
      BY <3>2, ReadType
  <2>6. CASE QuitAndClose /\ UNCHANGED <<status, prompt, fileSize, got, answer>>
    <3>1. Finished
      BY <1>1, <1>2, <1>4, <2>4, <2>6 DEF Finished, QuitAndClose, ClientEnds, ClientT
    <3> QED
      BY <3>1, FinishedType
  <2>7. CASE Take(k) /\ NextPrompt /\ UNCHANGED <<toServer, clientOpen, peer>>
    <3>1. /\ status' = "init" /\ prompt' = TRUE /\ fileSize' = 0 /\ got' = <<>> /\ answer' = NoAnswer
      BY <2>7 DEF NextPrompt
    <3>2. got' \in Seq(Bytes)
      BY <3>1, Deserted
    <3>3. Reads
      BY <1>1, <1>2, <1>4, <2>2, <2>4, <2>7, <3>1, <3>2 DEF Reads, Driven
    <3> QED
      BY <3>3, ReadType
  <2> QED
    BY <1>4, <2>5, <2>6, <2>7
<1> QED
  <2>1. CASE \E k \in 1..Lesser(chunk, Len(toClient)) :
          /\ local' = [local EXCEPT ![target] = @ \o First(k)]
          /\ target' = IF Len(got) + k # fileSize THEN target ELSE NoFile
          /\ IF Len(got) + k # fileSize
               THEN /\ Take(k) /\ got' = got \o First(k)
                    /\ UNCHANGED <<toServer, clientOpen, peer, status, prompt, fileSize, answer>>
             ELSE IF flagQuit
               THEN QuitAndClose /\ UNCHANGED <<status, prompt, fileSize, got, answer>>
             ELSE Take(k) /\ NextPrompt /\ UNCHANGED <<toServer, clientOpen, peer>>
    BY <1>4, <2>1
  <2> QED
    BY <1>3, <2>1 DEF SocketLibero3

LEMMA FreeSocketFileType ==
  ASSUME StreamT, ClientT, Driven, FreeSocketFile
  PROVE  StreamT' /\ ClientT'
<1> DEFINE file  == IF target = NoFile THEN name ELSE target
           chunk == Lesser(fileSize - Len(got), ChunkSize)
           sofar == IF target = NoFile THEN <<>> ELSE local[file]
<1>1. /\ inGet' = FALSE
      /\ UNCHANGED <<program, name, flagQuit, refused>>
  BY DEF FreeSocketFile
<1>2. refused' \in BOOLEAN /\ flagQuit' \in BOOLEAN /\ prompt \in BOOLEAN
  BY <1>1 DEF ClientT
<1>3. PICK k \in 0..Lesser(chunk, Len(toClient)) :
        /\ local' = [local EXCEPT ![file] = sofar \o First(k)]
        /\ \/ /\ target' = file /\ Take(k) /\ got' = got \o First(k)
              /\ UNCHANGED <<toServer, clientOpen, peer, status, prompt, fileSize, answer>>
           \/ FileReceived(file, k)
  BY DEF FreeSocketFile
<1>4. k \in 0..Len(toClient)
  <2>1. chunk \in Int
    BY Numbers DEF Lesser
  <2> HIDE DEF chunk
  <2> QED
    BY <2>1, Numbers
<1>5. First(k) \in Seq(Bytes) /\ (Take(k) => toClient' \in Seq(Bytes))
  BY <1>4, TakeType
<1>6. got \o First(k) \in Seq(Bytes)
  BY <1>5, Pieces DEF ClientT
<1>7. Grows /\ (file \in Files => local'[file] \in Seq(Bytes))
  <2>1. sofar \in Seq(Bytes)
    BY Deserted DEF ClientT, OpenInv
  <2>2. sofar \o First(k) \in Seq(Bytes)
    BY <1>5, <2>1, Pieces
  <2> HIDE DEF file, sofar
  <2> QED
    BY <1>3, <2>2, Grown
<1>8. file \in {target, name} /\ (file = target => target # NoFile \/ target = name)
  OBVIOUS
<1> HIDE DEF file, sofar, chunk
<1>9. CASE /\ target' = file /\ Take(k) /\ got' = got \o First(k)
           /\ UNCHANGED <<toServer, clientOpen, peer, status, prompt, fileSize, answer>>
  <2>1. fileSize' \in Sizes \cup Garbage \cup {0} /\ status' \in {"init", "okErr", "size", "file"}
    BY <1>9 DEF ClientT
  <2>2. target' = target \/ (target' = name /\ (name \in Files => local'[name] \in Seq(Bytes)))
    BY <1>7, <1>8, <1>9
  <2>3. Reads
    BY <1>1, <1>2, <1>5, <1>6, <1>7, <1>9, <2>1, <2>2 DEF Reads, Driven
  <2> QED
    BY <2>3, ReadType
<1>10. CASE FileReceived(file, k)
  <2>1. target' = NoFile
    BY <1>10 DEF FileReceived
  <2>2. CASE /\ QuitAndClose /\ got' = got \o First(k)
             /\ UNCHANGED <<status, prompt, fileSize, answer>>
    <3>1. Finished
      BY <1>1, <1>2, <1>6, <1>7, <2>1, <2>2 DEF Finished, QuitAndClose, ClientEnds, ClientT
    <3> QED
      BY <3>1, FinishedType
  <2>3. CASE /\ Take(k) /\ toServer' = Append(toServer, Quit) /\ got' = got \o First(k)
             /\ UNCHANGED <<clientOpen, peer, status, prompt, fileSize, answer>>
    <3>1. fileSize' \in Sizes \cup Garbage \cup {0} /\ status' \in {"init", "okErr", "size", "file"}
      BY <2>3 DEF ClientT
    <3>2. Reads
      BY <1>1, <1>2, <1>5, <1>6, <1>7, <2>1, <2>3, <3>1 DEF Reads, Driven
    <3> QED
      BY <3>2, ReadType
  <2>4. CASE Take(k) /\ NextPrompt /\ UNCHANGED <<toServer, clientOpen, peer>>
    <3>1. /\ status' = "init" /\ prompt' = TRUE /\ fileSize' = 0 /\ got' = <<>> /\ answer' = NoAnswer
      BY <2>4 DEF NextPrompt
    <3>2. got' \in Seq(Bytes)
      BY <3>1, Deserted
    <3>3. Reads
      BY <1>1, <1>2, <1>5, <1>7, <2>1, <2>4, <3>1, <3>2 DEF Reads, Driven
    <3> QED
      BY <3>3, ReadType
  <2> QED
    BY <1>10, <2>2, <2>3, <2>4 DEF FileReceived
<1> QED
  BY <1>3, <1>9, <1>10

LEMMA FreeSocketFileFailsType ==
  ASSUME StreamT, ClientT, FreeSocketFileFails
  PROVE  StreamT' /\ ClientT'
<1>1. UNCHANGED <<program, toServer, name, status, fileSize, got, target, inGet, flagQuit, prompt, refused, answer>>
  BY DEF FreeSocketFileFails
<1>2. Grows
  <2>1. CASE local' = [local EXCEPT ![name] = <<>>]
    BY <2>1, Grown, Deserted
  <2>2. CASE UNCHANGED local
    BY <2>2, Kept
  <2> QED
    BY <2>1, <2>2 DEF FreeSocketFileFails
<1>3. Finished
  BY <1>1, <1>2 DEF Finished, FreeSocketFileFails, ClientEnds, ClientT
<1> QED
  BY <1>3, FinishedType

-------------------------------------------------------------------------------
(* Every step keeps the types.                                                 *)

LEMMA OldReceiveType ==
  ASSUME StreamT, ClientT, Blocking, OldReceive
  PROVE  StreamT' /\ ClientT'
BY ReadLineType, ReadSizeType, FileDoneType, EndsType DEF OldReceive

\* What the server does not touch.
ClientStays == UNCHANGED <<program, clientOpen, clientVars, refused>>

\* What the client does not touch.
TaskStays == UNCHANGED <<disk, spc, sfile, rest>>

LEMMA ClientStaysType ==
  ASSUME ClientT, ClientStays
  PROVE  ClientT'
<1>1. OpenInv'
  BY DEF ClientT, OpenInv, ClientStays, clientVars
<1> QED
  BY <1>1 DEF ClientT, ClientStays, clientVars

LEMMA TaskStaysType ==
  ASSUME TaskT, TaskStays
  PROVE  TaskT'
BY DEF TaskT, ReplyInv, TaskStays

LEMMA PipeStaysType ==
  ASSUME PipeT, UNCHANGED pipeVars
  PROVE  PipeT'
BY DEF PipeT, pipeVars

LEMMA ServerStep ==
  ASSUME TaskT, StreamT, ClientT, PipeT, AllServer
  PROVE  TaskT' /\ StreamT' /\ ClientT' /\ PipeT'
<1>1. (Server /\ UNCHANGED pipeVars) \/ ServiClient \/ NextRequest({"line", "returned"}) \/ NextRequest({"line"})
  BY DEF AllServer, OldServer, ServiClient23, ServiClient31, ServiClientThread, ServiClient32,
         ServiClientPipe, ServiClient33
<1>2. TaskT' /\ StreamT'
  BY <1>1, ServerType
<1>3. ClientStays /\ UNCHANGED pipeVars
  <2>1. CASE Server /\ UNCHANGED pipeVars
    BY <2>1 DEF Server, ReadRequest, ReadRequestEnds, WriteKills, SendReply, SendData, CheckTime, ClientStays
  <2>2. CASE ServiClient
    BY <2>2 DEF ServiClient, ReadRequest, OldReadEnds, OldReply, OldSendData, ClientStays
  <2>3. CASE NextRequest({"line", "returned"}) \/ NextRequest({"line"})
    BY <2>3 DEF NextRequest, ClientStays
  <2> QED
    BY <1>1, <2>1, <2>2, <2>3
<1> QED
  BY <1>2, <1>3, ClientStaysType, PipeStaysType

LEMMA ClientStep ==
  ASSUME TaskT, StreamT, ClientT, Client \/ User \/ ClientKilled
  PROVE  TaskT' /\ StreamT' /\ ClientT'
<1>1. TaskStays
  BY DEF Client, User, ClientKilled, TaskStays, ReadLine23, ReadSize23, ReadChunk23, ReadChunk, ReadChunkEnds23,
         FileDone23, FreeSocketInit, FreeSocketLine, FreeSocketSize, FreeSocketFile, FreeSocketFileFails,
         ReadFails, ClientDies, Get23, Get32, GetKills, Quit23, Quit32, Abort32, serverVars
<1>2. StreamT' /\ ClientT'
  <2>1. CASE ReadLine23 \/ ReadSize23 \/ ReadChunk23 \/ ReadChunkEnds23
    <3>1. Blocking
      BY <2>1 DEF Blocking, In23, ReadLine23, ReadSize23, ReadChunk23, ReadChunkEnds23
    <3> QED
      BY <2>1, <3>1, ReadLineType, ReadSizeType, ReadChunkType, ReadChunkEndsType DEF ReadChunk23
  <2>2. CASE FileDone23 \/ ReadFails \/ GetKills \/ Quit23 \/ Abort32 \/ ClientKilled
    BY <2>2, FileDoneType, EndsType
  <2>3. CASE FreeSocketInit \/ FreeSocketLine \/ FreeSocketSize \/ FreeSocketFile
    <3>1. Driven
      BY <2>3 DEF Driven, In32, Reading, FreeSocketInit, FreeSocketLine, FreeSocketSize, FreeSocketFile
    <3> QED
      BY <2>3, <3>1, InitReadType, FreeSocketLineType, FreeSocketSizeType, FreeSocketFileType
  <2>4. CASE FreeSocketFileFails
    BY <2>4, FreeSocketFileFailsType
  <2>5. CASE \E f \in Files : Get23(f)
    BY <2>5, BlockingGetType
  <2>6. CASE (\E f \in Files : Get32(f)) \/ Quit32
    <3>1. Driven
      BY <2>6 DEF Driven, In32, Get32, Quit32
    <3> QED
      BY <2>6, <3>1, DrivenGetType, DrivenQuitType
  <2> QED
    BY <2>1, <2>2, <2>3, <2>4, <2>5, <2>6 DEF Client, User
<1> QED
  BY <1>1, <1>2, TaskStaysType

LEMMA OldBlockingStep ==
  ASSUME TaskT, StreamT, ClientT, PipeT,
         Client23 \/ Client31 \/ ClientThread \/ Client33 \/ User23 \/ User31 \/ UserThread \/ User33
  PROVE  TaskT' /\ StreamT' /\ ClientT' /\ PipeT'
<1>1. /\ OldClient \/ OldUser
      /\ program \notin {"3.2", "old 3.2"}
  BY DEF Client23, Client31, ClientThread, Client33, User23, User31, UserThread, User33
<1>2. TaskStays /\ UNCHANGED pipeVars
  <2>1. CASE OldReceive
    BY <2>1 DEF OldReceive, OldReadLine, OldReadSize, OldReadnEnds, OldReadnFails, OldFileDone, ReadFails,
                ClientDies, TaskStays, serverVars
  <2>2. CASE OldReadChunk
    BY <2>2 DEF OldReadChunk, ReadChunk, TaskStays, serverVars
  <2>3. CASE OldUser
    BY <2>3 DEF OldUser, OldSendGet, OldQuit, OldGetFails, ClientDies, TaskStays, serverVars
  <2> QED
    BY <1>1, <2>1, <2>2, <2>3 DEF OldClient
<1>3. StreamT' /\ ClientT'
  <2>1. CASE OldReceive /\ clientOpen
    BY <1>1, <2>1, OldReceiveType DEF Blocking
  <2>2. CASE OldReadChunk
    BY <1>1, <2>2, ReadChunkType DEF OldReadChunk, Blocking
  <2>3. CASE OldUser
    BY <2>3, BlockingGetType, EndsType DEF OldUser
  <2>4. OldReceive => clientOpen
    BY DEF OldReceive, OldReadLine, OldReadSize, OldReadnEnds, OldReadnFails, OldFileDone, ReadFails
  <2> QED
    BY <1>1, <2>1, <2>2, <2>3, <2>4 DEF OldClient
<1> QED
  BY <1>2, <1>3, TaskStaysType, PipeStaysType

LEMMA OldDrivenStep ==
  ASSUME TaskT, StreamT, ClientT, PipeT, Client32 \/ User32
  PROVE  TaskT' /\ StreamT' /\ ClientT' /\ PipeT'
<1>1. Driven /\ UNCHANGED pipeVars
  BY DEF Client32, User32, Driven
<1>2. StreamT' /\ ClientT'
  <2>1. CASE SocketLibero
    BY <1>1, <2>1, InitReadType, SocketLibero1Type, SocketLibero2Type, SocketLibero3Type DEF SocketLibero
  <2>2. CASE ReadFails \/ StdinputLiberoAbort \/ GetKills
    BY <2>2, EndsType
  <2>3. CASE (\E f \in Files : StdinputLiberoGet(f)) \/ StdinputLiberoQuit
    BY <1>1, <2>3, DrivenGetType, DrivenQuitType
  <2> QED
    BY <2>1, <2>2, <2>3 DEF Client32, User32
<1>3. TaskStays
  <2>1. CASE SocketLibero \/ ReadFails
    BY <2>1 DEF SocketLibero, SocketLibero0, SocketLibero1, SocketLibero2, SocketLibero3, ReadFails,
                ClientDies, TaskStays, serverVars
  <2>2. CASE (\E f \in Files : StdinputLiberoGet(f)) \/ StdinputLiberoQuit \/ StdinputLiberoAbort \/ GetKills
    BY <2>2 DEF StdinputLiberoGet, StdinputLiberoQuit, StdinputLiberoAbort, GetKills, ClientDies, TaskStays,
                serverVars
  <2> QED
    BY <2>1, <2>2 DEF Client32, User32
<1> QED
  BY <1>1, <1>2, <1>3, TaskStaysType, PipeStaysType

\* 3.2/pipe: the father and the child.
LEMMA PipeStep ==
  ASSUME TaskT, StreamT, ClientT, PipeT, Father \/ Signal \/ Figlio
  PROVE  TaskT' /\ StreamT' /\ ClientT' /\ PipeT'
<1>1. program = "old pipe"
  BY DEF Father, Signal, Figlio
<1>2. CASE Father
  <2>1. PICK c \in Commands : Type(c)
    BY <1>2 DEF Father
  <2>2. UNCHANGED vars /\ stop' = stop /\ father' \in {"types", "kills", "over"}
    BY <2>1 DEF Type
  <2>3. typed' \in Seq(Commands) /\ Len(typed') <= MaxTyped
    <3>1. CASE typed' = Append(typed, c) /\ Len(typed) < MaxTyped
      <4>1. Append(typed, c) \in Seq(Commands) /\ Len(Append(typed, c)) = Len(typed) + 1
        BY Joined DEF PipeT
      <4>2. Len(typed) \in Nat
        BY Pieces DEF PipeT
      <4> QED
        BY <3>1, <4>1, <4>2, TypedAssumption
    <3>2. CASE UNCHANGED typed
      BY <3>2 DEF PipeT
    <3> QED
      BY <2>1, <3>1, <3>2 DEF Type
  <2>4. PipeT'
    BY <2>2, <2>3 DEF PipeT
  <2>5. StreamT' /\ ClientStays /\ TaskStays
    BY <2>2 DEF vars, serverVars, ClientStays, TaskStays, StreamT
  <2> QED
    BY <2>4, <2>5, ClientStaysType, TaskStaysType
<1>3. CASE Signal
  <2>1. UNCHANGED <<vars, typed>> /\ father' = "over" /\ stop' \in {"recv", "yes"}
    BY <1>3 DEF Signal, KillChild
  <2>2. PipeT'
    BY <2>1 DEF PipeT
  <2>3. StreamT' /\ ClientStays /\ TaskStays
    BY <2>1 DEF vars, serverVars, ClientStays, TaskStays, StreamT
  <2> QED
    BY <2>2, <2>3, ClientStaysType, TaskStaysType
<1>4. CASE Figlio /\ NextCommand
  <2>1. typed # <<>> /\ typed' = Tail(typed) /\ UNCHANGED <<father, stop>>
    BY <1>4 DEF NextCommand
  <2>2. Tail(typed) \in Seq(Commands) /\ Len(Tail(typed)) = Len(typed) - 1 /\ Len(typed) \in Nat
    BY <2>1, Departed, Pieces DEF PipeT
  <2>3. PipeT'
    BY <2>1, <2>2, TypedAssumption DEF PipeT
  <2>4. CASE \E f \in Files : OldSendGet(f)
    <3>1. TaskStays
      BY <2>4 DEF OldSendGet, TaskStays, serverVars
    <3> QED
      BY <2>3, <2>4, <3>1, BlockingGetType, TaskStaysType
  <2>5. CASE QuitAndClose /\ UNCHANGED <<program, disk, spc, sfile, rest, clientVars, refused, answer>>
    BY <2>3, <2>5, DiesType, TaskStaysType DEF TaskStays
  <2>6. CASE ClientDies
    <3>1. TaskStays
      BY <2>6 DEF ClientDies, TaskStays
    <3> QED
      BY <2>3, <2>6, <3>1, DiesType, TaskStaysType
  <2> QED
    BY <1>4, <2>4, <2>5, <2>6 DEF NextCommand
<1>5. CASE Figlio /\ OldReceive
  <2>1. clientOpen /\ TaskStays /\ UNCHANGED pipeVars
    BY <1>5 DEF OldReceive, OldReadLine, OldReadSize, OldReadnEnds, OldReadnFails, OldFileDone, ReadFails,
                ClientDies, TaskStays, serverVars
  <2>2. StreamT' /\ ClientT'
    BY <1>1, <1>5, <2>1, OldReceiveType DEF Blocking
  <2> QED
    BY <2>1, <2>2, TaskStaysType, PipeStaysType
<1>6. CASE Figlio /\ ReadnConAbort
  <2>1. clientOpen /\ ReadChunk /\ UNCHANGED <<typed, father>> /\ stop' \in {stop, "yes"}
    BY <1>6 DEF ReadnConAbort
  <2>2. PipeT'
    BY <2>1 DEF PipeT
  <2>3. StreamT' /\ ClientT'
    BY <1>1, <2>1, ReadChunkType DEF Blocking
  <2>4. TaskStays
    BY <2>1 DEF ReadChunk, TaskStays, serverVars
  <2> QED
    BY <2>2, <2>3, <2>4, TaskStaysType
<1>7. CASE Figlio /\ Abort
  <2>1. ClientDies /\ UNCHANGED pipeVars
    BY <1>7 DEF Abort
  <2>2. TaskStays
    BY <2>1 DEF ClientDies, TaskStays
  <2> QED
    BY <1>7, <2>1, <2>2, EndsType, TaskStaysType, PipeStaysType
<1> QED
  BY <1>2, <1>3, <1>4, <1>5, <1>6, <1>7 DEF Figlio

LEMMA OthersStep ==
  ASSUME TaskT, StreamT, ClientT, PipeT, Others, UNCHANGED pipeVars
  PROVE  TaskT' /\ StreamT' /\ ClientT' /\ PipeT'
<1>1. CASE ServerKilled
  <2>1. ClientStays
    BY <1>1 DEF ServerKilled, ClientStays
  <2> QED
    BY <1>1, <2>1, ServerType, ClientStaysType, PipeStaysType
<1>2. CASE \E f \in Files : ChangeFile(f)
  <2>1. ClientStays
    BY <1>2 DEF ChangeFile, ClientStays
  <2> QED
    BY <1>2, <2>1, ChangeFileType, ClientStaysType, PipeStaysType
<1>3. CASE ClientKilled \/ User
  BY <1>3, ClientStep, PipeStaysType
<1> QED
  BY <1>1, <1>2, <1>3 DEF Others

LEMMA TypeInit ==
  ASSUME AllInit
  PROVE  TaskT /\ StreamT /\ ClientT /\ PipeT
<1>1. <<>> \in Seq(Bytes) /\ <<>> \in Seq(Files \cup {Quit}) /\ <<>> \in Seq(Commands) /\ Len(<<>>) = 0
  BY Deserted
<1>2. TaskT
  BY <1>1 DEF AllInit, Init, TaskT, ReplyInv
<1>3. StreamT
  BY <1>1 DEF AllInit, Init, StreamT
<1>4. ClientT
  <2>1. local \in [Files -> Seq(Bytes) \cup {Absent}]
    BY DEF AllInit, Init
  <2>2. OpenInv
    BY DEF AllInit, Init, OpenInv
  <2> QED
    BY <1>1, <2>1, <2>2 DEF AllInit, Init, ClientT
<1>5. PipeT
  BY <1>1, TypedAssumption DEF AllInit, PipeT
<1> QED
  BY <1>2, <1>3, <1>4, <1>5

LEMMA TypeStep ==
  ASSUME TypeInv, [AllNext]_allVars
  PROVE  TypeInv'
<1>1. TaskT /\ StreamT /\ ClientT /\ PipeT
  BY TypeParts
<1>2. TaskT' /\ StreamT' /\ ClientT' /\ PipeT'
  <2>1. CASE AllServer
    BY <1>1, <2>1, ServerStep
  <2>2. CASE AllClient
    <3>1. CASE Client /\ UNCHANGED pipeVars
      BY <1>1, <3>1, ClientStep, PipeStaysType
    <3>2. CASE OldClients
      BY <1>1, <3>2, OldBlockingStep, OldDrivenStep, PipeStep DEF OldClients
    <3> QED
      BY <2>2, <3>1, <3>2 DEF AllClient
  <2>3. CASE OldUsers \/ Signal
    BY <1>1, <2>3, OldBlockingStep, OldDrivenStep, PipeStep DEF OldUsers
  <2>4. CASE Others /\ UNCHANGED pipeVars
    BY <1>1, <2>4, OthersStep
  <2>5. CASE UNCHANGED allVars
    <3>1. TaskStays /\ ClientStays /\ UNCHANGED pipeVars /\ UNCHANGED <<peer, toServer, toClient, answer>>
      BY <2>5 DEF allVars, vars, serverVars, TaskStays, ClientStays
    <3>2. StreamT'
      BY <1>1, <3>1 DEF StreamT
    <3> QED
      BY <1>1, <3>1, <3>2, TaskStaysType, ClientStaysType, PipeStaysType
  <2> QED
    BY <2>1, <2>2, <2>3, <2>4, <2>5 DEF AllNext
<1> QED
  BY <1>2 DEF TypeInv, OldTypeOK, TypeOK, TaskT, StreamT, ClientT, PipeT

(* Type correctness: whatever the client program, however TCP cuts the reply   *)
(* and whoever dies, every variable keeps its type.  No step writes to a file  *)
(* that is not there, and the bookkeeping of a reply never leaves the sizes    *)
(* and bytes that the files and the garbage between two of them may give.      *)
THEOREM TransferTypeCorrect == AllSpec => []OldTypeOK
<1>1. AllInit => TypeInv
  BY TypeInit, TypeParts
<1>2. TypeInv /\ [AllNext]_allVars => TypeInv'
  BY TypeStep
<1>3. TypeInv => OldTypeOK
  BY DEF TypeInv
<1> QED
  BY <1>1, <1>2, <1>3, PTL DEF AllSpec

-------------------------------------------------------------------------------
(* The stream of a reply.  While the client runs and its bookkeeping is right, *)
(* it is at a prompt, waits for the server to read its request, or has read a  *)
(* part of the reply, of which the rest is in the stream or still to be sent.  *)

\* A whole reply with a file.
Whole(d) == [j \in 1..(4 + Len(d)) |->
               IF j <= 2 THEN OK[j] ELSE IF j <= 4 THEN Size(Len(d))[j - 2] ELSE d[j - 4]]

\* The bytes of the reply that the client has read and those that have been sent.
Base == CASE status = "size" -> 2 [] status = "file" -> 4 [] OTHER -> 0
Sent == Base + Len(got) + Len(toClient)

Follows(reply) ==
  /\ \A i \in 1..Len(got) : got[i] = reply[Base + i]
  /\ \A i \in 1..Len(toClient) : toClient[i] = reply[Base + Len(got) + i]

\* The client waits for a reply or reads it; what it has read of the file is in the file.
Waiting ==
  /\ ~prompt /\ ~inGet /\ status # "init"
  /\ status # "file" =>
       /\ target = NoFile /\ Len(got) <= 1
       /\ program \notin {"3.2", "old 3.2"} => got = <<>>
  /\ status = "file" =>
       /\ program = "3.2" => target = IF got = <<>> THEN NoFile ELSE name
       /\ program = "old 3.2" => target = name
       /\ program \notin {"3.2", "old 3.2"} => target = NoFile
       /\ (program = "3.2" /\ got = <<>>) \/ local[name] = got

\* The prompt.
Idle ==
  /\ prompt /\ ~inGet /\ status = "init" /\ got = <<>> /\ target = NoFile
  /\ spc \in {"line", "time"} /\ toServer = <<>> /\ toClient = <<>> /\ answer = NoAnswer

\* The server is to read the request.
Asked ==
  /\ Waiting /\ status = "okErr" /\ got = <<>>
  /\ spc \in {"line", "time"} /\ Len(toServer) = 1 /\ toClient = <<>> /\ answer = NoAnswer

\* The reply is -ERR.
Failing ==
  /\ Waiting /\ status = "okErr" /\ Follows(ERR) /\ toServer = <<>>
  /\ \/ spc = "err" /\ Sent = 0 /\ answer = NoAnswer
     \/ spc \in {"time", "line", "returned", "died", "killed"} /\ Sent = 2 /\ answer = ERR

\* The reply is d.
Sending(d) ==
  /\ Waiting /\ Follows(Whole(d)) /\ toServer = <<>> /\ (status = "file" => fileSize = Len(d))
  /\ \/ /\ spc \in {"ok", "size", "data"} /\ d = disk[sfile] /\ answer = NoAnswer
        /\ spc = "ok" => Sent = 0
        /\ spc = "size" => Sent = 2
        /\ spc = "data" => /\ Sent >= 4 /\ Sent + Len(rest) = 4 + Len(d)
                           /\ \A i \in 1..Len(rest) : rest[i] = Whole(d)[Sent + i]
     \/ spc \in {"time", "line", "returned", "died", "killed"} /\ Sent = 4 + Len(d) /\ answer = d
     \/ TaskOver /\ Sent \in {0, 2} \cup 4..(4 + Len(d)) /\ answer = NoAnswer

\* The server has ended, and there is nothing left of it.
Silence == TaskOver /\ toClient = <<>> /\ answer = NoAnswer

InStep == Silence \/ Idle \/ Asked \/ Failing \/ \E d \in Contents : Sending(d)

SyncInv == clientOpen => peer = "open" /\ (refused \/ InStep)

LEMMA WholeReply ==
  ASSUME NEW d \in Contents
  PROVE  /\ d \in Seq(Bytes) /\ Len(d) \in Nat \ {0} /\ Len(Whole(d)) = 4 + Len(d)
         /\ Whole(d)[1] = OK[1] /\ Whole(d)[2] = NL
         /\ Whole(d)[3] = Size(Len(d))[1] /\ Whole(d)[4] = Size(Len(d))[2]
         /\ \A i \in 1..Len(d) : Whole(d)[4 + i] = d[i]
<1>1. d \in Seq(Bytes) /\ d # <<>>
  BY Replies
<1>2. Len(d) \in Nat \ {0}
  BY <1>1, Pieces
<1>3. OK[2] = NL
  BY DEF OK
<1>4. /\ 1 \in 1..(4 + Len(d)) /\ 2 \in 1..(4 + Len(d)) /\ 3 \in 1..(4 + Len(d)) /\ 4 \in 1..(4 + Len(d))
      /\ 4 + Len(d) \in Nat
      /\ \A i \in 1..Len(d) : 4 + i \in 1..(4 + Len(d)) /\ ~(4 + i <= 4) /\ ~(4 + i <= 2) /\ (4 + i) - 4 = i
  BY <1>2
<1> QED
  BY <1>1, <1>2, <1>3, <1>4 DEF Whole

LEMMA HeadLines ==
  /\ OK[1] # NL /\ ERR[1] # NL /\ ERR[2] = NL /\ OK[1] # ERR[1] /\ Len(ERR) = 2 /\ Len(OK) = 2
  /\ \A n : Len(Size(n)) = 2
BY DEF OK, ERR, NL, Size

(* A size that was read whole is the size that was sent.                       *)
LEMMA SizeRead ==
  ASSUME NEW n \in Sizes, NEW s, s = Size(n)
  PROVE  Decoded(s) = {n}
<1>1. \A m \in Sizes : Size(n) = Size(m) => n = m
  <2>1. ASSUME NEW m \in Sizes, Size(n) = Size(m) PROVE n = m
    <3>1. Size(n)[1] = Size(m)[1]
      BY <2>1
    <3>2. <<"size", n, 1>> = <<"size", m, 1>>
      BY <3>1 DEF Size
    <3> QED
      BY <3>2
  <2> QED
    BY <2>1
<1> QED
  BY <1>1 DEF Decoded

LEMMA TwoBytes ==
  ASSUME NEW s \in Seq(Bytes), NEW t \in Seq(Bytes), Len(s) = 2, Len(t) = 2, s[1] = t[1], s[2] = t[2]
  PROVE  s = t
OBVIOUS

LEMMA SamePieces ==
  ASSUME NEW s \in Seq(Bytes), NEW t \in Seq(Bytes), Len(s) = Len(t), \A i \in 1..Len(s) : s[i] = t[i]
  PROVE  s = t
OBVIOUS

LEMMA Cut ==
  ASSUME NEW s \in Seq(Bytes), NEW k \in 0..Len(s)
  PROVE  /\ SubSeq(s, 1, k) \in Seq(Bytes) /\ Len(SubSeq(s, 1, k)) = k
         /\ \A i \in 1..k : SubSeq(s, 1, k)[i] = s[i]
         /\ SubSeq(s, k + 1, Len(s)) \in Seq(Bytes) /\ Len(SubSeq(s, k + 1, Len(s))) = Len(s) - k
         /\ \A i \in 1..(Len(s) - k) : SubSeq(s, k + 1, Len(s))[i] = s[k + i]
OBVIOUS

LEMMA Joint ==
  ASSUME NEW s \in Seq(Bytes), NEW t \in Seq(Bytes)
  PROVE  /\ s \o t \in Seq(Bytes) /\ Len(s \o t) = Len(s) + Len(t) /\ Len(s) \in Nat /\ Len(t) \in Nat
         /\ \A i \in 1..Len(s) : (s \o t)[i] = s[i]
         /\ \A i \in 1..Len(t) : (s \o t)[Len(s) + i] = t[i]
         /\ \A i \in 1..(Len(s) + Len(t)) : i \in 1..Len(s) \/ \E j \in 1..Len(t) : i = Len(s) + j
<1>1. /\ s \o t \in Seq(Bytes) /\ Len(s \o t) = Len(s) + Len(t) /\ Len(s) \in Nat /\ Len(t) \in Nat
  OBVIOUS
<1>2. /\ \A i \in 1..Len(s) : (s \o t)[i] = s[i]
      /\ \A i \in 1..Len(t) : (s \o t)[Len(s) + i] = t[i]
  OBVIOUS
<1>3. ASSUME NEW i \in 1..(Len(s) + Len(t)), i \notin 1..Len(s) PROVE \E j \in 1..Len(t) : i = Len(s) + j
  <2> DEFINE m == Len(s)
             n == Len(t)
  <2>1. m \in Nat /\ n \in Nat /\ i \in 1..(m + n) /\ i \notin 1..m
    BY <1>1, <1>3
  <2> HIDE DEF m, n
  <2>2. i - m \in 1..n /\ i = m + (i - m)
    BY <2>1
  <2>3. \E j \in 1..n : i = m + j
    BY <2>2
  <2> QED
    BY <2>3 DEF m, n
<1> QED
  BY <1>1, <1>2, <1>3

(* k bytes leave the stream.                                                   *)
LEMMA Taken ==
  ASSUME StreamT, NEW k \in 0..Len(toClient)
  PROVE  /\ First(k) \in Seq(Bytes) /\ Len(First(k)) = k /\ \A i \in 1..k : First(k)[i] = toClient[i]
         /\ Take(k) => /\ toClient' \in Seq(Bytes) /\ Len(toClient') = Len(toClient) - k
                       /\ \A i \in 1..(Len(toClient) - k) : toClient'[i] = toClient[k + i]
<1> DEFINE s == toClient
           h == SubSeq(s, 1, k)
           t == SubSeq(s, k + 1, Len(s))
<1>1. s \in Seq(Bytes) /\ k \in 0..Len(s)
  BY DEF StreamT
<1>2. First(k) = h /\ (Take(k) => toClient' = t)
  BY DEF First, Take
<1>3. /\ h \in Seq(Bytes) /\ Len(h) = k /\ \A i \in 1..k : h[i] = s[i]
      /\ t \in Seq(Bytes) /\ Len(t) = Len(s) - k /\ \A i \in 1..(Len(s) - k) : t[i] = s[k + i]
  BY <1>1, Cut
<1> HIDE DEF h, t
<1> QED
  BY <1>2, <1>3

(* The bytes that have been sent are the beginning of the reply, and what the  *)
(* client has read of this part of it and what is in the stream follow.        *)

\* More of this part is read.
LEMMA ReadMore ==
  ASSUME StreamT, ClientT, NEW k \in 0..Len(toClient), Take(k), got' = got \o First(k), status' = status
  PROVE  Sent' = Sent /\ (\A reply : Follows(reply) => Follows(reply)')
<1>1. /\ toClient \in Seq(Bytes) /\ got \in Seq(Bytes) /\ First(k) \in Seq(Bytes) /\ Len(First(k)) = k
      /\ Len(toClient) \in Nat /\ Len(got) \in Nat /\ k \in Nat
      /\ \A i \in 1..k : First(k)[i] = toClient[i]
      /\ toClient' \in Seq(Bytes) /\ Len(toClient') = Len(toClient) - k
      /\ \A i \in 1..(Len(toClient) - k) : toClient'[i] = toClient[k + i]
  BY Taken, Numbers DEF StreamT, ClientT
<1>2. /\ Len(got') = Len(got) + k
      /\ \A i \in 1..Len(got) : got'[i] = got[i]
      /\ \A i \in 1..k : got'[Len(got) + i] = toClient[i]
      /\ \A i \in 1..(Len(got) + k) : i \in 1..Len(got) \/ \E j \in 1..k : i = Len(got) + j
  <2> DEFINE b == First(k)
  <2>1. b \in Seq(Bytes) /\ Len(b) = k /\ \A i \in 1..k : b[i] = toClient[i]
    BY <1>1
  <2> HIDE DEF b
  <2>2. /\ Len(got \o b) = Len(got) + Len(b)
        /\ \A i \in 1..Len(got) : (got \o b)[i] = got[i]
        /\ \A i \in 1..Len(b) : (got \o b)[Len(got) + i] = b[i]
        /\ \A i \in 1..(Len(got) + Len(b)) : i \in 1..Len(got) \/ \E j \in 1..Len(b) : i = Len(got) + j
    BY <1>1, <2>1, Joint
  <2>3. got' = got \o b
    BY DEF b
  <2> QED
    BY <2>1, <2>2, <2>3
<1>3. Base' = Base /\ Base \in Nat
  BY DEF Base
<1>4. Sent' = Sent
  BY <1>1, <1>2, <1>3 DEF Sent
<1>5. ASSUME NEW reply, Follows(reply) PROVE Follows(reply)'
  <2>1. ASSUME NEW i \in 1..Len(got') PROVE got'[i] = reply[Base + i]
    <3>1. CASE i \in 1..Len(got)
      BY <1>2, <1>5, <3>1 DEF Follows
    <3>2. CASE \E j \in 1..k : i = Len(got) + j
      <4>1. PICK j \in 1..k : i = Len(got) + j
        BY <3>2
      <4>2. got'[i] = toClient[j] /\ j \in 1..Len(toClient) /\ Base + Len(got) + j = Base + i
        BY <1>1, <1>2, <1>3, <4>1
      <4> QED
        BY <1>5, <4>2 DEF Follows
    <3> QED
      BY <1>2, <3>1, <3>2
  <2>2. ASSUME NEW i \in 1..Len(toClient') PROVE toClient'[i] = reply[Base + Len(got') + i]
    <3>1. /\ toClient'[i] = toClient[k + i] /\ k + i \in 1..Len(toClient)
          /\ Base + Len(got) + (k + i) = Base + Len(got') + i
      BY <1>1, <1>2, <1>3
    <3> QED
      BY <1>5, <3>1 DEF Follows
  <2> QED
    BY <1>3, <2>1, <2>2 DEF Follows
<1> QED
  BY <1>4, <1>5

\* The rest of this part is read, and the next one begins.
LEMMA ReadPart ==
  ASSUME StreamT, ClientT, NEW k \in 0..Len(toClient), Take(k), got' = <<>>, Base' = Base + Len(got) + k
  PROVE  Sent' = Sent /\ (\A reply : Follows(reply) => Follows(reply)')
<1>1. /\ Len(toClient) \in Nat /\ Len(got) \in Nat /\ k \in Nat /\ Len(toClient') = Len(toClient) - k
      /\ \A i \in 1..(Len(toClient) - k) : toClient'[i] = toClient[k + i]
      /\ Len(got') = 0
  BY Taken, Numbers
<1>2. Base \in Nat
  BY DEF Base
<1>3. Sent' = Sent
  BY <1>1, <1>2 DEF Sent
<1>4. ASSUME NEW reply, Follows(reply) PROVE Follows(reply)'
  <2>1. ASSUME NEW i \in 1..Len(toClient') PROVE toClient'[i] = reply[Base' + Len(got') + i]
    <3>1. /\ toClient'[i] = toClient[k + i] /\ k + i \in 1..Len(toClient)
          /\ Base + Len(got) + (k + i) = Base' + Len(got') + i
      BY <1>1, <1>2
    <3> QED
      BY <1>4, <3>1 DEF Follows
  <2>2. \A i \in 1..Len(got') : got'[i] = reply[Base' + i]
    BY <1>1
  <2> QED
    BY <2>1, <2>2 DEF Follows
<1> QED
  BY <1>3, <1>4

\* The server writes b.
LEMMA Wrote ==
  ASSUME StreamT, ClientT, NEW b \in Seq(Bytes), toClient' = toClient \o b, UNCHANGED <<got, status>>
  PROVE  /\ Sent' = Sent + Len(b)
         /\ \A reply : Follows(reply) /\ (\A i \in 1..Len(b) : b[i] = reply[Sent + i]) => Follows(reply)'
<1>1. /\ toClient \in Seq(Bytes) /\ Len(toClient) \in Nat /\ Len(got) \in Nat
  BY Numbers DEF StreamT
<1>2. /\ Len(toClient') = Len(toClient) + Len(b) /\ Len(b) \in Nat
      /\ \A i \in 1..Len(toClient) : toClient'[i] = toClient[i]
      /\ \A i \in 1..Len(b) : toClient'[Len(toClient) + i] = b[i]
      /\ \A i \in 1..(Len(toClient) + Len(b)) : i \in 1..Len(toClient) \/ \E j \in 1..Len(b) : i = Len(toClient) + j
  BY <1>1, Joint
<1>3. Base' = Base /\ Base \in Nat
  BY DEF Base
<1>4. Sent' = Sent + Len(b) /\ Sent = Base + Len(got) + Len(toClient)
  BY <1>1, <1>2, <1>3 DEF Sent
<1>5. ASSUME NEW reply, Follows(reply), \A i \in 1..Len(b) : b[i] = reply[Sent + i] PROVE Follows(reply)'
  <2>1. ASSUME NEW i \in 1..Len(toClient') PROVE toClient'[i] = reply[Base + Len(got) + i]
    <3>1. CASE i \in 1..Len(toClient)
      BY <1>2, <1>5, <3>1 DEF Follows
    <3>2. CASE \E j \in 1..Len(b) : i = Len(toClient) + j
      <4>1. PICK j \in 1..Len(b) : i = Len(toClient) + j
        BY <3>2
      <4>2. Base + Len(got) + i = Sent + j
        BY <1>1, <1>3, <1>4, <4>1
      <4>3. toClient'[i] = b[j]
        BY <1>2, <4>1
      <4> QED
        BY <1>5, <4>2, <4>3
    <3> QED
      BY <1>2, <3>1, <3>2
  <2> QED
    BY <1>3, <1>5, <2>1 DEF Follows
<1> QED
  BY <1>4, <1>5

(* What the server does while the client's socket is open.                     *)
ErrSent ==
  /\ spc = "err" /\ spc' \in {"time", "returned"} /\ toClient' = toClient \o ERR /\ answer' = ERR
  /\ UNCHANGED <<disk, sfile, rest, toServer>>

OkSent ==
  /\ spc = "ok" /\ spc' = "size" /\ toClient' = toClient \o OK
  /\ UNCHANGED <<disk, sfile, rest, toServer, answer>>

SizeSent ==
  /\ spc = "size" /\ spc' = "data" /\ toClient' = toClient \o Size(Len(disk[sfile])) /\ rest' = disk[sfile]
  /\ UNCHANGED <<disk, sfile, toServer, answer>>

ByteSent ==
  /\ spc = "data" /\ toClient' = toClient \o <<Head(rest)>> /\ rest' = Tail(rest)
  /\ IF Len(rest) > 1 THEN spc' = "data" /\ answer' = answer ELSE spc' = "time" /\ answer' = disk[sfile]
  /\ UNCHANGED <<disk, sfile, toServer>>

Turns ==
  /\ (spc = "time" /\ spc' \in {"line", "returned"}) \/ (~TaskOver /\ spc' \in {"died", "killed"})
  /\ UNCHANGED <<disk, rest, toServer, toClient, answer>>

LEMMA ServerMoves ==
  ASSUME peer = "open", AllServer \/ ServerKilled
  PROVE  /\ ClientStays /\ peer' = "open"
         /\ ReadRequest \/ ErrSent \/ OkSent \/ SizeSent \/ ByteSent \/ Turns
<1>1. \/ Server \/ ServiClient \/ NextRequest({"line", "returned"}) \/ NextRequest({"line"}) \/ ServerKilled
  BY DEF AllServer, OldServer, ServiClient23, ServiClient31, ServiClientThread, ServiClient32,
         ServiClientPipe, ServiClient33
<1>2. CASE ReadRequest
  BY <1>2 DEF ReadRequest, ClientStays
<1>3. CASE SendReply
  BY <1>3 DEF SendReply, Reply, WriteSucceeds, WriteReturnsFalse, ErrSent, OkSent, SizeSent, ClientStays
<1>4. CASE OldReply
  BY <1>4 DEF OldReply, Writen, WriteSucceeds, ErrSent, OkSent, SizeSent, ClientStays
<1>5. CASE SendData
  BY <1>5 DEF SendData, WriteSucceeds, WriteReturnsFalse, ByteSent, ClientStays
<1>6. CASE OldSendData
  BY <1>6 DEF OldSendData, Writen, WriteSucceeds, ByteSent, ClientStays
<1>7. CASE CheckTime \/ NextRequest({"line", "returned"}) \/ NextRequest({"line"}) \/ ServerKilled
  BY <1>7 DEF CheckTime, NextRequest, ServerKilled, Turns, ClientStays
<1>8. CASE ReadRequestEnds \/ WriteKills \/ OldReadEnds
  BY <1>8 DEF ReadRequestEnds, WriteKills, OldReadEnds
<1> QED
  BY <1>1, <1>2, <1>3, <1>4, <1>5, <1>6, <1>7, <1>8 DEF Server, ServiClient

LEMMA WaitingStays ==
  ASSUME ClientStays, Waiting
  PROVE  Waiting'
BY DEF ClientStays, clientVars, Waiting

\* The stream does not change.
LEMMA StreamStays ==
  ASSUME UNCHANGED <<toClient, got, status>>
  PROVE  Sent' = Sent /\ \A reply : Follows(reply) => Follows(reply)'
BY DEF Sent, Base, Follows

\* The server has sent a beginning of the reply, cut at one of its parts or in the data.
LEMMA SentParts ==
  ASSUME TaskT, StreamT, ClientT, NEW d \in Contents, Sending(d)
  PROVE  /\ Sent \in {0, 2} \cup 4..(4 + Len(d)) /\ Len(d) \in Nat \ {0}
         /\ spc = "data" => rest # <<>> /\ Len(rest) \in Nat \ {0}
<1>1. Len(d) \in Nat \ {0}
  BY WholeReply
<1>2. spc = "data" => rest # <<>> /\ Len(rest) \in Nat \ {0}
  BY Pieces DEF TaskT, ReplyInv
<1>3. Sent \in Nat
  <2>1. Base \in Nat
    BY DEF Base
  <2> QED
    BY <2>1, Numbers DEF Sent
<1> QED
  BY <1>1, <1>2, <1>3 DEF Sending

LEMMA TurnsSync ==
  ASSUME TaskT, StreamT, ClientT, InStep, Turns, ClientStays
  PROVE  InStep'
<1>1. UNCHANGED <<got, status, target, prompt, inGet, fileSize>> /\ UNCHANGED <<toClient, toServer, answer, disk, rest>>
  BY DEF ClientStays, clientVars, Turns
<1>2. Sent' = Sent /\ \A reply : Follows(reply) => Follows(reply)'
  BY <1>1, StreamStays
<1>3. CASE TaskOver
  BY <1>3 DEF Turns, TaskOver
<1>4. CASE Idle \/ Asked
  <2>1. Waiting => Waiting'
    BY WaitingStays
  <2>2. CASE spc' = "line"
    BY <1>1, <1>4, <2>1, <2>2 DEF Idle, Asked, InStep
  <2>3. CASE spc' \in {"returned", "died", "killed"}
    BY <1>1, <1>4, <2>3 DEF Idle, Asked, Silence, InStep, TaskOver
  <2> QED
    BY <2>2, <2>3 DEF Turns
<1>5. CASE Failing
  <2>1. Waiting' /\ Follows(ERR)' /\ status' = "okErr" /\ toServer' = <<>>
    BY <1>1, <1>2, <1>5, WaitingStays DEF Failing
  <2>2. CASE spc = "err" /\ Sent = 0 /\ answer = NoAnswer
    <3>1. Len(toClient) = 0
      BY <1>5, <2>2, Numbers DEF Failing, Sent, Base
    <3>2. toClient' = <<>>
      BY <1>1, <3>1 DEF StreamT
    <3> QED
      BY <1>1, <2>2, <3>2 DEF Turns, Silence, InStep, TaskOver
  <2>3. CASE spc \in {"time", "line", "returned", "died", "killed"} /\ Sent = 2 /\ answer = ERR
    <3>1. spc' \in {"time", "line", "returned", "died", "killed"}
      BY DEF Turns
    <3> QED
      BY <1>1, <1>2, <2>1, <2>3, <3>1 DEF Failing, InStep
  <2> QED
    BY <1>5, <2>2, <2>3 DEF Failing
<1>6. ASSUME NEW d \in Contents, Sending(d) PROVE InStep'
  <2>1. Waiting' /\ Follows(Whole(d))' /\ toServer' = <<>> /\ (status' = "file" => fileSize' = Len(d))
    BY <1>1, <1>2, <1>6, WaitingStays DEF Sending
  <2>2. Sent' \in {0, 2} \cup 4..(4 + Len(d))
    BY <1>2, <1>6, SentParts
  <2>3. CASE spc \in {"ok", "size", "data"} /\ answer = NoAnswer
    <3>1. spc' \in {"died", "killed"} /\ answer' = NoAnswer
      BY <1>1, <2>3 DEF Turns
    <3>2. TaskOver'
      BY <3>1 DEF TaskOver
    <3>3. Sending(d)'
      BY <2>1, <2>2, <3>1, <3>2 DEF Sending
    <3> QED
      BY <3>3 DEF InStep
  <2>4. CASE spc \in {"time", "line", "returned", "died", "killed"} /\ Sent = 4 + Len(d) /\ answer = d
    <3>1. spc' \in {"time", "line", "returned", "died", "killed"}
      BY DEF Turns
    <3>2. Sending(d)'
      BY <1>1, <1>2, <2>1, <2>4, <3>1 DEF Sending
    <3> QED
      BY <3>2 DEF InStep
  <2> QED
    BY <1>3, <1>6, <2>3, <2>4 DEF Sending
<1> QED
  BY <1>3, <1>4, <1>5, <1>6 DEF InStep, Silence

LEMMA RequestSync ==
  ASSUME TaskT, StreamT, ClientT, InStep, ReadRequest, ClientStays
  PROVE  InStep'
<1>1. Asked
  BY DEF InStep, ReadRequest, Silence, TaskOver, Idle, Failing, Sending
<1>2. Waiting' /\ status' = "okErr" /\ got' = <<>> /\ toClient' = <<>> /\ answer' = NoAnswer
  BY <1>1, WaitingStays DEF Asked, ReadRequest, ClientStays, clientVars
<1>3. toServer \in Seq(Files \cup {Quit}) /\ Len(toServer) = 1 /\ toServer' = Tail(toServer)
  BY <1>1 DEF StreamT, Asked, ReadRequest
<1>4. toServer' = <<>> /\ Head(toServer) \in Files \cup {Quit}
  <2>1. toServer # <<>>
    BY DEF ReadRequest
  <2>2. Head(toServer) \in Files \cup {Quit} /\ Tail(toServer) \in Seq(Files \cup {Quit}) /\ Len(Tail(toServer)) = 0
    BY <1>3, <2>1, Departed
  <2> QED
    BY <1>3, <2>2
<1>5. Sent' = 0 /\ \A reply : Follows(reply)'
  <2>1. Base' = 0 /\ Len(got') = 0 /\ Len(toClient') = 0
    BY <1>2 DEF Base
  <2> QED
    BY <1>2, <2>1 DEF Sent, Follows
<1>6. CASE Head(toServer) = Quit
  BY <1>2, <1>6 DEF ReadRequest, InStep, Silence, TaskOver
<1>7. CASE Head(toServer) # Quit
  <2>1. /\ Head(toServer) \in Files /\ sfile' = Head(toServer) /\ disk' = disk
        /\ spc' = IF disk[Head(toServer)] = Absent THEN "err" ELSE "ok"
    BY <1>4, <1>7 DEF ReadRequest
  <2>2. CASE disk[Head(toServer)] = Absent
    BY <1>2, <1>4, <1>5, <2>1, <2>2 DEF Failing, InStep
  <2>3. CASE disk[Head(toServer)] # Absent
    <3>1. PICK d \in Contents : d = disk'[sfile']
      BY <2>1, <2>3 DEF TaskT
    <3>2. Sending(d)'
      BY <1>2, <1>4, <1>5, <2>1, <2>3, <3>1 DEF Sending
    <3> QED
      BY <3>1, <3>2 DEF InStep
  <2> QED
    BY <2>2, <2>3
<1> QED
  BY <1>6, <1>7

LEMMA ErrSync ==
  ASSUME TaskT, StreamT, ClientT, InStep, ErrSent, ClientStays
  PROVE  InStep'
<1>1. Failing /\ Sent = 0
  BY DEF InStep, ErrSent, Silence, TaskOver, Idle, Asked, Failing, Sending
<1>2. UNCHANGED <<got, status>> /\ toClient' = toClient \o ERR /\ ERR \in Seq(Bytes) /\ Len(ERR) = 2
  BY Replies, HeadLines DEF ClientStays, clientVars, ErrSent
<1>3. \A i \in 1..Len(ERR) : ERR[i] = ERR[Sent + i]
  BY <1>1, <1>2
<1>4. Sent' = 2 /\ Follows(ERR)'
  <2>1. Follows(ERR)
    BY <1>1 DEF Failing
  <2> DEFINE b == ERR
  <2>2. b \in Seq(Bytes) /\ Len(b) = 2 /\ toClient' = toClient \o b /\ \A i \in 1..Len(b) : b[i] = ERR[Sent + i]
    BY <1>2, <1>3
  <2> HIDE DEF b
  <2>3. Sent' = Sent + Len(b) /\ Follows(ERR)'
    BY <1>1, <1>2, <2>1, <2>2, Wrote
  <2> QED
    BY <1>1, <1>2, <2>2, <2>3
<1>5. Failing'
  BY <1>1, <1>4, WaitingStays DEF Failing, ErrSent, ClientStays, clientVars
<1> QED
  BY <1>5 DEF InStep

LEMMA OkSync ==
  ASSUME TaskT, StreamT, ClientT, InStep, OkSent, ClientStays
  PROVE  InStep'
<1>1. PICK d \in Contents : Sending(d)
  BY DEF InStep, OkSent, Silence, TaskOver, Idle, Asked, Failing
<1>2. Sent = 0 /\ d = disk[sfile] /\ answer = NoAnswer
  BY <1>1 DEF Sending, OkSent, TaskOver
<1>3. UNCHANGED <<got, status>> /\ toClient' = toClient \o OK /\ OK \in Seq(Bytes) /\ Len(OK) = 2
  BY Replies, HeadLines DEF ClientStays, clientVars, OkSent
<1>4. \A i \in 1..Len(OK) : OK[i] = Whole(d)[Sent + i]
  <2>1. OK[1] = Whole(d)[1] /\ OK[2] = Whole(d)[2]
    BY WholeReply DEF OK
  <2> QED
    BY <1>2, <1>3, <2>1
<1>5. Sent' = 2 /\ Follows(Whole(d))'
  <2>1. Follows(Whole(d))
    BY <1>1 DEF Sending
  <2> DEFINE b == OK
  <2>2. b \in Seq(Bytes) /\ Len(b) = 2 /\ toClient' = toClient \o b /\ \A i \in 1..Len(b) : b[i] = Whole(d)[Sent + i]
    BY <1>3, <1>4
  <2> HIDE DEF b
  <2>3. Sent' = Sent + Len(b) /\ Follows(Whole(d))'
    BY <1>2, <1>3, <2>1, <2>2, Wrote
  <2> QED
    BY <1>2, <1>3, <2>2, <2>3
<1>6. Waiting' /\ toServer' = <<>> /\ (status' = "file" => fileSize' = Len(d))
  BY <1>1, WaitingStays DEF Sending, OkSent, ClientStays, clientVars
<1>7. Sending(d)'
  BY <1>2, <1>5, <1>6 DEF Sending, OkSent
<1> QED
  BY <1>7 DEF InStep

LEMMA SizeSync ==
  ASSUME TaskT, StreamT, ClientT, InStep, SizeSent, ClientStays
  PROVE  InStep'
<1>1. PICK d \in Contents : Sending(d)
  BY DEF InStep, SizeSent, Silence, TaskOver, Idle, Asked, Failing
<1>2. Sent = 2 /\ d = disk[sfile] /\ answer = NoAnswer
  BY <1>1 DEF Sending, SizeSent, TaskOver
<1>3. /\ UNCHANGED <<got, status>> /\ toClient' = toClient \o Size(Len(d)) /\ Size(Len(d)) \in Seq(Bytes)
      /\ Len(Size(Len(d))) = 2
  BY <1>2, Replies, HeadLines DEF ClientStays, clientVars, SizeSent
<1>4. \A i \in 1..Len(Size(Len(d))) : Size(Len(d))[i] = Whole(d)[Sent + i]
  <2>1. Size(Len(d))[1] = Whole(d)[3] /\ Size(Len(d))[2] = Whole(d)[4]
    BY WholeReply
  <2> HIDE DEF Size
  <2> QED
    BY <1>2, <1>3, <2>1
<1>5. Sent' = 4 /\ Follows(Whole(d))'
  <2>1. Follows(Whole(d))
    BY <1>1 DEF Sending
  <2> DEFINE b == Size(Len(d))
  <2>2. b \in Seq(Bytes) /\ Len(b) = 2 /\ toClient' = toClient \o b /\ \A i \in 1..Len(b) : b[i] = Whole(d)[Sent + i]
    BY <1>3, <1>4
  <2> HIDE DEF b
  <2>3. Sent' = Sent + Len(b) /\ Follows(Whole(d))'
    BY <1>2, <1>3, <2>1, <2>2, Wrote
  <2> QED
    BY <1>2, <1>3, <2>2, <2>3
<1>6. Waiting' /\ toServer' = <<>> /\ (status' = "file" => fileSize' = Len(d))
  BY <1>1, WaitingStays DEF Sending, SizeSent, ClientStays, clientVars
<1>7. /\ rest' = d /\ Len(d) \in Nat /\ \A i \in 1..Len(d) : d[i] = Whole(d)[4 + i]
  BY <1>2, WholeReply DEF SizeSent
<1>8. /\ Sent' >= 4 /\ Sent' + Len(rest') = 4 + Len(d) /\ \A i \in 1..Len(rest') : rest'[i] = Whole(d)[Sent' + i]
  BY <1>5, <1>7
<1>9. Sending(d)'
  BY <1>2, <1>5, <1>6, <1>8 DEF Sending, SizeSent
<1> QED
  BY <1>9 DEF InStep

LEMMA ByteSync ==
  ASSUME TaskT, StreamT, ClientT, InStep, ByteSent, ClientStays
  PROVE  InStep'
<1>1. PICK d \in Contents : Sending(d)
  BY DEF InStep, ByteSent, Silence, TaskOver, Idle, Asked, Failing
<1>2. /\ Sent >= 4 /\ d = disk[sfile] /\ answer = NoAnswer
      /\ Sent + Len(rest) = 4 + Len(d) /\ \A i \in 1..Len(rest) : rest[i] = Whole(d)[Sent + i]
  BY <1>1 DEF Sending, ByteSent, TaskOver
<1>3. /\ rest \in Seq(Bytes) /\ rest # <<>> /\ Len(rest) \in Nat \ {0} /\ Sent \in Nat /\ Len(d) \in Nat
  BY <1>1, SentParts DEF TaskT, ByteSent
<1>4. /\ Head(rest) = rest[1] /\ Head(rest) \in Bytes /\ Tail(rest) \in Seq(Bytes)
      /\ Len(Tail(rest)) = Len(rest) - 1 /\ \A i \in 1..(Len(rest) - 1) : Tail(rest)[i] = rest[i + 1]
  BY <1>3
<1>5. /\ UNCHANGED <<got, status>> /\ toClient' = toClient \o <<Head(rest)>> /\ <<Head(rest)>> \in Seq(Bytes)
      /\ Len(<<Head(rest)>>) = 1 /\ <<Head(rest)>>[1] = rest[1]
  BY <1>4 DEF ClientStays, clientVars, ByteSent
<1>6. \A i \in 1..Len(<<Head(rest)>>) : <<Head(rest)>>[i] = Whole(d)[Sent + i]
  <2>1. 1 \in 1..Len(rest)
    BY <1>3
  <2>2. rest[1] = Whole(d)[Sent + 1]
    BY <1>2, <2>1
  <2> QED
    BY <1>5, <2>2
<1>7. Sent' = Sent + 1 /\ Follows(Whole(d))'
  <2>1. Follows(Whole(d))
    BY <1>1 DEF Sending
  <2> DEFINE b == <<Head(rest)>>
  <2>2. b \in Seq(Bytes) /\ Len(b) = 1 /\ toClient' = toClient \o b /\ \A i \in 1..Len(b) : b[i] = Whole(d)[Sent + i]
    BY <1>5, <1>6
  <2> HIDE DEF b
  <2> QED
    BY <1>5, <2>1, <2>2, Wrote
<1>8. Waiting' /\ toServer' = <<>> /\ (status' = "file" => fileSize' = Len(d))
  BY <1>1, WaitingStays DEF Sending, ByteSent, ClientStays, clientVars
<1>9. CASE Len(rest) > 1
  <2>1. /\ rest' = Tail(rest) /\ spc' = "data" /\ answer' = NoAnswer /\ d = disk'[sfile']
    BY <1>2, <1>9 DEF ByteSent
  <2>2. Sent' >= 4 /\ Sent' + Len(rest') = 4 + Len(d)
    BY <1>2, <1>3, <1>4, <1>7, <2>1
  <2>3. ASSUME NEW i \in 1..Len(rest') PROVE rest'[i] = Whole(d)[Sent' + i]
    <3>1. rest'[i] = rest[i + 1] /\ i + 1 \in 1..Len(rest) /\ Sent + (i + 1) = Sent' + i
      BY <1>3, <1>4, <1>7, <2>1
    <3> QED
      BY <1>2, <3>1
  <2>4. Sending(d)'
    BY <1>7, <1>8, <2>1, <2>2, <2>3 DEF Sending
  <2> QED
    BY <2>4 DEF InStep
<1>10. CASE ~(Len(rest) > 1)
  <2>1. spc' = "time" /\ answer' = d
    BY <1>2, <1>10 DEF ByteSent
  <2>2. Sent' = 4 + Len(d)
    BY <1>2, <1>3, <1>7, <1>10
  <2>3. Sending(d)'
    BY <1>7, <1>8, <2>1, <2>2 DEF Sending
  <2> QED
    BY <2>3 DEF InStep
<1> QED
  BY <1>9, <1>10

LEMMA ServerSync ==
  ASSUME TaskT, StreamT, ClientT, peer = "open", InStep, AllServer \/ ServerKilled
  PROVE  InStep' /\ ClientStays /\ peer' = "open"
BY ServerMoves, RequestSync, ErrSync, OkSync, SizeSync, ByteSync, TurnsSync

LEMMA FilesChangeSync ==
  ASSUME TaskT, StreamT, ClientT, InStep, NEW f \in Files, ChangeFile(f)
  PROVE  InStep'
<1>1. /\ spc = "line" /\ ClientStays
      /\ UNCHANGED <<spc, toClient, toServer, answer, got, status, prompt, inGet, target, fileSize>>
  BY DEF ChangeFile, ClientStays, serverVars, clientVars
<1>2. Sent' = Sent /\ (\A reply : Follows(reply) => Follows(reply)') /\ (Waiting => Waiting')
  BY <1>1, StreamStays, WaitingStays
<1>3. CASE Idle \/ Asked \/ Failing \/ Silence
  BY <1>1, <1>2, <1>3 DEF Idle, Asked, Failing, Silence, TaskOver, InStep
<1>4. ASSUME NEW d \in Contents, Sending(d) PROVE InStep'
  <2>1. Sent = 4 + Len(d) /\ answer = d
    BY <1>1, <1>4 DEF Sending, TaskOver
  <2>2. Sending(d)'
    BY <1>1, <1>2, <1>4, <2>1 DEF Sending
  <2> QED
    BY <2>2 DEF InStep
<1> QED
  BY <1>3, <1>4 DEF InStep

(* What the client does.                                                       *)
Keeps ==
  clientOpen' => /\ clientOpen /\ peer' = peer /\ (refused => refused')
                 /\ ~refused /\ InStep => refused' \/ InStep'

LEMMA TakeEmpty ==
  ASSUME NEW k \in Nat, toClient = <<>>, Take(k)
  PROVE  toClient' = <<>>
BY DEF Take

LEMMA SilenceStays ==
  ASSUME Silence, TaskStays, toClient' = <<>>, answer' \in {answer, NoAnswer}
  PROVE  InStep'
BY DEF Silence, TaskStays, TaskOver, InStep

LEMMA PromptSync ==
  ASSUME NextPrompt, TaskStays, spc \in {"time", "line", "returned", "died", "killed"}, toServer' = <<>>, toClient' = <<>>,
         inGet' = FALSE, target' = NoFile
  PROVE  InStep'
<1>1. status' = "init" /\ prompt' = TRUE /\ got' = <<>> /\ answer' = NoAnswer /\ spc' = spc
  BY DEF NextPrompt, TaskStays
<1>2. CASE TaskOver
  BY <1>1, <1>2 DEF TaskOver, Silence, InStep
<1>3. CASE ~TaskOver
  BY <1>1, <1>3 DEF TaskOver, Idle, InStep
<1> QED
  BY <1>2, <1>3

\* The client has read all of the file.
LEMMA AllRead ==
  ASSUME TaskT, StreamT, ClientT, NEW d \in Contents, Sending(d), status = "file",
         NEW k \in 0..Len(toClient), Len(got) + k >= Len(d)
  PROVE  /\ k = Len(toClient) /\ Len(got) + k = Len(d) /\ Sent = 4 + Len(d)
         /\ spc \in {"time", "line", "returned", "died", "killed"} /\ toServer = <<>>
<1>1. Sent = 4 + Len(got) + Len(toClient) /\ Len(got) \in Nat /\ Len(toClient) \in Nat
  BY Numbers DEF Sent, Base
<1>2. Sent \in {0, 2} \cup 4..(4 + Len(d)) /\ Len(d) \in Nat \ {0}
  BY SentParts
<1>3. k = Len(toClient) /\ Len(got) + k = Len(d) /\ Sent = 4 + Len(d)
  BY <1>1, <1>2
<1>4. spc = "data" => Len(rest) \in Nat \ {0}
  BY SentParts
<1>5. CASE spc \in {"ok", "size", "data"}
  <2>1. /\ spc = "ok" => Sent = 0
        /\ spc = "size" => Sent = 2
        /\ spc = "data" => Sent + Len(rest) = 4 + Len(d)
    BY <1>5 DEF Sending, TaskOver
  <2> QED
    BY <1>2, <1>3, <1>4, <1>5, <2>1
<1>6. CASE spc \notin {"ok", "size", "data"}
  BY <1>3, <1>6 DEF Sending, TaskOver
<1> QED
  BY <1>3, <1>5, <1>6 DEF Sending

\* The blocking clients: the line.
LineRead(k) ==
  /\ Take(k)
  /\ \A i \in 1..(k - 1) : toClient[i] # NL
  /\ (k > 0 /\ toClient[k] = NL) \/ (TaskOver /\ k = Len(toClient))
  /\ IF First(k) = ERR THEN NextPrompt
                       ELSE status' = "size" /\ UNCHANGED <<prompt, fileSize, got, answer>>
  /\ UNCHANGED <<program, disk, spc, sfile, rest, peer, toServer, clientOpen, local, name, target,
                 inGet, flagQuit, refused>>

LEMMA LineReadSync ==
  ASSUME TaskT, StreamT, ClientT, Blocking, InStep, status = "okErr", NEW k \in 0..Len(toClient), LineRead(k)
  PROVE  InStep'
<1>1. /\ toClient \in Seq(Bytes) /\ Len(toClient) \in Nat /\ First(k) \in Seq(Bytes) /\ Len(First(k)) = k
      /\ \A i \in 1..k : First(k)[i] = toClient[i]
      /\ Len(toClient') = Len(toClient) - k /\ toClient' \in Seq(Bytes)
  BY Taken, Numbers DEF StreamT, LineRead
<1>2. TaskStays /\ UNCHANGED <<toServer, peer, target, inGet, name, local, program>>
  BY DEF LineRead, TaskStays
<1>3. CASE Silence
  <2>1. toClient' = <<>> /\ answer' \in {answer, NoAnswer}
    BY <1>1, <1>3, TakeEmpty DEF LineRead, Silence, NextPrompt
  <2> QED
    BY <1>2, <1>3, <2>1, SilenceStays
<1>4. CASE Asked
  BY <1>1, <1>4 DEF Asked, LineRead, TaskOver
<1>5. ASSUME status = "okErr", got = <<>>, NEW reply, Follows(reply), Sent # 1, Sent # 0, reply[1] # NL, reply[2] = NL
      PROVE  k = 2 /\ toClient[1] = reply[1] /\ toClient[2] = NL
  <2>1. Sent = Len(toClient)
    BY <1>1, <1>5 DEF Sent, Base
  <2>2. Len(toClient) >= 2
    BY <1>1, <1>5, <2>1
  <2>3. Base = 0 /\ Len(got) = 0
    BY <1>5 DEF Base
  <2>4. \A i \in 1..Len(toClient) : toClient[i] = reply[i]
    BY <1>1, <1>5, <2>3 DEF Follows
  <2>5. toClient[1] = reply[1] /\ toClient[2] = NL /\ toClient[1] # NL
    BY <1>1, <1>5, <2>2, <2>4
  <2>6. ~(k > 2)
    BY <1>1, <2>5 DEF LineRead
  <2>7. k # 1 /\ k # 0
    BY <1>1, <2>2, <2>5 DEF LineRead
  <2> QED
    BY <1>1, <2>5, <2>6, <2>7
<1>6. CASE Failing
  <2>1. got = <<>> /\ Follows(ERR) /\ Sent \in {0, 2} /\ toServer = <<>> /\ ~inGet /\ target = NoFile
    BY <1>6 DEF Failing, Waiting, Blocking
  <2>2. CASE Sent = 0
    <3>1. Len(toClient) = 0 /\ spc = "err"
      BY <1>1, <1>6, <2>1, <2>2 DEF Failing, Sent, Base
    <3> QED
      BY <1>1, <3>1 DEF LineRead, TaskOver
  <2>3. CASE Sent = 2
    <3>1. Len(toClient) = 2
      BY <1>1, <1>6, <2>1, <2>3 DEF Sent, Base, Failing
    <3>2. k = 2 /\ toClient[1] = ERR[1] /\ toClient[2] = ERR[2]
      BY <1>5, <1>6, <2>1, <2>3, HeadLines DEF Failing
    <3>3. First(k) = ERR
      <4>1. First(k)[1] = ERR[1] /\ First(k)[2] = ERR[2] /\ Len(First(k)) = 2
        BY <1>1, <3>2
      <4> QED
        BY <1>1, <4>1, TwoBytes, Replies, HeadLines
    <3>4. NextPrompt /\ toClient' = <<>>
      BY <1>1, <3>1, <3>2, <3>3 DEF LineRead
    <3>5. spc \in {"time", "line", "returned", "died", "killed"}
      BY <1>6, <2>3 DEF Failing
    <3> QED
      BY <1>2, <2>1, <3>4, <3>5, PromptSync DEF ClientT
  <2> QED
    BY <2>1, <2>2, <2>3
<1>7. ASSUME NEW d \in Contents, Sending(d) PROVE InStep'
  <2>1. got = <<>> /\ Follows(Whole(d)) /\ Sent \in {0, 2} \cup 4..(4 + Len(d)) /\ Len(d) \in Nat \ {0}
        /\ Sent = Len(toClient)
    <3>1. got = <<>> /\ Follows(Whole(d))
      BY <1>7 DEF Sending, Waiting, Blocking
    <3>2. Len(got) = 0 /\ Base = 0
      BY <3>1 DEF Base
    <3>3. Sent = Len(toClient)
      BY <1>1, <3>2 DEF Sent
    <3> QED
      BY <1>7, <3>1, <3>3, SentParts
  <2>2. CASE Sent = 0
    <3>1. TaskOver /\ toClient = <<>> /\ k = 0
      <4>1. Len(toClient) = 0
        BY <2>1, <2>2
      <4>2. k = 0 /\ toClient = <<>>
        BY <1>1, <4>1
      <4> QED
        BY <4>2 DEF LineRead
    <3>2. answer = NoAnswer
      BY <1>7, <2>1, <2>2, <3>1 DEF Sending, TaskOver
    <3>3. toClient' = <<>> /\ answer' \in {answer, NoAnswer}
      BY <1>1, <3>1, TakeEmpty DEF LineRead, NextPrompt
    <3> QED
      BY <1>2, <3>1, <3>2, <3>3, SilenceStays DEF Silence
  <2>3. CASE Sent # 0
    <3>1. k = 2 /\ toClient[1] = OK[1] /\ toClient[2] = NL
      <4>1. Whole(d)[1] # NL /\ Whole(d)[2] = NL /\ Whole(d)[1] = OK[1]
        BY WholeReply, HeadLines
      <4>2. Sent # 1
        <5>1. Sent \in {0, 2} \cup 4..(4 + Len(d)) /\ Len(d) \in Nat
          BY <1>7, SentParts
        <5> QED
          BY <5>1
      <4> QED
        BY <1>5, <2>1, <2>3, <4>1, <4>2
    <3>2. First(k) # ERR
      BY <1>1, <3>1, HeadLines
    <3>3. status' = "size" /\ UNCHANGED <<prompt, fileSize, got, answer>>
      BY <3>2 DEF LineRead
    <3>4. got' = <<>> /\ Base' = Base + Len(got) + k
      BY <2>1, <3>1, <3>3 DEF Base
    <3>5. Sent' = Sent /\ Follows(Whole(d))'
      BY <2>1, <3>4, ReadPart DEF LineRead
    <3>6. Waiting'
      BY <1>2, <1>7, <2>1, <3>3, <3>4 DEF Sending, Waiting
    <3>7. Sending(d)'
      BY <1>2, <1>7, <3>3, <3>5, <3>6 DEF Sending, TaskStays, TaskOver
    <3> QED
      BY <3>7 DEF InStep
  <2> QED
    BY <2>2, <2>3
<1>8. ~Idle
  BY DEF Idle
<1> QED
  BY <1>3, <1>4, <1>6, <1>7, <1>8 DEF InStep

LEMMA ReadLineSync ==
  ASSUME TaskT, StreamT, ClientT, Blocking, ReadLine23 \/ OldReadLine
  PROVE  Keeps
<1>1. status = "okErr"
  BY DEF ReadLine23, OldReadLine
<1>2. CASE ReadLine23
  <2>1. PICK k \in 0..Len(toClient) : LineRead(k)
    BY <1>2 DEF ReadLine23, LineRead, serverVars
  <2> QED
    BY <1>1, <2>1, LineReadSync DEF Keeps, LineRead
<1>3. CASE OldReadLine
  <2>1. PICK k \in 1..Len(toClient) : CloseSocket \/ LineRead(k)
    <3>1. PICK k \in 1..Len(toClient) :
            /\ toClient[k] = NL /\ \A i \in 1..(k - 1) : toClient[i] # NL
            /\ IF First(k) = ERR THEN CloseSocket /\ UNCHANGED status
                                 ELSE Take(k) /\ status' = "size" /\ UNCHANGED <<clientOpen, peer>>
      BY <1>3 DEF OldReadLine
    <3>2. k > 0
      BY Numbers
    <3>3. UNCHANGED <<program, disk, spc, sfile, rest, toServer, local, name, fileSize, got,
                      target, inGet, flagQuit, prompt, refused, answer>>
      BY <1>3 DEF OldReadLine
    <3>4. CASE First(k) = ERR
      BY <3>1, <3>4
    <3>5. CASE First(k) # ERR
      BY <3>1, <3>2, <3>3, <3>5 DEF LineRead
    <3> QED
      BY <3>4, <3>5
  <2>2. k \in 0..Len(toClient)
    BY Numbers
  <2>3. CASE CloseSocket
    BY <2>3 DEF CloseSocket, Keeps
  <2>4. CASE LineRead(k)
    BY <1>1, <2>2, <2>4, LineReadSync DEF Keeps, LineRead
  <2> QED
    BY <2>1, <2>3, <2>4
<1> QED
  BY <1>2, <1>3

LEMMA GoneKeeps ==
  ASSUME clientOpen' = FALSE
  PROVE  Keeps
BY DEF Keeps

\* The bytes of the size are all there, or none of them because the server has ended.
LEMMA SizeThere ==
  ASSUME TaskT, StreamT, ClientT, NEW d \in Contents, Sending(d), status = "size", got = <<>>, NEW k \in 0..Len(toClient),
         k = 2 \/ (TaskOver /\ k = Len(toClient) /\ k < 2)
  PROVE  \/ k = 2 /\ First(2) = Size(Len(d))
         \/ k = 0 /\ toClient = <<>> /\ answer = NoAnswer /\ TaskOver
<1>1. /\ toClient \in Seq(Bytes) /\ Len(toClient) \in Nat /\ First(k) \in Seq(Bytes) /\ Len(First(k)) = k
      /\ \A i \in 1..k : First(k)[i] = toClient[i]
  BY Taken, Numbers DEF StreamT
<1>2. Base = 2 /\ Len(got) = 0
  BY DEF Base
<1>3. Sent = 2 + Len(toClient) /\ Sent \in {0, 2} \cup 4..(4 + Len(d)) /\ Len(d) \in Nat \ {0}
  BY <1>1, <1>2, SentParts DEF Sent
<1>4. Len(toClient) = 0 \/ Len(toClient) >= 2
  BY <1>1, <1>3
<1>5. CASE k = 2
  <2>1. \A i \in 1..Len(toClient) : toClient[i] = Whole(d)[2 + i]
    <3>1. \A i \in 1..Len(toClient) : toClient[i] = Whole(d)[Base + Len(got) + i]
      BY DEF Sending, Follows
    <3> QED
      BY <1>1, <1>2, <3>1
  <2>2. toClient[1] = Whole(d)[3] /\ toClient[2] = Whole(d)[4]
    BY <1>1, <1>5, <2>1
  <2>3. First(2)[1] = Size(Len(d))[1] /\ First(2)[2] = Size(Len(d))[2]
    BY <1>1, <1>5, <2>2, WholeReply
  <2> DEFINE b == First(2)
             z == Size(Len(d))
  <2>4. /\ b \in Seq(Bytes) /\ z \in Seq(Bytes) /\ Len(b) = 2 /\ Len(z) = 2 /\ b[1] = z[1] /\ b[2] = z[2]
    BY <1>1, <1>5, <2>3, Replies, HeadLines
  <2> HIDE DEF b, z
  <2>5. b = z
    BY <2>4, TwoBytes
  <2> QED
    BY <1>5, <2>5 DEF b, z
<1>6. CASE TaskOver /\ k = Len(toClient) /\ k < 2
  <2>1. Len(toClient) = 0
    BY <1>1, <1>4, <1>6
  <2>2. toClient = <<>> /\ k = 0
    BY <1>1, <1>6, <2>1
  <2>3. Sent = 2
    BY <1>3, <2>1
  <2>4. answer = NoAnswer
    BY <1>3, <1>6, <2>3 DEF Sending, TaskOver
  <2> QED
    BY <1>6, <2>2, <2>4
<1> QED
  BY <1>5, <1>6

LEMMA ReadSizeSync ==
  ASSUME TaskT, StreamT, ClientT, Blocking, ReadSize23 \/ OldReadSize
  PROVE  Keeps
<1>1. status = "size" /\ prompt = FALSE /\ name \in Files
  BY BlockingState DEF ReadSize23, OldReadSize
<1>2. PICK k \in 0..Len(toClient) : /\ k = 2 \/ (TaskOver /\ k = Len(toClient) /\ k < 2)
                                    /\ Take(k) /\ fileSize' \in Decoded(First(k))
  <2>1. CASE ReadSize23
    <3>1. PICK k \in 0..Lesser(2, Len(toClient)) : /\ k = 2 \/ (TaskOver /\ k = Len(toClient))
                                                   /\ Take(k) /\ fileSize' \in Decoded(First(k))
      BY <2>1 DEF ReadSize23
    <3>2. k \in 0..Len(toClient) /\ k <= 2
      BY Numbers DEF Lesser
    <3> QED
      BY <3>1, <3>2
  <2>2. CASE OldReadSize
    <3>1. 2 \in 0..Len(toClient)
      BY <2>2, Numbers DEF OldReadSize
    <3> QED
      BY <2>2, <3>1 DEF OldReadSize
  <2> QED
    BY <2>1, <2>2
<1>3. /\ status' = "file" /\ got' = <<>> /\ local' = [local EXCEPT ![name] = <<>>]
      /\ UNCHANGED <<program, toServer, clientOpen, peer, name, target, inGet, flagQuit, prompt, refused, answer>>
      /\ TaskStays
  BY DEF ReadSize23, OldReadSize, serverVars, TaskStays
<1>4. local'[name] = <<>>
  BY <1>1, <1>3 DEF ClientT
<1>5. CASE Silence
  <2>1. toClient' = <<>>
    BY <1>2, <1>5, TakeEmpty DEF Silence
  <2> QED
    BY <1>3, <1>5, <2>1, SilenceStays DEF Keeps
<1>6. ASSUME NEW d \in Contents, Sending(d) PROVE InStep'
  <2>1. got = <<>>
    BY <1>1, <1>6 DEF Sending, Waiting, Blocking
  <2>2. CASE k = 0 /\ toClient = <<>> /\ answer = NoAnswer /\ TaskOver
    <3>1. toClient' = <<>>
      BY <1>2, <2>2, TakeEmpty
    <3> QED
      BY <1>3, <2>2, <3>1, SilenceStays DEF Silence
  <2>3. CASE k = 2 /\ First(2) = Size(Len(d))
    <3>1. fileSize' = Len(d)
      BY <1>2, <2>3, SizeRead, Replies
    <3>2. Base' = Base + Len(got) + k
      BY <1>1, <1>3, <2>1, <2>3 DEF Base
    <3>3. Sent' = Sent /\ Follows(Whole(d)) /\ (\A reply : Follows(reply) => Follows(reply)')
      BY <1>2, <1>3, <1>6, <3>2, ReadPart DEF Sending
    <3>4. Waiting'
      BY <1>1, <1>3, <1>4, <1>6 DEF Sending, Waiting, Blocking
    <3>5. Sending(d)'
      BY <1>3, <1>6, <3>1, <3>3, <3>4 DEF Sending, TaskStays, TaskOver
    <3> QED
      BY <3>5 DEF InStep
  <2> QED
    BY <1>1, <1>2, <1>6, <2>1, <2>2, <2>3, SizeThere
<1>7. ~Idle /\ ~Asked /\ ~Failing
  BY <1>1 DEF Idle, Asked, Failing
<1> QED
  BY <1>3, <1>5, <1>6, <1>7 DEF Keeps, InStep

LEMMA ReadChunkSync ==
  ASSUME TaskT, StreamT, ClientT, Blocking, ReadChunk
  PROVE  Keeps
<1>1. status = "file" /\ prompt = FALSE /\ name \in Files
  BY BlockingState DEF ReadChunk
<1>2. PICK k \in 0..Len(toClient) :
        Take(k) /\ got' = got \o First(k) /\ local' = [local EXCEPT ![name] = @ \o First(k)]
  <2> DEFINE k == Lesser(fileSize - Len(got), ChunkSize)
  <2>1. /\ fileSize - Len(got) > 0 /\ Len(toClient) >= k
        /\ Take(k) /\ got' = got \o First(k) /\ local' = [local EXCEPT ![name] = @ \o First(k)]
    BY DEF ReadChunk
  <2>2. k \in 0..Len(toClient)
    BY <2>1, Numbers DEF Lesser
  <2> QED
    BY <2>1, <2>2
<1>3. /\ UNCHANGED <<program, toServer, clientOpen, peer, name, status, fileSize, target, inGet,
                     flagQuit, prompt, refused, answer>> /\ TaskStays
  BY DEF ReadChunk, serverVars, TaskStays
<1>4. CASE Silence
  <2>1. toClient' = <<>>
    BY <1>2, <1>4, TakeEmpty DEF Silence
  <2> QED
    BY <1>3, <1>4, <2>1, SilenceStays DEF Keeps
<1>5. ASSUME NEW d \in Contents, Sending(d) PROVE InStep'
  <2>1. Sent' = Sent /\ Follows(Whole(d)) /\ (\A reply : Follows(reply) => Follows(reply)')
    BY <1>2, <1>3, <1>5, ReadMore DEF Sending
  <2>2. local[name] = got
    BY <1>1, <1>5 DEF Sending, Waiting, Blocking
  <2>3. local'[name] = got'
    BY <1>1, <1>2, <2>2 DEF ClientT
  <2>4. Waiting'
    BY <1>1, <1>3, <1>5, <2>3 DEF Sending, Waiting, Blocking
  <2>5. Sending(d)'
    BY <1>3, <1>5, <2>1, <2>4 DEF Sending, TaskStays, TaskOver
  <2> QED
    BY <2>5 DEF InStep
<1>6. ~Idle /\ ~Asked /\ ~Failing
  BY <1>1 DEF Idle, Asked, Failing
<1> QED
  BY <1>3, <1>4, <1>5, <1>6 DEF Keeps, InStep

LEMMA FileDoneSync ==
  ASSUME TaskT, StreamT, ClientT, Blocking, FileDone23 \/ OldFileDone
  PROVE  Keeps
<1>1. /\ status = "file" /\ fileSize <= Len(got) /\ NextPrompt /\ TaskStays
      /\ UNCHANGED <<toServer, toClient, clientOpen, peer, target, inGet, refused>>
  BY DEF FileDone23, OldFileDone, TaskStays, serverVars
<1>2. CASE Silence
  <2>1. toClient' = <<>> /\ answer' \in {answer, NoAnswer}
    BY <1>1, <1>2 DEF Silence, NextPrompt
  <2> QED
    BY <1>1, <1>2, <2>1, SilenceStays DEF Keeps
<1>3. ASSUME NEW d \in Contents, Sending(d) PROVE InStep'
  <2>1. Len(toClient) \in Nat /\ 0 \in 0..Len(toClient) /\ Len(got) + 0 >= Len(d)
    BY <1>1, <1>3, Numbers, WholeReply DEF Sending
  <2>2. 0 = Len(toClient) /\ spc \in {"time", "line", "returned", "died", "killed"} /\ toServer = <<>>
    BY <1>1, <1>3, <2>1, AllRead
  <2>3. toClient = <<>>
    BY <2>2 DEF StreamT
  <2>4. inGet' = FALSE /\ target' = NoFile
    BY <1>1, <1>3 DEF Sending, Waiting, Blocking, ClientT
  <2> QED
    BY <1>1, <2>2, <2>3, <2>4, PromptSync
<1>4. ~Idle /\ ~Asked /\ ~Failing
  BY <1>1 DEF Idle, Asked, Failing
<1> QED
  BY <1>1, <1>2, <1>3, <1>4 DEF Keeps, InStep

LEMMA GetSync ==
  ASSUME TaskT, StreamT, ClientT, NEW f \in Files,
         Get23(f) \/ OldSendGet(f) \/ Get32(f) \/ StdinputLiberoGet(f)
  PROVE  Keeps
<1>1. /\ prompt /\ SendGet(f) /\ TaskStays
      /\ UNCHANGED <<peer, toClient, program, clientOpen, local, fileSize, target, flagQuit, refused>>
      /\ status = "init" /\ ~inGet /\ got = <<>> => status' = "okErr" /\ got' = <<>> /\ inGet' = FALSE
  BY DEF Get23, OldSendGet, Get32, StdinputLiberoGet, serverVars, TaskStays, ClientT
<1>2. prompt' = FALSE /\ answer' = NoAnswer /\ toServer' = Append(toServer, f)
  BY <1>1 DEF SendGet
<1>3. CASE Silence
  <2>1. toClient' = <<>> /\ answer' \in {answer, NoAnswer}
    BY <1>1, <1>2, <1>3 DEF Silence
  <2> QED
    BY <1>1, <1>3, <2>1, SilenceStays DEF Keeps
<1>4. CASE Idle
  <2>1. status' = "okErr" /\ got' = <<>> /\ inGet' = FALSE /\ target' = NoFile
    BY <1>1, <1>4 DEF Idle
  <2>2. Len(got') = 0
    BY <2>1
  <2>3. Waiting'
    BY <1>2, <2>1, <2>2 DEF Waiting
  <2>4. Len(toServer') = 1
    BY <1>2, <1>4 DEF Idle
  <2>5. Asked'
    BY <1>1, <1>2, <1>4, <2>1, <2>3, <2>4 DEF Asked, Idle, TaskStays
  <2> QED
    BY <1>1, <2>5 DEF Keeps, InStep
<1>5. ~Waiting
  BY <1>1 DEF Waiting
<1> QED
  BY <1>1, <1>3, <1>4, <1>5 DEF Keeps, InStep, Asked, Failing, Sending

\* The select-driven clients do not meet the end of the stream within the header.
LEMMA Arrived ==
  ASSUME TaskT, StreamT, ClientT, InStep, ~Silence, status \in {"okErr", "size"}, toClient # <<>> \/ AtEnd
  PROVE  toClient # <<>> /\ ((Failing /\ status = "okErr") \/ \E d \in Contents : Sending(d))
<1>1. SUFFICES ASSUME toClient = <<>>, TaskOver PROVE FALSE
  BY DEF AtEnd, InStep, Idle, Asked, Failing
<1>2. Len(toClient) = 0 /\ Len(got) \in Nat /\ (Waiting => Len(got) <= 1)
  BY <1>1, Numbers DEF Waiting
<1>3. CASE Idle \/ Asked
  BY <1>1, <1>3 DEF Idle, Asked, TaskOver
<1>4. CASE Failing
  <2>1. Sent = Len(got) /\ Len(got) <= 1
    BY <1>2, <1>4 DEF Failing, Sent, Base
  <2>2. Sent = 2
    BY <1>1, <1>4 DEF Failing, TaskOver
  <2> QED
    BY <2>1, <2>2
<1>5. ASSUME NEW d \in Contents, Sending(d) PROVE FALSE
  <2>1. Sent \in {0, 2} \cup 4..(4 + Len(d)) /\ Len(d) \in Nat \ {0}
    BY <1>5, SentParts
  <2>2. Sent \in {Len(got), 2 + Len(got)} /\ Len(got) <= 1
    BY <1>2, <1>5 DEF Sending, Sent, Base
  <2>3. Sent # 4 + Len(d)
    BY <1>2, <2>1, <2>2
  <2>4. answer = NoAnswer
    BY <1>1, <1>5, <2>3 DEF Sending, TaskOver
  <2> QED
    BY <1>1, <2>4 DEF Silence
<1> QED
  BY <1>3, <1>4, <1>5 DEF InStep

LEMMA FirstByte ==
  ASSUME StreamT, toClient # <<>>
  PROVE  /\ 1 \in 0..Len(toClient) /\ Len(toClient) >= 1 /\ Head(toClient) = toClient[1] /\ Len(First(1)) = 1
         /\ First(1)[1] = toClient[1] /\ First(1) \in Seq(Bytes) /\ Lesser(1, Len(toClient)) = 1
<1>1. toClient \in Seq(Bytes) /\ Len(toClient) \in Nat \ {0} /\ Head(toClient) = toClient[1]
  BY DEF StreamT
<1>2. 1 \in 0..Len(toClient) /\ Len(toClient) >= 1 /\ 1 \in 1..1
  BY <1>1
<1>3. Lesser(1, Len(toClient)) = 1
  <2>1. ASSUME NEW n \in Nat \ {0} PROVE (IF 1 < n THEN 1 ELSE n) = 1
    BY <2>1
  <2> QED
    BY <1>1, <2>1 DEF Lesser
<1> QED
  BY <1>1, <1>2, <1>3, Taken

\* The next byte of the line.
LEMMA LineByte ==
  ASSUME StreamT, ClientT, status = "okErr", toClient # <<>>, Len(got) <= 1, NEW reply, Follows(reply),
         reply[1] # NL, reply[2] = NL
  PROVE  /\ Head(toClient) # NL => got = <<>>
         /\ Head(toClient) = NL => /\ Len(got) = 1 /\ Len(got \o First(1)) = 2 /\ got \o First(1) \in Seq(Bytes)
                                   /\ (got \o First(1))[1] = reply[1] /\ (got \o First(1))[2] = reply[2]
<1>1. Base = 0 /\ Len(got) \in Nat /\ got \in Seq(Bytes) /\ Len(got) \in {0, 1}
  <2>1. Base = 0 /\ Len(got) \in Nat /\ got \in Seq(Bytes)
    BY Numbers DEF Base, ClientT
  <2>2. ASSUME NEW n \in Nat, n <= 1 PROVE n \in {0, 1}
    BY <2>2
  <2> QED
    BY <2>1, <2>2
<1>2. toClient[1] = reply[Len(got) + 1] /\ (Len(got) = 1 => got[1] = reply[1])
  <2>1. 1 \in 1..Len(toClient)
    BY FirstByte, Numbers
  <2>2. toClient[1] = reply[Base + Len(got) + 1] /\ \A i \in 1..Len(got) : got[i] = reply[Base + i]
    BY <2>1 DEF Follows
  <2> QED
    BY <1>1, <2>2
<1>3. CASE Len(got) = 0
  <2>1. Head(toClient) = reply[1] /\ got = <<>>
    BY <1>1, <1>2, <1>3, FirstByte
  <2> QED
    BY <2>1
<1>4. CASE Len(got) = 1
  <2> DEFINE b == First(1)
  <2>1. b \in Seq(Bytes) /\ Len(b) = 1 /\ b[1] = toClient[1] /\ Head(toClient) = toClient[1]
    BY FirstByte
  <2> HIDE DEF b
  <2>2. /\ Len(got \o b) = 2 /\ got \o b \in Seq(Bytes)
        /\ (got \o b)[1] = got[1] /\ (got \o b)[2] = b[1]
    <3>1. /\ got \o b \in Seq(Bytes) /\ Len(got \o b) = Len(got) + Len(b)
          /\ \A i \in 1..Len(got) : (got \o b)[i] = got[i]
          /\ \A i \in 1..Len(b) : (got \o b)[Len(got) + i] = b[i]
      BY <1>1, <2>1, Joint
    <3>2. 1 \in 1..Len(got) /\ 1 \in 1..Len(b) /\ Len(got) + 1 = 2
      BY <1>4, <2>1
    <3> QED
      BY <1>4, <2>1, <3>1, <3>2
  <2>3. Head(toClient) = NL /\ toClient[1] = reply[2] /\ got[1] = reply[1]
    BY <1>2, <1>4, <2>1
  <2> QED
    BY <1>4, <2>1, <2>2, <2>3 DEF b
<1> QED
  BY <1>1, <1>3, <1>4

\* What a read leaves alone.
Rest == UNCHANGED <<program, disk, spc, sfile, rest, toServer, name>>

LEMMA LineMoreSync ==
  ASSUME TaskT, StreamT, ClientT, Driven, Failing \/ \E d \in Contents : Sending(d), status = "okErr", got = <<>>,
         toClient # <<>>, Take(1), got' = got \o First(1), Rest,
         UNCHANGED <<status, prompt, target, local, fileSize, answer>>, inGet' = FALSE
  PROVE  InStep'
<1>1. Sent' = Sent /\ \A reply : Follows(reply) => Follows(reply)'
  BY FirstByte, ReadMore
<1>2. Len(got') <= 1
  BY FirstByte, Joint
<1>3. Waiting => Waiting'
  BY <1>2 DEF Waiting, Rest, Driven
<1>4. CASE Failing
  BY <1>1, <1>3, <1>4 DEF Failing, Rest, InStep
<1>5. ASSUME NEW d \in Contents, Sending(d) PROVE InStep'
  <2>1. Sending(d)'
    BY <1>1, <1>3, <1>5 DEF Sending, Rest, TaskOver
  <2> QED
    BY <2>1 DEF InStep
<1> QED
  BY <1>4, <1>5

LEMMA LineEndSync ==
  ASSUME TaskT, StreamT, ClientT, Driven, NEW d \in Contents, Sending(d), status = "okErr", Len(got) = 1,
         toClient # <<>>, Take(1), got' = <<>>, status' = "size", Rest,
         UNCHANGED <<prompt, target, local, fileSize, answer>>, inGet' = FALSE
  PROVE  InStep'
<1>1. Base' = Base + Len(got) + 1 /\ Len(got') = 0
  BY DEF Base
<1>2. Sent' = Sent /\ \A reply : Follows(reply) => Follows(reply)'
  BY <1>1, FirstByte, ReadPart
<1>3. Waiting'
  <2>1. ~prompt /\ target = NoFile
    BY DEF Sending, Waiting
  <2>2. ~prompt' /\ ~inGet' /\ status' # "init" /\ status' # "file" /\ target' = NoFile /\ Len(got') <= 1 /\ got' = <<>>
    BY <1>1, <2>1
  <2> QED
    BY <2>2 DEF Waiting
<1>4. Sending(d)'
  BY <1>2, <1>3 DEF Sending, Rest, TaskOver
<1> QED
  BY <1>4 DEF InStep

LEMMA LineParts ==
  ASSUME TaskT, StreamT, ClientT, status = "okErr", toClient # <<>>
  PROVE  /\ Failing => /\ Head(toClient) # NL => got = <<>>
                       /\ Head(toClient) = NL => got \o First(1) = ERR
         /\ \A d \in Contents : Sending(d) => /\ Head(toClient) # NL => got = <<>>
                                              /\ Head(toClient) = NL => Len(got) = 1 /\ got \o First(1) # ERR
<1>1. ASSUME Failing
      PROVE  /\ Head(toClient) # NL => got = <<>>
             /\ Head(toClient) = NL => got \o First(1) = ERR
  <2>1. Len(got) <= 1 /\ Follows(ERR)
    BY <1>1 DEF Failing, Waiting
  <2>2. Head(toClient) # NL => got = <<>>
    BY <2>1, LineByte, HeadLines
  <2>3. Head(toClient) = NL => got \o First(1) = ERR
    <3> DEFINE b == got \o First(1)
    <3>1. Head(toClient) = NL => b \in Seq(Bytes) /\ Len(b) = 2 /\ b[1] = ERR[1] /\ b[2] = ERR[2]
      BY <2>1, LineByte, HeadLines
    <3> HIDE DEF b
    <3>2. Head(toClient) = NL => b = ERR
      BY <3>1, TwoBytes, Replies, HeadLines
    <3> QED
      BY <3>2 DEF b
  <2> QED
    BY <1>1, <2>2, <2>3
<1>2. ASSUME NEW d \in Contents, Sending(d)
      PROVE  /\ Head(toClient) # NL => got = <<>>
             /\ Head(toClient) = NL => Len(got) = 1 /\ got \o First(1) # ERR
  <2>1. Len(got) <= 1 /\ Follows(Whole(d)) /\ Whole(d)[1] = OK[1] /\ Whole(d)[2] = NL
    BY <1>2, WholeReply DEF Sending, Waiting
  <2>2. /\ Head(toClient) # NL => got = <<>>
        /\ Head(toClient) = NL => Len(got) = 1 /\ (got \o First(1))[1] = OK[1]
    BY <2>1, LineByte, HeadLines
  <2> QED
    BY <2>2, HeadLines
<1> QED
  BY <1>1, <1>2

LEMMA FreeSocketLineSync ==
  ASSUME TaskT, StreamT, ClientT, Driven, FreeSocketLine
  PROVE  Keeps
<1> DEFINE k == Lesser(1, Len(toClient))
           line == got \o First(k)
<1>1. /\ status = "okErr" /\ (toClient # <<>> \/ AtEnd) /\ clientOpen
      /\ inGet' = FALSE /\ Take(k) /\ Rest
      /\ UNCHANGED <<clientOpen, peer, local, fileSize, target, flagQuit, answer>>
  BY DEF FreeSocketLine, Reading, In32, serverVars, Rest
<1>2. IF k = 1 /\ Head(toClient) # NL
        THEN got' = line /\ UNCHANGED <<status, prompt, refused>>
      ELSE IF line = ERR
        THEN got' = line /\ prompt' = TRUE /\ refused' = TRUE /\ UNCHANGED status
      ELSE got' = <<>> /\ status' = "size" /\ UNCHANGED <<prompt, refused>>
  BY DEF FreeSocketLine
<1> HIDE DEF k, line
<1>3. ASSUME InStep PROVE refused' \/ InStep'
  <2>1. CASE Silence
    <3>1. k = 0
      BY <2>1, Numbers DEF Silence, k, Lesser
    <3>2. toClient' = <<>>
      BY <1>1, <2>1, <3>1, TakeEmpty DEF Silence
    <3> QED
      BY <1>1, <2>1, <3>2, SilenceStays DEF Rest, TaskStays
  <2>2. CASE ~Silence
    <3>1. toClient # <<>> /\ (Failing \/ \E d \in Contents : Sending(d))
      BY <1>1, <1>3, <2>2, Arrived
    <3>2. k = 1 /\ line = got \o First(1)
      BY <3>1, FirstByte DEF k, line
    <3>3. CASE Head(toClient) # NL
      <4>1. got = <<>>
        BY <1>1, <3>1, <3>3, LineParts
      <4>2. got' = got \o First(1) /\ UNCHANGED <<status, prompt>>
        BY <1>2, <3>2, <3>3
      <4> QED
        BY <1>1, <3>1, <3>2, <4>1, <4>2, LineMoreSync
    <3>4. CASE Head(toClient) = NL
      <4>1. CASE Failing
        BY <1>1, <1>2, <3>1, <3>2, <3>4, <4>1, LineParts
      <4>2. ASSUME NEW d \in Contents, Sending(d) PROVE InStep'
        <5>1. Len(got) = 1 /\ line # ERR
          BY <1>1, <3>1, <3>2, <3>4, <4>2, LineParts
        <5>2. got' = <<>> /\ status' = "size" /\ UNCHANGED prompt
          BY <1>2, <3>4, <5>1
        <5> QED
          BY <1>1, <3>1, <3>2, <4>2, <5>1, <5>2, LineEndSync
      <4> QED
        BY <3>1, <4>1, <4>2
    <3> QED
      BY <3>3, <3>4
  <2> QED
    BY <2>1, <2>2
<1>4. refused => refused'
  BY <1>2
<1> QED
  BY <1>1, <1>3, <1>4 DEF Keeps

LEMMA SocketLibero1Sync ==
  ASSUME TaskT, StreamT, ClientT, Driven, SocketLibero1
  PROVE  Keeps
<1> DEFINE line == got \o First(Lesser(1, Len(toClient)))
<1>1. /\ status = "okErr" /\ (toClient # <<>> \/ AtEnd) /\ clientOpen
      /\ inGet' = FALSE /\ Rest
      /\ UNCHANGED <<local, fileSize, target, flagQuit, prompt, refused, answer>>
  BY DEF SocketLibero1, Libero, Rest
<1>2. \/ CloseSocket
      \/ /\ toClient # <<>> /\ line # ERR /\ Take(1) /\ UNCHANGED <<clientOpen, peer>>
         /\ IF Head(toClient) = NL THEN status' = "size" /\ got' = <<>>
                                   ELSE got' = line /\ UNCHANGED status
  BY DEF SocketLibero1
<1> HIDE DEF line
<1>3. CASE CloseSocket
  BY <1>3, GoneKeeps DEF CloseSocket
<1>4. CASE /\ toClient # <<>> /\ line # ERR /\ Take(1) /\ UNCHANGED <<clientOpen, peer>>
           /\ IF Head(toClient) = NL THEN status' = "size" /\ got' = <<>>
                                     ELSE got' = line /\ UNCHANGED status
  <2>1. line = got \o First(1)
    BY <1>4, FirstByte DEF line
  <2>2. ASSUME InStep PROVE InStep'
    <3>1. Failing \/ \E d \in Contents : Sending(d)
      BY <1>1, <1>4, <2>2, Arrived DEF Silence
    <3>2. CASE Head(toClient) # NL
      <4>1. got = <<>>
        BY <1>1, <1>4, <3>1, <3>2, LineParts
      <4> QED
        BY <1>1, <1>4, <2>1, <3>1, <3>2, <4>1, LineMoreSync
    <3>3. CASE Head(toClient) = NL
      <4>1. ~Failing
        BY <1>1, <1>4, <2>1, <3>3, LineParts
      <4>2. ASSUME NEW d \in Contents, Sending(d) PROVE InStep'
        <5>1. Len(got) = 1
          BY <1>1, <1>4, <3>3, <4>2, LineParts
        <5> QED
          BY <1>1, <1>4, <3>3, <4>2, <5>1, LineEndSync
      <4> QED
        BY <3>1, <4>1, <4>2
    <3> QED
      BY <3>2, <3>3
  <2> QED
    BY <1>1, <1>4, <2>2 DEF Keeps
<1> QED
  BY <1>2, <1>3, <1>4

\* A read that was not asked for: of the end of the stream only.
LEMMA InitReadSync ==
  ASSUME FreeSocketInit \/ SocketLibero0
  PROVE  Keeps
<1>1. /\ status = "init" /\ (toClient # <<>> \/ AtEnd) /\ Rest
      /\ UNCHANGED <<toClient, clientOpen, peer, refused, answer>> /\ clientOpen
  BY DEF FreeSocketInit, SocketLibero0, Reading, In32, Libero, serverVars, Rest
<1>2. CASE Silence
  <2>1. toClient' = <<>> /\ TaskStays
    BY <1>1, <1>2 DEF Silence, Rest, TaskStays
  <2> QED
    BY <1>1, <1>2, <2>1, SilenceStays DEF Keeps
<1>3. ~Idle
  BY <1>1 DEF Idle, AtEnd, TaskOver
<1>4. ~Waiting
  BY <1>1 DEF Waiting
<1> QED
  BY <1>1, <1>2, <1>3, <1>4 DEF Keeps, InStep, Asked, Failing, Sending

\* What has been read of a part, with the next k bytes.
LEMMA SoFar ==
  ASSUME StreamT, ClientT, NEW k \in 0..Len(toClient), NEW reply, Follows(reply)
  PROVE  /\ got \o First(k) \in Seq(Bytes) /\ Len(got \o First(k)) = Len(got) + k
         /\ \A i \in 1..(Len(got) + k) : (got \o First(k))[i] = reply[Base + i]
<1> DEFINE b == First(k)
<1>1. /\ got \in Seq(Bytes) /\ b \in Seq(Bytes) /\ Len(b) = k /\ Len(toClient) \in Nat /\ Len(got) \in Nat
      /\ \A i \in 1..k : b[i] = toClient[i]
  BY Taken, Numbers DEF ClientT
<1> HIDE DEF b
<1>2. /\ got \o b \in Seq(Bytes) /\ Len(got \o b) = Len(got) + Len(b)
      /\ \A i \in 1..Len(got) : (got \o b)[i] = got[i]
      /\ \A i \in 1..Len(b) : (got \o b)[Len(got) + i] = b[i]
      /\ \A i \in 1..(Len(got) + Len(b)) : i \in 1..Len(got) \/ \E j \in 1..Len(b) : i = Len(got) + j
  BY <1>1, Joint
<1>3. Base \in Nat
  BY DEF Base
<1>4. ASSUME NEW i \in 1..(Len(got) + k) PROVE (got \o b)[i] = reply[Base + i]
  <2>1. CASE i \in 1..Len(got)
    BY <1>2, <2>1 DEF Follows
  <2>2. CASE \E j \in 1..k : i = Len(got) + j
    <3>1. PICK j \in 1..k : i = Len(got) + j
      BY <2>2
    <3>2. j \in 1..Len(toClient) /\ Base + Len(got) + j = Base + i
      BY <1>1, <1>3, <3>1
    <3>3. (got \o b)[i] = b[j] /\ b[j] = toClient[j]
      BY <1>1, <1>2, <3>1
    <3>4. toClient[j] = reply[Base + Len(got) + j]
      BY <3>2 DEF Follows
    <3> QED
      BY <3>2, <3>3, <3>4
  <2> QED
    BY <1>1, <1>2, <2>1, <2>2
<1> QED
  BY <1>1, <1>2, <1>4 DEF b

LEMMA SizeBytes ==
  ASSUME StreamT, ClientT, NEW k \in 0..Len(toClient), NEW d \in Contents, Follows(Whole(d)), status = "size",
         Len(got) + k = 2
  PROVE  got \o First(k) = Size(Len(d))
<1> DEFINE b == got \o First(k)
           z == Size(Len(d))
<1>1. Base = 2
  BY DEF Base
<1>2. b \in Seq(Bytes) /\ Len(b) = 2 /\ b[1] = Whole(d)[3] /\ b[2] = Whole(d)[4]
  <2> DEFINE w == Whole(d)
  <2>1. b \in Seq(Bytes) /\ Len(b) = Len(got) + k /\ \A i \in 1..(Len(got) + k) : b[i] = Whole(d)[Base + i]
    BY SoFar
  <2>2. Len(b) = 2 /\ \A i \in 1..2 : b[i] = w[2 + i]
    BY <1>1, <2>1
  <2> HIDE DEF b, w
  <2>3. b[1] = w[3] /\ b[2] = w[4]
    <3>1. 1 \in 1..2 /\ 2 \in 1..2 /\ 2 + 1 = 3 /\ 2 + 2 = 4
      OBVIOUS
    <3>2. b[1] = w[2 + 1] /\ b[2] = w[2 + 2]
      BY <2>2, <3>1
    <3> QED
      BY <3>1, <3>2
  <2> QED
    BY <2>1, <2>2, <2>3 DEF w
<1>3. z \in Seq(Bytes) /\ Len(z) = 2 /\ b[1] = z[1] /\ b[2] = z[2]
  BY <1>2, WholeReply, Replies, HeadLines
<1> HIDE DEF b, z
<1>4. b = z
  BY <1>2, <1>3, TwoBytes
<1> QED
  BY <1>4 DEF b, z

LEMMA SizeMoreSync ==
  ASSUME TaskT, StreamT, ClientT, Driven, NEW d \in Contents, Sending(d), status = "size",
         NEW k \in 0..Len(toClient), Len(got) + k < 2, Take(k), got' = got \o First(k), Rest,
         UNCHANGED <<status, prompt, target, local, fileSize, answer>>, inGet' = FALSE
  PROVE  InStep'
<1>1. Sent' = Sent /\ \A reply : Follows(reply) => Follows(reply)'
  BY ReadMore
<1>2. Len(got') <= 1
  <2>1. Len(got') = Len(got) + k /\ Len(got) + k \in Nat
    BY SoFar, Numbers DEF Sending
  <2> QED
    BY <2>1
<1>3. Waiting'
  BY <1>2 DEF Sending, Waiting, Rest, Driven
<1>4. Sending(d)'
  BY <1>1, <1>3 DEF Sending, Rest, TaskOver
<1> QED
  BY <1>4 DEF InStep

\* labs/3.2 opens the file with its first bytes, labs/old/3.2 with the size.
Opens ==
  \/ program = "3.2" /\ UNCHANGED target
  \/ program = "old 3.2" /\ target' = name /\ local'[name] = <<>>

LEMMA SizeEndSync ==
  ASSUME TaskT, StreamT, ClientT, NEW d \in Contents, Sending(d), status = "size",
         NEW k \in 0..Len(toClient), Len(got) + k = 2, Take(k), fileSize' \in Decoded(got \o First(k)),
         got' = <<>>, status' = "file", Rest, UNCHANGED <<prompt, answer>>, inGet' = FALSE, Opens
  PROVE  InStep'
<1>1. fileSize' = Len(d)
  <2>1. got \o First(k) = Size(Len(d)) /\ Len(d) \in Sizes
    BY SizeBytes, Replies DEF Sending
  <2> QED
    BY <2>1, SizeRead
<1>2. Base' = Base + Len(got) + k
  <2>1. Base = 2 /\ Base' = 4
    BY DEF Base
  <2>2. Len(got) \in Nat /\ Len(toClient) \in Nat
    BY Numbers
  <2> QED
    BY <2>1, <2>2
<1>3. Sent' = Sent /\ \A reply : Follows(reply) => Follows(reply)'
  BY <1>2, ReadPart
<1>4. Waiting'
  BY DEF Sending, Waiting, Rest, Opens
<1>5. Sending(d)'
  BY <1>1, <1>3, <1>4 DEF Sending, Rest, TaskOver
<1> QED
  BY <1>5 DEF InStep

\* While the size is read, the server sends a file.
LEMMA SizeArrived ==
  ASSUME TaskT, StreamT, ClientT, InStep, ~Silence, status = "size", toClient # <<>> \/ AtEnd
  PROVE  toClient # <<>> /\ \E d \in Contents : Sending(d)
BY Arrived

LEMMA FreeSocketSizeSync ==
  ASSUME TaskT, StreamT, ClientT, Driven, FreeSocketSize
  PROVE  Keeps
<1>1. /\ status = "size" /\ (toClient # <<>> \/ AtEnd) /\ clientOpen /\ program = "3.2"
      /\ inGet' = FALSE /\ Rest
      /\ UNCHANGED <<clientOpen, peer, local, target, prompt, refused, answer>>
  BY DEF FreeSocketSize, Reading, In32, serverVars, Rest
<1>2. PICK k \in 0..Lesser(2 - Len(got), Len(toClient)) :
        /\ k = 0 => AtEnd
        /\ Take(k)
        /\ IF k = 0 \/ Len(got) + k = 2
             THEN got' = <<>> /\ status' = "file" /\ fileSize' \in Decoded(got \o First(k))
             ELSE got' = got \o First(k) /\ UNCHANGED <<status, fileSize>>
  BY DEF FreeSocketSize
<1>3. k \in 0..Len(toClient) /\ k \in Nat /\ Len(got) \in Nat
  <2>1. 2 - Len(got) \in Int /\ Len(got) \in Nat
    BY Numbers
  <2>2. k \in 0..Len(toClient)
    BY <2>1, Numbers
  <2> QED
    BY <2>1, <2>2
<1>4. Len(got) + k = 2 \/ Len(got) + k < 2 \/ k = 0
  BY <1>3, Numbers DEF Lesser
<1>5. ASSUME InStep PROVE InStep'
  <2>1. CASE Silence
    <3>1. toClient' = <<>> /\ TaskStays
      BY <1>1, <1>2, <1>3, <2>1, TakeEmpty DEF Silence, Rest, TaskStays
    <3> QED
      BY <1>1, <2>1, <3>1, SilenceStays
  <2>2. CASE ~Silence
    <3>1. toClient # <<>> /\ \E d \in Contents : Sending(d)
      BY <1>1, <1>5, <2>2, SizeArrived
    <3>2. PICK d \in Contents : Sending(d)
      BY <3>1
    <3>3. k # 0
      BY <1>2, <3>1 DEF AtEnd
    <3>4. CASE Len(got) + k = 2
      BY <1>1, <1>2, <1>3, <3>2, <3>4, SizeEndSync DEF Opens
    <3>5. CASE Len(got) + k < 2
      <4>1. Len(got) + k # 2
        BY <1>3, <3>5
      <4> QED
        BY <1>1, <1>2, <1>3, <3>2, <3>3, <3>5, <4>1, SizeMoreSync
    <3> QED
      BY <1>4, <3>3, <3>4, <3>5
  <2> QED
    BY <2>1, <2>2
<1> QED
  BY <1>1, <1>5 DEF Keeps

OldDriven == program = "old 3.2"

LEMMA SocketLibero2Sync ==
  ASSUME TaskT, StreamT, ClientT, OldDriven, SocketLibero2
  PROVE  Keeps
<1>1. /\ status = "size" /\ clientOpen /\ inGet' = FALSE /\ Rest
      /\ UNCHANGED <<prompt, answer>>
  BY DEF SocketLibero2, Libero, Rest
<1>2. CASE CloseSocket
  BY <1>2, GoneKeeps DEF CloseSocket
<1>3. ASSUME NEW k \in 1..Lesser(2 - Len(got), Len(toClient)), Take(k), UNCHANGED <<clientOpen, peer>>,
             IF Len(got) + k < 2
               THEN got' = First(k) /\ UNCHANGED <<status, fileSize, local, target, refused>>
               ELSE /\ fileSize' \in IF got = <<>> THEN Decoded(First(k)) ELSE Garbage
                    /\ refused' = (refused \/ got # <<>>)
                    /\ status' = "file" /\ got' = <<>>
                    /\ target' = name /\ local' = [local EXCEPT ![name] = <<>>]
      PROVE  Keeps
  <2>1. k \in 0..Len(toClient) /\ k \in Nat \ {0} /\ Len(got) \in Nat /\ Len(toClient) \in Nat
    <3>1. 2 - Len(got) \in Int /\ Len(got) \in Nat /\ Len(toClient) \in Nat
      BY Numbers
    <3>2. k \in 0..Lesser(2 - Len(got), Len(toClient)) /\ k \in Nat \ {0}
      BY <3>1 DEF Lesser
    <3> QED
      BY <3>1, <3>2, Numbers
  <2>2. Len(got) + k <= 2 /\ toClient # <<>>
    BY <2>1, Numbers DEF Lesser
  <2>3. First(k) \in Seq(Bytes)
    BY <2>1, Taken
  <2>4. got = <<>> => got \o First(k) = First(k) /\ Len(got) = 0
    BY <2>3
  <2>5. refused => refused'
    BY <1>3
  <2>6. ASSUME InStep PROVE refused' \/ InStep'
    <3>1. PICK d \in Contents : Sending(d)
      BY <1>1, <2>2, <2>6, SizeArrived DEF Silence
    <3>2. CASE Len(got) + k < 2
      <4>1. got = <<>>
        BY <2>1, <3>2 DEF ClientT
      <4> QED
        BY <1>1, <1>3, <2>1, <2>4, <3>1, <3>2, <4>1, SizeMoreSync DEF Driven, OldDriven
    <3>3. CASE Len(got) + k = 2
      <4>1. ~(Len(got) + k < 2)
        BY <3>3
      <4>2. CASE got = <<>>
        <5>1. local'[name] = <<>>
          <6>1. name \in Files
            BY <3>1 DEF Sending, Waiting, ClientT, OpenInv
          <6> QED
            BY <1>3, <4>1, <6>1 DEF ClientT
        <5> QED
          BY <1>1, <1>3, <2>1, <2>4, <3>1, <3>3, <4>1, <4>2, <5>1, SizeEndSync DEF OldDriven, Opens
      <4>3. CASE got # <<>>
        BY <1>3, <4>1, <4>3
      <4> QED
        BY <4>2, <4>3
    <3> QED
      BY <2>1, <2>2, <3>2, <3>3
  <2> QED
    BY <1>1, <1>3, <2>5, <2>6 DEF Keeps
<1> QED
  BY <1>2, <1>3 DEF SocketLibero2

\* The driven clients: the file.
LEMMA FileMoreSync ==
  ASSUME TaskT, StreamT, ClientT, Driven, NEW d \in Contents, Sending(d), status = "file",
         NEW k \in 0..Len(toClient), k # 0, Take(k), got' = got \o First(k), Rest,
         UNCHANGED <<status, prompt, fileSize, answer>>, inGet' = FALSE, target' = name, local'[name] = got'
  PROVE  InStep'
<1>1. Sent' = Sent /\ \A reply : Follows(reply) => Follows(reply)'
  BY ReadMore
<1>2. got' # <<>>
  <2> DEFINE s == got \o First(k)
  <2>1. s \in Seq(Bytes) /\ Len(s) = Len(got) + k /\ Len(got) \in Nat /\ Len(toClient) \in Nat
    BY SoFar, Numbers DEF Sending
  <2> HIDE DEF s
  <2>2. Len(s) # 0
    BY <2>1
  <2>3. s # <<>>
    BY <2>2
  <2> QED
    BY <2>3 DEF s
<1>3. Waiting'
  BY <1>2 DEF Sending, Waiting, Rest, Driven
<1>4. Sending(d)'
  BY <1>1, <1>3 DEF Sending, Rest, TaskOver
<1> QED
  BY <1>4 DEF InStep

\* The last bytes, or none because the server has ended: the file is closed.
LEMMA FileEndSync ==
  ASSUME TaskT, StreamT, ClientT, NEW d \in Contents, Sending(d), status = "file",
         NEW k \in 0..Len(toClient), Take(k), (k = 0 /\ AtEnd) \/ Len(got) + k >= Len(d), NextPrompt, Rest,
         inGet' = FALSE, target' = NoFile
  PROVE  InStep'
<1>1. TaskStays
  BY DEF Rest, TaskStays
<1>2. CASE Len(got) + k >= Len(d)
  <2>1. k = Len(toClient) /\ spc \in {"time", "line", "returned", "died", "killed"} /\ toServer = <<>>
    BY <1>2, AllRead
  <2>2. toClient' = <<>>
    <3>1. toClient' \in Seq(Bytes) /\ Len(toClient') = Len(toClient) - k /\ Len(toClient) \in Nat
      BY Taken, Numbers
    <3>2. Len(toClient') = 0
      BY <2>1, <3>1
    <3> QED
      BY <3>1, <3>2
  <2> QED
    BY <1>1, <2>1, <2>2, PromptSync DEF Rest
<1>3. CASE k = 0 /\ AtEnd
  <2>1. toClient' = <<>>
    BY <1>3, TakeEmpty DEF AtEnd
  <2>2. answer' = NoAnswer
    BY DEF NextPrompt
  <2> QED
    BY <1>3, <2>1, <2>2 DEF AtEnd, Silence, TaskOver, Rest, InStep
<1> QED
  BY <1>2, <1>3

\* A driven client that reads a file is at the file it has asked for.
LEMMA OwnFile ==
  ASSUME ClientT, NEW d \in Contents, Sending(d), status = "file"
  PROVE  /\ name \in Files /\ name # NoFile /\ prompt = FALSE /\ ~inGet /\ fileSize = Len(d)
         /\ program = "3.2" => IF target = NoFile THEN got = <<>> ELSE target = name /\ local[name] = got
         /\ program = "old 3.2" => target = name /\ local[name] = got
<1>1. name \in Files /\ name # NoFile /\ prompt = FALSE /\ ~inGet /\ fileSize = Len(d)
  BY ByteAssumption DEF ClientT, OpenInv, Sending, Waiting
<1>2. program = "3.2" => IF target = NoFile THEN got = <<>> ELSE target = name /\ local[name] = got
  BY <1>1 DEF Sending, Waiting
<1>3. program = "old 3.2" => target = name /\ local[name] = got
  BY DEF Sending, Waiting
<1> QED
  BY <1>1, <1>2, <1>3

LEMMA FreeSocketFileSync ==
  ASSUME TaskT, StreamT, ClientT, Driven, FreeSocketFile
  PROVE  Keeps
<1> DEFINE file  == IF target = NoFile THEN name ELSE target
           chunk == Lesser(fileSize - Len(got), ChunkSize)
           sofar == IF target = NoFile THEN <<>> ELSE local[file]
<1>1. /\ status = "file" /\ clientOpen /\ program = "3.2" /\ fileSize - Len(got) >= 0
      /\ inGet' = FALSE
      /\ UNCHANGED <<program, disk, spc, sfile, rest, name, flagQuit, refused>>
  BY DEF FreeSocketFile, Reading, In32
<1>2. PICK k \in 0..Lesser(chunk, Len(toClient)) :
        /\ k = 0 => AtEnd \/ chunk = 0
        /\ local' = [local EXCEPT ![file] = sofar \o First(k)]
        /\ IF ~(k = 0 \/ Len(got) + k = fileSize)
             THEN /\ target' = file /\ Take(k) /\ got' = got \o First(k)
                  /\ UNCHANGED <<toServer, clientOpen, peer, status, prompt, fileSize, answer>>
             ELSE FileReceived(file, k)
  BY DEF FreeSocketFile
<1>3. k \in 0..Len(toClient) /\ Len(got) \in Nat /\ Len(toClient) \in Nat /\ First(k) \in Seq(Bytes)
  <2>1. chunk \in Int
    BY Numbers DEF Lesser
  <2> HIDE DEF chunk
  <2> QED
    BY <2>1, Numbers, Taken
<1>4. chunk = 0 => fileSize - Len(got) = 0
  BY Numbers DEF Lesser
<1> HIDE DEF chunk
<1>5. CASE QuitAndClose
  BY <1>5, GoneKeeps DEF QuitAndClose, ClientEnds
<1>6. CASE ~QuitAndClose
  <2>1. UNCHANGED <<clientOpen, peer>> /\ Take(k) /\ answer' \in {answer, NoAnswer}
    BY <1>2, <1>6 DEF FileReceived, NextPrompt
  <2>2. CASE Silence
    <3>1. toClient' = <<>> /\ TaskStays
      BY <1>1, <1>3, <2>1, <2>2, TakeEmpty DEF Silence, TaskStays
    <3>2. InStep'
      BY <2>1, <2>2, <3>1, SilenceStays
    <3> QED
      BY <1>1, <2>1, <3>2 DEF Keeps
  <2>3. ASSUME NEW d \in Contents, Sending(d) PROVE InStep'
    <3>1. name \in Files /\ file = name /\ ~inGet /\ fileSize = Len(d) /\ sofar = got
      <4>1. /\ name \in Files /\ ~inGet /\ fileSize = Len(d)
            /\ IF target = NoFile THEN got = <<>> ELSE target = name /\ local[name] = got
        BY <1>1, <2>3, OwnFile
      <4> QED
        BY <4>1
    <3> HIDE DEF file, sofar
    <3>2. local'[name] = got \o First(k)
      BY <1>2, <3>1 DEF ClientT
    <3>3. CASE ~(k = 0 \/ Len(got) + k = fileSize)
      <4>1. /\ target' = name /\ Take(k) /\ got' = got \o First(k) /\ k # 0
            /\ UNCHANGED <<toServer, clientOpen, peer, status, prompt, fileSize, answer>>
        BY <1>2, <3>1, <3>3
      <4>2. local'[name] = got'
        BY <3>2, <4>1
      <4>3. Rest
        BY <1>1, <4>1 DEF Rest
      <4> QED
        BY <1>1, <1>3, <2>3, <4>1, <4>2, <4>3, FileMoreSync
    <3>4. CASE k = 0 \/ Len(got) + k = fileSize
      <4>1. FileReceived(file, k)
        BY <1>2, <3>4
      <4>2. target' = NoFile /\ NextPrompt /\ toServer' = toServer
        BY <1>6, <3>1, <4>1 DEF FileReceived
      <4>3. (k = 0 /\ AtEnd) \/ Len(got) + k >= Len(d)
        <5>1. CASE Len(got) + k = fileSize
          BY <1>3, <3>1, <5>1
        <5>2. CASE k = 0 /\ chunk = 0
          <6>1. fileSize - Len(got) = 0 /\ fileSize \in Int
            BY <1>4, <5>2, Numbers
          <6> QED
            BY <1>3, <3>1, <5>2, <6>1
        <5> QED
          BY <1>2, <3>4, <5>1, <5>2
      <4>4. Rest
        BY <1>1, <4>2 DEF Rest
      <4> QED
        BY <1>1, <1>3, <2>1, <2>3, <4>2, <4>3, <4>4, FileEndSync
    <3> QED
      BY <3>3, <3>4
  <2>4. ~Idle /\ ~Asked /\ ~Failing
    BY <1>1 DEF Idle, Asked, Failing
  <2> QED
    BY <1>1, <2>1, <2>2, <2>3, <2>4 DEF Keeps, InStep
<1> QED
  BY <1>5, <1>6

LEMMA SocketLibero3Sync ==
  ASSUME TaskT, StreamT, ClientT, OldDriven, SocketLibero3
  PROVE  Keeps
<1> DEFINE chunk == IF fileSize < 0 THEN ChunkSize ELSE Lesser(fileSize - Len(got), ChunkSize)
<1>1. /\ status = "file" /\ clientOpen /\ inGet' = FALSE
      /\ UNCHANGED <<program, disk, spc, sfile, rest, name, flagQuit, refused>>
  BY DEF SocketLibero3, Libero
<1>2. CASE CloseSocket
  BY <1>2, GoneKeeps DEF CloseSocket
<1>3. CASE QuitAndClose
  BY <1>3, GoneKeeps DEF QuitAndClose, ClientEnds
<1>4. CASE ~CloseSocket /\ ~QuitAndClose
  <2>1. PICK k \in 1..Lesser(chunk, Len(toClient)) :
          /\ local' = [local EXCEPT ![target] = @ \o First(k)]
          /\ target' = IF Len(got) + k # fileSize THEN target ELSE NoFile
          /\ IF Len(got) + k # fileSize
               THEN /\ Take(k) /\ got' = got \o First(k)
                    /\ UNCHANGED <<toServer, clientOpen, peer, status, prompt, fileSize, answer>>
               ELSE Take(k) /\ NextPrompt /\ UNCHANGED <<toServer, clientOpen, peer>>
    BY <1>4 DEF SocketLibero3
  <2>2. k \in 0..Len(toClient) /\ k # 0 /\ toClient # <<>>
    <3>1. chunk \in Int
      BY Numbers DEF Lesser
    <3> HIDE DEF chunk
    <3>2. k \in 0..Lesser(chunk, Len(toClient)) /\ k \in Nat \ {0}
      BY <3>1, Numbers DEF Lesser
    <3>3. k \in 0..Len(toClient)
      BY <3>1, <3>2, Numbers
    <3> QED
      BY <3>2, <3>3
  <2>3. UNCHANGED <<toServer, clientOpen, peer>> /\ Take(k) /\ Rest
    BY <1>1, <2>1 DEF Rest
  <2> HIDE DEF chunk
  <2>4. ASSUME NEW d \in Contents, Sending(d) PROVE InStep'
    <3>1. name \in Files /\ target = name /\ local[name] = got /\ fileSize = Len(d)
      BY <1>1, <2>4, OwnFile DEF OldDriven
    <3>2. local'[name] = got \o First(k)
      BY <2>1, <3>1 DEF ClientT
    <3>3. CASE Len(got) + k # fileSize
      BY <1>1, <2>1, <2>2, <2>3, <2>4, <3>1, <3>2, <3>3, FileMoreSync DEF OldDriven, Driven
    <3>4. CASE Len(got) + k = fileSize
      <4>1. Len(got) + k >= Len(d)
        BY <2>2, <3>1, <3>4, Numbers
      <4>2. target' = NoFile /\ NextPrompt
        BY <2>1, <3>4
      <4> QED
        BY <1>1, <2>2, <2>3, <2>4, <4>1, <4>2, FileEndSync
    <3> QED
      BY <3>3, <3>4
  <2>5. ~Idle /\ ~Asked /\ ~Failing /\ ~Silence
    BY <1>1, <2>2 DEF Idle, Asked, Failing, Silence
  <2> QED
    BY <1>1, <2>3, <2>4, <2>5 DEF Keeps, InStep
<1> QED
  BY <1>2, <1>3, <1>4

\* Q while a reply is under way.
LEMMA QuitSync ==
  ASSUME Quit32 \/ StdinputLiberoQuit
  PROVE  Keeps
<1>1. CASE QuitAndClose
  BY <1>1, GoneKeeps DEF QuitAndClose, ClientEnds
<1>2. CASE ~QuitAndClose
  <2>1. /\ UNCHANGED <<disk, spc, sfile, rest, peer, toServer, toClient, clientOpen, local, name, status,
                       fileSize, got, target, inGet, prompt, program, refused, answer>> /\ clientOpen
    BY <1>2 DEF Quit32, StdinputLiberoQuit, In32, serverVars
  <2>2. Sent' = Sent /\ (\A reply : Follows(reply) => Follows(reply)') /\ (Waiting => Waiting')
    BY <2>1, StreamStays DEF Waiting
  <2>3. CASE Silence \/ Idle \/ Asked \/ Failing
    <3>1. InStep'
      BY <2>1, <2>2, <2>3 DEF Silence, Idle, Asked, Failing, TaskOver, InStep
    <3> QED
      BY <2>1, <3>1 DEF Keeps
  <2>4. ASSUME NEW d \in Contents, Sending(d) PROVE InStep'
    <3>1. Sending(d)'
      BY <2>1, <2>2, <2>4 DEF Sending, TaskOver
    <3> QED
      BY <3>1 DEF InStep
  <2> QED
    BY <2>1, <2>3, <2>4 DEF Keeps, InStep
<1> QED
  BY <1>1, <1>2

(* Every step keeps the client and the stream together.                        *)
LEMMA EndsSync ==
  ASSUME \/ ReadFails \/ ClientKilled \/ GetKills \/ Abort32 \/ StdinputLiberoAbort
         \/ OldReadnEnds \/ OldReadnFails \/ OldQuit \/ OldGetFails \/ Abort \/ Quit23
         \/ ReadChunkEnds23 \/ FreeSocketFileFails
  PROVE  Keeps
<1>1. clientOpen' = FALSE
  BY DEF ReadFails, ClientKilled, GetKills, Abort32, StdinputLiberoAbort, OldReadnEnds, OldReadnFails,
         OldQuit, OldGetFails, Abort, Quit23, ReadChunkEnds23, FreeSocketFileFails, ClientDies,
         ClientEnds, CloseSocket, QuitAndClose
<1> QED
  BY <1>1, GoneKeeps

\* Nothing happens to the connection.
LEMMA StaysKeeps ==
  ASSUME UNCHANGED vars, clientOpen
  PROVE  Keeps
<1>1. ClientStays /\ UNCHANGED <<disk, spc, sfile, rest, peer, toServer, toClient, answer, refused>>
  BY DEF vars, serverVars, ClientStays
<1>2. UNCHANGED <<got, status, prompt, inGet, target, fileSize>>
  BY <1>1 DEF ClientStays, clientVars
<1>3. Sent' = Sent /\ (\A reply : Follows(reply) => Follows(reply)') /\ (Waiting => Waiting')
  BY <1>1, <1>2, StreamStays, WaitingStays
<1>4. CASE Silence \/ Idle \/ Asked \/ Failing
  <2>1. InStep'
    BY <1>1, <1>2, <1>3, <1>4 DEF Silence, Idle, Asked, Failing, TaskOver, InStep
  <2> QED
    BY <1>1, <2>1 DEF Keeps
<1>5. ASSUME NEW d \in Contents, Sending(d) PROVE InStep'
  <2>1. Sending(d)'
    BY <1>1, <1>2, <1>3, <1>5 DEF Sending, TaskOver
  <2> QED
    BY <2>1 DEF InStep
<1> QED
  BY <1>1, <1>4, <1>5 DEF Keeps, InStep

LEMMA ClientKeeps ==
  ASSUME TaskT, StreamT, ClientT, Client \/ User \/ ClientKilled
  PROVE  Keeps
<1>1. CASE ReadLine23 \/ ReadSize23 \/ ReadChunk23 \/ FileDone23
  <2>1. Blocking
    BY <1>1 DEF Blocking, In23, ReadLine23, ReadSize23, ReadChunk23, FileDone23
  <2> QED
    BY <1>1, <2>1, ReadLineSync, ReadSizeSync, ReadChunkSync, FileDoneSync DEF ReadChunk23
<1>2. CASE FreeSocketInit \/ FreeSocketLine \/ FreeSocketSize \/ FreeSocketFile
  <2>1. Driven
    BY <1>2 DEF Driven, In32, Reading, FreeSocketInit, FreeSocketLine, FreeSocketSize, FreeSocketFile
  <2> QED
    BY <1>2, <2>1, InitReadSync, FreeSocketLineSync, FreeSocketSizeSync, FreeSocketFileSync
<1>3. CASE \E f \in Files : Get23(f) \/ Get32(f)
  BY <1>3, GetSync
<1>4. CASE \/ ReadChunkEnds23 \/ FreeSocketFileFails \/ ReadFails \/ GetKills \/ Quit23 \/ Abort32 \/ ClientKilled
           \/ Quit32
  BY <1>4, EndsSync, QuitSync
<1> QED
  BY <1>1, <1>2, <1>3, <1>4 DEF Client, User

LEMMA OldReceiveKeeps ==
  ASSUME TaskT, StreamT, ClientT, Blocking, OldReceive
  PROVE  Keeps
BY ReadLineSync, ReadSizeSync, FileDoneSync, EndsSync DEF OldReceive

LEMMA OldBlockingKeeps ==
  ASSUME TaskT, StreamT, ClientT,
         Client23 \/ Client31 \/ ClientThread \/ Client33 \/ User23 \/ User31 \/ UserThread \/ User33
  PROVE  Keeps
<1>1. (OldClient \/ OldUser) /\ program \notin {"3.2", "old 3.2"}
  BY DEF Client23, Client31, ClientThread, Client33, User23, User31, UserThread, User33
<1>2. CASE OldReceive
  <2>1. clientOpen
    BY <1>2 DEF OldReceive, OldReadLine, OldReadSize, OldReadnEnds, OldReadnFails, OldFileDone, ReadFails
  <2> QED
    BY <1>1, <1>2, <2>1, OldReceiveKeeps DEF Blocking
<1>3. CASE OldReadChunk
  BY <1>1, <1>3, ReadChunkSync DEF OldReadChunk, Blocking
<1>4. CASE OldUser
  BY <1>4, GetSync, EndsSync DEF OldUser
<1> QED
  BY <1>1, <1>2, <1>3, <1>4 DEF OldClient

LEMMA OldDrivenKeeps ==
  ASSUME TaskT, StreamT, ClientT, Client32 \/ User32
  PROVE  Keeps
<1>1. OldDriven /\ Driven
  BY DEF Client32, User32, OldDriven, Driven
<1>2. CASE SocketLibero
  BY <1>1, <1>2, InitReadSync, SocketLibero1Sync, SocketLibero2Sync, SocketLibero3Sync DEF SocketLibero
<1>3. CASE \E f \in Files : StdinputLiberoGet(f)
  BY <1>3, GetSync
<1>4. CASE ReadFails \/ StdinputLiberoQuit \/ StdinputLiberoAbort \/ GetKills
  BY <1>4, EndsSync, QuitSync
<1> QED
  BY <1>2, <1>3, <1>4 DEF Client32, User32

LEMMA PipeKeeps ==
  ASSUME TaskT, StreamT, ClientT, Figlio
  PROVE  Keeps
<1>1. program = "old pipe" /\ (NextCommand \/ OldReceive \/ ReadnConAbort \/ Abort)
  BY DEF Figlio
<1>2. clientOpen
  BY <1>1 DEF NextCommand, OldReceive, OldReadLine, OldReadSize, OldReadnEnds, OldReadnFails, OldFileDone,
              ReadFails, ReadnConAbort, Abort
<1>3. Blocking
  BY <1>1, <1>2 DEF Blocking
<1>4. CASE NextCommand
  <2>1. (\E f \in Files : OldSendGet(f)) \/ clientOpen' = FALSE
    BY <1>4 DEF NextCommand, QuitAndClose, ClientDies, ClientEnds
  <2> QED
    BY <2>1, GetSync, GoneKeeps
<1>5. CASE OldReceive
  BY <1>3, <1>5, OldReceiveKeeps
<1>6. CASE ReadnConAbort
  BY <1>3, <1>6, ReadChunkSync DEF ReadnConAbort
<1>7. CASE Abort
  BY <1>7, EndsSync
<1> QED
  BY <1>1, <1>4, <1>5, <1>6, <1>7

\* Whoever of the client's side takes a step.
ClientSide == AllClient \/ OldUsers \/ Signal \/ (~Old /\ User) \/ ClientKilled

LEMMA ClientSideKeeps ==
  ASSUME TaskT, StreamT, ClientT, clientOpen, ClientSide
  PROVE  Keeps
<1>1. CASE Father \/ Signal
  <2>1. UNCHANGED vars
    BY <1>1 DEF Father, Signal, Type, KillChild
  <2> QED
    BY <2>1, StaysKeeps
<1>2. CASE Client \/ User \/ ClientKilled
  BY <1>2, ClientKeeps
<1>3. CASE OldClients \/ OldUsers
  BY <1>1, <1>3, OldBlockingKeeps, OldDrivenKeeps, PipeKeeps DEF OldClients, OldUsers
<1> QED
  BY <1>1, <1>2, <1>3 DEF ClientSide, AllClient

\* Whoever else takes a step leaves the client alone.
LEMMA ClientAlone ==
  ASSUME AllServer \/ ServerKilled \/ \E f \in Files : ChangeFile(f)
  PROVE  ClientStays
<1>1. CASE ServerKilled \/ \E f \in Files : ChangeFile(f)
  BY <1>1 DEF ServerKilled, ChangeFile, ClientStays
<1>2. CASE Server
  BY <1>2 DEF Server, ReadRequest, ReadRequestEnds, WriteKills, SendReply, SendData, CheckTime, ClientStays
<1>3. CASE ServiClient \/ NextRequest({"line", "returned"}) \/ NextRequest({"line"})
  BY <1>3 DEF ServiClient, ReadRequest, OldReadEnds, OldReply, OldSendData, NextRequest, ClientStays
<1> QED
  BY <1>1, <1>2, <1>3 DEF AllServer, OldServer, ServiClient23, ServiClient31, ServiClientThread, ServiClient32,
         ServiClientPipe, ServiClient33

\* A client that has ended does not come back.
LEMMA ClosedStays ==
  ASSUME ~clientOpen, AllNext
  PROVE  ~clientOpen'
<1>1. CASE AllServer \/ ServerKilled \/ \E f \in Files : ChangeFile(f)
  BY <1>1, ClientAlone DEF ClientStays
<1>2. CASE ClientSide
  <2>1. Father \/ Signal
    BY <1>2 DEF ClientSide, AllClient, Client, OldClients, Client23, Client31, ClientThread, Client33, Client32,
         Figlio, OldClient, OldReceive, OldUsers, User, User23, User31, UserThread, User33, User32, OldUser,
         SocketLibero, In23, In32, Reading, Libero,
         ReadLine23, ReadSize23, ReadChunk23, ReadChunkEnds23, FileDone23, Get23, Quit23,
         FreeSocketInit, FreeSocketLine, FreeSocketSize, FreeSocketFile, FreeSocketFileFails,
         Get32, Quit32, Abort32, GetKills, ReadFails, ClientKilled,
         OldReadLine, OldReadSize, OldReadnEnds, OldReadnFails, OldFileDone, OldReadChunk,
         OldSendGet, OldQuit, OldGetFails, NextCommand, ReadnConAbort, Abort,
         SocketLibero0, SocketLibero1, SocketLibero2, SocketLibero3,
         StdinputLiberoGet, StdinputLiberoQuit, StdinputLiberoAbort
  <2>2. UNCHANGED vars
    BY <2>1 DEF Father, Signal, Type, KillChild
  <2> QED
    BY <2>2 DEF vars
<1> QED
  BY <1>1, <1>2 DEF AllNext, Others, ClientSide

LEMMA SyncInit ==
  ASSUME AllInit
  PROVE  SyncInv
BY DEF AllInit, Init, SyncInv, InStep, Idle

LEMMA SyncStep ==
  ASSUME TypeInv, SyncInv, [AllNext]_allVars
  PROVE  SyncInv'
<1>1. TaskT /\ StreamT /\ ClientT
  BY TypeParts
<1>2. CASE ~clientOpen /\ AllNext
  BY <1>2, ClosedStays DEF SyncInv
<1>3. CASE clientOpen /\ (AllServer \/ ServerKilled)
  <2>1. peer = "open" /\ (refused \/ InStep)
    BY <1>3 DEF SyncInv
  <2>2. ClientStays /\ peer' = "open"
    BY <1>3, <2>1, ServerMoves
  <2>3. InStep => InStep'
    BY <1>1, <1>3, <2>1, ServerSync
  <2> QED
    BY <2>1, <2>2, <2>3 DEF SyncInv, ClientStays
<1>4. CASE clientOpen /\ \E f \in Files : ChangeFile(f)
  <2>1. InStep => InStep'
    BY <1>1, <1>4, FilesChangeSync
  <2>2. UNCHANGED <<peer, refused, clientOpen>>
    BY <1>4 DEF ChangeFile, serverVars
  <2> QED
    BY <1>4, <2>1, <2>2 DEF SyncInv
<1>5. CASE clientOpen /\ ClientSide
  <2>1. Keeps
    BY <1>1, <1>5, ClientSideKeeps
  <2> QED
    BY <2>1 DEF Keeps, SyncInv
<1>6. CASE UNCHANGED allVars
  <2>1. UNCHANGED vars
    BY <1>6 DEF allVars
  <2>2. CASE clientOpen
    BY <2>1, <2>2, StaysKeeps DEF Keeps, SyncInv
  <2>3. CASE ~clientOpen
    BY <2>1, <2>3 DEF vars, SyncInv
  <2> QED
    BY <2>2, <2>3
<1> QED
  BY <1>2, <1>3, <1>4, <1>5, <1>6 DEF AllNext, Others, ClientSide

LEMMA InvStep ==
  ASSUME TypeInv, SyncInv, [AllNext]_allVars
  PROVE  (TypeInv /\ SyncInv)'
BY TypeStep, SyncStep

-------------------------------------------------------------------------------
(* What the client writes, and when it comes to the next prompt.               *)
LEMMA Deeds ==
  ASSUME ClientSide
  PROVE  \/ Blocking /\ (ReadSize23 \/ OldReadSize \/ ReadChunk \/ ReadChunkEnds23)
         \/ Blocking /\ (FileDone23 \/ OldFileDone)
         \/ FreeSocketFile \/ FreeSocketFileFails
         \/ OldDriven /\ (SocketLibero2 \/ SocketLibero3)
         \/ UNCHANGED local /\ (prompt' => prompt \/ status # "file")
<1> DEFINE Idly == UNCHANGED local /\ (prompt' => prompt \/ status # "file")
<1>1. CASE ReadSize23 \/ ReadChunk23 \/ ReadChunkEnds23 \/ FileDone23
  BY <1>1 DEF ReadSize23, ReadChunk23, ReadChunkEnds23, FileDone23, In23, Blocking
<1>2. ASSUME \/ ReadFails \/ GetKills \/ Abort32 \/ StdinputLiberoAbort \/ ClientKilled
             \/ OldReadnEnds \/ OldReadnFails \/ OldQuit \/ OldGetFails \/ Abort \/ Quit23
      PROVE Idly
  BY <1>2 DEF ReadFails, GetKills, Abort32, StdinputLiberoAbort, ClientKilled, OldReadnEnds, OldReadnFails,
              OldQuit, OldGetFails, Abort, Quit23, ClientDies, clientVars
<1>3. ASSUME Quit32 \/ StdinputLiberoQuit PROVE Idly
  BY <1>3 DEF Quit32, StdinputLiberoQuit, clientVars
<1>4. ASSUME NEW f \in Files, Get23(f) \/ Get32(f) \/ OldSendGet(f) \/ StdinputLiberoGet(f) PROVE Idly
  BY <1>4 DEF Get23, Get32, OldSendGet, StdinputLiberoGet, SendGet
<1>5. ASSUME ReadLine23 \/ OldReadLine PROVE Idly
  BY <1>5 DEF ReadLine23, OldReadLine
<1>6. ASSUME FreeSocketInit \/ FreeSocketLine \/ FreeSocketSize PROVE Idly
  BY <1>6 DEF FreeSocketInit, FreeSocketLine, FreeSocketSize, Reading
<1>7. ASSUME SocketLibero0 \/ SocketLibero1 PROVE Idly
  BY <1>7 DEF SocketLibero0, SocketLibero1
<1>8. ASSUME Father \/ Signal PROVE Idly
  <2>1. UNCHANGED vars
    BY <1>8 DEF Father, Signal, Type, KillChild
  <2>2. UNCHANGED <<local, prompt>>
    BY <2>1 DEF vars, clientVars
  <2> QED
    BY <2>2
<1>9. CASE Client \/ User \/ ClientKilled
  BY <1>1, <1>2, <1>3, <1>4, <1>5, <1>6, <1>9 DEF Client, User
<1>10. CASE program \notin {"3.2", "old 3.2"} /\ (OldReceive \/ OldReadChunk \/ OldUser)
  <2>1. CASE OldReadSize \/ OldFileDone \/ OldReadChunk
    BY <1>10, <2>1 DEF OldReadSize, OldFileDone, OldReadChunk, Blocking
  <2>2. CASE OldUser
    BY <1>2, <1>4, <2>2 DEF OldUser
  <2> QED
    BY <1>2, <1>5, <1>10, <2>1, <2>2 DEF OldReceive
<1>11. CASE Client32 \/ User32
  BY <1>2, <1>3, <1>4, <1>7, <1>11 DEF Client32, User32, SocketLibero, OldDriven
<1>12. CASE Figlio
  <2>1. program \notin {"3.2", "old 3.2"} /\ (NextCommand \/ OldReceive \/ ReadnConAbort \/ Abort)
    BY <1>12 DEF Figlio
  <2>2. CASE NextCommand
    <3>1. (\E f \in Files : OldSendGet(f)) \/ UNCHANGED clientVars
      BY <2>2 DEF NextCommand, ClientDies
    <3> QED
      BY <1>4, <3>1 DEF clientVars
  <2>3. CASE ReadnConAbort
    BY <2>1, <2>3 DEF ReadnConAbort, Blocking
  <2> QED
    BY <1>2, <1>10, <2>1, <2>2, <2>3
<1>13. \/ Client \/ User \/ ClientKilled \/ Father \/ Signal \/ Client32 \/ User32 \/ Figlio
       \/ program \notin {"3.2", "old 3.2"} /\ (OldReceive \/ OldReadChunk \/ OldUser)
  BY DEF ClientSide, AllClient, OldClients, OldUsers, Client23, Client31, ClientThread, Client33,
         User23, User31, UserThread, User33, OldClient
<1> QED
  BY <1>8, <1>9, <1>10, <1>11, <1>12, <1>13

\* In the middle of a file, or of its size, the server's reply is that file.
LEMMA SendsFile ==
  ASSUME ~refused, clientOpen, SyncInv, status \in {"size", "file"}, ~TaskOver \/ toClient # <<>> \/ answer # NoAnswer
  PROVE  \E d \in Contents : Sending(d)
BY DEF SyncInv, InStep, Silence, Idle, Asked, Failing

LEMMA OnlyName ==
  ASSUME ClientT, NEW c, local' = [local EXCEPT ![name] = c], NEW f \in Files, local'[f] # local[f]
  PROVE  f = name
BY DEF ClientT

LEMMA OthersAlone ==
  ASSUME TypeInv, SyncInv, [AllNext]_allVars, ~refused, program # "3.2" \/ ~TaskOver,
         NEW f \in Files, local'[f] # local[f]
  PROVE  Pending /\ f = name
<1>1. TaskT /\ StreamT /\ ClientT
  BY TypeParts
<1>2. CASE Blocking /\ (ReadSize23 \/ OldReadSize \/ ReadChunk \/ ReadChunkEnds23)
  <2>1. PICK c : local' = [local EXCEPT ![name] = c]
    BY <1>2 DEF ReadSize23, OldReadSize, ReadChunk, ReadChunkEnds23
  <2>2. status # "init"
    BY <1>2 DEF ReadSize23, OldReadSize, ReadChunk, ReadChunkEnds23
  <2> QED
    BY <1>1, <1>2, <2>1, <2>2, OnlyName, BlockingState DEF Pending
<1>3. CASE FreeSocketFile \/ FreeSocketFileFails
  <2>1. status = "file" /\ program = "3.2" /\ clientOpen
    BY <1>3 DEF FreeSocketFile, FreeSocketFileFails, Reading, In32
  <2>2. PICK d \in Contents : Sending(d)
    BY <2>1, SendsFile
  <2>3. prompt = FALSE /\ (target = NoFile \/ target = name)
    BY <1>1, <2>1, <2>2, OwnFile
  <2>4. PICK c : local' = [local EXCEPT ![name] = c] \/ UNCHANGED local
    BY <1>3, <2>3 DEF FreeSocketFile, FreeSocketFileFails
  <2> QED
    BY <1>1, <2>3, <2>4, OnlyName DEF Pending
<1>4. CASE OldDriven /\ SocketLibero2
  <2>1. status = "size" /\ clientOpen
    BY <1>4 DEF SocketLibero2, Libero
  <2>2. toClient # <<>> /\ \E c : local' = [local EXCEPT ![name] = c]
    <3>1. PICK k \in 1..Lesser(2 - Len(got), Len(toClient)) : local' = [local EXCEPT ![name] = <<>>]
      BY <1>4 DEF SocketLibero2
    <3>2. toClient # <<>>
      BY <1>1, <3>1, Numbers DEF Lesser
    <3> QED
      BY <3>1, <3>2
  <2>3. PICK d \in Contents : Sending(d)
    BY <2>1, <2>2, SendsFile
  <2> QED
    BY <1>1, <2>2, <2>3, OnlyName DEF Sending, Waiting, Pending
<1>5. CASE OldDriven /\ SocketLibero3
  <2>1. status = "file" /\ clientOpen
    BY <1>5 DEF SocketLibero3, Libero
  <2> DEFINE chunk == IF fileSize < 0 THEN ChunkSize ELSE Lesser(fileSize - Len(got), ChunkSize)
  <2>2. PICK k \in 1..Lesser(chunk, Len(toClient)) : local' = [local EXCEPT ![target] = @ \o First(k)]
    BY <1>5 DEF SocketLibero3
  <2>3. toClient # <<>>
    <3>1. chunk \in Int
      BY <1>1, Numbers DEF Lesser
    <3> HIDE DEF chunk
    <3> QED
      BY <1>1, <2>2, <3>1, Numbers DEF Lesser
  <2>4. PICK d \in Contents : Sending(d)
    BY <2>1, <2>3, SendsFile
  <2>5. prompt = FALSE /\ target = name
    BY <1>1, <1>5, <2>1, <2>4, OwnFile DEF OldDriven
  <2>6. PICK c : local' = [local EXCEPT ![name] = c]
    BY <2>2, <2>5
  <2> QED
    BY <1>1, <2>5, <2>6, OnlyName DEF Pending
<1>6. local' # local
  OBVIOUS
<1>7. ClientSide
  BY <1>6, ClientAlone DEF AllNext, Others, ClientSide, ClientStays, clientVars, allVars, vars
<1>8. ~(FileDone23 \/ OldFileDone)
  BY <1>6 DEF FileDone23, OldFileDone
<1> QED
  BY <1>2, <1>3, <1>4, <1>5, <1>6, <1>7, <1>8, Deeds

\* All of the file has been read.
LEMMA FileWhole ==
  ASSUME TaskT, StreamT, ClientT, NEW d \in Contents, Sending(d), status = "file",
         NEW k \in 0..Len(toClient), Len(got) + k >= Len(d)
  PROVE  got \o First(k) = d
<1> DEFINE s == got \o First(k)
           w == Whole(d)
<1>1. Base = 4 /\ Len(got) + k = Len(d)
  BY AllRead DEF Base
<1>2. s \in Seq(Bytes) /\ Len(s) = Len(got) + k /\ \A i \in 1..(Len(got) + k) : s[i] = w[Base + i]
  BY SoFar DEF Sending
<1>3. d \in Seq(Bytes) /\ \A i \in 1..Len(d) : w[4 + i] = d[i]
  BY WholeReply
<1> HIDE DEF s, w
<1>4. Len(s) = Len(d) /\ \A i \in 1..Len(s) : s[i] = d[i]
  BY <1>1, <1>2, <1>3
<1>5. s = d
  BY <1>2, <1>3, <1>4, SamePieces
<1> QED
  BY <1>5 DEF s

\* The server has sent all of it.
LEMMA AllSent ==
  ASSUME NEW d \in Contents, Sending(d), answer # NoAnswer
  PROVE  answer = d /\ Sent = 4 + Len(d)
BY DEF Sending

LEMMA DownloadWhole ==
  ASSUME TypeInv, SyncInv, [AllNext]_allVars, ~prompt, prompt', status' = "init", status = "file", ~refused,
         answer # NoAnswer
  PROVE  local'[name] = answer
<1>1. TaskT /\ StreamT /\ ClientT
  BY TypeParts
<1>2. ClientSide
  BY ClientAlone DEF AllNext, Others, ClientSide, ClientStays, clientVars, allVars, vars
<1>3. CASE Blocking /\ (FileDone23 \/ OldFileDone)
  <2>1. PICK d \in Contents : Sending(d)
    BY <1>3, SendsFile DEF Blocking
  <2>2. fileSize <= Len(got) /\ UNCHANGED local /\ fileSize = Len(d)
    BY <1>3, <2>1 DEF FileDone23, OldFileDone, Sending
  <2>3. Len(toClient) \in Nat /\ 0 \in 0..Len(toClient) /\ Len(got) + 0 >= Len(d)
    BY <1>1, <2>2, Numbers, WholeReply
  <2>4. got \o First(0) = d
    BY <1>1, <2>1, <2>3, FileWhole
  <2>5. got \o First(0) = got
    <3>1. First(0) = <<>>
      BY DEF First
    <3> QED
      BY <1>1, <3>1 DEF ClientT
  <2>6. local[name] = got
    BY <1>3, <2>1 DEF Blocking, Sending, Waiting
  <2> QED
    BY <2>1, <2>2, <2>4, <2>5, <2>6, AllSent
<1>4. CASE FreeSocketFile
  <2> DEFINE file  == IF target = NoFile THEN name ELSE target
             chunk == Lesser(fileSize - Len(got), ChunkSize)
             sofar == IF target = NoFile THEN <<>> ELSE local[file]
  <2>1. program = "3.2" /\ clientOpen
    BY <1>4 DEF FreeSocketFile, Reading, In32
  <2>2. PICK d \in Contents : Sending(d)
    BY <2>1, SendsFile
  <2>3. name \in Files /\ file = name /\ sofar = got /\ fileSize = Len(d)
    BY <1>1, <2>1, <2>2, OwnFile
  <2>4. PICK k \in 0..Lesser(chunk, Len(toClient)) :
          /\ k = 0 => AtEnd \/ chunk = 0
          /\ local' = [local EXCEPT ![file] = sofar \o First(k)]
          /\ k = 0 \/ Len(got) + k = fileSize
    BY <1>4 DEF FreeSocketFile
  <2>5. k \in 0..Len(toClient) /\ Len(got) \in Nat /\ Len(toClient) \in Nat /\ Len(d) \in Nat
    <3>1. chunk \in Int
      BY <1>1, Numbers DEF Lesser
    <3> HIDE DEF chunk
    <3> QED
      BY <1>1, <3>1, Numbers, WholeReply
  <2>6. chunk = 0 => fileSize = Len(got)
    BY <1>1, Numbers DEF Lesser
  <2> HIDE DEF chunk, file, sofar
  <2>7. Len(got) + k >= Len(d)
    <3>1. CASE AtEnd
      <4>1. Len(toClient) = 0 /\ Sent = 4 + Len(got) + Len(toClient) /\ Sent = 4 + Len(d)
        BY <2>2, <3>1, AllSent DEF AtEnd, Sent, Base
      <4> QED
        BY <2>5, <4>1
    <3>2. CASE Len(got) + k = fileSize
      BY <2>3, <2>5, <3>2
    <3>3. CASE k = 0 /\ chunk = 0
      BY <2>3, <2>5, <2>6, <3>3
    <3> QED
      BY <2>4, <3>1, <3>2, <3>3
  <2>8. got \o First(k) = d
    BY <1>1, <2>2, <2>5, <2>7, FileWhole
  <2> QED
    BY <1>1, <2>2, <2>3, <2>4, <2>8, AllSent DEF ClientT
<1>5. CASE OldDriven /\ SocketLibero3
  <2> DEFINE chunk == IF fileSize < 0 THEN ChunkSize ELSE Lesser(fileSize - Len(got), ChunkSize)
  <2>1. clientOpen
    BY <1>5 DEF SocketLibero3, Libero
  <2>2. PICK d \in Contents : Sending(d)
    BY <2>1, SendsFile
  <2>3. name \in Files /\ target = name /\ local[name] = got /\ fileSize = Len(d)
    BY <1>1, <1>5, <2>2, OwnFile DEF OldDriven
  <2>4. PICK k \in 1..Lesser(chunk, Len(toClient)) :
          local' = [local EXCEPT ![target] = @ \o First(k)] /\ Len(got) + k = fileSize
    BY <1>5 DEF SocketLibero3, CloseSocket, QuitAndClose
  <2>5. k \in 0..Len(toClient) /\ Len(got) \in Nat /\ Len(toClient) \in Nat /\ Len(d) \in Nat
    <3>1. chunk \in Int /\ Len(toClient) \in Nat
      BY <1>1, Numbers DEF Lesser
    <3> HIDE DEF chunk
    <3>2. k \in 0..Lesser(chunk, Len(toClient))
      BY <3>1 DEF Lesser
    <3> QED
      BY <1>1, <3>1, <3>2, Numbers, WholeReply
  <2> HIDE DEF chunk
  <2>6. Len(got) + k >= Len(d)
    BY <2>3, <2>4, <2>5
  <2>7. got \o First(k) = d
    BY <1>1, <2>2, <2>5, <2>6, FileWhole
  <2> QED
    BY <1>1, <2>2, <2>3, <2>4, <2>7, AllSent DEF ClientT
<1>6. ~((ReadSize23 \/ OldReadSize \/ ReadChunk \/ ReadChunkEnds23) \/ FreeSocketFileFails \/ SocketLibero2)
  BY DEF ReadSize23, OldReadSize, ReadChunk, ReadChunkEnds23, FreeSocketFileFails, SocketLibero2, Libero
<1> QED
  BY <1>2, <1>3, <1>4, <1>5, <1>6, Deeds

(* A file that the user is not asking for is left alone, by every client, for  *)
(* every content and every way to cut the stream; of 3.2, while the server is  *)
(* there.                                                                      *)
THEOREM TransferLeavesOthers == AllSpec => OthersKept
<1>1. AllInit => TypeInv /\ SyncInv
  BY TypeInit, TypeParts, SyncInit
<1>2. TypeInv /\ SyncInv /\ [AllNext]_allVars => (TypeInv /\ SyncInv)'
  BY InvStep
<1>3. TypeInv /\ SyncInv /\ [AllNext]_allVars =>
        [Trusted /\ (program # "3.2" \/ ~TaskOver) =>
           \A f \in Files : local'[f] # local[f] => Pending /\ f = name]_vars
  BY OthersAlone DEF Trusted
<1> QED
  BY <1>1, <1>2, <1>3, PTL DEF AllSpec, OthersKept

(* What a client has stored when it asks for the next name is what the server  *)
(* has answered, for every content and every way to cut the stream.            *)
THEOREM TransferComplete == AllSpec => DownloadComplete
<1>1. AllInit => TypeInv /\ SyncInv
  BY TypeInit, TypeParts, SyncInit
<1>2. TypeInv /\ SyncInv /\ [AllNext]_allVars => (TypeInv /\ SyncInv)'
  BY InvStep
<1>3. TypeInv /\ SyncInv /\ [AllNext]_allVars =>
        [(Pending /\ prompt' /\ status' = "init" /\ status = "file" /\ Trusted /\ answer # NoAnswer)
           => local'[name] = answer]_vars
  BY DownloadWhole DEF Trusted, Pending
<1> QED
  BY <1>1, <1>2, <1>3, PTL DEF AllSpec, DownloadComplete
===============================================================================
