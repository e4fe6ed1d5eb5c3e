----------------------------- MODULE SelectServer -----------------------------
(* myTcpServerSelect (src/mytcpserver.c) and the                               *)
(* myWaitForMultipleObjectsArray it is built on (src/myother.c): one process   *)
(* serves up to maxChildCount clients, and each turn of its loop handles one   *)
(* ready descriptor.  The SelectChildTask is external: it handles one request, *)
(* or the end of the connection, of the client it is given.                    *)
EXTENDS Naturals, Sequences, FiniteSets

CONSTANTS
  MaxChildCount,
  Clients,
  Listener,      \* sockfd, the listening socket
  MaxRequests    \* bound: the requests a client sends in one connection

ASSUME MaxChildAssumption == MaxChildCount \in Nat
ASSUME ListenerAssumption == Listener \notin Clients
ASSUME RequestAssumption  == MaxRequests \in Nat

VARIABLES
  pc,            \* "select", "accept" or "task"
  sockfdArray,   \* the first sockfdCount entries of the array
  freeSockfd,    \* what myWaitForMultipleObjectsArray has returned
  open,          \* clients whose descriptor the process has open
  backlog,       \* the listening socket's queue
  unread,        \* requests of each client that were not read yet
  left,          \* requests each client may still send (at most MaxRequests)
  hungUp         \* clients that have closed their end

serverVars == <<pc, sockfdArray, freeSockfd, open>>
clientVars == <<left, hungUp>>
vars == <<serverVars, backlog, unread, clientVars>>

TypeOK ==
  /\ pc \in {"select", "accept", "task"}
  /\ sockfdArray \in Seq(Clients \cup {Listener}) /\ sockfdArray # <<>>
  /\ freeSockfd \in Nat
  /\ open \subseteq Clients
  /\ backlog \in Seq(Clients)
  /\ unread \in [Clients -> 0..MaxRequests] /\ left \in [Clients -> 0..MaxRequests]
  /\ hungUp \subseteq Clients

sockfdCount == Len(sockfdArray)
Queued      == {backlog[i] : i \in DOMAIN backlog}

\* Reading the descriptor would not block (end-of-file counts as readable).
Readable(fd) == IF fd = Listener THEN backlog # <<>>
                ELSE unread[fd] > 0 \/ fd \in hungUp

\* select() and the scan after it: the lowest ready position, counted from 1.
FirstReady(i) ==
  /\ i \in 1..sockfdCount /\ Readable(sockfdArray[i])
  /\ \A j \in 1..(i - 1) : ~Readable(sockfdArray[j])

-------------------------------------------------------------------------------
(* The server *)

\* Deviation: the full server is not tested for.
SelectUnbounded ==
  /\ pc = "select"
  /\ \E i \in 1..sockfdCount :
       /\ FirstReady(i)
       /\ freeSockfd' = i
       /\ pc' = IF i # 1 THEN "task" ELSE "accept"
  /\ UNCHANGED <<sockfdArray, open, backlog, unread, clientVars>>

\* Deviation: any position but the first is handled, ready or not.
SelectAny ==
  /\ pc = "select"
  /\ \E i \in 1..sockfdCount :
       /\ Readable(sockfdArray[1]) => i = 1
       /\ freeSockfd' = i
       /\ pc' = IF i # 1 THEN "task"
                ELSE IF sockfdCount - 1 = MaxChildCount THEN "select" ELSE "accept"
  /\ UNCHANGED <<sockfdArray, open, backlog, unread, clientVars>>

\* select() blocks until something is ready; a full server only warns about a
\* waiting connection and calls select() again.
Select ==
  /\ pc = "select"
  /\ \E i \in 1..sockfdCount :
       /\ FirstReady(i)
       /\ freeSockfd' = i
       /\ pc' = IF i # 1 THEN "task"
                ELSE IF sockfdCount - 1 = MaxChildCount THEN "select" ELSE "accept"
  /\ UNCHANGED <<sockfdArray, open, backlog, unread, clientVars>>

AcceptClient ==
  /\ pc = "accept" /\ backlog # <<>>
  /\ pc' = "select"
  /\ open' = open \cup {Head(backlog)}
  /\ sockfdArray' = Append(sockfdArray, Head(backlog))
  /\ backlog' = Tail(backlog)
  /\ UNCHANGED <<freeSockfd, unread, clientVars>>

\* The task reads one request and wants more.
TaskContinues ==
  /\ pc = "task"
  /\ LET c == sockfdArray[freeSockfd] IN
       /\ unread[c] > 0
       /\ unread' = [unread EXCEPT ![c] = @ - 1]
  /\ pc' = "select"
  /\ UNCHANGED <<sockfdArray, freeSockfd, open, backlog, clientVars>>

\* Deviation: the shift starts one entry late.
WithoutNext(array, k) == [i \in 1..(Len(array) - 1) |-> IF i <= k THEN array[i] ELSE array[i + 1]]

\* Deviation: sockfdCount is decremented in the loop and after it.
WithoutTwo(array, k) == [i \in 1..(Len(array) - 2) |-> IF i < k THEN array[i] ELSE array[i + 1]]

\* The array without position k: the loop of lines 126-128.
Without(array, k) == [i \in 1..(Len(array) - 1) |-> IF i < k THEN array[i] ELSE array[i + 1]]

\* The task ends the session (end-of-file, or a request to quit): Close, shift.
TaskEnds ==
  /\ pc = "task"
  /\ LET c == sockfdArray[freeSockfd] IN
       /\ Readable(c)
       /\ open' = open \ {c}
       /\ unread' = [unread EXCEPT ![c] = 0]
  /\ sockfdArray' = Without(sockfdArray, freeSockfd)
  /\ pc' = "select"
  /\ UNCHANGED <<freeSockfd, backlog, clientVars>>

Server == Select \/ AcceptClient \/ TaskContinues \/ TaskEnds

-------------------------------------------------------------------------------
(* The clients *)

Connected(c) == c \in Queued \cup open

Connect(c) ==
  /\ ~Connected(c)
  /\ backlog' = Append(backlog, c)
  /\ left' = [left EXCEPT ![c] = MaxRequests] /\ hungUp' = hungUp \ {c}
  /\ UNCHANGED <<serverVars, unread>>

Send(c) ==
  /\ Connected(c) /\ c \notin hungUp /\ left[c] > 0
  /\ unread' = [unread EXCEPT ![c] = @ + 1]
  /\ left' = [left EXCEPT ![c] = @ - 1]
  /\ UNCHANGED <<serverVars, backlog, hungUp>>

HangUp(c) ==
  /\ Connected(c) /\ c \notin hungUp
  /\ hungUp' = hungUp \cup {c}
  /\ UNCHANGED <<serverVars, backlog, unread, left>>

-------------------------------------------------------------------------------

Init ==
  /\ pc = "select" /\ sockfdArray = <<Listener>> /\ freeSockfd = 0 /\ open = {}
  /\ backlog = <<>>
  /\ unread = [c \in Clients |-> 0] /\ left = [c \in Clients |-> 0]
  /\ hungUp = {}

Next == Server \/ \E c \in Clients : Connect(c) \/ Send(c) \/ HangUp(c)

Spec == Init /\ [][Next]_vars

\* The process runs; clients owe nothing.
FairSpec == Spec /\ WF_vars(Server)

-------------------------------------------------------------------------------
(* Properties *)

\* The array mirrors the open descriptors, one entry each, after any sequence of
\* accepts and shifts, and fits the maxChildCount + 1 entries of the malloc.
ArrayMirrorsDescriptors ==
  /\ sockfdArray[1] = Listener /\ sockfdCount <= MaxChildCount + 1
  /\ {sockfdArray[i] : i \in 2..sockfdCount} = open
  /\ \A i, j \in 1..sockfdCount : sockfdArray[i] = sockfdArray[j] => i = j

\* What the loop does next does not block: the connection to accept is there, and
\* so is the input of the client the task gets, although both were seen earlier.
NeverBlocksOutsideSelect ==
  /\ pc = "accept" => backlog # <<>>
  /\ pc = "task" => freeSockfd \in 2..sockfdCount /\ Readable(sockfdArray[freeSockfd])

Admission == INSTANCE BoundedAdmission
               WITH capacity <- MaxChildCount, waiting <- backlog, serving <- open

\* Clients are accepted in arrival order, at most maxChildCount at the same time.
AdmitsInOrder == Admission!Spec

Full == sockfdCount - 1 = MaxChildCount

\* What an accepted client has sent is read, or its session ends, although the
\* scan prefers low positions: only a full server with a connection waiting (it
\* keeps select busy) or busier clients before it in the array can prevent that,
\* and those have at most MaxRequests requests each.
AcceptedServedUnlessFull ==
  \A c \in Clients :
    (c \in open /\ unread[c] > 0)
      ~> (c \notin open \/ unread[c] = 0 \/ (Full /\ backlog # <<>>))

\* The doc "serves up to maxChildCount clients in the same process"
\* (mytcpserver.h:79): what an accepted client has sent is read.
AcceptedClientServed ==
  \A c \in Clients : (c \in open /\ unread[c] > 0)
                       ~> (c \notin open \/ unread[c] = 0)
===============================================================================
