-------------------------- MODULE SelectServerProofs --------------------------
(* Proofs about SelectServer for every maxChildCount, every set of clients and *)
(* any number of requests.                                                     *)
EXTENDS SelectServer, QueueLemmas

-------------------------------------------------------------------------------
(* The invariant.  Its parts hold each other up: a step of the loop is safe    *)
(* because the array was right before it, and the array stays right because    *)
(* the loop acts on what select() has reported.                                *)

\* Nobody is in the queue twice, or in the queue and served.
QueueInv == Distinct(backlog) /\ Queued \cap open = {}

\* What a client may still send has room in its socket, and a client that is not
\* connected has nothing in it.
UnreadInv ==
  \A c \in Clients : /\ unread[c] + left[c] <= MaxRequests
                     /\ ~Connected(c) => unread[c] = 0

\* Between the test of line 111 and the accept of line 115 there is room.
RoomInv == pc = "accept" => sockfdCount <= MaxChildCount

ServerInv ==
  TypeOK /\ QueueInv /\ UnreadInv /\ ArrayMirrorsDescriptors /\ NeverBlocksOutsideSelect
  /\ RoomInv

(* The positions after the first hold the open descriptors, so a client that   *)
(* is not served has no place in the array.                                    *)
LEMMA ArrayEntries ==
  ASSUME TypeOK, ArrayMirrorsDescriptors
  PROVE  /\ sockfdCount \in Nat \ {0} /\ DOMAIN sockfdArray = 1..sockfdCount
         /\ Distinct(sockfdArray)
         /\ \A i \in 2..sockfdCount : sockfdArray[i] \in open
<1>1. sockfdCount \in Nat \ {0} /\ DOMAIN sockfdArray = 1..sockfdCount
  BY DEF TypeOK, sockfdCount
<1> QED
  BY <1>1 DEF ArrayMirrorsDescriptors, Distinct

(* Closing position k and shifting the later ones down leaves an array that    *)
(* mirrors the descriptors that are still open (lines 124 to 128).             *)
LEMMA ShiftMirrors ==
  ASSUME TypeOK, ArrayMirrorsDescriptors, NEW k \in 2..sockfdCount,
         sockfdArray' = Without(sockfdArray, k), open' = open \ {sockfdArray[k]}
  PROVE  /\ sockfdArray' \in Seq(Clients \cup {Listener}) /\ sockfdArray' # <<>>
         /\ Len(sockfdArray') = Len(sockfdArray) - 1
         /\ ArrayMirrorsDescriptors'
<1> DEFINE n == Len(sockfdArray)
<1>1. n \in Nat /\ n >= 2 /\ k \in 2..n
  BY DEF TypeOK, sockfdCount
<1>2. /\ sockfdArray' \in Seq(Clients \cup {Listener}) /\ Len(sockfdArray') = n - 1
      /\ \A i \in 1..(n - 1) : sockfdArray'[i] = IF i < k THEN sockfdArray[i] ELSE sockfdArray[i + 1]
  BY <1>1 DEF Without, TypeOK
<1>3. sockfdArray' # <<>>
  BY <1>1, <1>2
<1>4. sockfdArray'[1] = Listener /\ n - 1 <= MaxChildCount + 1
  BY <1>1, <1>2, MaxChildAssumption DEF ArrayMirrorsDescriptors, sockfdCount
<1>5. \A i, j \in 1..(n - 1) : sockfdArray'[i] = sockfdArray'[j] => i = j
  BY <1>1, <1>2 DEF ArrayMirrorsDescriptors, sockfdCount
<1>6. ASSUME NEW i \in 2..(n - 1) PROVE sockfdArray'[i] \in open'
  BY <1>1, <1>2 DEF ArrayMirrorsDescriptors, sockfdCount
<1>7. ASSUME NEW c \in open' PROVE \E i \in 2..(n - 1) : sockfdArray'[i] = c
  <2>1. PICK j \in 2..n : sockfdArray[j] = c
    BY DEF ArrayMirrorsDescriptors, sockfdCount
  <2>2. j # k
    BY <2>1
  <2>3. CASE j < k
    BY <1>1, <1>2, <2>1, <2>3
  <2>4. CASE j > k
    <3>1. j - 1 \in 2..(n - 1) /\ sockfdArray'[j - 1] = c
      BY <1>1, <1>2, <2>1, <2>4
    <3> QED
      BY <3>1
  <2> QED
    BY <1>1, <2>2, <2>3, <2>4
<1>8. {sockfdArray'[i] : i \in 2..(n - 1)} = open'
  BY <1>6, <1>7
<1> QED
  BY <1>2, <1>3, <1>4, <1>5, <1>8 DEF ArrayMirrorsDescriptors, sockfdCount

(* An accepted client gets the first place behind the array (lines 118, 119).  *)
LEMMA AcceptMirrors ==
  ASSUME TypeOK, ArrayMirrorsDescriptors, sockfdCount <= MaxChildCount,
         NEW c \in Clients, c \notin open,
         sockfdArray' = Append(sockfdArray, c), open' = open \cup {c}
  PROVE  /\ sockfdArray' \in Seq(Clients \cup {Listener}) /\ sockfdArray' # <<>>
         /\ ArrayMirrorsDescriptors'
<1> DEFINE n == Len(sockfdArray)
<1>1. n \in Nat \ {0} /\ n <= MaxChildCount /\ DOMAIN sockfdArray = 1..n
  BY DEF TypeOK, sockfdCount
<1>2. /\ sockfdArray' \in Seq(Clients \cup {Listener}) /\ Len(sockfdArray') = n + 1
      /\ \A i \in 1..n : sockfdArray'[i] = sockfdArray[i]
      /\ sockfdArray'[n + 1] = c
  BY <1>1, Joined DEF TypeOK
<1>3. sockfdArray' # <<>> /\ sockfdArray'[1] = Listener
  BY <1>1, <1>2 DEF ArrayMirrorsDescriptors, sockfdCount
<1>4. \A i \in 1..n : sockfdArray[i] # c
  BY <1>1, ListenerAssumption DEF ArrayMirrorsDescriptors, sockfdCount
<1>5. \A i, j \in 1..(n + 1) : sockfdArray'[i] = sockfdArray'[j] => i = j
  BY <1>1, <1>2, <1>4 DEF ArrayMirrorsDescriptors, sockfdCount
<1>6. {sockfdArray'[i] : i \in 2..(n + 1)} = {sockfdArray[i] : i \in 2..n} \cup {c}
  <2>1. 2..(n + 1) = (2..n) \cup {n + 1}
    BY <1>1
  <2> QED
    BY <1>1, <1>2, <2>1
<1> QED
  BY <1>1, <1>2, <1>3, <1>5, <1>6, MaxChildAssumption DEF ArrayMirrorsDescriptors, sockfdCount

-------------------------------------------------------------------------------
(* The clients in the queue are its elements.                                  *)
LEMMA QueuedElements == Queued = Elements(backlog) /\ Queued' = Elements(backlog')
  BY DEF Queued, Elements

(* The invariant holds at first ...                                            *)
LEMMA ServerInit == Init => ServerInv
<1> SUFFICES ASSUME Init PROVE ServerInv
  OBVIOUS
<1>1. /\ sockfdArray = <<Listener>> /\ Len(sockfdArray) = 1 /\ sockfdArray[1] = Listener
      /\ sockfdArray \in Seq(Clients \cup {Listener})
  BY DEF Init
<1>2. backlog \in Seq(Clients) /\ Elements(backlog) = {} /\ Distinct(backlog)
  BY Deserted DEF Init
<1>3. TypeOK
  BY <1>1, <1>2, RequestAssumption DEF Init, TypeOK
<1>4. QueueInv /\ UnreadInv /\ RoomInv /\ NeverBlocksOutsideSelect
  BY <1>2, RequestAssumption
     DEF Init, QueueInv, UnreadInv, RoomInv, NeverBlocksOutsideSelect
<1>5. ArrayMirrorsDescriptors
  BY <1>1, MaxChildAssumption DEF Init, ArrayMirrorsDescriptors, sockfdCount
<1> QED
  BY <1>3, <1>4, <1>5 DEF ServerInv

(* ... and every step keeps it: those of the loop, in the order of the code,   *)
(* then those of the clients.                                                  *)
LEMMA SelectKeeps == ASSUME ServerInv, Select PROVE ServerInv'
<1> PICK i \in 1..sockfdCount :
      /\ FirstReady(i) /\ freeSockfd' = i
      /\ pc' = IF i # 1 THEN "task"
               ELSE IF sockfdCount - 1 = MaxChildCount THEN "select" ELSE "accept"
  BY DEF Select
<1>1. sockfdCount \in Nat \ {0} /\ sockfdCount <= MaxChildCount + 1 /\ sockfdArray[1] = Listener
  BY ArrayEntries DEF ServerInv, ArrayMirrorsDescriptors
<1>2. TypeOK' /\ QueueInv' /\ UnreadInv' /\ ArrayMirrorsDescriptors'
  BY <1>1 DEF Select, clientVars, ServerInv, TypeOK, QueueInv, Queued, UnreadInv, Connected,
     ArrayMirrorsDescriptors, sockfdCount
<1>3. RoomInv'
  BY <1>1, MaxChildAssumption DEF Select, RoomInv, sockfdCount
<1>4. NeverBlocksOutsideSelect'
  <2>1. Readable(sockfdArray[i])
    BY DEF FirstReady
  <2>2. pc' = "accept" => backlog # <<>>
    BY <1>1, <2>1 DEF Readable
  <2>3. pc' = "task" => i \in 2..sockfdCount
    BY <1>1
  <2> QED
    BY <2>1, <2>2, <2>3 DEF Select, clientVars, NeverBlocksOutsideSelect, Readable, sockfdCount
<1> QED
  BY <1>2, <1>3, <1>4 DEF ServerInv

LEMMA AcceptKeeps == ASSUME ServerInv, AcceptClient PROVE ServerInv'
<1> DEFINE c == Head(backlog)
<1>1. /\ c \in Clients /\ c \notin open /\ Queued = Queued' \cup {c}
      /\ Distinct(backlog') /\ c \notin Queued' /\ backlog' \in Seq(Clients)
  <2>1. backlog \in Seq(Clients) /\ backlog # <<>> /\ Distinct(backlog) /\ backlog' = Tail(backlog)
    BY DEF AcceptClient, ServerInv, TypeOK, QueueInv
  <2>2. /\ c \in Clients /\ backlog' \in Seq(Clients) /\ c \in Queued
        /\ Queued = Queued' \cup {c} /\ Distinct(backlog') /\ c \notin Queued'
    BY <2>1, Departed, QueuedElements
  <2> QED
    BY <2>2 DEF ServerInv, QueueInv
<1>2. sockfdCount <= MaxChildCount
  BY DEF AcceptClient, ServerInv, RoomInv
<1>3. /\ sockfdArray' \in Seq(Clients \cup {Listener}) /\ sockfdArray' # <<>>
      /\ ArrayMirrorsDescriptors'
  BY <1>1, <1>2, AcceptMirrors DEF AcceptClient, ServerInv
<1>4. TypeOK'
  BY <1>1, <1>3 DEF AcceptClient, clientVars, ServerInv, TypeOK
<1>5. QueueInv' /\ UnreadInv'
  BY <1>1 DEF AcceptClient, clientVars, ServerInv, QueueInv, UnreadInv, Connected
<1>6. RoomInv' /\ NeverBlocksOutsideSelect'
  BY DEF AcceptClient, RoomInv, NeverBlocksOutsideSelect
<1> QED
  BY <1>3, <1>4, <1>5, <1>6 DEF ServerInv

(* The client whose descriptor the task has got.                               *)
LEMMA TaskClient ==
  ASSUME ServerInv, pc = "task"
  PROVE  /\ freeSockfd \in 2..sockfdCount
         /\ sockfdArray[freeSockfd] \in open /\ sockfdArray[freeSockfd] \in Clients
  BY ArrayEntries DEF ServerInv, NeverBlocksOutsideSelect, TypeOK

LEMMA TaskContinuesKeeps == ASSUME ServerInv, TaskContinues PROVE ServerInv'
<1> DEFINE c == sockfdArray[freeSockfd]
<1>1. c \in Clients /\ unread[c] > 0 /\ unread' = [unread EXCEPT ![c] = @ - 1]
  BY TaskClient DEF TaskContinues
<1>2. TypeOK' /\ UnreadInv'
  BY SMTT(30), <1>1, RequestAssumption DEF TaskContinues, clientVars, ServerInv, TypeOK, UnreadInv, Connected, Queued
<1>3. QueueInv' /\ ArrayMirrorsDescriptors' /\ RoomInv' /\ NeverBlocksOutsideSelect'
  BY DEF TaskContinues, ServerInv, QueueInv, Queued, ArrayMirrorsDescriptors, sockfdCount,
     RoomInv, NeverBlocksOutsideSelect
<1> QED
  BY <1>2, <1>3 DEF ServerInv

LEMMA TaskEndsKeeps == ASSUME ServerInv, TaskEnds PROVE ServerInv'
<1> DEFINE c == sockfdArray[freeSockfd]
<1>1. /\ c \in Clients /\ c \in open /\ freeSockfd \in 2..sockfdCount
      /\ open' = open \ {c} /\ unread' = [unread EXCEPT ![c] = 0]
  BY TaskClient DEF TaskEnds
<1>2. /\ sockfdArray' \in Seq(Clients \cup {Listener}) /\ sockfdArray' # <<>>
      /\ ArrayMirrorsDescriptors'
  BY <1>1, ShiftMirrors DEF TaskEnds, ServerInv
<1>3. TypeOK'
  BY <1>1, <1>2, RequestAssumption DEF TaskEnds, clientVars, ServerInv, TypeOK
<1>4. QueueInv' /\ RoomInv' /\ NeverBlocksOutsideSelect'
  BY <1>1 DEF TaskEnds, ServerInv, QueueInv, Queued, RoomInv, NeverBlocksOutsideSelect
<1>5. UnreadInv'
  BY <1>1, RequestAssumption DEF TaskEnds, clientVars, ServerInv, TypeOK, UnreadInv, Connected, Queued
<1> QED
  BY <1>2, <1>3, <1>4, <1>5 DEF ServerInv

LEMMA ClientKeeps ==
  ASSUME ServerInv, NEW c \in Clients, Connect(c) \/ Send(c) \/ HangUp(c)
  PROVE  ServerInv'
<1>1. UNCHANGED serverVars
  BY DEF Connect, Send, HangUp
<1>2. ArrayMirrorsDescriptors'
  BY <1>1 DEF serverVars, ServerInv, ArrayMirrorsDescriptors, sockfdCount
<1>3. RoomInv'
  BY <1>1 DEF serverVars, ServerInv, RoomInv, sockfdCount
<1>4. CASE Connect(c)
  <2>1. /\ backlog' \in Seq(Clients) /\ backlog' # <<>> /\ Queued' = Queued \cup {c}
        /\ Distinct(backlog')
    <3>1. /\ backlog \in Seq(Clients) /\ Distinct(backlog) /\ c \notin Queued
          /\ backlog' = Append(backlog, c)
      BY <1>4 DEF Connect, Connected, ServerInv, TypeOK, QueueInv
    <3>2. backlog' # <<>>
      BY <3>1
    <3> QED
      BY <3>1, <3>2, Joined, QueuedElements
  <2>2. TypeOK' /\ UnreadInv'
    BY <1>4, <2>1, RequestAssumption
       DEF Connect, serverVars, ServerInv, TypeOK, UnreadInv, Connected
  <2>3. QueueInv'
    BY <1>4, <2>1 DEF Connect, Connected, serverVars, ServerInv, QueueInv
  <2>4. NeverBlocksOutsideSelect'
    <3>1. pc = "task" => sockfdArray[freeSockfd] # c /\ sockfdArray[freeSockfd] # Listener
      BY <1>4, TaskClient, ListenerAssumption DEF Connect, Connected
    <3> QED
      BY <1>4, <2>1, <3>1
         DEF Connect, serverVars, ServerInv, NeverBlocksOutsideSelect, Readable, sockfdCount
  <2> QED
    BY <1>2, <1>3, <2>2, <2>3, <2>4 DEF ServerInv
<1>5. CASE Send(c) \/ HangUp(c)
  <2>1. /\ backlog' = backlog /\ Queued' = Queued /\ open' = open /\ c \in Queued \cup open
        /\ \/ /\ left[c] > 0 /\ hungUp' = hungUp
              /\ unread' = [unread EXCEPT ![c] = @ + 1] /\ left' = [left EXCEPT ![c] = @ - 1]
           \/ hungUp' = hungUp \cup {c} /\ unread' = unread /\ left' = left
    BY <1>5 DEF Send, HangUp, Connected, serverVars, Queued
  <2>2. UnreadInv'
    BY <2>1, RequestAssumption DEF ServerInv, TypeOK, UnreadInv, Connected
  <2>3. /\ unread' \in [Clients -> 0..MaxRequests] /\ left' \in [Clients -> 0..MaxRequests]
        /\ \A d \in Clients : unread'[d] >= unread[d]
    <3>1. /\ unread \in [Clients -> 0..MaxRequests] /\ left \in [Clients -> 0..MaxRequests]
          /\ unread[c] + left[c] <= MaxRequests
      BY DEF ServerInv, TypeOK, UnreadInv
    <3>2. CASE left[c] > 0
      <4>1. unread[c] + 1 \in 0..MaxRequests /\ left[c] - 1 \in 0..MaxRequests
        BY <3>1, <3>2, RequestAssumption
      <4> QED
        BY <2>1, <3>1, <4>1, RequestAssumption
    <3>3. CASE unread' = unread /\ left' = left
      BY <3>1, <3>3, RequestAssumption
    <3> QED
      BY <2>1, <3>2, <3>3
  <2>4. TypeOK'
    BY <1>1, <2>1, <2>3 DEF serverVars, ServerInv, TypeOK
  <2>5. QueueInv'
    BY <2>1 DEF ServerInv, QueueInv
  <2>6. NeverBlocksOutsideSelect'
    <3>1. pc = "task" => sockfdArray[freeSockfd] \in Clients /\ sockfdArray[freeSockfd] # Listener
      BY TaskClient, ListenerAssumption
    <3>2. pc = "task" => Readable(sockfdArray[freeSockfd])'
      <4> SUFFICES ASSUME pc = "task" PROVE Readable(sockfdArray[freeSockfd])'
        OBVIOUS
      <4>1. Readable(sockfdArray[freeSockfd])
        BY DEF ServerInv, NeverBlocksOutsideSelect
      <4>2. unread'[sockfdArray[freeSockfd]] >= unread[sockfdArray[freeSockfd]]
            /\ unread[sockfdArray[freeSockfd]] \in Nat /\ hungUp \subseteq hungUp'
        BY <2>1, <2>3, <3>1 DEF ServerInv, TypeOK
      <4> QED
        BY <1>1, <2>3, <3>1, <4>1, <4>2 DEF Readable, serverVars
    <3> QED
      BY <1>1, <2>1, <3>2 DEF serverVars, ServerInv, NeverBlocksOutsideSelect, sockfdCount
  <2> QED
    BY <1>2, <1>3, <2>2, <2>4, <2>5, <2>6 DEF ServerInv
<1> QED
  BY <1>4, <1>5

LEMMA ServerStep == ServerInv /\ [Next]_vars => ServerInv'
<1>1. ASSUME ServerInv, UNCHANGED vars PROVE ServerInv'
  BY <1>1 DEF vars, serverVars, clientVars, ServerInv, TypeOK, QueueInv, Queued, UnreadInv,
     Connected, ArrayMirrorsDescriptors, sockfdCount, NeverBlocksOutsideSelect, Readable, RoomInv
<1> QED
  BY <1>1, SelectKeeps, AcceptKeeps, TaskContinuesKeeps, TaskEndsKeeps, ClientKeeps
     DEF Next, Server

LEMMA ServerInvariant == Spec => []ServerInv
  BY ServerInit, ServerStep, PTL DEF Spec

-------------------------------------------------------------------------------
(* Every variable of the select server keeps its type; in particular a client  *)
(* never has more unread input than it may send in one connection.             *)
THEOREM SelectTypeCorrect == Spec => []TypeOK
<1>1. ServerInv => TypeOK
  BY DEF ServerInv
<1> QED
  BY <1>1, ServerInvariant, PTL

(* The array of myTcpServerSelect holds the listening socket first, then every *)
(* open descriptor exactly once, and never overruns its malloc, after any      *)
(* sequence of accepts and shifts.                                             *)
THEOREM ArrayCorrect == Spec => []ArrayMirrorsDescriptors
<1>1. ServerInv => ArrayMirrorsDescriptors
  BY DEF ServerInv
<1> QED
  BY <1>1, ServerInvariant, PTL

(* The accept and the read that follow a select() never block.                 *)
THEOREM NeverBlocks == Spec => []NeverBlocksOutsideSelect
<1>1. ServerInv => NeverBlocksOutsideSelect
  BY DEF ServerInv
<1> QED
  BY <1>1, ServerInvariant, PTL

-------------------------------------------------------------------------------
(* The refinement.  The entries of the array behind the first are as many as   *)
(* the clients served, so the test on sockfdCount bounds those.                *)

LEMMA OpenCount ==
  ASSUME TypeOK, ArrayMirrorsDescriptors
  PROVE  IsFiniteSet(open) /\ Cardinality(open) = sockfdCount - 1
<1> DEFINE Entry == Elements(sockfdArray)
<1>1. sockfdCount \in Nat \ {0} /\ DOMAIN sockfdArray = 1..sockfdCount /\ Distinct(sockfdArray)
  BY ArrayEntries
<1>2. IsFiniteSet(Entry) /\ Cardinality(Entry) = sockfdCount
  BY <1>1, DistinctCount DEF TypeOK, sockfdCount
<1>3. Entry = open \cup {Listener} /\ Listener \notin open
  <2>1. DOMAIN sockfdArray = (2..sockfdCount) \cup {1}
    BY <1>1
  <2>2. Entry = {sockfdArray[i] : i \in 2..sockfdCount} \cup {sockfdArray[1]}
    BY <2>1 DEF Elements
  <2> QED
    BY <2>2, ListenerAssumption DEF ArrayMirrorsDescriptors, TypeOK
<1>4. open = Entry \ {Listener} /\ Listener \in Entry
  BY <1>3
<1> QED
  BY <1>1, <1>2, <1>4, FS_RemoveElement

(* Each step of the server or of a client is a step of BoundedAdmission, or    *)
(* leaves what that sees alone: accept admits the oldest client, the end of a  *)
(* task lets one go, connect() makes one arrive.                               *)
LEMMA StepAdmits ==
  ASSUME ServerInv, [Next]_vars
  PROVE  [Admission!Next]_(Admission!vars)
<1>1. CASE AcceptClient
  <2>1. IsFiniteSet(open) /\ Cardinality(open) = sockfdCount - 1 /\ sockfdCount \in Nat
    BY OpenCount DEF ServerInv, TypeOK, sockfdCount
  <2>2. Cardinality(open) < MaxChildCount
    BY <1>1, <2>1, MaxChildAssumption DEF AcceptClient, ServerInv, RoomInv
  <2>3. Admission!Cardinality(open) = Cardinality(open)
    BY DEF Admission!Cardinality, Cardinality, Admission!IsFiniteSet, IsFiniteSet
  <2>4. Admission!Admit
    BY <1>1, <2>2, <2>3 DEF AcceptClient, Admission!Admit
  <2> QED
    BY <2>4 DEF Admission!Next
<1>2. CASE TaskEnds
  <2>1. sockfdArray[freeSockfd] \in open
    BY <1>2, TaskClient DEF TaskEnds
  <2>2. open' = open \ {sockfdArray[freeSockfd]} /\ backlog' = backlog
    BY <1>2 DEF TaskEnds
  <2>3. Admission!Leave
    BY <2>1, <2>2 DEF Admission!Leave
  <2> QED
    BY <2>3 DEF Admission!Next
<1>3. ASSUME NEW c \in Clients, Connect(c) PROVE Admission!Next
  <2>1. Admission!Arrive(c)
    BY <1>3 DEF Connect, Connected, serverVars, Queued, Admission!Arrive, Admission!Queued
  <2> QED
    BY <2>1 DEF Admission!Next
<1>4. CASE Select \/ TaskContinues \/ UNCHANGED vars \/ \E c \in Clients : Send(c) \/ HangUp(c)
  BY <1>4 DEF Select, TaskContinues, vars, serverVars, Send, HangUp, Admission!vars
<1> QED
  BY <1>1, <1>2, <1>3, <1>4 DEF Next, Server

(* myTcpServerSelect implements the bounded admission of its header: for every *)
(* maxChildCount and every set of clients it accepts them in arrival order and *)
(* serves at most maxChildCount of them at the same time.                      *)
THEOREM SelectImplementsAdmission == Spec => AdmitsInOrder
<1>1. Init => Admission!Init
  BY MaxChildAssumption DEF Init, Admission!Init
<1>2. ServerInv /\ [Next]_vars => [Admission!Next]_(Admission!vars)
  BY StepAdmits
<1> QED
  BY <1>1, <1>2, ServerInvariant, PTL DEF Spec, AdmitsInOrder, Admission!Spec
===============================================================================
