---------------------------- MODULE UdpEchoProofs -----------------------------
(* Proofs about UdpLimit and UdpEcho for every limit, every number of server   *)
(* processes, clients, attempts and rounds, and every network.                 *)
EXTENDS UdpEcho, QueueLemmas

-------------------------------------------------------------------------------
(* The table.                                                                  *)

Entry == [client : Clients, numberOfDatagrams : 1..maxDatagrams]

\* What TypeOK says of each process's table.
Table(list) ==
  /\ list \in Seq(Entry) /\ Len(list) <= maxClients
  /\ \A i, j \in DOMAIN list : list[i].client = list[j].client => i = j

\* How many of c's datagrams the table has on record, as the set 1..n.
Granted(list, c) ==
  {k \in 1..maxDatagrams : \E i \in DOMAIN list : list[i].client = c /\ k <= list[i].numberOfDatagrams}

(* What Recognise does: the new entry comes last, behind all entries of a      *)
(* table with room, or behind all but the first of a full one.                 *)
LEMMA Recognised ==
  ASSUME NEW list, Table(list), NEW c \in Clients, searchForClient(list, c) = {}
  PROVE  LET s == IF Len(list) = maxClients THEN 1 ELSE 0
             n == Len(list) + 1 - s
             r == Recognise(list, c)
         IN  /\ r \in Seq(Entry) /\ Len(r) = n /\ n \in 1..maxClients
             /\ \A i \in 1..(n - 1) : i + s \in DOMAIN list /\ r[i] = list[i + s]
             /\ r[n] = [client |-> c, numberOfDatagrams |-> 1]
             /\ Table(r)
<1> DEFINE s == IF Len(list) = maxClients THEN 1 ELSE 0
           n == Len(list) + 1 - s
           r == Recognise(list, c)
           e == [client |-> c, numberOfDatagrams |-> 1]
           old == IF Len(list) = maxClients THEN Tail(list) ELSE list
<1>1. list \in Seq(Entry) /\ Len(list) \in 0..maxClients /\ DOMAIN list = 1..Len(list)
  BY LimitAssumption DEF Table
<1>2. e \in Entry
  BY LimitAssumption DEF Entry
<1>3. /\ s \in {0, 1} /\ (s = 1 <=> Len(list) = maxClients) /\ n = Len(list) + 1 - s
      /\ n \in 1..maxClients
  <2>1. CASE Len(list) = maxClients
    <3>1. s = 1
      BY <2>1
    <3> HIDE DEF s
    <3> QED
      BY <1>1, <2>1, <3>1, LimitAssumption
  <2>2. CASE Len(list) # maxClients
    <3>1. s = 0
      BY <2>2
    <3>2. maxClients \in Nat /\ Len(list) \in Nat /\ Len(list) < maxClients
      <4>1. maxClients \in Nat /\ Len(list) \in Nat /\ Len(list) <= maxClients
        BY LimitAssumption DEF Table
      <4> QED
        BY <4>1, <2>2
    <3>3. n = Len(list) + 1
      BY <3>1, <3>2
    <3> HIDE DEF s, n
    <3> QED
      BY <2>2, <3>1, <3>2, <3>3
  <2> QED
    BY <2>1, <2>2
<1>4. old = IF s = 1 THEN Tail(list) ELSE list
  BY <1>3
<1> HIDE DEF s, n
<1>5. /\ old \in Seq(Entry) /\ Len(old) = n - 1 /\ n \in 1..maxClients
      /\ \A i \in 1..(n - 1) : i + s \in 1..Len(list) /\ old[i] = list[i + s]
  <2>1. CASE Len(list) = maxClients
    <3>1. list # <<>>
      BY <1>1, <2>1, LimitAssumption
    <3>2. /\ Tail(list) \in Seq(Entry) /\ Len(Tail(list)) = Len(list) - 1
          /\ \A i \in 1..(Len(list) - 1) : Tail(list)[i] = list[i + 1]
      BY <1>1, <3>1
    <3> QED
      BY <1>1, <1>3, <1>4, <2>1, <3>2, LimitAssumption
  <2>2. CASE Len(list) # maxClients
    <3>1. s = 0 /\ n = Len(list) + 1
      BY <1>1, <1>3, <2>2
    <3>2. old = list
      BY <1>4, <3>1
    <3> HIDE DEF old
    <3> QED
      BY <1>1, <1>3, <3>1, <3>2
  <2> QED
    BY <2>1, <2>2
<1>6. r = Append(old, e)
  BY DEF Recognise
<1> HIDE DEF old, e, r
<1>7. /\ r \in Seq(Entry) /\ Len(r) = n /\ DOMAIN r = 1..n
      /\ \A i \in 1..(n - 1) : r[i] = old[i]
      /\ r[n] = e
  BY <1>2, <1>5, <1>6
<1>8. \A i \in 1..Len(list) : list[i].client # c
  BY <1>1 DEF searchForClient
<1>9. \A i, j \in DOMAIN r : r[i].client = r[j].client => i = j
  <2> SUFFICES ASSUME NEW i \in 1..n, NEW j \in 1..n, r[i].client = r[j].client PROVE i = j
    BY <1>7
  <2>1. e.client = c
    BY DEF e
  <2>2. CASE i # n /\ j # n
    <3>1. /\ i + s \in DOMAIN list /\ r[i] = list[i + s]
          /\ j + s \in DOMAIN list /\ r[j] = list[j + s]
      <4>1. i \in 1..(n - 1) /\ j \in 1..(n - 1)
        BY <1>3, <2>2
      <4> QED
        BY <1>1, <1>5, <1>7, <4>1
    <3>2. i + s = j + s
      BY <3>1 DEF Table
    <3> QED
      BY <1>3, <3>2
  <2>3. CASE i = n \/ j = n
    <3>1. \A k \in 1..(n - 1) : r[k].client # c
      BY <1>5, <1>7, <1>8
    <3>2. r[n].client = c
      BY <1>7, <2>1
    <3>3. \A k \in 1..n : k = n \/ k \in 1..(n - 1)
      BY <1>3
    <3> QED
      BY <2>3, <3>1, <3>2, <3>3
  <2> QED
    BY <2>2, <2>3
<1>10. Table(r)
  BY <1>5, <1>7, <1>9 DEF Table
<1> QED
  BY <1>1, <1>3, <1>5, <1>7, <1>10 DEF e, r, s, n

\* A count below the limit may be raised by one.
LEMMA Successor ==
  ASSUME NEW n \in 1..maxDatagrams
  PROVE  /\ n # maxDatagrams => n + 1 \in 1..maxDatagrams
         /\ n > maxDatagrams - 1 <=> n = maxDatagrams
  BY LimitAssumption

(* The call with a recognised client: the count of that client goes up by one  *)
(* until it has reached maxDatagrams.                                          *)
LEMMA CountedKnown ==
  ASSUME NEW list, Table(list), NEW c \in Clients, NEW k \in DOMAIN list, list[k].client = c
  PROVE  /\ searchForClient(list, c) = {k}
         /\ MayAnswer(list, c) <=> list[k].numberOfDatagrams # maxDatagrams
         /\ Counted(list, c) = IF MayAnswer(list, c)
                                 THEN [list EXCEPT ![k].numberOfDatagrams = @ + 1]
                                 ELSE list
         /\ Table(Counted(list, c))
<1>1. /\ list \in Seq(Entry) /\ Len(list) \in Nat /\ Len(list) <= maxClients
      /\ DOMAIN list = 1..Len(list) /\ list = [i \in DOMAIN list |-> list[i]]
  BY LimitAssumption DEF Table
<1>2. searchForClient(list, c) = {k}
  BY DEF searchForClient, Table
<1>3. MayAnswer(list, c) <=> list[k].numberOfDatagrams # maxDatagrams
  BY <1>2 DEF MayAnswer
<1>4. \A i \in DOMAIN list : list[i].client = c <=> i = k
  BY <1>2 DEF searchForClient
<1>7. list[k] \in Entry /\ list[k].numberOfDatagrams \in 1..maxDatagrams
  <2>1. list[k] \in Entry
    BY <1>1
  <2> QED
    BY <2>1 DEF Entry
<1>5. CASE MayAnswer(list, c)
  <2> DEFINE l == [list EXCEPT ![k].numberOfDatagrams = @ + 1]
  <2>1. Counted(list, c) = l
    BY <1>1, <1>2, <1>4, <1>5 DEF Counted
  <2>2. list[k].numberOfDatagrams + 1 \in 1..maxDatagrams
    BY <1>3, <1>5, <1>7, Successor
  <2>3. [list[k] EXCEPT !.numberOfDatagrams = @ + 1] \in Entry
    BY <1>7, <2>2 DEF Entry
  <2>4. /\ l \in Seq(Entry) /\ Len(l) = Len(list) /\ DOMAIN l = DOMAIN list
        /\ \A i \in DOMAIN list : l[i].client = list[i].client
    BY <1>1, <2>3 DEF Entry
  <2>5. Table(l)
    BY <1>1, <2>4 DEF Table
  <2> QED
    BY <1>2, <1>3, <1>5, <2>1, <2>5
<1>6. CASE ~MayAnswer(list, c)
  <2>1. Counted(list, c) = list
    BY <1>1, <1>2, <1>6 DEF Counted
  <2> QED
    BY <1>2, <1>3, <1>6, <2>1
<1> QED
  BY <1>5, <1>6

(* myUdpLimitClients keeps a table a table.                                    *)
LEMMA CountedTable ==
  ASSUME NEW list, Table(list), NEW c \in Clients
  PROVE  Table(Counted(list, c))
<1>1. CASE searchForClient(list, c) = {}
  BY <1>1, Recognised DEF Counted
<1>2. CASE searchForClient(list, c) # {}
  BY <1>2, CountedKnown DEF searchForClient
<1> QED
  BY <1>1, <1>2

(* The older server, which has a reversed comparison, another limit and a      *)
(* shift written by position, decides and counts exactly like the library.     *)
THEOREM OldTableSame ==
  ASSUME NEW list, Table(list), NEW c \in Clients
  PROVE  OldCounted(list, c) = Counted(list, c) /\ (OldMayAnswer(list, c) <=> MayAnswer(list, c))
<1>1. list \in Seq(Entry) /\ Len(list) \in Nat /\ Len(list) <= maxClients
      /\ DOMAIN list = 1..Len(list)
  BY LimitAssumption DEF Table
<1>2. OldFound(list, c) = searchForClient(list, c)
  BY <1>1 DEF OldFound, searchForClient, Table
<1>3. OldMayAnswer(list, c) <=> MayAnswer(list, c)
  <2>1. \A i \in DOMAIN list : list[i].numberOfDatagrams > maxDatagrams - 1
                             <=> list[i].numberOfDatagrams = maxDatagrams
    <3>1. \A i \in DOMAIN list : list[i].numberOfDatagrams \in 1..maxDatagrams
      <4>1. \A i \in DOMAIN list : list[i] \in Entry
        BY <1>1
      <4> QED
        BY <4>1 DEF Entry
    <3> QED
      BY <3>1, Successor
  <2> QED
    BY <1>2, <2>1 DEF OldMayAnswer, MayAnswer, searchForClient
<1>4. CASE searchForClient(list, c) # {}
  <2>1. \A i \in DOMAIN list : i \in OldFound(list, c) <=> list[i].client = c
    BY <1>2 DEF searchForClient
  <2> QED
    BY <1>2, <1>3, <1>4, <2>1 DEF OldCounted, Counted
<1>5. CASE searchForClient(list, c) = {}
  <2> DEFINE s == IF Len(list) = maxClients THEN 1 ELSE 0
             n == Len(list) + 1 - s
             last == IF Len(list) = maxClients THEN maxClients ELSE Len(list) + 1
             r == Recognise(list, c)
             o == OldShifted(list, c)
             e == [client |-> c, numberOfDatagrams |-> 1]
  <2>1. /\ r \in Seq(Entry) /\ Len(r) = n /\ n \in 1..maxClients
        /\ \A i \in 1..(n - 1) : r[i] = list[i + s]
        /\ r[n] = e
    BY <1>5, Recognised
  <2>2. last = n
    <3>1. CASE Len(list) = maxClients
      BY <1>1, <3>1
    <3>2. CASE Len(list) # maxClients
      BY <1>1, <3>2
    <3> QED
      BY <3>1, <3>2
  <2>3. o = [i \in 1..n |-> IF i = n THEN e ELSE list[i + s]]
    <3>1. CASE Len(list) = maxClients
      <4>1. last = maxClients /\ n = maxClients /\ s = 1
        BY <2>2, <3>1
      <4> QED
        BY <3>1, <4>1 DEF OldShifted
    <3>2. CASE Len(list) # maxClients
      <4>1. last = Len(list) + 1 /\ n = Len(list) + 1 /\ s = 0
        BY <2>2, <3>2
      <4>2. \A i \in 1..n : i + s = i
        BY <1>1, <4>1
      <4> QED
        BY <3>2, <4>1, <4>2 DEF OldShifted
    <3> QED
      BY <3>1, <3>2
  <2>4. r = o
    <3>1. DOMAIN r = 1..n /\ r = [i \in 1..n |-> r[i]]
      BY <2>1
    <3> HIDE DEF s, n, r, o, e
    <3>2. \A i \in 1..n : r[i] = IF i = n THEN e ELSE list[i + s]
      BY <2>1
    <3> QED
      BY <2>3, <3>1, <3>2
  <2>5. OldCounted(list, c) = o /\ Counted(list, c) = r
    BY <1>2, <1>5 DEF OldCounted, Counted
  <2> QED
    BY <1>3, <2>4, <2>5
<1> QED
  BY <1>4, <1>5

-------------------------------------------------------------------------------
(* The invariants.                                                             *)

\* Nothing is on its way, and nobody waits, in a round that has not begun.
TypeInv ==
  /\ TypeOK
  /\ got \in [Clients -> Nat]
  /\ \A c \in waiting : round[c] # 0
  /\ \A m \in net : m.round <= round[m.client]

\* When datagrams can only be lost, a client in a round has at most one of them on
\* its way, and it is of this round; a client between rounds has none.
Fresh ==
  /\ \A m \in net : m.client \in waiting /\ m.round = round[m.client]
  /\ \A m, n \in net : m.client = n.client => m = n
  /\ \A c \in Clients : got[c] \in {0, round[c]}

FreshInv == network \subseteq {"lose"} => Fresh

\* The answers to client c that the tables account for.
Slots(c) == {s \in Procs \X (1..maxDatagrams) : s[2] \in Granted(clientList[s[1]], c)}

\* Unless a client has been driven out of a table, every answer is accounted for.
SlotsInv ==
  Cardinality(Clients) <= maxClients =>
    \A c \in Clients : answered[c] = Cardinality(Slots(c))

-------------------------------------------------------------------------------
(* The steps.                                                                  *)

(* Every process answers like the library.                                     *)
LEMMA ServersAlike ==
  ASSUME TypeOK, NEW p \in Procs, Serve(p) \/ OldServe(p)
  PROVE  /\ Table(clientList[p])
         /\ \E m \in net :
              Answer(p, m, Counted(clientList[p], m.client), MayAnswer(clientList[p], m.client))
<1>1. Table(clientList[p])
  <2>1. clientList[p] \in Seq(Entry)
    BY DEF TypeOK, Entry
  <2> QED
    BY <2>1 DEF TypeOK, Table
<1>2. CASE Serve(p)
  BY <1>1, <1>2 DEF Serve, Requests
<1>3. CASE OldServe(p)
  <2>1. PICK m \in net :
          Answer(p, m, OldCounted(clientList[p], m.client), OldMayAnswer(clientList[p], m.client))
    BY <1>3 DEF OldServe, Requests
  <2>2. m.client \in Clients
    BY DEF TypeOK, Datagrams
  <2> DEFINE list == clientList[p]
  <2>3. /\ OldCounted(list, m.client) = Counted(list, m.client)
        /\ OldMayAnswer(list, m.client) <=> MayAnswer(list, m.client)
    BY <1>1, <2>2, OldTableSame
  <2>4. Answer(p, m, Counted(list, m.client), MayAnswer(list, m.client))
    BY <2>1, <2>3 DEF Answer
  <2> QED
    BY <1>1, <2>4
<1> QED
  BY <1>2, <1>3

\* Datagrams are lost, or dropped with a server that ends or has ended.
Drops ==
  /\ net' \subseteq net /\ gone' \subseteq OldProcs
  /\ UNCHANGED <<kind, network, clientList, clientVars, answered>>

(* Every step is one of these.                                                 *)
LEMMA Steps ==
  ASSUME TypeOK, [Next]_vars
  PROVE  \/ \E p \in Procs, m \in net :
              /\ Table(clientList[p])
              /\ Answer(p, m, Counted(clientList[p], m.client), MayAnswer(clientList[p], m.client))
         \/ \E c \in Clients : Start(c) \/ Timeout(c) \/ GetReply(c)
         \/ Drops
         \/ UNCHANGED vars
<1>1. ASSUME NEW p \in Procs, OldServerEnds(p) PROVE Drops
  BY <1>1 DEF OldServerEnds, Drops, Taken, TypeOK
<1>2. CASE Lose
  BY <1>2 DEF Lose, Drops, TypeOK
<1>3. CASE Unserved
  BY <1>3 DEF Unserved, Drops, TypeOK
<1> QED
  BY <1>1, <1>2, <1>3, ServersAlike DEF Next, Client22, OldClient22, Client21

(* A request and its reply agree on client and round.                          *)
LEMMA Replied ==
  ASSUME NEW m \in Datagrams
  PROVE  LET r == [m EXCEPT !.kind = "reply"]
         IN  /\ r \in Datagrams /\ r.client = m.client /\ r.round = m.round
             /\ m.client \in Clients /\ m.round \in Nat \ {0}
  BY DEF Datagrams

(* What an answered or refused datagram leaves on the network.                 *)
LEMMA AnsweredNet ==
  ASSUME TypeOK, NEW p \in Procs, NEW m \in net, NEW list, NEW allowed, Answer(p, m, list, allowed)
  PROVE  /\ net' \subseteq Datagrams
         /\ \A n \in net' : \E o \in net : n.client = o.client /\ n.round = o.round
         /\ "duplicate" \notin network =>
              \A n \in net' : (n \in net /\ n # m) \/ n = [m EXCEPT !.kind = "reply"]
<1> DEFINE r == [m EXCEPT !.kind = "reply"]
<1>1. net \subseteq Datagrams /\ r \in Datagrams /\ r.client = m.client /\ r.round = m.round
  BY Replied DEF TypeOK
<1>2. PICK rest \in Taken(m) : net' = rest \/ net' = rest \cup {r}
  BY DEF Answer
<1>3. rest \subseteq net /\ ("duplicate" \notin network => rest = net \ {m})
  BY <1>2 DEF Taken
<1> HIDE DEF r
<1>4. \A n \in net' : n \in rest \/ n = r
  BY <1>2
<1>5. \A n \in net' : n \in Datagrams
  BY <1>1, <1>3, <1>4
<1>6. \A n \in net' : \E o \in net : n.client = o.client /\ n.round = o.round
  BY <1>1, <1>3, <1>4
<1>7. "duplicate" \notin network => \A n \in net' : (n \in net /\ n # m) \/ n = r
  BY <1>3, <1>4
<1> QED
  BY <1>5, <1>6, <1>7 DEF r

(* The requests that clients send.                                             *)
LEMMA Requested ==
  ASSUME NEW c \in Clients, NEW r \in Nat \ {0}, NEW i \in 1..MAX_ATTEMPTS
  PROVE  /\ Request(c, r, i) \in Datagrams
         /\ Request(c, r, i).client = c /\ Request(c, r, i).round = r
  BY DEF Request, Datagrams

(* At first nobody waits and no table has an entry.                            *)
LEMMA TypeInvInit ==
  ASSUME Init
  PROVE  TypeInv
<1>1. /\ <<>> \in Seq([client : Clients, numberOfDatagrams : 1..maxDatagrams])
      /\ Len(<<>>) = 0 /\ DOMAIN <<>> = 1..0
  OBVIOUS
<1>2. clientList \in [Procs -> Seq([client : Clients, numberOfDatagrams : 1..maxDatagrams])]
  BY <1>1 DEF Init
<1>3. \A p \in Procs :
        /\ Len(clientList[p]) <= maxClients
        /\ \A i, j \in DOMAIN clientList[p] :
             clientList[p][i].client = clientList[p][j].client => i = j
  BY <1>1, LimitAssumption DEF Init
<1>4. attempt \in [Clients -> 0..MAX_ATTEMPTS]
  BY AttemptAssumption DEF Init
<1> QED
  BY <1>2, <1>3, <1>4 DEF Init, TypeInv, TypeOK

(* Every step keeps the variables in their types.                              *)
LEMMA TypeInvStep ==
  ASSUME TypeInv, [Next]_vars
  PROVE  TypeInv'
<1> USE DEF TypeInv
<1> DEFINE T == Seq([client : Clients, numberOfDatagrams : 1..maxDatagrams])
<1>1. ASSUME NEW p \in Procs, NEW m \in net, Table(clientList[p]),
             Answer(p, m, Counted(clientList[p], m.client), MayAnswer(clientList[p], m.client))
      PROVE  TypeInv'
  <2> DEFINE new == Counted(clientList[p], m.client)
  <2>1. m \in Datagrams /\ m.client \in Clients
    BY Replied DEF TypeOK
  <2>2. Table(new)
    BY <1>1, <2>1, CountedTable
  <2>3. new \in T /\ Len(new) <= maxClients
        /\ \A i, j \in DOMAIN new : new[i].client = new[j].client => i = j
    BY <2>2 DEF Table, Entry
  <2>4. clientList' = [clientList EXCEPT ![p] = new] /\ UNCHANGED <<kind, network, gone, clientVars>>
    BY <1>1 DEF Answer
  <2>5. answered' \in [Clients -> Nat]
    <3>1. answered' = answered \/ answered' = [answered EXCEPT ![m.client] = @ + 1]
      BY <1>1 DEF Answer
    <3>2. answered \in [Clients -> Nat] /\ m.client \in Clients
      BY <2>1 DEF TypeOK
    <3> QED
      BY <3>1, <3>2
  <2> HIDE DEF new, T
  <2>6. clientList' \in [Procs -> T] /\ \A q \in Procs : clientList'[q] = new \/ clientList'[q] = clientList[q]
    BY <2>3, <2>4 DEF TypeOK, T
  <2>7. /\ net' \subseteq Datagrams
        /\ \A n \in net' : \E o \in net : n.client = o.client /\ n.round = o.round
    BY <1>1, AnsweredNet
  <2>8. \A n \in net' : n.round <= round[n.client]
    BY <2>7
  <2>9. \A q \in Procs :
          /\ Len(clientList'[q]) <= maxClients
          /\ \A i, j \in DOMAIN clientList'[q] :
               clientList'[q][i].client = clientList'[q][j].client => i = j
    BY <2>3, <2>6 DEF TypeOK
  <2> QED
    BY <2>4, <2>5, <2>6, <2>7, <2>8, <2>9 DEF TypeOK, clientVars, T
<1>2. ASSUME NEW c \in Clients, Start(c)
      PROVE  TypeInv'
  <2>1. round[c] \in Nat /\ round[c] + 1 \in Nat \ {0} /\ 1 \in 1..MAX_ATTEMPTS
        /\ 1 \in 0..MAX_ATTEMPTS
    BY AttemptAssumption DEF TypeOK
  <2> DEFINE q == Request(c, round[c] + 1, 1)
  <2>2. q \in Datagrams /\ q.client = c /\ q.round = round[c] + 1
    BY <2>1, Requested
  <2> HIDE DEF q
  <2>3. /\ waiting' = waiting \cup {c} /\ round' = [round EXCEPT ![c] = @ + 1]
        /\ attempt' = [attempt EXCEPT ![c] = 1] /\ got' = [got EXCEPT ![c] = 0]
        /\ net' = net \cup {q} /\ UNCHANGED <<kind, network, clientList, gone, answered>>
    BY <1>2 DEF Start, q
  <2>4. round' \in [Clients -> Nat] /\ \A d \in Clients : round[d] <= round'[d] /\ round[d] \in Nat /\ round'[d] \in Nat
    BY <2>1, <2>3 DEF TypeOK
  <2>5. round'[c] = round[c] + 1
    BY <2>3 DEF TypeOK
  <2>6. got' \in [Clients -> Nat] /\ \A d \in Clients : got'[d] \in 0..round'[d]
    BY <2>3, <2>4 DEF TypeOK
  <2>7. \A n \in net' : n \in Datagrams /\ n.round <= round'[n.client]
    <3> SUFFICES ASSUME NEW n \in net' PROVE n \in Datagrams /\ n.round <= round'[n.client]
      OBVIOUS
    <3>1. CASE n \in net
      <4>1. n \in Datagrams /\ n.round <= round[n.client]
        BY <3>1 DEF TypeOK
      <4>2. n.client \in Clients /\ n.round \in Nat
        BY <4>1, Replied
      <4> QED
        BY <2>4, <4>1, <4>2
    <3>2. CASE n = q
      BY <2>1, <2>2, <2>5, <3>2
    <3> QED
      BY <2>3, <3>1, <3>2
  <2>8. attempt' \in [Clients -> 0..MAX_ATTEMPTS]
    BY <2>1, <2>3 DEF TypeOK
  <2>9. \A d \in waiting' : round'[d] # 0
    BY <2>1, <2>3, <2>4, <2>5 DEF TypeOK
  <2> QED
    BY <2>3, <2>4, <2>6, <2>7, <2>8, <2>9 DEF TypeOK
<1>3. ASSUME NEW c \in Clients, Timeout(c)
      PROVE  TypeInv'
  <2>1. UNCHANGED <<kind, network, clientList, gone, round, got, answered>> /\ waiting' \subseteq waiting
    BY <1>3 DEF Timeout
  <2>2. CASE attempt[c] < MAX_ATTEMPTS /\ round[c] \in Nat \ {0}
    <3>1. attempt[c] + 1 \in 1..MAX_ATTEMPTS
      BY <2>2, AttemptAssumption DEF TypeOK
    <3> DEFINE q == Request(c, round[c], attempt[c] + 1)
    <3>2. q \in Datagrams /\ q.client = c /\ q.round = round[c]
      BY <2>2, <3>1, Requested
    <3> HIDE DEF q
    <3>3. attempt' = [attempt EXCEPT ![c] = @ + 1] /\ net' = net \cup {q}
      BY <1>3, <2>2 DEF Timeout, q
    <3>4. attempt' \in [Clients -> 0..MAX_ATTEMPTS]
      BY <3>1, <3>3 DEF TypeOK
    <3>5. \A n \in net' : n \in Datagrams /\ n.round <= round[n.client]
      BY <2>2, <3>2, <3>3 DEF TypeOK
    <3> QED
      BY <2>1, <3>4, <3>5 DEF TypeOK
  <2>3. CASE ~(attempt[c] < MAX_ATTEMPTS)
    BY <1>3, <2>1, <2>3 DEF Timeout, TypeOK
  <2>4. round[c] \in Nat \ {0}
    BY <1>3 DEF Timeout, TypeOK
  <2> QED
    BY <2>2, <2>3, <2>4
<1>4. ASSUME NEW c \in Clients, GetReply(c)
      PROVE  TypeInv'
  <2>1. PICK m \in net : m.client = c /\ net' \in Taken(m) /\ got' = [got EXCEPT ![c] = m.round]
    BY <1>4 DEF GetReply, RepliesFor
  <2>2. m.round \in Nat /\ m.round <= round[c] /\ round[c] \in Nat
    BY <2>1, Replied DEF TypeOK
  <2>3. net' \subseteq net
    BY <2>1 DEF Taken
  <2>4. /\ UNCHANGED <<kind, network, clientList, gone, attempt, round, answered>>
        /\ waiting' = waiting \ {c}
    BY <1>4 DEF GetReply
  <2>5. got' \in [Clients -> Nat] /\ \A d \in Clients : got'[d] \in 0..round[d]
    BY <2>1, <2>2 DEF TypeOK
  <2> QED
    BY <2>3, <2>4, <2>5 DEF TypeOK
<1>5. CASE Drops
  <2>1. /\ net' \subseteq net /\ gone' \subseteq OldProcs
        /\ UNCHANGED <<kind, network, clientList, clientVars, answered>>
    BY <1>5 DEF Drops
  <2> QED
    BY <2>1 DEF TypeOK, clientVars
<1>6. CASE UNCHANGED vars
  BY <1>6 DEF vars, clientVars, TypeOK
<1> QED
  BY <1>1, <1>2, <1>3, <1>4, <1>5, <1>6, Steps

-------------------------------------------------------------------------------
(* A network that only loses datagrams.                                        *)

\* At first nothing is on its way.
LEMMA FreshInvInit ==
  ASSUME Init
  PROVE  FreshInv
  BY DEF Init, FreshInv, Fresh

(* Every step keeps what is on its way fresh and single.                       *)
LEMMA FreshInvStep ==
  ASSUME TypeInv, FreshInv, [Next]_vars
  PROVE  FreshInv'
<1>1. network' = network
  BY DEF Next, vars, Serve, OldServe, Answer, Client22, OldClient22, Client21, Start, Timeout,
         GetReply, Lose, OldServerEnds, Unserved
<1> SUFFICES ASSUME network \subseteq {"lose"}
             PROVE  Fresh'
  BY <1>1 DEF FreshInv
<1> USE DEF Fresh
<1>2. /\ \A m \in net : m.client \in waiting /\ m.round = round[m.client]
      /\ \A m, n \in net : m.client = n.client => m = n
      /\ \A c \in Clients : got[c] \in {0, round[c]}
  BY DEF FreshInv
<1>3. "duplicate" \notin network /\ "delay" \notin network
  OBVIOUS
<1>t. /\ net \subseteq Datagrams /\ waiting \subseteq Clients
      /\ got \in [Clients -> Nat] /\ round \in [Clients -> Nat]
  BY DEF TypeInv, TypeOK
<1>4. ASSUME net' \subseteq net, UNCHANGED clientVars
      PROVE  Fresh'
  BY <1>2, <1>4 DEF clientVars
<1>5. ASSUME NEW p \in Procs, NEW m \in net, NEW list, NEW allowed, Answer(p, m, list, allowed)
      PROVE  Fresh'
  <2> DEFINE r == [m EXCEPT !.kind = "reply"]
  <2>1. m \in Datagrams /\ r.client = m.client /\ r.round = m.round
    BY <1>t, Replied
  <2>2. TypeOK
    BY DEF TypeInv
  <2>3. \A n \in net' : (n \in net /\ n # m) \/ n = r
    BY <1>3, <1>5, <2>2, AnsweredNet
  <2> HIDE DEF r
  <2>4. UNCHANGED clientVars
    BY <1>5 DEF Answer
  <2> QED
    BY <1>2, <2>1, <2>3, <2>4 DEF clientVars
<1>6. ASSUME NEW c \in Clients, NEW q, q.client = c, q.round = round'[c],
             net' = net \cup {q}, \A m \in net : m.client # c,
             c \in waiting', waiting \subseteq waiting',
             \A d \in Clients \ {c} : round'[d] = round[d] /\ got'[d] = got[d],
             got'[c] \in {0, round'[c]}
      PROVE  Fresh'
  <2>1. \A m \in net : m.client \in Clients \ {c}
    BY <1>6, <1>t DEF Datagrams
  <2> QED
    BY <1>2, <1>6, <2>1
<1>7. ASSUME NEW c \in Clients, Start(c)
      PROVE  Fresh'
  <2>1. /\ c \notin waiting /\ waiting' = waiting \cup {c}
        /\ round' = [round EXCEPT ![c] = @ + 1] /\ got' = [got EXCEPT ![c] = 0]
        /\ net' = net \cup {Request(c, round[c] + 1, 1)}
    BY <1>7 DEF Start
  <2>2. Request(c, round[c] + 1, 1).client = c /\ Request(c, round[c] + 1, 1).round = round[c] + 1
    BY DEF Request
  <2>3. /\ round'[c] = round[c] + 1 /\ got'[c] = 0
        /\ \A d \in Clients \ {c} : round'[d] = round[d] /\ got'[d] = got[d]
    BY <1>t, <2>1
  <2>4. \A m \in net : m.client # c
    BY <1>2, <2>1
  <2> QED
    BY <1>6, <2>1, <2>2, <2>3, <2>4
<1>8. ASSUME NEW c \in Clients, Timeout(c)
      PROVE  Fresh'
  <2>1. /\ \A m \in net : m.client # c
        /\ c \in waiting /\ UNCHANGED <<round, got>>
    BY <1>3, <1>8 DEF Timeout
  <2>2. CASE attempt[c] < MAX_ATTEMPTS
    <3> DEFINE q == Request(c, round[c], attempt[c] + 1)
    <3>1. q.client = c /\ q.round = round'[c]
      BY <2>1 DEF Request
    <3>2. net' = net \cup {q} /\ waiting' = waiting
      BY <1>8, <2>2 DEF Timeout
    <3> HIDE DEF q
    <3> QED
      BY <1>2, <1>6, <2>1, <3>1, <3>2
  <2>3. CASE ~(attempt[c] < MAX_ATTEMPTS)
    <3>1. net' = net /\ waiting' = waiting \ {c}
      BY <1>8, <2>3 DEF Timeout
    <3> QED
      BY <1>2, <2>1, <3>1
  <2> QED
    BY <2>2, <2>3
<1>9. ASSUME NEW c \in Clients, GetReply(c)
      PROVE  Fresh'
  <2>1. PICK m \in net : m.client = c /\ net' \in Taken(m) /\ got' = [got EXCEPT ![c] = m.round]
    BY <1>9 DEF GetReply, RepliesFor
  <2>2. net' = net \ {m} /\ waiting' = waiting \ {c} /\ round' = round
    BY <1>3, <1>9, <2>1 DEF GetReply, Taken
  <2>3. got'[c] = round[c] /\ \A d \in Clients \ {c} : got'[d] = got[d]
    BY <1>2, <1>t, <2>1
  <2>4. \A n \in net' : n.client # c
    BY <1>2, <2>1, <2>2
  <2> QED
    BY <1>2, <2>2, <2>3, <2>4
<1>10. CASE Drops
  <2>1. net' \subseteq net /\ UNCHANGED clientVars
    BY <1>10 DEF Drops
  <2> QED
    BY <1>4, <2>1
<1>11. CASE UNCHANGED vars
  <2>1. net' \subseteq net /\ UNCHANGED clientVars
    BY <1>11 DEF vars
  <2> QED
    BY <1>4, <2>1
<1>12. TypeOK
  BY DEF TypeInv
<1> QED
  BY <1>5, <1>7, <1>8, <1>9, <1>10, <1>11, <1>12, Steps
-------------------------------------------------------------------------------
(* The answers and the tables.                                                 *)

(* With no more clients than a table has room for, an unknown client finds a   *)
(* free entry: nobody is driven out.                                           *)
LEMMA NoEviction ==
  ASSUME NEW list, Table(list), NEW c \in Clients, searchForClient(list, c) = {},
         Cardinality(Clients) <= maxClients
  PROVE  Len(list) # maxClients
<1> DEFINE q == [i \in 1..Len(list) |-> list[i].client]
<1>1. list \in Seq(Entry) /\ Len(list) \in Nat /\ DOMAIN list = 1..Len(list)
  BY DEF Table
<1>2. \A i \in 1..Len(list) : list[i].client \in Clients \ {c}
  <2>1. \A i \in 1..Len(list) : list[i] \in Entry
    BY <1>1
  <2> QED
    BY <1>1, <2>1 DEF Entry, searchForClient
<1>3. q \in Seq(Clients \ {c}) /\ Len(q) = Len(list) /\ DOMAIN q = 1..Len(list)
  BY <1>1, <1>2
<1>4. Distinct(q) /\ Elements(q) \subseteq Clients \ {c}
  BY <1>1, <1>2, <1>3 DEF Distinct, Elements, Table
<1>5. IsFiniteSet(Elements(q)) /\ Cardinality(Elements(q)) = Len(list)
  BY <1>3, <1>4, DistinctCount
<1>6. /\ IsFiniteSet(Clients \ {c}) /\ Cardinality(Clients \ {c}) = Cardinality(Clients) - 1
      /\ Cardinality(Clients) \in Nat
  BY FiniteAssumption, FS_RemoveElement, FS_CardinalityType
<1>7. Cardinality(Elements(q)) <= Cardinality(Clients \ {c})
  BY <1>4, <1>6, FS_Subset
<1> QED
  <2> HIDE DEF q
  <2>1. Len(list) <= Cardinality(Clients) - 1
    BY <1>5, <1>6, <1>7
  <2>2. Len(list) \in Nat /\ Cardinality(Clients) \in Nat /\ maxClients \in Nat
    BY <1>1, <1>6, LimitAssumption
  <2>3. Len(list) < maxClients
    BY <2>1, <2>2
  <2> QED
    BY <2>2, <2>3

(* An answered datagram takes up one more slot of its client, a refused one    *)
(* none, and the other clients keep theirs.                                    *)
LEMMA CountedGranted ==
  ASSUME NEW list, Table(list), NEW c \in Clients, Cardinality(Clients) <= maxClients
  PROVE  LET new == Counted(list, c)
         IN  /\ \A d \in Clients \ {c} : Granted(new, d) = Granted(list, d)
             /\ ~MayAnswer(list, c) => Granted(new, c) = Granted(list, c)
             /\ MayAnswer(list, c) => \E k \in 1..maxDatagrams :
                  k \notin Granted(list, c) /\ Granted(new, c) = Granted(list, c) \cup {k}
<1> DEFINE new == Counted(list, c)
<1>1. /\ list \in Seq(Entry) /\ Len(list) \in Nat /\ DOMAIN list = 1..Len(list)
      /\ 1 \in 1..maxDatagrams
  BY LimitAssumption DEF Table
<1>2. CASE searchForClient(list, c) = {}
  <2> DEFINE e == [client |-> c, numberOfDatagrams |-> 1]
  <2>1. new = Append(list, e)
    BY <1>2, NoEviction DEF Counted, Recognise
  <2>2. e \in Entry /\ e.client = c /\ e.numberOfDatagrams = 1
    BY <1>1 DEF Entry
  <2> HIDE DEF e
  <2>3. /\ DOMAIN new = 1..(Len(list) + 1) /\ new[Len(list) + 1] = e
        /\ \A i \in 1..Len(list) : new[i] = list[i]
    BY <1>1, <2>1, <2>2
  <2>4. \A i : i \in DOMAIN new <=> i \in 1..Len(list) \/ i = Len(list) + 1
    BY <1>1, <2>3
  <2>5. \A i \in 1..Len(list) : list[i].client # c
    BY <1>1, <1>2 DEF searchForClient
  <2> HIDE DEF new
  <2>6. \A d \in Clients \ {c} : Granted(new, d) = Granted(list, d)
    BY <1>1, <2>2, <2>3, <2>4 DEF Granted
  <2>7. Granted(list, c) = {}
    BY <1>1, <2>5 DEF Granted
  <2>8. \A k \in 1..maxDatagrams : k <= 1 <=> k = 1
    OBVIOUS
  <2>9. Granted(new, c) = {1}
    BY <1>1, <2>2, <2>3, <2>4, <2>5, <2>8 DEF Granted
  <2>10. MayAnswer(list, c)
    BY <1>2 DEF MayAnswer
  <2> QED
    BY <1>1, <2>6, <2>7, <2>9, <2>10 DEF new
<1>3. ASSUME NEW k \in DOMAIN list, list[k].client = c
      PROVE  /\ \A d \in Clients \ {c} : Granted(new, d) = Granted(list, d)
             /\ ~MayAnswer(list, c) => Granted(new, c) = Granted(list, c)
             /\ MayAnswer(list, c) => \E j \in 1..maxDatagrams :
                  j \notin Granted(list, c) /\ Granted(new, c) = Granted(list, c) \cup {j}
  <2> DEFINE n == list[k].numberOfDatagrams
  <2>1. /\ MayAnswer(list, c) <=> n # maxDatagrams
        /\ new = IF MayAnswer(list, c)
                   THEN [list EXCEPT ![k].numberOfDatagrams = @ + 1]
                   ELSE list
    BY <1>3, CountedKnown
  <2>2. CASE ~MayAnswer(list, c)
    BY <2>1, <2>2
  <2>3. CASE MayAnswer(list, c)
    <3>1. \A i \in 1..Len(list) : list[i] \in Entry
      BY <1>1
    <3>2. n \in 1..maxDatagrams /\ n + 1 \in 1..maxDatagrams
      BY <1>1, <1>3, <2>1, <2>3, <3>1, Successor DEF Entry
    <3>3. new = [list EXCEPT ![k].numberOfDatagrams = n + 1]
      BY <2>1, <2>3
    <3>4. /\ DOMAIN new = 1..Len(list)
          /\ \A i \in 1..Len(list) : new[i].client = list[i].client
          /\ \A i \in 1..Len(list) : i # k => new[i] = list[i]
          /\ new[k].numberOfDatagrams = n + 1
      BY <1>1, <1>3, <3>1, <3>3 DEF Entry
    <3>5. \A i \in 1..Len(list) : list[i].client = c <=> i = k
      BY <1>1, <1>3 DEF Table
    <3> HIDE DEF new, n
    <3>6. \A d \in Clients \ {c} : Granted(new, d) = Granted(list, d)
      BY <1>1, <3>4, <3>5 DEF Granted
    <3>7. Granted(list, c) = {j \in 1..maxDatagrams : j <= n}
      BY <1>1, <1>3, <3>5 DEF Granted, n
    <3>8. Granted(new, c) = {j \in 1..maxDatagrams : j <= n + 1}
      BY <1>1, <1>3, <3>4, <3>5 DEF Granted
    <3>9. \A j \in 1..maxDatagrams : j <= n + 1 <=> j <= n \/ j = n + 1
      BY <3>2
    <3>10. ~(n + 1 <= n)
      BY <3>2
    <3>11. /\ n + 1 \notin Granted(list, c)
           /\ Granted(new, c) = Granted(list, c) \cup {n + 1}
      BY <3>2, <3>7, <3>8, <3>9, <3>10
    <3> QED
      BY <2>3, <3>2, <3>6, <3>11 DEF new
  <2> QED
    BY <2>2, <2>3
<1>4. CASE searchForClient(list, c) # {}
  BY <1>3, <1>4 DEF searchForClient
<1> QED
  BY <1>2, <1>4

(* A client has at most as many slots as all tables together may count.        *)
LEMMA SlotsBound ==
  ASSUME NEW c
  PROVE  /\ IsFiniteSet(Slots(c)) /\ Cardinality(Slots(c)) \in Nat
         /\ Cardinality(Slots(c)) <= maxDatagrams * Cardinality(Procs)
<1>1. IsFiniteSet(1..maxDatagrams) /\ Cardinality(1..maxDatagrams) = maxDatagrams
  BY LimitAssumption, FS_Interval
<1>2. /\ IsFiniteSet(Procs \X (1..maxDatagrams))
      /\ Cardinality(Procs \X (1..maxDatagrams)) = Cardinality(Procs) * maxDatagrams
  BY <1>1, FiniteAssumption, FS_Product
<1>3. Cardinality(Procs) \in Nat
  BY FiniteAssumption, FS_CardinalityType
<1>4. Slots(c) \subseteq Procs \X (1..maxDatagrams)
  BY DEF Slots
<1>5. IsFiniteSet(Slots(c)) /\ Cardinality(Slots(c)) <= Cardinality(Procs) * maxDatagrams
  BY <1>2, <1>4, FS_Subset
<1>6. Cardinality(Procs) * maxDatagrams = maxDatagrams * Cardinality(Procs)
  BY <1>3, LimitAssumption
<1> QED
  BY <1>5, <1>6, FS_CardinalityType

(* At first the tables are empty.                                              *)
LEMMA SlotsInvInit ==
  ASSUME Init
  PROVE  SlotsInv
<1>1. \A c : Slots(c) = {}
  <2>1. DOMAIN <<>> = {}
    OBVIOUS
  <2>2. \A c : \A p \in Procs : Granted(clientList[p], c) = {}
    BY <2>1 DEF Init, Granted
  <2> QED
    BY <2>2 DEF Slots
<1>2. \A c \in Clients : answered[c] = 0
  BY DEF Init
<1> QED
  BY <1>1, <1>2, FS_EmptySet DEF SlotsInv

(* Every step keeps the account.                                               *)
LEMMA SlotsInvStep ==
  ASSUME TypeInv, SlotsInv, [Next]_vars
  PROVE  SlotsInv'
<1>t. TypeOK
  BY DEF TypeInv
<1>1. ASSUME NEW p \in Procs, NEW m \in net, Table(clientList[p]),
             Answer(p, m, Counted(clientList[p], m.client), MayAnswer(clientList[p], m.client)),
             Cardinality(Clients) <= maxClients, NEW c \in Clients
      PROVE  answered'[c] = Cardinality(Slots(c)')
  <2> DEFINE list == clientList[p]
             new == Counted(list, m.client)
  <2>1. m.client \in Clients
    BY <1>t, Replied DEF TypeOK
  <2>2. /\ clientList'[p] = new
        /\ \A q \in Procs : q # p => clientList'[q] = clientList[q]
    BY <1>t, <1>1 DEF Answer, TypeOK
  <2>3. answered \in [Clients -> Nat]
    BY <1>t DEF TypeOK
  <2>4. answered[c] = Cardinality(Slots(c))
    BY <1>1 DEF SlotsInv
  <2>5. /\ \A d \in Clients \ {m.client} : Granted(new, d) = Granted(list, d)
        /\ ~MayAnswer(list, m.client) => Granted(new, m.client) = Granted(list, m.client)
        /\ MayAnswer(list, m.client) => \E k \in 1..maxDatagrams :
             /\ k \notin Granted(list, m.client)
             /\ Granted(new, m.client) = Granted(list, m.client) \cup {k}
    BY <1>1, <2>1, CountedGranted
  <2>6. /\ MayAnswer(list, m.client) => answered' = [answered EXCEPT ![m.client] = @ + 1]
        /\ ~MayAnswer(list, m.client) => answered' = answered
    BY <1>1 DEF Answer
  <2>7. CASE c # m.client \/ ~MayAnswer(list, m.client)
    <3>1. Granted(new, c) = Granted(list, c)
      BY <2>5, <2>7
    <3>2. answered'[c] = answered[c]
      BY <2>1, <2>3, <2>6, <2>7
    <3> HIDE DEF new
    <3>3. \A q \in Procs : Granted(clientList'[q], c) = Granted(clientList[q], c)
      BY <2>2, <3>1
    <3>4. Slots(c)' = Slots(c)
      BY <3>3 DEF Slots
    <3> QED
      BY <2>4, <3>2, <3>4
  <2>8. CASE c = m.client /\ MayAnswer(list, m.client)
    <3>1. PICK k \in 1..maxDatagrams : k \notin Granted(list, c) /\ Granted(new, c) = Granted(list, c) \cup {k}
      BY <2>5, <2>8
    <3>2. answered'[c] = answered[c] + 1
      BY <2>1, <2>3, <2>6, <2>8
    <3> HIDE DEF new
    <3>3. /\ Granted(clientList'[p], c) = Granted(clientList[p], c) \cup {k}
          /\ \A q \in Procs : q # p => Granted(clientList'[q], c) = Granted(clientList[q], c)
      BY <2>2, <3>1
    <3>4. Slots(c)' = Slots(c) \cup {<<p, k>>} /\ <<p, k>> \notin Slots(c)
      BY <3>1, <3>3 DEF Slots
    <3>5. Cardinality(Slots(c) \cup {<<p, k>>}) = Cardinality(Slots(c)) + 1
      BY <3>4, SlotsBound, FS_AddElement
    <3> QED
      BY <2>4, <3>2, <3>4, <3>5
  <2> QED
    BY <2>7, <2>8
<1>2. ASSUME UNCHANGED <<clientList, answered>>
      PROVE  SlotsInv'
  <2>1. \A c : Slots(c)' = Slots(c)
    BY <1>2 DEF Slots
  <2> QED
    BY <1>2, <2>1 DEF SlotsInv
<1>3. ASSUME NEW c \in Clients, Start(c) \/ Timeout(c) \/ GetReply(c)
      PROVE  SlotsInv'
  BY <1>2, <1>3 DEF Start, Timeout, GetReply
<1>4. CASE Drops
  BY <1>2, <1>4 DEF Drops
<1>5. CASE UNCHANGED vars
  BY <1>2, <1>5 DEF vars
<1>6. ASSUME NEW p \in Procs, NEW m \in net, Table(clientList[p]),
             Answer(p, m, Counted(clientList[p], m.client), MayAnswer(clientList[p], m.client))
      PROVE  SlotsInv'
  BY <1>1, <1>6 DEF SlotsInv
<1> QED
  BY <1>t, <1>3, <1>4, <1>5, <1>6, Steps

-------------------------------------------------------------------------------
(* The theorems.                                                               *)

(* All invariants hold in every state.                                         *)
LEMMA Invariants == Spec => [](TypeInv /\ FreshInv /\ SlotsInv)
<1>1. Init => TypeInv /\ FreshInv /\ SlotsInv
  BY TypeInvInit, FreshInvInit, SlotsInvInit
<1>2. TypeInv /\ FreshInv /\ SlotsInv /\ [Next]_vars => (TypeInv /\ FreshInv /\ SlotsInv)'
  BY TypeInvStep, FreshInvStep, SlotsInvStep
<1> QED
  BY <1>1, <1>2, PTL DEF Spec

(* The tables never grow over maxClients, hold no client twice and count no    *)
(* datagram above maxDatagrams; nobody gets a reply of a later round.          *)
THEOREM UdpTypeCorrect == Spec => []TypeOK
<1>1. TypeInv => TypeOK
  BY DEF TypeInv
<1> QED
  BY <1>1, Invariants, PTL

(* When the network at worst loses datagrams, the reply that ends a round      *)
(* echoes a datagram of that round, though nothing in it says so.              *)
THEOREM RepliesFresh == Spec => []RepliesAreFresh
<1>1. FreshInv => RepliesAreFresh
  BY DEF FreshInv, Fresh, RepliesAreFresh
<1> QED
  BY <1>1, Invariants, PTL

(* However many processes serve, and whatever is lost, repeated or delayed, a  *)
(* recognised client gets at most maxDatagrams answers from each process.      *)
THEOREM AnswersLimited == Spec => []AnswersBounded
<1>1. SlotsInv => AnswersBounded
  BY SlotsBound DEF SlotsInv, AnswersBounded
<1> QED
  BY <1>1, Invariants, PTL
===============================================================================
