-------------------------- MODULE UdpExchangeProofs --------------------------
(* Proofs about UdpExchange for every set of transaction ids, operands and     *)
(* networks, and every number of runs, retransmissions, duplicates and foreign *)
(* datagrams.                                                                  *)
EXTENDS UdpExchange, QueueLemmas

-------------------------------------------------------------------------------
(* Datagrams enter and leave a queue at any position.                          *)

(* The rest of a queue, from position i on.                                    *)
LEMMA Cut ==
  ASSUME NEW S, NEW q \in Seq(S), NEW i \in 1..(Len(q) + 1)
  PROVE  /\ SubSeq(q, i, Len(q)) \in Seq(S) /\ Len(SubSeq(q, i, Len(q))) = Len(q) - i + 1
         /\ \A j \in 1..(Len(q) - i + 1) : SubSeq(q, i, Len(q))[j] = q[i + j - 1]
<1>1. Len(q) \in Nat /\ i \in Nat /\ 1 <= i /\ i <= Len(q) + 1
  OBVIOUS
<1>2. \A k \in i..Len(q) : q[k] \in S
  BY <1>1
<1>3. SubSeq(q, i, Len(q)) \in Seq(S)
  BY <1>1, <1>2
<1>4. SubSeq(q, i, Len(q)) = [j \in 1..(Len(q) - i + 1) |-> q[i + j - 1]]
  BY <1>1
<1>5. Len(q) - i + 1 \in Nat
  BY <1>1
<1> QED
  BY <1>3, <1>4, <1>5

(* One is taken out: those behind it move up.                                  *)
LEMMA Removed ==
  ASSUME NEW S, NEW q \in Seq(S), NEW i \in DOMAIN q
  PROVE  /\ RemoveAt(q, i) \in Seq(S) /\ Len(RemoveAt(q, i)) = Len(q) - 1
         /\ \A j \in 1..(Len(q) - 1) : RemoveAt(q, i)[j] = IF j < i THEN q[j] ELSE q[j + 1]
<1> DEFINE a == SubSeq(q, 1, i - 1)
           b == SubSeq(q, i + 1, Len(q))
<1>1. Len(q) \in Nat /\ i \in 1..Len(q) /\ DOMAIN q = 1..Len(q)
  OBVIOUS
<1>2. \A j \in 1..Len(q) : q[j] \in S
  OBVIOUS
<1>3. a \in Seq(S) /\ Len(a) = i - 1 /\ \A j \in 1..(i - 1) : a[j] = q[j]
  BY <1>1, <1>2
<1>4. b \in Seq(S) /\ Len(b) = Len(q) - i /\ \A j \in 1..(Len(q) - i) : b[j] = q[i + j]
  BY SMTT(30), <1>1, <1>2, Cut
<1>5. RemoveAt(q, i) = a \o b
  BY DEF RemoveAt
<1> HIDE DEF a, b
<1>6. /\ a \o b \in Seq(S) /\ Len(a \o b) = Len(a) + Len(b)
      /\ \A j \in 1..(Len(a) + Len(b)) : (a \o b)[j] = IF j <= Len(a) THEN a[j] ELSE b[j - Len(a)]
  BY SMTT(30), <1>3, <1>4
<1>7. Len(a) + Len(b) = Len(q) - 1
  BY <1>1, <1>3, <1>4
<1>8. ASSUME NEW j \in 1..(Len(q) - 1)
      PROVE  (a \o b)[j] = IF j < i THEN q[j] ELSE q[j + 1]
  <2>1. (a \o b)[j] = IF j <= Len(a) THEN a[j] ELSE b[j - Len(a)]
    BY <1>6, <1>7
  <2>2. CASE j < i
    BY <1>1, <1>3, <2>1, <2>2
  <2>3. CASE ~(j < i)
    <3>1. j - (i - 1) \in 1..(Len(q) - i) /\ i + (j - (i - 1)) = j + 1
      BY <1>1, <2>3
    <3>2. ~(j <= Len(a)) /\ j - Len(a) = j - (i - 1)
      BY <1>1, <1>3, <2>3
    <3>3. (a \o b)[j] = b[j - (i - 1)]
      BY <2>1, <3>2
    <3>4. b[j - (i - 1)] = q[i + (j - (i - 1))]
      BY <1>4, <3>1
    <3> QED
      BY <2>3, <3>1, <3>3, <3>4
  <2> QED
    BY <2>2, <2>3
<1> QED
  BY <1>5, <1>6, <1>7, <1>8

(* One is doubled: it and those behind it move down.                           *)
LEMMA Doubled ==
  ASSUME NEW S, NEW q \in Seq(S), NEW i \in DOMAIN q
  PROVE  /\ InsertAt(q, i, q[i]) \in Seq(S) /\ Len(InsertAt(q, i, q[i])) = Len(q) + 1
         /\ \A j \in 1..(Len(q) + 1) :
              InsertAt(q, i, q[i])[j] = IF j <= i THEN q[j] ELSE q[j - 1]
<1> DEFINE a == SubSeq(q, 1, i - 1)
           b == SubSeq(q, i, Len(q))
           c == a \o <<q[i]>>
<1>1. Len(q) \in Nat /\ i \in 1..Len(q) /\ DOMAIN q = 1..Len(q)
  OBVIOUS
<1>2. \A j \in 1..Len(q) : q[j] \in S
  OBVIOUS
<1>3. a \in Seq(S) /\ Len(a) = i - 1 /\ \A j \in 1..(i - 1) : a[j] = q[j]
  BY <1>1, <1>2
<1>4. b \in Seq(S) /\ Len(b) = Len(q) - i + 1 /\ \A j \in 1..(Len(q) - i + 1) : b[j] = q[i + j - 1]
  BY <1>1, <1>2, Cut
<1> HIDE DEF a, b
<1>5. c \in Seq(S) /\ Len(c) = i /\ \A j \in 1..i : c[j] = q[j]
  <2>1. q[i] \in S
    BY <1>1, <1>2
  <2> QED
    BY <1>1, <1>3, <2>1
<1>6. InsertAt(q, i, q[i]) = c \o b
  BY DEF InsertAt, a, b
<1> HIDE DEF c
<1>7. /\ c \o b \in Seq(S) /\ Len(c \o b) = Len(c) + Len(b)
      /\ \A j \in 1..(Len(c) + Len(b)) : (c \o b)[j] = IF j <= Len(c) THEN c[j] ELSE b[j - Len(c)]
  <2>1. c \in Seq(S) /\ b \in Seq(S)
    BY <1>4, <1>5
  <2> QED
    BY <2>1
<1>8. Len(c) + Len(b) = Len(q) + 1
  BY <1>1, <1>4, <1>5
<1>9. ASSUME NEW j \in 1..(Len(q) + 1)
      PROVE  (c \o b)[j] = IF j <= i THEN q[j] ELSE q[j - 1]
  <2>1. (c \o b)[j] = IF j <= Len(c) THEN c[j] ELSE b[j - Len(c)]
    BY <1>7, <1>8
  <2>2. CASE j <= i
    BY <1>1, <1>5, <2>1, <2>2
  <2>4. CASE j > i
    <3>1. j - i \in 1..(Len(q) - i + 1) /\ i + (j - i) - 1 = j - 1
      BY <1>1, <2>4
    <3>2. ~(j <= Len(c)) /\ j - Len(c) = j - i /\ ~(j <= i)
      BY <1>1, <1>5, <2>4
    <3>3. (c \o b)[j] = b[j - i]
      BY <2>1, <3>2
    <3>4. b[j - i] = q[i + (j - i) - 1]
      BY <1>4, <3>1
    <3> QED
      BY <3>1, <3>2, <3>3, <3>4
  <2>5. j <= i \/ j > i
    BY <1>1
  <2> QED
    BY <2>2, <2>4, <2>5
<1> QED
  BY <1>6, <1>7, <1>8, <1>9

(* The elements of queues that one datagram enters or leaves.                  *)
LEMMA Members ==
  ASSUME NEW S, NEW q \in Seq(S), NEW i \in DOMAIN q
  PROVE  /\ q[i] \in Elements(q) /\ q[i] \in S
         /\ RemoveAt(q, i) \in Seq(S) /\ Elements(RemoveAt(q, i)) \subseteq Elements(q)
         /\ InsertAt(q, i, q[i]) \in Seq(S) /\ Elements(InsertAt(q, i, q[i])) \subseteq Elements(q)
<1>1. Len(q) \in Nat /\ i \in 1..Len(q) /\ DOMAIN q = 1..Len(q) /\ q[i] \in S
  OBVIOUS
<1>2. ASSUME NEW j \in 1..(Len(q) - 1)
      PROVE  RemoveAt(q, i)[j] \in Elements(q)
  <2>1. RemoveAt(q, i)[j] = IF j < i THEN q[j] ELSE q[j + 1]
    BY Removed
  <2>2. j \in 1..Len(q) /\ j + 1 \in 1..Len(q)
    BY <1>1
  <2> QED
    BY <1>1, <2>1, <2>2 DEF Elements
<1>3. ASSUME NEW j \in 1..(Len(q) + 1)
      PROVE  InsertAt(q, i, q[i])[j] \in Elements(q)
  <2>1. InsertAt(q, i, q[i])[j] = IF j <= i THEN q[j] ELSE q[j - 1]
    BY Doubled
  <2>2. j <= i => j \in 1..Len(q)
    BY <1>1
  <2>3. ~(j <= i) => j - 1 \in 1..Len(q)
    BY <1>1
  <2> QED
    BY <1>1, <2>1, <2>2, <2>3 DEF Elements
<1>4. /\ RemoveAt(q, i) \in Seq(S) /\ DOMAIN RemoveAt(q, i) = 1..(Len(q) - 1)
      /\ InsertAt(q, i, q[i]) \in Seq(S) /\ DOMAIN InsertAt(q, i, q[i]) = 1..(Len(q) + 1)
  <2>1. /\ RemoveAt(q, i) \in Seq(S) /\ Len(RemoveAt(q, i)) = Len(q) - 1
        /\ InsertAt(q, i, q[i]) \in Seq(S) /\ Len(InsertAt(q, i, q[i])) = Len(q) + 1
    BY <1>1, Removed, Doubled
  <2> QED
    BY <2>1
<1> QED
  BY <1>1, <1>2, <1>3, <1>4 DEF Elements
-------------------------------------------------------------------------------
(* The invariants.                                                             *)

InFlight == Elements(toServer) \cup Elements(toClient)

Datagrams == [type : Types, id : Ids \cup {0}, op : Ops \cup {"noise"}]

Plain == Types \ {"noise", "empty"}

\* The foreign datagrams are the only ones that carry nothing.
Sound == {m \in Datagrams : m \in Strange \/ (m.type \in Plain /\ m.op \in Ops)}

\* Besides, the client is where its program can be, and only the older servers end.
TypeInv ==
  /\ TypeOK
  /\ toServer \in Seq(Sound) /\ toClient \in Seq(Sound)
  /\ program = "file" => toServer \in Seq(Sound \ {Foreign})
  /\ serverOver => Fragile
  /\ ~Idle => attempt >= 1 /\ id \in Ids \cap used /\ op \in Ops
  /\ cpc = "wait" => program \in {"once", "again", "struct2", "old", "echo", "oldecho"}
  /\ cpc = "read" => program \in {"struct2", "xdr"}
  /\ cpc \in {"status", "size", "data", "over"} => program = "file"

\* With transaction ids: datagrams with the id of a run that is the first to use it
\* carry the operands of this run.
IdInv ==
  /\ program # "file" =>
       /\ \A m \in Elements(toServer) : m \in Strange \/ m.type = "request"
       /\ \A m \in Elements(toClient) : m \in Strange \/ m.type = "reply"
  /\ HasId =>
       /\ \A m \in InFlight : m \notin Strange =>
            m.id \in used /\ (fresh /\ m.id = id => m.op = op)
       /\ fresh /\ outcome = "success" => result = op

\* Without them, how many datagrams may still be answers to the run.
Due == CASE cpc = "status"                  -> 3
         [] cpc = "size"                    -> 2
         [] cpc \in {"wait", "read", "data"} -> 1
         [] OTHER                           -> 0

\* The datagrams on their way are of this run, and when none has been lost they are
\* the ones the client is about to take them for.
Fits ==
  /\ \A m \in InFlight : m \notin Strange /\ m.op = op
  /\ \A m \in Elements(toServer) : m.type = "request"
  /\ toServer # <<>> => /\ cpc \in {"wait", "read", "status"}
                        /\ Len(toServer) = 1 /\ toClient = <<>>
  /\ Len(toClient) <= Due
  /\ \A m \in Elements(toClient) : m.type = "err" => Len(toClient) = 1
  /\ cpc = "status" /\ Len(toClient) = 3 =>
       toClient[2].type = "size" /\ toClient[3].type = "data"
  /\ cpc = "size" /\ Len(toClient) = 2 =>
       toClient[1].type = "size" /\ toClient[2].type = "data"
  /\ cpc = "data" /\ Len(toClient) = 1 =>
       toClient[1].type = "data" /\ size = op

\* So it is on a network that only loses datagrams, until the client ends.
LossInv ==
  ~HasId /\ network \subseteq {"lose"} =>
    /\ outcome = "success" => result = op
    /\ cpc # "over" => Fits

\* Requests and replies of the run, those of an earlier run with its id included.
Ours == {m \in Datagrams : Own(m)}

\* How many datagrams of queue q are in set S.
Count(q, S) == Cardinality({i \in DOMAIN q : q[i] \in S})

\* Every request of the run is still on its way, as itself or as its reply, or has
\* been lost either way; the count of losses stops where no program sends more.
Accounted ==
  \/ lost = MAX_RETRANSMISSIONS + 1
  \/ attempt <= lost + Count(toServer, Ours) + Count(toClient, Ours)

\* Without delays that is so during a run, so that it can expire only by losses, as
\* long as there is a server.
ExpiryInv ==
  "delay" \notin network /\ ~serverOver =>
    /\ outcome = "expired" => lost >= Attempts
    /\ cpc \in {"wait", "read"} /\ program # "xdr" => Accounted
-------------------------------------------------------------------------------
(* Types.                                                                      *)

(* Two queues one after the other.                                             *)
LEMMA Joins ==
  ASSUME NEW S, NEW q \in Seq(S), NEW r \in Seq(S)
  PROVE  /\ q \o r \in Seq(S) /\ Len(q \o r) = Len(q) + Len(r)
         /\ Elements(q \o r) = Elements(q) \cup Elements(r)
<1>1. /\ Len(q) \in Nat /\ Len(r) \in Nat /\ DOMAIN q = 1..Len(q) /\ DOMAIN r = 1..Len(r)
      /\ q \o r \in Seq(S) /\ Len(q \o r) = Len(q) + Len(r)
      /\ DOMAIN (q \o r) = 1..(Len(q) + Len(r))
      /\ \A i \in 1..(Len(q) + Len(r)) : (q \o r)[i] = IF i <= Len(q) THEN q[i] ELSE r[i - Len(q)]
  OBVIOUS
<1>2. ASSUME NEW i \in 1..(Len(q) + Len(r))
      PROVE  (q \o r)[i] \in Elements(q) \cup Elements(r)
  <2>1. i <= Len(q) => i \in 1..Len(q)
    BY <1>1
  <2>2. ~(i <= Len(q)) => i - Len(q) \in 1..Len(r)
    BY <1>1
  <2> QED
    BY <1>1, <2>1, <2>2 DEF Elements
<1>3. ASSUME NEW i \in 1..Len(q)
      PROVE  q[i] \in Elements(q \o r)
  <2>1. i \in 1..(Len(q) + Len(r)) /\ (q \o r)[i] = q[i]
    BY <1>1
  <2> QED
    BY <1>1, <2>1 DEF Elements
<1>4. ASSUME NEW i \in 1..Len(r)
      PROVE  r[i] \in Elements(q \o r)
  <2>1. /\ i + Len(q) \in 1..(Len(q) + Len(r)) /\ ~(i + Len(q) <= Len(q))
        /\ (i + Len(q)) - Len(q) = i
    BY <1>1
  <2>2. (q \o r)[i + Len(q)] = r[i]
    BY <1>1, <2>1
  <2> QED
    BY <1>1, <2>1, <2>2 DEF Elements
<1> QED
  BY <1>1, <1>2, <1>3, <1>4 DEF Elements

(* Every program sends at least one request, and at most one more than         *)
(* MAX_RETRANSMISSIONS.                                                        *)
LEMMA AttemptsType == Attempts \in 1..(MAX_RETRANSMISSIONS + 1)
<1>1. /\ MAX_RETRANSMISSIONS \in 1..(MAX_RETRANSMISSIONS + 1)
      /\ MAX_RETRANSMISSIONS + 1 \in 1..(MAX_RETRANSMISSIONS + 1)
      /\ 1 \in 1..(MAX_RETRANSMISSIONS + 1)
  BY RetransmissionAssumption
<1> QED
  BY <1>1 DEF Attempts

(* Foreign datagrams are known by their type.                                  *)
LEMMA Strangers ==
  /\ Strange \subseteq Sound
  /\ \A m \in Strange : m.type \notin Plain /\ m.op = "noise"
  /\ \A m \in Sound \ Strange : m.type \in Plain /\ m.op \in Ops /\ m.id \in Ids \cup {0}
<1>1. \A m \in Strange : m.type \in {"noise", "empty"} /\ m.op = "noise" /\ m \in Datagrams
  BY DEF Strange, Foreign, Empty, Datagram, Datagrams, Types
<1> QED
  BY <1>1 DEF Sound, Plain, Datagrams

(* Requests carry something.                                                   *)
LEMMA Outgoing ==
  ASSUME NEW t \in Plain, NEW i \in Ids \cup {0}, NEW o \in Ops
  PROVE  /\ Datagram(t, i, o) \in Sound \ Strange
         /\ Datagram(t, i, o).type = t /\ Datagram(t, i, o).id = i /\ Datagram(t, i, o).op = o
<1>1. /\ Datagram(t, i, o) \in Datagrams /\ Datagram(t, i, o).type = t
      /\ Datagram(t, i, o).id = i /\ Datagram(t, i, o).op = o
  BY DEF Datagram, Datagrams, Plain
<1> HIDE DEF Datagram
<1> QED
  BY <1>1, Strangers DEF Sound

(* What the server of the file transfer answers.                               *)
LEMMA FileAnswer ==
  ASSUME NEW m \in Sound \ Strange, NEW ds \in FileReply(m)
  PROVE  LET A == {Datagram(t, 0, m.op) : t \in {"ok", "err", "size", "data"}}
         IN  /\ A \subseteq Sound \ Strange
             /\ \A d \in A : d.op = m.op /\ d.id = 0
             /\ ds \in Seq(A) /\ Len(ds) <= 3
             /\ Len(ds) = 3 => ds[2].type = "size" /\ ds[3].type = "data"
             /\ \A d \in Elements(ds) : d.type = "err" => Len(ds) = 1
<1> DEFINE A == {Datagram(t, 0, m.op) : t \in {"ok", "err", "size", "data"}}
           err == Datagram("err", 0, m.op)
           ok == Datagram("ok", 0, m.op)
           sz == Datagram("size", 0, m.op)
           dt == Datagram("data", 0, m.op)
<1>1. m.op \in Ops
  BY Strangers
<1>2. /\ A \subseteq Sound \ Strange
      /\ \A d \in A : d.op = m.op /\ d.id = 0
  BY <1>1, Outgoing DEF Types, Plain
<1>3. sz.type = "size" /\ dt.type = "data" /\ ok.type = "ok"
  BY DEF Datagram
<1>4. ds = <<>> \/ ds = <<err>> \/ ds = <<ok, sz, dt>>
  BY DEF FileReply
<1>5. err \in A /\ ok \in A /\ sz \in A /\ dt \in A
  OBVIOUS
<1> HIDE DEF A, err, ok, sz, dt
<1>6. /\ ds \in Seq(A) /\ Len(ds) <= 3
      /\ Len(ds) = 3 => ds[2] = sz /\ ds[3] = dt
      /\ Len(ds) # 1 => Elements(ds) \subseteq {ok, sz, dt}
  <2>1. CASE ds = <<>>
    BY <2>1, Deserted
  <2>2. CASE ds = <<err>>
    BY <1>5, <2>2
  <2>3. CASE ds = <<ok, sz, dt>>
    <3>1. /\ ds \in Seq(A) /\ Len(ds) = 3 /\ DOMAIN ds = 1..3
          /\ ds[1] = ok /\ ds[2] = sz /\ ds[3] = dt
      BY <1>5, <2>3
    <3>2. \A k \in 1..3 : k = 1 \/ k = 2 \/ k = 3
      OBVIOUS
    <3> QED
      BY <3>1, <3>2 DEF Elements
  <2> QED
    BY <1>4, <2>1, <2>2, <2>3
<1>7. \A d \in Elements(ds) : d.type = "err" => Len(ds) = 1
  BY <1>3, <1>6
<1> QED
  BY <1>2, <1>3, <1>6, <1>7 DEF A, sz, dt

\* Datagram i has been taken from the server's queue and ds sent for it.
ServeStep(i, ds) ==
  /\ toServer' = RemoveAt(toServer, i) /\ toClient' = toClient \o ds
  /\ UNCHANGED <<program, network, copies, lost, clientVars>>
  /\ serverOver => serverOver'
  /\ serverOver' => Fragile
  /\ serverOver' \in BOOLEAN
  /\ LET m == toServer[i] IN
       \/ ds = <<>> /\ (serverOver' \/ m \in Strange)
       \/ /\ program # "file" /\ m \notin Strange
          /\ ds = <<Datagram("reply", IF HasId THEN m.id ELSE 0, m.op)>>
       \/ program = "file" /\ m \notin Strange /\ ds \in FileReply(m)

(* A step of a server, or of the kernel when there is none.                    *)
LEMMA Served ==
  ASSUME TypeInv, Serve
  PROVE  \E i \in DOMAIN toServer, ds \in Seq(Sound) : ServeStep(i, ds)
<1> DEFINE r(m) == Datagram("reply", IF HasId THEN m.id ELSE 0, m.op)
<1>1. \A i \in Arriving(toServer) : i \in DOMAIN toServer
  BY DEF Arriving
<1>2. /\ toServer \in Seq(Sound) /\ toClient \in Seq(Sound)
      /\ (serverOver => Fragile) /\ serverOver \in BOOLEAN
  BY DEF TypeInv, TypeOK
<1>3. <<>> \in Seq(Sound) /\ toClient \o <<>> = toClient
  BY <1>2
<1>4. \A i \in DOMAIN toServer : toServer[i] \in Sound
  BY <1>2
<1>5. CASE EmptyRead
  <2>1. PICK i \in DOMAIN toServer : Ending(toServer[i]) /\ toServer' = RemoveAt(toServer, i)
    BY <1>1, <1>5 DEF EmptyRead
  <2>2. Fragile /\ toServer[i] \in Strange
    BY <2>1 DEF Ending, Strange
  <2>3. serverOver' = TRUE /\ UNCHANGED <<program, network, toClient, copies, lost, clientVars>>
    BY <1>5 DEF EmptyRead
  <2>4. ServeStep(i, <<>>)
    BY <1>3, <2>1, <2>2, <2>3 DEF ServeStep
  <2> QED
    BY <1>3, <2>4
<1>6. CASE Unserved
  <2>1. PICK i \in DOMAIN toServer : toServer' = RemoveAt(toServer, i)
    BY <1>1, <1>6 DEF Unserved
  <2>2. /\ serverOver /\ serverOver' = serverOver
        /\ UNCHANGED <<program, network, toClient, copies, lost, clientVars>>
    BY <1>6 DEF Unserved
  <2>3. ServeStep(i, <<>>)
    BY <1>2, <1>3, <2>1, <2>2 DEF ServeStep
  <2> QED
    BY <1>3, <2>3
<1>7. ASSUME NEW i \in DOMAIN toServer, NEW ds, Answer(i, ds),
             \/ ds = <<>> /\ toServer[i] \in Strange
             \/ program # "file" /\ toServer[i] \notin Strange /\ ds = <<r(toServer[i])>>
             \/ program = "file" /\ toServer[i] \notin Strange /\ ds \in FileReply(toServer[i])
      PROVE  \E k \in DOMAIN toServer, es \in Seq(Sound) : ServeStep(k, es)
  <2> DEFINE m == toServer[i]
  <2>1. ds \in Seq(Sound)
    <3>1. CASE ds = <<>>
      BY <1>3, <3>1
    <3>2. CASE program # "file" /\ m \notin Strange /\ ds = <<r(m)>>
      <4>1. m.op \in Ops /\ (IF HasId THEN m.id ELSE 0) \in Ids \cup {0}
        BY <1>4, <3>2, Strangers
      <4>2. "reply" \in Plain
        BY DEF Plain, Types
      <4>3. r(m) \in Sound
        BY <4>1, <4>2, Outgoing
      <4> HIDE DEF r, m
      <4> QED
        BY <3>2, <4>3
    <3>3. CASE program = "file" /\ m \notin Strange /\ ds \in FileReply(m)
      <4> DEFINE A == {Datagram(t, 0, m.op) : t \in {"ok", "err", "size", "data"}}
      <4>1. ds \in Seq(A) /\ A \subseteq Sound
        BY <1>4, <3>3, FileAnswer
      <4> HIDE DEF A
      <4> QED
        BY <4>1
    <3> QED
      BY <1>7, <3>1, <3>2, <3>3
  <2>2. ServeStep(i, ds)
    <3> HIDE DEF r
    <3>1. serverOver' = serverOver /\ (serverOver' => Fragile) /\ serverOver' \in BOOLEAN
      BY <1>2, <1>7 DEF Answer
    <3>2. /\ toServer' = RemoveAt(toServer, i) /\ toClient' = toClient \o ds
          /\ UNCHANGED <<program, network, copies, lost, clientVars>>
      BY <1>7 DEF Answer
    <3> QED
      BY <1>7, <3>1, <3>2 DEF ServeStep, r
  <2> QED
    BY <2>1, <2>2
<1>8. \A i \in DOMAIN toServer : ~Ending(toServer[i]) /\ Fragile => toServer[i] # Empty
  BY DEF Ending
<1>9. CASE \E i \in Arriving(toServer) : \E ds \in FileReply(toServer[i]) : program = "file" /\ Answer(i, ds)
  <2>1. PICK i \in DOMAIN toServer : \E ds \in FileReply(toServer[i]) : program = "file" /\ Answer(i, ds)
    BY <1>1, <1>9
  <2>2. PICK ds \in FileReply(toServer[i]) : program = "file" /\ Answer(i, ds)
    BY <2>1
  <2>3. toServer[i] # Foreign
    <3>1. toServer \in Seq(Sound \ {Foreign})
      BY <2>2 DEF TypeInv
    <3> QED
      BY <3>1
  <2>4. toServer[i] \notin Strange
    BY <1>8, <2>2, <2>3 DEF Answer, Fragile, Strange
  <2> QED
    BY <1>7, <2>2, <2>4
<1>10. CASE \/ AdderServer \/ StructServer \/ EchoServer \/ XdrServer
            \/ \E i \in Arriving(toServer) : \E ds \in TextReply(toServer[i]) :
                 program = "old" /\ Answer(i, ds)
            \/ \E i \in Arriving(toServer) : \E ds \in OldEchoReply(toServer[i]) :
                 program = "oldecho" /\ Answer(i, ds)
  <2>1. PICK i \in DOMAIN toServer :
          /\ program # "file"
          /\ Answer(i, IF toServer[i] \in Strange THEN <<>> ELSE <<r(toServer[i])>>)
    <3>1. CASE AdderServer
      BY <1>1, <3>1 DEF AdderServer, AdderReply, HasId
    <3>2. CASE StructServer
      BY <1>1, <3>2 DEF StructServer, StructReply, HasId
    <3>3. CASE EchoServer
      BY <1>1, <3>3 DEF EchoServer, EchoReply, HasId
    <3>4. CASE XdrServer
      BY <1>1, <3>4 DEF XdrServer, XdrReply, HasId
    <3>5. CASE \E i \in Arriving(toServer) : \E ds \in TextReply(toServer[i]) :
                 program = "old" /\ Answer(i, ds)
      <4>1. PICK i \in DOMAIN toServer : \E ds \in TextReply(toServer[i]) : program = "old" /\ Answer(i, ds)
        BY <1>1, <3>5
      <4>2. /\ program = "old" /\ HasId /\ Fragile
            /\ Answer(i, IF toServer[i] = Foreign THEN <<>> ELSE <<r(toServer[i])>>)
        BY <4>1 DEF TextReply, HasId, Fragile
      <4>3. toServer[i] # Empty
        BY <1>8, <4>2 DEF Answer
      <4>4. toServer[i] = Foreign <=> toServer[i] \in Strange
        BY <4>3 DEF Strange
      <4> QED
        BY <4>2, <4>4
    <3>6. CASE \E i \in Arriving(toServer) : \E ds \in OldEchoReply(toServer[i]) :
                 program = "oldecho" /\ Answer(i, ds)
      <4>1. PICK i \in DOMAIN toServer :
              \E ds \in OldEchoReply(toServer[i]) : program = "oldecho" /\ Answer(i, ds)
        BY <1>1, <3>6
      <4>2. /\ program = "oldecho" /\ ~HasId /\ Fragile
            /\ Answer(i, IF toServer[i] = Foreign THEN <<>> ELSE <<r(toServer[i])>>)
        BY <4>1 DEF OldEchoReply, HasId, Fragile
      <4>3. toServer[i] # Empty
        BY <1>8, <4>2 DEF Answer
      <4>4. toServer[i] = Foreign <=> toServer[i] \in Strange
        BY <4>3 DEF Strange
      <4> QED
        BY <4>2, <4>4
    <3> QED
      BY <1>10, <3>1, <3>2, <3>3, <3>4, <3>5, <3>6
  <2> HIDE DEF r
  <2> QED
    BY <1>7, <2>1
<1> QED
  BY <1>5, <1>6, <1>9, <1>10 DEF Serve, TextServer, OldEchoServer, FileServer

(* Every step is one of these.                                                 *)
LEMMA Steps ==
  ASSUME [Next]_vars
  PROVE  \/ Serve \/ Timeout \/ Receive \/ (\E i \in Ids, o \in Ops : Start(i, o)) \/ QuitFile
         \/ Lose \/ Duplicate \/ Noise \/ PortClosed \/ UNCHANGED vars
  BY DEF Next, Client, ClientStep, ClientOnce, ClientAgain, ClientStruct2, ClientText,
         ClientEcho, ClientOldEcho, ClientXdr, ClientFile

(* The program and the network are chosen once.                                *)
LEMMA Chosen ==
  ASSUME [Next]_vars
  PROVE  UNCHANGED <<program, network>>
  BY Steps DEF Serve, AdderServer, StructServer, TextServer, EchoServer, OldEchoServer,
         XdrServer, FileServer, Answer, EmptyRead, Unserved, Timeout, Receive, Start,
         QuitFile, Lose, Duplicate, Noise, PortClosed, vars

(* What the client does with a datagram, its state apart.                      *)
Taken(i) ==
  /\ i \in Arriving(toClient) /\ toClient' = RemoveAt(toClient, i)
  /\ UNCHANGED <<program, network, toServer, copies, serverOver, lost,
                 id, op, attempt, runs, used, fresh>>

(* The outcomes of a read.                                                     *)
LEMMA Received ==
  ASSUME TypeInv, Receive
  PROVE  \E i \in DOMAIN toClient :
           LET m == toClient[i] IN
             /\ Taken(i) /\ m \in Sound
             /\ \/ /\ program \in {"once", "old", "again", "struct2"} /\ cpc \in {"wait", "read"}
                   /\ cpc' = "idle" /\ outcome' = "success" /\ result' = m.op /\ size' = size
                   /\ Mine(m)
                \/ /\ program \in {"once", "old", "again", "struct2"} /\ cpc \in {"wait", "read"}
                   /\ ~Mine(m) /\ size' = size
                   /\ \/ program \in {"once", "old"} /\ cpc' = "idle" /\ outcome' = "wrong" /\ result' = "none"
                      \/ /\ program \in {"again", "struct2"} /\ cpc' = "wait"
                         /\ UNCHANGED <<outcome, result>>
                \/ /\ program \in {"echo", "oldecho", "xdr"} /\ cpc \in {"wait", "read"} /\ size' = size
                   /\ cpc' = "idle"
                   /\ \/ outcome' = "success" /\ result' = m.op
                      \/ outcome' = "wrong" /\ result' = "none"
                \/ /\ program = "file" /\ cpc = "status" /\ size' = size
                   /\ \/ /\ m.type = "err" \/ m \in Strange
                         /\ cpc' = "idle" /\ outcome' = "wrong" /\ result' = "none"
                      \/ cpc' = "size" /\ UNCHANGED <<outcome, result>>
                \/ /\ program = "file" /\ cpc = "size"
                   /\ \/ /\ cpc' = "data" /\ UNCHANGED <<outcome, result>>
                         /\ size' = IF m.type = "size" THEN m.op ELSE "garbage"
                      \/ /\ m \in Strange /\ cpc' = "idle" /\ size' = size
                         /\ outcome' = "wrong" /\ result' = "none"
                \/ /\ program = "file" /\ cpc = "data" /\ cpc' = "idle" /\ size' = size
                   /\ \/ /\ outcome' = "success"
                         /\ result' = IF m.type = "data" /\ m.op = size THEN m.op ELSE "garbage"
                      \/ m.type # "data" /\ outcome' = "wrong" /\ result' = "none"
<1>1. PICK i \in Arriving(toClient) :
        LET m == toClient[i] IN
          /\ toClient' = RemoveAt(toClient, i)
          /\ \/ /\ cpc \in {"wait", "read"}
                /\ \/ ReceiveOnce(m) \/ ReceiveAgain(m) \/ ReceiveStruct2(m)
                   \/ ReceiveEcho(m) \/ ReceiveOldEcho(m) \/ ReceiveXdr(m)
                /\ UNCHANGED size
             \/ (ReceiveStatus(m) \/ ReceiveData(m)) /\ UNCHANGED size
             \/ ReceiveSize(m)
          /\ UNCHANGED <<program, network, toServer, copies, serverOver, lost,
                         id, op, attempt, runs, used, fresh>>
  BY DEF Receive
<1> DEFINE m == toClient[i]
<1>2. i \in DOMAIN toClient
  BY DEF Arriving
<1>3. Taken(i) /\ m \in Sound
  BY <1>1, <1>2 DEF Taken, TypeInv
<1>4. /\ cpc = "read" => program \in {"struct2", "xdr"}
      /\ cpc \in {"status", "size", "data"} => program = "file"
  BY DEF TypeInv
<1> HIDE DEF m
<1>5. CASE cpc \in {"wait", "read"} /\ ReceiveOnce(m) /\ UNCHANGED size
  BY <1>2, <1>3, <1>5 DEF ReceiveOnce, Ends, m
<1>6. CASE cpc \in {"wait", "read"} /\ ReceiveAgain(m) /\ UNCHANGED size
  <2>1. CASE Mine(m)
    BY <1>2, <1>3, <1>6, <2>1 DEF ReceiveAgain, Ends, m
  <2>2. CASE ~Mine(m)
    <3>1. program = "again" /\ cpc = "wait"
      BY <1>4, <1>6 DEF ReceiveAgain
    <3> QED
      BY <1>2, <1>3, <1>6, <2>2, <3>1 DEF ReceiveAgain, m
  <2> QED
    BY <2>1, <2>2
<1>7. CASE cpc \in {"wait", "read"} /\ ReceiveStruct2(m) /\ UNCHANGED size
  BY <1>2, <1>3, <1>7 DEF ReceiveStruct2, Ends, m
<1>8. CASE cpc \in {"wait", "read"} /\ (ReceiveEcho(m) \/ ReceiveOldEcho(m) \/ ReceiveXdr(m))
             /\ UNCHANGED size
  BY <1>2, <1>3, <1>8 DEF ReceiveEcho, ReceiveOldEcho, ReceiveXdr, Ends, m
<1>9. CASE ReceiveStatus(m) /\ UNCHANGED size
  BY <1>2, <1>3, <1>4, <1>9 DEF ReceiveStatus, Ends, Strange, m
<1>10. CASE ReceiveData(m) /\ UNCHANGED size
  BY <1>2, <1>3, <1>4, <1>10 DEF ReceiveData, Ends, m
<1>11. CASE ReceiveSize(m)
  BY <1>2, <1>3, <1>4, <1>11 DEF ReceiveSize, Ends, Strange, m
<1> QED
  BY <1>1, <1>5, <1>6, <1>7, <1>8, <1>9, <1>10, <1>11 DEF m

(* What a timeout does: another request, or the end of the run.                *)
LEMMA TimedOut ==
  ASSUME TypeInv, Timeout
  PROVE  /\ cpc = "wait" /\ program \in {"once", "again", "struct2", "old", "echo", "oldecho"}
         /\ "delay" \notin network =>
              toClient = <<>> /\ \A i \in DOMAIN toServer : toServer[i] \in Strange
         /\ UNCHANGED <<program, network, toClient, copies, serverOver, lost, id, op, size, runs, used, fresh>>
         /\ \/ /\ attempt >= Attempts /\ cpc' = "idle" /\ outcome' = "expired" /\ result' = "none"
               /\ UNCHANGED <<toServer, attempt>>
            \/ /\ attempt < Attempts /\ attempt' = attempt + 1 /\ UNCHANGED <<outcome, result>>
               /\ cpc' = "wait" \/ (cpc' = "read" /\ program = "struct2")
               /\ program \in {"again", "struct2"}
               /\ toServer' = Append(toServer, Datagram("request", id, op))
<1>1. /\ cpc = "wait" /\ "delay" \notin network =>
              toClient = <<>> /\ \A i \in DOMAIN toServer : toServer[i] \in Strange
      /\ program \in {"once", "again", "struct2", "old", "echo", "oldecho"}
      /\ UNCHANGED <<program, network, toClient, copies, serverOver, lost, id, op, size, runs, used, fresh>>
  BY DEF Timeout, TimePasses, TypeInv
<1>2. cpc = "wait"
  BY DEF Timeout, TimePasses
<1>3. attempt \in Nat /\ attempt >= 1 /\ MAX_RETRANSMISSIONS \in Nat
  BY <1>2, AttemptsType, RetransmissionAssumption DEF TypeInv, TypeOK, Idle
<1>4. CASE TimeoutOnce
  <2>1. Attempts = 1
    BY <1>4 DEF TimeoutOnce, Attempts
  <2> QED
    BY <1>1, <1>2, <1>3, <1>4, <2>1 DEF TimeoutOnce, Expired, Ends
<1>5. CASE TimeoutAgain
  <2>1. Attempts = MAX_RETRANSMISSIONS /\ HasId
    BY <1>5 DEF TimeoutAgain, Attempts, HasId
  <2> QED
    BY <1>1, <1>2, <1>3, <1>5, <2>1 DEF TimeoutAgain, Expired, Ends, Resend, SendRequest
<1>6. CASE TimeoutStruct2
  <2>1. Attempts = MAX_RETRANSMISSIONS + 1 /\ HasId
    BY <1>6 DEF TimeoutStruct2, Attempts, HasId
  <2>2. attempt <= MAX_RETRANSMISSIONS <=> attempt < MAX_RETRANSMISSIONS + 1
    BY <1>3
  <2>3. ~(attempt <= MAX_RETRANSMISSIONS) <=> attempt >= MAX_RETRANSMISSIONS + 1
    BY <1>3
  <2> QED
    BY <1>1, <1>2, <1>6, <2>1, <2>2, <2>3 DEF TimeoutStruct2, Expired, Ends, Resend, SendRequest
<1> QED
  BY <1>4, <1>5, <1>6 DEF Timeout
(* At first nothing is on its way.                                             *)
LEMMA TypeInvInit ==
  ASSUME Init
  PROVE  TypeInv
<1>1. /\ <<>> \in Seq(Sound) /\ <<>> \in Seq(Sound \ {Foreign}) /\ <<>> \in Seq(Datagrams)
      /\ DOMAIN <<>> = {}
  OBVIOUS
<1>2. /\ 0 \in 0..MaxRuns /\ 0 \in 0..MaxCopies
      /\ 0 \in 0..(MAX_RETRANSMISSIONS + 1)
  BY BoundAssumption, RetransmissionAssumption
<1>3. 0 \in 0..Attempts
  BY AttemptsType, RetransmissionAssumption
<1> QED
  BY <1>1, <1>2, <1>3 DEF Init, TypeInv, TypeOK, Datagrams, Idle

\* What a step leaves when only the queues and the counters change.
Queues ==
  /\ toServer' \in Seq(Sound) /\ toClient' \in Seq(Sound)
  /\ program = "file" => toServer' \in Seq(Sound \ {Foreign})
  /\ copies' \in 0..MaxCopies /\ serverOver' \in BOOLEAN /\ (serverOver' => Fragile)
  /\ lost' \in 0..(MAX_RETRANSMISSIONS + 1)

(* The client's part of the invariant can be seen to separately.               *)
LEMMA QueuesChange ==
  ASSUME TypeInv, Queues, UNCHANGED <<program, network, clientVars>>
  PROVE  TypeInv'
<1>1. toServer' \in Seq(Datagrams) /\ toClient' \in Seq(Datagrams)
  <2>1. Sound \subseteq Datagrams
    BY DEF Sound
  <2> HIDE DEF Sound, Datagrams
  <2> QED
    BY <2>1 DEF Queues
<1>2. Attempts' = Attempts /\ Idle' = Idle /\ Fragile' = Fragile
  BY DEF Attempts, Idle, Fragile, clientVars
<1> QED
  BY <1>1, <1>2 DEF TypeInv, TypeOK, Queues, clientVars, Datagrams

(* Every step keeps the types.                                                 *)
LEMMA TypeInvStep ==
  ASSUME TypeInv, [Next]_vars
  PROVE  TypeInv'
<1>t. TypeOK
  BY DEF TypeInv
<1>q. /\ toServer \in Seq(Sound) /\ toClient \in Seq(Sound)
      /\ program = "file" => toServer \in Seq(Sound \ {Foreign})
      /\ copies \in 0..MaxCopies /\ serverOver \in BOOLEAN /\ (serverOver => Fragile)
      /\ lost \in 0..(MAX_RETRANSMISSIONS + 1)
  BY DEF TypeInv, TypeOK
<1>s. Sound \subseteq Datagrams
  BY DEF Sound
<1>f. Strange \subseteq Sound
  BY Strangers
<1>g. Fragile' = Fragile
  BY Chosen DEF Fragile
<1>e. \A q \in Seq(Sound) : q \in Seq(Datagrams)
  <2> HIDE DEF Sound, Datagrams
  <2> QED
    BY <1>s
<1>1. CASE Serve
  <2>1. PICK i \in DOMAIN toServer, ds \in Seq(Sound) : ServeStep(i, ds)
    BY <1>1, Served
  <2>2. RemoveAt(toServer, i) \in Seq(Sound) /\ toClient \o ds \in Seq(Sound)
    BY <1>q, Members, Joins
  <2>3. program = "file" => RemoveAt(toServer, i) \in Seq(Sound \ {Foreign})
    BY <1>q, Members
  <2>4. Queues
    BY <1>q, <2>1, <2>2, <2>3 DEF ServeStep, Queues
  <2> QED
    BY <2>1, <2>4, QueuesChange DEF ServeStep
<1>2. CASE Timeout
  <2> DEFINE d == Datagram("request", id, op)
  <2>1. program' = program /\ Attempts' = Attempts /\ cpc = "wait" /\ cpc' \in {"idle", "wait", "read"}
        /\ (cpc' = "read" => program = "struct2") /\ program \in {"once", "again", "struct2", "old", "echo", "oldecho"}
    BY <1>2, TimedOut DEF Attempts
  <2>2. attempt >= 1 /\ id \in Ids /\ op \in Ops
    BY <2>1 DEF TypeInv, Idle
  <2>3. d \in Sound
    BY <2>2, Outgoing DEF Types, Plain
  <2> HIDE DEF d
  <2>4. toServer' = toServer \/ toServer' = Append(toServer, d)
    BY <1>2, TimedOut DEF d
  <2>5. toServer' \in Seq(Sound)
    BY <1>q, <2>3, <2>4, Joined
  <2>6. attempt' >= 1 /\ attempt' \in 0..Attempts
    <3>1. attempt \in 0..Attempts /\ Attempts \in Nat
      BY <1>t, AttemptsType, RetransmissionAssumption DEF TypeOK
    <3>2. attempt' = attempt \/ (attempt < Attempts /\ attempt' = attempt + 1)
      BY <1>2, TimedOut
    <3> QED
      BY <2>2, <3>1, <3>2
  <2>7. outcome' \in {outcome, "expired"} /\ result' \in {result, "none"}
    BY <1>2, TimedOut
  <2>8. UNCHANGED <<network, toClient, copies, serverOver, lost, id, op, size, runs, used, fresh>>
    BY <1>2, TimedOut
  <2>9. TypeOK'
    <3>1. toServer' \in Seq(Datagrams) /\ toClient' \in Seq(Datagrams)
      BY <1>q, <1>e, <2>5, <2>8
    <3> QED
      BY <1>t, <2>1, <2>6, <2>7, <2>8, <3>1 DEF TypeOK, Datagrams
  <2>10. program' # "file" /\ id' \in Ids \cap used' /\ op' \in Ops
    BY <2>1, <2>2, <2>8 DEF TypeInv, Idle
  <2>11. serverOver' => Fragile'
    BY <1>q, <1>g, <2>8
  <2>12. toServer' \in Seq(Sound) /\ toClient' \in Seq(Sound)
    BY <1>q, <2>5, <2>8
  <2> QED
    BY <2>1, <2>6, <2>9, <2>10, <2>11, <2>12 DEF TypeInv, Idle
<1>3. CASE Receive
  <2>1. PICK i \in DOMAIN toClient : Taken(i)
    BY <1>3, Received
  <2>2. toClient' \in Seq(Sound)
    BY <1>q, <2>1, Members DEF Taken
  <2>3. Attempts' = Attempts
    BY <2>1 DEF Taken, Attempts
  <2>4. ~Idle
    <3>1. cpc \in {"wait", "read", "status", "size", "data"}
      BY <1>3, Received
    <3> QED
      BY <3>1 DEF Idle
  <2>5. PICK m \in Sound :
          /\ cpc' \in {"idle", "wait", "size", "data"}
          /\ cpc' = "wait" => program \in {"again", "struct2"}
          /\ cpc' \in {"size", "data"} => program = "file"
          /\ outcome' \in {outcome, "success", "wrong"}
          /\ result' \in {result, "none", m.op, "garbage"}
          /\ size' \in {size, "garbage"} \/ (m.type = "size" /\ size' = m.op)
    BY <1>3, Received
  <2>6. m.op \in Ops \cup {"noise"} /\ (m.type = "size" => m.op \in Ops)
    BY Strangers DEF Plain, Types
  <2>7. UNCHANGED <<program, network, toServer, copies, serverOver, lost, id, op, attempt, runs, used, fresh>>
    BY <2>1 DEF Taken
  <2> QED
    BY <1>t, <1>q, <1>e, <1>g, <2>2, <2>3, <2>4, <2>5, <2>6, <2>7 DEF TypeInv, TypeOK, Idle, Datagrams
<1>4. ASSUME NEW i \in Ids, NEW o \in Ops, Start(i, o)
      PROVE  TypeInv'
  <2> DEFINE d == Datagram("request", IF HasId THEN i ELSE 0, o)
  <2>1. d \in Sound /\ d \in Sound \ {Foreign}
    BY Outgoing DEF Types, Plain, Strange
  <2> HIDE DEF d
  <2>2. toServer' = Append(toServer, d)
    BY <1>4 DEF Start, SendRequest, d
  <2>3. /\ toServer' \in Seq(Sound)
        /\ program = "file" => toServer' \in Seq(Sound \ {Foreign})
    BY <1>q, <2>1, <2>2, Joined
  <2>4. Attempts' = Attempts /\ 1 \in 0..Attempts
    BY <1>4, AttemptsType, RetransmissionAssumption DEF Start, Attempts
  <2>5. runs' \in 0..MaxRuns /\ lost' \in 0..(MAX_RETRANSMISSIONS + 1)
    <3>1. MaxRuns \in Nat /\ MAX_RETRANSMISSIONS \in Nat /\ runs \in 0..MaxRuns
      BY <1>t, BoundAssumption, RetransmissionAssumption DEF TypeOK
    <3>2. runs < MaxRuns /\ runs' = runs + 1 /\ lost' = 0
      BY <1>4 DEF Start
    <3> QED
      BY <3>1, <3>2
  <2>6. /\ cpc' = CASE program = "xdr"  -> "read"
                    [] program = "file" -> "status"
                    [] OTHER            -> "wait"
        /\ id' = i /\ op' = o /\ attempt' = 1 /\ size' = "garbage"
        /\ outcome' = "none" /\ result' = "none" /\ fresh' = (i \notin used) /\ used' = used \cup {i}
        /\ UNCHANGED <<program, network, toClient, copies, serverOver>>
    BY <1>4 DEF Start
  <2>7. /\ cpc' \in {"wait", "read", "status"}
        /\ cpc' = "wait" => program \in {"once", "again", "struct2", "old", "echo", "oldecho"}
        /\ cpc' = "read" => program = "xdr"
        /\ cpc' = "status" => program = "file"
    BY <1>t, <2>6, ProgramAssumption DEF TypeOK, AllPrograms
  <2>8. toServer' \in Seq(Datagrams) /\ toClient' \in Seq(Datagrams) /\ toClient' \in Seq(Sound)
    BY <1>q, <1>e, <2>3, <2>6
  <2> QED
    BY <1>t, <1>q, <1>g, <2>3, <2>4, <2>5, <2>6, <2>7, <2>8 DEF TypeInv, TypeOK, Idle, Datagrams
<1>5. CASE QuitFile
  <2> DEFINE d == Datagram("quit", 0, op)
  <2>1. /\ program = "file" /\ cpc' = "over" /\ toServer' = Append(toServer, d) /\ op \in Ops
        /\ UNCHANGED <<program, network, toClient, copies, serverOver, lost, id, op, attempt, size,
                       outcome, result, runs, used, fresh>>
    BY <1>5 DEF QuitFile
  <2>2. d \in Sound /\ d \in Sound \ {Foreign}
    <3>1. "quit" \in Plain
      BY DEF Plain, Types
    <3>2. Foreign \in Strange
      BY DEF Strange
    <3>3. Datagram("quit", 0, op) \in Sound \ Strange
      <4>1. 0 \in Ids \cup {0} /\ op \in Ops
        BY <2>1
      <4> QED
        BY <3>1, <4>1, Outgoing
    <3> QED
      BY <3>2, <3>3
  <2> HIDE DEF d
  <2>3. toServer' \in Seq(Sound) /\ toServer' \in Seq(Sound \ {Foreign})
    BY <1>q, <2>1, <2>2, Joined
  <2>4. Attempts' = Attempts
    BY <2>1 DEF Attempts
  <2>5. toServer' \in Seq(Datagrams) /\ toClient' \in Seq(Datagrams) /\ toClient' \in Seq(Sound)
    BY <1>q, <1>e, <2>1, <2>3
  <2>6. TypeOK'
    BY <1>t, <2>1, <2>4, <2>5 DEF TypeOK, Datagrams
  <2> QED
    BY <1>t, <1>q, <1>g, <2>1, <2>3, <2>4, <2>6 DEF TypeInv, Idle
<1>6. CASE Lose
  <2>1. lost' \in 0..(MAX_RETRANSMISSIONS + 1)
    <3>1. lost' = lost \/ (lost <= MAX_RETRANSMISSIONS /\ lost' = lost + 1)
      BY <1>6 DEF Lose, Loss
    <3> QED
      BY <1>q, <3>1, RetransmissionAssumption
  <2>2. Queues
    BY <1>6, <1>q, <2>1, Members DEF Lose, Queues
  <2> QED
    BY <1>6, <2>2, QueuesChange DEF Lose
<1>7. CASE Duplicate
  <2>1. copies' \in 0..MaxCopies
    BY <1>7, <1>q, BoundAssumption DEF Duplicate
  <2>2. Queues
    BY <1>7, <1>q, <2>1, Members DEF Duplicate, Queues
  <2> QED
    BY <1>7, <2>2, QueuesChange DEF Duplicate
<1>8. CASE Noise
  <2>1. PICK m \in Strange :
          /\ \/ /\ program = "file" => m = Empty
                /\ toServer' = Append(toServer, m) /\ UNCHANGED toClient
             \/ toClient' = Append(toClient, m) /\ UNCHANGED toServer
          /\ UNCHANGED <<copies, lost, serverOver>>
    BY <1>8 DEF Noise
  <2>2. m \in Sound /\ (m = Empty => m \in Sound \ {Foreign})
    BY <1>f DEF Empty, Foreign, Datagram
  <2>3. Append(toServer, m) \in Seq(Sound) /\ Append(toClient, m) \in Seq(Sound)
    BY <1>q, <2>2, Joined
  <2>4. program = "file" /\ m = Empty => Append(toServer, m) \in Seq(Sound \ {Foreign})
    BY <1>q, <2>2, Joined
  <2>5. Queues
    BY <1>q, <2>1, <2>3, <2>4 DEF Queues
  <2> QED
    BY <1>8, <2>5, QueuesChange DEF Noise
<1>9. CASE PortClosed
  <2>2. Queues
    BY <1>9, <1>q, Members DEF PortClosed, Queues
  <2> QED
    BY <1>9, <2>2, QueuesChange DEF PortClosed
<1>10. CASE UNCHANGED vars
  <2>1. Queues
    BY <1>10, <1>q DEF vars, netVars, Queues
  <2> QED
    BY <1>10, <2>1, QueuesChange DEF vars
<1> QED
  BY <1>1, <1>2, <1>3, <1>4, <1>5, <1>6, <1>7, <1>8, <1>9, <1>10, Steps
-------------------------------------------------------------------------------
(* Transaction ids.                                                            *)

\* At first nothing is on its way.
LEMMA IdInvInit ==
  ASSUME Init
  PROVE  IdInv
<1>1. Elements(<<>>) = {}
  BY Deserted
<1> QED
  BY <1>1 DEF Init, IdInv, InFlight

(* The invariant survives whatever only takes datagrams away, repeats them or  *)
(* adds foreign ones.                                                          *)
LEMMA NothingNew ==
  ASSUME IdInv, UNCHANGED <<program, id, op, used, fresh, outcome, result>>,
         Elements(toServer)' \subseteq Elements(toServer) \cup Strange,
         Elements(toClient)' \subseteq Elements(toClient) \cup Strange
  PROVE  IdInv'
<1>1. HasId' = HasId
  BY DEF HasId
<1> QED
  BY <1>1 DEF IdInv, InFlight

(* Every step keeps the operands of a fresh id apart.                          *)
LEMMA IdInvStep ==
  ASSUME TypeInv, IdInv, [Next]_vars
  PROVE  IdInv'
<1>q. toServer \in Seq(Sound) /\ toClient \in Seq(Sound)
  BY DEF TypeInv
<1>1. CASE Serve
  <2>1. PICK i \in DOMAIN toServer, ds \in Seq(Sound) : ServeStep(i, ds)
    BY <1>1, Served
  <2> DEFINE m == toServer[i]
             r == Datagram("reply", IF HasId THEN m.id ELSE 0, m.op)
  <2>2. UNCHANGED <<program, id, op, used, fresh, outcome, result>>
    BY <2>1 DEF ServeStep, clientVars
  <2>3. HasId' = HasId /\ (HasId => program # "file")
    BY <2>2 DEF HasId
  <2>4. m \in Elements(toServer) /\ Elements(RemoveAt(toServer, i)) \subseteq Elements(toServer)
    BY <1>q, Members
  <2>5. Elements(toClient \o ds) = Elements(toClient) \cup Elements(ds)
    BY <1>q, Joins
  <2>6. toServer' = RemoveAt(toServer, i) /\ toClient' = toClient \o ds
    BY <2>1 DEF ServeStep
  <2>7. r.type = "reply" /\ r.id = (IF HasId THEN m.id ELSE 0) /\ r.op = m.op
    BY DEF Datagram
  <2>8. program # "file" => (ds = <<>> \/ (m \notin Strange /\ ds = <<r>>))
    BY <2>1 DEF ServeStep
  <2> HIDE DEF r, m
  <2>9. program # "file" => Elements(ds) \subseteq {r} /\ (m \notin Strange \/ Elements(ds) = {})
    <3>1. Elements(<<>>) = {} /\ Elements(<<r>>) = {r}
      <4>1. DOMAIN <<>> = {} /\ DOMAIN <<r>> = {1} /\ <<r>>[1] = r
        OBVIOUS
      <4> QED
        BY <4>1 DEF Elements
    <3> QED
      BY <2>8, <3>1
  <2>10. Elements(toServer)' \subseteq Elements(toServer)
    BY <2>4, <2>6
  <2>11. program # "file" =>
           \A n \in Elements(toClient)' : n \in Elements(toClient) \/ (n = r /\ m \notin Strange)
    BY <2>5, <2>6, <2>9
  <2> QED
    BY <2>2, <2>3, <2>4, <2>7, <2>10, <2>11 DEF IdInv, InFlight
<1>2. CASE Timeout
  <2> DEFINE d == Datagram("request", id, op)
  <2>1. /\ UNCHANGED <<program, toClient, id, op, used, fresh>>
        /\ program \in {"once", "again", "struct2", "old", "echo", "oldecho"} /\ cpc = "wait"
        /\ toServer' = toServer \/ toServer' = Append(toServer, d)
        /\ toServer' = toServer \/ program \in {"again", "struct2"}
        /\ (outcome' = outcome /\ result' = result) \/ outcome' = "expired"
    BY <1>2, TimedOut
  <2>2. id \in Ids /\ op \in Ops
    BY <2>1 DEF TypeInv, Idle
  <2>3. d \in Sound /\ d.type = "request" /\ d.id = id /\ d.op = op
    BY <2>2, Outgoing DEF Types, Plain
  <2> HIDE DEF d
  <2>4. \A n \in Elements(toServer)' : n \in Elements(toServer) \/ n = d
    <3>1. Elements(Append(toServer, d)) = Elements(toServer) \cup {d}
      BY <1>q, <2>3, Joined
    <3> QED
      BY <2>1, <3>1
  <2>5. HasId' = HasId
    BY <2>1 DEF HasId
  <2>6. program # "file" => id \in used
    BY <2>1 DEF TypeInv, Idle
  <2> QED
    BY <2>1, <2>3, <2>4, <2>5, <2>6 DEF IdInv, InFlight
<1>3. CASE Receive
  <2>1. PICK i \in DOMAIN toClient :
          LET m == toClient[i] IN
            /\ Taken(i)
            /\ HasId => \/ outcome' = "success" /\ result' = m.op /\ Mine(m)
                        \/ outcome' = "wrong"
                        \/ UNCHANGED <<outcome, result>>
    BY <1>3, Received DEF HasId
  <2> DEFINE m == toClient[i]
  <2>2. m \in Elements(toClient) /\ Elements(toClient)' \subseteq Elements(toClient)
    BY <1>q, <2>1, Members DEF Taken
  <2>3. UNCHANGED <<program, toServer, id, op, used, fresh>> /\ HasId' = HasId
    BY <2>1 DEF Taken, HasId
  <2>4. Mine(m) => m \notin Strange /\ m.id = id
    BY Strangers DEF Mine, Plain, Types
  <2> HIDE DEF m
  <2>5. HasId => \/ outcome' = "success" /\ result' = m.op /\ Mine(m)
                 \/ outcome' = "wrong"
                 \/ UNCHANGED <<outcome, result>>
    BY <2>1 DEF m
  <2> QED
    BY <2>2, <2>3, <2>4, <2>5 DEF IdInv, InFlight
<1>4. ASSUME NEW i \in Ids, NEW o \in Ops, Start(i, o)
      PROVE  IdInv'
  <2> DEFINE d == Datagram("request", IF HasId THEN i ELSE 0, o)
  <2>1. d \in Sound /\ d.type = "request" /\ d.id = (IF HasId THEN i ELSE 0) /\ d.op = o
    <3> DEFINE k == IF HasId THEN i ELSE 0
    <3>1. k \in Ids \cup {0} /\ "request" \in Plain
      BY DEF Plain, Types
    <3> HIDE DEF k
    <3>2. Datagram("request", k, o) \in Sound /\ Datagram("request", k, o).type = "request"
          /\ Datagram("request", k, o).id = k /\ Datagram("request", k, o).op = o
      BY <3>1, Outgoing
    <3> QED
      BY <3>2 DEF k
  <2> HIDE DEF d
  <2>2. /\ toServer' = Append(toServer, d) /\ id' = i /\ op' = o /\ outcome' = "none"
        /\ fresh' = (i \notin used) /\ used' = used \cup {i} /\ UNCHANGED <<program, toClient>>
    BY <1>4 DEF Start, SendRequest, d
  <2>3. \A n \in Elements(toServer)' : n \in Elements(toServer) \/ n = d
    <3>1. Elements(Append(toServer, d)) = Elements(toServer) \cup {d}
      BY <1>q, <2>1, Joined
    <3> QED
      BY <2>2, <3>1
  <2>4. HasId' = HasId
    BY <2>2 DEF HasId
  <2>5. program # "file" =>
          /\ \A n \in Elements(toServer)' : n \in Strange \/ n.type = "request"
          /\ \A n \in Elements(toClient)' : n \in Strange \/ n.type = "reply"
    BY <2>1, <2>2, <2>3 DEF IdInv
  <2>6. ASSUME HasId, NEW n \in InFlight', n \notin Strange
        PROVE  n.id \in used' /\ (fresh' /\ n.id = id' => n.op = op')
    <3>1. CASE n = d
      BY <2>1, <2>2, <2>6, <3>1
    <3>2. CASE n \in InFlight
      <4>1. n.id \in used
        BY <2>6, <3>2 DEF IdInv
      <4> QED
        BY <2>2, <4>1
    <3> QED
      BY <2>2, <2>3, <2>6, <3>1, <3>2 DEF InFlight
  <2> QED
    BY <2>2, <2>4, <2>5, <2>6 DEF IdInv
<1>5. CASE QuitFile
  <2>1. program = "file" /\ program' = "file"
    BY <1>5 DEF QuitFile
  <2> QED
    BY <2>1 DEF IdInv, HasId
<1>6. CASE Lose \/ Duplicate \/ Noise \/ PortClosed \/ UNCHANGED vars
  <2>1. UNCHANGED <<program, id, op, used, fresh, outcome, result>>
    BY <1>6 DEF Lose, Duplicate, Noise, PortClosed, vars, clientVars
  <2>2. /\ \A i \in DOMAIN toServer :
             /\ Elements(RemoveAt(toServer, i)) \subseteq Elements(toServer)
             /\ Elements(InsertAt(toServer, i, toServer[i])) \subseteq Elements(toServer)
        /\ \A i \in DOMAIN toClient :
             /\ Elements(RemoveAt(toClient, i)) \subseteq Elements(toClient)
             /\ Elements(InsertAt(toClient, i, toClient[i])) \subseteq Elements(toClient)
    BY <1>q, Members
  <2>3. \A m \in Strange :
          /\ Elements(Append(toServer, m)) = Elements(toServer) \cup {m}
          /\ Elements(Append(toClient, m)) = Elements(toClient) \cup {m}
    BY <1>q, Strangers, Joined
  <2>4. /\ Elements(toServer)' \subseteq Elements(toServer) \cup Strange
        /\ Elements(toClient)' \subseteq Elements(toClient) \cup Strange
    <3>1. CASE Lose
      BY <2>2, <3>1 DEF Lose
    <3>2. CASE Duplicate
      BY <2>2, <3>2 DEF Duplicate
    <3>3. CASE Noise
      BY <2>3, <3>3 DEF Noise
    <3>4. CASE PortClosed
      BY <2>2, <3>4 DEF PortClosed
    <3>5. CASE UNCHANGED vars
      BY <3>5 DEF vars, netVars
    <3> QED
      BY <1>6, <3>1, <3>2, <3>3, <3>4, <3>5
  <2> QED
    BY <2>1, <2>4, NothingNew
<1> QED
  BY <1>1, <1>2, <1>3, <1>4, <1>5, <1>6, Steps
-------------------------------------------------------------------------------
(* A network that only loses datagrams.                                        *)

\* Nothing is on its way.
LEMMA Nothing ==
  ASSUME NEW S, NEW q \in Seq(S), Len(q) = 0
  PROVE  q = <<>> /\ Elements(q) = {} /\ DOMAIN q = {}
<1>1. DOMAIN q = {} /\ q = <<>>
  OBVIOUS
<1> QED
  BY <1>1 DEF Elements

\* At first that is so.
LEMMA LossInvInit ==
  ASSUME Init
  PROVE  LossInv
<1>1. Elements(<<>>) = {} /\ Len(<<>>) = 0
  BY Deserted
<1> QED
  BY <1>1 DEF Init, LossInv, InFlight, Fits, Due

(* With both queues empty and the run over, everything fits.                   *)
LEMMA FitsEmpty ==
  ASSUME toServer' = <<>>, toClient' = <<>>
  PROVE  Fits'
<1>1. Elements(<<>>) = {} /\ Len(<<>>) = 0
  BY Deserted
<1>2. Due' \in {0, 1, 2, 3}
  BY DEF Due
<1> QED
  BY <1>1, <1>2 DEF Fits, InFlight

(* Every step keeps it.                                                        *)
LEMMA LossInvStep ==
  ASSUME TypeInv, LossInv, [Next]_vars
  PROVE  LossInv'
<1>n. UNCHANGED <<program, network>>
  BY Chosen
<1>h. HasId' = HasId
  BY <1>n DEF HasId
<1> SUFFICES ASSUME ~HasId, network \subseteq {"lose"}
             PROVE  /\ outcome' = "success" => result' = op'
                    /\ cpc' # "over" => Fits'
  BY <1>n, <1>h DEF LossInv
<1>l. /\ outcome = "success" => result = op
      /\ cpc # "over" => Fits
  BY DEF LossInv
<1>q. /\ toServer \in Seq(Sound) /\ toClient \in Seq(Sound)
      /\ Len(toServer) \in Nat /\ Len(toClient) \in Nat
      /\ DOMAIN toServer = 1..Len(toServer) /\ DOMAIN toClient = 1..Len(toClient)
  BY DEF TypeInv
<1>p. /\ program \in {"echo", "oldecho", "xdr", "file"} /\ "delay" \notin network
      /\ "duplicate" \notin network /\ "noise" \notin network
  BY ProgramAssumption DEF TypeInv, TypeOK, HasId, AllPrograms
<1>c. /\ cpc \in {"wait", "read"} => program # "file"
      /\ cpc \in {"status", "size", "data", "over"} => program = "file"
  BY DEF TypeInv
<1>e. /\ \A i \in DOMAIN toServer : Len(toServer) = 1 => RemoveAt(toServer, i) = <<>>
      /\ \A i \in DOMAIN toClient : Len(toClient) = 1 => RemoveAt(toClient, i) = <<>>
  <2>1. ASSUME NEW i \in DOMAIN toServer, Len(toServer) = 1
        PROVE  RemoveAt(toServer, i) = <<>>
    <3>1. RemoveAt(toServer, i) \in Seq(Sound) /\ Len(RemoveAt(toServer, i)) = Len(toServer) - 1
      BY <1>q, Removed
    <3>2. Len(RemoveAt(toServer, i)) = 0
      BY <2>1, <3>1
    <3> QED
      BY <3>1, <3>2, Nothing
  <2>2. ASSUME NEW i \in DOMAIN toClient, Len(toClient) = 1
        PROVE  RemoveAt(toClient, i) = <<>>
    <3>1. RemoveAt(toClient, i) \in Seq(Sound) /\ Len(RemoveAt(toClient, i)) = Len(toClient) - 1
      BY <1>q, Removed
    <3>2. Len(RemoveAt(toClient, i)) = 0
      BY <2>2, <3>1
    <3> QED
      BY <3>1, <3>2, Nothing
  <2> QED
    BY <2>1, <2>2
<1>1. CASE Serve
  <2>1. PICK i \in DOMAIN toServer, ds \in Seq(Sound) :
          /\ ServeStep(i, ds)
          /\ LET m == toServer[i] IN
               \/ ds = <<>>
               \/ program # "file" /\ m \notin Strange /\ ds = <<Datagram("reply", 0, m.op)>>
               \/ program = "file" /\ m \notin Strange /\ ds \in FileReply(m)
    BY <1>1, Served DEF ServeStep
  <2> DEFINE m == toServer[i]
             r == Datagram("reply", 0, m.op)
  <2>2. /\ toServer' = RemoveAt(toServer, i) /\ toClient' = toClient \o ds
        /\ UNCHANGED <<cpc, op, size, outcome, result>>
    BY <2>1 DEF ServeStep, clientVars
  <2>3. ASSUME cpc # "over"
        PROVE  Fits'
    <3>1. Fits /\ toServer # <<>> /\ m \in Elements(toServer)
      BY <1>l, <1>q, <2>3 DEF Elements
    <3>2. /\ Len(toServer) = 1 /\ toClient = <<>> /\ cpc \in {"wait", "read", "status"}
          /\ m \notin Strange /\ m.op = op /\ m \in Sound
      <4>1. m \in Sound
        BY <1>q
      <4> QED
        BY <3>1, <4>1 DEF Fits, InFlight
    <3>3. toServer' = <<>> /\ toClient' = ds
      BY <1>e, <2>1, <2>2, <3>2
    <3>9. CASE ds = <<>>
      BY <3>3, <3>9, FitsEmpty
    <3> SUFFICES ASSUME ds # <<>>
                 PROVE  Fits'
      BY <3>9
    <3>4. \A d \in Elements(ds) : d \notin Strange /\ d.op = op
      <4>1. CASE program = "file"
        <5> DEFINE A == {Datagram(t, 0, m.op) : t \in {"ok", "err", "size", "data"}}
        <5>1. m \in Sound \ Strange
          BY <3>2
        <5>2. /\ A \subseteq Sound \ Strange /\ ds \in Seq(A)
              /\ \A d \in A : d.op = m.op
          BY <2>1, <4>1, <5>1, FileAnswer
        <5> HIDE DEF A, m
        <5>3. \A d \in Elements(ds) : d \in A
          BY <5>2 DEF Elements
        <5> QED
          BY <3>2, <5>2, <5>3
      <4>2. CASE program # "file"
        <5>1. ds = <<r>>
          BY <2>1, <3>2, <4>2
        <5>2. r \notin Strange /\ r.op = m.op
          <6>1. r.type = "reply" /\ r.op = m.op
            BY DEF Datagram
          <6> QED
            BY <6>1, Strangers DEF Plain, Types
        <5> HIDE DEF r, m
        <5>3. Elements(ds) = {r}
          <6>1. DOMAIN ds = {1} /\ ds[1] = r
            BY <5>1
          <6> QED
            BY <6>1 DEF Elements
        <5> QED
          BY <3>2, <5>2, <5>3
      <4> QED
        BY <4>1, <4>2
    <3>5. /\ Len(ds) <= Due
          /\ \A d \in Elements(ds) : d.type = "err" => Len(ds) = 1
          /\ cpc = "status" /\ Len(ds) = 3 => ds[2].type = "size" /\ ds[3].type = "data"
      <4>1. CASE program = "file"
        <5>1. m \in Sound \ Strange
          BY <3>2
        <5>2. /\ Len(ds) <= 3
              /\ Len(ds) = 3 => ds[2].type = "size" /\ ds[3].type = "data"
              /\ \A d \in Elements(ds) : d.type = "err" => Len(ds) = 1
          BY <2>1, <4>1, <5>1, FileAnswer
        <5>3. Due = 3
          BY <1>c, <3>2, <4>1 DEF Due
        <5> QED
          BY <5>2, <5>3
      <4>2. CASE program # "file"
        <5>1. ds = <<r>>
          BY <2>1, <3>2, <4>2
        <5>2. Len(ds) = 1
          BY <5>1
        <5>3. Due = 1
          BY <1>c, <3>2, <4>2 DEF Due
        <5> QED
          BY <1>c, <4>2, <5>2, <5>3
      <4> QED
        BY <4>1, <4>2
    <3>6. Due' = Due
      BY <2>2 DEF Due
    <3>7. Elements(<<>>) = {}
      BY Deserted
    <3> QED
      BY <2>2, <3>2, <3>3, <3>4, <3>5, <3>6, <3>7 DEF Fits, InFlight
  <2> QED
    BY <1>l, <2>2, <2>3
<1>2. CASE Timeout
  <2>1. /\ (\A i \in DOMAIN toServer : toServer[i] \in Strange) /\ toClient = <<>>
        /\ UNCHANGED toClient /\ cpc = "wait"
        /\ program \in {"again", "struct2"} \/ (outcome' = "expired" /\ UNCHANGED toServer)
    BY <1>2, <1>p, TimedOut
  <2>3. toServer = <<>>
    <3>1. \A i \in DOMAIN toServer : toServer[i] \notin Strange
      BY <1>l, <2>1 DEF Fits, InFlight, Elements
    <3>2. DOMAIN toServer = {}
      BY <2>1, <3>1
    <3>3. Len(toServer) = 0
      BY <1>q, <3>2
    <3> QED
      BY <1>q, <3>3, Nothing
  <2>2. toServer' = <<>> /\ toClient' = <<>> /\ outcome' = "expired"
    BY <1>p, <2>1, <2>3
  <2> QED
    BY <2>2, FitsEmpty
<1>3. CASE Receive
  <2>1. PICK i \in DOMAIN toClient :
          LET m == toClient[i] IN
            /\ Taken(i) /\ m \in Sound
            /\ \/ /\ program \in {"echo", "oldecho", "xdr"} /\ cpc \in {"wait", "read"}
                  /\ cpc' = "idle"
                  /\ \/ outcome' = "success" /\ result' = m.op
                     \/ outcome' = "wrong" /\ result' = "none"
               \/ /\ program = "file" /\ cpc = "status" /\ size' = size
                  /\ \/ /\ m.type = "err" \/ m \in Strange
                        /\ cpc' = "idle" /\ outcome' = "wrong" /\ result' = "none"
                     \/ cpc' = "size" /\ UNCHANGED <<outcome, result>>
               \/ /\ program = "file" /\ cpc = "size"
                  /\ \/ /\ cpc' = "data" /\ UNCHANGED <<outcome, result>>
                        /\ size' = IF m.type = "size" THEN m.op ELSE "garbage"
                     \/ m \in Strange
               \/ /\ program = "file" /\ cpc = "data" /\ cpc' = "idle" /\ size' = size
                  /\ \/ /\ outcome' = "success"
                        /\ result' = IF m.type = "data" /\ m.op = size THEN m.op ELSE "garbage"
                     \/ m.type # "data" /\ outcome' = "wrong" /\ result' = "none"
    BY <1>3, <1>p, Received
  <2> DEFINE m == toClient[1]
             n == Len(toClient)
  <2>2. i = 1 /\ m \in Elements(toClient) /\ n \in Nat /\ n >= 1
    <3>1. i = 1
      BY <1>p, <2>1 DEF Taken, Arriving
    <3> QED
      BY <1>q, <2>1, <3>1 DEF Elements
  <2>3. toClient' = RemoveAt(toClient, 1) /\ UNCHANGED <<toServer, op>>
    BY <2>1, <2>2 DEF Taken
  <2>4. /\ Len(toClient') = n - 1
        /\ \A j \in 1..(n - 1) : toClient'[j] = toClient[j + 1]
        /\ Elements(toClient)' \subseteq Elements(toClient)
    <3>1. 1 \in DOMAIN toClient
      BY <2>1, <2>2
    <3>2. /\ Len(RemoveAt(toClient, 1)) = Len(toClient) - 1
          /\ \A j \in 1..(Len(toClient) - 1) :
               RemoveAt(toClient, 1)[j] = IF j < 1 THEN toClient[j] ELSE toClient[j + 1]
          /\ Elements(RemoveAt(toClient, 1)) \subseteq Elements(toClient)
      BY <1>q, <3>1, Removed, Members
    <3>3. \A j \in 1..(n - 1) : ~(j < 1)
      OBVIOUS
    <3> QED
      BY <2>3, <3>2, <3>3
  <2>5. cpc # "over" /\ Fits
    BY <1>l, <2>1
  <2>6. toServer = <<>> /\ m.op = op /\ n <= Due /\ m \notin Strange
    <3>1. toClient # <<>>
      BY <2>2
    <3> QED
      BY <2>2, <2>5, <3>1 DEF Fits, InFlight
  <2>7. toServer' = <<>> /\ op' = op
    BY <2>3, <2>6
  <2>e. Elements(<<>>) = {}
    BY Deserted
  <2> HIDE DEF m, n
  <2>8. ASSUME n = 1
        PROVE  Fits'
    <3>1. toClient' = <<>>
      BY <1>e, <1>q, <2>1, <2>2, <2>3, <2>8 DEF n
    <3> QED
      BY <2>7, <3>1, FitsEmpty
  <2>9. \A d \in InFlight' : d \notin Strange /\ d.op = op'
    BY <2>4, <2>5, <2>7, <2>e DEF Fits, InFlight
  <2>10. \A d \in Elements(toClient)' : d.type = "err" => n = 1
    BY <2>4, <2>5 DEF Fits, n
  <2>11. CASE cpc \in {"wait", "read"}
    <3>1. n = 1
      <4>1. Due = 1
        BY <2>11 DEF Due
      <4> QED
        BY <2>2, <2>6, <4>1
    <3>2. outcome' = "success" => result' = op'
      BY <2>1, <2>2, <2>6, <2>7, <2>11 DEF m
    <3> QED
      BY <2>8, <3>1, <3>2
  <2>12. CASE cpc = "status"
    <3>1. CASE m.type = "err"
      <4>1. n = 1
        BY <2>2, <2>5, <3>1 DEF Fits, n
      <4>2. outcome' = "success" => result' = op'
        BY <1>l, <2>1, <2>7, <2>12
      <4> QED
        BY <2>8, <4>1, <4>2
    <3>2. CASE m.type # "err"
      <4>1. cpc' = "size" /\ UNCHANGED <<outcome, result>>
        BY <2>1, <2>2, <2>6, <2>12, <3>2 DEF m
      <4>2. Due = 3 /\ Due' = 2
        BY <2>12, <4>1 DEF Due
      <4>3. n - 1 <= 2 /\ (n - 1 = 2 => n = 3 /\ 1 \in 1..(n - 1) /\ 2 \in 1..(n - 1))
        BY <2>2, <2>6, <4>2
      <4>4. Len(toClient') = 2 => toClient'[1].type = "size" /\ toClient'[2].type = "data"
        <5>1. n - 1 = 2 => toClient'[1] = toClient[1 + 1] /\ toClient'[2] = toClient[2 + 1]
          BY <2>4, <4>3
        <5>2. n - 1 = 2 => toClient'[1] = toClient[2] /\ toClient'[2] = toClient[3]
          BY <5>1
        <5>3. n = 3 => toClient[2].type = "size" /\ toClient[3].type = "data"
          BY <2>5, <2>12 DEF Fits, n
        <5> QED
          BY <2>4, <4>3, <5>2, <5>3
      <4>5. \A d \in Elements(toClient)' : d.type = "err" => Len(toClient') = 1
        <5>1. n = 1 => Elements(toClient)' = {}
          BY <1>e, <1>q, <2>1, <2>2, <2>3, <2>e DEF n
        <5> QED
          BY <2>10, <5>1
      <4>6. Fits'
        BY <2>4, <2>7, <2>9, <2>e, <4>1, <4>2, <4>3, <4>4, <4>5 DEF Fits
      <4> QED
        BY <1>l, <2>7, <4>1, <4>6
    <3> QED
      BY <3>1, <3>2
  <2>13. CASE cpc = "size"
    <3>1. cpc' = "data" /\ UNCHANGED <<outcome, result>> /\ size' = IF m.type = "size" THEN m.op ELSE "garbage"
      BY <2>1, <2>2, <2>6, <2>13 DEF m
    <3>2. Due = 2 /\ Due' = 1
      BY <2>13, <3>1 DEF Due
    <3>3. n - 1 <= 1 /\ (n - 1 = 1 => n = 2 /\ 1 \in 1..(n - 1))
      BY <2>2, <2>6, <3>2
    <3>4. Len(toClient') = 1 => toClient'[1].type = "data" /\ size' = op'
      <4>1. n - 1 = 1 => toClient'[1] = toClient[1 + 1]
        BY <2>4, <3>3
      <4>2. n = 2 => toClient[2].type = "data" /\ m.type = "size"
        BY <2>5, <2>13 DEF Fits, n, m
      <4>3. n - 1 = 1 => toClient'[1] = toClient[2]
        BY <4>1
      <4>4. n - 1 = 1 => size' = op'
        BY <2>6, <2>7, <3>1, <3>3, <4>2
      <4> QED
        BY <2>4, <3>3, <4>2, <4>3, <4>4
    <3>5. \A d \in Elements(toClient)' : d.type = "err" => Len(toClient') = 1
      <4>1. n = 1 => Elements(toClient)' = {}
        BY <1>e, <1>q, <2>1, <2>2, <2>3, <2>e DEF n
      <4> QED
        BY <2>10, <4>1
    <3>6. Fits'
      BY <2>4, <2>7, <2>9, <2>e, <3>1, <3>2, <3>3, <3>4, <3>5 DEF Fits
    <3> QED
      BY <1>l, <2>7, <3>1, <3>6
  <2>14. CASE cpc = "data"
    <3>1. n = 1
      <4>1. Due = 1
        BY <2>14 DEF Due
      <4> QED
        BY <2>2, <2>6, <4>1
    <3>2. m.type = "data" /\ size = op
      BY <2>5, <2>14, <3>1 DEF Fits, n, m
    <3>3. outcome' = "success" => result' = op'
      BY <2>1, <2>2, <2>6, <2>7, <2>14, <3>2 DEF m
    <3> QED
      BY <2>8, <3>1, <3>3
  <2> QED
    BY <2>1, <2>11, <2>12, <2>13, <2>14
<1>4. ASSUME NEW i \in Ids, NEW o \in Ops, Start(i, o)
      PROVE  /\ outcome' = "success" => result' = op'
             /\ cpc' # "over" => Fits'
  <2> DEFINE d == Datagram("request", 0, o)
  <2>1. cpc = "idle" /\ Fits
    BY <1>4, <1>l DEF Start
  <2>2. toServer = <<>> /\ toClient = <<>>
    <3>1. Len(toClient) = 0
      BY <1>q, <2>1 DEF Fits, Due
    <3> QED
      BY <1>q, <2>1, <3>1, Nothing DEF Fits
  <2>3. toServer' = Append(<<>>, d) /\ toClient' = <<>> /\ op' = o /\ outcome' = "none"
    BY <1>4, <2>2 DEF Start, SendRequest
  <2>4. d.type = "request" /\ d.op = o /\ d \notin Strange
    <3>1. d.type = "request" /\ d.op = o
      BY DEF Datagram
    <3> QED
      BY <3>1, Strangers DEF Plain, Types
  <2> HIDE DEF d
  <2>5. Len(toServer') = 1 /\ Elements(toServer)' = {d} /\ toServer' # <<>>
    <3>1. /\ Len(Append(<<>>, d)) = 1 /\ DOMAIN Append(<<>>, d) = {1} /\ Append(<<>>, d)[1] = d
      OBVIOUS
    <3>2. Elements(Append(<<>>, d)) = {d}
      BY <3>1 DEF Elements
    <3> QED
      BY <2>3, <3>1, <3>2
  <2>6. cpc' \in {"wait", "read", "status"}
    <3>1. cpc' = CASE program = "xdr"  -> "read"
                   [] program = "file" -> "status"
                   [] OTHER            -> "wait"
      BY <1>4 DEF Start
    <3> QED
      BY <1>p, <3>1
  <2>7. Due' \in {1, 3}
    BY <2>6 DEF Due
  <2>8. Elements(<<>>) = {} /\ Len(<<>>) = 0
    BY Deserted
  <2> QED
    BY <2>3, <2>4, <2>5, <2>6, <2>7, <2>8 DEF Fits, InFlight
<1>5. CASE QuitFile
  <2>1. cpc' = "over" /\ UNCHANGED <<op, outcome, result>>
    BY <1>5 DEF QuitFile
  <2> QED
    BY <1>l, <2>1
<1>6. CASE Lose
  <2>1. UNCHANGED <<cpc, op, size, outcome, result>>
    BY <1>6 DEF Lose, clientVars
  <2>d. Due' = Due
    BY <2>1 DEF Due
  <2>2. ASSUME Fits, NEW i \in DOMAIN toServer, toServer' = RemoveAt(toServer, i), UNCHANGED toClient
        PROVE  Fits'
    <3>1. toServer # <<>>
      BY <1>q, <2>2
    <3>2. Len(toServer) = 1 /\ toClient = <<>>
      BY <2>2, <3>1 DEF Fits
    <3> QED
      BY <1>e, <2>2, <3>2, FitsEmpty
  <2>3. ASSUME Fits, NEW i \in DOMAIN toClient, toClient' = RemoveAt(toClient, i), UNCHANGED toServer
        PROVE  Fits'
    <3>1. toClient # <<>>
      BY <1>q, <2>3
    <3>2. toServer = <<>>
      BY <2>3, <3>1 DEF Fits
    <3>3. Len(toClient') = Len(toClient) - 1 /\ Elements(toClient)' \subseteq Elements(toClient)
      BY <1>q, <2>3, Removed, Members
    <3>4. Len(toClient) = 1 => toClient' = <<>>
      BY <1>e, <2>3
    <3>5. Due \in {0, 1, 2, 3} /\ (cpc = "status" => Due = 3) /\ (cpc = "size" => Due = 2)
          /\ (cpc = "data" => Due = 1)
      BY DEF Due
    <3>6. /\ Len(toClient') <= Due
          /\ ~(cpc = "status" /\ Len(toClient') = 3)
          /\ ~(cpc = "size" /\ Len(toClient') = 2)
          /\ ~(cpc = "data" /\ Len(toClient') = 1)
      <4>1. Len(toClient) <= Due
        BY <2>3 DEF Fits
      <4>2. Len(toClient') < Due /\ Due \in Nat /\ Len(toClient') \in Int
        BY <1>q, <3>3, <3>5, <4>1
      <4>3. CASE Due = 3
        BY <3>5, <4>2, <4>3
      <4>4. CASE Due = 2
        BY <3>5, <4>2, <4>4
      <4>5. CASE Due \in {0, 1}
        BY <3>5, <4>2, <4>5
      <4> QED
        BY <3>5, <4>3, <4>4, <4>5
    <3>7. \A m \in InFlight' : m \in InFlight
      BY <2>3, <3>3 DEF InFlight
    <3>8. Elements(<<>>) = {}
      BY Deserted
    <3>9. \A m \in Elements(toClient)' : m.type # "err"
      BY <2>3, <3>3, <3>4, <3>8 DEF Fits
    <3> QED
      BY <2>1, <2>3, <2>d, <3>2, <3>6, <3>7, <3>9 DEF Fits
  <2> QED
    BY <1>6, <1>l, <2>1, <2>2, <2>3 DEF Lose
<1>7. CASE Duplicate \/ Noise
  BY <1>7, <1>p DEF Duplicate, Noise
<1>8. CASE PortClosed
  <2>1. UNCHANGED <<cpc, op, size, outcome, result>>
    BY <1>8 DEF PortClosed, clientVars
  <2>2. cpc = "idle" => DOMAIN toClient = {}
    <3>1. cpc = "idle" => Len(toClient) = 0
      BY <1>l, <1>q DEF Fits, Due
    <3> QED
      BY <1>q, <3>1
  <2>3. cpc = "over"
    BY <1>8, <2>2 DEF PortClosed
  <2> QED
    BY <1>l, <2>1, <2>3
<1>9. CASE UNCHANGED vars
  <2>1. /\ UNCHANGED <<cpc, op, size, outcome, result>> /\ UNCHANGED <<toServer, toClient>>
    BY <1>9 DEF vars, clientVars, netVars
  <2>2. Due' = Due
    BY <2>1 DEF Due
  <2> QED
    BY <1>l, <2>1, <2>2 DEF Fits, InFlight
<1> QED
  BY <1>1, <1>2, <1>3, <1>4, <1>5, <1>6, <1>7, <1>8, <1>9, Steps
-------------------------------------------------------------------------------
(* Counting datagrams.                                                         *)

Positions(q, T) == {i \in DOMAIN q : q[i] \in T}

\* The counts are counts.
LEMMA CountType ==
  ASSUME NEW S, NEW q \in Seq(S), NEW T
  PROVE  /\ IsFiniteSet(Positions(q, T)) /\ Count(q, T) = Cardinality(Positions(q, T))
         /\ Count(q, T) \in Nat
<1>1. Positions(q, T) \subseteq 1..Len(q) /\ Len(q) \in Nat
  BY DEF Positions
<1>2. IsFiniteSet(1..Len(q))
  BY <1>1, FS_Interval
<1>3. IsFiniteSet(Positions(q, T)) /\ Count(q, T) = Cardinality(Positions(q, T))
  BY <1>1, <1>2, FS_Subset DEF Count, Positions
<1> QED
  BY <1>3, FS_CardinalityType

\* An empty queue counts nothing.
LEMMA CountNone == \A T : Count(<<>>, T) = 0
<1>1. \A T : {i \in DOMAIN <<>> : <<>>[i] \in T} = {}
  OBVIOUS
<1> QED
  BY <1>1, FS_EmptySet DEF Count

\* Neither does a queue in which nobody is in the set.
LEMMA CountNobody ==
  ASSUME NEW q, NEW T, \A i \in DOMAIN q : q[i] \notin T
  PROVE  Count(q, T) = 0
<1>1. {i \in DOMAIN q : q[i] \in T} = {}
  OBVIOUS
<1> QED
  BY <1>1, FS_EmptySet DEF Count

\* Positions may move, but none are lost.
LEMMA Moved ==
  ASSUME NEW S, NEW q \in Seq(S), NEW r \in Seq(S), NEW T, NEW P \in SUBSET Positions(q, T),
         NEW f \in [P -> Positions(r, T)], \A i, j \in P : f[i] = f[j] => i = j
  PROVE  Cardinality(P) <= Count(r, T)
<1>1. IsFiniteSet(Positions(r, T)) /\ Count(r, T) = Cardinality(Positions(r, T))
  BY CountType
<1>2. f \in Injection(P, Positions(r, T))
  BY DEF Injection, IsInjective
<1> QED
  BY <1>1, <1>2, FS_Injection

(* A datagram comes in last.                                                   *)
LEMMA CountJoined ==
  ASSUME NEW S, NEW q \in Seq(S), NEW e \in S, NEW T
  PROVE  /\ Count(Append(q, e), T) >= Count(q, T)
         /\ e \in T => Count(Append(q, e), T) = Count(q, T) + 1
<1> DEFINE r == Append(q, e)
           n == Len(q)
<1>1. /\ r \in Seq(S) /\ n \in Nat /\ DOMAIN q = 1..n /\ DOMAIN r = 1..(n + 1)
      /\ r[n + 1] = e /\ \A i \in 1..n : r[i] = q[i]
  OBVIOUS
<1>2. \A i : i \in 1..(n + 1) <=> i \in 1..n \/ i = n + 1
  BY <1>1
<1>3. n + 1 \notin 1..n
  BY <1>1
<1>4. /\ IsFiniteSet(Positions(q, T)) /\ Count(q, T) = Cardinality(Positions(q, T))
      /\ Count(q, T) \in Nat
      /\ IsFiniteSet(Positions(r, T)) /\ Count(r, T) = Cardinality(Positions(r, T))
  BY <1>1, CountType
<1> HIDE DEF r, n
<1>5. Positions(q, T) \subseteq Positions(r, T) /\ n + 1 \notin Positions(q, T)
  BY <1>1, <1>2, <1>3 DEF Positions
<1>6. Cardinality(Positions(q, T)) <= Cardinality(Positions(r, T))
  BY <1>4, <1>5, FS_Subset
<1>7. ASSUME e \in T
      PROVE  Cardinality(Positions(r, T)) = Cardinality(Positions(q, T)) + 1
  <2>1. Positions(r, T) = Positions(q, T) \cup {n + 1}
    BY <1>1, <1>2, <1>7 DEF Positions
  <2> QED
    BY <1>4, <1>5, <2>1, FS_AddElement
<1>8. Cardinality(Positions(r, T)) \in Nat
  BY <1>4, FS_CardinalityType
<1> QED
  BY <1>4, <1>6, <1>7, <1>8 DEF r

(* One is taken out.                                                           *)
LEMMA CountRemoved ==
  ASSUME NEW S, NEW q \in Seq(S), NEW i \in DOMAIN q, NEW T
  PROVE  /\ Count(q, T) <= Count(RemoveAt(q, i), T) + 1
         /\ q[i] \notin T => Count(q, T) <= Count(RemoveAt(q, i), T)
<1> DEFINE r == RemoveAt(q, i)
           P == Positions(q, T) \ {i}
           f == [j \in P |-> IF j < i THEN j ELSE j - 1]
           n == Len(q)
<1>1. /\ r \in Seq(S) /\ Len(r) = n - 1
      /\ \A j \in 1..(n - 1) : r[j] = IF j < i THEN q[j] ELSE q[j + 1]
  BY Removed
<1>2. n \in Nat /\ DOMAIN q = 1..n /\ i \in 1..n
  OBVIOUS
<1>3. DOMAIN r = 1..(n - 1)
  BY <1>1, <1>2
<1> HIDE DEF r, n
<1>4. P \subseteq Positions(q, T) /\ \A j \in P : j \in 1..n /\ j # i /\ q[j] \in T
  BY <1>2 DEF Positions
<1> HIDE DEF P
<1>5. \A j \in P : f[j] \in Positions(r, T)
  <2> SUFFICES ASSUME NEW j \in P PROVE f[j] \in Positions(r, T)
    OBVIOUS
  <2>1. CASE j < i
    <3>1. j \in 1..(n - 1) /\ r[j] = q[j] /\ f[j] = j
      BY <1>1, <1>2, <1>4, <2>1
    <3> HIDE DEF f
    <3> QED
      BY <1>3, <1>4, <3>1 DEF Positions
  <2>2. CASE ~(j < i)
    <3>1. j - 1 \in 1..(n - 1) /\ ~(j - 1 < i) /\ (j - 1) + 1 = j /\ f[j] = j - 1
      BY <1>2, <1>4, <2>2
    <3>2. r[j - 1] = q[j]
      BY <1>1, <3>1
    <3> HIDE DEF f
    <3> QED
      BY <1>3, <1>4, <3>1, <3>2 DEF Positions
  <2> QED
    BY <2>1, <2>2
<1>6. ASSUME NEW j \in P, NEW k \in P, f[j] = f[k]
      PROVE  j = k
  <2>1. j \in Int /\ k \in Int /\ i \in Int /\ j # i /\ k # i
    BY <1>2, <1>4
  <2>2. (IF j < i THEN j ELSE j - 1) = (IF k < i THEN k ELSE k - 1)
    BY <1>6
  <2> QED
    BY <2>1, <2>2
<1>7. Cardinality(P) <= Count(r, T)
  <2>1. f \in [P -> Positions(r, T)]
    BY <1>5
  <2> HIDE DEF f
  <2> QED
    BY <1>1, <1>4, <1>6, <2>1, Moved
<1>8. /\ IsFiniteSet(Positions(q, T)) /\ Count(q, T) = Cardinality(Positions(q, T))
      /\ Count(q, T) \in Nat /\ Count(r, T) \in Nat
  BY <1>1, CountType
<1>9. CASE i \in Positions(q, T)
  <2>1. Cardinality(P) = Cardinality(Positions(q, T)) - 1
    BY <1>8, <1>9, FS_RemoveElement DEF P
  <2>2. q[i] \in T
    BY <1>9 DEF Positions
  <2> QED
    BY <1>7, <1>8, <2>1, <2>2 DEF r
<1>10. CASE i \notin Positions(q, T)
  <2>1. P = Positions(q, T)
    BY <1>10 DEF P
  <2> QED
    BY <1>7, <1>8, <2>1 DEF r
<1> QED
  BY <1>9, <1>10

(* One is doubled.                                                             *)
LEMMA CountDoubled ==
  ASSUME NEW S, NEW q \in Seq(S), NEW i \in DOMAIN q, NEW T
  PROVE  Count(q, T) <= Count(InsertAt(q, i, q[i]), T)
<1> DEFINE r == InsertAt(q, i, q[i])
           P == Positions(q, T)
           f == [j \in P |-> IF j <= i THEN j ELSE j + 1]
           n == Len(q)
<1>1. /\ r \in Seq(S) /\ Len(r) = n + 1
      /\ \A j \in 1..(n + 1) : r[j] = IF j <= i THEN q[j] ELSE q[j - 1]
  BY Doubled
<1>2. n \in Nat /\ DOMAIN q = 1..n /\ i \in 1..n
  OBVIOUS
<1>3. DOMAIN r = 1..(n + 1)
  BY <1>1, <1>2
<1> HIDE DEF r, n
<1>4. P \subseteq Positions(q, T) /\ \A j \in P : j \in 1..n /\ q[j] \in T
  BY <1>2 DEF Positions
<1> HIDE DEF P
<1>5. \A j \in P : f[j] \in Positions(r, T)
  <2> SUFFICES ASSUME NEW j \in P PROVE f[j] \in Positions(r, T)
    OBVIOUS
  <2>1. CASE j <= i
    <3>1. j \in 1..(n + 1) /\ r[j] = q[j] /\ f[j] = j
      BY <1>1, <1>2, <1>4, <2>1
    <3> HIDE DEF f
    <3> QED
      BY <1>3, <1>4, <3>1 DEF Positions
  <2>2. CASE ~(j <= i)
    <3>1. j + 1 \in 1..(n + 1) /\ ~(j + 1 <= i) /\ (j + 1) - 1 = j /\ f[j] = j + 1
      BY <1>2, <1>4, <2>2
    <3>2. r[j + 1] = q[j]
      BY <1>1, <3>1
    <3> HIDE DEF f
    <3> QED
      BY <1>3, <1>4, <3>1, <3>2 DEF Positions
  <2> QED
    BY <2>1, <2>2
<1>6. ASSUME NEW j \in P, NEW k \in P, f[j] = f[k]
      PROVE  j = k
  <2>1. j \in Int /\ k \in Int /\ i \in Int
    BY <1>2, <1>4
  <2>2. (IF j <= i THEN j ELSE j + 1) = (IF k <= i THEN k ELSE k + 1)
    BY <1>6
  <2> QED
    BY <2>1, <2>2
<1>7. Cardinality(P) <= Count(r, T)
  <2>1. f \in [P -> Positions(r, T)]
    BY <1>5
  <2> HIDE DEF f
  <2> QED
    BY <1>1, <1>4, <1>6, <2>1, Moved
<1> QED
  BY <1>7, CountType DEF P, r
-------------------------------------------------------------------------------
(* Losses and timeouts.                                                        *)

\* At first no run has expired.
LEMMA ExpiryInvInit ==
  ASSUME Init
  PROVE  ExpiryInv
  BY DEF Init, ExpiryInv

(* The account stands when no datagram of the run is taken without being       *)
(* counted as lost.                                                            *)
LEMMA StillAccounted ==
  ASSUME TypeInv, Accounted, UNCHANGED attempt,
         toServer' \in Seq(Sound), toClient' \in Seq(Sound),
         \/ /\ lost' = lost
            /\ Count(toServer, Ours) + Count(toClient, Ours)
                 <= Count(toServer, Ours)' + Count(toClient, Ours)'
         \/ /\ lost' = IF lost <= MAX_RETRANSMISSIONS THEN lost + 1 ELSE lost
            /\ Count(toServer, Ours) + Count(toClient, Ours)
                 <= Count(toServer, Ours)' + Count(toClient, Ours)' + 1
  PROVE  Accounted'
<1> DEFINE n == Count(toServer, Ours) + Count(toClient, Ours)
           m == Count(toServer, Ours)' + Count(toClient, Ours)'
<1>1. n \in Nat /\ m \in Nat
  <2>1. Count(toServer, Ours) \in Nat /\ Count(toClient, Ours) \in Nat
    BY CountType DEF TypeInv
  <2>2. Count(toServer, Ours)' \in Nat /\ Count(toClient, Ours)' \in Nat
    BY CountType
  <2> QED
    BY <2>1, <2>2
<1>2. lost \in 0..(MAX_RETRANSMISSIONS + 1) /\ attempt \in Nat /\ MAX_RETRANSMISSIONS \in Nat
  <2>1. lost \in 0..(MAX_RETRANSMISSIONS + 1) /\ attempt \in 0..Attempts
    BY DEF TypeInv, TypeOK
  <2> QED
    BY <2>1, AttemptsType, RetransmissionAssumption
<1>3. lost = MAX_RETRANSMISSIONS + 1 \/ attempt <= lost + n
  <2>1. lost + n = lost + Count(toServer, Ours) + Count(toClient, Ours)
    BY <1>2, CountType DEF TypeInv
  <2> QED
    BY <2>1 DEF Accounted
<1>4. \/ lost' = lost /\ n <= m
      \/ lost' = (IF lost <= MAX_RETRANSMISSIONS THEN lost + 1 ELSE lost) /\ n <= m + 1
  OBVIOUS
<1>5. lost' \in Nat /\ lost' + m = lost' + Count(toServer, Ours)' + Count(toClient, Ours)'
  <2>1. lost' \in Nat
    BY <1>2, <1>4
  <2>2. Count(toServer, Ours)' \in Nat /\ Count(toClient, Ours)' \in Nat
    BY CountType
  <2> QED
    BY <2>1, <2>2
<1> HIDE DEF n, m
<1>6. lost' = MAX_RETRANSMISSIONS + 1 \/ attempt <= lost' + m
  <2>1. CASE lost' = lost /\ n <= m
    BY <1>1, <1>2, <1>3, <2>1
  <2>2. CASE ~(lost <= MAX_RETRANSMISSIONS) /\ lost' = lost
    BY <1>2, <2>2
  <2>3. CASE lost <= MAX_RETRANSMISSIONS /\ lost' = lost + 1 /\ n <= m + 1
    <3>1. attempt <= lost + n
      BY <1>2, <1>3, <2>3
    <3> QED
      BY <1>1, <1>2, <2>3, <3>1
  <2> QED
    BY <1>4, <2>1, <2>2, <2>3
<1>7. attempt' <= lost' + Count(toServer, Ours)' + Count(toClient, Ours)'
        <=> attempt <= lost' + m
  BY <1>5
<1> QED
  BY <1>6, <1>7 DEF Accounted

(* What the account depends on stays as it is in a run.                        *)
LEMMA SameRun ==
  ASSUME UNCHANGED <<program, id>>
  PROVE  Attempts' = Attempts /\ HasId' = HasId /\ Ours' = Ours
  BY DEF Attempts, HasId, Ours, Own

(* A server that is gone does not come back.                                   *)
LEMMA Over ==
  ASSUME [Next]_vars, serverOver
  PROVE  serverOver'
<1>1. CASE Serve
  BY <1>1 DEF Serve, AdderServer, StructServer, TextServer, EchoServer, OldEchoServer,
              XdrServer, FileServer, Answer, EmptyRead, Unserved
<1>2. CASE ~Serve
  BY <1>2, Steps DEF Timeout, Receive, Start, QuitFile, Lose, Duplicate, Noise, PortClosed,
                     vars, netVars
<1> QED
  BY <1>1, <1>2

(* Foreign datagrams are nobody's.                                             *)
LEMMA NotOurs == \A m \in Strange : m \notin Ours
  BY DEF Ours, Own

(* Every step keeps the account.                                               *)
LEMMA ExpiryInvStep ==
  ASSUME TypeInv, TypeInv', IdInv, ExpiryInv, [Next]_vars
  PROVE  ExpiryInv'
<1>n. UNCHANGED <<program, network>>
  BY Chosen
<1> DEFINE Running == cpc \in {"wait", "read"} /\ program # "xdr"
<1> SUFFICES ASSUME "delay" \notin network, ~serverOver'
             PROVE  /\ outcome' = "expired" => lost' >= Attempts'
                    /\ Running' => Accounted'
  BY <1>n DEF ExpiryInv
<1>l. /\ outcome = "expired" => lost >= Attempts
      /\ Running => Accounted
  <2>1. ~serverOver
    BY Over
  <2> QED
    BY <2>1 DEF ExpiryInv
<1>q. /\ toServer \in Seq(Sound) /\ toClient \in Seq(Sound)
      /\ toServer' \in Seq(Sound) /\ toClient' \in Seq(Sound)
  BY DEF TypeInv
<1>c. \A T : Count(toServer, T) \in Nat /\ Count(toClient, T) \in Nat
  BY <1>q, CountType
<1>t. /\ lost \in 0..(MAX_RETRANSMISSIONS + 1) /\ attempt \in Nat /\ MAX_RETRANSMISSIONS \in Nat
      /\ Attempts \in 1..(MAX_RETRANSMISSIONS + 1)
  <2>1. lost \in 0..(MAX_RETRANSMISSIONS + 1) /\ attempt \in 0..Attempts
    BY DEF TypeInv, TypeOK
  <2> QED
    BY <2>1, AttemptsType, RetransmissionAssumption
<1>r. Running => program # "file"
  BY DEF TypeInv
<1> HIDE DEF Running
<1>1. CASE Serve
  <2>1. PICK i \in DOMAIN toServer, ds \in Seq(Sound) :
          /\ ServeStep(i, ds)
          /\ program # "file" => LET m == toServer[i] IN
               \/ m \in Strange /\ ds = <<>>
               \/ m \notin Strange /\ ds = <<Datagram("reply", IF HasId THEN m.id ELSE 0, m.op)>>
    BY <1>1, Served DEF ServeStep
  <2> DEFINE m == toServer[i]
             k == IF HasId THEN m.id ELSE 0
             r == Datagram("reply", k, m.op)
  <2>2. /\ toServer' = RemoveAt(toServer, i) /\ toClient' = toClient \o ds
        /\ UNCHANGED <<program, id, cpc, attempt, lost, outcome>>
    BY <2>1 DEF ServeStep, clientVars
  <2>3. Attempts' = Attempts /\ HasId' = HasId /\ Ours' = Ours /\ Running' = Running
    BY <2>2, SameRun DEF Running
  <2>4. ASSUME Running
        PROVE  Accounted'
    <3>1. m \in Sound
      BY <1>q
    <3>2. \/ m \in Strange /\ ds = <<>>
          \/ m \notin Strange /\ ds = <<r>>
      BY <1>r, <2>1, <2>4
    <3>3. /\ Count(toServer, Ours) <= Count(RemoveAt(toServer, i), Ours) + 1
          /\ m \notin Ours => Count(toServer, Ours) <= Count(RemoveAt(toServer, i), Ours)
      BY <1>q, CountRemoved
    <3>4. Count(RemoveAt(toServer, i), Ours) \in Nat
      BY <1>q, <2>2, CountType
    <3>5. CASE m \in Strange /\ ds = <<>>
      <4>1. m \notin Ours
        BY <3>5, NotOurs
      <4>2. toClient' = toClient
        BY <1>q, <2>2, <3>5
      <4> HIDE DEF m
      <4> QED
        BY <1>c, <1>l, <1>q, <2>2, <2>3, <2>4, <3>3, <3>4, <4>1, <4>2, StillAccounted
    <3>6. CASE m \notin Strange /\ ds = <<r>>
      <4>1. m.op \in Ops /\ m.id \in Ids \cup {0} /\ k \in Ids \cup {0}
        BY <3>1, <3>6, Strangers
      <4>2. r \in Sound \ Strange /\ r.type = "reply" /\ r.id = k
        <5>1. "reply" \in Plain
          BY DEF Plain, Types
        <5> DEFINE o == m.op
        <5>2. o \in Ops
          BY <4>1
        <5> HIDE DEF k, o
        <5>3. /\ Datagram("reply", k, o) \in Sound \ Strange /\ Datagram("reply", k, o).type = "reply"
              /\ Datagram("reply", k, o).id = k
          BY <4>1, <5>1, <5>2, Outgoing
        <5> QED
          BY <5>3 DEF o
      <4>3. m \in Ours => r \in Ours
        <5> HIDE DEF r, m
        <5> QED
          BY <4>2 DEF Ours, Own, Sound, k
      <4> HIDE DEF r, m
      <4>4. toClient' = Append(toClient, r)
        BY <1>q, <2>2, <3>6, <4>2
      <4>5. /\ Count(Append(toClient, r), Ours) >= Count(toClient, Ours)
            /\ r \in Ours => Count(Append(toClient, r), Ours) = Count(toClient, Ours) + 1
        BY <1>q, <4>2, CountJoined
      <4>6. Count(Append(toClient, r), Ours) \in Nat
        BY <1>q, <4>4, CountType
      <4>7. Count(toServer, Ours) + Count(toClient, Ours)
              <= Count(RemoveAt(toServer, i), Ours) + Count(Append(toClient, r), Ours)
        <5>1. CASE m \in Ours
          BY <1>c, <3>3, <3>4, <4>3, <4>5, <4>6, <5>1
        <5>2. CASE m \notin Ours
          BY <1>c, <3>3, <3>4, <4>5, <4>6, <5>2
        <5> QED
          BY <5>1, <5>2
      <4> QED
        BY <1>l, <1>q, <2>2, <2>3, <2>4, <4>4, <4>7, StillAccounted
    <3> QED
      BY <3>2, <3>5, <3>6
  <2> QED
    BY <1>l, <2>2, <2>3, <2>4
<1>2. CASE Timeout
  <2> DEFINE d == Datagram("request", id, op)
  <2>1. /\ cpc = "wait" /\ program \in {"once", "again", "struct2", "old", "echo", "oldecho"}
        /\ toClient = <<>> /\ \A i \in DOMAIN toServer : toServer[i] \in Strange
        /\ UNCHANGED <<program, toClient, lost, id>>
        /\ \/ attempt >= Attempts /\ cpc' = "idle"
           \/ /\ attempt < Attempts /\ attempt' = attempt + 1 /\ UNCHANGED outcome
              /\ toServer' = Append(toServer, d)
    BY <1>2, TimedOut
  <2>2. Running /\ Attempts' = Attempts /\ HasId' = HasId /\ Ours' = Ours
    BY <2>1, SameRun DEF Running
  <2>3. Count(toServer, Ours) = 0 /\ Count(toClient, Ours) = 0
    BY <2>1, NotOurs, CountNobody, CountNone
  <2>4. lost = MAX_RETRANSMISSIONS + 1 \/ attempt <= lost
    BY <1>l, <1>t, <2>2, <2>3 DEF Accounted
  <2>5. CASE attempt >= Attempts /\ cpc' = "idle"
    <3>1. lost >= Attempts
      BY <1>t, <2>4, <2>5
    <3>2. ~Running'
      BY <2>5 DEF Running
    <3> QED
      BY <2>1, <2>2, <3>1, <3>2
  <2>6. CASE attempt' = attempt + 1 /\ UNCHANGED outcome /\ toServer' = Append(toServer, d)
    <3>1. id \in Ids /\ op \in Ops
      BY <2>1 DEF TypeInv, Idle
    <3>2. d \in Sound \ Strange /\ d.id = id
      BY <3>1, Outgoing DEF Types, Plain
    <3> HIDE DEF d
    <3>3. d \in Ours
      BY <3>2 DEF Ours, Own, Sound
    <3>4. Count(Append(toServer, d), Ours) = 1
      BY <1>q, <2>3, <3>2, <3>3, CountJoined
    <3>5. Count(toServer, Ours)' = 1 /\ Count(toClient, Ours)' = 0
      BY <2>1, <2>2, <2>3, <2>6, <3>4
    <3>6. lost' = MAX_RETRANSMISSIONS + 1 \/ attempt' <= lost' + 1 + 0
      BY <1>t, <2>1, <2>4, <2>6
    <3> QED
      BY <1>l, <2>1, <2>2, <2>6, <3>5, <3>6 DEF Accounted
  <2> QED
    BY <2>1, <2>5, <2>6
<1>3. CASE Receive
  <2>1. PICK i \in DOMAIN toClient :
          LET m == toClient[i] IN
            /\ Taken(i) /\ m \in Sound
            /\ outcome' \in {outcome, "success", "wrong"}
            /\ cpc' \in {"wait", "read"} =>
                 /\ cpc \in {"wait", "read"} /\ program \in {"again", "struct2"} /\ ~Mine(m)
    BY <1>3, Received
  <2> DEFINE m == toClient[i]
  <2>2. /\ toClient' = RemoveAt(toClient, i)
        /\ UNCHANGED <<program, toServer, id, attempt, lost>>
    BY <2>1 DEF Taken
  <2>3. Attempts' = Attempts /\ HasId' = HasId /\ Ours' = Ours
    BY <2>2, SameRun
  <2>4. ASSUME Running'
        PROVE  Accounted'
    <3>1. /\ cpc \in {"wait", "read"} /\ program \in {"again", "struct2"} /\ ~Mine(m)
      BY <2>1, <2>4 DEF Running
    <3>2. m \in Strange \/ m.type = "reply"
      <4>1. m \in Elements(toClient)
        BY DEF Elements
      <4> QED
        BY <3>1, <4>1 DEF IdInv
    <3>3. m \notin Ours
      BY <3>1, <3>2, NotOurs DEF Mine, Ours, Own, HasId
    <3>4. Count(toClient, Ours) <= Count(RemoveAt(toClient, i), Ours)
      BY <1>q, <3>3, CountRemoved
    <3>5. Count(RemoveAt(toClient, i), Ours) \in Nat
      BY <1>q, <2>2, CountType
    <3>6. Running
      BY <3>1 DEF Running
    <3> HIDE DEF m
    <3> QED
      BY <1>c, <1>l, <1>q, <2>2, <2>3, <3>4, <3>5, <3>6, StillAccounted
  <2> QED
    BY <1>l, <2>1, <2>2, <2>3, <2>4
<1>4. ASSUME NEW i \in Ids, NEW o \in Ops, Start(i, o)
      PROVE  /\ outcome' = "expired" => lost' >= Attempts'
             /\ Running' => Accounted'
  <2> DEFINE k == IF HasId THEN i ELSE 0
             d == Datagram("request", k, o)
  <2>1. /\ toServer' = Append(toServer, d) /\ id' = i /\ attempt' = 1 /\ outcome' = "none"
        /\ lost' = 0 /\ program' = program
    BY <1>4 DEF Start, SendRequest
  <2>2. k \in Ids \cup {0} /\ "request" \in Plain
    BY DEF Plain, Types
  <2>3. HasId' = HasId
    BY <2>1 DEF HasId
  <2> HIDE DEF k
  <2>4. d \in Sound \ Strange /\ d.id = k
    BY <2>2, Outgoing
  <2> HIDE DEF d
  <2>5. d \in Ours'
    BY <2>1, <2>3, <2>4 DEF Ours, Own, Sound, Datagrams, k
  <2>6. Count(Append(toServer, d), Ours') = Count(toServer, Ours') + 1
    BY <1>q, <2>4, <2>5, CountJoined
  <2>7. Count(toServer, Ours') \in Nat /\ Count(toClient, Ours)' \in Nat
    BY <1>c, <1>q, CountType
  <2>8. Count(toServer, Ours)' = Count(Append(toServer, d), Ours')
    BY <2>1
  <2>9. attempt' <= lost' + Count(toServer, Ours)' + Count(toClient, Ours)'
    BY <2>1, <2>6, <2>7, <2>8
  <2> QED
    BY <2>1, <2>9 DEF Accounted
<1>5. CASE QuitFile
  <2>1. cpc' = "over" /\ UNCHANGED <<program, id, outcome, lost>>
    BY <1>5 DEF QuitFile
  <2> QED
    BY <1>l, <2>1, SameRun DEF Running
<1>6. ASSUME UNCHANGED <<program, id, cpc, attempt, outcome>>,
             Running => Accounted', lost' >= lost
      PROVE  /\ outcome' = "expired" => lost' >= Attempts'
             /\ Running' => Accounted'
  <2>1. Attempts' = Attempts /\ Running' = Running
    BY <1>6, SameRun DEF Running
  <2>2. lost' \in Int
    BY DEF TypeInv, TypeOK
  <2> QED
    BY <1>6, <1>l, <1>t, <2>1, <2>2
<1>7. CASE Lose
  <2>1. UNCHANGED <<program, id, cpc, attempt, outcome>>
    BY <1>7 DEF Lose, clientVars
  <2>2. Ours' = Ours
    BY <2>1, SameRun
  <2>3. Count(toServer, Ours)' \in Nat /\ Count(toClient, Ours)' \in Nat
    BY <1>q, CountType
  <2>4. ASSUME NEW m \in Sound, lost' = Loss(m),
               Count(toServer, Ours) + Count(toClient, Ours)
                 <= Count(toServer, Ours)' + Count(toClient, Ours)' + 1,
               m \notin Ours => Count(toServer, Ours) + Count(toClient, Ours)
                                 <= Count(toServer, Ours)' + Count(toClient, Ours)'
        PROVE  lost' >= lost /\ (Running => Accounted')
    <3>1. lost' >= lost
      BY <1>t, <2>4 DEF Loss
    <3>2. CASE m \in Ours
      <4>1. lost' = IF lost <= MAX_RETRANSMISSIONS THEN lost + 1 ELSE lost
        BY <2>4, <3>2 DEF Loss, Ours
      <4> QED
        BY <1>l, <1>q, <2>1, <2>4, <3>1, <4>1, StillAccounted
    <3>3. CASE m \notin Ours
      <4>1. lost' = lost
        BY <2>4, <3>3 DEF Loss, Ours, Sound
      <4> QED
        BY <1>l, <1>q, <2>1, <2>4, <3>1, <3>3, <4>1, StillAccounted
    <3> QED
      BY <3>2, <3>3
  <2>5. ASSUME NEW i \in DOMAIN toServer, toServer' = RemoveAt(toServer, i),
               lost' = Loss(toServer[i]), UNCHANGED toClient
        PROVE  lost' >= lost /\ (Running => Accounted')
    <3>1. toServer[i] \in Sound
      BY <1>q
    <3>2. /\ Count(toServer, Ours) <= Count(toServer, Ours)' + 1
          /\ toServer[i] \notin Ours => Count(toServer, Ours) <= Count(toServer, Ours)'
      BY <1>q, <2>2, <2>5, CountRemoved
    <3>3. Count(toClient, Ours)' = Count(toClient, Ours)
      BY <2>2, <2>5
    <3> QED
      BY <1>c, <2>3, <2>4, <2>5, <3>1, <3>2, <3>3
  <2>6. ASSUME NEW i \in DOMAIN toClient, toClient' = RemoveAt(toClient, i),
               lost' = Loss(toClient[i]), UNCHANGED toServer
        PROVE  lost' >= lost /\ (Running => Accounted')
    <3>1. toClient[i] \in Sound
      BY <1>q
    <3>2. /\ Count(toClient, Ours) <= Count(toClient, Ours)' + 1
          /\ toClient[i] \notin Ours => Count(toClient, Ours) <= Count(toClient, Ours)'
      BY <1>q, <2>2, <2>6, CountRemoved
    <3>3. Count(toServer, Ours)' = Count(toServer, Ours)
      BY <2>2, <2>6
    <3> QED
      BY <1>c, <2>3, <2>4, <2>6, <3>1, <3>2, <3>3
  <2>7. lost' >= lost /\ (Running => Accounted')
    BY <1>7, <2>5, <2>6 DEF Lose
  <2> QED
    BY <1>6, <2>1, <2>7
<1>8. CASE Duplicate \/ Noise
  <2>1. UNCHANGED <<program, id, cpc, attempt, outcome, lost>>
    BY <1>8 DEF Duplicate, Noise, clientVars
  <2>2. Ours' = Ours /\ lost' >= lost
    BY <1>t, <2>1, SameRun
  <2>3. /\ Count(toServer, Ours) <= Count(toServer, Ours)'
        /\ Count(toClient, Ours) <= Count(toClient, Ours)'
    <3>2. ASSUME NEW m \in Strange
          PROVE  /\ Count(toServer, Ours) <= Count(Append(toServer, m), Ours)
                 /\ Count(toClient, Ours) <= Count(Append(toClient, m), Ours)
      <4>1. m \in Sound
        BY Strangers
      <4>2. /\ Count(Append(toServer, m), Ours) >= Count(toServer, Ours)
            /\ Count(Append(toClient, m), Ours) >= Count(toClient, Ours)
        BY <1>q, <4>1, CountJoined
      <4> QED
        BY <4>2
    <3>3. /\ \A i \in DOMAIN toServer :
               Count(toServer, Ours) <= Count(InsertAt(toServer, i, toServer[i]), Ours)
          /\ \A i \in DOMAIN toClient :
               Count(toClient, Ours) <= Count(InsertAt(toClient, i, toClient[i]), Ours)
      BY <1>q, CountDoubled
    <3>4. CASE Duplicate
      BY <1>c, <2>2, <3>3, <3>4 DEF Duplicate
    <3>5. CASE Noise
      <4>1. PICK m \in Strange : \/ toServer' = Append(toServer, m) /\ toClient' = toClient
                                 \/ toClient' = Append(toClient, m) /\ toServer' = toServer
        BY <3>5 DEF Noise
      <4>2. \A T : Count(toServer, T) <= Count(toServer, T) /\ Count(toClient, T) <= Count(toClient, T)
        BY <1>c
      <4> QED
        BY <2>2, <3>2, <4>1, <4>2
    <3> QED
      BY <1>8, <3>4, <3>5
  <2>4. Count(toServer, Ours)' \in Nat /\ Count(toClient, Ours)' \in Nat
    BY <1>q, CountType
  <2>5. Count(toServer, Ours) + Count(toClient, Ours)
          <= Count(toServer, Ours)' + Count(toClient, Ours)'
    BY <1>c, <2>3, <2>4
  <2>6. Running => Accounted'
    BY <1>l, <1>q, <2>1, <2>5, StillAccounted
  <2> QED
    BY <1>6, <2>1, <2>2, <2>6
<1>9. CASE PortClosed
  <2>1. UNCHANGED <<program, id, cpc, attempt, outcome, lost>> /\ cpc \notin {"wait", "read"}
    BY <1>9 DEF PortClosed, clientVars
  <2>2. lost' >= lost
    BY <1>t, <2>1
  <2> QED
    BY <1>6, <2>1, <2>2 DEF Running
<1>10. CASE UNCHANGED vars
  <2>1. UNCHANGED <<program, id, cpc, attempt, outcome, lost, toServer, toClient>>
    BY <1>10 DEF vars, clientVars, netVars
  <2>2. lost' >= lost /\ Ours' = Ours
    BY <1>t, <2>1, SameRun
  <2>3. Running => Accounted'
    BY <1>l, <2>1, <2>2 DEF Accounted
  <2> QED
    BY <1>6, <2>1, <2>2, <2>3
<1> QED
  BY <1>1, <1>2, <1>3, <1>4, <1>5, <1>7, <1>8, <1>9, <1>10, Steps
-------------------------------------------------------------------------------
(* The theorems.                                                               *)

(* All invariants hold in every state.                                         *)
LEMMA Invariants == Spec => [](TypeInv /\ IdInv /\ LossInv /\ ExpiryInv)
<1>1. Init => TypeInv /\ IdInv /\ LossInv /\ ExpiryInv
  BY TypeInvInit, IdInvInit, LossInvInit, ExpiryInvInit
<1>2. /\ TypeInv /\ IdInv /\ LossInv /\ ExpiryInv /\ [Next]_vars
      => (TypeInv /\ IdInv /\ LossInv /\ ExpiryInv)'
  BY TypeInvStep, IdInvStep, LossInvStep, ExpiryInvStep
<1> QED
  BY <1>1, <1>2, PTL DEF Spec

(* The attempts of a run never exceed what its program may send, and every     *)
(* datagram that is not foreign carries what the user has typed.               *)
THEOREM ExchangeTypeCorrect == Spec => []TypeOK
<1>1. TypeInv => TypeOK
  BY DEF TypeInv
<1> QED
  BY <1>1, Invariants, PTL

(* A run that reports success reports the answer to its own request: with a    *)
(* fresh transaction id whatever is lost, repeated, delayed or sent by others, *)
(* and without any id when datagrams are only lost, also over the three        *)
(* datagrams of a file.                                                        *)
THEOREM ResultMine == Spec => []ResultIsMine
<1>1. IdInv /\ LossInv => ResultIsMine
  BY DEF IdInv, LossInv, ResultIsMine
<1> QED
  BY <1>1, Invariants, PTL

(* Without delays a run gives up only after as many of its own datagrams were  *)
(* lost as it may send requests, also when some of them are repeated and       *)
(* whatever others send; or because an empty datagram has ended the server,    *)
(* which happens to the three older ones only.                                 *)
THEOREM ExpiryByLoss == Spec => []ExpiresOnlyByLoss
<1>1. TypeInv /\ ExpiryInv => ExpiresOnlyByLoss
  BY DEF TypeInv, ExpiryInv, ExpiresOnlyByLoss
<1> QED
  BY <1>1, Invariants, PTL
==============================================================================
