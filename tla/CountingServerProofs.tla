------------------------ MODULE CountingServerProofs -------------------------
(* Proofs about CountingServer for every number of processes, clients, permits *)
(* and workers.                                                                *)
EXTENDS CountingServer, QueueLemmas

-------------------------------------------------------------------------------
(* The invariants.                                                             *)

\* Where the children of each program can be.
Places ==
  CASE program = "iter"    -> {"none"}
    [] program = "thread"  -> {"none", "serve", "announced"}
    [] program = "prefork" -> {"none", "idle", "serve", "doomed", "zombie"}
    [] OTHER               -> {"none", "serve", "announced", "zombie"}

PlaceInv ==
  /\ \A p \in Pids : at[p] \in Places
  /\ program = "thread" /\ ~Alive => In("none") = Pids

\* Everybody in the queue is there once, and nobody has accepted them.
QueueInv ==
  /\ Distinct(backlog)
  /\ Elements(backlog) \cap Open = {}

\* The father holds a client from accept to close, or to the end of the session.
\* The father of the forking servers serves nobody himself.
HoldInv ==
  /\ sockfd_copy # NoClient => pc \in {"fork", "load", "store", "close", "serve"}
  /\ Forks => pc # "serve"

\* A permit is in the semaphore, or with the main thread between sem_wait and the
\* creation of the thread, or with a thread that has not posted.
PermitInv ==
  IF program # "thread" THEN sem = Permits
  ELSE Alive => sem + Cardinality(In("serve")) + (IF pc \in {"accept", "fork"} THEN 1 ELSE 0)
                  = Permits

\* The father of the preforked workers stops forking in time to be the last of them.
WorkersInv ==
  program = "prefork" =>
    /\ pc = "start" => Children = {}
    /\ pc = "prefork" => Cardinality(Children) < Workers - 1
    /\ Cardinality(Children) <= Workers - 1

ServerInv == TypeOK /\ PlaceInv /\ QueueInv /\ HoldInv /\ PermitInv /\ WorkersInv

\* The count covers the clients in service, and the one of a signal not yet delivered.
CountInv ==
  program \in {"usr1", "chld"} /\ Alive =>
    Counted >= Cardinality(In("serve")) + (IF pending THEN 1 ELSE 0)

-------------------------------------------------------------------------------
(* The steps, gathered by what they do.                                        *)

\* Only the father's place in his program changes.
Moves ==
  /\ UNCHANGED <<program, pending, numChildren, reg, sem, sockfd_copy, at, conn, backlog>>
  /\ handler' \in {handler, "none"}
  /\ \/ pc' = pc
     \/ Startup
     \/ program = "usr1" /\ pc \in {"test", "poll"} /\ pc' \in {"poll", "wait", "accept"}
     \/ program = "prefork" /\ pc = "install" /\ pc' = "accept"

\* A dead child is waited for.
Reaps ==
  /\ UNCHANGED <<program, handler, pending, numChildren, reg, sem, sockfd_copy, conn, backlog>>
  /\ \E p \in Pids : Reap(p)
  /\ pc' = pc \/ (program = "usr1" /\ pc = "wait" /\ pc' = "accept")

\* The father forks and counts.
FatherForks ==
  \/ program = "thread" /\ SemWait
  \/ Forks /\ \E p \in Pids : ForkChild(p)
  \/ program = "prefork" /\ \E p \in Pids : PreforkChild(p)
  \/ program \in {"usr1", "chld"} /\ (LoadCount \/ StoreCount \/ CloseCopy)

(* Every step is one of these.                                                 *)
LEMMA Steps ==
  ASSUME [Next]_vars
  PROVE  \/ Moves \/ Reaps \/ FatherExits \/ FatherAccept \/ FatherForks \/ FatherSessionEnds
         \/ DeliverSignal
         \/ (\E p \in Pids : SessionEnds(p) \/ ChildStep(p))
         \/ (\E c \in Clients : Connect(c)) \/ SendSigint
<1>1. CASE Startup
  BY <1>1 DEF Startup, Moves, InMain, Goto
<1>2. CASE program = "usr1" /\ TestCount
  BY <1>2 DEF TestCount, Moves, InMain, Goto
<1>3. CASE program = "usr1" /\ PadreWaitpid
  BY <1>3 DEF PadreWaitpid, Moves, Reaps, InMain, Goto, fatherVars
<1>4. CASE program = "usr1" /\ WaitChild
  BY <1>4 DEF WaitChild, Reaps, InMain, Goto
<1>5. CASE program = "prefork" /\ InstallSigint
  BY <1>5 DEF InstallSigint, Moves, InMain, Goto
<1>6. CASE HandlerReap
  BY <1>6 DEF HandlerReap, Moves, Reaps
<1>7. CASE StartupFails \/ ForkFails \/ OutOfPids \/ SigintKills \/ WaitAll
  BY <1>7 DEF StartupFails, ForkFails, OutOfPids, SigintKills, WaitAll
<1>8. CASE UNCHANGED vars
  BY <1>8 DEF vars, Moves
<1>9. CASE FatherStep
  <2>1. CASE IterativeServer
    BY <2>1, <1>1, <1>7 DEF IterativeServer
  <2>2. CASE Usr1Father
    BY <2>2, <1>1, <1>2, <1>3, <1>4, <1>7 DEF Usr1Father, FatherForks, Forks
  <2>3. CASE ThreadFather
    BY <2>3, <1>1, <1>7 DEF ThreadFather, FatherForks, Forks
  <2>4. CASE PreforkFather
    BY <2>4, <1>1, <1>5, <1>7 DEF PreforkFather, FatherForks
  <2>5. CASE Figlio
    BY <2>5 DEF Figlio
  <2>6. CASE ServerOCPC2
    BY <2>6, <1>1, <1>7 DEF ServerOCPC2, FatherForks, Forks
  <2> QED
    BY <1>9, <2>1, <2>2, <2>3, <2>4, <2>5, <2>6 DEF FatherStep
<1> QED
  BY <1>6, <1>7, <1>8, <1>9 DEF Next, SignalStep

(* Which server runs never changes.                                            *)
LEMMA ProgramFrozen == [Next]_vars => program' = program
<1> SUFFICES ASSUME [Next]_vars PROVE program' = program
  OBVIOUS
<1>1. FatherForks => program' = program
  BY DEF FatherForks, SemWait, ForkChild, PreforkChild, LoadCount, StoreCount, CloseCopy
<1>2. ASSUME NEW p \in Pids, SessionEnds(p) \/ ChildStep(p) PROVE program' = program
  BY <1>2 DEF SessionEnds, AnnounceEnd, PostEnd, ChildReturns, ServedNext,
     ChildStep, ChildAccept, CloseAndExit, ChildDies
<1> QED
  BY Steps, <1>1, <1>2 DEF Moves, Reaps, FatherExits, FatherAccept, FatherSessionEnds,
     DeliverSignal, Connect, SendSigint

-------------------------------------------------------------------------------
(* Counting the children in a place.                                           *)
LEMMA InFinite ==
  ASSUME NEW l
  PROVE  /\ IsFiniteSet(In(l)) /\ Cardinality(In(l)) \in Nat
         /\ IsFiniteSet(Children) /\ Cardinality(Children) \in Nat
<1>1. In(l) \subseteq Pids /\ Children \subseteq Pids
  BY DEF In, Children
<1> QED
  BY <1>1, PidsAssumption, FS_Subset, FS_CardinalityType

(* A child that begins to serve, and one that ends.                            *)
LEMMA ServeGains ==
  ASSUME TypeOK, NEW p \in Pids, at[p] # "serve", at' = [at EXCEPT ![p] = "serve"]
  PROVE  /\ Cardinality(In("serve")') = Cardinality(In("serve")) + 1
         /\ Cardinality(In("serve")) \in Nat
<1>1. In("serve")' = In("serve") \cup {p} /\ p \notin In("serve")
  BY DEF TypeOK, In
<1> QED
  BY <1>1, InFinite, FS_AddElement

LEMMA ServeLoses ==
  ASSUME TypeOK, NEW p \in Pids, at[p] = "serve", NEW l, l # "serve", at' = [at EXCEPT ![p] = l]
  PROVE  /\ Cardinality(In("serve")') = Cardinality(In("serve")) - 1
         /\ Cardinality(In("serve")) \in Nat \ {0}
<1>1. In("serve")' = In("serve") \ {p} /\ p \in In("serve")
  BY DEF TypeOK, In
<1>2. Cardinality(In("serve")') = Cardinality(In("serve")) - 1
  BY <1>1, InFinite, FS_RemoveElement
<1>3. Cardinality(In("serve")) # 0
  BY <1>1, InFinite, FS_EmptySet
<1> QED
  BY <1>2, <1>3, InFinite

(* Nobody but those who serve is counted.                                      *)
LEMMA ServeKept ==
  ASSUME \A q \in Pids : at'[q] = "serve" <=> at[q] = "serve"
  PROVE  In("serve")' = In("serve")
BY DEF In

(* Children are not more than processes.                                       *)
LEMMA ChildrenLess ==
  ASSUME \A q \in Pids : at[q] = "none" => at'[q] = "none"
  PROVE  /\ Children' \subseteq Children
         /\ Cardinality(Children') \in Nat /\ Cardinality(Children) \in Nat
         /\ Cardinality(Children') <= Cardinality(Children)
<1>1. Children' \subseteq Children
  BY DEF Children, In
<1> QED
  BY <1>1, InFinite, FS_Subset, FS_CardinalityType

-------------------------------------------------------------------------------
(* The first invariant.                                                        *)
LEMMA TypeInit == Init => TypeOK /\ PlaceInv /\ QueueInv /\ HoldInv
<1> SUFFICES ASSUME Init PROVE TypeOK /\ PlaceInv /\ QueueInv /\ HoldInv
  OBVIOUS
<1>1. <<>> \in Seq(Clients) /\ Elements(backlog) = {} /\ Distinct(backlog) /\ Len(<<>>) = 0
  BY Deserted DEF Init
<1>2. Cardinality(Clients) \in Nat
  BY ClientsAssumption, FS_CardinalityType
<1>3. TypeOK
  <2>1. backlog \in Seq(Clients) /\ Len(backlog) <= Cardinality(Clients)
    BY <1>1, <1>2 DEF Init
  <2>2. Permits \in 0..Permits
    BY MaxAssumption
  <2>3. at \in [Pids -> {"none", "idle", "serve", "announced", "doomed", "zombie"}]
        /\ conn \in [Pids -> Clients \cup {NoClient}] /\ \A p \in Pids : conn[p] = NoClient
    BY DEF Init
  <2>4. /\ program \in Programs /\ pc = "start" /\ handler = "none" /\ pending = FALSE
        /\ numChildren = 0 /\ reg = 0 /\ sem = Permits /\ sockfd_copy = NoClient
    BY Zenon DEF Init
  <2>5. sem \in 0..Permits
    BY <2>2, <2>4
  <2>6. pending \in BOOLEAN
    BY <2>4
  <2>7. numChildren \in Int /\ reg \in Int
    BY <2>4
  <2> QED
    BY <2>1, <2>3, <2>4, <2>5, <2>6, <2>7, Zenon DEF TypeOK
<1>4. PlaceInv
  BY DEF Init, PlaceInv, Places, Alive
<1>5. QueueInv /\ HoldInv
  BY <1>1 DEF Init, QueueInv, HoldInv
<1> QED
  BY <1>3, <1>4, <1>5

LEMMA PermitInit == Init => PermitInv /\ WorkersInv
<1> SUFFICES ASSUME Init PROVE PermitInv /\ WorkersInv
  OBVIOUS
<1>1. In("serve") = {} /\ Children = {} /\ Cardinality({}) = 0
  BY FS_EmptySet DEF Init, In, Children
<1>2. Workers \in Nat \ {0} /\ Permits \in Nat \ {0}
  BY MaxAssumption
<1>3. PermitInv
  BY SMTT(30), <1>1, <1>2 DEF Init, PermitInv
<1>4. WorkersInv
  BY <1>1, <1>2 DEF Init, WorkersInv
<1> QED
  BY <1>3, <1>4

(* Where the children and the father are, and whom they serve.                 *)
LEMMA PlaceStep ==
  ASSUME TypeOK, PlaceInv, [Next]_vars
  PROVE  /\ PlaceInv'
         /\ at' \in [Pids -> {"none", "idle", "serve", "announced", "doomed", "zombie"}]
         /\ conn' \in [Pids -> Clients \cup {NoClient}]
         /\ \A p \in Pids : conn'[p] # NoClient => at'[p] \in {"serve", "announced", "doomed"}
         /\ sockfd_copy' \in Clients \cup {NoClient}
<1> USE DEF TypeOK, PlaceInv, Places, Alive, In, fatherVars
<1>1. CASE Moves
  BY <1>1 DEF Moves, Startup, InMain, Goto
<1>2. CASE Reaps
  BY <1>2 DEF Reaps, Reap
<1>3. CASE FatherExits
  BY <1>3 DEF FatherExits
<1>4. CASE FatherAccept
  BY <1>4, Departed DEF FatherAccept, InMain, Goto
<1>5. CASE FatherForks
  BY <1>5 DEF FatherForks, Forks, SemWait, ForkChild, PreforkChild, LoadCount, StoreCount, CloseCopy,
     Fresh, InMain, Goto
<1>6. CASE FatherSessionEnds
  BY <1>6 DEF FatherSessionEnds, InMain, Goto
<1>7. CASE DeliverSignal
  BY <1>7 DEF DeliverSignal, SigUsr, SigchldHandler2, SigInt, Children
<1>8. CASE \E p \in Pids : SessionEnds(p)
  BY <1>8 DEF SessionEnds, AnnounceEnd, PostEnd, ChildReturns, ServedNext, Died
<1>9. CASE \E p \in Pids : ChildStep(p)
  BY <1>9, Departed DEF ChildStep, ChildAccept, CloseAndExit, ChildDies, Died
<1>10. CASE (\E c \in Clients : Connect(c)) \/ SendSigint
  BY <1>10 DEF Connect, SendSigint
<1> QED
  BY Steps, <1>1, <1>2, <1>3, <1>4, <1>5, <1>6, <1>7, <1>8, <1>9, <1>10

LEMMA HoldStep ==
  ASSUME TypeOK, HoldInv, [Next]_vars
  PROVE  /\ HoldInv'
         /\ pc' \in {"start", "prefork", "install", "test", "poll", "wait", "accept", "fork",
                     "load", "store", "close", "serve", "exited"}
         /\ handler' \in {"none", "reap", "waitall"} /\ pending' \in BOOLEAN
         /\ numChildren' \in Int /\ reg' \in Int
<1> USE DEF TypeOK, HoldInv, Forks, Goto, InMain, fatherVars, Alive
<1>1. CASE Moves
  BY <1>1 DEF Moves, Startup
<1>2. CASE Reaps
  BY <1>2 DEF Reaps
<1>3. CASE FatherExits
  BY <1>3 DEF FatherExits
<1>4. CASE FatherAccept
  BY <1>4 DEF FatherAccept
<1>5. CASE FatherForks
  BY <1>5 DEF FatherForks, SemWait, ForkChild, PreforkChild, LoadCount, StoreCount, CloseCopy
<1>6. CASE FatherSessionEnds
  BY <1>6 DEF FatherSessionEnds
<1>7. CASE DeliverSignal
  <2>1. CASE SigUsr
    <3>1. numChildren' \in Int /\ handler' \in {"none", "reap"}
      BY <2>1 DEF SigUsr
    <3> QED
      BY <1>7, <2>1, <3>1 DEF DeliverSignal, SigUsr
  <2>2. CASE SigchldHandler2
    <3>1. numChildren' \in Int
      BY <2>2 DEF SigchldHandler2
    <3> QED
      BY <1>7, <2>2, <3>1 DEF DeliverSignal, SigchldHandler2
  <2>3. CASE SigInt
    BY <1>7, <2>3 DEF DeliverSignal, SigInt
  <2> QED
    BY <1>7, <2>1, <2>2, <2>3 DEF DeliverSignal
<1>8. CASE \E p \in Pids : SessionEnds(p)
  BY <1>8 DEF SessionEnds, AnnounceEnd, PostEnd, ChildReturns, ServedNext
<1>9. CASE \E p \in Pids : ChildStep(p)
  BY <1>9 DEF ChildStep, ChildAccept, CloseAndExit, ChildDies
<1>10. CASE (\E c \in Clients : Connect(c)) \/ SendSigint
  BY <1>10 DEF Connect, SendSigint
<1> QED
  BY Steps, <1>1, <1>2, <1>3, <1>4, <1>5, <1>6, <1>7, <1>8, <1>9, <1>10

(* Who is in the queue: what the steps do with it and with the open            *)
(* connections.                                                                *)
LEMMA QueueSteps ==
  ASSUME TypeOK, PlaceInv, [Next]_vars
  PROVE  \/ backlog' = backlog /\ Open' \subseteq Open
         \/ backlog # <<>> /\ backlog' = Tail(backlog) /\ Open' \subseteq Open \cup {Head(backlog)}
         \/ \E c \in Clients : /\ backlog' = Append(backlog, c) /\ Open' = Open
                             /\ c \notin Open \cup Elements(backlog)
<1> USE DEF TypeOK, Open, Goto, InMain, fatherVars
<1>1. CASE Moves
  BY <1>1 DEF Moves
<1>2. CASE Reaps
  BY <1>2 DEF Reaps
<1>3. CASE FatherExits
  BY <1>3 DEF FatherExits
<1>4. CASE FatherAccept
  BY <1>4 DEF FatherAccept
<1>5. CASE FatherForks
  BY <1>5 DEF FatherForks, SemWait, ForkChild, PreforkChild, LoadCount, StoreCount, CloseCopy
<1>6. CASE FatherSessionEnds
  BY <1>6 DEF FatherSessionEnds
<1>7. CASE DeliverSignal
  BY <1>7 DEF DeliverSignal, SigUsr, SigchldHandler2, SigInt
<1>8. CASE \E p \in Pids : SessionEnds(p)
  BY <1>8 DEF SessionEnds, AnnounceEnd, PostEnd, ChildReturns, ServedNext
<1>9. CASE \E p \in Pids : ChildStep(p)
  BY <1>9 DEF ChildStep, ChildAccept, CloseAndExit, ChildDies
<1>10. CASE (\E c \in Clients : Connect(c)) \/ SendSigint
  BY <1>10 DEF Connect, SendSigint, Elements
<1> QED
  BY Steps, <1>1, <1>2, <1>3, <1>4, <1>5, <1>6, <1>7, <1>8, <1>9, <1>10

(* Each client is in the queue once or accepted, so the queue is never longer  *)
(* than there are clients.                                                     *)
LEMMA QueueStep ==
  ASSUME TypeOK, PlaceInv, QueueInv, [Next]_vars
  PROVE  QueueInv' /\ backlog' \in Seq(Clients) /\ Len(backlog') <= Cardinality(Clients)
<1>1. backlog \in Seq(Clients)
  BY DEF TypeOK
<1>2. QueueInv' /\ backlog' \in Seq(Clients)
  <2>1. CASE backlog' = backlog /\ Open' \subseteq Open
    BY <1>1, <2>1 DEF QueueInv
  <2>2. CASE backlog # <<>> /\ backlog' = Tail(backlog) /\ Open' \subseteq Open \cup {Head(backlog)}
    <3>1. /\ backlog' \in Seq(Clients) /\ Elements(backlog') \subseteq Elements(backlog)
          /\ Distinct(backlog') /\ Head(backlog) \notin Elements(backlog')
      BY <1>1, <2>2, Departed DEF QueueInv
    <3> QED
      BY <2>2, <3>1 DEF QueueInv
  <2>3. ASSUME NEW c \in Clients, backlog' = Append(backlog, c), Open' = Open,
               c \notin Open \cup Elements(backlog)
        PROVE  QueueInv' /\ backlog' \in Seq(Clients)
    <3>1. /\ backlog' \in Seq(Clients) /\ Distinct(backlog')
          /\ Elements(backlog') = Elements(backlog) \cup {c}
      BY <1>1, <2>3, Joined DEF QueueInv
    <3> QED
      BY <2>3, <3>1 DEF QueueInv
  <2> QED
    BY <2>1, <2>2, <2>3, QueueSteps
<1>3. Elements(backlog') \subseteq Clients
  BY <1>2 DEF Elements
<1>4. Cardinality(Elements(backlog')) = Len(backlog')
  BY <1>2, DistinctCount DEF QueueInv
<1> QED
  BY <1>2, <1>3, <1>4, ClientsAssumption, FS_Subset

(* The permits of the semaphore.                                               *)
LEMMA PermitStep ==
  ASSUME TypeOK, PlaceInv, HoldInv, PermitInv, [Next]_vars
  PROVE  PermitInv' /\ sem' \in 0..Permits
<1> USE DEF TypeOK, Goto, InMain, fatherVars, Alive
<1>p. Permits \in Nat /\ program' = program /\ Cardinality(In("serve")) \in Nat
  BY MaxAssumption, ProgramFrozen, InFinite
<1>1. CASE Moves
  <2>1. In("serve")' = In("serve")
    BY <1>1 DEF Moves, In
  <2> QED
    BY <1>1, <1>p, <2>1 DEF Moves, Startup, PermitInv
<1>2. CASE Reaps
  <2>1. In("serve")' = In("serve")
    BY <1>2 DEF Reaps, Reap, In
  <2> QED
    BY <1>2, <1>p, <2>1 DEF Reaps, PermitInv
<1>3. CASE FatherExits
  BY <1>3, <1>p DEF FatherExits, PermitInv
<1>4. CASE FatherAccept
  <2>1. In("serve")' = In("serve")
    BY <1>4 DEF FatherAccept, In
  <2> QED
    BY <1>4, <1>p, <2>1 DEF FatherAccept, PermitInv, Forks
<1>5. CASE FatherForks
  <2>1. CASE program = "thread" /\ SemWait
    <3>1. In("serve")' = In("serve")
      BY <2>1 DEF SemWait, In
    <3> QED
      BY <2>1, <1>p, <3>1 DEF SemWait, PermitInv
  <2>2. CASE Forks /\ \E p \in Pids : ForkChild(p)
    <3>1. Cardinality(In("serve")') = Cardinality(In("serve")) + 1
      BY <2>2, ServeGains DEF ForkChild, Fresh
    <3>2. pc = "fork" /\ sem' = sem /\ (program = "thread" => pc' = "test")
      BY <2>2 DEF ForkChild
    <3>3. CASE program = "thread"
      BY <1>p, <3>1, <3>2, <3>3 DEF PermitInv
    <3> QED
      BY <1>p, <3>2, <3>3 DEF PermitInv
  <2>3. CASE program = "prefork" /\ \E p \in Pids : PreforkChild(p)
    BY <2>3, <1>p DEF PreforkChild, PermitInv
  <2>4. CASE program \in {"usr1", "chld"} /\ (LoadCount \/ StoreCount \/ CloseCopy)
    BY <2>4, <1>p DEF LoadCount, StoreCount, CloseCopy, PermitInv
  <2> QED
    BY <1>5, <2>1, <2>2, <2>3, <2>4 DEF FatherForks
<1>6. CASE FatherSessionEnds
  BY <1>6, <1>p DEF FatherSessionEnds, HoldInv, Forks, PermitInv
<1>7. CASE DeliverSignal
  BY <1>7, <1>p DEF DeliverSignal, SigUsr, SigchldHandler2, SigInt, PermitInv
<1>8. ASSUME NEW p \in Pids, SessionEnds(p) PROVE PermitInv' /\ sem' \in 0..Permits
  <2>1. CASE PostEnd(p)
    <3>1. /\ Cardinality(In("serve")') = Cardinality(In("serve")) - 1
          /\ Cardinality(In("serve")) \in Nat \ {0}
      BY <2>1, ServeLoses DEF PostEnd
    <3>2. pc # "exited"
      BY <2>1 DEF PostEnd, PlaceInv, In
    <3> QED
      BY <2>1, <1>p, <3>1, <3>2 DEF PostEnd, PermitInv
  <2>2. CASE AnnounceEnd(p) \/ ChildReturns(p) \/ ServedNext(p)
    BY <2>2, <1>p DEF AnnounceEnd, ChildReturns, ServedNext, PermitInv
  <2> QED
    BY <1>8, <2>1, <2>2 DEF SessionEnds
<1>9. ASSUME NEW p \in Pids, ChildStep(p) PROVE PermitInv' /\ sem' \in 0..Permits
  <2>1. CASE CloseAndExit(p)
    <3>1. In("serve")' = In("serve")
      BY <2>1 DEF CloseAndExit, In, Died
    <3> QED
      BY <2>1, <1>p, <3>1 DEF CloseAndExit, PermitInv
  <2>2. CASE ChildAccept(p) \/ ChildDies(p)
    BY <2>2, <1>p DEF ChildAccept, ChildDies, PermitInv, PlaceInv, Places
  <2> QED
    BY <1>9, <2>1, <2>2 DEF ChildStep
<1>10. CASE (\E c \in Clients : Connect(c)) \/ SendSigint
  <2>1. In("serve")' = In("serve")
    BY <1>10 DEF Connect, SendSigint, In
  <2> QED
    BY <1>10, <1>p, <2>1 DEF Connect, SendSigint, PermitInv
<1> QED
  BY Steps, <1>1, <1>2, <1>3, <1>4, <1>5, <1>6, <1>7, <1>8, <1>9, <1>10

(* The preforked children.  Only the fork loop adds one.                       *)
LEMMA WorkersStep ==
  ASSUME TypeOK, PlaceInv, WorkersInv, [Next]_vars
  PROVE  WorkersInv'
<1> USE DEF TypeOK, Goto, InMain, fatherVars
<1>p. Workers \in Nat /\ program' = program /\ Cardinality(Children) \in Nat
  BY MaxAssumption, ProgramFrozen, InFinite
<1> SUFFICES ASSUME program = "prefork" PROVE WorkersInv'
  BY <1>p DEF WorkersInv
<1>1. CASE Startup
  <2>1. Children' = Children /\ pc = "start"
        /\ pc' = IF Workers = 1 THEN "install" ELSE "prefork"
    BY <1>1 DEF Startup, Children, In
  <2>2. Cardinality(Children) = 0 /\ Workers # 0
    BY <2>1, FS_EmptySet, MaxAssumption DEF WorkersInv
  <2> QED
    BY <1>p, <2>1, <2>2 DEF WorkersInv
<1>2. ASSUME NEW p \in Pids, PreforkChild(p) PROVE WorkersInv'
  <2>1. Children' = Children \cup {p} /\ p \notin Children
    BY <1>2 DEF PreforkChild, Fresh, Children, In
  <2>2. Cardinality(Children') = Cardinality(Children) + 1
    BY <2>1, InFinite, FS_AddElement
  <2>3. pc = "prefork" /\ Cardinality(Children) < Workers - 1
    BY <1>2 DEF PreforkChild, WorkersInv
  <2>4. pc' = IF Cardinality(Children) + 1 = Workers - 1 THEN "install" ELSE "prefork"
    BY <1>2 DEF PreforkChild
  <2> QED
    BY <1>p, <2>2, <2>3, <2>4 DEF WorkersInv
<1>3. ASSUME \A q \in Pids : at[q] = "none" => at'[q] = "none",
             pc' = pc \/ pc' \notin {"start", "prefork"}
      PROVE  WorkersInv'
  <2>1. /\ Cardinality(Children') \in Nat /\ Cardinality(Children') <= Cardinality(Children)
        /\ Children' \subseteq Children
    BY <1>3, ChildrenLess
  <2> QED
    BY <1>p, <1>3, <2>1 DEF WorkersInv
<1>4. CASE Moves /\ ~Startup
  BY <1>3, <1>4 DEF Moves
<1>5. CASE Reaps
  BY <1>3, <1>5 DEF Reaps, Reap
<1>6. CASE FatherExits
  BY <1>3, <1>6 DEF FatherExits
<1>7. CASE FatherAccept \/ FatherSessionEnds
  BY <1>3, <1>7 DEF FatherAccept, FatherSessionEnds
<1>8. CASE FatherForks
  BY <1>2, <1>8 DEF FatherForks, Forks
<1>9. CASE DeliverSignal
  BY <1>3, <1>9 DEF DeliverSignal, SigUsr, SigchldHandler2, SigInt, Children, In
<1>10. CASE \E p \in Pids : SessionEnds(p)
  BY <1>3, <1>10 DEF SessionEnds, AnnounceEnd, PostEnd, ChildReturns, ServedNext
<1>11. CASE \E p \in Pids : ChildStep(p)
  BY <1>3, <1>11 DEF ChildStep, ChildAccept, CloseAndExit, ChildDies
<1>12. CASE (\E c \in Clients : Connect(c)) \/ SendSigint
  BY <1>3, <1>12 DEF Connect, SendSigint
<1> QED
  BY Steps, <1>1, <1>2, <1>4, <1>5, <1>6, <1>7, <1>8, <1>9, <1>10, <1>11, <1>12

LEMMA ServerInvariant == Spec => []ServerInv
<1>1. Init => ServerInv
  BY TypeInit, PermitInit DEF ServerInv
<1>2. ServerInv /\ [Next]_vars => ServerInv'
  <2> SUFFICES ASSUME ServerInv, [Next]_vars PROVE ServerInv'
    OBVIOUS
  <2>1. PlaceInv' /\ QueueInv' /\ HoldInv' /\ PermitInv' /\ WorkersInv'
    BY PlaceStep, QueueStep, HoldStep, PermitStep, WorkersStep DEF ServerInv
  <2>2. TypeOK'
    <3>1. program' \in Programs
      BY ProgramFrozen DEF ServerInv, TypeOK
    <3> QED
      BY <3>1, PlaceStep, QueueStep, HoldStep, PermitStep, Zenon DEF ServerInv, TypeOK
  <2> QED
    BY <2>1, <2>2 DEF ServerInv
<1> QED
  BY <1>1, <1>2, PTL DEF Spec

(* Types: the semaphore never holds more than its permits, a connection        *)
(* belongs to a child in the middle of its session, and the queue is never     *)
(* longer than there are clients.                                              *)
THEOREM CountingTypeCorrect == Spec => []TypeOK
BY ServerInvariant, PTL DEF ServerInv

-------------------------------------------------------------------------------
(* The count of 3.1 and of server2.c.  A signal takes one off, and its client  *)
(* was taken off the others when it was sent; two that merge take off too      *)
(* little.                                                                     *)
LEMMA CountStep ==
  ASSUME ServerInv, CountInv, [Next]_vars
  PROVE  CountInv'
<1> USE DEF Goto, InMain, fatherVars, Alive
<1>p. /\ program' = program /\ numChildren \in Int /\ reg \in Int /\ pending \in BOOLEAN
      /\ Cardinality(In("serve")) \in Nat
  BY ProgramFrozen, InFinite DEF ServerInv, TypeOK
<1>t. TypeOK /\ PlaceInv
  BY DEF ServerInv
<1> DEFINE n == Cardinality(In("serve"))
           k == IF pending THEN 1 ELSE 0
<1> SUFFICES ASSUME program \in {"usr1", "chld"}, pc' # "exited"
             PROVE  Counted' >= n' + k'
  BY <1>p DEF CountInv
<1>c. pc # "exited" => Counted >= n + k
  BY DEF CountInv
<1> HIDE DEF n
<1>n. n \in Nat /\ (In("serve")' = In("serve") => n' = n)
  BY <1>p DEF n
<1>a. ASSUME UNCHANGED <<numChildren, reg, pending>>, In("serve")' = In("serve"), pc # "exited",
             pc' = pc \/ {pc, pc'} \cap {"load", "store"} = {}
      PROVE  Counted' >= n' + k'
  BY <1>a, <1>c, <1>n DEF Counted
<1>1. CASE Moves
  BY <1>a, <1>1 DEF Moves, Startup, In
<1>2. CASE Reaps
  BY <1>a, <1>2 DEF Reaps, Reap, In
<1>3. CASE FatherExits
  BY <1>3 DEF FatherExits
<1>4. CASE FatherAccept \/ FatherSessionEnds
  BY <1>a, <1>4 DEF FatherAccept, FatherSessionEnds, In
<1>5. ASSUME NEW p \in Pids, ForkChild(p) PROVE Counted' >= n' + k'
  <2>1. n' = n + 1
    BY <1>5, <1>t, ServeGains DEF ForkChild, Fresh, n
  <2>2. pc = "fork" /\ pc' = "load" /\ UNCHANGED <<numChildren, pending>>
    BY <1>5 DEF ForkChild
  <2> QED
    BY <1>c, <1>n, <1>p, <2>1, <2>2 DEF Counted
<1>6. CASE LoadCount
  <2>1. /\ pc = "load" /\ pc' = "store" /\ reg' = numChildren /\ UNCHANGED <<numChildren, pending>>
        /\ n' = n
    BY <1>6, <1>n DEF LoadCount, In
  <2> QED
    BY <1>c, <1>n, <1>p, <2>1 DEF Counted
<1>7. CASE StoreCount
  <2>1. /\ pc = "store" /\ pc' = "close" /\ numChildren' = reg + 1 /\ UNCHANGED pending /\ n' = n
    BY <1>7, <1>n DEF StoreCount, In
  <2>2. Counted <= reg + 1
    BY <1>p, <2>1 DEF Counted
  <2>3. Counted' = reg + 1
    BY <2>1 DEF Counted
  <2>4. Counted \in Int
    BY <1>p DEF Counted
  <2> QED
    BY <1>c, <1>n, <1>p, <2>1, <2>2, <2>3, <2>4
<1>8. CASE CloseCopy
  BY <1>a, <1>8 DEF CloseCopy, In
<1>9. CASE DeliverSignal
  <2>1. /\ pc # "exited" /\ pending /\ ~pending' /\ pc' = pc /\ reg' = reg
        /\ numChildren' = numChildren - 1 /\ n' = n
    BY <1>9, <1>n DEF DeliverSignal, SigUsr, SigchldHandler2, SigInt, In
  <2>2. Counted >= n + 1
    BY <1>c, <2>1
  <2> QED
    BY <1>n, <1>p, <2>1, <2>2 DEF Counted
<1>10. ASSUME NEW p \in Pids, AnnounceEnd(p) \/ ChildReturns(p) PROVE Counted' >= n' + k'
  <2>1. n' = n - 1
    BY <1>10, <1>t, ServeLoses DEF AnnounceEnd, ChildReturns, Died, n
  <2>2. UNCHANGED <<pc, numChildren, reg>> /\ pending' = TRUE
    BY <1>10 DEF AnnounceEnd, ChildReturns
  <2>3. Counted' = Counted /\ Counted \in Int
    BY <1>p, <2>2 DEF Counted
  <2> QED
    BY <1>c, <1>n, <2>1, <2>2, <2>3
<1>11. ASSUME NEW p \in Pids, ChildStep(p) PROVE Counted' >= n' + k'
  <2>1. ~ChildAccept(p)
    BY <1>t DEF ChildAccept, PlaceInv, Places
  <2>2. UNCHANGED <<numChildren, reg, pending, pc>>
    BY <1>11, <2>1 DEF ChildStep, CloseAndExit, ChildDies
  <2>3. \A q \in Pids : at'[q] = "serve" <=> at[q] = "serve"
    BY <1>t, <1>11, <2>1 DEF ChildStep, CloseAndExit, ChildDies, Died, TypeOK
  <2> QED
    BY <1>a, <2>2, <2>3, ServeKept
<1>12. CASE (\E c \in Clients : Connect(c)) \/ SendSigint
  BY <1>a, <1>12 DEF Connect, SendSigint, In
<1> QED
  BY Steps, <1>1, <1>2, <1>3, <1>4, <1>5, <1>6, <1>7, <1>8, <1>9, <1>10, <1>11, <1>12
     DEF FatherForks, SessionEnds, PostEnd, ServedNext, PreforkChild

LEMMA CountInvariant == Spec => []CountInv
<1>1. Init => CountInv
  <2> SUFFICES ASSUME Init PROVE CountInv
    OBVIOUS
  <2>1. In("serve") = {} /\ Cardinality({}) = 0
    BY FS_EmptySet DEF Init, In
  <2> QED
    BY <2>1 DEF Init, CountInv, Counted
<1>2. ServerInv /\ CountInv /\ [Next]_vars => CountInv'
  BY CountStep
<1> QED
  BY <1>1, <1>2, ServerInvariant, PTL DEF Spec

(* However signals merge, get lost in the count of 0 or interrupt numChildren++, *)
(* the count of 3.1 and of server2.c is never below the clients in service.    *)
THEOREM CountCovers == Spec => []CountNeverLow
<1>1. ServerInv /\ CountInv => CountNeverLow
  <2> SUFFICES ASSUME ServerInv, CountInv, program \in {"usr1", "chld"}, Alive
               PROVE  Counted >= Cardinality(In("serve"))
    BY DEF CountNeverLow
  <2>1. Cardinality(In("serve")) \in Nat /\ numChildren \in Int /\ reg \in Int
    BY InFinite DEF ServerInv, TypeOK
  <2>2. Counted \in Int
    BY <2>1 DEF Counted
  <2> QED
    BY <2>1, <2>2 DEF CountInv
<1> QED
  BY <1>1, ServerInvariant, CountInvariant, PTL

-------------------------------------------------------------------------------
(* The refinement.  Who is served before and after each step.                  *)
LEMMA ServingSteps ==
  ASSUME ServerInv, [Next]_vars
  PROVE  \/ backlog' = backlog /\ Serving' \subseteq Serving
         \/ /\ backlog # <<>> /\ backlog' = Tail(backlog) /\ Serving' = Serving \cup {Head(backlog)}
            /\ FatherAccept \/ \E p \in Pids : ChildAccept(p)
         \/ Serving' = Serving /\ \E c \in Clients : Connect(c)
<1> USE DEF ServerInv, TypeOK, Serving, In, Goto, InMain, fatherVars
<1>1. CASE Moves
  BY <1>1 DEF Moves
<1>2. CASE Reaps
  BY <1>2 DEF Reaps, Reap
<1>3. CASE FatherExits
  BY <1>3 DEF FatherExits
<1>4. CASE FatherAccept
  <2>1. sockfd_copy = NoClient /\ Head(backlog) \in Clients
    BY <1>4, Departed DEF FatherAccept, HoldInv
  <2> QED
    BY <1>4, <2>1, NoClientAssumption DEF FatherAccept
<1>5. CASE FatherForks
  BY <1>5 DEF FatherForks, SemWait, ForkChild, PreforkChild, LoadCount, StoreCount, CloseCopy, Fresh
<1>6. CASE FatherSessionEnds
  BY <1>6 DEF FatherSessionEnds
<1>7. CASE DeliverSignal
  BY <1>7 DEF DeliverSignal, SigUsr, SigchldHandler2, SigInt, PlaceInv, Places, Children
<1>8. CASE \E p \in Pids : SessionEnds(p)
  BY <1>8 DEF SessionEnds, AnnounceEnd, PostEnd, ChildReturns, ServedNext, Died
<1>9. ASSUME NEW p \in Pids, ChildAccept(p) PROVE Serving' = Serving \cup {Head(backlog)}
  <2>1. conn[p] = NoClient /\ Head(backlog) \in Clients
    BY <1>9, Departed DEF ChildAccept
  <2> QED
    BY <1>9, <2>1, NoClientAssumption DEF ChildAccept
<1>10. ASSUME NEW p \in Pids, CloseAndExit(p) \/ ChildDies(p)
       PROVE  backlog' = backlog /\ Serving' \subseteq Serving
  BY <1>10 DEF CloseAndExit, ChildDies, Died
<1>11. CASE (\E c \in Clients : Connect(c)) \/ SendSigint
  BY <1>11 DEF Connect, SendSigint
<1>12. ASSUME NEW p \in Pids, ChildAccept(p) PROVE backlog # <<>> /\ backlog' = Tail(backlog)
  BY <1>12 DEF ChildAccept
<1> HIDE DEF Serving
<1> QED
  BY Steps, <1>1, <1>2, <1>3, <1>4, <1>5, <1>6, <1>7, <1>8, <1>9, <1>10, <1>11, <1>12 DEF ChildStep

(* The clients served are not more than the children that may serve one, and   *)
(* the father.                                                                 *)
LEMMA ServingCount ==
  ASSUME NEW S, NEW U, IsFiniteSet(S), IsFiniteSet(U), Serving \subseteq {conn[p] : p \in S} \cup U
  PROVE  /\ Cardinality(Serving) \in Nat /\ Cardinality(S) \in Nat /\ Cardinality(U) \in Nat
         /\ Cardinality(Serving) <= Cardinality(S) + Cardinality(U)
<1> DEFINE A == {conn[p] : p \in S}
<1>1. IsFiniteSet(A) /\ Cardinality(A) <= Cardinality(S)
  BY ImageCount
<1>2. /\ IsFiniteSet(A \cup U) /\ Cardinality(A \cup U) <= Cardinality(A) + Cardinality(U)
      /\ Cardinality(A \cup U) \in Nat /\ Cardinality(A) \in Nat /\ Cardinality(U) \in Nat
  BY <1>1, UnionCount
<1>3. IsFiniteSet(Serving) /\ Cardinality(Serving) <= Cardinality(A \cup U)
  BY <1>2, FS_Subset
<1>4. Cardinality(Serving) \in Nat /\ Cardinality(S) \in Nat
  BY <1>3, FS_CardinalityType
<1> HIDE DEF A
<1> QED
  BY <1>1, <1>2, <1>3, <1>4

(* Where the father accepts there is room for one client more: he serves the   *)
(* only one, has a permit for the thread to come, or is the last worker ...    *)
LEMMA FatherHasRoom ==
  ASSUME ServerInv, FatherAccept
  PROVE  Cardinality(Serving) < ServingCapacity
<1>1. sockfd_copy = NoClient /\ pc = "accept"
  BY DEF FatherAccept, InMain, ServerInv, HoldInv
<1>2. IsFiniteSet({}) /\ Cardinality({}) = 0
  BY FS_EmptySet
<1>3. ASSUME NEW S, IsFiniteSet(S), \A p \in Pids : at[p] \in {"serve", "doomed"} => p \in S
      PROVE  Cardinality(Serving) <= Cardinality(S)
  <2>1. Serving \subseteq {conn[p] : p \in S} \cup {}
    BY <1>1, <1>3 DEF Serving, In
  <2> QED
    BY <1>2, <1>3, <2>1, ServingCount
<1>4. Cardinality(Serving) \in Nat
  <2>1. Serving \subseteq {conn[p] : p \in Pids} \cup {}
    BY <1>1 DEF Serving, In
  <2> QED
    BY <1>2, <2>1, PidsAssumption, ServingCount
<1>5. CASE program = "iter"
  <2>1. Serving = {}
    BY <1>1, <1>5 DEF Serving, In, ServerInv, PlaceInv, Places
  <2> QED
    BY <1>2, <1>5, <2>1 DEF ServingCapacity
<1>6. CASE program = "thread"
  <2>1. Cardinality(Serving) <= Cardinality(In("serve"))
    BY <1>3, <1>6, InFinite DEF In, ServerInv, PlaceInv, Places
  <2>2. sem \in Nat /\ sem + Cardinality(In("serve")) + 1 = Permits
    BY <1>1, <1>6 DEF ServerInv, TypeOK, PermitInv, Alive
  <2> QED
    BY <1>4, <1>6, <2>1, <2>2, InFinite, MaxAssumption DEF ServingCapacity
<1>7. CASE program = "prefork"
  <2>1. Cardinality(Serving) <= Cardinality(Children)
    BY <1>3, InFinite DEF In, Children
  <2>2. Cardinality(Children) <= Workers - 1
    BY <1>7 DEF ServerInv, WorkersInv
  <2> QED
    BY <1>7, <2>1, <2>2, <1>4, InFinite, MaxAssumption DEF ServingCapacity
<1>8. CASE program \notin {"iter", "thread", "prefork"}
  <2>1. Cardinality(Serving) <= Cardinality(Pids) /\ Cardinality(Pids) \in Nat
    BY <1>3, PidsAssumption, FS_CardinalityType
  <2> QED
    BY <1>8, <2>1, <1>4 DEF ServingCapacity
<1> QED
  BY <1>5, <1>6, <1>7, <1>8

(* ... and where a preforked child does, the father and his client included.   *)
LEMMA WorkerHasRoom ==
  ASSUME ServerInv, NEW p \in Pids, ChildAccept(p)
  PROVE  Cardinality(Serving) < ServingCapacity
<1> DEFINE C == Children \ {p}
<1>1. program = "prefork" /\ at[p] = "idle"
  BY ProgramsAssumption DEF ChildAccept, ServerInv, TypeOK, PlaceInv, Places
<1>2. Serving \subseteq {conn[q] : q \in C} \cup {sockfd_copy}
  BY <1>1 DEF Serving, In, Children
<1>3. p \in Children
  BY <1>1 DEF Children, In
<1>4. IsFiniteSet(C) /\ Cardinality(C) = Cardinality(Children) - 1
  BY <1>3, InFinite, FS_RemoveElement
<1>5. IsFiniteSet({sockfd_copy}) /\ Cardinality({sockfd_copy}) = 1
  BY FS_Singleton
<1>6. Cardinality(Children) <= Workers - 1 /\ Cardinality(Children) \in Nat
  BY <1>1, InFinite DEF ServerInv, WorkersInv
<1> HIDE DEF C
<1>7. Cardinality(Serving) \in Nat /\ Cardinality(Serving) <= Cardinality(C) + 1
  BY <1>2, <1>4, <1>5, ServingCount
<1> QED
  BY <1>1, <1>4, <1>6, <1>7, MaxAssumption DEF ServingCapacity

(* Each step is one of BoundedAdmission or leaves what that sees alone.        *)
LEMMA StepAdmits ==
  ASSUME ServerInv, [Next]_vars
  PROVE  [Admission!Next]_(Admission!vars)
<1>1. ServingCapacity' = ServingCapacity
  BY ProgramFrozen DEF ServingCapacity
<1>2. CASE backlog' = backlog /\ Serving' \subseteq Serving
  <2>1. CASE Serving' = Serving
    BY <1>1, <1>2, <2>1 DEF Admission!vars
  <2>2. CASE Serving' # Serving
    <3>1. Serving \ Serving' # {} /\ Serving' = Serving \ (Serving \ Serving')
      BY <1>2, <2>2
    <3>2. Admission!Leave
      BY <1>1, <1>2, <3>1 DEF Admission!Leave
    <3> QED
      BY <3>2 DEF Admission!Next
  <2> QED
    BY <2>1, <2>2
<1>3. ASSUME backlog # <<>>, backlog' = Tail(backlog), Serving' = Serving \cup {Head(backlog)},
             FatherAccept \/ \E p \in Pids : ChildAccept(p)
      PROVE  Admission!Next
  <2>1. Cardinality(Serving) < ServingCapacity
    BY <1>3, FatherHasRoom, WorkerHasRoom
  <2>2. Admission!Cardinality(Serving) = Cardinality(Serving)
    BY DEF Admission!Cardinality, Cardinality, Admission!IsFiniteSet, IsFiniteSet
  <2>3. Admission!Admit
    BY <1>1, <1>3, <2>1, <2>2 DEF Admission!Admit
  <2> QED
    BY <2>3 DEF Admission!Next
<1>4. ASSUME Serving' = Serving, NEW c \in Clients, Connect(c) PROVE Admission!Next
  <2>1. c \notin Serving
    BY <1>4 DEF Connect, Open, Serving, In
  <2>2. Admission!Arrive(c)
    BY <1>1, <1>4, <2>1 DEF Connect, Admission!Arrive, Admission!Queued
  <2> QED
    BY <2>2 DEF Admission!Next
<1> QED
  BY ServingSteps, <1>2, <1>3, <1>4

(* The stand-alone servers implement the same bounded admission as the         *)
(* library's: clients are accepted in arrival order, and no more are served at *)
(* the same time than one, the permits of the semaphore or the workers, for    *)
(* every number of them.                                                       *)
THEOREM CountingImplementsAdmission == Spec => AdmitsInOrder
<1>1. Init => Admission!Init
  <2> SUFFICES ASSUME Init PROVE Admission!Init
    OBVIOUS
  <2>1. sockfd_copy = NoClient /\ conn = [p \in Pids |-> NoClient] /\ backlog = <<>>
    BY DEF Init
  <2>2. Serving = {}
    BY <2>1 DEF Serving, In
  <2>3. Cardinality(Pids) \in Nat /\ Permits \in Nat /\ Workers \in Nat
    BY PidsAssumption, FS_CardinalityType, MaxAssumption
  <2>4. ServingCapacity \in Nat
    BY <2>3 DEF ServingCapacity
  <2> QED
    BY <2>1, <2>2, <2>4 DEF Admission!Init
<1>2. ServerInv /\ [Next]_vars => [Admission!Next]_(Admission!vars)
  BY StepAdmits
<1> QED
  BY <1>1, <1>2, ServerInvariant, PTL DEF Spec, AdmitsInOrder, Admission!Spec
==============================================================================
