------------------------------ MODULE ForkServer ------------------------------
(* The servers of src/mytcpserver.c that use fork(): myTcpServerSimple, OCPC,  *)
(* OCPCMax, Preforked, Mixed and MixedMax.  One father process, its pre-forked *)
(* children and its one-client-per-child (OCPC) children share the listening   *)
(* socket's queue; SIGCHLD and SIGINT interrupt the father between any two of  *)
(* its steps.                                                                  *)
EXTENDS Integers, Sequences, FiniteSets

CONSTANTS
  Entries,          \* the library functions the program may call
  ChildCount,       \* childCount of Preforked, minChildCount of Mixed(Max)
  MaxChildCount,    \* maxChildCount of OCPCMax and MixedMax
  Pids,             \* process ids fork() can return (a pid is reused once reaped)
  Clients, NoClient,
  AtomicIncrement,  \* is numChildren_ocpc++ (line 249) one instruction in this build?
  Faults            \* what may go wrong, by entry: "reset", "fork", "kill", "ctrlc"

ASSUME EntryAssumption  == Entries \subseteq {"Simple", "OCPC", "OCPCMax", "Preforked",
                                             "Mixed", "MixedMax"}
ASSUME CountAssumption  == ChildCount \in Nat \ {0} /\ MaxChildCount \in Nat
ASSUME PidAssumption    == IsFiniteSet(Pids)
ASSUME ClientAssumption == NoClient \notin Clients
ASSUME BuildAssumption  == AtomicIncrement \in BOOLEAN
ASSUME FaultAssumption  == Faults \in [Entries -> SUBSET {"reset", "fork", "kill", "ctrlc"}]

VARIABLES
  entry,             \* the function the program has called, one of Entries
  pc,                \* where the father's main flow is
  frames,            \* signal handlers running on top of it, innermost first
  blocked,           \* SIGCHLD is in the father's signal mask
  sigchld, sigint,   \* signals pending for the father (they do not queue)
  numChildren_ocpc,
  reg,               \* the value numChildren_ocpc++ has loaded
  childpids,         \* the pids of the pre-forked children
  sockfd_copy,       \* the connection the father has open
  role, at, conn,    \* of each pid: what it is, what it does, the client it serves
  backlog            \* the listening socket's queue of established connections

fatherVars  == <<pc, blocked, reg, sockfd_copy>>
signalVars  == <<frames, sigchld, sigint>>
processVars == <<role, at, conn>>
vars == <<entry, fatherVars, signalVars, numChildren_ocpc, childpids, processVars, backlog>>

Preforks     == entry \in {"Preforked", "Mixed", "MixedMax"}
FatherServes == entry \in {"Simple", "Preforked"}
Bounded      == entry \in {"OCPCMax", "MixedMax"}
PreforkCount == CASE entry = "Preforked"            -> ChildCount - 1
                  [] entry \in {"Mixed", "MixedMax"} -> ChildCount
                  [] OTHER                           -> 0

Locations == {"prefork", "sigchld", "block", "test", "wait", "unblock", "accept",
              "fork", "load", "store", "task", "close", "dead"}

Handlers == {"chld", "int"}      \* sigchldHandler and sigintHandler
NoReentry(s) == \A i, j \in DOMAIN s : s[i] = s[j] => i = j

TypeOK ==
  /\ entry \in Entries
  /\ pc \in Locations
  /\ frames \in Seq(Handlers) /\ NoReentry(frames)
  /\ blocked \in BOOLEAN /\ sigchld \in BOOLEAN /\ sigint \in BOOLEAN
  /\ numChildren_ocpc \in Int /\ reg \in Int
  /\ childpids \in Seq(Pids)
  /\ sockfd_copy \in Clients \cup {NoClient}
  /\ role \in [Pids -> {"none", "preforked", "ocpc"}]
  /\ at \in [Pids -> {"none", "accept", "start", "task", "zombie"}]
  /\ conn \in [Pids -> Clients \cup {NoClient}]
  /\ backlog \in Seq(Clients)

-------------------------------------------------------------------------------
(* Processes *)

Alive     == pc # "dead"
Free      == {p \in Pids : role[p] = "none"}
Children  == {p \in Pids : role[p] # "none"}      \* zombies included
Zombies   == {p \in Pids : at[p] = "zombie"}
Ocpc      == {p \in Pids : role[p] = "ocpc"}
Preforked == {childpids[i] : i \in DOMAIN childpids}
Running   == Children \ Zombies

\* Somebody has the listening socket open (an OCPC child closes it first).
Listening == Alive \/ \E p \in Running : role[p] = "preforked"

\* Every connection an open descriptor of some process refers to.
Held == ({conn[p] : p \in Pids} \cup {sockfd_copy}) \ {NoClient}

\* The father runs its main flow, not a handler, and is at location l.
InMain(l) == pc = l /\ frames = <<>>

\* Handler h runs, interrupted by the other one or not; h is the innermost.
InHandler(h) == \E i \in DOMAIN frames : frames[i] = h
Handling(h)  == frames # <<>> /\ Head(frames) = h

Shutdown == InHandler("int")

SigchldCaught == Alive /\ ~FatherServes /\ pc \notin {"prefork", "sigchld"}
SigintCaught  == Alive /\ Preforks /\ pc # "prefork"

\* The processes of S end; without a father to wait for them they just vanish.
Terminate(S) ==
  /\ at'   = [p \in Pids |-> IF p \notin S THEN at[p]
                             ELSE IF Alive THEN "zombie" ELSE "none"]
  /\ role' = [p \in Pids |-> IF p \in S /\ ~Alive THEN "none" ELSE role[p]]
  /\ conn' = [p \in Pids |-> IF p \in S THEN NoClient ELSE conn[p]]
  /\ sigchld' = (sigchld \/ (S # {} /\ SigchldCaught))

Reap(p) ==
  /\ p \in Zombies
  /\ role' = [role EXCEPT ![p] = "none"]
  /\ at'   = [at EXCEPT ![p] = "none"]

\* exit() or a fatal signal: the kernel closes the father's descriptors, and
\* its zombies go away with it.
FatherDies ==
  /\ pc' = "dead" /\ frames' = <<>> /\ blocked' = FALSE
  /\ sigchld' = FALSE /\ sigint' = FALSE /\ sockfd_copy' = NoClient
  /\ role' = [p \in Pids |-> IF p \in Zombies THEN "none" ELSE role[p]]
  /\ at'   = [p \in Pids |-> IF p \in Zombies THEN "none" ELSE at[p]]
  /\ UNCHANGED <<entry, numChildren_ocpc, reg, childpids, conn, backlog>>

-------------------------------------------------------------------------------
(* The father's main flow *)

\* tcpServerPreforked: one turn of the fork loop.
PreforkChild ==
  /\ InMain("prefork") /\ Len(childpids) < PreforkCount
  /\ \E p \in Free :
       /\ role' = [role EXCEPT ![p] = "preforked"]
       /\ at'   = [at EXCEPT ![p] = "accept"]
       /\ childpids' = Append(childpids, p)
  /\ UNCHANGED <<entry, fatherVars, signalVars, numChildren_ocpc, conn, backlog>>

\* The loop is over: signal(SIGINT, sigintHandler).
InstallSigint ==
  /\ InMain("prefork") /\ Len(childpids) = PreforkCount
  /\ pc' = IF FatherServes THEN "accept" ELSE "sigchld"
  /\ UNCHANGED <<entry, blocked, reg, sockfd_copy, signalVars, numChildren_ocpc,
                 childpids, processVars, backlog>>

LoopHead == IF Bounded THEN "block" ELSE "accept"

\* signal(SIGCHLD, sigchldHandler) of tcpServerOCPC and tcpServerOCPCMax.
InstallSigchld ==
  /\ InMain("sigchld") /\ pc' = LoopHead
  /\ UNCHANGED <<entry, blocked, reg, sockfd_copy, signalVars, numChildren_ocpc,
                 childpids, processVars, backlog>>

\* Deviation: sigprocmask forgotten.
BlockSigchldNot ==
  /\ InMain("block") /\ pc' = "test"
  /\ UNCHANGED <<entry, blocked, reg, sockfd_copy, signalVars, numChildren_ocpc, childpids,
                 processVars, backlog>>

BlockSigchld ==
  /\ InMain("block") /\ pc' = "test" /\ blocked' = TRUE
  /\ UNCHANGED <<entry, reg, sockfd_copy, signalVars, numChildren_ocpc, childpids,
                 processVars, backlog>>

\* Deviation: one child too many passes the test.
TestCountOffByOne ==
  /\ InMain("test")
  /\ pc' = IF numChildren_ocpc > MaxChildCount THEN "wait" ELSE "unblock"
  /\ UNCHANGED <<entry, blocked, reg, sockfd_copy, signalVars, numChildren_ocpc,
                 childpids, processVars, backlog>>

TestCount ==
  /\ InMain("test")
  /\ pc' = IF numChildren_ocpc = MaxChildCount THEN "wait" ELSE "unblock"
  /\ UNCHANGED <<entry, blocked, reg, sockfd_copy, signalVars, numChildren_ocpc,
                 childpids, processVars, backlog>>

\* Deviation: the child reaped by wait is not subtracted.
WaitChildUncounted ==
  /\ InMain("wait") /\ pc' = "unblock"
  /\ \E p \in Zombies : Reap(p)
  /\ UNCHANGED <<entry, blocked, reg, sockfd_copy, signalVars, numChildren_ocpc,
                 childpids, conn, backlog>>

\* wait(NULL) returns any dead child, pre-forked ones too.
WaitChild ==
  /\ InMain("wait") /\ pc' = "unblock"
  /\ \E p \in Zombies : Reap(p)
  /\ numChildren_ocpc' = numChildren_ocpc - 1
  /\ UNCHANGED <<entry, blocked, reg, sockfd_copy, signalVars, childpids, conn, backlog>>

\* wait(NULL) fails with ECHILD: mySystemError exits.
WaitFails ==
  /\ InMain("wait") /\ Children = {}
  /\ FatherDies

UnblockSigchld ==
  /\ InMain("unblock") /\ pc' = "accept" /\ blocked' = FALSE
  /\ UNCHANGED <<entry, reg, sockfd_copy, signalVars, numChildren_ocpc, childpids,
                 processVars, backlog>>

\* Deviation: the father of Preforked does not become the last child.
FatherAcceptNever ==
  /\ InMain("accept") /\ backlog # <<>> /\ ~FatherServes
  /\ sockfd_copy' = Head(backlog) /\ backlog' = Tail(backlog)
  /\ pc' = "fork"
  /\ UNCHANGED <<entry, blocked, reg, signalVars, numChildren_ocpc, childpids, processVars>>

FatherAccept ==
  /\ InMain("accept") /\ backlog # <<>>
  /\ sockfd_copy' = Head(backlog) /\ backlog' = Tail(backlog)
  /\ pc' = IF FatherServes THEN "task" ELSE "fork"
  /\ UNCHANGED <<entry, blocked, reg, signalVars, numChildren_ocpc, childpids, processVars>>

\* fork(): the child inherits the connection and the SIGINT disposition.
ForkChild ==
  /\ InMain("fork") /\ pc' = "load"
  /\ \E p \in Free :
       /\ role' = [role EXCEPT ![p] = "ocpc"]
       /\ at'   = [at EXCEPT ![p] = "start"]
       /\ conn' = [conn EXCEPT ![p] = sockfd_copy]
  /\ UNCHANGED <<entry, blocked, reg, sockfd_copy, signalVars, numChildren_ocpc,
                 childpids, backlog>>

\* fork() returns -1: mySystemError exits.
ForkFails ==
  /\ "fork" \in Faults[entry]
  /\ InMain("fork") \/ (InMain("prefork") /\ Len(childpids) < PreforkCount)
  /\ FatherDies

\* numChildren_ocpc++: load, add and store are separate instructions unless the
\* compiler merges them.
LoadCount ==
  /\ InMain("load")
  /\ IF AtomicIncrement
       THEN /\ numChildren_ocpc' = numChildren_ocpc + 1
            /\ pc' = "close" /\ UNCHANGED reg
       ELSE reg' = numChildren_ocpc /\ pc' = "store" /\ UNCHANGED numChildren_ocpc
  /\ UNCHANGED <<entry, blocked, sockfd_copy, signalVars, childpids, processVars, backlog>>

StoreCount ==
  /\ InMain("store") /\ pc' = "close"
  /\ numChildren_ocpc' = reg + 1
  /\ reg' = 0                                   \* not used any more
  /\ UNCHANGED <<entry, blocked, sockfd_copy, signalVars, childpids, processVars, backlog>>

FatherTaskReturns ==
  /\ InMain("task") /\ pc' = "close"
  /\ UNCHANGED <<entry, blocked, reg, sockfd_copy, signalVars, numChildren_ocpc,
                 childpids, processVars, backlog>>

\* Deviation: the father forgets Close(sockfd_copy).
CloseCopyNot ==
  /\ InMain("close") /\ pc' = LoopHead
  /\ UNCHANGED <<entry, blocked, reg, sockfd_copy, signalVars, numChildren_ocpc, childpids,
                 processVars, backlog>>

CloseCopy ==
  /\ InMain("close") /\ pc' = LoopHead
  /\ sockfd_copy' = NoClient
  /\ UNCHANGED <<entry, blocked, reg, signalVars, numChildren_ocpc, childpids,
                 processVars, backlog>>

FatherStep ==
  \/ PreforkChild \/ InstallSigint \/ InstallSigchld
  \/ BlockSigchld \/ TestCount \/ WaitChild \/ WaitFails \/ UnblockSigchld
  \/ FatherAccept \/ ForkChild \/ LoadCount \/ StoreCount \/ CloseCopy

-------------------------------------------------------------------------------
(* Signals delivered to the father *)

\* Deviation: the handler interrupts itself (SA_NODEFER).
DeliverSigchldNested ==
  /\ Alive /\ sigchld /\ ~blocked
  /\ frames' = <<"chld">> \o frames /\ sigchld' = FALSE
  /\ UNCHANGED <<entry, fatherVars, sigint, numChildren_ocpc, childpids, processVars, backlog>>

\* SIGCHLD is masked by sigprocmask and while its own handler runs.
DeliverSigchld ==
  /\ Alive /\ sigchld /\ ~blocked /\ ~InHandler("chld")
  /\ frames' = <<"chld">> \o frames /\ sigchld' = FALSE
  /\ UNCHANGED <<entry, fatherVars, sigint, numChildren_ocpc, childpids, processVars, backlog>>

\* Deviation: the handler reaps without counting.
HandlerReapUncounted ==
  /\ Handling("chld")
  /\ \E p \in Zombies : Reap(p)
  /\ UNCHANGED <<entry, fatherVars, signalVars, numChildren_ocpc, childpids, conn, backlog>>

\* waitForZombieChildren: waitpid(-1, NULL, WNOHANG) returned a child.
HandlerReap ==
  /\ Handling("chld")
  /\ \E p \in Zombies : Reap(p)
  /\ numChildren_ocpc' = numChildren_ocpc - 1
  /\ UNCHANGED <<entry, fatherVars, signalVars, childpids, conn, backlog>>

\* Deviation: one waitpid for each SIGCHLD instead of a loop.
HandlerReturnEarly ==
  /\ Handling("chld")
  /\ frames' = Tail(frames)
  /\ UNCHANGED <<entry, fatherVars, sigchld, sigint, numChildren_ocpc, childpids,
                 processVars, backlog>>

\* Deviation: do-while, which also counts the waitpid that returns nothing.
HandlerReturnCounting ==
  /\ Handling("chld") /\ Zombies = {} /\ numChildren_ocpc > -2
  /\ frames' = Tail(frames) /\ numChildren_ocpc' = numChildren_ocpc - 1
  /\ UNCHANGED <<entry, fatherVars, sigchld, sigint, childpids, processVars, backlog>>

\* waitpid returned 0 or failed with ECHILD.
HandlerReturn ==
  /\ Handling("chld") /\ Zombies = {}
  /\ frames' = Tail(frames)
  /\ UNCHANGED <<entry, fatherVars, sigchld, sigint, numChildren_ocpc, childpids,
                 processVars, backlog>>

\* Without the handler SIGINT kills; sigintHandler begins with a SIGTERM to every
\* entry of childpids, whatever process has that pid by now.
SigintKills ==
  /\ Alive /\ sigint /\ ~SigintCaught
  /\ FatherDies

\* Deviation: the handler only waits.
DeliverSigintNoKill ==
  /\ SigintCaught /\ sigint /\ ~InHandler("int")
  /\ frames' = <<"int">> \o frames /\ sigint' = FALSE
  /\ UNCHANGED <<entry, fatherVars, sigchld, numChildren_ocpc, childpids, processVars, backlog>>

\* Deviation: SIGTERM to the whole group.
DeliverSigintKillAll ==
  /\ SigintCaught /\ sigint /\ ~InHandler("int")
  /\ frames' = <<"int">> \o frames /\ sigint' = FALSE
  /\ Terminate(Running)
  /\ UNCHANGED <<entry, fatherVars, numChildren_ocpc, childpids, backlog>>

DeliverSigint ==
  /\ SigintCaught /\ sigint /\ ~InHandler("int")
  /\ frames' = <<"int">> \o frames /\ sigint' = FALSE
  /\ Terminate(Preforked \cap Running)
  /\ UNCHANGED <<entry, fatherVars, numChildren_ocpc, childpids, backlog>>

\* while (wait(NULL) > 0);
SigintWait ==
  /\ Handling("int")
  /\ \E p \in Zombies : Reap(p)
  /\ UNCHANGED <<entry, fatherVars, signalVars, numChildren_ocpc, childpids, conn, backlog>>

\* wait failed with ECHILD: exit(0).
SigintExit ==
  /\ Handling("int") /\ Children = {}
  /\ FatherDies

SigchldStep == DeliverSigchld \/ HandlerReap \/ HandlerReturn
SigintStep  == SigintKills \/ DeliverSigint \/ SigintWait \/ SigintExit

-------------------------------------------------------------------------------
(* Children *)

\* A pre-forked child is in the accept of myTcpServerSimple.
ChildAccept(p) ==
  /\ role[p] = "preforked" /\ at[p] = "accept" /\ backlog # <<>>
  /\ at'   = [at EXCEPT ![p] = "task"]
  /\ conn' = [conn EXCEPT ![p] = Head(backlog)]
  /\ backlog' = Tail(backlog)
  /\ UNCHANGED <<entry, fatherVars, signalVars, numChildren_ocpc, childpids, role>>

\* An OCPC child resets SIGINT, closes the listening socket, calls childTask.
ChildStart(p) ==
  /\ at[p] = "start"
  /\ at' = [at EXCEPT ![p] = "task"]
  /\ UNCHANGED <<entry, fatherVars, signalVars, numChildren_ocpc, childpids, role, conn, backlog>>

\* childTask returns: a pre-forked child closes its copy and accepts again, an
\* OCPC child closes it and exits.
TaskReturns(p) ==
  /\ at[p] = "task"
  /\ IF role[p] = "ocpc" THEN Terminate({p})
     ELSE /\ at'   = [at EXCEPT ![p] = "accept"]
          /\ conn' = [conn EXCEPT ![p] = NoClient]
          /\ UNCHANGED <<role, sigchld>>
  /\ UNCHANGED <<entry, fatherVars, frames, sigint, numChildren_ocpc, childpids, backlog>>

-------------------------------------------------------------------------------
(* Clients and faults *)

\* connect() succeeds as soon as the kernel has queued the connection.
Connect(c) ==
  /\ Listening
  /\ c \notin Held /\ \A i \in DOMAIN backlog : backlog[i] # c
  /\ backlog' = Append(backlog, c)
  /\ UNCHANGED <<entry, fatherVars, signalVars, numChildren_ocpc, childpids, processVars>>

\* The peer resets the connection: SIGPIPE, or err_sys in a read wrapper, ends
\* the process that serves it.
ChildReset(p) ==
  /\ "reset" \in Faults[entry] /\ at[p] = "task"
  /\ Terminate({p})
  /\ UNCHANGED <<entry, fatherVars, frames, sigint, numChildren_ocpc, childpids, backlog>>

FatherReset ==
  /\ "reset" \in Faults[entry] /\ InMain("task")
  /\ FatherDies

\* kill -INT of the father.
SendSigint ==
  /\ "kill" \in Faults[entry] /\ Alive /\ ~Shutdown
  /\ sigint' = TRUE
  /\ UNCHANGED <<entry, fatherVars, frames, sigchld, numChildren_ocpc, childpids,
                 processVars, backlog>>

\* Ctrl-C: the terminal signals the whole group; every child has the default
\* disposition (or, before ChildStart, a handler that ends in exit) and dies.
TerminalSigint ==
  /\ "ctrlc" \in Faults[entry] /\ Alive /\ ~Shutdown
  /\ sigint' = TRUE
  /\ Terminate(Running)
  /\ UNCHANGED <<entry, fatherVars, frames, numChildren_ocpc, childpids, backlog>>

-------------------------------------------------------------------------------

Init ==
  /\ entry \in Entries
  /\ pc = IF Preforks THEN "prefork" ELSE IF FatherServes THEN "accept" ELSE "sigchld"
  /\ frames = <<>> /\ blocked = FALSE /\ sigchld = FALSE /\ sigint = FALSE
  /\ numChildren_ocpc = 0 /\ reg = 0 /\ childpids = <<>>
  /\ sockfd_copy = NoClient
  /\ role = [p \in Pids |-> "none"] /\ at = [p \in Pids |-> "none"]
  /\ conn = [p \in Pids |-> NoClient]
  /\ backlog = <<>>

Next ==
  \/ FatherStep \/ FatherTaskReturns \/ SigchldStep \/ SigintStep
  \/ \E p \in Pids : ChildAccept(p) \/ ChildStart(p) \/ TaskReturns(p)
  \/ \E c \in Clients : Connect(c)
  \/ ForkFails \/ FatherReset \/ (\E p \in Pids : ChildReset(p))
  \/ SendSigint \/ TerminalSigint

Spec == Init /\ [][Next]_vars

\* Processes and signals make progress, and every client ends its session some
\* day (childTask returns).  Clients need not connect, faults need not happen.
\* Strong fairness of SIGCHLD: the father masks it again and again, but the kernel
\* delivers a pending signal no later than when sigprocmask unmasks it.
Fairness ==
  /\ WF_vars(FatherStep) /\ WF_vars(FatherTaskReturns)
  /\ SF_vars(SigchldStep) /\ WF_vars(SigintStep)
  /\ \A p \in Pids : /\ WF_vars(ChildAccept(p)) /\ WF_vars(ChildStart(p))
                     /\ WF_vars(TaskReturns(p))

FairSpec == Spec /\ Fairness

-------------------------------------------------------------------------------
(* Properties *)

InFlight == IF pc \in {"load", "store"} THEN 1 ELSE 0   \* forked, not counted yet

\* The doc of maxChildCount, where no child is pre-forked: never more one-client-per-
\* child processes (dead but unreaped ones included) than that, even when SIGCHLD
\* interrupts line 249.  Of the children of MixedMax it holds only while no pre-forked
\* one dies: line 260 subtracts those too.
OcpcBound == Bounded => Cardinality(Ocpc) <= MaxChildCount

\* numChildren_ocpc never falls below the number of OCPC children, so the test of
\* line 215 errs on the safe side; a decrement may be lost, an increment may not.
CounterNeverLow ==
  Alive /\ ~Shutdown => numChildren_ocpc + InFlight >= Cardinality(Ocpc)

\* With an uninterruptible increment the counter is exact whenever the father
\* reads it, however SIGCHLD, wait and fork interleave.
CounterExact ==
  Alive /\ ~Shutdown => numChildren_ocpc + InFlight = Cardinality(Ocpc)

\* The comment "To avoid race-condition" (line 210): the father waits for a child
\* to terminate only when it has one, so wait does not fail and end the server.
WaitHasChild == InMain("wait") => Children # {}

\* mytcpserver.h, lines 48 and 73: maxChildCount is the largest number of clients
\* served at the same time.  The code does not keep it for MixedMax, whose pre-forked
\* children it never counts (run mixed_over_max).
ServedAtMostMax == Bounded => Cardinality({p \in Pids : at[p] = "task"}) <= MaxChildCount

\* How many clients the code of each entry point serves at the same time.  For MixedMax
\* this is more than its doc says: see ServedAtMostMax.
ServingCapacity ==
  CASE entry = "Simple"            -> 1
    [] entry = "Preforked"         -> ChildCount
    [] entry = "OCPCMax"           -> MaxChildCount
    [] entry = "MixedMax"          -> ChildCount + MaxChildCount
    [] entry \in {"OCPC", "Mixed"} -> Cardinality(Pids) + 1

Admission == INSTANCE BoundedAdmission
               WITH capacity <- ServingCapacity, waiting <- backlog, serving <- Held

\* The processes together implement the abstract server: clients are admitted in the
\* order of their arrival and never more of them than the loop of the entry point
\* has room for, whatever SIGCHLD and SIGINT interrupt.
AdmitsInOrder == Admission!Spec

\* ... and, with clients that end their sessions and no faults, a waiting client
\* is admitted whenever there is room for it.
AdmitsEventually == Admission!FairSpec

\* Every child that dies is reaped, although pending SIGCHLDs do not queue: the
\* handler's while loop (line 259) makes up for the signals that merged.
ZombiesReaped == \A p \in Pids : at[p] = "zombie" ~> at[p] # "zombie"

\* Once no process works for a client, every descriptor of its connection gets
\* closed (lines 188, 195, 244, 251) and the client sees the end of it.
ConnectionEnds ==
  \A c \in Clients :
    (c \in Held /\ pc \notin {"fork", "task"} /\ \A p \in Pids : conn[p] # c)
      ~> c \notin Held

\* SIGINT ends the server and every process of it: pre-forked children at once,
\* OCPC children after their clients.  A father that dies before the signal is
\* delivered (its own client resets, fork or wait fails) tells nobody.
SigintStopsServer ==
  /\ (sigint /\ SigintCaught) ~> (Shutdown \/ ~Alive)
  /\ Shutdown ~> (~Alive /\ Children = {})

\* The SIGTERMs of sigintHandler do not hit the OCPC children, whose clients are
\* served to the end (it waits for them instead).
ShutdownSparesOcpc ==
  [][(~Shutdown /\ Shutdown') => \A p \in Ocpc : at'[p] = at[p]]_vars

\* The deaths of other workers do not strand a queued client while one is left.
QueuedClientServed ==
  \A c \in Clients :
    (\E i \in DOMAIN backlog : backlog[i] = c)
      ~> (~Listening \/ \A i \in DOMAIN backlog : backlog[i] # c)

===============================================================================
