---------------------------- MODULE CountingServer ----------------------------
(* The stand-alone servers that keep their own count of clients: the iterative *)
(* one (labs/old/2.3), the one whose children announce their end by SIGUSR1    *)
(* (labs/old/3.1 and 3.2), the one with a semaphore and threads                *)
(* (labs/old/3.1/thread), the preforked one whose father is a worker           *)
(* (labs/old/3.3), and the one that counts SIGCHLDs (exams/2014-09-10).        *)
EXTENDS Integers, Sequences, FiniteSets

CONSTANTS
  Programs,      \* subset of {"iter", "usr1", "thread", "prefork", "chld"}
  Max,           \* maxNumberOfChildren of 3.1
  Permits,       \* first value of the semaphore
  Workers,       \* argv[2] of 3.3
  Pids,          \* ids of children or threads, numbers; reused once reaped
  Clients, NoClient,
  ForksMayFail,  \* fork and pthread_create may fail
  CountBound     \* bounds the model: nobody connects while the count is higher

ASSUME ProgramsAssumption == Programs \subseteq {"iter", "usr1", "thread", "prefork", "chld"}
ASSUME MaxAssumption == {Max, Permits, Workers} \subseteq Nat \ {0}
ASSUME PidsAssumption == Pids \subseteq Nat /\ IsFiniteSet(Pids)
ASSUME ClientsAssumption == IsFiniteSet(Clients)
ASSUME NoClientAssumption == NoClient \notin Clients

VARIABLES
  program,       \* which server runs; never changes
  pc,            \* where its father (main thread) is
  handler,       \* "none", "reap" (in a waitpid loop) or "waitall" (in sig_int)
  pending,       \* SIGUSR1, SIGCHLD or SIGINT is pending for the father
  numChildren,   \* numChildren, numChildren_ocpc2
  reg,           \* the register numChildren++ works in
  sem,           \* the semaphore of the thread server
  sockfd_copy,   \* the client the father has accepted and not closed
  at, conn,      \* per child or thread: where it is, and its client
  backlog        \* the listening socket's queue

fatherVars == <<pc, handler, numChildren, reg, sockfd_copy>>
vars == <<program, pc, handler, pending, numChildren, reg, sem, sockfd_copy, at, conn, backlog>>

Alive     == pc # "exited"
InMain(l) == pc = l /\ handler = "none"
In(place) == {p \in Pids : at[p] = place}
Children  == Pids \ In("none")
Installed == pc \notin {"start", "prefork", "install"}
Forks     == program \in {"usr1", "chld", "thread"}   \* one child per client
Listening == pc # "start" /\ (Alive \/ In("idle") # {})
Open      == ({sockfd_copy} \cup {conn[p] : p \in Pids}) \ {NoClient}

TypeOK ==
  /\ program \in Programs
  /\ pc \in {"start", "prefork", "install", "test", "poll", "wait", "accept", "fork",
             "load", "store", "close", "serve", "exited"}
  /\ handler \in {"none", "reap", "waitall"} /\ pending \in BOOLEAN
  /\ numChildren \in Int /\ reg \in Int
  /\ sem \in 0..Permits
  /\ sockfd_copy \in Clients \cup {NoClient}
  /\ at \in [Pids -> {"none", "idle", "serve", "announced", "doomed", "zombie"}]
  /\ conn \in [Pids -> Clients \cup {NoClient}]
  /\ \A p \in Pids : conn[p] # NoClient => at[p] \in {"serve", "announced", "doomed"}
  /\ backlog \in Seq(Clients) /\ Len(backlog) <= Cardinality(Clients)

-------------------------------------------------------------------------------
(* The father *)

\* The children of a dead father become init's, which reaps them; the threads
\* of a process end with its main.
FatherExits ==
  /\ pc' = "exited" /\ handler' = "none" /\ sockfd_copy' = NoClient
  /\ at' = [p \in Pids |-> IF program = "thread" \/ at[p] = "zombie" THEN "none" ELSE at[p]]
  /\ conn' = [p \in Pids |-> IF program = "thread" THEN NoClient ELSE conn[p]]
  /\ UNCHANGED <<program, pending, numChildren, reg, sem, backlog>>

\* Ids are only names here, so a new child gets the lowest free one.
Fresh(p) == at[p] = "none" /\ \A q \in Pids : q < p => at[q] # "none"

Goto(l) == pc' = l /\ UNCHANGED handler

\* socket, bind and listen; any of them may fail and end the program.
Startup ==
  /\ InMain("start")
  /\ Goto(CASE program \in {"usr1", "thread"} -> "test"
            [] program = "prefork"            -> IF Workers = 1 THEN "install" ELSE "prefork"
            [] OTHER                          -> "accept")
  /\ UNCHANGED <<program, pending, numChildren, reg, sem, sockfd_copy, at, conn, backlog>>

StartupFails == InMain("start") /\ FatherExits

Reap(p) == at[p] = "zombie" /\ at' = [at EXCEPT ![p] = "none"]

\* The test of 3.1 is an equality, made once: nothing is tested after wait.
TestCount ==
  /\ InMain("test") /\ program = "usr1"
  /\ Goto(IF numChildren = Max THEN "poll" ELSE "accept")
  /\ UNCHANGED <<program, pending, numChildren, reg, sem, sockfd_copy, at, conn, backlog>>

\* Deviation: dead children are counted here as well as in the handler.
PadreWaitpidCounts ==
  /\ InMain("poll")
  /\ \/ /\ \E p \in Pids : Reap(p)
        /\ numChildren' = numChildren - 1
        /\ UNCHANGED <<program, pc, handler, pending, reg, sem, sockfd_copy, conn, backlog>>
     \/ /\ In("zombie") = {} /\ Children # {}
        /\ Goto("wait")
        /\ UNCHANGED <<program, pending, numChildren, reg, sem, sockfd_copy, at, conn, backlog>>
     \/ Children = {} /\ FatherExits

\* One turn of waitpid(WNOHANG); without any child the server ends.
PadreWaitpid ==
  /\ InMain("poll")
  /\ \/ /\ \E p \in Pids : Reap(p)
        /\ UNCHANGED <<program, fatherVars, pending, sem, conn, backlog>>
     \/ /\ In("zombie") = {} /\ Children # {}
        /\ Goto("wait")
        /\ UNCHANGED <<program, pending, numChildren, reg, sem, sockfd_copy, at, conn, backlog>>
     \/ Children = {} /\ FatherExits

WaitChild ==
  /\ InMain("wait")
  /\ \/ /\ \E p \in Pids : Reap(p)
        /\ Goto("accept")
        /\ UNCHANGED <<program, pending, numChildren, reg, sem, sockfd_copy, conn, backlog>>
     \/ Children = {} /\ FatherExits

\* Deviation: the father goes on when sem_wait should block it.
SemWaitTry ==
  /\ InMain("test") /\ program = "thread"
  /\ sem' = IF sem > 0 THEN sem - 1 ELSE 0
  /\ Goto("accept")
  /\ UNCHANGED <<program, pending, numChildren, reg, sockfd_copy, at, conn, backlog>>

SemWait ==
  /\ InMain("test") /\ program = "thread"
  /\ sem > 0 /\ sem' = sem - 1
  /\ Goto("accept")
  /\ UNCHANGED <<program, pending, numChildren, reg, sockfd_copy, at, conn, backlog>>

\* The father of 2.3, and the last worker of 3.3, serves the client itself.
FatherAccept ==
  /\ InMain("accept") /\ backlog # <<>>
  /\ sockfd_copy' = Head(backlog) /\ backlog' = Tail(backlog)
  /\ Goto(IF Forks THEN "fork" ELSE "serve")
  /\ UNCHANGED <<program, pending, numChildren, reg, sem, at, conn>>

\* A thread shares the descriptor, a child has a copy of it.
ForkChild(p) ==
  /\ InMain("fork") /\ Fresh(p)
  /\ at' = [at EXCEPT ![p] = "serve"] /\ conn' = [conn EXCEPT ![p] = sockfd_copy]
  /\ sockfd_copy' = IF program = "thread" THEN NoClient ELSE sockfd_copy
  /\ Goto(IF program = "thread" THEN "test" ELSE "load")
  /\ UNCHANGED <<program, pending, numChildren, reg, sem, backlog>>

\* The father returns; the preforked children it has stay (3.3, line 73).
ForkFails ==
  /\ ForksMayFail /\ (InMain("fork") \/ InMain("prefork"))
  /\ FatherExits

\* SigUsr leaves the last child unreaped each time: clients that come one after the
\* other use up the process ids, and then fork must fail.
OutOfPids == InMain("fork") /\ In("zombie") = Pids /\ FatherExits

\* numChildren++, which a signal may interrupt.
LoadCount ==
  /\ InMain("load") /\ reg' = numChildren /\ Goto("store")
  /\ UNCHANGED <<program, pending, numChildren, sem, sockfd_copy, at, conn, backlog>>

StoreCount ==
  /\ InMain("store") /\ numChildren' = reg + 1 /\ reg' = 0 /\ Goto("close")
  /\ UNCHANGED <<program, pending, sem, sockfd_copy, at, conn, backlog>>

CloseCopy ==
  /\ InMain("close") /\ sockfd_copy' = NoClient
  /\ Goto(IF program = "usr1" THEN "test" ELSE "accept")
  /\ UNCHANGED <<program, pending, numChildren, reg, sem, at, conn, backlog>>

\* The father is the last of the workers.
PreforkChild(p) ==
  /\ InMain("prefork") /\ Fresh(p)
  /\ at' = [at EXCEPT ![p] = "idle"]
  /\ Goto(IF Cardinality(Children) + 1 = Workers - 1 THEN "install" ELSE "prefork")
  /\ UNCHANGED <<program, pending, numChildren, reg, sem, sockfd_copy, conn, backlog>>

InstallSigint ==
  /\ InMain("install") /\ Goto("accept")
  /\ UNCHANGED <<program, pending, numChildren, reg, sem, sockfd_copy, at, conn, backlog>>

FatherSessionEnds ==
  /\ InMain("serve") /\ sockfd_copy' = NoClient /\ Goto("accept")
  /\ UNCHANGED <<program, pending, numChildren, reg, sem, at, conn, backlog>>

-------------------------------------------------------------------------------
(* Its signal handlers; accept and wait are restarted after them. *)

\* SIGUSR1: with a count of 0 nobody is reaped.
SigUsr ==
  /\ program = "usr1"
  /\ numChildren' = numChildren - 1
  /\ handler' = IF numChildren' = 0 THEN "none" ELSE "reap"
  /\ UNCHANGED <<pc, at, conn, sockfd_copy>>

\* SIGCHLD: one decrement per signal, however many children it stands for.
SigchldHandler2 ==
  /\ program = "chld"
  /\ numChildren' = numChildren - 1 /\ handler' = "reap"
  /\ UNCHANGED <<pc, at, conn, sockfd_copy>>

\* Deviation: the loop over childpids stops one too early.
SigIntMissesOne ==
  /\ program = "prefork" /\ Installed
  /\ \E p \in Children : at' = [q \in Pids |-> IF q \in Children \ {p} THEN "doomed" ELSE at[q]]
  /\ handler' = "waitall"
  /\ UNCHANGED <<pc, numChildren, conn, sockfd_copy>>

\* SIGINT is passed on to the children, which have its default action.
SigInt ==
  /\ program = "prefork" /\ Installed
  /\ at' = [p \in Pids |-> IF p \in Children THEN "doomed" ELSE at[p]]
  /\ handler' = "waitall"
  /\ UNCHANGED <<pc, numChildren, conn, sockfd_copy>>

DeliverSignal ==
  /\ Alive /\ pending /\ handler = "none"
  /\ pending' = FALSE
  /\ SigUsr \/ SigchldHandler2 \/ SigInt
  /\ UNCHANGED <<program, reg, sem, backlog>>

\* Before line 86 of 3.3 SIGINT has its default action for the father, too.
SigintKills ==
  /\ program = "prefork" /\ Alive /\ pending /\ ~Installed
  /\ FatherExits

\* One turn of the waitpid loop of sig_usr or sigchldHandler2.
HandlerReap ==
  /\ handler = "reap"
  /\ IF In("zombie") = {}
     THEN handler' = "none" /\ UNCHANGED at
     ELSE UNCHANGED handler /\ \E p \in Pids : Reap(p)
  /\ UNCHANGED <<program, pc, pending, numChildren, reg, sem, sockfd_copy, conn, backlog>>

\* sig_int waits for each child and exits.
WaitAll ==
  /\ handler = "waitall" /\ Children = In("zombie")
  /\ FatherExits

-------------------------------------------------------------------------------
(* Children and threads *)

ChildAccept(p) ==
  /\ at[p] = "idle" /\ backlog # <<>>
  /\ at' = [at EXCEPT ![p] = "serve"] /\ conn' = [conn EXCEPT ![p] = Head(backlog)]
  /\ backlog' = Tail(backlog)
  /\ UNCHANGED <<program, fatherVars, pending, sem>>

Died == IF Alive THEN "zombie" ELSE "none"   \* init reaps orphans

\* chiudiClient of 3.1: SIGUSR1 to the father (init is not hurt by it), then close.
AnnounceEnd(p) ==
  /\ at[p] = "serve" /\ program = "usr1"
  /\ pending' = Alive
  /\ at' = [at EXCEPT ![p] = "announced"]
  /\ UNCHANGED <<program, fatherVars, sem, conn, backlog>>

\* Deviation: chiudiClient returns without sem_post.
PostEndForgets(p) ==
  /\ at[p] = "serve" /\ program = "thread"
  /\ at' = [at EXCEPT ![p] = "announced"]
  /\ UNCHANGED <<program, fatherVars, pending, sem, conn, backlog>>

\* chiudiClient of the thread server: sem_post, then close.
PostEnd(p) ==
  /\ at[p] = "serve" /\ program = "thread"
  /\ sem' = sem + 1
  /\ at' = [at EXCEPT ![p] = "announced"]
  /\ UNCHANGED <<program, fatherVars, pending, conn, backlog>>

\* Deviation: the descriptor is not closed.
CloseAndExitLeaks(p) ==
  /\ at[p] = "announced"
  /\ at' = [at EXCEPT ![p] = IF program = "thread" THEN "none" ELSE Died]
  /\ UNCHANGED <<program, fatherVars, pending, sem, conn, backlog>>

CloseAndExit(p) ==
  /\ at[p] = "announced"
  /\ at' = [at EXCEPT ![p] = IF program = "thread" THEN "none" ELSE Died]
  /\ conn' = [conn EXCEPT ![p] = NoClient]
  /\ UNCHANGED <<program, fatherVars, pending, sem, backlog>>

\* A child of server2.c closes and returns; its death is announced by the kernel.
ChildReturns(p) ==
  /\ at[p] = "serve" /\ program = "chld"
  /\ pending' = Alive
  /\ at' = [at EXCEPT ![p] = Died] /\ conn' = [conn EXCEPT ![p] = NoClient]
  /\ UNCHANGED <<program, fatherVars, sem, backlog>>

\* A preforked child goes back to accept.
ServedNext(p) ==
  /\ at[p] = "serve" /\ program = "prefork"
  /\ at' = [at EXCEPT ![p] = "idle"] /\ conn' = [conn EXCEPT ![p] = NoClient]
  /\ UNCHANGED <<program, fatherVars, pending, sem, backlog>>

ChildDies(p) ==
  /\ at[p] = "doomed"
  /\ at' = [at EXCEPT ![p] = "zombie"] /\ conn' = [conn EXCEPT ![p] = NoClient]
  /\ UNCHANGED <<program, fatherVars, pending, sem, backlog>>

-------------------------------------------------------------------------------
(* The environment *)

Connect(c) ==
  /\ Listening /\ numChildren <= CountBound
  /\ c \notin Open /\ \A i \in DOMAIN backlog : backlog[i] # c
  /\ backlog' = Append(backlog, c)
  /\ UNCHANGED <<program, fatherVars, pending, sem, at, conn>>

SendSigint ==
  /\ program = "prefork" /\ Alive /\ handler = "none" /\ pc # "start" /\ pending' = TRUE
  /\ UNCHANGED <<program, fatherVars, sem, at, conn, backlog>>

-------------------------------------------------------------------------------
(* The programs *)

IterativeServer == program = "iter" /\ (Startup \/ StartupFails \/ FatherAccept)

Usr1Father ==
  /\ program = "usr1"
  /\ \/ Startup \/ StartupFails \/ TestCount \/ PadreWaitpid \/ WaitChild \/ FatherAccept
     \/ (\E p \in Pids : ForkChild(p)) \/ OutOfPids \/ LoadCount \/ StoreCount \/ CloseCopy

ThreadFather ==
  /\ program = "thread"
  /\ Startup \/ StartupFails \/ SemWait \/ FatherAccept \/ \E p \in Pids : ForkChild(p)

PreforkFather ==
  /\ program = "prefork"
  /\ Startup \/ StartupFails \/ InstallSigint \/ \E p \in Pids : PreforkChild(p)

Figlio == program = "prefork" /\ FatherAccept

ServerOCPC2 ==
  /\ program = "chld"
  /\ \/ Startup \/ StartupFails \/ FatherAccept \/ (\E p \in Pids : ForkChild(p))
     \/ LoadCount \/ StoreCount \/ CloseCopy

FatherStep ==
  IterativeServer \/ Usr1Father \/ ThreadFather \/ PreforkFather \/ Figlio \/ ServerOCPC2

SignalStep == SigintKills \/ HandlerReap \/ WaitAll

SessionEnds(p) == AnnounceEnd(p) \/ PostEnd(p) \/ ChildReturns(p) \/ ServedNext(p)

ChildStep(p) == ChildAccept(p) \/ CloseAndExit(p) \/ ChildDies(p)

Init ==
  /\ program \in Programs
  /\ pc = "start" /\ handler = "none" /\ pending = FALSE
  /\ numChildren = 0 /\ reg = 0 /\ sem = Permits /\ sockfd_copy = NoClient
  /\ at = [p \in Pids |-> "none"] /\ conn = [p \in Pids |-> NoClient]
  /\ backlog = <<>>

Next ==
  \/ FatherStep \/ FatherSessionEnds \/ ForkFails \/ DeliverSignal \/ SignalStep
  \/ \E p \in Pids : SessionEnds(p) \/ ChildStep(p)
  \/ \E c \in Clients : Connect(c)
  \/ SendSigint

Spec == Init /\ [][Next]_vars

\* Processes run, every session ends some day, and the kernel delivers a pending
\* signal at the latest when the handler that masks it returns.
Fairness ==
  /\ WF_vars(FatherStep) /\ WF_vars(FatherSessionEnds)
  /\ SF_vars(DeliverSignal) /\ WF_vars(SignalStep)
  /\ \A p \in Pids : WF_vars(SessionEnds(p)) /\ WF_vars(ChildStep(p))

FairSpec == Spec /\ Fairness

-------------------------------------------------------------------------------
(* Properties *)

\* Forked, and on the way to be counted.
Counted ==
  CASE pc = "load"  -> numChildren + 1
    [] pc = "store" -> IF numChildren < reg THEN numChildren + 1 ELSE reg + 1
    [] OTHER        -> numChildren

\* The count never falls below the number of clients in service: signals that
\* merge or arrive before line 117 err on one side only.
CountNeverLow ==
  program \in {"usr1", "chld"} /\ Alive => Counted >= Cardinality(In("serve"))

\* Clients whose end has not been announced.
Serving == ({sockfd_copy} \cup {conn[p] : p \in In("serve") \cup In("doomed")}) \ {NoClient}

ServingCapacity ==
  CASE program = "iter"               -> 1
    [] program = "thread"             -> Permits
    [] program = "prefork"            -> Workers
    [] OTHER                          -> Cardinality(Pids) + 1

Admission == INSTANCE BoundedAdmission
               WITH capacity <- ServingCapacity, waiting <- backlog, serving <- Serving

\* Arrival order, and the capacity of the semaphore (sem_post comes before close, so
\* a client counts as gone from there on) and of the preforked workers.
AdmitsInOrder == Admission!Spec

\* No lost or early wake-up strands a client while the server runs: neither the wait
\* of line 77 nor the semaphore nor a worker's session blocks the queue for ever.
QueuedClientAdmitted ==
  \A c \in Clients :
    (\E i \in DOMAIN backlog : backlog[i] = c)
      ~> (~Listening \/ ~Alive \/ \A i \in DOMAIN backlog : backlog[i] # c)

\* SIGINT, once its handler is installed, ends father and children, also in the
\* middle of their sessions.
SigintEndsAll ==
  (program = "prefork" /\ handler = "waitall") ~> (~Alive /\ Children = {})

\* maxNumberOfChildren and the comments "numChildren = 3" before the wait and
\* "numChildren = 2" after it (lines 76 and 83): at most Max clients in service.
SessionsAtMostMax == program = "usr1" => Cardinality(Serving) <= Max
===============================================================================
