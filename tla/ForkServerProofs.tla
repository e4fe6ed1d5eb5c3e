--------------------------- MODULE ForkServerProofs ---------------------------
(* Proofs about ForkServer for every entry point, limit, number of processes   *)
(* and build.                                                                  *)
EXTENDS ForkServer, QueueLemmas

(* A stack of handlers without repetitions stays one under the three ways the *)
(* father's stack changes: emptied by exit, pushed by a delivery, popped by a  *)
(* return.                                                                     *)
LEMMA EmptyStack == <<>> \in Seq(Handlers) /\ NoReentry(<<>>)
<1>1. DOMAIN <<>> = 1..0
  OBVIOUS
<1> QED
  BY <1>1 DEF NoReentry, Handlers

(* A signal that is delivered while its handler does not run. *)
LEMMA PushHandler ==
  ASSUME NEW s \in Seq(Handlers), NoReentry(s), NEW h \in Handlers, \A i \in DOMAIN s : s[i] # h
  PROVE  (<<h>> \o s) \in Seq(Handlers) /\ NoReentry(<<h>> \o s)
<1> DEFINE t == <<h>> \o s
<1>1. t \in Seq(Handlers) /\ Len(t) = Len(s) + 1
  OBVIOUS
<1>2. t[1] = h /\ \A i \in 2..Len(t) : t[i] = s[i - 1]
  OBVIOUS
<1>3. DOMAIN s = 1..Len(s) /\ DOMAIN t = 1..Len(t) /\ Len(s) \in Nat
  BY <1>1
<1> QED
  BY <1>1, <1>2, <1>3, SMT DEF NoReentry, Handlers

(* A handler returns. *)
LEMMA PopHandler ==
  ASSUME NEW s \in Seq(Handlers), NoReentry(s), s # <<>>
  PROVE  Tail(s) \in Seq(Handlers) /\ NoReentry(Tail(s))
<1>1. Tail(s) \in Seq(Handlers) /\ Len(Tail(s)) = Len(s) - 1 /\ Len(s) \in Nat
  OBVIOUS
<1>2. \A i \in DOMAIN Tail(s) : i + 1 \in DOMAIN s /\ Tail(s)[i] = s[i + 1]
  BY <1>1
<1> QED
  BY <1>1, <1>2 DEF NoReentry, Handlers

(* The initial state has the types of the variables.                           *)
LEMMA TypeCorrectInit == Init => TypeOK
<1> USE EntryAssumption, ClientAssumption
<1> SUFFICES ASSUME Init PROVE TypeOK
  OBVIOUS
<1>1. entry \in Entries /\ frames \in Seq(Handlers) /\ NoReentry(frames)
  BY EmptyStack DEF Init
<1>2. pc \in Locations
  BY DEF Init, Locations
<1>3. childpids \in Seq(Pids) /\ backlog \in Seq(Clients)
  BY DEF Init
<1>4. role \in [Pids -> {"none", "preforked", "ocpc"}]
      /\ at \in [Pids -> {"none", "accept", "start", "task", "zombie"}]
      /\ conn \in [Pids -> Clients \cup {NoClient}]
  BY DEF Init
<1>5. blocked \in BOOLEAN /\ sigchld \in BOOLEAN /\ sigint \in BOOLEAN
  BY DEF Init
<1>6. numChildren_ocpc \in Int /\ reg \in Int /\ sockfd_copy \in Clients \cup {NoClient}
  BY DEF Init
<1> QED
  BY <1>1, <1>2, <1>3, <1>4, <1>5, <1>6 DEF TypeOK

(* Type correctness of the fork servers: every step of the father, of a signal *)
(* handler, of a child, of a client or of a fault keeps each variable in its   *)
(* type.                                                                       *)
THEOREM TypeCorrect == Spec => []TypeOK
<1> USE EntryAssumption, ClientAssumption
<1>1. Init => TypeOK
  BY TypeCorrectInit
<1>2. TypeOK /\ [Next]_vars => TypeOK'
  <2> SUFFICES ASSUME TypeOK, [Next]_vars PROVE TypeOK'
    OBVIOUS
  <2> USE DEF TypeOK, Locations, fatherVars, signalVars, processVars, InMain
  <2>1. CASE PreforkChild
    BY <2>1 DEF PreforkChild, Free
  <2>2. CASE InstallSigint \/ InstallSigchld \/ BlockSigchld \/ TestCount \/ UnblockSigchld
    BY <2>2 DEF InstallSigint, InstallSigchld, BlockSigchld, TestCount, UnblockSigchld, LoopHead
  <2>3. CASE WaitChild
    BY <2>3 DEF WaitChild, Reap, Zombies
  <2>4. CASE FatherAccept
    BY <2>4 DEF FatherAccept
  <2>5. CASE ForkChild
    BY <2>5 DEF ForkChild, Free
  <2>6. CASE LoadCount \/ StoreCount \/ FatherTaskReturns \/ CloseCopy
    BY <2>6 DEF LoadCount, StoreCount, FatherTaskReturns, CloseCopy, LoopHead
  <2>7. CASE DeliverSigchld
    <3>1. frames' \in Seq(Handlers) /\ NoReentry(frames')
      BY <2>7, PushHandler, "chld" \in Handlers DEF DeliverSigchld, InHandler, Handlers
    <3> QED
      BY <2>7, <3>1 DEF DeliverSigchld
  <2>8. CASE HandlerReap
    BY <2>8 DEF HandlerReap, Reap, Zombies
  <2>9. CASE HandlerReturn
    <3>1. frames' \in Seq(Handlers) /\ NoReentry(frames')
      BY <2>9, PopHandler DEF HandlerReturn, Handling
    <3> QED
      BY <2>9, <3>1 DEF HandlerReturn
  <2>10. CASE DeliverSigint
    <3>1. frames' \in Seq(Handlers) /\ NoReentry(frames')
      BY <2>10, PushHandler DEF DeliverSigint, InHandler, Handlers
    <3> QED
      BY <2>10, <3>1 DEF DeliverSigint, Terminate
  <2>11. CASE SigintWait
    BY <2>11 DEF SigintWait, Reap, Zombies
  <2>12. CASE FatherDies
    BY <2>12, EmptyStack DEF FatherDies
  <2>13. CASE WaitFails \/ SigintKills \/ SigintExit \/ ForkFails \/ FatherReset
    BY <2>12, <2>13 DEF WaitFails, SigintKills, SigintExit, ForkFails, FatherReset
  <2>14. ASSUME NEW p \in Pids, ChildAccept(p) PROVE TypeOK'
    BY <2>14 DEF ChildAccept
  <2>15. ASSUME NEW p \in Pids, ChildStart(p) PROVE TypeOK'
    BY <2>15 DEF ChildStart
  <2>16. ASSUME NEW p \in Pids, TaskReturns(p) PROVE TypeOK'
    BY ZenonT(40), <2>16 DEF TaskReturns, Terminate
  <2>17. ASSUME NEW p \in Pids, ChildReset(p) PROVE TypeOK'
    BY <2>17 DEF ChildReset, Terminate
  <2>18. ASSUME NEW c \in Clients, Connect(c) PROVE TypeOK'
    BY <2>18 DEF Connect
  <2>19. CASE SendSigint
    BY <2>19 DEF SendSigint
  <2>20. CASE TerminalSigint
    BY <2>20 DEF TerminalSigint, Terminate
  <2>21. CASE UNCHANGED vars
    BY <2>21 DEF vars
  <2> QED
    BY <2>1, <2>2, <2>3, <2>4, <2>5, <2>6, <2>7, <2>8, <2>9, <2>10, <2>11, <2>13,
       <2>14, <2>15, <2>16, <2>17, <2>18, <2>19, <2>20, <2>21
       DEF Next, FatherStep, SigchldStep, SigintStep
<1> QED
  BY <1>1, <1>2, PTL DEF Spec

-------------------------------------------------------------------------------
(* The OCPC children are finitely many, and how their number changes.          *)

LEMMA OcpcFinite ==
  /\ IsFiniteSet(Ocpc) /\ Cardinality(Ocpc) \in Nat
  /\ IsFiniteSet(Ocpc') /\ Cardinality(Ocpc') \in Nat
<1>1. Ocpc \subseteq Pids /\ Ocpc' \subseteq Pids
  BY DEF Ocpc
<1> QED
  BY <1>1, PidAssumption, FS_Subset, FS_CardinalityType

(* No new OCPC child: there are no more of them afterwards. *)
LEMMA OcpcShrinks ==
  ASSUME \A p \in Pids : role'[p] = "ocpc" => role[p] = "ocpc"
  PROVE  Cardinality(Ocpc') <= Cardinality(Ocpc)
<1>1. Ocpc' \subseteq Ocpc
  BY DEF Ocpc
<1> QED
  BY <1>1, OcpcFinite, FS_Subset

(* A fork adds one. *)
LEMMA OcpcForked ==
  ASSUME TypeOK, NEW p \in Free, role' = [role EXCEPT ![p] = "ocpc"]
  PROVE  Cardinality(Ocpc') = Cardinality(Ocpc) + 1
<1>1. Ocpc' = Ocpc \cup {p} /\ p \notin Ocpc
  BY DEF Ocpc, Free, TypeOK
<1> QED
  BY <1>1, OcpcFinite, FS_AddElement

(* The reaping of an OCPC child removes one. *)
LEMMA OcpcReaped ==
  ASSUME TypeOK, NEW p \in Pids, role[p] = "ocpc", role' = [role EXCEPT ![p] = "none"]
  PROVE  Cardinality(Ocpc') = Cardinality(Ocpc) - 1
<1>1. Ocpc' = Ocpc \ {p} /\ p \in Ocpc
  BY DEF Ocpc, TypeOK
<1> QED
  BY <1>1, OcpcFinite, FS_RemoveElement

-------------------------------------------------------------------------------
(* Capacity.  The invariant of a working father (alive, not shutting down):    *)
(* only OCPC children can be dead and unreaped, the counter (or the register   *)
(* that will overwrite it) covers them all, and it is below the limit from the *)
(* moment line 215 lets the father through until line 249 is done.             *)

\* Pre-forked children do not die before the server is stopped.
NoWorkerDeath ==
  \A e \in Entries \cap {"Preforked", "Mixed", "MixedMax"} : Faults[e] \cap {"reset", "ctrlc"} = {}

Working == Alive /\ ~Shutdown

WorkingInv ==
  /\ \A p \in Zombies : role[p] = "ocpc"
  /\ Cardinality(Ocpc) <= numChildren_ocpc + InFlight
  /\ pc = "store" => Cardinality(Ocpc) <= reg + 1
  /\ Bounded =>
       /\ numChildren_ocpc <= MaxChildCount
       /\ pc \in {"unblock", "accept", "fork", "load"} => numChildren_ocpc < MaxChildCount
       /\ pc = "store" => reg < MaxChildCount

CapacityInv ==
  /\ \A p \in Pids : role[p] = "none" <=> at[p] = "none"
  /\ pc = "prefork" \/ (\E p \in Pids : role[p] = "preforked") => Preforks
  /\ Working => WorkingInv
  /\ OcpcBound

(* A father that still works after a step worked before it: nothing revives a  *)
(* dead father, and sigintHandler never returns.                               *)
LEMMA WorkingBefore ==
  ASSUME TypeOK, [Next]_vars, Working'
  PROVE  Working
<1> USE DEF Working, Alive, Shutdown, InHandler
<1>1. CASE DeliverSigchld
  <2>1. \A i \in DOMAIN frames : i + 1 \in DOMAIN frames' /\ frames'[i + 1] = frames[i]
    BY <1>1 DEF DeliverSigchld, TypeOK
  <2> QED
    BY <1>1, <2>1 DEF DeliverSigchld, fatherVars
<1>2. CASE DeliverSigint
  BY <1>2 DEF DeliverSigint, SigintCaught
<1>3. CASE HandlerReturn
  <2>1. \A i \in DOMAIN frames : i = 1 \/ (i - 1 \in DOMAIN frames' /\ frames'[i - 1] = frames[i])
    BY <1>3 DEF HandlerReturn, Handling, TypeOK
  <2>2. frames[1] = "chld"
    BY <1>3 DEF HandlerReturn, Handling, TypeOK
  <2> QED
    BY <1>3, <2>1, <2>2 DEF HandlerReturn, fatherVars
<1>4. CASE FatherDies
  BY <1>4 DEF FatherDies
<1>5. CASE WaitFails \/ SigintKills \/ SigintExit \/ ForkFails \/ FatherReset
  BY <1>4, <1>5 DEF WaitFails, SigintKills, SigintExit, ForkFails, FatherReset
<1>6. CASE frames' = frames /\ (pc' = pc \/ pc # "dead")
  BY <1>6
<1>7. CASE FatherStep /\ ~WaitFails
  BY <1>6, <1>7 DEF FatherStep, PreforkChild, InstallSigint, InstallSigchld, BlockSigchld,
     TestCount, WaitChild, UnblockSigchld, FatherAccept, ForkChild, LoadCount, StoreCount,
     CloseCopy, fatherVars, signalVars, InMain
<1>8. CASE \/ FatherTaskReturns \/ HandlerReap \/ SigintWait \/ SendSigint \/ TerminalSigint
           \/ UNCHANGED vars
           \/ \E p \in Pids : ChildAccept(p) \/ ChildStart(p) \/ TaskReturns(p) \/ ChildReset(p)
           \/ \E c \in Clients : Connect(c)
  BY <1>6, <1>8 DEF FatherTaskReturns, HandlerReap, SigintWait, SendSigint, TerminalSigint,
     ChildAccept, ChildStart, TaskReturns, ChildReset, Connect, vars, fatherVars, signalVars,
     InMain
<1> QED
  BY <1>1, <1>2, <1>3, <1>5, <1>7, <1>8 DEF Next, SigchldStep, SigintStep

(* The function the program has called stays the same.                         *)
LEMMA EntryFrozen == ASSUME [Next]_vars PROVE entry' = entry
  BY DEF Next, vars, FatherStep, PreforkChild, InstallSigint, InstallSigchld, BlockSigchld,
     TestCount, WaitChild, WaitFails, UnblockSigchld, FatherAccept, ForkChild, LoadCount,
     StoreCount, CloseCopy, FatherTaskReturns, SigchldStep, DeliverSigchld, HandlerReap,
     HandlerReturn, SigintStep, SigintKills, DeliverSigint, SigintWait, SigintExit,
     ChildAccept, ChildStart, TaskReturns, Connect, ForkFails, FatherReset, ChildReset,
     SendSigint, TerminalSigint, FatherDies, fatherVars

(* While it works, the father reaps OCPC children only, so both reapers keep   *)
(* the counter above their number.                                             *)
LEMMA CapacityInit == Init => CapacityInv
<1> SUFFICES ASSUME Init PROVE CapacityInv
  OBVIOUS
<1>1. Ocpc = {} /\ Zombies = {} /\ Cardinality({}) = 0
  BY FS_EmptySet DEF Init, Ocpc, Zombies
<1>2. pc # "store" /\ InFlight = 0 /\ numChildren_ocpc = 0
      /\ pc \notin {"unblock", "fork", "load"} /\ (pc = "accept" => ~Bounded)
  BY EntryAssumption DEF Init, InFlight, Bounded, FatherServes, Preforks
<1>3. WorkingInv /\ OcpcBound
  BY <1>1, <1>2, CountAssumption DEF WorkingInv, OcpcBound
<1>4. \A p \in Pids : role[p] = "none" /\ at[p] = "none"
  BY DEF Init
<1>5. pc = "prefork" => Preforks
  BY DEF Init
<1> QED
  BY <1>3, <1>4, <1>5 DEF CapacityInv

LEMMA CapacityStep ==
  ASSUME TypeOK, TypeOK', CapacityInv, [Next]_vars, NoWorkerDeath
  PROVE  CapacityInv'
<1> USE DEF TypeOK, fatherVars, signalVars, processVars
<1>e. Preforks' = Preforks /\ Bounded' = Bounded
  BY EntryFrozen DEF Preforks, Bounded
<1> USE <1>e
<1>a. Working' => Working
  BY WorkingBefore
<1>b. Cardinality(Ocpc) \in Nat /\ Cardinality(Ocpc') \in Nat
  BY OcpcFinite
<1>c. role' = role => Cardinality(Ocpc') = Cardinality(Ocpc)
  BY DEF Ocpc
<1>1. ASSUME role' = role, at' = at, numChildren_ocpc' = numChildren_ocpc,
             reg' = reg, pc' = pc
      PROVE  CapacityInv'
  BY <1>1, <1>a, <1>c DEF CapacityInv, WorkingInv, OcpcBound, Zombies, InFlight
<1>2. CASE PreforkChild
  <2> PICK p \in Free : /\ role' = [role EXCEPT ![p] = "preforked"]
                        /\ at' = [at EXCEPT ![p] = "accept"]
    BY <1>2 DEF PreforkChild
  <2>1. Cardinality(Ocpc') = Cardinality(Ocpc)
    <3>1. Ocpc' = Ocpc
      BY DEF Ocpc, Free
    <3> QED
      BY <3>1
  <2>2. Zombies' = Zombies /\ p \notin Zombies
    BY DEF Zombies, Free, CapacityInv
  <2> QED
    BY <1>2, <1>a, <2>1, <2>2 DEF PreforkChild, InMain, CapacityInv, WorkingInv, OcpcBound, InFlight, Zombies, Free
<1>3. CASE InstallSigint \/ InstallSigchld \/ BlockSigchld \/ TestCount \/ UnblockSigchld
           \/ FatherAccept \/ FatherTaskReturns \/ CloseCopy
  <2>1. /\ role' = role /\ at' = at /\ numChildren_ocpc' = numChildren_ocpc /\ reg' = reg
        /\ pc \notin {"load", "store"} /\ pc' \notin {"prefork", "load", "store"}
        /\ Bounded => (pc' \in {"unblock", "accept", "fork"}
                         => pc \in {"unblock", "accept", "fork"} \/ numChildren_ocpc # MaxChildCount)
    BY <1>3, EntryAssumption DEF InstallSigint, InstallSigchld, BlockSigchld, TestCount, UnblockSigchld,
       FatherAccept, FatherTaskReturns, CloseCopy, InMain, LoopHead, Bounded, FatherServes, Preforks
  <2> QED
    BY <2>1, <1>a, <1>c, CountAssumption DEF CapacityInv, WorkingInv, OcpcBound, Zombies, InFlight
<1>4. CASE WaitChild
  <2> PICK p \in Zombies : Reap(p)
    BY <1>4 DEF WaitChild
  <2>1. CASE Working
    <3>1. Cardinality(Ocpc') = Cardinality(Ocpc) - 1
      BY <2>1, OcpcReaped DEF CapacityInv, WorkingInv, Zombies, Reap
    <3> QED
      BY <1>4, <2>1, <3>1, <1>b, CountAssumption DEF WaitChild, InMain, Reap, CapacityInv, WorkingInv, OcpcBound, Zombies, InFlight
  <2>2. CASE ~Working
    BY <1>4, <2>2 DEF WaitChild, InMain, Working, Alive, Shutdown, InHandler
  <2> QED
    BY <2>1, <2>2
<1>5. CASE ForkChild
  <2> PICK p \in Free : /\ role' = [role EXCEPT ![p] = "ocpc"]
                        /\ at' = [at EXCEPT ![p] = "start"]
    BY <1>5 DEF ForkChild
  <2>1. Cardinality(Ocpc') = Cardinality(Ocpc) + 1
    BY OcpcForked
  <2>2. Zombies' = Zombies /\ p \notin Zombies
    BY DEF Zombies, Free, CapacityInv
  <2>3. Working
    BY <1>5 DEF ForkChild, InMain, Working, Alive, Shutdown, InHandler
  <2> QED
    BY <1>5, <1>b, <2>1, <2>2, <2>3, CountAssumption DEF ForkChild, InMain, CapacityInv, WorkingInv, OcpcBound, InFlight, Zombies, Free
<1>6. CASE LoadCount
  BY <1>6, <1>a, <1>b, <1>c, CountAssumption DEF LoadCount, InMain, CapacityInv, WorkingInv, OcpcBound, Zombies, InFlight
<1>7. CASE StoreCount
  BY <1>7, <1>a, <1>b, <1>c, CountAssumption DEF StoreCount, InMain, CapacityInv, WorkingInv, OcpcBound, Zombies, InFlight
<1>8. CASE HandlerReap
  <2> PICK p \in Zombies : Reap(p)
    BY <1>8 DEF HandlerReap
  <2>1. CASE Working
    <3>1. Cardinality(Ocpc') = Cardinality(Ocpc) - 1
      BY <2>1, OcpcReaped DEF CapacityInv, WorkingInv, Zombies, Reap
    <3> QED
      BY <1>8, <2>1, <3>1, <1>b, CountAssumption DEF HandlerReap, Reap, CapacityInv, WorkingInv, OcpcBound, Zombies, InFlight
  <2>2. CASE ~Working
    <3>1. Cardinality(Ocpc') <= Cardinality(Ocpc)
      BY OcpcShrinks DEF Reap
    <3> QED
      BY <1>8, <1>a, <1>b, <2>2, <3>1, CountAssumption DEF HandlerReap, Reap, CapacityInv, OcpcBound, Zombies
  <2> QED
    BY <2>1, <2>2
<1>9. CASE FatherDies
  <2>1. Cardinality(Ocpc') <= Cardinality(Ocpc)
    BY <1>9, OcpcShrinks DEF FatherDies
  <2>2. ~Working'
    BY <1>9 DEF FatherDies, Working, Alive
  <2> QED
    BY <1>9, <1>b, <2>1, <2>2, CountAssumption DEF FatherDies, CapacityInv, OcpcBound, Zombies
<1>10. CASE WaitFails \/ SigintKills \/ SigintExit \/ ForkFails \/ FatherReset
  BY <1>9, <1>10 DEF WaitFails, SigintKills, SigintExit, ForkFails, FatherReset
<1>11. ASSUME NEW S \in SUBSET Running, Terminate(S),
              numChildren_ocpc' = numChildren_ocpc, reg' = reg, pc' = pc,
              Working' => \A p \in S : role[p] = "ocpc"
       PROVE  CapacityInv'
  <2>1. Cardinality(Ocpc') <= Cardinality(Ocpc)
    BY <1>11, OcpcShrinks DEF Terminate
  <2>2. \A p \in Pids : role'[p] = "none" <=> at'[p] = "none"
    BY <1>11 DEF Terminate, Running, Children, Zombies, CapacityInv
  <2>3. Working' => \A p \in Zombies' : role'[p] = "ocpc"
    BY <1>11, <1>a DEF Terminate, Zombies, Working, CapacityInv, WorkingInv
  <2>4. \A p \in Pids : role'[p] = "preforked" => role[p] = "preforked"
    BY <1>11 DEF Terminate
  <2> QED
    BY <1>11, <1>a, <1>b, <2>1, <2>2, <2>3, <2>4, CountAssumption
       DEF CapacityInv, WorkingInv, OcpcBound, InFlight
<1>12. CASE DeliverSigint
  <2>1. ~Working'
    <3>1. 1 \in DOMAIN frames' /\ frames'[1] = "int"
      BY <1>12 DEF DeliverSigint
    <3> QED
      BY <3>1 DEF Working, Shutdown, InHandler
  <2> QED
    BY <1>11, <1>12, <2>1 DEF DeliverSigint
<1>13. CASE SigintWait
  <2> PICK p \in Zombies : Reap(p)
    BY <1>13 DEF SigintWait
  <2>1. ~Working
    BY <1>13 DEF SigintWait, Handling, Working, Shutdown, InHandler
  <2>2. Cardinality(Ocpc') <= Cardinality(Ocpc)
    BY OcpcShrinks DEF Reap
  <2> QED
    BY <1>13, <1>a, <1>b, <2>1, <2>2, CountAssumption DEF SigintWait, Reap, CapacityInv, OcpcBound, Zombies
<1>14. ASSUME NEW p \in Pids, ChildAccept(p) \/ ChildStart(p) PROVE CapacityInv'
  <2>1. /\ role' = role /\ numChildren_ocpc' = numChildren_ocpc /\ reg' = reg /\ pc' = pc
        /\ at[p] \in {"accept", "start"} /\ at' = [at EXCEPT ![p] = "task"]
    BY <1>14 DEF ChildAccept, ChildStart
  <2>2. Zombies' = Zombies
    BY <2>1 DEF Zombies
  <2> QED
    BY <2>1, <2>2, <1>a, <1>c DEF CapacityInv, WorkingInv, OcpcBound, InFlight
<1>15. ASSUME NEW p \in Pids, TaskReturns(p) PROVE CapacityInv'
  <2>1. p \in Running
    BY <1>15 DEF TaskReturns, Running, Children, Zombies, CapacityInv
  <2>2. CASE role[p] = "ocpc"
    BY <1>11, <1>15, <2>1, <2>2 DEF TaskReturns
  <2>3. CASE role[p] # "ocpc"
    <3>1. /\ role' = role /\ numChildren_ocpc' = numChildren_ocpc /\ reg' = reg /\ pc' = pc
          /\ at[p] = "task" /\ at' = [at EXCEPT ![p] = "accept"]
      BY <1>15, <2>3 DEF TaskReturns
    <3>2. Zombies' = Zombies
      BY <3>1 DEF Zombies
    <3> QED
      BY <3>1, <3>2, <1>a, <1>c DEF CapacityInv, WorkingInv, OcpcBound, InFlight
  <2> QED
    BY <2>2, <2>3
<1>16. ASSUME NEW p \in Pids, ChildReset(p) PROVE CapacityInv'
  <2>1. p \in Running
    BY <1>16 DEF ChildReset, Running, Children, Zombies, CapacityInv
  <2>2. role[p] = "ocpc"
    BY <1>16, <2>1, NoWorkerDeath DEF NoWorkerDeath, Preforks, ChildReset, CapacityInv, Running, Children
  <2> QED
    BY <1>11, <1>16, <2>1, <2>2 DEF ChildReset
<1>17. CASE TerminalSigint
  <2>1. \A p \in Running : role[p] = "ocpc"
    BY <1>17, NoWorkerDeath DEF NoWorkerDeath, Preforks, TerminalSigint, CapacityInv, Running, Children
  <2> QED
    BY <1>11, <1>17, <2>1 DEF TerminalSigint
<1>18. CASE DeliverSigchld \/ HandlerReturn \/ SendSigint \/ UNCHANGED vars
            \/ \E c \in Clients : Connect(c)
  BY <1>1, <1>18 DEF DeliverSigchld, HandlerReturn, SendSigint, Connect, vars
<1> QED
  BY <1>2, <1>3, <1>4, <1>5, <1>6, <1>7, <1>8, <1>10, <1>12, <1>13, <1>14, <1>15, <1>16,
     <1>17, <1>18 DEF Next, FatherStep, SigchldStep, SigintStep

(* The OCPC children of OCPCMax and MixedMax never outnumber maxChildCount,    *)
(* for every limit, every number of clients and processes, and with a counter  *)
(* whose increment SIGCHLD may tear, provided no pre-forked child dies.        *)
THEOREM CapacityRespected ==
  ASSUME NoWorkerDeath
  PROVE  Spec => []OcpcBound
<1>1. Init => CapacityInv
  BY CapacityInit
<1>2. TypeOK /\ TypeOK' /\ CapacityInv /\ [Next]_vars => CapacityInv'
  BY CapacityStep, NoWorkerDeath
<1>3. CapacityInv => OcpcBound
  BY DEF CapacityInv
<1> QED
  BY <1>1, <1>2, <1>3, TypeCorrect, PTL DEF Spec

(* Under the same assumption the counter never falls below the number of OCPC  *)
(* children while the father works (line 215 then never admits one too many).  *)
THEOREM CounterCovers ==
  ASSUME NoWorkerDeath
  PROVE  Spec => []CounterNeverLow
<1>1. Init => CapacityInv
  BY CapacityInit
<1>2. TypeOK /\ TypeOK' /\ CapacityInv /\ [Next]_vars => CapacityInv'
  BY CapacityStep, NoWorkerDeath
<1>3. TypeOK /\ CapacityInv => CounterNeverLow
  <2>1. Cardinality(Ocpc) \in Nat
    BY OcpcFinite
  <2> QED
    BY <2>1 DEF TypeOK, CapacityInv, WorkingInv, Working, CounterNeverLow, InFlight
<1> QED
  BY <1>1, <1>2, <1>3, TypeCorrect, PTL DEF Spec

-------------------------------------------------------------------------------
(* The exact count.  In a build that increments the counter in one instruction *)
(* no decrement is lost, so the inequality above is an equality; and the count *)
(* on which line 215 has decided to wait cannot change before the wait, since  *)
(* SIGCHLD is masked and its handler is not running.                           *)

ExactInv ==
  Working =>
    /\ pc # "store" /\ numChildren_ocpc + InFlight = Cardinality(Ocpc)
    /\ pc \in {"test", "wait", "unblock"} => blocked /\ frames = <<>>
    /\ pc = "wait" => numChildren_ocpc = MaxChildCount

(* No process is forked or reaped, and the father reads on: nothing to count.  *)
LEMMA ExactIdle ==
  ASSUME TypeOK, ExactInv, role' = role, numChildren_ocpc' = numChildren_ocpc,
         pc' = pc, blocked' = blocked, Working' => Working,
         frames' = frames \/ pc \notin {"test", "wait", "unblock"}
  PROVE  ExactInv'
<1>1. Ocpc' = Ocpc
  BY DEF Ocpc
<1> QED
  BY <1>1 DEF ExactInv, InFlight

LEMMA ExactStep ==
  ASSUME TypeOK, CapacityInv, ExactInv, [Next]_vars, AtomicIncrement
  PROVE  ExactInv'
<1> USE DEF TypeOK, fatherVars, signalVars, processVars
<1>a. Working' => Working
  BY WorkingBefore
<1>b. Cardinality(Ocpc) \in Nat
  BY OcpcFinite
<1>c. role' = role => Cardinality(Ocpc') = Cardinality(Ocpc)
  BY DEF Ocpc
<1>1. CASE PreforkChild
  <2>1. Ocpc' = Ocpc
    BY <1>1 DEF PreforkChild, Ocpc, Free
  <2> QED
    BY <1>1, <1>a, <2>1 DEF PreforkChild, InMain, ExactInv, InFlight
<1>2. CASE InstallSigint \/ InstallSigchld \/ FatherAccept \/ FatherTaskReturns \/ CloseCopy
  BY <1>2, <1>a, <1>c DEF InstallSigint, InstallSigchld, FatherAccept, FatherTaskReturns,
     CloseCopy, InMain, LoopHead, ExactInv, InFlight
<1>3. CASE BlockSigchld \/ TestCount \/ UnblockSigchld
  BY <1>3, <1>a, <1>c DEF BlockSigchld, TestCount, UnblockSigchld, InMain, ExactInv, InFlight
<1>4. CASE WaitChild \/ HandlerReap
  <2> PICK p \in Zombies : Reap(p)
    BY <1>4 DEF WaitChild, HandlerReap
  <2>1. CASE Working
    <3>1. Cardinality(Ocpc') = Cardinality(Ocpc) - 1
      BY <2>1, OcpcReaped DEF CapacityInv, WorkingInv, Zombies, Reap
    <3> QED
      BY <1>4, <1>b, <2>1, <3>1 DEF WaitChild, HandlerReap, Handling, InMain, ExactInv, InFlight
  <2>2. CASE ~Working
    BY <1>a, <2>2 DEF ExactInv
  <2> QED
    BY <2>1, <2>2
<1>5. CASE ForkChild
  <2> PICK p \in Free : role' = [role EXCEPT ![p] = "ocpc"]
    BY <1>5 DEF ForkChild
  <2>1. Cardinality(Ocpc') = Cardinality(Ocpc) + 1
    BY OcpcForked
  <2> QED
    BY <1>5, <1>a, <1>b, <2>1 DEF ForkChild, InMain, ExactInv, InFlight
<1>6. CASE LoadCount \/ StoreCount
  BY <1>6, <1>a, <1>b, <1>c, AtomicIncrement DEF LoadCount, StoreCount, InMain, Working, Shutdown,
     InHandler, Alive, ExactInv, InFlight
<1>7. CASE FatherDies
  BY <1>7 DEF FatherDies, Working, Alive, ExactInv
<1>8. CASE WaitFails \/ SigintKills \/ SigintExit \/ ForkFails \/ FatherReset
  BY <1>7, <1>8 DEF WaitFails, SigintKills, SigintExit, ForkFails, FatherReset
<1>9. CASE DeliverSigint
  <2>1. 1 \in DOMAIN frames' /\ frames'[1] = "int"
    BY <1>9 DEF DeliverSigint
  <2> QED
    BY <2>1 DEF Working, Shutdown, InHandler, ExactInv
<1>10. CASE SigintWait
  BY <1>10, <1>a DEF SigintWait, Handling, Working, Shutdown, InHandler, ExactInv
<1>11. CASE DeliverSigchld \/ HandlerReturn
  <2>1. Working => frames' = frames \/ pc \notin {"test", "wait", "unblock"}
    BY <1>11 DEF DeliverSigchld, HandlerReturn, Handling, ExactInv
  <2> QED
    BY <1>11, <1>a, <2>1, ExactIdle DEF DeliverSigchld, HandlerReturn, ExactInv
<1>12. ASSUME NEW p \in Pids, ChildAccept(p) \/ ChildStart(p) \/ TaskReturns(p) \/ ChildReset(p)
       PROVE  ExactInv'
  <2>1. Working' => role' = role
    BY <1>12 DEF ChildAccept, ChildStart, TaskReturns, ChildReset, Terminate, Working, Alive
  <2> QED
    BY <1>12, <1>a, <2>1, ExactIdle DEF ChildAccept, ChildStart, TaskReturns, ChildReset, ExactInv
<1>13. CASE SendSigint \/ TerminalSigint \/ UNCHANGED vars \/ \E c \in Clients : Connect(c)
  <2>1. role' = role
    BY <1>13 DEF SendSigint, TerminalSigint, Terminate, Connect, vars
  <2> QED
    BY <1>13, <1>a, <2>1, ExactIdle DEF SendSigint, TerminalSigint, Connect, vars
<1> QED
  BY <1>1, <1>2, <1>3, <1>4, <1>5, <1>6, <1>8, <1>9, <1>10, <1>11, <1>12, <1>13
     DEF Next, FatherStep, SigchldStep, SigintStep

(* The count and what it rests on, under the assumptions of the theorems below.*)
LEMMA ExactInvariant ==
  ASSUME NoWorkerDeath, AtomicIncrement
  PROVE  Spec => [](TypeOK /\ CapacityInv /\ ExactInv)
<1>1. Init => CapacityInv
  BY CapacityInit
<1>2. Init => ExactInv
  <2> SUFFICES ASSUME Init PROVE ExactInv
    OBVIOUS
  <2>1. Ocpc = {} /\ Cardinality({}) = 0
    BY FS_EmptySet DEF Init, Ocpc
  <2> QED
    BY <2>1 DEF Init, ExactInv, InFlight
<1>3. TypeOK /\ TypeOK' /\ CapacityInv /\ [Next]_vars => CapacityInv'
  BY CapacityStep, NoWorkerDeath
<1>4. TypeOK /\ CapacityInv /\ ExactInv /\ [Next]_vars => ExactInv'
  BY ExactStep, AtomicIncrement
<1> QED
  BY <1>1, <1>2, <1>3, <1>4, TypeCorrect, PTL DEF Spec

(* With an uninterruptible increment numChildren_ocpc is the number of OCPC    *)
(* children at every moment of a working father's life, however fork, wait,    *)
(* SIGCHLD and the end of sessions interleave.                                 *)
THEOREM CountExact ==
  ASSUME NoWorkerDeath, AtomicIncrement
  PROVE  Spec => []CounterExact
<1>1. ExactInv => CounterExact
  BY DEF ExactInv, CounterExact, Working
<1> QED
  BY <1>1, ExactInvariant, NoWorkerDeath, AtomicIncrement, PTL

(* Then a full father never waits in vain: the wait(NULL) of line 217 does not *)
(* fail with ECHILD and end the server, if it may have children at all.        *)
THEOREM WaitSafe ==
  ASSUME NoWorkerDeath, AtomicIncrement, MaxChildCount # 0
  PROVE  Spec => []WaitHasChild
<1>1. TypeOK /\ ExactInv => WaitHasChild
  <2> SUFFICES ASSUME TypeOK, ExactInv, InMain("wait") PROVE Children # {}
    BY DEF WaitHasChild
  <2>1. Working
    BY DEF InMain, Working, Alive, Shutdown, InHandler
  <2>2. Cardinality(Ocpc) # 0
    BY <2>1, MaxChildCount # 0, CountAssumption DEF ExactInv, InMain, InFlight
  <2>3. Ocpc # {}
    BY <2>2, FS_EmptySet
  <2> QED
    BY <2>3 DEF Ocpc, Children
<1> QED
  BY <1>1, ExactInvariant, NoWorkerDeath, AtomicIncrement, PTL

-------------------------------------------------------------------------------
(* Who holds a connection.                                                     *)

Workers == {p \in Pids : role[p] = "preforked"}

\* The clients' children besides the one that shares the father's descriptor.
Others == {p \in Ocpc : conn[p] \notin {NoClient, sockfd_copy}}

\* A connection is open in a child that serves it, and in the father only between
\* his accept and his close.
HoldInv ==
  /\ \A p \in Pids : conn[p] # NoClient => at[p] \in {"start", "task"}
  /\ sockfd_copy # NoClient => pc \in {"fork", "load", "store", "task", "close"}

\* childpids lists every pre-forked child, and nobody else while the father works.
RosterInv ==
  /\ Len(childpids) <= PreforkCount
  /\ Workers \subseteq Preforked
  /\ Working => Preforked \subseteq Workers

\* A father that serves clients himself forks no children for them; one that does
\* not leaves room for the client he has accepted.
RoomInv ==
  /\ FatherServes => Ocpc = {} /\ pc \in {"prefork", "accept", "task", "close", "dead"}
  /\ Bounded /\ sockfd_copy # NoClient => Cardinality(Others) < MaxChildCount

AdmissionInv == HoldInv /\ RosterInv /\ RoomInv

(* How the roles change.  Nobody becomes a worker or an OCPC child but by      *)
(* PreforkChild and ForkChild, and while the father works no worker is reaped. *)
LEMMA RolesKept ==
  ASSUME TypeOK, CapacityInv, [Next]_vars, ~PreforkChild, ~ForkChild
  PROVE  /\ \A p \in Pids : role'[p] # "none" => role'[p] = role[p]
         /\ Working' => \A p \in Workers : role'[p] = "preforked"
         /\ childpids' = childpids
<1> USE DEF TypeOK, fatherVars, signalVars, processVars
<1>a. Working' => Working
  BY WorkingBefore
<1>1. CASE role' = role
  <2>1. childpids' = childpids
    BY <1>1 DEF Next, FatherStep, SigchldStep, SigintStep, InstallSigint, InstallSigchld,
       BlockSigchld, TestCount, WaitChild, WaitFails, UnblockSigchld, FatherAccept, LoadCount,
       StoreCount, CloseCopy, FatherTaskReturns, DeliverSigchld, HandlerReap, HandlerReturn,
       SigintKills, DeliverSigint, SigintWait, SigintExit, ChildAccept, ChildStart, TaskReturns,
       Connect, ForkFails, FatherReset, ChildReset, SendSigint, TerminalSigint, FatherDies, vars
  <2> QED
    BY <1>1, <2>1 DEF Workers
<1>2. CASE WaitChild \/ HandlerReap \/ SigintWait
  <2> PICK p \in Zombies : Reap(p)
    BY <1>2 DEF WaitChild, HandlerReap, SigintWait
  <2>1. CASE Working /\ role[p] = "ocpc"
    BY <1>2, <2>1 DEF WaitChild, HandlerReap, SigintWait, Reap, Zombies, Workers
  <2>2. CASE ~Working
    BY <1>2, <1>a, <2>2 DEF WaitChild, HandlerReap, SigintWait, Reap, Zombies
  <2> QED
    BY <2>1, <2>2 DEF CapacityInv, WorkingInv
<1>3. CASE FatherDies
  BY <1>3 DEF FatherDies, Working, Alive
<1>4. ASSUME NEW S, Terminate(S), childpids' = childpids, pc' = pc
      PROVE  /\ \A p \in Pids : role'[p] # "none" => role'[p] = role[p]
             /\ Working' => \A p \in Workers : role'[p] = "preforked"
  BY <1>4 DEF Terminate, Working, Alive, Workers
<1>5. CASE DeliverSigint \/ TerminalSigint
           \/ \E p \in Pids : (TaskReturns(p) /\ role[p] = "ocpc") \/ ChildReset(p)
  BY <1>4, <1>5 DEF DeliverSigint, TerminalSigint, TaskReturns, ChildReset
<1>6. \/ role' = role \/ WaitChild \/ HandlerReap \/ SigintWait \/ FatherDies
      \/ DeliverSigint \/ TerminalSigint
      \/ \E p \in Pids : (TaskReturns(p) /\ role[p] = "ocpc") \/ ChildReset(p)
  BY DEF Next, FatherStep, SigchldStep, SigintStep, InstallSigint, InstallSigchld,
     BlockSigchld, TestCount, WaitFails, UnblockSigchld, FatherAccept, LoadCount,
     StoreCount, CloseCopy, FatherTaskReturns, DeliverSigchld, HandlerReturn,
     SigintKills, SigintExit, ChildAccept, ChildStart, TaskReturns,
     Connect, ForkFails, FatherReset, SendSigint, vars
<1> QED
  BY <1>1, <1>2, <1>3, <1>5, <1>6 DEF DeliverSigint, TerminalSigint, TaskReturns, ChildReset,
     FatherDies

(* How connections change: they are handed over by accept and fork only.       *)
LEMMA ConnectionsKept ==
  ASSUME TypeOK, [Next]_vars, ~FatherAccept, ~ForkChild, \A p \in Pids : ~ChildAccept(p)
  PROVE  /\ \A p \in Pids : conn'[p] \in {conn[p], NoClient}
         /\ sockfd_copy' \in {sockfd_copy, NoClient}
         /\ backlog' = backlog \/ \E c \in Clients : Connect(c)
<1> USE DEF TypeOK, fatherVars, signalVars, processVars
<1>1. ASSUME NEW S, Terminate(S) PROVE \A p \in Pids : conn'[p] \in {conn[p], NoClient}
  BY <1>1 DEF Terminate
<1>2. CASE FatherDies
  BY <1>2 DEF FatherDies
<1>3. CASE DeliverSigint \/ TerminalSigint \/ \E p \in Pids : TaskReturns(p) \/ ChildReset(p)
  BY <1>1, <1>3 DEF DeliverSigint, TerminalSigint, TaskReturns, ChildReset
<1>4. CASE CloseCopy
  BY <1>4 DEF CloseCopy
<1>5. CASE conn' = conn /\ sockfd_copy' = sockfd_copy /\ backlog' = backlog
  BY <1>5
<1>6. CASE \E c \in Clients : Connect(c)
  BY <1>6 DEF Connect
<1>7. CASE PreforkChild \/ InstallSigint \/ InstallSigchld \/ BlockSigchld \/ TestCount \/ WaitChild
           \/ UnblockSigchld \/ LoadCount \/ StoreCount \/ FatherTaskReturns
  BY <1>5, <1>7 DEF PreforkChild, InstallSigint, InstallSigchld, BlockSigchld, TestCount, WaitChild,
     UnblockSigchld, LoadCount, StoreCount, FatherTaskReturns
<1>8. CASE DeliverSigchld \/ HandlerReap \/ HandlerReturn \/ SigintWait \/ SendSigint
           \/ UNCHANGED vars \/ \E p \in Pids : ChildStart(p)
  BY <1>5, <1>8 DEF DeliverSigchld, HandlerReap, HandlerReturn, SigintWait, SendSigint, ChildStart, vars
<1>9. CASE WaitFails \/ SigintKills \/ SigintExit \/ ForkFails \/ FatherReset
  BY <1>2, <1>9 DEF WaitFails, SigintKills, SigintExit, ForkFails, FatherReset
<1> QED
  BY <1>3, <1>4, <1>6, <1>7, <1>8, <1>9 DEF Next, FatherStep, SigchldStep, SigintStep

(* The roster of the pre-forked children.                                      *)
LEMMA PreforkCountType == ASSUME TypeOK PROVE PreforkCount \in Nat
  BY EntryAssumption, CountAssumption DEF TypeOK, PreforkCount

LEMMA RosterStep ==
  ASSUME TypeOK, CapacityInv, RosterInv, [Next]_vars
  PROVE  RosterInv'
<1> USE DEF TypeOK, fatherVars, signalVars, processVars
<1>a. Working' => Working
  BY WorkingBefore
<1>e. PreforkCount' = PreforkCount
  BY EntryFrozen DEF PreforkCount
<1>1. CASE PreforkChild
  <2> PICK q \in Free : role' = [role EXCEPT ![q] = "preforked"] /\ childpids' = Append(childpids, q)
    BY <1>1 DEF PreforkChild
  <2>1. q \in Pids /\ childpids \in Seq(Pids) /\ Len(childpids) < PreforkCount
    BY <1>1 DEF PreforkChild, Free
  <2>2. Len(childpids') <= PreforkCount /\ Preforked' = Preforked \cup {q}
    <3>1. Preforked = Elements(childpids) /\ Preforked' = Elements(childpids')
      BY DEF Preforked, Elements
    <3> QED
      BY <2>1, <3>1, Joined, PreforkCountType
  <2>3. Workers' = Workers \cup {q}
    BY DEF Workers, Free
  <2> QED
    BY <1>a, <1>e, <2>2, <2>3 DEF RosterInv
<1>2. CASE ForkChild
  <2> PICK q \in Free : role' = [role EXCEPT ![q] = "ocpc"]
    BY <1>2 DEF ForkChild
  <2>1. Workers' = Workers /\ Preforked' = Preforked /\ childpids' = childpids
    BY <1>2 DEF ForkChild, Workers, Preforked, Free
  <2> QED
    BY <1>a, <1>e, <2>1 DEF RosterInv
<1>3. CASE ~PreforkChild /\ ~ForkChild
  <2>1. childpids' = childpids /\ Workers' \subseteq Workers
        /\ (Working' => Workers \subseteq Workers')
    BY <1>3, RolesKept DEF Workers
  <2> QED
    BY <1>a, <1>e, <2>1 DEF RosterInv, Preforked
<1> QED
  BY <1>1, <1>2, <1>3

(* Where a connection can be open.                                             *)
LEMMA HoldStep ==
  ASSUME TypeOK, CapacityInv, HoldInv, [Next]_vars
  PROVE  HoldInv'
<1> USE DEF TypeOK, fatherVars, signalVars, processVars, InMain
<1>1. CASE PreforkChild
  BY <1>1 DEF PreforkChild, HoldInv, Free, CapacityInv
<1>2. CASE InstallSigint \/ InstallSigchld \/ BlockSigchld \/ TestCount \/ UnblockSigchld
           \/ FatherAccept \/ LoadCount \/ StoreCount \/ FatherTaskReturns \/ CloseCopy
  BY <1>2 DEF InstallSigint, InstallSigchld, BlockSigchld, TestCount, UnblockSigchld,
     FatherAccept, LoadCount, StoreCount, FatherTaskReturns, CloseCopy, HoldInv
<1>3. CASE WaitChild \/ HandlerReap \/ SigintWait
  <2> PICK p \in Zombies : Reap(p)
    BY <1>3 DEF WaitChild, HandlerReap, SigintWait
  <2>1. p \in Pids /\ conn[p] = NoClient
    BY DEF Zombies, HoldInv
  <2> QED
    BY <1>3, <2>1 DEF WaitChild, HandlerReap, SigintWait, Reap, HoldInv
<1>4. CASE ForkChild
  BY <1>4 DEF ForkChild, HoldInv, Free
<1>5. CASE DeliverSigchld \/ HandlerReturn \/ SendSigint \/ UNCHANGED vars
           \/ \E c \in Clients : Connect(c)
  BY <1>5 DEF DeliverSigchld, HandlerReturn, SendSigint, vars, Connect, HoldInv
<1>6. ASSUME NEW S, Terminate(S), sockfd_copy' = sockfd_copy, pc' = pc PROVE HoldInv'
  BY <1>6, ClientAssumption DEF Terminate, HoldInv
<1>7. CASE DeliverSigint \/ TerminalSigint
  BY <1>6, <1>7 DEF DeliverSigint, TerminalSigint
<1>8. CASE FatherDies
  BY <1>8 DEF FatherDies, HoldInv, Zombies
<1>9. CASE WaitFails \/ SigintKills \/ SigintExit \/ ForkFails \/ FatherReset
  BY <1>8, <1>9 DEF WaitFails, SigintKills, SigintExit, ForkFails, FatherReset
<1>10. ASSUME NEW p \in Pids, ChildAccept(p) \/ ChildStart(p) PROVE HoldInv'
  BY <1>10 DEF ChildAccept, ChildStart, HoldInv
<1>11. ASSUME NEW p \in Pids, TaskReturns(p) \/ ChildReset(p) PROVE HoldInv'
  <2>1. CASE ChildReset(p) \/ role[p] = "ocpc"
    BY <1>6, <1>11, <2>1 DEF TaskReturns, ChildReset
  <2>2. CASE TaskReturns(p) /\ role[p] # "ocpc"
    BY <2>2 DEF TaskReturns, HoldInv
  <2> QED
    BY <1>11, <2>1, <2>2
<1> QED
  BY <1>1, <1>2, <1>3, <1>4, <1>5, <1>7, <1>9, <1>10, <1>11
     DEF Next, FatherStep, SigchldStep, SigintStep

(* The father's own location decides what he can do next.                      *)
LEMMA ServingFather ==
  ASSUME TypeOK, CapacityInv, RoomInv, [Next]_vars, FatherServes
  PROVE  ~ForkChild /\ pc' \in {"prefork", "accept", "task", "close", "dead"}
<1>1. pc \in {"prefork", "accept", "task", "close", "dead"} /\ ~Bounded /\ ~ForkChild
  BY EntryAssumption DEF RoomInv, FatherServes, Bounded, TypeOK, ForkChild, InMain
<1>2. CASE FatherDies
  BY <1>1, <1>2 DEF FatherDies
<1>3. CASE WaitFails \/ SigintKills \/ SigintExit \/ ForkFails \/ FatherReset
  BY <1>2, <1>3 DEF WaitFails, SigintKills, SigintExit, ForkFails, FatherReset
<1>4. CASE pc' = pc
  BY <1>1, <1>4
<1>5. CASE PreforkChild \/ InstallSigint \/ InstallSigchld \/ BlockSigchld \/ TestCount \/ WaitChild
           \/ UnblockSigchld \/ FatherAccept \/ ForkChild \/ LoadCount \/ StoreCount
           \/ CloseCopy \/ FatherTaskReturns
  BY <1>1, <1>5, FatherServes DEF PreforkChild, InstallSigint, InstallSigchld, BlockSigchld, TestCount,
     WaitChild, UnblockSigchld, FatherAccept, ForkChild, LoadCount, StoreCount, CloseCopy,
     FatherTaskReturns, InMain, LoopHead, fatherVars
<1>6. CASE DeliverSigchld \/ HandlerReap \/ HandlerReturn \/ DeliverSigint \/ SigintWait
           \/ (\E p \in Pids : ChildAccept(p) \/ ChildStart(p) \/ TaskReturns(p) \/ ChildReset(p))
           \/ (\E c \in Clients : Connect(c)) \/ SendSigint \/ TerminalSigint \/ UNCHANGED vars
  BY <1>4, <1>6 DEF DeliverSigchld, HandlerReap, HandlerReturn, DeliverSigint, SigintWait,
     ChildAccept, ChildStart, TaskReturns, ChildReset, Connect, SendSigint, TerminalSigint,
     fatherVars, vars
<1> QED
  BY <1>3, <1>5, <1>6 DEF Next, FatherStep, SigchldStep, SigintStep

(* A client accepted by the father of OCPCMax or MixedMax finds room, and      *)
(* nobody is added to the others until the father has closed his copy.         *)
LEMMA OthersCount ==
  ASSUME Others' \subseteq Others \/ Others' \subseteq Ocpc
  PROVE  /\ Cardinality(Others') \in Nat /\ Cardinality(Others) \in Nat
         /\ Others' \subseteq Others => Cardinality(Others') <= Cardinality(Others)
         /\ Others' \subseteq Ocpc => Cardinality(Others') <= Cardinality(Ocpc)
<1>1. Others \subseteq Ocpc /\ Others' \subseteq Ocpc'
  BY DEF Others
<1> QED
  BY <1>1, OcpcFinite, FS_Subset, FS_CardinalityType

LEMMA RoomStep ==
  ASSUME TypeOK, TypeOK', CapacityInv, RoomInv, [Next]_vars
  PROVE  RoomInv'
<1> USE DEF TypeOK
<1>e. FatherServes' = FatherServes /\ Bounded' = Bounded
  BY EntryFrozen DEF FatherServes, Bounded
<1>1. FatherServes => Ocpc' = {} /\ pc' \in {"prefork", "accept", "task", "close", "dead"}
  <2> SUFFICES ASSUME FatherServes PROVE Ocpc' = {} /\ pc' \in {"prefork", "accept", "task", "close", "dead"}
    OBVIOUS
  <2>1. ~ForkChild /\ pc' \in {"prefork", "accept", "task", "close", "dead"}
    BY ServingFather
  <2>2. \A p \in Pids : role'[p] = "ocpc" => role[p] = "ocpc"
    <3>1. CASE PreforkChild
      BY <3>1 DEF PreforkChild
    <3>2. CASE ~PreforkChild
      BY <2>1, <3>2, RolesKept
    <3> QED
      BY <3>1, <3>2
  <2> QED
    BY <2>1, <2>2 DEF RoomInv, Ocpc
<1>2. Bounded /\ sockfd_copy' # NoClient => Cardinality(Others') < MaxChildCount
  <2> SUFFICES ASSUME Bounded, sockfd_copy' # NoClient PROVE Cardinality(Others') < MaxChildCount
    OBVIOUS
  <2>1. CASE FatherAccept
    <3>1. Ocpc' = Ocpc /\ Working /\ pc = "accept"
      BY <2>1 DEF FatherAccept, InMain, Ocpc, processVars, Working, Alive, Shutdown, InHandler
    <3>2. Cardinality(Ocpc) < MaxChildCount
      BY <3>1, OcpcFinite, CountAssumption DEF CapacityInv, WorkingInv, InFlight
    <3>3. Others' \subseteq Ocpc
      BY <3>1 DEF Others
    <3> QED
      BY <3>2, <3>3, OthersCount, OcpcFinite, CountAssumption
  <2>2. CASE ~FatherAccept
    <3>1. sockfd_copy' = sockfd_copy
      <4>1. CASE ForkChild
        BY <4>1 DEF ForkChild
      <4>2. CASE \E p \in Pids : ChildAccept(p)
        BY <4>2 DEF ChildAccept, fatherVars
      <4> QED
        BY <2>2, <4>1, <4>2, ConnectionsKept
    <3>2. Others' \subseteq Others
      <4>1. CASE ForkChild
        BY <3>1, <4>1 DEF ForkChild, Others, Ocpc, Free
      <4>2. CASE PreforkChild
        BY <3>1, <4>2 DEF PreforkChild, Others, Ocpc, Free
      <4>3. CASE ~ForkChild /\ ~PreforkChild
        <5>1. \A p \in Pids : role'[p] = "ocpc" => role[p] = "ocpc"
          BY <4>3, RolesKept
        <5>2. \A p \in Pids : role[p] = "ocpc" => conn'[p] \in {conn[p], NoClient}
          <6>1. CASE \E p \in Pids : ChildAccept(p)
            BY <6>1 DEF ChildAccept
          <6> QED
            BY <2>2, <4>3, <6>1, ConnectionsKept
        <5> QED
          BY <3>1, <5>1, <5>2 DEF Others, Ocpc
      <4> QED
        BY <4>1, <4>2, <4>3
    <3> QED
      BY <3>1, <3>2, OthersCount, CountAssumption DEF RoomInv
  <2> QED
    BY <2>1, <2>2
<1> QED
  BY <1>e, <1>1, <1>2 DEF RoomInv

(* The invariant of admission: from the first state on, in every step.         *)
LEMMA AdmissionInvInit == Init => AdmissionInv
<1> SUFFICES ASSUME Init PROVE AdmissionInv
  OBVIOUS
<1>1. TypeOK
  BY TypeCorrectInit
<1>2. Ocpc = {} /\ Workers = {} /\ Preforked = {} /\ Len(childpids) = 0
  <2>1. Preforked = Elements(childpids)
    BY DEF Preforked, Elements
  <2> QED
    BY <2>1, Deserted DEF Init, Ocpc, Workers
<1>3. HoldInv /\ RosterInv
  BY <1>1, <1>2, PreforkCountType DEF Init, HoldInv, RosterInv
<1>4. RoomInv
  BY <1>2, EntryAssumption DEF Init, RoomInv, FatherServes, Preforks
<1> QED
  BY <1>3, <1>4 DEF AdmissionInv

LEMMA AdmissionInvariant ==
  ASSUME NoWorkerDeath
  PROVE  Spec => [](TypeOK /\ CapacityInv /\ AdmissionInv)
<1>1. Init => CapacityInv /\ AdmissionInv
  BY CapacityInit, AdmissionInvInit
<1>2. TypeOK /\ TypeOK' /\ CapacityInv /\ [Next]_vars => CapacityInv'
  BY CapacityStep, NoWorkerDeath
<1>3. TypeOK /\ TypeOK' /\ CapacityInv /\ AdmissionInv /\ [Next]_vars => AdmissionInv'
  BY HoldStep, RosterStep, RoomStep DEF AdmissionInv
<1> QED
  BY <1>1, <1>2, <1>3, TypeCorrect, PTL DEF Spec

-------------------------------------------------------------------------------
(* The SIGTERMs of sigintHandler go to the pids in childpids, and while the    *)
(* father works these are its workers: no pid there was reaped and given to an *)
(* OCPC child, whose client would be cut off.                                  *)
THEOREM ShutdownSpares ==
  ASSUME NoWorkerDeath
  PROVE  Spec => ShutdownSparesOcpc
<1>1. ASSUME TypeOK, AdmissionInv, [Next]_vars, ~Shutdown, Shutdown', NEW p \in Ocpc
      PROVE  at'[p] = at[p]
  <2> USE DEF TypeOK, fatherVars, signalVars, processVars, Shutdown, InHandler
  <2>1. CASE DeliverSigint
    <3>1. Working
      BY <1>1, <2>1 DEF DeliverSigint, SigintCaught, Working
    <3>2. p \notin Preforked
      BY <1>1, <3>1 DEF AdmissionInv, RosterInv, Workers, Ocpc
    <3> QED
      BY <1>1, <2>1, <3>2 DEF DeliverSigint, Terminate, Ocpc
  <2>2. CASE DeliverSigchld \/ HandlerReturn
    BY <2>2 DEF DeliverSigchld, HandlerReturn
  <2>3. CASE FatherDies
    <3>1. frames' = <<>>
      BY <2>3 DEF FatherDies
    <3> QED
      BY <1>1, <3>1
  <2>4. CASE WaitFails \/ SigintKills \/ SigintExit \/ ForkFails \/ FatherReset
    BY <2>3, <2>4 DEF WaitFails, SigintKills, SigintExit, ForkFails, FatherReset
  <2>5. CASE frames' = frames
    BY <1>1, <2>5
  <2>6. frames' = frames \/ DeliverSigint \/ DeliverSigchld \/ HandlerReturn
        \/ WaitFails \/ SigintKills \/ SigintExit \/ ForkFails \/ FatherReset
    BY <1>1 DEF Next, FatherStep, SigchldStep, SigintStep, PreforkChild, InstallSigint,
       InstallSigchld, BlockSigchld, TestCount, WaitChild, UnblockSigchld, FatherAccept,
       ForkChild, LoadCount, StoreCount, CloseCopy, FatherTaskReturns, HandlerReap, SigintWait,
       ChildAccept, ChildStart, TaskReturns, Connect, ChildReset, SendSigint, TerminalSigint, vars
  <2> QED
    BY <2>1, <2>2, <2>4, <2>5, <2>6
<1>2. TypeOK /\ AdmissionInv /\ [Next]_vars
        => [(~Shutdown /\ Shutdown') => \A p \in Ocpc : at'[p] = at[p]]_vars
  BY <1>1
<1> QED
  BY <1>2, AdmissionInvariant, NoWorkerDeath, PTL DEF Spec, ShutdownSparesOcpc

-------------------------------------------------------------------------------
(* The refinement.  How many clients are held, and that another one may be.    *)

(* There are no more workers than the fork loop was asked for.                 *)
LEMMA WorkersCount ==
  ASSUME TypeOK, RosterInv
  PROVE  IsFiniteSet(Workers) /\ Cardinality(Workers) \in Nat /\ Cardinality(Workers) <= PreforkCount
<1>1. IsFiniteSet(Workers) /\ Cardinality(Workers) \in Nat
  BY PidAssumption, FS_Subset, FS_CardinalityType DEF Workers
<1>2. Preforked = Elements(childpids)
  BY DEF Preforked, Elements
<1>3. IsFiniteSet(Preforked) /\ Cardinality(Preforked) <= Len(childpids) /\ Len(childpids) \in Nat
  BY <1>2, ElementsCount DEF TypeOK
<1>4. Cardinality(Preforked) \in Nat /\ Cardinality(Workers) <= Cardinality(Preforked)
  BY <1>3, FS_Subset, FS_CardinalityType DEF RosterInv
<1> QED
  BY <1>1, <1>3, <1>4, PreforkCountType DEF RosterInv

(* The clients held are not more than the processes that may hold one.         *)
LEMMA HeldCount ==
  ASSUME NEW S, NEW T, NEW U, IsFiniteSet(S), IsFiniteSet(T), IsFiniteSet(U),
         Held \subseteq {conn[p] : p \in S} \cup {conn[p] : p \in T} \cup U
  PROVE  /\ Cardinality(Held) \in Nat /\ Cardinality(S) \in Nat
         /\ Cardinality(T) \in Nat /\ Cardinality(U) \in Nat
         /\ Cardinality(Held) <= Cardinality(S) + Cardinality(T) + Cardinality(U)
<1> DEFINE A == {conn[p] : p \in S}
           B == {conn[p] : p \in T}
<1>1. IsFiniteSet(A) /\ Cardinality(A) <= Cardinality(S)
      /\ IsFiniteSet(B) /\ Cardinality(B) <= Cardinality(T)
  BY ImageCount
<1>2. /\ IsFiniteSet(A \cup B) /\ Cardinality(A \cup B) <= Cardinality(A) + Cardinality(B)
      /\ Cardinality(A \cup B) \in Nat /\ Cardinality(A) \in Nat /\ Cardinality(B) \in Nat
  BY <1>1, UnionCount
<1>3. /\ IsFiniteSet((A \cup B) \cup U)
      /\ Cardinality((A \cup B) \cup U) <= Cardinality(A \cup B) + Cardinality(U)
      /\ Cardinality((A \cup B) \cup U) \in Nat
  BY <1>2, UnionCount
<1>4. IsFiniteSet(Held) /\ Cardinality(Held) <= Cardinality((A \cup B) \cup U)
  BY <1>3, FS_Subset
<1>5. Cardinality(Held) \in Nat /\ Cardinality(S) \in Nat /\ Cardinality(T) \in Nat /\ Cardinality(U) \in Nat
  BY <1>4, FS_CardinalityType
<1> HIDE DEF A, B
<1> QED
  BY <1>1, <1>2, <1>3, <1>4, <1>5

(* Every holder is a worker, an OCPC child or the father.                      *)
LEMMA Holders ==
  ASSUME TypeOK, CapacityInv, AdmissionInv
  PROVE  /\ \A p \in Pids : conn[p] # NoClient => p \in Workers \cup Ocpc
         /\ Held \subseteq {conn[p] : p \in {q \in Workers : conn[q] # NoClient}}
                            \cup {conn[p] : p \in Others} \cup ({sockfd_copy} \ {NoClient})
<1>1. ASSUME NEW p \in Pids, conn[p] # NoClient PROVE p \in Workers \cup Ocpc
  BY <1>1 DEF TypeOK, CapacityInv, AdmissionInv, HoldInv, Workers, Ocpc
<1> QED
  BY <1>1 DEF Held, Others

(* Where the father accepts there is room for one client more ...              *)
LEMMA FatherHasRoom ==
  ASSUME TypeOK, CapacityInv, AdmissionInv, FatherAccept
  PROVE  Cardinality(Held) < ServingCapacity
<1>1. sockfd_copy = NoClient /\ pc = "accept" /\ Working
  BY DEF FatherAccept, InMain, AdmissionInv, HoldInv, Working, Alive, Shutdown, InHandler
<1>2. IsFiniteSet(Workers) /\ Cardinality(Workers) \in Nat /\ Cardinality(Workers) <= PreforkCount
  BY WorkersCount DEF AdmissionInv
<1>3. IsFiniteSet(Ocpc) /\ Cardinality(Ocpc) \in Nat
  BY OcpcFinite
<1>4. Cardinality(Held) \in Nat /\ Cardinality(Held) <= Cardinality(Workers) + Cardinality(Ocpc)
  <2>1. Held \subseteq {conn[p] : p \in Workers} \cup {conn[p] : p \in Ocpc} \cup {}
    BY <1>1, Holders DEF Held
  <2>2. IsFiniteSet({}) /\ Cardinality({}) = 0
    BY FS_EmptySet
  <2>3. /\ Cardinality(Held) \in Nat
        /\ Cardinality(Held) <= Cardinality(Workers) + Cardinality(Ocpc) + Cardinality({})
    BY <1>2, <1>3, <2>1, <2>2, HeldCount
  <2> QED
    BY <1>2, <1>3, <2>2, <2>3
<1>5. Cardinality(Held) <= Cardinality(Pids) /\ Cardinality(Pids) \in Nat
  <2>1. Held \subseteq {conn[p] : p \in Pids} \cup {conn[p] : p \in {}} \cup {}
    BY <1>1 DEF Held
  <2> QED
    BY <2>1, HeldCount, PidAssumption, FS_EmptySet
<1>6. ~Preforks => Cardinality(Workers) = 0
  <2>1. ~Preforks => Workers = {}
    BY DEF CapacityInv, Workers
  <2> QED
    BY <2>1, FS_EmptySet
<1>7. FatherServes => Cardinality(Ocpc) = 0
  BY FS_EmptySet DEF AdmissionInv, RoomInv
<1>8. Bounded => Cardinality(Ocpc) < MaxChildCount
  BY <1>1, <1>3, CountAssumption DEF TypeOK, CapacityInv, WorkingInv, InFlight
<1> QED
  BY <1>2, <1>3, <1>4, <1>5, <1>6, <1>7, <1>8, EntryAssumption, CountAssumption
     DEF TypeOK, ServingCapacity, PreforkCount, Preforks, FatherServes, Bounded

(* ... and where a worker does, father and OCPC children included.             *)
LEMMA WorkerHasRoom ==
  ASSUME TypeOK, CapacityInv, AdmissionInv, NEW p \in Pids, ChildAccept(p)
  PROVE  Cardinality(Held) < ServingCapacity
<1> DEFINE W == Workers \ {p}
           U == {sockfd_copy} \ {NoClient}
           T == IF sockfd_copy = NoClient THEN Ocpc ELSE Others
<1>1. p \in Workers /\ conn[p] = NoClient /\ Preforks
  BY DEF ChildAccept, Workers, AdmissionInv, HoldInv, CapacityInv
<1>2. /\ IsFiniteSet(Workers) /\ Cardinality(Workers) \in Nat /\ Cardinality(Workers) <= PreforkCount
      /\ IsFiniteSet(W) /\ Cardinality(W) = Cardinality(Workers) - 1
  BY <1>1, WorkersCount, FS_RemoveElement DEF AdmissionInv
<1>3. IsFiniteSet(Ocpc) /\ Cardinality(Ocpc) \in Nat /\ Others \subseteq Ocpc
  BY OcpcFinite DEF Others
<1>4. IsFiniteSet(Others) /\ Cardinality(Others) \in Nat /\ Cardinality(Others) <= Cardinality(Ocpc)
  BY <1>3, FS_Subset, FS_CardinalityType
<1>5. IsFiniteSet(U) /\ Cardinality(U) = IF sockfd_copy = NoClient THEN 0 ELSE 1
  <2>1. CASE sockfd_copy = NoClient
    <3>1. U = {}
      BY <2>1
    <3> QED
      BY <2>1, <3>1, FS_EmptySet
  <2>2. CASE sockfd_copy # NoClient
    <3>1. U = {sockfd_copy}
      BY <2>2
    <3> QED
      BY <2>2, <3>1, FS_Singleton
  <2> QED
    BY <2>1, <2>2
<1>6. IsFiniteSet(T) /\ Cardinality(T) \in Nat
  BY <1>3, <1>4
<1>7. Cardinality(Held) \in Nat /\ Cardinality(Held) <= Cardinality(W) + Cardinality(T) + Cardinality(U)
  <2>1. Held \subseteq {conn[q] : q \in W} \cup {conn[q] : q \in T} \cup U
    <3>1. {conn[q] : q \in {r \in Workers : conn[r] # NoClient}} \subseteq {conn[q] : q \in W}
      BY <1>1
    <3>2. {conn[q] : q \in Others} \subseteq {conn[q] : q \in T}
      BY <1>3
    <3> QED
      BY <3>1, <3>2, Holders
  <2> HIDE DEF W, T, U
  <2> QED
    BY <1>2, <1>5, <1>6, <2>1, HeldCount
<1>8. Cardinality(Held) < Cardinality(Pids) + 1 /\ Cardinality(Pids) \in Nat
  <2>1. Held \subseteq {conn[q] : q \in Pids \ {p}} \cup {conn[q] : q \in {}} \cup {sockfd_copy}
    BY <1>1 DEF Held
  <2>2. /\ IsFiniteSet(Pids \ {p}) /\ Cardinality(Pids \ {p}) = Cardinality(Pids) - 1
        /\ Cardinality(Pids) \in Nat
    BY PidAssumption, FS_RemoveElement, FS_CardinalityType
  <2>3. IsFiniteSet({}) /\ Cardinality({}) = 0 /\ IsFiniteSet({sockfd_copy}) /\ Cardinality({sockfd_copy}) = 1
    BY FS_EmptySet, FS_Singleton
  <2>4. /\ Cardinality(Held) \in Nat
        /\ Cardinality(Held) <= Cardinality(Pids \ {p}) + Cardinality({}) + Cardinality({sockfd_copy})
    BY <2>1, <2>2, <2>3, HeldCount
  <2> QED
    BY <2>2, <2>3, <2>4
<1>9. FatherServes => Cardinality(Ocpc) = 0
  BY FS_EmptySet DEF AdmissionInv, RoomInv
<1>10. Bounded => /\ Cardinality(Ocpc) <= MaxChildCount
                  /\ sockfd_copy # NoClient => Cardinality(Others) < MaxChildCount
  BY DEF CapacityInv, OcpcBound, AdmissionInv, RoomInv
<1> HIDE DEF W, U
<1>11. CASE entry = "Mixed"
  BY <1>8, <1>11 DEF ServingCapacity
<1>12. CASE entry = "Preforked"
  BY <1>2, <1>3, <1>4, <1>5, <1>7, <1>9, <1>12, CountAssumption
     DEF ServingCapacity, PreforkCount, FatherServes
<1>13. CASE entry = "MixedMax"
  BY <1>2, <1>3, <1>4, <1>5, <1>7, <1>10, <1>13, CountAssumption
     DEF ServingCapacity, PreforkCount, Bounded
<1> QED
  BY <1>1, <1>11, <1>12, <1>13 DEF Preforks

(* Connections that end, or are handed over from father to child.              *)
LEMMA HeldLess ==
  ASSUME [Next]_vars, backlog' = backlog, Held' \subseteq Held
  PROVE  [Admission!Next]_(Admission!vars)
<1>1. ServingCapacity' = ServingCapacity
  BY EntryFrozen DEF ServingCapacity
<1>2. CASE Held' = Held
  BY <1>1, <1>2 DEF Admission!vars
<1>3. CASE Held' # Held
  <2>1. Held \ Held' # {} /\ Held' = Held \ (Held \ Held')
    BY <1>3
  <2>2. Admission!Leave
    BY <1>1, <2>1 DEF Admission!Leave
  <2> QED
    BY <2>2 DEF Admission!Next
<1> QED
  BY <1>2, <1>3

(* A client that leaves the queue for a process with room for it.              *)
LEMMA HeldMore ==
  ASSUME [Next]_vars, backlog # <<>>, backlog' = Tail(backlog), Held' = Held \cup {Head(backlog)},
         Cardinality(Held) < ServingCapacity
  PROVE  Admission!Next
<1>1. ServingCapacity' = ServingCapacity
  BY EntryFrozen DEF ServingCapacity
<1>2. Admission!Cardinality(Held) = Cardinality(Held)
  BY DEF Admission!Cardinality, Cardinality, Admission!IsFiniteSet, IsFiniteSet
<1>3. Admission!Admit
  BY <1>1, <1>2 DEF Admission!Admit
<1> QED
  BY <1>3 DEF Admission!Next

(* Each step of a process is a step of BoundedAdmission or leaves what that    *)
(* sees alone.                                                                 *)
LEMMA StepAdmits ==
  ASSUME TypeOK, CapacityInv, AdmissionInv, [Next]_vars
  PROVE  [Admission!Next]_(Admission!vars)
<1> USE DEF TypeOK, fatherVars, signalVars, processVars
<1>1. CASE FatherAccept
  <2>1. sockfd_copy = NoClient /\ Head(backlog) \in Clients
    BY <1>1 DEF FatherAccept, InMain, AdmissionInv, HoldInv
  <2>2. Held' = Held \cup {Head(backlog)}
    BY <1>1, <2>1, ClientAssumption DEF FatherAccept, Held
  <2> QED
    BY <1>1, <2>2, FatherHasRoom, HeldMore DEF FatherAccept
<1>2. ASSUME NEW p \in Pids, ChildAccept(p) PROVE Admission!Next
  <2>1. conn[p] = NoClient /\ Head(backlog) \in Clients
    BY <1>2 DEF ChildAccept, AdmissionInv, HoldInv
  <2>2. Held' = Held \cup {Head(backlog)}
    BY <1>2, <2>1, ClientAssumption DEF ChildAccept, Held
  <2> QED
    BY <1>2, <2>2, WorkerHasRoom, HeldMore DEF ChildAccept
<1>3. CASE ForkChild
  <2>1. Held' \subseteq Held /\ backlog' = backlog
    BY <1>3 DEF ForkChild, Held
  <2> QED
    BY <2>1, HeldLess
<1>4. ASSUME NEW c \in Clients, Connect(c) PROVE Admission!Next
  <2>1. ServingCapacity' = ServingCapacity
    BY EntryFrozen DEF ServingCapacity
  <2>2. Held' = Held
    BY <1>4 DEF Connect, Held
  <2>3. Admission!Arrive(c)
    BY <1>4, <2>1, <2>2 DEF Connect, Admission!Arrive, Admission!Queued
  <2> QED
    BY <2>3 DEF Admission!Next
<1>5. CASE /\ ~FatherAccept /\ ~ForkChild /\ \A p \in Pids : ~ChildAccept(p)
           /\ \A c \in Clients : ~Connect(c)
  <2>1. Held' \subseteq Held /\ backlog' = backlog
    BY <1>5, ConnectionsKept DEF Held
  <2> QED
    BY <2>1, HeldLess
<1> QED
  BY <1>1, <1>2, <1>3, <1>4, <1>5

(* All six fork servers implement the bounded admission of mytcpserver.h: for  *)
(* every childCount, maxChildCount, number of processes and clients, and in    *)
(* both builds, clients are accepted in arrival order and no more are served   *)
(* at the same time than the entry point allows, provided no pre-forked child  *)
(* dies before the server is stopped.                                          *)
THEOREM ForkImplementsAdmission ==
  ASSUME NoWorkerDeath
  PROVE  Spec => AdmitsInOrder
<1>1. Init => Admission!Init
  <2> SUFFICES ASSUME Init PROVE Admission!Init
    OBVIOUS
  <2>1. Held = {} /\ backlog = <<>>
    BY DEF Init, Held
  <2>2. Cardinality(Pids) \in Nat
    BY PidAssumption, FS_CardinalityType
  <2>3. ServingCapacity \in Nat
    BY <2>2, EntryAssumption, CountAssumption DEF Init, ServingCapacity
  <2> QED
    BY <2>1, <2>3 DEF Admission!Init
<1>2. TypeOK /\ CapacityInv /\ AdmissionInv /\ [Next]_vars => [Admission!Next]_(Admission!vars)
  BY StepAdmits
<1> QED
  BY <1>1, <1>2, AdmissionInvariant, NoWorkerDeath, PTL DEF Spec, AdmitsInOrder, Admission!Spec
===============================================================================
