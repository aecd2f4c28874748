------------------------- MODULE BrokerSlotsProofs -------------------------
(***************************************************************************)
(* The broker implements ExecutionSlots: the initial state maps to the     *)
(* initial state of the slot allocator, and every step to one of its steps *)
(* or to none.  Only supervisors and the kernel begin and end executions;  *)
(* of the broker's own steps the allocator sees just the final report.     *)
(***************************************************************************)
EXTENDS BrokerProofs

\* What the slot allocator sees of an execution does not change.
Same(e, f) ==
    /\ SlotState(f) = SlotState(e)
    /\ f.workload = e.workload
    /\ e.workload => f.slot = e.slot

SameReports == \A d \in Conn : reply'[d] = "exited" <=> reply[d] = "exited"

Hidden == (\A d \in Conn : Same(exec[d], exec'[d])) /\ SameReports

LEMMA HiddenSteps ==
    ASSUME Hidden
    PROVE  UNCHANGED Slots!vars
<1>1. UNCHANGED [c \in Conn |-> SlotState(exec[c])]
  BY DEF Hidden, Same
<1>2. UNCHANGED [c \in Conn |-> IF exec[c].workload THEN exec[c].slot ELSE {}]
  BY DEF Hidden, Same
<1>3. UNCHANGED [c \in Conn |-> reply[c] = "exited"]
  BY DEF Hidden, SameReports
<1>4. QED
  BY <1>1, <1>2, <1>3 DEF Slots!vars

LEMMA SameReflexive ==
    ASSUME NEW e
    PROVE  Same(e, e)
BY DEF Same

LEMMA SameKill ==
    ASSUME NEW e \in ExecutionRecord
    PROVE  Same(e, KillHelper(e))
BY DEF Same, KillHelper, SlotState, ExecutionRecord

LEMMA SameLook ==
    ASSUME NEW e \in ExecutionRecord, NEW o \in NamespaceExited(e)
    PROVE  Same(e, o.exec) /\ Same(e, RemoveDirectory(o.exec))
<1>1. CASE o = [done |-> FALSE, exec |-> e] \/ o = [done |-> TRUE, exec |-> e]
  BY <1>1 DEF Same, RemoveDirectory, SlotState, ExecutionRecord
<1>2. CASE o = [done |-> FALSE, exec |-> [e EXCEPT !.killed = TRUE]]
  BY <1>2 DEF Same, RemoveDirectory, SlotState, ExecutionRecord
<1>3. CASE o = [done |-> TRUE, exec |-> [e EXCEPT !.killed = TRUE, !.group = FALSE]]
  BY <1>3 DEF Same, RemoveDirectory, SlotState, ExecutionRecord
<1>4. QED
  BY <1>1, <1>2, <1>3 DEF NamespaceExited

LEMMA SameAt ==
    ASSUME exec \in [Conn -> ExecutionRecord], NEW c \in Conn, NEW f,
           Same(exec[c], f), exec' = [exec EXCEPT ![c] = f]
    PROVE  \A d \in Conn : Same(exec[d], exec'[d])
BY SameReflexive

\* A client has not been told of its end.
LEMMA SendHidden ==
    ASSUME IInv, NEW c \in clients, NEW r, r # "exited", Send(c, r)
    PROVE  SameReports
BY DEF IInv, TypeOK, Reports, Send, SameReports

LEMMA VisitHidden ==
    ASSUME IInv, NEW c \in Conn, ClientStep(c), ~SweepExited(c)
    PROVE  Hidden
<1>0. exec \in [Conn -> ExecutionRecord] /\ clients \subseteq Conn
  BY DEF IInv, TypeOK
<1>1. ASSUME UNCHANGED exec
      PROVE  \A d \in Conn : Same(exec[d], exec'[d])
  BY <1>1, SameReflexive
<1>2. ASSUME UNCHANGED reply
      PROVE  SameReports
  BY <1>2 DEF SameReports
<1>3. CASE \/ LaunchNotDue(c) \/ LaunchHeld(c) \/ LaunchPreparesSSH(c)
           \/ ReceiveStart(c) \/ ReceiveRefresh(c) \/ ReceiveTerminate(c)
  BY <1>1, <1>2, <1>3
     DEF LaunchNotDue, LaunchHeld, LaunchPreparesSSH, ReceiveStart, ReceiveRefresh,
         ReceiveTerminate, Hidden
<1>4. CASE SweepRefreshAnswered(c) \/ SweepWaiting(c) \/ ReceiveStatus(c) \/ ReceiveBad(c)
  <2>1. c \in clients /\ UNCHANGED exec
    BY <1>4, VisitsClients
       DEF SweepRefreshAnswered, SweepWaiting, ReceiveStatus, ReceiveBad
  <2>2. UNCHANGED reply \/ \E r \in {"error", "ssh-refreshed", "status"} : Send(c, r)
    BY <1>4 DEF SweepRefreshAnswered, SweepWaiting, ReceiveStatus, ReceiveBad
  <2>3. QED
    BY <1>1, <1>2, <2>1, <2>2, SendHidden DEF Hidden
<1>5. CASE SweepTeardownPending(c)
  <2>1. c \in clients
    BY <1>5, VisitsClients DEF SweepTeardownPending
  <2>2. PICK o \in NamespaceExited(exec[c]) : exec' = [exec EXCEPT ![c] = o.exec]
    BY <1>5 DEF SweepTeardownPending
  <2>3. UNCHANGED reply \/ Send(c, "error")
    BY <1>5 DEF SweepTeardownPending
  <2>4. QED
    BY <1>0, <1>2, <2>1, <2>2, <2>3, SameLook, SameAt, SendHidden DEF Hidden
<1>6. CASE SweepRunning(c)
  <2>1. PICK f : exec' = [exec EXCEPT ![c] = f] /\ Same(exec[c], f)
    BY <1>0, <1>6, SameKill, SameReflexive DEF SweepRunning
  <2>2. UNCHANGED reply
    BY <1>6 DEF SweepRunning
  <2>3. QED
    BY <1>0, <1>2, <2>1, <2>2, SameAt DEF Hidden
<1>7. CASE LaunchFails(c)
  <2>1. c \in clients /\ Send(c, "error")
    BY <1>7, VisitsClients DEF LaunchFails, MayLaunch
  <2>2. CASE UNCHANGED exec
    BY <1>1, <2>1, <2>2, SendHidden DEF Hidden
  <2>3. CASE exec' = [exec EXCEPT ![c].dir = TRUE, ![c].group = TRUE, ![c].host = TRUE]
    <3>1. PICK f : /\ f = [exec[c] EXCEPT !.dir = TRUE, !.group = TRUE, !.host = TRUE]
                   /\ exec' = [exec EXCEPT ![c] = f]
      BY <1>0, <2>3
    <3>2. Same(exec[c], f)
      BY <1>0, <3>1 DEF Same, SlotState, ExecutionRecord
    <3>3. QED
      BY <1>0, <2>1, <3>1, <3>2, SameAt, SendHidden DEF Hidden
  <2>4. QED
    BY <1>7, <2>2, <2>3 DEF LaunchFails
<1>8. CASE LaunchStarts(c)
  <2>1. c \in clients /\ Send(c, "started") /\ ~HasProcess(c)
    BY <1>8, VisitsClients DEF LaunchStarts, MayLaunch
  <2>2. PICK f : /\ exec' = [exec EXCEPT ![c] = f]
                 /\ f.init = "gated" /\ f.workload = FALSE
    <3> DEFINE n == NewExecution(Slot(job[c].req), job[c].req.tier = HostTier)
    <3>1. exec' = [exec EXCEPT ![c] = n]
      BY <1>8 DEF LaunchStarts
    <3>2. n.init = "gated" /\ n.workload = FALSE
      BY DEF NewExecution
    <3>3. QED
      BY <3>1, <3>2
  <2>3. exec[c].init = "none" /\ exec[c].workload = FALSE
    <3>1. exec[c].workload \in BOOLEAN
      BY <1>0 DEF ExecutionRecord
    <3>2. QED
      BY <2>1, <3>1, Idle DEF IInv, Tree, HasProcess
  <2>4. Same(exec[c], f)
    BY <2>2, <2>3 DEF Same, SlotState
  <2>5. QED
    BY <1>0, <2>1, <2>2, <2>4, SameAt, SendHidden DEF Hidden
<1>9. CASE SweepRefreshPrepares(c)
  <2>1. UNCHANGED reply
    BY <1>9 DEF SweepRefreshPrepares, EnterFinally
  <2>2. \A d \in Conn : Same(exec[d], exec'[d])
    BY <1>0, <1>1, <1>9, SameKill, SameReflexive DEF SweepRefreshPrepares, EnterFinally
  <2>3. QED
    BY <1>2, <2>1, <2>2 DEF Hidden
<1>10. CASE FinallyCloses(c)
  <2>1. UNCHANGED reply
    BY <1>10 DEF FinallyCloses
  <2>2. PICK f : exec' = [exec EXCEPT ![c] = f] /\ Same(exec[c], f)
    BY <1>0, <1>10, SameLook, SameReflexive DEF FinallyCloses
  <2>3. QED
    BY <1>0, <1>2, <2>1, <2>2, SameAt DEF Hidden
<1>11. CASE Reconcile(c)
  <2>1. UNCHANGED reply
    BY <1>11 DEF Reconcile
  <2>2. PICK f : exec' = [exec EXCEPT ![c] = f] /\ Same(exec[c], f)
    BY <1>0, <1>11, SameLook DEF Reconcile
  <2>3. QED
    BY <1>0, <1>2, <2>1, <2>2, SameAt DEF Hidden
<1>12. QED
  BY <1>3, <1>4, <1>5, <1>6, <1>7, <1>8, <1>9, <1>10, <1>11 DEF ClientStep

LEMMA LoopHidden ==
    ASSUME IInv,
           \/ PollBranchGC \/ LeaveLoop
           \/ PollIdleSSH \/ PollSSHAnswer \/ PollDeadSSH
           \/ \E c \in Conn \cup {Listener} : HandleQuiet(c)
           \/ Accept
           \/ EndSweep \/ EndLaunch \/ EndHandle
           \/ BrokerExits \/ BeginServing
           \/ BrokerCrashes \/ Restart \/ RefuseStartup
           \/ Timers
           \/ \E c \in Conn : ClientCloses(c)
           \/ Signalled \/ SSHAnswers \/ SSHServiceExits \/ GCHelperAdvances
           \/ UNCHANGED vars
    PROVE  Hidden
<1>0. exec \in [Conn -> ExecutionRecord]
  BY DEF IInv, TypeOK
<1>1. UNCHANGED reply
  BY DEF PollBranchGC, LeaveLoop, PollIdleSSH, PollSSHAnswer, PollDeadSSH, HandleQuiet,
         Accept, EndSweep, EndLaunch, EndHandle, BrokerExits, BeginServing, BrokerCrashes,
         Restart, RefuseStartup, Timers, WaitExpires, DeadlineExpires, CleanupExpires,
         ClientCloses, Signalled, SSHAnswers, SSHServiceExits, GCHelperAdvances,
         KeepBroker, EnterFinally, vars
<1>2. CASE UNCHANGED exec
  BY <1>1, <1>2, SameReflexive DEF Hidden, SameReports
<1>3. CASE EnterFinally
  <2>1. \A d \in Conn : Same(exec[d], exec'[d])
    BY <1>0, <1>3, SameKill, SameReflexive DEF EnterFinally
  <2>2. QED
    BY <1>1, <2>1 DEF Hidden, SameReports
<1>4. CASE BrokerCrashes
  <2>1. \A d \in Conn : Same(exec[d], exec'[d])
    BY <1>0, <1>4, SameKill DEF BrokerCrashes
  <2>2. QED
    BY <1>1, <2>1 DEF Hidden, SameReports
<1>5. UNCHANGED exec \/ EnterFinally \/ BrokerCrashes
  BY DEF PollBranchGC, LeaveLoop, PollIdleSSH, PollSSHAnswer, PollDeadSSH, HandleQuiet,
         Accept, EndSweep, EndLaunch, EndHandle, BrokerExits, BeginServing,
         Restart, RefuseStartup, Timers, WaitExpires, DeadlineExpires, CleanupExpires,
         ClientCloses, Signalled, SSHAnswers, SSHServiceExits, GCHelperAdvances,
         KeepBroker, vars
<1>6. QED
  BY <1>2, <1>3, <1>4, <1>5

----------------------------------------------------------------------------
(* The steps that the allocator sees.                                      *)

StateMap == [c \in Conn |-> SlotState(exec[c])]
SlotMap == [c \in Conn |-> IF exec[c].workload THEN exec[c].slot ELSE {}]
ReportMap == [c \in Conn |-> reply[c] = "exited"]

LEMMA ReportStep ==
    ASSUME IInv, NEW c \in Conn, SweepExited(c)
    PROVE  Slots!Report(c)
<1>0. exec \in [Conn -> ExecutionRecord] /\ reply \in [Conn -> Reply]
      /\ \A d \in Conn : Tree(exec[d])
  BY DEF IInv, TypeOK
<1>1. c \in clients /\ exec[c].helper = "dead" /\ Send(c, "exited")
  BY VisitsClients DEF SweepExited
<1>2. PICK o \in NamespaceExited(exec[c]) :
         o.done /\ exec' = [exec EXCEPT ![c] = RemoveDirectory(o.exec)]
  BY DEF SweepExited
<1>3. \A d \in Conn : Same(exec[d], exec'[d])
  BY <1>0, <1>2, SameLook, SameAt
<1>4. ~exec[c].workload
  BY <1>0, <1>1, <1>2, CalmLook, SameLook DEF Same
<1>5. StateMap[c] # "running"
  BY <1>4 DEF StateMap, SlotState
<1>6. ~ReportMap[c]
  BY <1>1 DEF ReportMap, IInv, Reports
<1>7. ReportMap' = [ReportMap EXCEPT ![c] = TRUE]
  BY <1>0, <1>1 DEF ReportMap, Send
<1>8. StateMap' = StateMap /\ SlotMap' = SlotMap
  BY <1>3 DEF StateMap, SlotMap, Same
<1>9. QED
  BY <1>5, <1>6, <1>7, <1>8 DEF Slots!Report, StateMap, SlotMap, ReportMap

\* A workload that starts belongs to a client of the serving broker, and so do
\* all that run.
LEMMA BeginStep ==
    ASSUME IInv, NEW c \in Conn, ReleaseInit(c), UNCHANGED reply
    PROVE  \E s \in SUBSET Key : Slots!Begin(c, s)
<1>0. exec \in [Conn -> ExecutionRecord] /\ \A d \in Conn : Tree(exec[d])
  BY DEF IInv, TypeOK
<1>1. exec' = [exec EXCEPT ![c].init = "up", ![c].workload = TRUE]
      /\ exec[c].helper = "up" /\ exec[c].init = "gated"
  BY DEF ReleaseInit
<1>2. exec[c].slot \subseteq Key /\ ~exec[c].workload
  BY <1>0, <1>1 DEF Tree, ExecutionRecord
<1>3. \A d \in Conn : SlotMap[d] \cap exec[c].slot = {}
  <2>1. phase \in LoopPhase /\ c \in clients /\ HasProcess(c)
    BY <1>1 DEF IInv, Owners, HasProcess
  <2>2. ASSUME NEW d \in Conn, exec[d].workload
        PROVE  d \in clients /\ HasProcess(d) /\ d # c
    BY <1>0, <1>2, <2>1, <2>2 DEF IInv, Owners, HasProcess, Tree
  <2>3. QED
    BY <2>1, <2>2 DEF IInv, DisjointSlots, SlotMap
<1>4. StateMap[c] = "idle" /\ ~ReportMap[c]
  BY <1>1, <1>2 DEF StateMap, SlotState, ReportMap, IInv, Reports, Finished
<1>5. exec'[c].workload /\ exec'[c].slot = exec[c].slot
      /\ \A d \in Conn : d # c => exec'[d] = exec[d]
  BY <1>0, <1>1 DEF ExecutionRecord
<1>6. StateMap' = [StateMap EXCEPT ![c] = "running"]
  BY <1>5 DEF StateMap, SlotState
<1>7. SlotMap' = [SlotMap EXCEPT ![c] = exec[c].slot]
  BY <1>5 DEF SlotMap
<1>8. ReportMap' = ReportMap
  BY DEF ReportMap
<1>9. PICK s \in SUBSET Key : s = exec[c].slot
  BY <1>2
<1>10. Slots!Begin(c, s)
  BY <1>3, <1>4, <1>6, <1>7, <1>8, <1>9 DEF Slots!Begin, StateMap, SlotMap, ReportMap
<1>11. QED
  BY <1>10

\* Everything else that happens to a process tree ends it, gives it up before
\* its workload exists, or is invisible.
LEMMA WindDownStep ==
    ASSUME IInv, NEW c \in Conn, ExecutionStep(c), ~ReleaseInit(c), UNCHANGED reply
    PROVE  Slots!End(c) \/ Slots!Abandon(c) \/ UNCHANGED Slots!vars
<1>0. /\ exec \in [Conn -> ExecutionRecord] /\ \A d \in Conn : Tree(exec[d])
      /\ exec[c] \in ExecutionRecord
  BY DEF IInv, TypeOK
<1>1. PICK f : exec' = [exec EXCEPT ![c] = f] /\ f = exec'[c]
  BY <1>0, CalmSteps
<1>2. /\ f.slot = exec[c].slot
      /\ \/ Same(exec[c], f)
         \/ SlotState(exec[c]) = "running" /\ SlotState(f) = "over" /\ ~f.workload
         \/ SlotState(exec[c]) = "idle" /\ SlotState(f) = "over" /\ ~f.workload
                                        /\ ~exec[c].workload
  <2> USE <1>0, <1>1 DEF Same, SlotState, ExecutionRecord, Tree
  <2>1. CASE RecordIdentity(c)
    BY <2>1 DEF RecordIdentity
  <2>2. CASE SetupFails(c)
    BY <2>2 DEF SetupFails
  <2>3. CASE NamespaceFinishes(c)
    BY <2>3 DEF NamespaceFinishes
  <2>4. CASE OrphanedInitDies(c)
    BY <2>4 DEF OrphanedInitDies
  <2>5. CASE GuardianKillsGroup(c)
    BY <2>5 DEF GuardianKillsGroup
  <2>6. CASE GroupEmpties(c)
    BY <2>6 DEF GroupEmpties
  <2>7. CASE GuardianExits(c)
    BY <2>7 DEF GuardianExits
  <2>8. CASE GuardianFails(c)
    BY <2>8 DEF GuardianFails
  <2>9. CASE HelperExits(c)
    BY <2>9 DEF HelperExits
  <2>10. CASE HelperKilled(c)
    BY <2>10 DEF HelperKilled
  <2>11. QED
    BY <2>1, <2>2, <2>3, <2>4, <2>5, <2>6, <2>7, <2>8, <2>9, <2>10 DEF ExecutionStep
<1>3. exec'[c] = f /\ \A d \in Conn : d # c => exec'[d] = exec[d]
  BY <1>0, <1>1
<1>4. ReportMap' = ReportMap
  BY DEF ReportMap
<1>5. CASE Same(exec[c], f)
  BY <1>0, <1>1, <1>5, SameAt, HiddenSteps DEF Hidden, SameReports
<1>6. CASE SlotState(exec[c]) = "running" /\ SlotState(f) = "over" /\ ~f.workload
  <2>1. StateMap' = [StateMap EXCEPT ![c] = "over"] /\ StateMap[c] = "running"
    BY <1>3, <1>6 DEF StateMap
  <2>2. SlotMap' = [SlotMap EXCEPT ![c] = {}]
    BY <1>3, <1>6 DEF SlotMap
  <2>3. QED
    BY <1>4, <2>1, <2>2 DEF Slots!End, StateMap, SlotMap, ReportMap
<1>7. CASE /\ SlotState(exec[c]) = "idle" /\ SlotState(f) = "over" /\ ~f.workload
           /\ ~exec[c].workload
  <2>1. StateMap' = [StateMap EXCEPT ![c] = "over"] /\ StateMap[c] = "idle"
    BY <1>3, <1>7 DEF StateMap
  <2>2. SlotMap' = SlotMap
    BY <1>3, <1>7 DEF SlotMap
  <2>3. QED
    BY <1>4, <2>1, <2>2 DEF Slots!Abandon, StateMap, SlotMap, ReportMap
<1>8. QED
  BY <1>2, <1>5, <1>6, <1>7

\* The broker, with its supervisors, failures and restarts, implements the
\* abstract slot allocator.
THEOREM Refinement == Spec => ImplementsSlots
<1>1. Init => Slots!Init
  <2>1. NoExecution.workload = FALSE /\ SlotState(NoExecution) = "idle"
    BY DEF NoExecution, SlotState
  <2>2. QED
    BY <2>1 DEF Init, ExecutionInit, Slots!Init
<1>2. IInv /\ [Next]_vars => [Slots!Next]_Slots!vars
  <2> SUFFICES ASSUME IInv, [Next]_vars
               PROVE  [Slots!Next]_Slots!vars
    OBVIOUS
  <2>1. CASE ExecutionSteps
    <3>1. PICK c \in Conn : ExecutionStep(c)
      BY <2>1 DEF ExecutionSteps
    <3>2. UNCHANGED reply
      BY <2>1 DEF ExecutionSteps, KeepBroker
    <3>3. CASE ReleaseInit(c)
      <4>1. PICK s \in SUBSET Key : Slots!Begin(c, s)
        BY <3>2, <3>3, BeginStep
      <4>2. Slots!Next
        BY <4>1 DEF Slots!Next
      <4>3. QED
        BY <4>2
    <3>4. CASE ~ReleaseInit(c)
      BY <3>1, <3>2, <3>4, WindDownStep DEF Slots!Next
    <3>5. QED
      BY <3>3, <3>4
  <2>2. ASSUME NEW c \in Conn, ClientStep(c)
        PROVE  [Slots!Next]_Slots!vars
    <3>1. CASE SweepExited(c)
      BY <3>1, ReportStep DEF Slots!Next
    <3>2. CASE ~SweepExited(c)
      BY <2>2, <3>2, VisitHidden, HiddenSteps
    <3>3. QED
      BY <3>1, <3>2
  <2>3. CASE \/ PollBranchGC \/ LeaveLoop
             \/ PollIdleSSH \/ PollSSHAnswer \/ PollDeadSSH
             \/ \E c \in Conn \cup {Listener} : HandleQuiet(c)
             \/ Accept
             \/ EndSweep \/ EndLaunch \/ EndHandle
             \/ BrokerExits \/ BeginServing
             \/ BrokerCrashes \/ Restart \/ RefuseStartup
             \/ Timers
             \/ \E c \in Conn : ClientCloses(c)
             \/ Signalled \/ SSHAnswers \/ SSHServiceExits \/ GCHelperAdvances
             \/ UNCHANGED vars
    BY <2>3, LoopHidden, HiddenSteps
  <2>4. QED
    BY <2>1, <2>2, <2>3 DEF Next, BrokerStep, Environment
<1>3. QED
  BY <1>1, <1>2, Invariance, PTL DEF Spec, ImplementsSlots, Slots!Spec

----------------------------------------------------------------------------
(* The promises of the allocator, and what the broker inherits.            *)

LEMMA SlotsTyped == Slots!TypeOK /\ [Slots!Next]_Slots!vars => Slots!TypeOK'
BY DEF Slots!TypeOK, Slots!Next, Slots!vars, Slots!Begin, Slots!End, Slots!Abandon, Slots!Report

LEMMA SlotsExclude ==
    Slots!TypeOK /\ Slots!Exclusive /\ [Slots!Next]_Slots!vars => Slots!Exclusive'
<1> SUFFICES ASSUME Slots!TypeOK, Slots!Exclusive, [Slots!Next]_Slots!vars
             PROVE  Slots!Exclusive'
  OBVIOUS
<1>0. /\ StateMap \in [Conn -> {"idle", "running", "over"}]
      /\ SlotMap \in [Conn -> SUBSET Key]
      /\ ReportMap \in [Conn -> BOOLEAN]
  BY DEF Slots!TypeOK, StateMap, SlotMap, ReportMap
<1>h. /\ \A d, e \in Conn : d # e => SlotMap[d] \cap SlotMap[e] = {}
      /\ \A e \in Conn : SlotMap[e] # {} => StateMap[e] = "running"
      /\ \A e \in Conn : ReportMap[e] => StateMap[e] # "running"
  BY DEF Slots!Exclusive, StateMap, SlotMap, ReportMap
<1> DEFINE Goal == /\ \A d, e \in Conn : d # e => SlotMap'[d] \cap SlotMap'[e] = {}
                   /\ \A e \in Conn : SlotMap'[e] # {} => StateMap'[e] = "running"
                   /\ \A e \in Conn : ReportMap'[e] => StateMap'[e] # "running"
<1>g. Goal => Slots!Exclusive'
  BY DEF Slots!Exclusive, StateMap, SlotMap, ReportMap
<1>1. ASSUME NEW e \in Conn, NEW s \in SUBSET Key, Slots!Begin(e, s) PROVE Goal
  <2>1. /\ StateMap' = [StateMap EXCEPT ![e] = "running"]
        /\ SlotMap' = [SlotMap EXCEPT ![e] = s] /\ ReportMap' = ReportMap
        /\ ~ReportMap[e] /\ \A d \in Conn : SlotMap[d] \cap s = {}
    BY <1>1 DEF Slots!Begin, StateMap, SlotMap, ReportMap
  <2>2. QED
    BY <1>0, <1>h, <2>1
<1>2. ASSUME NEW e \in Conn, Slots!End(e) PROVE Goal
  <2>1. /\ StateMap' = [StateMap EXCEPT ![e] = "over"]
        /\ SlotMap' = [SlotMap EXCEPT ![e] = {}] /\ ReportMap' = ReportMap
    BY <1>2 DEF Slots!End, StateMap, SlotMap, ReportMap
  <2>2. QED
    BY <1>0, <1>h, <2>1
<1>3. ASSUME NEW e \in Conn, Slots!Abandon(e) PROVE Goal
  <2>1. /\ StateMap[e] = "idle" /\ StateMap' = [StateMap EXCEPT ![e] = "over"]
        /\ SlotMap' = SlotMap /\ ReportMap' = ReportMap
    BY <1>3 DEF Slots!Abandon, StateMap, SlotMap, ReportMap
  <2>2. QED
    BY <1>0, <1>h, <2>1
<1>4. ASSUME NEW e \in Conn, Slots!Report(e) PROVE Goal
  <2>1. /\ StateMap[e] # "running" /\ ReportMap' = [ReportMap EXCEPT ![e] = TRUE]
        /\ StateMap' = StateMap /\ SlotMap' = SlotMap
    BY <1>4 DEF Slots!Report, StateMap, SlotMap, ReportMap
  <2>2. QED
    BY <1>0, <1>h, <2>1
<1>5. CASE UNCHANGED Slots!vars
  <2>1. StateMap' = StateMap /\ SlotMap' = SlotMap /\ ReportMap' = ReportMap
    BY <1>5 DEF Slots!vars, StateMap, SlotMap, ReportMap
  <2>2. QED
    BY <1>g, <1>h, <2>1
<1>6. QED
  BY <1>g, <1>1, <1>2, <1>3, <1>4, <1>5 DEF Slots!Next

LEMMA SlotsFinal ==
    Slots!TypeOK /\ [Slots!Next]_Slots!vars
    => [\A e \in Conn :
          /\ StateMap[e] = "over" => StateMap'[e] = "over"
          /\ StateMap[e] = "running" => StateMap'[e] # "idle"
          /\ ReportMap[e] => ReportMap'[e]]_Slots!vars
BY DEF Slots!TypeOK, Slots!Next, Slots!vars, Slots!Begin, Slots!End, Slots!Abandon, Slots!Report,
       StateMap, ReportMap

\* The allocator gives no slot to two executions, and its reports are final.
THEOREM AllocatorPromises == Slots!Spec => []Slots!Exclusive /\ Slots!Final
<1>1. Slots!Init => Slots!TypeOK /\ Slots!Exclusive
  BY DEF Slots!Init, Slots!TypeOK, Slots!Exclusive
<1>2. QED
  BY <1>1, SlotsTyped, SlotsExclude, SlotsFinal, PTL
  DEF Slots!Spec, Slots!Final, StateMap, ReportMap

\* A client that was told "exited" is told nothing else, and no later step of the
\* broker, of a restarted one or of a supervisor brings its workload back.
THEOREM ExitIsFinal ==
    Spec => [][\A c \in Conn : reply[c] = "exited" =>
                    reply'[c] = "exited" /\ ~exec'[c].workload]_vars
<1>1. IInv' /\ Slots!Exclusive'
        /\ [\A e \in Conn :
              /\ StateMap[e] = "over" => StateMap'[e] = "over"
              /\ StateMap[e] = "running" => StateMap'[e] # "idle"
              /\ ReportMap[e] => ReportMap'[e]]_Slots!vars
        => [\A c \in Conn : reply[c] = "exited" =>
                reply'[c] = "exited" /\ ~exec'[c].workload]_vars
  <2> SUFFICES ASSUME Slots!Exclusive',
                      [\A e \in Conn :
                        /\ StateMap[e] = "over" => StateMap'[e] = "over"
                        /\ StateMap[e] = "running" => StateMap'[e] # "idle"
                        /\ ReportMap[e] => ReportMap'[e]]_Slots!vars,
                      NEW c \in Conn, reply[c] = "exited"
               PROVE  reply'[c] = "exited" /\ ~exec'[c].workload
    OBVIOUS
  <2>1. ReportMap[c]
    BY DEF ReportMap
  <2>2. UNCHANGED Slots!vars => ReportMap' = ReportMap
    BY DEF Slots!vars, ReportMap
  <2>3. ReportMap'[c]
    BY <2>1, <2>2
  <2>4. StateMap'[c] # "running"
    BY <2>3 DEF Slots!Exclusive, StateMap, ReportMap
  <2>5. QED
    BY <2>3, <2>4 DEF ReportMap, StateMap, SlotState
<1>2. QED
  BY <1>1, Invariance, Refinement, AllocatorPromises, PTL
  DEF ImplementsSlots, Slots!Final, StateMap, ReportMap
=============================================================================
