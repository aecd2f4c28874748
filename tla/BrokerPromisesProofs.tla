------------------------ MODULE BrokerPromisesProofs ------------------------
(***************************************************************************)
(* A living broker runs its branch GC helper beside no workload, and no    *)
(* more executions than the limit of clients run at any time.  Two more    *)
(* promises are kept under restrictions of the failures, and otherwise     *)
(* broken (README, section 4): branch GC runs alone as long as no broker   *)
(* is killed, and a helper is killed only after its grace as long as       *)
(* nobody else kills it and the SSH service does not exit.                 *)
(***************************************************************************)
EXTENDS BrokerProofs, FiniteSetTheorems

Still(e) == e.helper # "up" /\ ~e.workload

\* While the helper of branch GC is listed nothing runs, nor can it start.
Alone == gcJob # "none" => phase \in LoopPhase /\ \A c \in Conn : Still(exec[c])

\* Winding down keeps an execution still.
LEMMA CalmStill ==
    ASSUME NEW e, NEW f, Calm(e, f), Still(e)
    PROVE  Still(f)
BY DEF Calm, Still

\* Without clients nothing runs.
LEMMA NoClients ==
    ASSUME IInv, phase \in LoopPhase, NEW c \in Conn, c \notin clients
    PROVE  Still(exec[c])
BY DEF IInv, Owners, Still, TypeOK, ExecutionRecord

\* Only these two steps of the loop start the helper.
LEMMA GCStarts ==
    ASSUME IInv, Alone, PollBranchGC \/ (\E c \in Conn : SweepExited(c))
    PROVE  Alone'
<1>1. CASE PollBranchGC
  <2> USE <1>1 DEF PollBranchGC, BranchGCLaunches, Alone, LoopPhase
  <2>1. phase' \in LoopPhase /\ exec' = exec
    OBVIOUS
  <2>2. ASSUME gcJob' # "none", NEW c \in Conn PROVE Still(exec[c])
    BY <2>2, NoClients
  <2>3. QED
    BY <2>1, <2>2 DEF Still
<1>2. ASSUME NEW c \in Conn, SweepExited(c) PROVE Alone'
  <2>1. PICK o \in NamespaceExited(exec[c]) :
           o.done /\ exec' = [exec EXCEPT ![c] = RemoveDirectory(o.exec)]
    BY <1>2 DEF SweepExited
  <2>2. exec[c] \in ExecutionRecord /\ Tree(exec[c]) /\ exec[c].helper = "dead"
    BY <1>2 DEF IInv, TypeOK, SweepExited
  <2>3. Finished(RemoveDirectory(o.exec))
    BY <2>1, <2>2, CalmLook
  <2>4. Still(exec'[c]) /\ \A d \in Conn \ {c} : exec'[d] = exec[d]
    BY <2>1, <2>3 DEF IInv, TypeOK, Finished, Still
  <2>5. phase' = phase /\ phase \in LoopPhase
    BY <1>2 DEF SweepExited, Visits, Visited, LoopPhase
  <2>6. ASSUME gcJob' # "none", NEW d \in Conn, d # c PROVE Still(exec[d])
    <3>1. gcJob # "none" \/ clients \ {c} = {}
      BY <1>2, <2>6 DEF SweepExited, BranchGCLaunches
    <3>2. QED
      BY <3>1, <2>5, <2>6, NoClients DEF Alone
  <2>7. QED
    BY <2>4, <2>5, <2>6 DEF Alone, Still
<1>3. QED
  BY <1>1, <1>2

\* The other steps that reach an execution wind it down.
LEMMA GCWindsDown ==
    ASSUME IInv, Alone,
           ExecutionSteps \/ (\E c \in Conn : SweepTeardownPending(c) \/ SweepRunning(c))
    PROVE  Alone'
<1>1. ASSUME NEW c \in Conn, ExecutionStep(c), ExecutionSteps PROVE Alone'
  <2>1. exec' = [exec EXCEPT ![c] = exec'[c]] /\ Calm(exec[c], exec'[c])
    BY <1>1, CalmSteps DEF IInv, TypeOK
  <2>2. \A d \in Conn : Still(exec[d]) => Still(exec'[d])
    BY <2>1, CalmStill DEF IInv, TypeOK
  <2>3. QED
    BY <1>1, <2>2 DEF Alone, ExecutionSteps, KeepBroker, KeepGC
<1>2. ASSUME NEW c \in Conn, SweepTeardownPending(c) PROVE Alone'
  <2>1. PICK o \in NamespaceExited(exec[c]) : exec' = [exec EXCEPT ![c] = o.exec]
    BY <1>2 DEF SweepTeardownPending
  <2>2. exec[c] \in ExecutionRecord /\ Tree(exec[c]) /\ exec[c].helper = "dead"
    BY <1>2 DEF IInv, TypeOK, SweepTeardownPending
  <2>3. \A d \in Conn : Still(exec[d]) => Still(exec'[d])
    BY <2>1, <2>2, CalmLook, CalmStill DEF IInv, TypeOK
  <2>4. QED
    BY <1>2, <2>3 DEF Alone, SweepTeardownPending, Visited, KeepGC
<1>3. ASSUME NEW c \in Conn, SweepRunning(c) PROVE Alone'
  <2>1. gcJob = "none"
    BY <1>3 DEF Alone, Still, SweepRunning
  <2>2. QED
    BY <1>3, <2>1 DEF Alone, SweepRunning, KeepGC
<1>4. QED
  BY <1>1, <1>2, <1>3 DEF ExecutionSteps

\* Nothing is launched while the helper is listed.
LEMMA GCHoldsLaunches ==
    ASSUME Alone, \E c \in Conn : LaunchFails(c) \/ LaunchStarts(c)
    PROVE  Alone'
BY DEF Alone, LaunchFails, LaunchStarts, MayLaunch, KeepGC

\* The other steps of the loop reach neither executions nor the helper.
LEMMA GCIdleClients ==
    ASSUME Alone,
           \E c \in Conn :
              \/ SweepRefreshAnswered(c) \/ SweepRefreshPrepares(c) \/ SweepWaiting(c)
              \/ LaunchNotDue(c) \/ LaunchHeld(c) \/ LaunchPreparesSSH(c)
              \/ ReceiveStart(c) \/ ReceiveRefresh(c) \/ ReceiveStatus(c)
              \/ ReceiveTerminate(c) \/ ReceiveBad(c)
    PROVE  Alone'
<1> USE DEF Alone, Visited, KeepGC
<1>1. ASSUME NEW c \in Conn, SweepRefreshAnswered(c) \/ SweepWaiting(c) PROVE Alone'
  BY <1>1 DEF SweepRefreshAnswered, SweepWaiting
<1>2. ASSUME NEW c \in Conn, SweepRefreshPrepares(c) PROVE Alone'
  BY <1>2 DEF SweepRefreshPrepares, EnterFinally
<1>3. ASSUME NEW c \in Conn, LaunchNotDue(c) \/ LaunchHeld(c) \/ LaunchPreparesSSH(c)
      PROVE  Alone'
  BY <1>3 DEF LaunchNotDue, LaunchHeld, LaunchPreparesSSH
<1>4. ASSUME NEW c \in Conn, ReceiveStart(c) \/ ReceiveRefresh(c) \/ ReceiveStatus(c)
      PROVE  Alone'
  BY <1>4 DEF ReceiveStart, ReceiveRefresh, ReceiveStatus
<1>5. ASSUME NEW c \in Conn, ReceiveTerminate(c) \/ ReceiveBad(c) PROVE Alone'
  BY <1>5 DEF ReceiveTerminate, ReceiveBad
<1>6. QED
  BY <1>1, <1>2, <1>3, <1>4, <1>5

LEMMA GCBetweenPasses ==
    ASSUME Alone,
           \/ LeaveLoop \/ PollIdleSSH \/ PollSSHAnswer \/ PollDeadSSH
           \/ (\E c \in Conn \cup {Listener} : HandleQuiet(c))
           \/ Accept \/ EndSweep \/ EndLaunch \/ EndHandle
    PROVE  Alone'
<1> USE DEF Alone, KeepGC, LoopPhase
<1>1. CASE LeaveLoop \/ PollDeadSSH
  BY <1>1 DEF LeaveLoop, PollDeadSSH, EnterFinally
<1>2. CASE PollIdleSSH \/ PollSSHAnswer
  BY <1>2 DEF PollIdleSSH, PollSSHAnswer, BeginSweep
<1>3. CASE (\E c \in Conn \cup {Listener} : HandleQuiet(c)) \/ Accept
  BY <1>3 DEF HandleQuiet, Accept, Visited
<1>4. CASE EndSweep \/ EndLaunch \/ EndHandle
  BY <1>4 DEF EndSweep, EndLaunch, EndHandle
<1>5. QED
  BY <1>1, <1>2, <1>3, <1>4

\* A broker that stops, or starts, has no helper.
LEMMA GCOutsideLoop ==
    ASSUME Alone,
           \/ (\E c \in Conn : FinallyCloses(c) \/ Reconcile(c))
           \/ BrokerExits \/ BeginServing \/ Restart \/ RefuseStartup
    PROVE  Alone'
BY DEF Alone, LoopPhase, FinallyCloses, Reconcile, BrokerExits, BeginServing, Restart,
   RefuseStartup, Forget, Visits, KeepGC

LEMMA GCAround ==
    ASSUME Alone,
           \/ Timers \/ (\E c \in Conn : ClientCloses(c))
           \/ Signalled \/ SSHAnswers \/ SSHServiceExits
           \/ GCHelperAdvances \/ BrokerCrashes
    PROVE  Alone'
<1> USE DEF Alone, KeepBroker, KeepGC
<1>1. CASE Timers
  BY <1>1 DEF Timers, WaitExpires, DeadlineExpires, CleanupExpires
<1>2. CASE (\E c \in Conn : ClientCloses(c)) \/ Signalled \/ SSHAnswers \/ SSHServiceExits
  BY <1>2 DEF ClientCloses, Signalled, SSHAnswers, SSHServiceExits
<1>3. CASE GCHelperAdvances
  BY <1>3 DEF GCHelperAdvances
<1>4. CASE BrokerCrashes
  BY <1>4 DEF BrokerCrashes, Forget
<1>5. QED
  BY <1>1, <1>2, <1>3, <1>4

LEMMA AloneStep == IInv /\ Alone /\ [Next]_vars => Alone'
<1> SUFFICES ASSUME IInv, Alone, [Next]_vars PROVE Alone'
  OBVIOUS
<1>1. CASE BrokerStep
  BY <1>1, GCStarts, GCWindsDown, GCHoldsLaunches, GCIdleClients,
     GCBetweenPasses, GCOutsideLoop DEF BrokerStep, ClientStep
<1>2. CASE Environment
  BY <1>2, GCWindsDown, GCOutsideLoop, GCAround DEF Environment
<1>3. CASE UNCHANGED vars
  BY <1>3 DEF Alone, vars
<1>4. QED
  BY <1>1, <1>2, <1>3 DEF Next

\* The branch GC helper of a broker that lives runs beside no workload, neither
\* of this broker nor of an earlier one, after any crashes and restarts and with
\* all failures of supervisors, guardians, cgroups and SSH.
THEOREM GCOfLivingBroker ==
    Spec => [](gcJob \in {"running", "overdue"} => \A c \in Conn : ~exec[c].workload)
<1>1. Init => Alone
  BY DEF Init, Alone
<1>2. Alone => (gcJob \in {"running", "overdue"} => \A c \in Conn : ~exec[c].workload)
  BY DEF Alone, Still
<1>3. QED
  BY <1>1, <1>2, AloneStep, Invariance, PTL DEF Spec

\* Only a crash leaves a helper behind.
LEMMA OrphanStep == MaxCrashes = 0 /\ IInv /\ ~gcOrphan /\ [Next]_vars => ~gcOrphan'
<1> SUFFICES ASSUME MaxCrashes = 0, IInv, ~gcOrphan, [Next]_vars PROVE ~gcOrphan'
  OBVIOUS
<1> USE DEF KeepGC
<1>1. CASE \E c \in Conn : ClientStep(c)
  BY <1>1 DEF ClientStep, SweepRefreshAnswered, SweepRefreshPrepares, SweepTeardownPending,
     SweepExited, SweepRunning, SweepWaiting, LaunchNotDue, LaunchHeld, LaunchPreparesSSH,
     LaunchFails, LaunchStarts, ReceiveStart, ReceiveRefresh, ReceiveStatus, ReceiveTerminate,
     ReceiveBad, FinallyCloses, Reconcile, EnterFinally
<1>2. CASE \/ PollBranchGC \/ LeaveLoop \/ PollIdleSSH \/ PollSSHAnswer \/ PollDeadSSH
           \/ (\E c \in Conn \cup {Listener} : HandleQuiet(c))
           \/ Accept \/ EndSweep \/ EndLaunch \/ EndHandle \/ BrokerExits \/ BeginServing
  BY <1>2 DEF PollBranchGC, LeaveLoop, PollIdleSSH, PollSSHAnswer, PollDeadSSH, EnterFinally,
     HandleQuiet, Accept, EndSweep, EndLaunch, EndHandle, BrokerExits, BeginServing
<1>3. CASE \/ ExecutionSteps \/ Timers \/ (\E c \in Conn : ClientCloses(c))
           \/ Signalled \/ SSHAnswers \/ SSHServiceExits \/ GCHelperAdvances
           \/ Restart \/ RefuseStartup
  BY <1>3 DEF ExecutionSteps, Timers, WaitExpires, DeadlineExpires, CleanupExpires,
     ClientCloses, Signalled, SSHAnswers, SSHServiceExits, GCHelperAdvances, Restart,
     RefuseStartup
<1>4. CASE BrokerCrashes
  BY <1>4 DEF BrokerCrashes, IInv, TypeOK
<1>5. CASE UNCHANGED vars
  BY <1>5 DEF vars
<1>6. QED
  BY <1>1, <1>2, <1>3, <1>4, <1>5 DEF Next, BrokerStep, Environment

\* Branch GC runs beside no workload, with any requests, clients, failures of
\* supervisors, guardians, cgroups and SSH: it takes a killed broker to break it.
THEOREM GCRunsAlone == MaxCrashes = 0 /\ Spec => []GCExclusive
<1> SUFFICES ASSUME MaxCrashes = 0 PROVE Spec => []GCExclusive
  OBVIOUS
<1>1. Init => ~gcOrphan
  BY DEF Init
<1>2. IInv /\ ~gcOrphan /\ [Next]_vars => ~gcOrphan'
  BY OrphanStep
<1>3. ~gcOrphan /\ (gcJob \in {"running", "overdue"} => \A c \in Conn : ~exec[c].workload)
        => GCExclusive
  BY DEF GCExclusive
<1>4. QED
  BY <1>1, <1>2, <1>3, GCOfLivingBroker, Invariance, PTL DEF Spec

----------------------------------------------------------------------------
(* The grace before a kill.                                                *)

\* The service is alive or was never started.
Serving == ssh.service # "exited"

LEMMA ServingStep ==
    ASSUME IInv, Serving, "ssh-exit" \notin Faults, Next
    PROVE  Serving'
<1> USE DEF Serving
<1>1. ssh \in SSHState
  BY DEF IInv, TypeOK
<1>2. CASE \E c \in Conn : LaunchPreparesSSH(c) \/ ReceiveRefresh(c)
  BY <1>1, <1>2 DEF LaunchPreparesSSH, ReceiveRefresh, Prepared, SSHState, NoSSH
<1>3. CASE \E c \in Conn : SweepRefreshPrepares(c)
  BY <1>1, <1>3 DEF SweepRefreshPrepares, Prepared, SSHState, EnterFinally
<1>4. CASE PollSSHAnswer \/ SSHAnswers
  BY <1>1, <1>4 DEF PollSSHAnswer, SSHAnswers, SSHState
<1>5. CASE BrokerExits \/ BrokerCrashes
  BY <1>5 DEF BrokerExits, BrokerCrashes, Forget, NoSSH
<1>6. CASE SSHServiceExits
  BY <1>6 DEF SSHServiceExits
<1>7. CASE \E c \in Conn :
              \/ SweepRefreshAnswered(c) \/ SweepTeardownPending(c) \/ SweepExited(c)
              \/ SweepRunning(c) \/ SweepWaiting(c)
              \/ LaunchNotDue(c) \/ LaunchHeld(c) \/ LaunchFails(c) \/ LaunchStarts(c)
              \/ ReceiveStart(c) \/ ReceiveStatus(c) \/ ReceiveTerminate(c) \/ ReceiveBad(c)
              \/ FinallyCloses(c) \/ Reconcile(c)
  BY <1>7 DEF SweepRefreshAnswered, SweepTeardownPending, SweepExited, SweepRunning,
     SweepWaiting, LaunchNotDue, LaunchHeld, LaunchFails, LaunchStarts, ReceiveStart,
     ReceiveStatus, ReceiveTerminate, ReceiveBad, FinallyCloses, Reconcile
<1>8. CASE \/ PollBranchGC \/ LeaveLoop \/ PollIdleSSH \/ PollDeadSSH
           \/ (\E c \in Conn \cup {Listener} : HandleQuiet(c))
           \/ Accept \/ EndSweep \/ EndLaunch \/ EndHandle \/ BeginServing
  BY <1>8 DEF PollBranchGC, LeaveLoop, PollIdleSSH, PollDeadSSH, EnterFinally,
     HandleQuiet, Accept, EndSweep, EndLaunch, EndHandle, BeginServing
<1>9. CASE \/ ExecutionSteps \/ Timers \/ (\E c \in Conn : ClientCloses(c))
           \/ Signalled \/ GCHelperAdvances \/ Restart \/ RefuseStartup
  BY <1>9 DEF ExecutionSteps, Timers, WaitExpires, DeadlineExpires, CleanupExpires,
     ClientCloses, Signalled, GCHelperAdvances, Restart, RefuseStartup
<1>10. QED
  BY <1>2, <1>3, <1>4, <1>5, <1>6, <1>7, <1>8, <1>9
     DEF Next, BrokerStep, ClientStep, Environment

\* What KillsOnlyAfterGrace says of one step.
Graceful ==
    \A c \in Conn :
        /\ exec[c].helper = "up" /\ exec'[c].helper = "dead"
        /\ exec[c].init = "up" /\ phase' # "down"
        => job[c].deadline = "passed"

\* A look changes no helper.
LEMMA LookKeepsHelper ==
    ASSUME NEW e \in ExecutionRecord, NEW o \in NamespaceExited(e)
    PROVE  o.exec.helper = e.helper /\ RemoveDirectory(o.exec).helper = e.helper
<1>1. o.exec \in {e, [e EXCEPT !.killed = TRUE], [e EXCEPT !.killed = TRUE, !.group = FALSE]}
  BY DEF NamespaceExited
<1>2. QED
  BY <1>1 DEF RemoveDirectory, ExecutionRecord

LEMMA GracefulClients ==
    ASSUME IInv, Serving, NEW c \in Conn, ClientStep(c)
    PROVE  Graceful
<1> USE DEF Graceful
<1>1. exec \in [Conn -> ExecutionRecord]
  BY DEF IInv, TypeOK
<1>2. CASE SweepTeardownPending(c) \/ SweepExited(c) \/ FinallyCloses(c) \/ Reconcile(c)
  <2>1. exec' = exec \/ \E o \in NamespaceExited(exec[c]) :
           \/ exec' = [exec EXCEPT ![c] = o.exec]
           \/ exec' = [exec EXCEPT ![c] = RemoveDirectory(o.exec)]
    BY <1>2 DEF SweepTeardownPending, SweepExited, FinallyCloses, Reconcile
  <2>2. \A d \in Conn : exec'[d].helper = exec[d].helper
    BY <1>1, <2>1, LookKeepsHelper
  <2>3. QED
    BY <2>2
<1>3. CASE SweepRunning(c)
  BY <1>1, <1>3 DEF SweepRunning
<1>4. CASE SweepRefreshPrepares(c)
  BY <1>4 DEF SweepRefreshPrepares, PrepareFails, Serving
<1>5. CASE LaunchStarts(c) \/ LaunchFails(c)
  BY <1>1, <1>5 DEF LaunchStarts, LaunchFails, MayLaunch, HasProcess, ExecutionRecord
<1>6. CASE \/ SweepRefreshAnswered(c) \/ SweepWaiting(c)
           \/ LaunchNotDue(c) \/ LaunchHeld(c) \/ LaunchPreparesSSH(c)
           \/ ReceiveStart(c) \/ ReceiveRefresh(c) \/ ReceiveStatus(c)
           \/ ReceiveTerminate(c) \/ ReceiveBad(c)
  BY <1>6 DEF SweepRefreshAnswered, SweepWaiting, LaunchNotDue, LaunchHeld,
     LaunchPreparesSSH, ReceiveStart, ReceiveRefresh, ReceiveStatus, ReceiveTerminate,
     ReceiveBad
<1>7. QED
  BY <1>2, <1>3, <1>4, <1>5, <1>6 DEF ClientStep

LEMMA GracefulLoop ==
    ASSUME IInv, Serving, BrokerStep
    PROVE  Graceful
<1> USE DEF Graceful
<1>1. CASE LeaveLoop
  BY <1>1 DEF LeaveLoop, EnterFinally, IInv, TypeOK
<1>2. CASE PollDeadSSH
  BY <1>2 DEF PollDeadSSH, Serving
<1>3. CASE \E c \in Conn : ClientStep(c)
  BY <1>3, GracefulClients
<1>4. CASE \/ PollBranchGC \/ PollIdleSSH \/ PollSSHAnswer
           \/ (\E c \in Conn \cup {Listener} : HandleQuiet(c))
           \/ Accept \/ EndSweep \/ EndLaunch \/ EndHandle \/ BrokerExits \/ BeginServing
  BY <1>4 DEF PollBranchGC, PollIdleSSH, PollSSHAnswer, HandleQuiet, Accept, EndSweep,
     EndLaunch, EndHandle, BrokerExits, BeginServing
<1>5. QED
  BY <1>1, <1>2, <1>3, <1>4 DEF BrokerStep

LEMMA GracefulAround ==
    ASSUME IInv, "helper" \notin Faults, Environment
    PROVE  Graceful
<1> USE DEF Graceful
<1>1. exec \in [Conn -> ExecutionRecord]
  BY DEF IInv, TypeOK
<1>2. ASSUME NEW c \in Conn, ExecutionStep(c) PROVE Graceful
  <2>1. CASE RecordIdentity(c) \/ SetupFails(c) \/ ReleaseInit(c)
    BY <1>1, <2>1 DEF RecordIdentity, SetupFails, ReleaseInit, ExecutionRecord
  <2>2. CASE NamespaceFinishes(c) \/ OrphanedInitDies(c) \/ GuardianKillsGroup(c)
    BY <1>1, <2>2 DEF NamespaceFinishes, OrphanedInitDies, GuardianKillsGroup, ExecutionRecord
  <2>3. CASE GroupEmpties(c) \/ GuardianExits(c) \/ GuardianFails(c)
    BY <1>1, <2>3 DEF GroupEmpties, GuardianExits, GuardianFails, ExecutionRecord
  <2>4. CASE HelperExits(c) \/ HelperKilled(c)
    BY <1>1, <2>4 DEF HelperExits, HelperKilled, ExecutionRecord
  <2>5. QED
    BY <1>2, <2>1, <2>2, <2>3, <2>4 DEF ExecutionStep
<1>3. CASE ExecutionSteps
  BY <1>2, <1>3 DEF ExecutionSteps
<1>4. CASE BrokerCrashes
  BY <1>4 DEF BrokerCrashes, Forget
<1>5. CASE \/ Timers \/ (\E c \in Conn : ClientCloses(c)) \/ Signalled \/ SSHAnswers
           \/ SSHServiceExits \/ GCHelperAdvances \/ Restart \/ RefuseStartup
  BY <1>5 DEF Timers, WaitExpires, DeadlineExpires, CleanupExpires, ClientCloses, Signalled,
     SSHAnswers, SSHServiceExits, GCHelperAdvances, Restart, RefuseStartup
<1>6. QED
  BY <1>3, <1>4, <1>5 DEF Environment

\* A helper whose workload runs is killed only when its five seconds have
\* passed, across any crashes and failures of guardians and cgroups: the regular
\* end of the loop finds no client, and both exceptions that end it earlier come
\* from an SSH service that has exited.
THEOREM KillsWithGrace ==
    "helper" \notin Faults /\ "ssh-exit" \notin Faults /\ Spec => KillsOnlyAfterGrace
<1> SUFFICES ASSUME "helper" \notin Faults, "ssh-exit" \notin Faults
             PROVE  Spec => KillsOnlyAfterGrace
  OBVIOUS
<1>1. Init => Serving
  BY DEF Init, Serving, NoSSH
<1>2. ASSUME IInv, Serving, [Next]_vars PROVE Serving'
  BY <1>2, ServingStep DEF vars, Serving
<1>3. ASSUME IInv, Serving, [Next]_vars PROVE [Graceful]_vars
  BY <1>3, GracefulLoop, GracefulAround DEF Next
<1>4. QED
  BY <1>1, <1>2, <1>3, Invariance, PTL DEF Spec, KillsOnlyAfterGrace, Graceful

----------------------------------------------------------------------------
(* The limit of clients is a limit of executions.                          *)

Live == {c \in Conn : exec[c].helper = "up" \/ exec[c].workload}
Limited == Cardinality(clients) <= MaxClients /\ Cardinality(Live) <= MaxClients

LEMMA CalmLive ==
    ASSUME \A c \in Conn : Calm(exec[c], exec'[c])
    PROVE  Live' \subseteq Live
BY DEF Calm, Live

\* Only accept() adds a client, and it counts before.
LEMMA ClientsStep ==
    ASSUME Next
    PROVE  clients' \subseteq clients \/ Accept
<1> USE DEF KeepClients, KeepBroker, Update, Close, EnterFinally, Forget
<1>1. CASE \E c \in Conn : ClientStep(c)
  BY <1>1 DEF ClientStep, SweepRefreshAnswered, SweepRefreshPrepares, SweepTeardownPending,
     SweepExited, SweepRunning, SweepWaiting, LaunchNotDue, LaunchHeld, LaunchPreparesSSH,
     LaunchFails, LaunchStarts, ReceiveStart, ReceiveRefresh, ReceiveStatus, ReceiveTerminate,
     ReceiveBad, FinallyCloses, Reconcile
<1>2. CASE \/ PollBranchGC \/ LeaveLoop \/ PollIdleSSH \/ PollSSHAnswer \/ PollDeadSSH
           \/ (\E c \in Conn \cup {Listener} : HandleQuiet(c))
           \/ EndSweep \/ EndLaunch \/ EndHandle \/ BrokerExits \/ BeginServing
  BY <1>2 DEF PollBranchGC, LeaveLoop, PollIdleSSH, PollSSHAnswer, PollDeadSSH,
     HandleQuiet, EndSweep, EndLaunch, EndHandle, BrokerExits, BeginServing
<1>3. CASE Environment
  BY <1>3 DEF Environment, ExecutionSteps, Timers, WaitExpires, DeadlineExpires,
     CleanupExpires, ClientCloses, Signalled, SSHAnswers, SSHServiceExits, GCHelperAdvances,
     BrokerCrashes, Restart, RefuseStartup
<1>4. QED
  BY <1>1, <1>2, <1>3 DEF Next, BrokerStep

\* Outside of the loop executions only end.
LEMMA LiveStep ==
    ASSUME IInv, Next, phase' \notin LoopPhase
    PROVE  Live' \subseteq Live
<1>0. /\ exec \in [Conn -> ExecutionRecord] /\ clients \subseteq Conn
      /\ \A d \in Conn : Tree(exec[d])
  BY DEF IInv, TypeOK
<1>1. ASSUME EnterFinally PROVE Live' \subseteq Live
  <2>1. \A d \in Conn : Calm(exec[d], exec'[d])
    BY <1>0, <1>1, CalmKill, CalmReflexive DEF EnterFinally
  <2>2. QED
    BY <2>1, CalmLive
<1>2. ASSUME NEW c \in Conn, FinallyCloses(c) PROVE Live' \subseteq Live
  <2>1. exec[c].helper # "up"
    BY <1>2 DEF IInv, Owners, LoopPhase, FinallyCloses, Visits
  <2>2. PICK f : exec' = [exec EXCEPT ![c] = f] /\ Calm(exec[c], f)
    BY <1>0, <1>2, <2>1, CalmLook, CalmReflexive DEF FinallyCloses
  <2>3. QED
    BY <2>2, CalmAt, CalmLive
<1>3. ASSUME NEW c \in Conn, Reconcile(c) PROVE Live' \subseteq Live
  <2>1. exec[c].helper # "up"
    BY <1>3 DEF IInv, Owners, LoopPhase, Reconcile
  <2>2. PICK f : exec' = [exec EXCEPT ![c] = f] /\ Calm(exec[c], f)
    BY <1>0, <1>3, <2>1, CalmLook DEF Reconcile
  <2>3. QED
    BY <2>2, CalmAt, CalmLive
<1>4. CASE ExecutionSteps
  BY <1>4, SupervisorSteps, CalmLive DEF Background
<1>5. CASE BrokerCrashes
  <2>1. \A d \in Conn : Calm(exec[d], exec'[d])
    BY <1>0, <1>5, CalmKill DEF BrokerCrashes
  <2>2. QED
    BY <2>1, CalmLive
<1>6. CASE UNCHANGED exec
  BY <1>6 DEF Live
<1>7. ASSUME NEW c \in Conn, ClientStep(c), ~FinallyCloses(c), ~Reconcile(c)
      PROVE  EnterFinally
  <2>1. phase \in {"sweep", "launch", "handle"}
    BY <1>7 DEF ClientStep, SweepRefreshAnswered, SweepRefreshPrepares, SweepTeardownPending,
       SweepExited, SweepRunning, SweepWaiting, LaunchNotDue, LaunchHeld, LaunchPreparesSSH,
       MayLaunch, LaunchFails, LaunchStarts, ReceiveStart, ReceiveRefresh, ReceiveStatus,
       ReceiveTerminate, ReceiveBad, Visits
  <2>2. phase' # phase
    BY <2>1 DEF LoopPhase
  <2>3. QED
    BY <1>7, <2>2 DEF ClientStep, SweepRefreshAnswered, SweepRefreshPrepares,
       SweepTeardownPending, SweepExited, SweepRunning, SweepWaiting, LaunchNotDue, LaunchHeld,
       LaunchPreparesSSH, LaunchFails, LaunchStarts, ReceiveStart, ReceiveRefresh,
       ReceiveStatus, ReceiveTerminate, ReceiveBad, Visited
<1>8. CASE LeaveLoop \/ PollDeadSSH
  BY <1>1, <1>8 DEF LeaveLoop, PollDeadSSH
<1>9. CASE \/ PollBranchGC \/ PollIdleSSH \/ PollSSHAnswer
           \/ (\E c \in Conn \cup {Listener} : HandleQuiet(c))
           \/ Accept \/ EndSweep \/ EndLaunch \/ EndHandle \/ BrokerExits \/ BeginServing
  BY <1>6, <1>9 DEF PollBranchGC, PollIdleSSH, PollSSHAnswer, HandleQuiet, Accept, EndSweep,
     EndLaunch, EndHandle, BrokerExits, BeginServing
<1>10. CASE \/ Timers \/ (\E c \in Conn : ClientCloses(c))
            \/ Signalled \/ SSHAnswers \/ SSHServiceExits \/ GCHelperAdvances
            \/ Restart \/ RefuseStartup
  BY <1>6, <1>10 DEF Timers, WaitExpires, DeadlineExpires, CleanupExpires, ClientCloses,
     Signalled, SSHAnswers, SSHServiceExits, GCHelperAdvances, Restart, RefuseStartup
<1>11. QED
  BY <1>1, <1>2, <1>3, <1>4, <1>5, <1>7, <1>8, <1>9, <1>10
     DEF Next, BrokerStep, Environment

LEMMA LimitStep ==
    ASSUME IInv, IInv', Limited, [Next]_vars
    PROVE  Limited'
<1>0. /\ MaxClients \in Nat
      /\ clients \subseteq Conn /\ clients' \subseteq Conn
      /\ Live \subseteq Conn /\ Live' \subseteq Conn
  BY LimitAssumption DEF IInv, TypeOK, Live
<1>1. IsFiniteSet(Conn)
  BY ConnAssumption, FS_Interval DEF Conn
<1>2. /\ IsFiniteSet(clients) /\ IsFiniteSet(clients')
      /\ IsFiniteSet(Live) /\ IsFiniteSet(Live')
  BY <1>0, <1>1, FS_Subset
<1>3. /\ Cardinality(clients) \in Nat /\ Cardinality(clients') \in Nat
      /\ Cardinality(Live) \in Nat /\ Cardinality(Live') \in Nat
  BY <1>2, FS_CardinalityType
<1>4. CASE UNCHANGED vars
  BY <1>4 DEF vars, Limited, Live
<1>5. CASE Next
  <2>1. Cardinality(clients') <= MaxClients
    <3>1. CASE clients' \subseteq clients
      <4>1. Cardinality(clients') <= Cardinality(clients)
        BY <1>2, <3>1, FS_Subset
      <4>2. QED
        BY <1>0, <1>3, <4>1 DEF Limited
    <3>2. CASE Accept /\ clients' = clients \cup {accepted + 1}
                     /\ Cardinality(clients) < MaxClients
      <4>1. Cardinality(clients \cup {accepted + 1})
              = IF accepted + 1 \in clients THEN Cardinality(clients) ELSE Cardinality(clients) + 1
        BY <1>2, FS_AddElement
      <4>2. QED
        BY <1>0, <1>3, <3>2, <4>1
    <3>3. ASSUME Accept
          PROVE  \/ clients' = clients
                 \/ /\ clients' = clients \cup {accepted + 1}
                    /\ Cardinality(clients) < MaxClients
      BY <1>0, <1>3, <3>3 DEF Accept
    <3>4. QED
      BY <1>5, <3>1, <3>2, <3>3, ClientsStep
  <2>2. Cardinality(Live') <= MaxClients
    <3>1. CASE phase' \in LoopPhase
      <4>1. Live' \subseteq clients'
        BY <3>1 DEF IInv, Owners, Live
      <4>2. Cardinality(Live') <= Cardinality(clients')
        BY <1>2, <4>1, FS_Subset
      <4>3. QED
        BY <1>0, <1>3, <2>1, <4>2
    <3>2. CASE phase' \notin LoopPhase
      <4>1. Cardinality(Live') <= Cardinality(Live)
        BY <1>2, <1>5, <3>2, LiveStep, FS_Subset
      <4>2. QED
        BY <1>0, <1>3, <4>1 DEF Limited
    <3>3. QED
      BY <3>1, <3>2
  <2>3. QED
    BY <2>1, <2>2 DEF Limited
<1>6. QED
  BY <1>4, <1>5

\* The limit of 64 clients bounds what runs on the machine, at every moment and not only for
\* one broker: executions that a killed broker has left are over before the next
\* one accepts its first client.
THEOREM ExecutionsLimited == Spec => [](Cardinality(Live) <= MaxClients)
<1>1. Init => Limited
  <2> SUFFICES ASSUME Init PROVE Limited
    OBVIOUS
  <2>1. clients = {} /\ Live = {}
    BY DEF Init, ExecutionInit, NoExecution, Live
  <2>2. QED
    BY <2>1, FS_EmptySet, LimitAssumption DEF Limited
<1>2. IInv /\ IInv' /\ Limited /\ [Next]_vars => Limited'
  BY LimitStep
<1>3. Limited => Cardinality(Live) <= MaxClients
  BY DEF Limited
<1>4. QED
  BY <1>1, <1>2, <1>3, Invariance, PTL DEF Spec
=============================================================================
