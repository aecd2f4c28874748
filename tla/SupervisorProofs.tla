-------------------------- MODULE SupervisorProofs --------------------------
(***************************************************************************)
(* Proofs about agent-supervisor.c: what a reported status implies, the    *)
(* grace that every execution gets, and that the supervisor implements the *)
(* process tree on which the broker's proofs rest.                         *)
(***************************************************************************)
EXTENDS SupervisorExecution, TLAPS

\* No workload runs before init has started its leader.
Quiet ==
    init \in {"none", "gated", "prepare"} =>
        procs = {} /\ ~finished /\ ~killed /\ deadline = "none"

\* main() and init move through set-up together; the gate opens only once the
\* record is written.
Stages ==
    /\ outer \in {"setup", "armed"} => init = "none" /\ ~recorded
    /\ outer = "record" => init = "gated" /\ ~recorded
    /\ outer = "release" => init = "gated" /\ recorded
    /\ outer \in {"check", "clear", "enter", "wait"} =>
           init \in {"prepare", "loop", "dead"}

\* A namespace ends with its init; a guardian that reports leaves nobody.
Ended == init = "dead" /\ (~host \/ finished) => procs = {}

\* A reported status is the status of a finished init.
Reported == status = "workload" => init = "dead" /\ finished

\* Only the leader's own end or SIGTERM starts the clock of a kill.
Graced ==
    /\ finished => Leader \notin procs \/ ~host
    /\ deadline # "none" => signalled \/ Leader \notin procs

SInv == TypeOK /\ Quiet /\ Stages /\ Ended /\ Reported /\ Graced

LEMMA InitInv == Init => SInv
<1> SUFFICES ASSUME Init PROVE SInv
  OBVIOUS
<1>1. terms \in 0..MaxTerms
  BY TermsAssumption DEF Init
<1>2. TypeOK
  BY <1>1, Zenon DEF Init, TypeOK, Outer, Inner
<1>3. QED
  BY <1>2 DEF Init, SInv, Quiet, Stages, Ended, Reported, Graced

LEMMA TypeStep ==
    ASSUME TypeOK, [Next]_vars
    PROVE  TypeOK'
<1> USE TermsAssumption DEF TypeOK, Outer, Inner, World, InitState, OuterState
<1>1. CASE OuterStep
  <2>1. CASE InstallHandlers
    BY <2>1 DEF InstallHandlers
  <2>2. CASE ForkInit
    BY <2>2, Zenon DEF ForkInit
  <2>3. CASE SetupError
    BY <2>3 DEF SetupError
  <2>4. CASE WriteRecord
    BY <2>4 DEF WriteRecord
  <2>5. CASE OpenGate
    BY <2>5 DEF OpenGate
  <2>6. CASE CheckStop
    <3>1. outer' \in {"clear", "enter"}
      BY <2>6 DEF CheckStop
    <3>2. told' \in BOOLEAN
      BY <2>6, Zenon DEF CheckStop
    <3>3. UNCHANGED <<host, owner, terms, pending, recorded, status, init, deadline,
                      killed, finished, signalled, procs>>
      BY <2>6 DEF CheckStop
    <3>4. QED
      BY <3>1, <3>2, <3>3
  <2>7. CASE ClearStop
    <3>1. outer' \in Outer /\ pending' \in BOOLEAN
      BY <2>7 DEF ClearStop
    <3>2. UNCHANGED <<recorded, status, procs, InitState, World>>
      BY <2>7 DEF ClearStop
    <3>3. QED
      BY <3>1, <3>2
  <2>8. CASE EnterWait
    BY <2>8 DEF EnterWait
  <2>9. CASE WaitForInit
    BY <2>9 DEF WaitForInit
  <2>10. QED
    BY <1>1, <2>1, <2>2, <2>3, <2>4, <2>5, <2>6, <2>7, <2>8, <2>9 DEF OuterStep
<1>2. CASE InitStep
  <2>1. CASE StartLeader
    BY <2>1 DEF StartLeader
  <2>2. CASE PrepareError
    BY <2>2 DEF PrepareError
  <2>3. CASE NoticeOwnerGone
    BY <2>3 DEF NoticeOwnerGone
  <2>4. CASE BeginGrace
    BY <2>4 DEF BeginGrace
  <2>5. CASE ReapLeader
    <3>1. init' \in Inner /\ finished' \in BOOLEAN /\ procs' \subseteq {Leader} \cup Others
      BY <2>5 DEF ReapLeader
    <3>2. UNCHANGED <<told, deadline, killed, signalled, OuterState, World>>
      BY <2>5 DEF ReapLeader
    <3>3. QED
      BY <3>1, <3>2
  <2>6. CASE NamespaceGraceOver
    BY <2>6 DEF NamespaceGraceOver
  <2>7. CASE KillGroup
    BY <2>7 DEF KillGroup
  <2>8. CASE GuardianDone
    BY <2>8 DEF GuardianDone
  <2>9. CASE GuardianGivesUp
    BY <2>9 DEF GuardianGivesUp
  <2>10. QED
    BY <1>2, <2>1, <2>2, <2>3, <2>4, <2>5, <2>6, <2>7, <2>8, <2>9 DEF InitStep
<1>3. CASE Term
  <2>1. terms' \in 0..MaxTerms
    BY <1>3 DEF Term
  <2>2. outer' \in Outer /\ pending' \in BOOLEAN
        /\ status' \in {"none", "workload", "failure"}
    BY <1>3, Zenon DEF Term
  <2>3. UNCHANGED <<host, owner, recorded, procs, InitState>>
    BY <1>3 DEF Term
  <2>4. QED
    BY <2>1, <2>2, <2>3
<1>4. CASE OwnerDies \/ OuterKilled \/ InitFollows \/ InitKilled \/ DeadlinePasses
  <2>1. CASE OwnerDies
    <3>1. owner' \in BOOLEAN
      BY <2>1 DEF OwnerDies
    <3>2. UNCHANGED <<host, terms, procs, InitState, OuterState>>
      BY <2>1 DEF OwnerDies
    <3>3. QED
      BY <3>1, <3>2
  <2>2. CASE OuterKilled
    <3>1. outer' = "dead" /\ status' = "failure"
      BY <2>2 DEF OuterKilled
    <3>2. UNCHANGED <<pending, recorded, procs, InitState, World>>
      BY <2>2 DEF OuterKilled
    <3>3. QED
      BY <3>1, <3>2
  <2>3. CASE InitFollows
    BY <2>3 DEF InitFollows
  <2>4. CASE InitKilled
    <3>1. init' \in Inner /\ finished' \in BOOLEAN /\ procs' \subseteq {Leader} \cup Others
      BY <2>4 DEF InitKilled
    <3>2. UNCHANGED <<told, deadline, killed, signalled, OuterState, World>>
      BY <2>4 DEF InitKilled
    <3>3. QED
      BY <3>1, <3>2
  <2>5. CASE DeadlinePasses
    BY <2>5 DEF DeadlinePasses
  <2>6. QED
    BY <1>4, <2>1, <2>2, <2>3, <2>4, <2>5
<1>5. CASE \E p \in procs : ProcessExits(p)
  BY <1>5 DEF ProcessExits
<1>6. CASE \E p \in Others : ProcessForks(p)
  BY <1>6 DEF ProcessForks
<1>7. CASE UNCHANGED vars
  BY <1>7 DEF vars
<1>8. QED
  BY <1>1, <1>2, <1>3, <1>4, <1>5, <1>6, <1>7 DEF Next

LEMMA InvStep ==
    ASSUME SInv, [Next]_vars
    PROVE  SInv'
<1>1. TypeOK'
  BY TypeStep DEF SInv
<1> USE ProcessAssumption
    DEF SInv, TypeOK, Outer, Inner, Quiet, Stages, Ended, Reported, Graced,
        World, InitState, OuterState
<1>2. CASE OuterStep
  BY <1>1, <1>2 DEF OuterStep, InstallHandlers, ForkInit, SetupError, WriteRecord,
     OpenGate, CheckStop, ClearStop, EnterWait, WaitForInit
<1>3. CASE InitStep
  <2>1. CASE StartLeader \/ PrepareError \/ NoticeOwnerGone \/ BeginGrace
    BY <1>1, <2>1 DEF StartLeader, PrepareError, NoticeOwnerGone, BeginGrace
  <2>2. CASE ReapLeader \/ NamespaceGraceOver
    BY <1>1, <2>2 DEF ReapLeader, NamespaceGraceOver
  <2>3. CASE KillGroup \/ GuardianDone \/ GuardianGivesUp
    BY <1>1, <2>3 DEF KillGroup, GuardianDone, GuardianGivesUp
  <2>4. QED
    BY <1>3, <2>1, <2>2, <2>3 DEF InitStep
<1>4. CASE Term
  BY <1>1, <1>4 DEF Term
<1>5. CASE OwnerDies \/ OuterKilled \/ InitFollows \/ InitKilled \/ DeadlinePasses
  BY <1>1, <1>5 DEF OwnerDies, OuterKilled, InitFollows, InitKilled, DeadlinePasses
<1>6. CASE \E p \in procs : ProcessExits(p)
  BY <1>1, <1>6 DEF ProcessExits
<1>7. CASE \E p \in Others : ProcessForks(p)
  BY <1>1, <1>7 DEF ProcessForks
<1>8. CASE UNCHANGED vars
  BY <1>1, <1>8 DEF vars
<1>9. QED
  BY <1>2, <1>3, <1>4, <1>5, <1>6, <1>7, <1>8 DEF Next

\* The stages of main() and init, and what they imply about the processes, hold
\* in every reachable state, for any workload and any number of signals.
THEOREM Stability == Spec => []SInv
<1>1. Init => SInv
  BY InitInv
<1>2. SInv /\ [Next]_vars => SInv'
  BY InvStep
<1>3. QED
  BY <1>1, <1>2, PTL DEF Spec

\* The statements of main() and of init, and what they know of each other, keep
\* their types whatever signals and failures arrive.
THEOREM TypeCorrect == Spec => []TypeOK
<1>1. SInv => TypeOK
  BY DEF SInv
<1>2. QED
  BY <1>1, Stability, PTL

\* What main() reports as the workload's status comes from a finished teardown.
THEOREM Teardown == Spec => []StatusAfterTeardown
<1>1. SInv => StatusAfterTeardown
  BY DEF SInv, Reported, Ended, StatusAfterTeardown
<1>2. QED
  BY <1>1, Stability, PTL

\* The supervisor kills only after the leader's end or after SIGTERM and the
\* grace.
THEOREM Grace == Spec => GraceBeforeKill
<1> DEFINE Killing == (killed' /\ ~killed) \/ (~host /\ finished' /\ ~finished)
           Excuse == Leader \notin procs \/ (signalled /\ deadline = "passed")
<1>1. ASSUME SInv, Next
      PROVE  Killing => Excuse
  <2> USE <1>1
      DEF SInv, TypeOK, Quiet, Graced, World, InitState, OuterState
  <2>1. CASE OuterStep
    BY <2>1 DEF OuterStep, InstallHandlers, ForkInit, SetupError, WriteRecord,
       OpenGate, CheckStop, ClearStop, EnterWait, WaitForInit
  <2>2. CASE InitStep
    BY <2>2 DEF InitStep, StartLeader, PrepareError, NoticeOwnerGone, BeginGrace,
       ReapLeader, NamespaceGraceOver, KillGroup, GuardianDone, GuardianGivesUp
  <2>3. CASE Term \/ OwnerDies \/ OuterKilled \/ InitFollows \/ InitKilled \/ DeadlinePasses
    BY <2>3 DEF Term, OwnerDies, OuterKilled, InitFollows, InitKilled, DeadlinePasses
  <2>4. CASE \E p \in procs : ProcessExits(p)
    BY <2>4 DEF ProcessExits
  <2>5. CASE \E p \in Others : ProcessForks(p)
    BY <2>5 DEF ProcessForks
  <2>6. QED
    BY <2>1, <2>2, <2>3, <2>4, <2>5 DEF Next
<1>2. SInv /\ [Next]_vars => [Killing => Excuse]_vars
  BY <1>1 DEF vars
<1>3. QED
  BY <1>2, Stability, PTL DEF Spec, GraceBeforeKill

----------------------------------------------------------------------------
(* The supervisor implements the process tree of module Execution: every    *)
(* statement changes at most one field or two of what the broker sees.      *)

\* The parts of the process tree that steps change.
HelperState == IF outer = "dead" THEN "dead" ELSE "up"
InitPlace == CASE init \in {"none", "gated"} -> "gated"
               [] init \in {"prepare", "loop"} -> "up"
               [] init = "dead" -> "dead"

Same == UNCHANGED <<host, HelperState, InitPlace, recorded, Workload, killed>>

LEMMA SameTree == Same => UNCHANGED ProcessTree
BY DEF Same, ProcessTree, HelperState, InitPlace

LEMMA Stutters ==
    ASSUME SInv, SInv',
           \/ InstallHandlers \/ ForkInit \/ CheckStop \/ ClearStop \/ EnterWait
           \/ StartLeader \/ NoticeOwnerGone \/ BeginGrace
           \/ ReapLeader /\ host
           \/ OwnerDies \/ DeadlinePasses
           \/ \E p \in Others : ProcessForks(p)
           \/ UNCHANGED vars
    PROVE  UNCHANGED ProcessTree
<1> USE DEF SInv, TypeOK, Quiet, Stages, Inner, Outer, World, InitState, OuterState,
        HelperState, InitPlace, Workload
<1>1. CASE InstallHandlers \/ ForkInit \/ CheckStop \/ ClearStop \/ EnterWait
  <2>1. Same
    BY <1>1 DEF Same, InstallHandlers, ForkInit, CheckStop, ClearStop, EnterWait
  <2>2. QED
    BY <2>1, SameTree
<1>2. CASE StartLeader \/ NoticeOwnerGone \/ BeginGrace \/ (ReapLeader /\ host)
  <2>1. Same
    BY <1>2 DEF Same, StartLeader, NoticeOwnerGone, BeginGrace, ReapLeader
  <2>2. QED
    BY <2>1, SameTree
<1>3. CASE OwnerDies \/ DeadlinePasses \/ (\E p \in Others : ProcessForks(p))
  <2>1. Same
    BY <1>3 DEF Same, OwnerDies, DeadlinePasses, ProcessForks
  <2>2. QED
    BY <2>1, SameTree
<1>4. CASE UNCHANGED vars
  <2>1. Same
    BY <1>4 DEF Same, vars
  <2>2. QED
    BY <2>1, SameTree
<1>5. QED
  BY <1>1, <1>2, <1>3, <1>4

LEMMA HelperSteps ==
    ASSUME SInv,
           \/ SetupError \/ WriteRecord \/ OpenGate \/ WaitForInit
           \/ Term \/ OuterKilled
    PROVE  Life!ExecutionStep(1) \/ UNCHANGED ProcessTree
<1> USE DEF SInv, TypeOK, Quiet, Stages, Inner, Outer, World, InitState, OuterState,
        Workload, ProcessTree
<1>1. CASE SetupError
  BY <1>1 DEF SetupError, Life!ExecutionStep, Life!SetupFails
<1>2. CASE WriteRecord
  BY <1>2 DEF WriteRecord, Life!ExecutionStep, Life!RecordIdentity
<1>3. CASE OpenGate
  BY <1>3 DEF OpenGate, Life!ExecutionStep, Life!ReleaseInit
<1>4. CASE WaitForInit
  BY <1>4 DEF WaitForInit, Life!ExecutionStep, Life!HelperExits
<1>5. CASE Term
  BY <1>5 DEF Term, Life!ExecutionStep, Life!SetupFails
<1>6. CASE OuterKilled
  BY <1>6 DEF OuterKilled, Life!ExecutionStep, Life!HelperKilled
<1>7. QED
  BY <1>1, <1>2, <1>3, <1>4, <1>5, <1>6

LEMMA InnerSteps ==
    ASSUME SInv, SInv',
           \/ PrepareError \/ ReapLeader \/ NamespaceGraceOver \/ KillGroup
           \/ GuardianDone \/ GuardianGivesUp \/ InitFollows \/ InitKilled
           \/ \E p \in procs : ProcessExits(p)
    PROVE  Life!ExecutionStep(1) \/ UNCHANGED ProcessTree
<1> USE DEF SInv, TypeOK, Quiet, Stages, Ended, Inner, Outer, World, InitState,
        OuterState, Workload, ProcessTree
<1>1. CASE PrepareError
  <2>1. CASE host
    BY ZenonT(60), <1>1, <2>1 DEF PrepareError, Life!ExecutionStep, Life!GuardianFails
  <2>2. CASE ~host
    BY <1>1, <2>2 DEF PrepareError, Life!ExecutionStep, Life!NamespaceFinishes
  <2>3. QED
    BY <2>1, <2>2
<1>2. CASE ReapLeader
  <2>1. CASE host
    BY <1>2, <2>1, Stutters
  <2>2. CASE ~host
    BY <1>2, <2>2 DEF ReapLeader, Life!ExecutionStep, Life!NamespaceFinishes
  <2>3. QED
    BY <2>1, <2>2
<1>3. CASE NamespaceGraceOver
  BY <1>3 DEF NamespaceGraceOver, Life!ExecutionStep, Life!NamespaceFinishes
<1>4. CASE KillGroup
  BY <1>4 DEF KillGroup, Life!ExecutionStep, Life!GuardianKillsGroup
<1>5. CASE GuardianDone
  BY <1>5 DEF GuardianDone, Life!ExecutionStep, Life!GuardianExits
<1>6. CASE GuardianGivesUp
  BY <1>6 DEF GuardianGivesUp, Life!ExecutionStep, Life!GuardianFails
<1>7. CASE InitFollows
  BY <1>7 DEF InitFollows, Life!ExecutionStep, Life!OrphanedInitDies
<1>8. CASE InitKilled
  <2>1. CASE host
    <3>1. Life!GuardianFails(1)
      BY ZenonT(60), <1>8, <2>1 DEF InitKilled, Life!GuardianFails
    <3>2. QED
      BY <3>1 DEF Life!ExecutionStep
  <2>2. CASE ~host
    <3>1. Life!NamespaceFinishes(1)
      BY <1>8, <2>2 DEF InitKilled, Life!NamespaceFinishes
    <3>2. QED
      BY <3>1 DEF Life!ExecutionStep
  <2>3. QED
    BY <2>1, <2>2
<1>9. CASE \E p \in procs : ProcessExits(p)
  <2>1. CASE host
    BY <1>9, <2>1 DEF ProcessExits, Life!ExecutionStep, Life!GroupEmpties
  <2>2. CASE ~host
    BY <1>9, <2>2 DEF ProcessExits
  <2>3. QED
    BY <2>1, <2>2
<1>10. QED
  BY <1>1, <1>2, <1>3, <1>4, <1>5, <1>6, <1>7, <1>8, <1>9

\* The supervisor, statement by statement and with every signal and failure,
\* implements the process tree that the broker's proofs take as given.
THEOREM Implementation == Spec => ImplementsExecution
<1>1. Init => ProcessTree = Life!NewExecution({}, host)
  BY DEF Init, ProcessTree, Workload, Life!NewExecution
<1>2. SInv /\ SInv' /\ [Next]_vars => [Life!ExecutionStep(1)]_ProcessTree
  BY Stutters, HelperSteps, InnerSteps DEF Next, OuterStep, InitStep
<1>3. QED
  BY <1>1, <1>2, Stability, PTL DEF Spec, ImplementsExecution
=============================================================================
