--------------------------- MODULE RecordsProofs ----------------------------
(***************************************************************************)
(* Proofs that the records of an execution suffice: whatever runs is on    *)
(* record, and so is every cgroup, across any number of crashed brokers,   *)
(* killed processes, reused process numbers and reboots.                   *)
(***************************************************************************)
EXTENDS RecordsExecution, TLAPS

Removing == {"scan", "remove", "done"}

\* A cgroup is made after its record and removed before it.
GroupFirst ==
    /\ GroupRecorded
    /\ broker \in Launching \ {"mkdir"} => exists
    /\ broker = "groupMake" => groupFile = 1
    /\ group \/ broker \in {"groupCreate", "groupWrite", "groupMake", "lookEvents", "lookRmdir"} =>
           host
    /\ broker \in (Launching \ {"popen", "running"}) \cup Removing => ~group

\* How far the helper, its init and the workload can be at the same time.
Stages ==
    /\ broker \in Launching \ {"running"} => helper = "none"
    /\ helper \in {"none", "fork"} => init = "none"
    /\ helper \in {"create", "write", "release"} => init \in {"gated", "zombie"}
    /\ helper \in {"none", "fork", "create", "write", "release"} \/ init = "gated" =>
           workload = "none"
    /\ init \in {"open", "move"} => host
    /\ ~host /\ workload # "none" => init = "watch"
    /\ host /\ workload # "none" => group
    /\ init \in {"gated", "open", "move", "watch", "zombie"} => proc[me.pid] = me.start

\* As long as a guardian has its cgroup, its identity is on disk.
HostRecorded ==
    host /\ group =>
        /\ helper = "write" => identity = Half
        /\ helper = "release" \/ init \in {"open", "move", "watch"} \/ workload # "none" =>
               identity = me

\* As long as its broker lives, so is that of a namespace ...
NamespaceRecorded ==
    ~host /\ owner =>
        /\ helper = "write" => exists /\ identity = Half
        /\ helper = "release" \/ workload # "none" => exists /\ identity = me

\* ... because that broker looks after the helper has ended, and what it has
\* found out about a workload that still runs is right.
OwnerLooks ==
    /\ broker = "down" => ~owner
    /\ owner /\ broker \in Looking \cup Removing => helper \in {"none", "dead"}
    /\ owner /\ broker \in (Launching \ {"mkdir", "bootCreate", "bootWrite"}) \cup Looking =>
           bootId = boot
    /\ owner /\ ~host /\ workload # "none" =>
           /\ broker \notin {"lookGroup", "lookEvents", "lookRmdir"} \cup Removing
           /\ broker \in {"lookStat", "lookSelect"} => fd = me

\* No start lies in the future, no record is of a later boot.
Clocked ==
    /\ \A p \in Pid : proc[p] <= clock
    /\ me.start <= clock
    /\ bootId <= boot
    /\ init = "none" => me = Nobody

\* A record of this boot names init, if anybody.
Named ==
    /\ init = "none" \/ helper = "create" => identity = None
    /\ helper = "write" => identity \in {None, Half}
    /\ bootId = boot => identity \in {None, Half, me}
    /\ helper \notin {"none", "dead"} \/ InitLives => bootId \in {Absent, boot}
    /\ broker \in Launching => owner

\* What a look has found out so far about the process that it has opened: it is
\* the one on record, or it will turn out to be somebody else.
Opened ==
    /\ broker \in {"lookIdentity", "lookPidfd", "lookStat", "lookSelect"} =>
           bootId \in {Absent, boot}
    /\ broker \in {"lookStat", "lookSelect"} => fd.pid = identity.pid /\ fd.start <= clock
    /\ broker = "lookStat" /\ identity = me => fd = me \/ proc[me.pid] # me.start
    /\ broker = "lookSelect" =>
           /\ identity = me => fd = me
           /\ fd = identity \/ proc[fd.pid] # fd.start

Inv ==
    /\ TypeOK /\ GroupFirst /\ Stages
    /\ HostRecorded /\ NamespaceRecorded /\ OwnerLooks
    /\ Clocked /\ Named /\ Opened

(* The parts of TypeOK: Booleans, then what the steps of one party change.  *)

Flags ==
    host \in BOOLEAN /\ owner \in BOOLEAN /\ exists \in BOOLEAN /\ group \in BOOLEAN
BrokerTyped ==
    broker \in Launching \cup Looking \cup Ending /\ listed \subseteq Names
FilesTyped ==
    /\ bootId \in {Absent, Torn} \cup Boot
    /\ identity \in {None, Half} \cup Process
    /\ groupFile \in {Absent, Torn, 1}
TreeTyped ==
    /\ helper \in {"none", "fork", "create", "write", "release", "wait", "dead"}
    /\ init \in {"none", "gated", "open", "move", "watch", "zombie", "gone"}
    /\ me \in {Nobody} \cup Process
    /\ workload \in {"none", "up", "killed"}
    /\ init \in {"gated", "open", "move", "watch", "zombie"} => me \in Process
KernelTyped ==
    /\ boot \in Boot /\ proc \in [Pid -> {0} \cup Time]
    /\ clock \in {0} \cup Time /\ faults \in 0..MaxFaults
LookTyped ==
    /\ fd \in {Nobody} \cup Process
    /\ broker \in {"lookPidfd", "lookStat", "lookSelect"} => identity \in Process
    /\ broker \in {"lookStat", "lookSelect"} => fd \in Process

\* The parts of TypeOK, one by one.
LEMMA FlagsStep ==
  ASSUME Flags, Next
  PROVE  Flags'
<1> USE DEF Goto, Look, Fault, files, tree, kernel, Flags
<1>1. CASE Mkdir \/ BootCreate \/ BootWrite \/ GroupCreate \/ GroupWrite \/ GroupMake \/ Popen
  BY <1>1, Zenon DEF Mkdir, BootCreate, BootWrite, GroupCreate, GroupWrite, GroupMake, Popen
<1>2. CASE HelperSeen \/ LookBoot \/ LookIdentity \/ LookTorn \/ LookReaped \/ LookPidfd
  BY <1>2, Zenon DEF HelperSeen, LookBoot, LookIdentity, LookTorn, LookReaped, LookPidfd
<1>3. CASE LookStat \/ LookSelect \/ LookGroup \/ LookEvents \/ LookRmdir \/ LookAgain
  BY <1>3, Zenon DEF LookStat, LookSelect, LookGroup, LookEvents, LookRmdir, LookAgain
<1>4. CASE Scan \/ (\E n \in Names : Unlink(n)) \/ Rmdir
  BY <1>4, Zenon DEF Scan, Unlink, Rmdir
<1>5. CASE HelperForks \/ HelperCreates \/ HelperWrites \/ HelperReleases \/ HelperExits
  BY <1>5, Zenon DEF HelperForks, HelperCreates, HelperWrites, HelperReleases, HelperExits
<1>6. CASE GuardianOpens \/ GuardianMoves \/ GuardianKills \/ GuardianExits \/ GuardianFails
  BY <1>6, Zenon DEF GuardianOpens, GuardianMoves, GuardianKills, GuardianExits, GuardianFails
<1>7. CASE InitFollows \/ InitReaped \/ HelperKilled \/ WorkloadEnds \/ KillHelper \/ NamespaceEnds
  BY <1>7, Zenon DEF InitFollows, InitReaped, HelperKilled, WorkloadEnds, KillHelper, NamespaceEnds
<1>8. CASE GiveUp \/ BrokerKilled \/ BrokerStarts
  BY <1>8, Zenon DEF GiveUp, BrokerKilled, BrokerStarts
<1>9. CASE Reboot
  BY <1>9, Zenon DEF Reboot
<1>10. CASE (\E p \in Pid : OtherStarts(p)) \/ (\E p \in Pid : OtherExits(p))
  BY <1>10, Zenon DEF OtherStarts, OtherExits
<1> QED  BY <1>1, <1>2, <1>3, <1>4, <1>5, <1>6, <1>7, <1>8, <1>9, <1>10, Zenon DEF Next, Launch, Check, Supervisor, Kernel, Teardown, Others

LEMMA BrokerTypeStep ==
  ASSUME BrokerTyped, Next
  PROVE  BrokerTyped'
<1> USE DEF Goto, Look, Fault, files, tree, kernel, BrokerTyped, Launching, Looking, Ending, Names, Present
<1>1. CASE Mkdir \/ BootCreate \/ BootWrite \/ GroupCreate \/ GroupWrite \/ GroupMake \/ Popen
  BY <1>1 DEF Mkdir, BootCreate, BootWrite, GroupCreate, GroupWrite, GroupMake, Popen
<1>2. CASE HelperSeen \/ LookBoot \/ LookIdentity \/ LookTorn \/ LookReaped \/ LookPidfd
  BY <1>2 DEF HelperSeen, LookBoot, LookIdentity, LookTorn, LookReaped, LookPidfd
<1>3. CASE LookStat \/ LookSelect \/ LookGroup \/ LookEvents \/ LookRmdir \/ LookAgain
  BY <1>3 DEF LookStat, LookSelect, LookGroup, LookEvents, LookRmdir, LookAgain
<1>4. CASE Scan \/ (\E n \in Names : Unlink(n)) \/ Rmdir
  BY <1>4 DEF Scan, Unlink, Rmdir
<1>5. CASE HelperForks \/ HelperCreates \/ HelperWrites \/ HelperReleases \/ HelperExits
  BY <1>5 DEF HelperForks, HelperCreates, HelperWrites, HelperReleases, HelperExits
<1>6. CASE GuardianOpens \/ GuardianMoves \/ GuardianKills \/ GuardianExits \/ GuardianFails
  BY <1>6 DEF GuardianOpens, GuardianMoves, GuardianKills, GuardianExits, GuardianFails
<1>7. CASE InitFollows \/ InitReaped \/ HelperKilled \/ WorkloadEnds \/ KillHelper \/ NamespaceEnds
  BY <1>7 DEF InitFollows, InitReaped, HelperKilled, WorkloadEnds, KillHelper, NamespaceEnds
<1>8. CASE GiveUp \/ BrokerKilled \/ BrokerStarts
  BY <1>8 DEF GiveUp, BrokerKilled, BrokerStarts
<1>9. CASE Reboot
  BY <1>9 DEF Reboot
<1>10. CASE (\E p \in Pid : OtherStarts(p)) \/ (\E p \in Pid : OtherExits(p))
  BY <1>10 DEF OtherStarts, OtherExits
<1> QED  BY <1>1, <1>2, <1>3, <1>4, <1>5, <1>6, <1>7, <1>8, <1>9, <1>10 DEF Next, Launch, Check, Supervisor, Kernel, Teardown, Others

LEMMA FilesTypeStep ==
  ASSUME FilesTyped, TreeTyped, KernelTyped, Next
  PROVE  FilesTyped'
<1> USE DEF Goto, Look, Fault, files, tree, kernel, FilesTyped, TreeTyped, KernelTyped, None, Half, Nobody, Process, Absent, Torn, Pid, Time, Boot
<1>1. CASE Mkdir \/ BootCreate \/ BootWrite \/ GroupCreate \/ GroupWrite \/ GroupMake \/ Popen
  BY <1>1 DEF Mkdir, BootCreate, BootWrite, GroupCreate, GroupWrite, GroupMake, Popen
<1>2. CASE HelperSeen \/ LookBoot \/ LookIdentity \/ LookTorn \/ LookReaped \/ LookPidfd
  BY <1>2 DEF HelperSeen, LookBoot, LookIdentity, LookTorn, LookReaped, LookPidfd
<1>3. CASE LookStat \/ LookSelect \/ LookGroup \/ LookEvents \/ LookRmdir \/ LookAgain
  BY <1>3 DEF LookStat, LookSelect, LookGroup, LookEvents, LookRmdir, LookAgain
<1>4. CASE Scan \/ (\E n \in Names : Unlink(n)) \/ Rmdir
  BY <1>4 DEF Scan, Unlink, Rmdir
<1>5. CASE HelperForks \/ HelperCreates \/ HelperWrites \/ HelperReleases \/ HelperExits
  BY <1>5 DEF HelperForks, HelperCreates, HelperWrites, HelperReleases, HelperExits
<1>6. CASE GuardianOpens \/ GuardianMoves \/ GuardianKills \/ GuardianExits \/ GuardianFails
  BY <1>6 DEF GuardianOpens, GuardianMoves, GuardianKills, GuardianExits, GuardianFails
<1>7. CASE InitFollows \/ InitReaped \/ HelperKilled \/ WorkloadEnds \/ KillHelper \/ NamespaceEnds
  BY <1>7 DEF InitFollows, InitReaped, HelperKilled, WorkloadEnds, KillHelper, NamespaceEnds
<1>8. CASE GiveUp \/ BrokerKilled \/ BrokerStarts
  BY <1>8 DEF GiveUp, BrokerKilled, BrokerStarts
<1>9. CASE Reboot
  BY <1>9 DEF Reboot
<1>10. CASE (\E p \in Pid : OtherStarts(p)) \/ (\E p \in Pid : OtherExits(p))
  BY <1>10 DEF OtherStarts, OtherExits
<1> QED  BY <1>1, <1>2, <1>3, <1>4, <1>5, <1>6, <1>7, <1>8, <1>9, <1>10 DEF Next, Launch, Check, Supervisor, Kernel, Teardown, Others

LEMMA TreeTypeStep ==
  ASSUME TreeTyped, KernelTyped, Next
  PROVE  TreeTyped'
<1> USE DEF Goto, Look, Fault, files, tree, kernel, TreeTyped, KernelTyped, None, Half, Nobody, Process, Absent, Torn, Pid, Time, Boot
<1>1. CASE Mkdir \/ BootCreate \/ BootWrite \/ GroupCreate \/ GroupWrite \/ GroupMake \/ Popen
  BY <1>1 DEF Mkdir, BootCreate, BootWrite, GroupCreate, GroupWrite, GroupMake, Popen
<1>2. CASE HelperSeen \/ LookBoot \/ LookIdentity \/ LookTorn \/ LookReaped \/ LookPidfd
  BY <1>2 DEF HelperSeen, LookBoot, LookIdentity, LookTorn, LookReaped, LookPidfd
<1>3. CASE LookStat \/ LookSelect \/ LookGroup \/ LookEvents \/ LookRmdir \/ LookAgain
  BY <1>3 DEF LookStat, LookSelect, LookGroup, LookEvents, LookRmdir, LookAgain
<1>4. CASE Scan \/ (\E n \in Names : Unlink(n)) \/ Rmdir
  BY <1>4 DEF Scan, Unlink, Rmdir
<1>5. CASE HelperForks \/ HelperCreates \/ HelperWrites \/ HelperReleases \/ HelperExits
  <2>1. CASE HelperForks
    <3>1. clock + 1 \in Time
      BY <2>1, RecordBounds DEF HelperForks
    <3>2. me' \in Process
      BY <2>1, <3>1 DEF HelperForks
    <3> QED  BY <2>1, <3>2 DEF HelperForks
  <2>2. CASE HelperCreates
    BY <2>2 DEF HelperCreates
  <2>3. CASE HelperWrites
    BY <2>3 DEF HelperWrites
  <2>4. CASE HelperReleases
    BY <2>4 DEF HelperReleases
  <2>5. CASE HelperExits
    BY <2>5 DEF HelperExits
  <2> QED  BY <1>5, <2>1, <2>2, <2>3, <2>4, <2>5
<1>6. CASE GuardianOpens \/ GuardianMoves \/ GuardianKills \/ GuardianExits \/ GuardianFails
  BY <1>6 DEF GuardianOpens, GuardianMoves, GuardianKills, GuardianExits, GuardianFails
<1>7. CASE InitFollows \/ InitReaped \/ HelperKilled \/ WorkloadEnds \/ KillHelper \/ NamespaceEnds
  BY <1>7 DEF InitFollows, InitReaped, HelperKilled, WorkloadEnds, KillHelper, NamespaceEnds
<1>8. CASE GiveUp \/ BrokerKilled \/ BrokerStarts
  BY <1>8 DEF GiveUp, BrokerKilled, BrokerStarts
<1>9. CASE Reboot
  BY <1>9 DEF Reboot
<1>10. CASE (\E p \in Pid : OtherStarts(p)) \/ (\E p \in Pid : OtherExits(p))
  BY <1>10 DEF OtherStarts, OtherExits
<1> QED  BY <1>1, <1>2, <1>3, <1>4, <1>5, <1>6, <1>7, <1>8, <1>9, <1>10 DEF Next, Launch, Check, Supervisor, Kernel, Teardown, Others

LEMMA KernelTypeStep ==
  ASSUME TreeTyped, KernelTyped, Next
  PROVE  KernelTyped'
<1> USE DEF Goto, Look, Fault, files, tree, kernel, TreeTyped, KernelTyped, None, Half, Nobody, Process, Absent, Torn, Pid, Time, Boot
<1>1. CASE Mkdir \/ BootCreate \/ BootWrite \/ GroupCreate \/ GroupWrite \/ GroupMake \/ Popen
  BY RecordBounds, <1>1 DEF Mkdir, BootCreate, BootWrite, GroupCreate, GroupWrite, GroupMake, Popen
<1>2. CASE HelperSeen \/ LookBoot \/ LookIdentity \/ LookTorn \/ LookReaped \/ LookPidfd
  BY RecordBounds, <1>2 DEF HelperSeen, LookBoot, LookIdentity, LookTorn, LookReaped, LookPidfd
<1>3. CASE LookStat \/ LookSelect \/ LookGroup \/ LookEvents \/ LookRmdir \/ LookAgain
  BY RecordBounds, <1>3 DEF LookStat, LookSelect, LookGroup, LookEvents, LookRmdir, LookAgain
<1>4. CASE Scan \/ (\E n \in Names : Unlink(n)) \/ Rmdir
  BY RecordBounds, <1>4 DEF Scan, Unlink, Rmdir
<1>5. CASE HelperForks \/ HelperCreates \/ HelperWrites \/ HelperReleases \/ HelperExits
  BY RecordBounds, <1>5 DEF HelperForks, HelperCreates, HelperWrites, HelperReleases, HelperExits
<1>6. CASE GuardianOpens \/ GuardianMoves \/ GuardianKills \/ GuardianExits \/ GuardianFails
  BY RecordBounds, <1>6 DEF GuardianOpens, GuardianMoves, GuardianKills, GuardianExits, GuardianFails
<1>7. CASE InitFollows \/ InitReaped \/ HelperKilled \/ WorkloadEnds \/ KillHelper \/ NamespaceEnds
  BY RecordBounds, <1>7 DEF InitFollows, InitReaped, HelperKilled, WorkloadEnds, KillHelper, NamespaceEnds
<1>8. CASE GiveUp \/ BrokerKilled \/ BrokerStarts
  BY RecordBounds, <1>8 DEF GiveUp, BrokerKilled, BrokerStarts
<1>9. CASE Reboot
  BY RecordBounds, <1>9 DEF Reboot
<1>10. CASE (\E p \in Pid : OtherStarts(p)) \/ (\E p \in Pid : OtherExits(p))
  BY RecordBounds, <1>10 DEF OtherStarts, OtherExits
<1> QED  BY RecordBounds, <1>1, <1>2, <1>3, <1>4, <1>5, <1>6, <1>7, <1>8, <1>9, <1>10 DEF Next, Launch, Check, Supervisor, Kernel, Teardown, Others

LEMMA LookTypeStep ==
  ASSUME LookTyped, FilesTyped, TreeTyped, KernelTyped, Stages, GroupFirst, Next
  PROVE  LookTyped'
<1> USE DEF Goto, Look, Fault, files, tree, kernel, LookTyped, FilesTyped, KernelTyped, None, Half, Nobody, Process, Absent, Torn, Pid, Time, Boot
<1>1. CASE Mkdir \/ BootCreate \/ BootWrite \/ GroupCreate \/ GroupWrite \/ GroupMake \/ Popen
  BY <1>1 DEF Mkdir, BootCreate, BootWrite, GroupCreate, GroupWrite, GroupMake, Popen
<1>2. CASE HelperSeen \/ LookBoot \/ LookIdentity \/ LookTorn \/ LookReaped \/ LookPidfd
  BY <1>2 DEF HelperSeen, LookBoot, LookIdentity, LookTorn, LookReaped, LookPidfd
<1>3. CASE LookStat \/ LookSelect \/ LookGroup \/ LookEvents \/ LookRmdir \/ LookAgain
  BY <1>3 DEF LookStat, LookSelect, LookGroup, LookEvents, LookRmdir, LookAgain
<1>4. CASE Scan \/ (\E n \in Names : Unlink(n)) \/ Rmdir
  BY <1>4 DEF Scan, Unlink, Rmdir
<1>5. CASE HelperForks \/ HelperCreates \/ HelperWrites \/ HelperReleases \/ HelperExits
  <2>1. CASE HelperForks
    BY <2>1 DEF HelperForks
  <2>2. CASE HelperCreates
    <3>1. identity \in Process => identity' = identity
      BY <2>2 DEF HelperCreates
    <3> QED  BY <2>2, <3>1 DEF HelperCreates
  <2>3. CASE HelperWrites
    <3>1. me \in Process
      BY <2>3 DEF HelperWrites, TreeTyped, Stages
    <3>2. identity \in Process => identity' = me
      BY <2>3 DEF HelperWrites
    <3> QED  BY <2>3, <3>1, <3>2 DEF HelperWrites
  <2>4. CASE HelperReleases
    BY <2>4 DEF HelperReleases
  <2>5. CASE HelperExits
    BY <2>5 DEF HelperExits
  <2> QED  BY <1>5, <2>1, <2>2, <2>3, <2>4, <2>5
<1>6. CASE GuardianOpens \/ GuardianMoves \/ GuardianKills \/ GuardianExits \/ GuardianFails
  BY <1>6 DEF GuardianOpens, GuardianMoves, GuardianKills, GuardianExits, GuardianFails
<1>7. CASE InitFollows \/ InitReaped \/ HelperKilled \/ WorkloadEnds \/ KillHelper \/ NamespaceEnds
  BY <1>7 DEF InitFollows, InitReaped, HelperKilled, WorkloadEnds, KillHelper, NamespaceEnds
<1>8. CASE GiveUp \/ BrokerKilled \/ BrokerStarts
  BY <1>8 DEF GiveUp, BrokerKilled, BrokerStarts
<1>9. CASE Reboot
  BY <1>9 DEF Reboot
<1>10. CASE (\E p \in Pid : OtherStarts(p)) \/ (\E p \in Pid : OtherExits(p))
  BY <1>10 DEF OtherStarts, OtherExits
<1> QED  BY <1>1, <1>2, <1>3, <1>4, <1>5, <1>6, <1>7, <1>8, <1>9, <1>10 DEF Next, Launch, Check, Supervisor, Kernel, Teardown, Others

\* Only allocate_host_cgroup makes a group, only an emptied one is removed.
LEMMA GroupStep ==
  ASSUME GroupFirst, TypeOK, Stages, Next
  PROVE  GroupFirst'
<1> USE DEF Goto, Look, Fault, files, tree, kernel, TypeOK, Launching, Looking, Ending, Names, None, Half, Nobody, Process, GroupFirst, GroupRecorded, Removing, Absent, Torn
<1>1. CASE Mkdir \/ BootCreate \/ BootWrite \/ GroupCreate \/ GroupWrite \/ GroupMake \/ Popen
  BY <1>1 DEF Mkdir, BootCreate, BootWrite, GroupCreate, GroupWrite, GroupMake, Popen
<1>2. CASE HelperSeen \/ LookBoot \/ LookIdentity \/ LookTorn \/ LookReaped \/ LookPidfd
  BY <1>2 DEF HelperSeen, LookBoot, LookIdentity, LookTorn, LookReaped, LookPidfd
<1>3. CASE LookStat \/ LookSelect \/ LookGroup \/ LookEvents \/ LookRmdir \/ LookAgain
  <2>1. CASE LookStat
    BY <2>1 DEF LookStat
  <2>2. CASE LookSelect
    BY <2>2 DEF LookSelect
  <2>3. CASE LookGroup
    BY <2>3 DEF LookGroup
  <2>4. CASE LookEvents
    BY <2>4 DEF LookEvents
  <2>5. CASE LookRmdir
    <3>1. CASE workload = "none"
      BY <2>5, <3>1 DEF LookRmdir
    <3>2. CASE workload # "none" /\ broker = "lookRmdir" /\ broker' = "again"
      <4>1. group
        BY <3>2 DEF Stages
      <4>2. group' = (workload # "none") /\ UNCHANGED <<host, exists, groupFile>>
        BY <2>5 DEF LookRmdir
      <4>3. group'
        BY <3>2, <4>2
      <4> QED  BY <3>2, <4>1, <4>2, <4>3
    <3> QED  BY <2>5, <3>1, <3>2 DEF LookRmdir
  <2>6. CASE LookAgain
    BY <2>6 DEF LookAgain
  <2> QED  BY <1>3, <2>1, <2>2, <2>3, <2>4, <2>5, <2>6
<1>4. CASE Scan \/ (\E n \in Names : Unlink(n)) \/ Rmdir
  BY <1>4 DEF Scan, Unlink, Rmdir
<1>5. CASE HelperForks \/ HelperCreates \/ HelperWrites \/ HelperReleases \/ HelperExits
  BY <1>5 DEF HelperForks, HelperCreates, HelperWrites, HelperReleases, HelperExits
<1>6. CASE GuardianOpens \/ GuardianMoves \/ GuardianKills \/ GuardianExits \/ GuardianFails
  BY <1>6 DEF GuardianOpens, GuardianMoves, GuardianKills, GuardianExits, GuardianFails
<1>7. CASE InitFollows \/ InitReaped \/ HelperKilled \/ WorkloadEnds \/ KillHelper \/ NamespaceEnds
  BY <1>7 DEF InitFollows, InitReaped, HelperKilled, WorkloadEnds, KillHelper, NamespaceEnds
<1>8. CASE GiveUp \/ BrokerKilled \/ BrokerStarts
  BY <1>8 DEF GiveUp, BrokerKilled, BrokerStarts
<1>9. CASE Reboot
  BY <1>9 DEF Reboot
<1>10. CASE (\E p \in Pid : OtherStarts(p)) \/ (\E p \in Pid : OtherExits(p))
  BY <1>10 DEF OtherStarts, OtherExits
<1> QED  BY <1>1, <1>2, <1>3, <1>4, <1>5, <1>6, <1>7, <1>8, <1>9, <1>10 DEF Next, Launch, Check, Supervisor, Kernel, Teardown, Others

\* A workload begins behind the gate and ends with its group or its namespace.
LEMMA StagesStep ==
  ASSUME TypeOK, GroupFirst, Stages, Next
  PROVE  Stages'
<1> USE DEF Goto, Look, Fault, files, tree, kernel, TypeOK, Launching, Looking, Ending, Names, None, Half, Nobody, Process, GroupFirst, Stages, Removing
<1>1. CASE Mkdir \/ BootCreate \/ BootWrite \/ GroupCreate \/ GroupWrite \/ GroupMake \/ Popen
  BY <1>1 DEF Mkdir, BootCreate, BootWrite, GroupCreate, GroupWrite, GroupMake, Popen
<1>2. CASE HelperSeen \/ LookBoot \/ LookIdentity \/ LookTorn \/ LookReaped \/ LookPidfd
  BY <1>2 DEF HelperSeen, LookBoot, LookIdentity, LookTorn, LookReaped, LookPidfd
<1>3. CASE LookStat \/ LookSelect \/ LookGroup \/ LookEvents \/ LookRmdir \/ LookAgain
  BY <1>3 DEF LookStat, LookSelect, LookGroup, LookEvents, LookRmdir, LookAgain
<1>4. CASE Scan \/ (\E n \in Names : Unlink(n)) \/ Rmdir
  BY <1>4 DEF Scan, Unlink, Rmdir
<1>5. CASE HelperForks \/ HelperCreates \/ HelperWrites \/ HelperReleases \/ HelperExits
  BY <1>5 DEF HelperForks, HelperCreates, HelperWrites, HelperReleases, HelperExits
<1>6. CASE GuardianOpens \/ GuardianMoves \/ GuardianKills \/ GuardianExits \/ GuardianFails
  BY <1>6 DEF GuardianOpens, GuardianMoves, GuardianKills, GuardianExits, GuardianFails
<1>7. CASE InitFollows \/ InitReaped \/ HelperKilled \/ WorkloadEnds \/ KillHelper \/ NamespaceEnds
  BY <1>7 DEF InitFollows, InitReaped, HelperKilled, WorkloadEnds, KillHelper, NamespaceEnds
<1>8. CASE GiveUp \/ BrokerKilled \/ BrokerStarts
  BY <1>8 DEF GiveUp, BrokerKilled, BrokerStarts
<1>9. CASE Reboot
  BY <1>9 DEF Reboot
<1>10. ASSUME NEW p \in Pid, OtherStarts(p) \/ OtherExits(p) PROVE Stages'
  <2>1. ASSUME init \in {"gated", "open", "move", "watch", "zombie"}
        PROVE  proc'[me.pid] = me.start
    <3>1. me \in Process /\ proc[me.pid] = me.start /\ me.start # 0
      BY <2>1 DEF Time
    <3>2. p # me.pid
      BY <1>10, <2>1, <3>1 DEF OtherStarts, OtherExits
    <3>3. proc' = [proc EXCEPT ![p] = clock + 1] \/ proc' = [proc EXCEPT ![p] = 0]
      BY <1>10 DEF OtherStarts, OtherExits
    <3> QED  BY <3>1, <3>2, <3>3
  <2>2. UNCHANGED <<host, broker, helper, init, me, workload, group>>
    BY <1>10 DEF OtherStarts, OtherExits
  <2> QED  BY <2>1, <2>2
<1> QED  BY <1>1, <1>2, <1>3, <1>4, <1>5, <1>6, <1>7, <1>8, <1>9, <1>10 DEF Next, Launch, Check, Supervisor, Kernel, Teardown, Others

\* An identity is unlinked only after the group has gone.
LEMMA HostStep ==
  ASSUME TypeOK, GroupFirst, Stages, HostRecorded, Next
  PROVE  HostRecorded'
<1> USE DEF Goto, Look, Fault, files, tree, kernel, TypeOK, Launching, Looking, Ending, Names, None, Half, Nobody, Process, GroupFirst, Stages, HostRecorded, Removing, Absent, Torn
<1>1. CASE Mkdir \/ BootCreate \/ BootWrite \/ GroupCreate \/ GroupWrite \/ GroupMake \/ Popen
  BY <1>1 DEF Mkdir, BootCreate, BootWrite, GroupCreate, GroupWrite, GroupMake, Popen
<1>2. CASE HelperSeen \/ LookBoot \/ LookIdentity \/ LookTorn \/ LookReaped \/ LookPidfd
  BY <1>2 DEF HelperSeen, LookBoot, LookIdentity, LookTorn, LookReaped, LookPidfd
<1>3. CASE LookStat \/ LookSelect \/ LookGroup \/ LookEvents \/ LookRmdir \/ LookAgain
  BY <1>3 DEF LookStat, LookSelect, LookGroup, LookEvents, LookRmdir, LookAgain
<1>4. CASE Scan \/ (\E n \in Names : Unlink(n)) \/ Rmdir
  BY <1>4 DEF Scan, Unlink, Rmdir
<1>5. CASE HelperForks \/ HelperCreates \/ HelperWrites \/ HelperReleases \/ HelperExits
  <2>1. CASE HelperForks
    BY <2>1 DEF HelperForks
  <2>2. CASE HelperCreates
    BY <2>2 DEF HelperCreates
  <2>3. CASE HelperWrites
    BY <2>3 DEF HelperWrites
  <2>4. CASE HelperReleases
    BY <2>4 DEF HelperReleases
  <2>5. CASE HelperExits
    BY <2>5 DEF HelperExits
  <2> QED  BY <1>5, <2>1, <2>2, <2>3, <2>4, <2>5
<1>6. CASE GuardianOpens \/ GuardianMoves \/ GuardianKills \/ GuardianExits \/ GuardianFails
  BY <1>6 DEF GuardianOpens, GuardianMoves, GuardianKills, GuardianExits, GuardianFails
<1>7. CASE InitFollows \/ InitReaped \/ HelperKilled \/ WorkloadEnds \/ KillHelper \/ NamespaceEnds
  BY <1>7 DEF InitFollows, InitReaped, HelperKilled, WorkloadEnds, KillHelper, NamespaceEnds
<1>8. CASE GiveUp \/ BrokerKilled \/ BrokerStarts
  BY <1>8 DEF GiveUp, BrokerKilled, BrokerStarts
<1>9. CASE Reboot
  BY <1>9 DEF Reboot
<1>10. CASE (\E p \in Pid : OtherStarts(p)) \/ (\E p \in Pid : OtherExits(p))
  BY <1>10 DEF OtherStarts, OtherExits
<1> QED  BY <1>1, <1>2, <1>3, <1>4, <1>5, <1>6, <1>7, <1>8, <1>9, <1>10 DEF Next, Launch, Check, Supervisor, Kernel, Teardown, Others

\* An identity is unlinked by the owner only after the namespace has ended.
LEMMA NamespaceStep ==
  ASSUME TypeOK, GroupFirst, Stages, OwnerLooks, NamespaceRecorded, Next
  PROVE  NamespaceRecorded'
<1> USE DEF Goto, Look, Fault, files, tree, kernel, TypeOK, Launching, Looking, Ending, Names, None, Half, Nobody, Process, GroupFirst, Stages, NamespaceRecorded, OwnerLooks, Removing, Absent, Torn
<1>1. CASE Mkdir \/ BootCreate \/ BootWrite \/ GroupCreate \/ GroupWrite \/ GroupMake \/ Popen
  BY <1>1 DEF Mkdir, BootCreate, BootWrite, GroupCreate, GroupWrite, GroupMake, Popen
<1>2. CASE HelperSeen \/ LookBoot \/ LookIdentity \/ LookTorn \/ LookReaped \/ LookPidfd
  BY <1>2 DEF HelperSeen, LookBoot, LookIdentity, LookTorn, LookReaped, LookPidfd
<1>3. CASE LookStat \/ LookSelect \/ LookGroup \/ LookEvents \/ LookRmdir \/ LookAgain
  BY <1>3 DEF LookStat, LookSelect, LookGroup, LookEvents, LookRmdir, LookAgain
<1>4. CASE Scan \/ (\E n \in Names : Unlink(n)) \/ Rmdir
  BY <1>4 DEF Scan, Unlink, Rmdir
<1>5. CASE HelperForks \/ HelperCreates \/ HelperWrites \/ HelperReleases \/ HelperExits
  <2>1. CASE HelperForks
    BY <2>1 DEF HelperForks
  <2>2. CASE HelperCreates
    BY <2>2 DEF HelperCreates
  <2>3. CASE HelperWrites
    BY <2>3 DEF HelperWrites
  <2>4. CASE HelperReleases
    BY <2>4 DEF HelperReleases
  <2>5. CASE HelperExits
    BY <2>5 DEF HelperExits
  <2> QED  BY <1>5, <2>1, <2>2, <2>3, <2>4, <2>5
<1>6. CASE GuardianOpens \/ GuardianMoves \/ GuardianKills \/ GuardianExits \/ GuardianFails
  BY <1>6 DEF GuardianOpens, GuardianMoves, GuardianKills, GuardianExits, GuardianFails
<1>7. CASE InitFollows \/ InitReaped \/ HelperKilled \/ WorkloadEnds \/ KillHelper \/ NamespaceEnds
  BY <1>7 DEF InitFollows, InitReaped, HelperKilled, WorkloadEnds, KillHelper, NamespaceEnds
<1>8. CASE GiveUp \/ BrokerKilled \/ BrokerStarts
  BY <1>8 DEF GiveUp, BrokerKilled, BrokerStarts
<1>9. CASE Reboot
  BY <1>9 DEF Reboot
<1>10. CASE (\E p \in Pid : OtherStarts(p)) \/ (\E p \in Pid : OtherExits(p))
  BY <1>10 DEF OtherStarts, OtherExits
<1> QED  BY <1>1, <1>2, <1>3, <1>4, <1>5, <1>6, <1>7, <1>8, <1>9, <1>10 DEF Next, Launch, Check, Supervisor, Kernel, Teardown, Others

\* What each question of a look establishes for the next one.
LEMMA OwnerStep ==
  ASSUME Inv, Next
  PROVE  OwnerLooks'
<1> USE DEF Goto, Look, Fault, files, tree, kernel, TypeOK, Launching, Looking, Ending, Names, None, Half, Nobody, Process, Inv, Stages, NamespaceRecorded, OwnerLooks, Removing, Absent, Torn, Readable, Pid
<1>1. CASE Mkdir \/ BootCreate \/ BootWrite \/ GroupCreate \/ GroupWrite \/ GroupMake \/ Popen
  BY <1>1 DEF Mkdir, BootCreate, BootWrite, GroupCreate, GroupWrite, GroupMake, Popen
<1>2. CASE HelperSeen \/ LookBoot \/ LookIdentity \/ LookTorn \/ LookReaped \/ LookPidfd
  <2>1. CASE HelperSeen
    BY <2>1 DEF HelperSeen
  <2>2. CASE LookBoot
    BY <2>2 DEF LookBoot
  <2>3. CASE LookIdentity
    BY <2>3 DEF LookIdentity
  <2>4. CASE LookTorn \/ LookReaped
    BY <2>4 DEF LookTorn, LookReaped
  <2>5. CASE LookPidfd
    <3>1. ASSUME owner, ~host, workload # "none", broker' = "lookStat"
          PROVE  fd' = me
      <4>1. identity = me /\ me \in Process /\ proc[me.pid] = me.start
        BY <3>1
      <4>2. fd' = [pid |-> me.pid, start |-> me.start]
        BY <2>5, <3>1, <4>1 DEF LookPidfd
      <4>3. \A q \in Process : q = [pid |-> q.pid, start |-> q.start]
        BY DEF Process
      <4> QED  BY <4>1, <4>2, <4>3
    <3>2. ASSUME owner, ~host, workload # "none"
          PROVE  broker' # "lookGroup"
      <4>1. identity = me /\ me \in Process /\ proc[me.pid] = me.start
        BY <3>2
      <4>2. me.start # 0
        BY <4>1, RecordBounds DEF Time
      <4> QED  BY <2>5, <4>1, <4>2 DEF LookPidfd
    <3> QED  BY <2>5, <3>1, <3>2 DEF LookPidfd
  <2> QED  BY <1>2, <2>1, <2>2, <2>3, <2>4, <2>5
<1>3. CASE LookStat \/ LookSelect \/ LookGroup \/ LookEvents \/ LookRmdir \/ LookAgain
  BY <1>3 DEF LookStat, LookSelect, LookGroup, LookEvents, LookRmdir, LookAgain
<1>4. CASE Scan \/ (\E n \in Names : Unlink(n)) \/ Rmdir
  BY <1>4 DEF Scan, Unlink, Rmdir
<1>5. CASE HelperForks \/ HelperCreates \/ HelperWrites \/ HelperReleases \/ HelperExits
  BY <1>5 DEF HelperForks, HelperCreates, HelperWrites, HelperReleases, HelperExits
<1>6. CASE GuardianOpens \/ GuardianMoves \/ GuardianKills \/ GuardianExits \/ GuardianFails
  BY <1>6 DEF GuardianOpens, GuardianMoves, GuardianKills, GuardianExits, GuardianFails
<1>7. CASE InitFollows \/ InitReaped \/ HelperKilled \/ WorkloadEnds \/ KillHelper \/ NamespaceEnds
  BY <1>7 DEF InitFollows, InitReaped, HelperKilled, WorkloadEnds, KillHelper, NamespaceEnds
<1>8. CASE GiveUp \/ BrokerKilled \/ BrokerStarts
  BY <1>8 DEF GiveUp, BrokerKilled, BrokerStarts
<1>9. CASE Reboot
  BY <1>9 DEF Reboot
<1>10. CASE (\E p \in Pid : OtherStarts(p)) \/ (\E p \in Pid : OtherExits(p))
  BY <1>10 DEF OtherStarts, OtherExits
<1> QED  BY <1>1, <1>2, <1>3, <1>4, <1>5, <1>6, <1>7, <1>8, <1>9, <1>10 DEF Next, Launch, Check, Supervisor, Kernel, Teardown, Others

\* Who moves the clock, and who gets or loses a process number.
LEMMA KernelFrame ==
  ASSUME Next
  PROVE  \/ HelperForks \/ HelperExits \/ InitReaped \/ Reboot
         \/ \E p \in Pid : OtherStarts(p) \/ OtherExits(p)
         \/ /\ UNCHANGED <<proc, clock, boot, me>>
            /\ init' = "none" => init = "none"
            /\ bootId' \in {bootId, Absent, Torn, boot}
<1> USE DEF Goto, Look, files, tree, kernel
<1>1. CASE Mkdir \/ BootCreate \/ BootWrite
  BY <1>1 DEF Mkdir, BootCreate, BootWrite
<1>2. CASE GroupCreate \/ GroupWrite \/ GroupMake \/ Popen
  BY <1>2 DEF GroupCreate, GroupWrite, GroupMake, Popen
<1>3. CASE HelperSeen \/ LookBoot \/ LookIdentity \/ LookTorn \/ LookReaped
  BY <1>3 DEF HelperSeen, LookBoot, LookIdentity, LookTorn, LookReaped
<1>4. CASE LookPidfd
  BY <1>4 DEF LookPidfd
<1>5. CASE LookStat \/ LookSelect
  BY <1>5 DEF LookStat, LookSelect
<1>6. CASE LookGroup \/ LookEvents \/ LookRmdir \/ LookAgain
  BY <1>6 DEF LookGroup, LookEvents, LookRmdir, LookAgain
<1>7. CASE Scan \/ (\E n \in Names : Unlink(n)) \/ Rmdir
  BY <1>7 DEF Scan, Unlink, Rmdir
<1>9. CASE HelperCreates \/ HelperWrites \/ HelperReleases
  BY <1>9 DEF HelperCreates, HelperWrites, HelperReleases
<1>11. CASE GuardianOpens \/ GuardianMoves \/ GuardianKills \/ GuardianExits \/ GuardianFails
  BY <1>11 DEF GuardianOpens, GuardianMoves, GuardianKills, GuardianExits, GuardianFails
<1>12. CASE InitFollows \/ HelperKilled \/ WorkloadEnds \/ KillHelper \/ NamespaceEnds
  BY <1>12 DEF InitFollows, HelperKilled, WorkloadEnds, KillHelper, NamespaceEnds
<1>13. CASE GiveUp \/ BrokerKilled \/ BrokerStarts
  BY <1>13 DEF GiveUp, BrokerKilled, BrokerStarts
<1> QED
  BY <1>1, <1>2, <1>3, <1>4, <1>5, <1>6, <1>7, <1>9, <1>11, <1>12, <1>13
  DEF Next, Launch, Check, Supervisor, Kernel, Teardown, Others

\* A start takes the next time, and an exit frees its number.
LEMMA Counted ==
  ASSUME NEW n \in Nat, NEW f \in [Pid -> Nat], \A q \in Pid : f[q] <= n, NEW p \in Pid
  PROVE  /\ \A q \in Pid : [f EXCEPT ![p] = n + 1][q] <= n + 1
         /\ \A q \in Pid : [f EXCEPT ![p] = 0][q] <= n
  OBVIOUS

\* Process starts and boots only grow.
LEMMA ClockStep ==
  ASSUME TypeOK, Clocked, Next
  PROVE  Clocked'
<1>0. /\ clock \in Nat /\ boot \in Nat /\ bootId \in Int
      /\ proc \in [Pid -> Nat] /\ \A q \in Pid : proc[q] <= clock
      /\ me.start \in Nat /\ me.start <= clock /\ bootId <= boot
      /\ init = "none" => me = Nobody
  BY RecordBounds DEF TypeOK, Clocked, Time, Boot, Absent, Torn, Nobody, Process
<1>1. CASE /\ UNCHANGED <<proc, clock, boot, me>>
           /\ init' = "none" => init = "none"
           /\ bootId' \in {bootId, Absent, Torn, boot}
  BY <1>0, <1>1 DEF Clocked, Absent, Torn
<1>2. CASE HelperForks
  <2>1. PICK p \in Pid : /\ me' = [pid |-> p, start |-> clock + 1]
                         /\ proc' = [proc EXCEPT ![p] = clock + 1]
    BY <1>2 DEF HelperForks
  <2>2. clock' = clock + 1 /\ boot' = boot /\ bootId' = bootId /\ init' = "gated"
    BY <1>2 DEF HelperForks, files, kernel
  <2>3. \A q \in Pid : proc'[q] <= clock'
    BY <1>0, <2>1, <2>2, Counted
  <2>4. me'.start = clock + 1
    BY <2>1
  <2> QED  BY <1>0, <2>2, <2>3, <2>4 DEF Clocked
<1>3. CASE HelperExits \/ InitReaped
  <2>1. /\ proc' = [proc EXCEPT ![me.pid] = 0] /\ init' = "gone"
        /\ UNCHANGED <<clock, boot, me, bootId>> /\ me.pid \in Pid
    BY <1>3 DEF HelperExits, InitReaped, files, TypeOK, Process
  <2>2. \A q \in Pid : proc'[q] <= clock'
    BY <1>0, <2>1, Counted
  <2> QED  BY <1>0, <2>1, <2>2 DEF Clocked
<1>4. CASE Reboot
  <2>1. /\ boot' = boot + 1 /\ proc' = [p \in Pid |-> 0] /\ clock' = 0
        /\ init' = "gone" /\ me' = Nobody /\ bootId' \in {bootId, Torn}
    BY <1>4 DEF Reboot
  <2> QED  BY <1>0, <2>1 DEF Clocked, Nobody, Torn
<1>5. ASSUME NEW p \in Pid, OtherStarts(p) \/ OtherExits(p) PROVE Clocked'
  <2>1. UNCHANGED <<boot, me, bootId, init>>
    BY <1>5 DEF OtherStarts, OtherExits, files, tree
  <2>2. \/ clock' = clock + 1 /\ proc' = [proc EXCEPT ![p] = clock + 1]
        \/ clock' = clock /\ proc' = [proc EXCEPT ![p] = 0]
    BY <1>5 DEF OtherStarts, OtherExits
  <2>3. \A q \in Pid : proc'[q] <= clock'
    BY <1>0, <2>2, Counted
  <2> QED  BY <1>0, <2>1, <2>2, <2>3 DEF Clocked
<1> QED  BY <1>1, <1>2, <1>3, <1>4, <1>5, KernelFrame

\* A record of this boot names init, because both are written in this boot.
LEMMA NamedStep ==
  ASSUME TypeOK, Stages, OwnerLooks, Clocked, Named, Next
  PROVE  Named'
<1>t. /\ boot \in Nat /\ bootId <= boot /\ bootId \in Int
      /\ me \in Process => me.pid \in Nat /\ me.start \in Nat
  BY RecordBounds DEF TypeOK, Clocked, Boot, Absent, Torn, Process, Pid, Time
<1> USE DEF Goto, Look, files, tree, kernel, Launching, Looking, Ending, None, Half, Nobody, Stages, OwnerLooks, Removing, Absent, Torn, InitLives, Named
<1>1. CASE Mkdir \/ BootCreate \/ BootWrite
  BY <1>t, <1>1 DEF Mkdir, BootCreate, BootWrite
<1>2. CASE GroupCreate \/ GroupWrite \/ GroupMake \/ Popen
  BY <1>t, <1>2 DEF GroupCreate, GroupWrite, GroupMake, Popen
<1>3. CASE HelperSeen \/ LookBoot \/ LookIdentity \/ LookTorn \/ LookReaped
  BY <1>t, <1>3 DEF HelperSeen, LookBoot, LookIdentity, LookTorn, LookReaped
<1>4. CASE LookPidfd
  BY <1>t, <1>4 DEF LookPidfd
<1>5. CASE LookStat \/ LookSelect
  BY <1>t, <1>5 DEF LookStat, LookSelect
<1>6. CASE LookGroup \/ LookEvents \/ LookRmdir \/ LookAgain
  BY <1>t, <1>6 DEF LookGroup, LookEvents, LookRmdir, LookAgain
<1>7. CASE Scan \/ (\E n \in Names : Unlink(n)) \/ Rmdir
  BY <1>t, <1>7 DEF Scan, Unlink, Rmdir
<1>8. CASE HelperForks
  BY <1>t, <1>8 DEF HelperForks
<1>9. CASE HelperCreates \/ HelperWrites \/ HelperReleases
  BY <1>t, <1>9 DEF HelperCreates, HelperWrites, HelperReleases
<1>10. CASE HelperExits \/ InitReaped
  BY <1>t, <1>10 DEF HelperExits, InitReaped
<1>11. CASE GuardianOpens \/ GuardianMoves \/ GuardianKills \/ GuardianExits \/ GuardianFails
  BY <1>t, <1>11 DEF GuardianOpens, GuardianMoves, GuardianKills, GuardianExits, GuardianFails
<1>12. CASE InitFollows \/ HelperKilled \/ WorkloadEnds \/ KillHelper \/ NamespaceEnds
  BY <1>t, <1>12 DEF InitFollows, HelperKilled, WorkloadEnds, KillHelper, NamespaceEnds
<1>13. CASE GiveUp \/ BrokerKilled \/ BrokerStarts
  BY <1>t, <1>13 DEF GiveUp, BrokerKilled, BrokerStarts
<1>14. CASE Reboot
  BY <1>t, <1>14 DEF Reboot
<1>15. CASE (\E p \in Pid : OtherStarts(p)) \/ (\E p \in Pid : OtherExits(p))
  BY <1>t, <1>15 DEF OtherStarts, OtherExits
<1> QED
  BY <1>1, <1>2, <1>3, <1>4, <1>5, <1>6, <1>7, <1>8, <1>9, <1>10, <1>11, <1>12, <1>13, <1>14, <1>15
  DEF Next, Launch, Check, Supervisor, Kernel, Teardown, Others

\* A process that has started after the look began is never taken for the old one.
LEMMA OpenedStep ==
  ASSUME TypeOK, Stages, Clocked, Named, Opened, Next
  PROVE  Opened'
<1> USE RecordBounds DEF Goto, Look, files, tree, kernel, TypeOK, Launching, Looking, Ending, None, Half, Nobody, Process, Stages, Absent, Torn, Pid, Time, InitLives, Clocked, Opened
<1>1. CASE Mkdir \/ BootCreate \/ BootWrite
  BY <1>1 DEF Mkdir, BootCreate, BootWrite
<1>2. CASE GroupCreate \/ GroupWrite \/ GroupMake \/ Popen
  BY <1>2 DEF GroupCreate, GroupWrite, GroupMake, Popen
<1>3. CASE HelperSeen \/ LookBoot \/ LookIdentity \/ LookTorn \/ LookReaped
  BY <1>3 DEF HelperSeen, LookBoot, LookIdentity, LookTorn, LookReaped
<1>4. CASE LookPidfd
  BY <1>4 DEF LookPidfd
<1>5. CASE LookStat \/ LookSelect
  BY <1>5 DEF LookStat, LookSelect
<1>6. CASE LookGroup \/ LookEvents \/ LookRmdir \/ LookAgain
  BY <1>6 DEF LookGroup, LookEvents, LookRmdir, LookAgain
<1>7. CASE Scan \/ (\E n \in Names : Unlink(n)) \/ Rmdir
  BY <1>7 DEF Scan, Unlink, Rmdir
<1>8. CASE HelperForks \/ HelperCreates \/ HelperWrites
  <2>1. identity \in {None, Half} /\ UNCHANGED <<broker, bootId, boot>>
    BY <1>8 DEF HelperForks, HelperCreates, HelperWrites, Named
  <2>2. broker \notin {"lookPidfd", "lookStat", "lookSelect"}
    BY <2>1
  <2> QED  BY <2>1, <2>2
<1>9. CASE HelperReleases
  BY <1>9 DEF HelperReleases
<1>10. CASE HelperExits \/ InitReaped
  <2>1. /\ proc' = [proc EXCEPT ![me.pid] = 0] /\ init' = "gone"
        /\ UNCHANGED <<broker, clock, boot, me, fd, identity, bootId>>
    BY <1>10 DEF HelperExits, InitReaped
  <2> QED  BY <2>1
<1>11. CASE GuardianOpens \/ GuardianMoves \/ GuardianKills \/ GuardianExits \/ GuardianFails
  BY <1>11 DEF GuardianOpens, GuardianMoves, GuardianKills, GuardianExits, GuardianFails
<1>12. CASE InitFollows \/ HelperKilled \/ WorkloadEnds \/ KillHelper \/ NamespaceEnds
  BY <1>12 DEF InitFollows, HelperKilled, WorkloadEnds, KillHelper, NamespaceEnds
<1>13. CASE GiveUp \/ BrokerKilled \/ BrokerStarts
  BY <1>13 DEF GiveUp, BrokerKilled, BrokerStarts
<1>14. CASE Reboot
  BY <1>14 DEF Reboot
<1>15. ASSUME NEW p \in Pid, OtherStarts(p) \/ OtherExits(p) PROVE Opened'
  <2>1. /\ UNCHANGED <<broker, fd, identity, bootId, boot, me>>
        /\ clock' \in {clock, clock + 1}
        /\ \/ proc' = [proc EXCEPT ![p] = clock + 1] /\ proc[p] = 0
           \/ proc' = [proc EXCEPT ![p] = 0]
    BY <1>15 DEF OtherStarts, OtherExits
  <2>2. ASSUME NEW q \in Process, q.start <= clock, proc[q.pid] # q.start
        PROVE  proc'[q.pid] # q.start
    BY <2>1, <2>2
  <2>3. broker = "lookStat" /\ identity = me /\ fd # me => proc'[me.pid] # me.start
    BY <2>2
  <2>4. broker = "lookSelect" /\ fd # identity => proc'[fd.pid] # fd.start
    BY <2>2
  <2>5. broker \in {"lookStat", "lookSelect"} =>
           fd.start \in Nat /\ fd.start <= clock /\ clock \in Nat
    OBVIOUS
  <2>6. broker \in {"lookStat", "lookSelect"} => fd.start <= clock'
    BY <2>1, <2>5, SMT
  <2>7. (broker \in {"lookIdentity", "lookPidfd", "lookStat", "lookSelect"} =>
           bootId \in {Absent, boot})'
    BY <2>1
  <2>8. (broker \in {"lookStat", "lookSelect"} => fd.pid = identity.pid /\ fd.start <= clock)'
    BY <2>1, <2>6
  <2>9. (broker = "lookStat" /\ identity = me => fd = me \/ proc[me.pid] # me.start)'
    BY <2>1, <2>3
  <2>10. (broker = "lookSelect" =>
            /\ identity = me => fd = me
            /\ fd = identity \/ proc[fd.pid] # fd.start)'
    BY <2>1, <2>4
  <2> QED  BY <2>7, <2>8, <2>9, <2>10 DEF Opened
<1> QED
  BY <1>1, <1>2, <1>3, <1>4, <1>5, <1>6, <1>7, <1>8, <1>9, <1>10, <1>11, <1>12, <1>13, <1>14, <1>15
  DEF Next, Launch, Check, Supervisor, Kernel, Teardown, Others

----------------------------------------------------------------------------
LEMMA TypeParts ==
  TypeOK <=> Flags /\ BrokerTyped /\ FilesTyped /\ TreeTyped /\ KernelTyped /\ LookTyped
  BY Zenon DEF TypeOK, Flags, BrokerTyped, FilesTyped, TreeTyped, KernelTyped, LookTyped

\* A broker that has not launched anything.
LEMMA Start == Init => Inv
<1> SUFFICES ASSUME Init PROVE Inv
  OBVIOUS
<1> USE DEF Init
<1>1. Flags
  BY Zenon DEF Flags
<1>2. BrokerTyped /\ FilesTyped /\ TreeTyped /\ LookTyped
  BY DEF BrokerTyped, FilesTyped, TreeTyped, LookTyped, Launching, None, Nobody
<1>3. KernelTyped
  BY RecordBounds DEF KernelTyped, Boot
<1>4. GroupFirst /\ Stages
  BY DEF GroupFirst, GroupRecorded, Stages, Launching, Removing
<1>5. HostRecorded /\ NamespaceRecorded /\ OwnerLooks
  BY DEF HostRecorded, NamespaceRecorded, OwnerLooks, Launching, Looking, Removing
<1>6. Clocked /\ Named /\ Opened
  BY RecordBounds
  DEF Clocked, Named, Opened, Nobody, None, Absent, Torn, Launching, Pid, InitLives
<1> QED  BY <1>1, <1>2, <1>3, <1>4, <1>5, <1>6, TypeParts DEF Inv

\* Every step keeps all of it.
LEMMA Step == Inv /\ [Next]_vars => Inv'
<1> SUFFICES ASSUME Inv, [Next]_vars PROVE Inv'
  OBVIOUS
<1>1. CASE Next
  <2>0. Flags' /\ BrokerTyped' /\ FilesTyped' /\ TreeTyped' /\ KernelTyped' /\ LookTyped'
    BY <1>1, FlagsStep, BrokerTypeStep, FilesTypeStep, TreeTypeStep, KernelTypeStep,
       LookTypeStep, TypeParts DEF Inv
  <2>1. TypeOK'
    BY <2>0, Zenon DEF TypeOK, Flags, BrokerTyped, FilesTyped, TreeTyped, KernelTyped, LookTyped
  <2> QED
    BY <1>1, <2>1, GroupStep, StagesStep, HostStep, NamespaceStep, OwnerStep,
       ClockStep, NamedStep, OpenedStep DEF Inv
<1>2. CASE UNCHANGED vars
  <2> USE <1>2 DEF vars, files, tree, kernel
  <2>0. Flags'
    BY TypeParts, Zenon DEF Inv, Flags
  <2>1. BrokerTyped' /\ FilesTyped' /\ TreeTyped' /\ KernelTyped' /\ LookTyped'
    BY TypeParts DEF Inv, BrokerTyped, FilesTyped, TreeTyped, KernelTyped, LookTyped
  <2>2. TypeOK'
    BY <2>0, <2>1, Zenon DEF TypeOK, Flags, BrokerTyped, FilesTyped, TreeTyped, KernelTyped, LookTyped
  <2>3. GroupFirst' /\ Stages' /\ HostRecorded' /\ NamespaceRecorded' /\ OwnerLooks'
    BY DEF Inv, GroupFirst, GroupRecorded, Stages, HostRecorded, NamespaceRecorded, OwnerLooks
  <2>4. Clocked' /\ Named' /\ Opened'
    BY DEF Inv, Clocked, Named, Opened, InitLives
  <2> QED  BY <2>2, <2>3, <2>4 DEF Inv
<1> QED  BY <1>1, <1>2

LEMMA Invariant == Spec => []Inv
  BY Start, Step, PTL DEF Spec

\* The records, the processes and the broker keep their types; in particular a
\* look opens only a process number that it has read.
THEOREM TypeCorrect == Spec => []TypeOK
<1>1. Inv => TypeOK
  BY DEF Inv
<1> QED  BY <1>1, Invariant, PTL

\* allocate_host_cgroup and namespace_has_exited: a cgroup exists only as long
\* as a directory names it.
THEOREM GroupsOnRecord == Spec => []GroupRecorded
<1>1. Inv => GroupRecorded
  BY DEF Inv, GroupFirst
<1> QED  BY <1>1, Invariant, PTL

\* The gate of agent-supervisor.c and supervisor_has_exited: what runs is on
\* record, except for a namespace that is about to follow its dead broker.
THEOREM OnRecord == Spec => []Recorded
<1>1. Inv => Recorded
  <2> SUFFICES ASSUME Inv, workload = "up" PROVE Recorded
    BY DEF Recorded
  <2>1. CASE host
    <3>1. group
      BY <2>1 DEF Inv, Stages
    <3>2. exists /\ identity = me
      BY <2>1, <3>1 DEF Inv, GroupFirst, GroupRecorded, HostRecorded
    <3> QED  BY <3>2 DEF Recorded
  <2>2. CASE ~host /\ owner
    BY <2>2 DEF Inv, NamespaceRecorded, Recorded
  <2> QED  BY <2>1, <2>2 DEF Recorded
<1> QED  BY <1>1, Invariant, PTL

----------------------------------------------------------------------------
(* What a look concludes is true.                                           *)

\* Nothing but a question, the end of the broker and the end of the boot moves a
\* broker that looks.
LEMMA LookFrame ==
  ASSUME TypeOK, Stages, Next, broker \in AskingInit \cup AskingGroup, broker' # broker
  PROVE  \/ LookBoot \/ LookIdentity \/ LookTorn \/ LookReaped
         \/ LookPidfd \/ LookStat \/ LookSelect
         \/ LookGroup \/ LookEvents \/ LookRmdir
         \/ (BrokerKilled \/ Reboot) /\ broker' = "down"
<1> USE DEF Goto, Look, files, tree, kernel, AskingInit, AskingGroup
<1>1. ~(Mkdir \/ BootCreate \/ BootWrite \/ GroupCreate \/ GroupWrite \/ GroupMake \/ Popen)
  BY DEF Mkdir, BootCreate, BootWrite, GroupCreate, GroupWrite, GroupMake, Popen
<1>2. ~(HelperSeen \/ LookAgain \/ Scan \/ (\E n \in Names : Unlink(n)) \/ Rmdir)
  BY DEF HelperSeen, LookAgain, Scan, Unlink, Rmdir
<1>3. ~(HelperForks \/ HelperCreates \/ HelperWrites \/ HelperReleases \/ HelperExits)
  BY DEF HelperForks, HelperCreates, HelperWrites, HelperReleases, HelperExits
<1>4. ~(GuardianOpens \/ GuardianMoves \/ GuardianKills \/ GuardianExits \/ GuardianFails)
  BY DEF GuardianOpens, GuardianMoves, GuardianKills, GuardianExits, GuardianFails
<1>5. ~(InitFollows \/ InitReaped \/ HelperKilled \/ WorkloadEnds \/ KillHelper \/ NamespaceEnds)
  BY DEF InitFollows, InitReaped, HelperKilled, WorkloadEnds, KillHelper, NamespaceEnds
<1>6. ~(GiveUp \/ BrokerStarts)
  BY DEF GiveUp, BrokerStarts
<1>7. \A p \in Pid : ~(OtherStarts(p) \/ OtherExits(p))
  BY DEF OtherStarts, OtherExits
<1>8. BrokerKilled \/ Reboot => broker' = "down"
  BY DEF BrokerKilled, Reboot
<1> QED
  BY <1>1, <1>2, <1>3, <1>4, <1>5, <1>6, <1>7, <1>8
  DEF Next, Launch, Check, Supervisor, Kernel, Teardown, Others

\* The cases in which the init of this execution is not alive, or not recorded.
LEMMA Evident ==
  ASSUME Inv
  PROVE  Seen!SupervisorExited(Evidence) <=> identity # me \/ ~InitLives
<1>1. Seen!SupervisorExited(Evidence) <=>
        identity # me \/ (~InitLives /\ init # "none")
  BY DEF Seen!SupervisorExited, Evidence, InitLives
<1>2. init = "none" => identity # me
  BY DEF Inv, Named, Clocked, None, Nobody, Absent
<1> QED  BY <1>1, <1>2

\* A live init has its number, and it never reads as another process.
LEMMA Alive ==
  ASSUME Inv, InitLives
  PROVE  me \in Process /\ proc[me.pid] = me.start /\ me.start # 0
         /\ bootId \in {Absent, boot}
<1>1. me \in Process /\ proc[me.pid] = me.start
  BY DEF Inv, TypeOK, Stages, InitLives
<1>2. me.start # 0
  BY <1>1, RecordBounds DEF Process, Time
<1>3. bootId \in {Absent, boot}
  BY DEF Inv, Named, InitLives
<1> QED  BY <1>1, <1>2, <1>3

\* Every answer to a question about the init.
LEMMA InitAnswers ==
  ASSUME Inv, Next, broker \in AskingInit
  PROVE  /\ broker' = "lookGroup" => identity # me \/ ~InitLives
         /\ broker' = "again" => (identity = me /\ InitLives) \/ Stuck
<1> USE DEF Goto, Look
<1>1. CASE LookBoot
  BY <1>1, Alive DEF LookBoot
<1>2. CASE LookIdentity
  BY <1>2, Alive, RecordBounds DEF LookIdentity, Process, Pid, Absent
<1>3. CASE LookPidfd
  BY <1>3, Alive DEF LookPidfd
<1>4. CASE LookStat
  BY <1>4, Alive DEF LookStat
<1>5. CASE LookSelect
  <2>1. broker = "lookSelect" /\ (identity = me => fd = me)
        /\ (fd = identity \/ proc[fd.pid] # fd.start) /\ bootId \in {Absent, boot}
        /\ identity \in Process /\ fd \in Process
    BY <1>5 DEF LookSelect, Inv, TypeOK, Opened
  <2>2. ASSUME Readable(fd) PROVE identity # me \/ ~InitLives
    BY <2>1, <2>2, Alive DEF Readable, InitLives
  <2>3. ASSUME ~Readable(fd) PROVE (identity = me /\ InitLives) \/ Stuck
    <3>1. CASE fd = me
      <4>1. init \notin {"zombie", "gone", "none"}
        BY <2>1, <2>3, <3>1, RecordBounds DEF Readable, Inv, Clocked, Process, Nobody, Pid
      <4>2. InitLives
        BY <4>1 DEF InitLives, Inv, TypeOK
      <4> QED  BY <2>1, <3>1, <4>2, Alive
    <3>2. CASE fd # me
      <4>1. fd = identity /\ proc[identity.pid] = identity.start
        BY <2>1, <2>3, <3>2 DEF Readable
      <4>2. bootId # boot
        BY <2>1, <3>2, <4>1, RecordBounds
        DEF Inv, Named, None, Half, Absent, Torn, Process, Pid
      <4> QED  BY <2>1, <3>2, <4>1, <4>2 DEF Stuck
    <3> QED  BY <3>1, <3>2
  <2>4. broker' = IF Readable(fd) THEN "lookGroup" ELSE "again"
    BY <1>5 DEF LookSelect
  <2> QED  BY <2>2, <2>3, <2>4
<1>6. CASE LookTorn \/ LookReaped \/ LookGroup \/ LookEvents \/ LookRmdir \/ broker' \in {"down", broker}
  BY <1>6 DEF LookTorn, LookReaped, LookGroup, LookEvents, LookRmdir, AskingInit
<1> QED  BY <1>1, <1>2, <1>3, <1>4, <1>5, <1>6, LookFrame DEF Inv

\* Every answer to a question about the group.
LEMMA GroupAnswers ==
  ASSUME Inv, Next, broker \in AskingGroup
  PROVE  /\ broker' = "scan" => ~group' /\ (host => workload = "none")
         /\ broker' = "again" => (group /\ workload # "none") \/ Stuck \/ faults' # faults
<1> USE DEF Goto, Look
<1>0. /\ group => groupFile = 1
      /\ host /\ workload # "none" => group
      /\ broker \in {"lookEvents", "lookRmdir"} => host
      /\ faults \in Nat
  BY RecordBounds DEF Inv, TypeOK, GroupFirst, GroupRecorded, Stages
<1>1. CASE LookGroup
  BY <1>0, <1>1 DEF LookGroup, Stuck, Fault, Absent, Torn
<1>2. CASE LookEvents
  BY <1>0, <1>2 DEF LookEvents
<1>3. CASE LookRmdir
  BY <1>0, <1>3 DEF LookRmdir
<1>4. CASE \/ LookBoot \/ LookIdentity \/ LookTorn \/ LookReaped
           \/ LookPidfd \/ LookStat \/ LookSelect
           \/ broker' \in {"down", broker}
  BY <1>4 DEF LookBoot, LookIdentity, LookTorn, LookReaped, LookPidfd, LookStat, LookSelect, AskingGroup
<1> QED  BY <1>1, <1>2, <1>3, <1>4, LookFrame DEF Inv

\* A broker that ends in the middle of a look was killed, or could not read.
LEMMA EndAnswers ==
  ASSUME Inv, Next, broker \in AskingInit \cup AskingGroup, broker' = "down"
  PROVE  Stuck \/ faults' # faults \/ boot' # boot \/ Vanished
<1> USE DEF Goto, Look
<1>1. CASE LookTorn
  <2>1. identity = Half
    BY <1>1, RecordBounds DEF LookTorn, Inv, TypeOK, None, Half, Process, Pid, Absent, Torn
  <2>2. bootId \in {Absent, boot}
    BY <1>1 DEF LookTorn, Inv, Opened
  <2> QED  BY <2>1, <2>2 DEF Stuck
<1>2. CASE BrokerKilled
  BY <1>2, RecordBounds DEF BrokerKilled, Fault, Inv, TypeOK
<1>3. CASE Reboot
  BY <1>3, RecordBounds DEF Reboot, Inv, TypeOK, Boot
<1>4. CASE \/ LookBoot \/ LookIdentity \/ LookPidfd \/ LookStat \/ LookSelect
           \/ LookGroup \/ LookEvents \/ LookRmdir
  BY <1>4 DEF LookBoot, LookIdentity, LookPidfd, LookStat, LookSelect, LookGroup, LookEvents, LookRmdir
<1>5. CASE LookReaped
  BY <1>5 DEF LookReaped, Vanished
<1> QED  BY <1>1, <1>2, <1>3, <1>4, <1>5, LookFrame DEF Inv, AskingInit, AskingGroup

\* supervisor_has_exited and namespace_has_exited: process numbers that are
\* reused, records of an earlier boot and files that are half removed mislead no
\* look, whatever else happens on the host in the meantime.
THEOREM TrueAnswers == Spec => AnswersTrue
<1>1. Inv /\ [Next]_vars => [TrueAnswer]_vars
  <2> SUFFICES ASSUME Inv, Next PROVE TrueAnswer
    OBVIOUS
  <2>1. ASSUME broker \in AskingInit
        PROVE  /\ broker' = "lookGroup" => Seen!SupervisorExited(Evidence)
               /\ broker' = "again" => ~Seen!SupervisorExited(Evidence) \/ Stuck
    BY <2>1, InitAnswers, Evident
  <2>2. ASSUME broker \in AskingGroup
        PROVE  /\ broker' = "scan" => ~group' /\ (host => workload = "none")
               /\ broker' = "again" => (group /\ workload # "none") \/ Stuck \/ faults' # faults
    BY <2>2, GroupAnswers
  <2>3. ASSUME broker \in AskingInit \cup AskingGroup, broker' = "down"
        PROVE  Stuck \/ faults' # faults \/ boot' # boot \/ Vanished
    BY <2>3, EndAnswers
  <2> QED  BY <2>1, <2>2, <2>3, Zenon DEF TrueAnswer
<1> QED  BY <1>1, Invariant, PTL DEF Spec, AnswersTrue
=============================================================================
