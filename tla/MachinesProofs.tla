---------------------------- MODULE MachinesProofs ----------------------------
(***************************************************************************)
(* Proofs about Machines: the types, the first node of a cluster and the   *)
(* servers of the cloud, for any number of machines, jobs, requests and    *)
(* faults.  The invariant IInv serves the first two; the invariant NInv    *)
(* stands on it and says what the only job does to the machines as long as *)
(* nothing excuses the loss of a server.                                   *)
(***************************************************************************)
EXTENDS Machines, SequenceTheorems, FiniteSetTheorems, TLAPS

BatchStages == {"BatchCreate.OnInit", "BatchCreate.OnMachinesCreated",
                "BatchDelete.OnInit", "BatchDelete.OnDeleteMachines"}
Stages == ClusterStages \cup BatchStages \cup {"Alone"}
Points == {"none", "Create.OnInit", "Prepare.OnInit", "Prepare.Record", "Prepare.Run",
           "Prepare.OnPrepared", "Prepare.Failed", "Terminate.OnInit"}
Acts   == {"none", "create", "scale", "run", "upgrade", "remove"}
KidT   == [task : {"none", "Create", "Prepare", "Terminate"}, at : Points, vm : Nat]
JobT   == [stack : Seq(Stages), ret : BOOLEAN, on : SUBSET Machines, act : Acts, ctl : Nat,
           n : Nat, copy : ClusterStatus \cup {"none"}, kid : [Machines -> KidT], bad : BOOLEAN]
\* A job with no stage left is over.
GoodJob == {x \in JobT : x.stack = <<>> => x = NoJob}
Mach    == [st : MachineStatus, role : Roles, first : BOOLEAN, vm : Nat, ip : BOOLEAN]

\* The strengthening of TypeOK: the fields of the jobs that it leaves out.
Types == /\ TypeOK
         /\ made \in Nat
         /\ job \in [Jobs -> GoodJob]

IInv == Types /\ OneFirstNode

------------------------------------------------------------------------------
(* Jobs *)

LEMMA NoJobGood == NoJob \in GoodJob
<1>1. Idle \in KidT
  BY DEF Idle, KidT, Points
<1>2. [m \in Machines |-> Idle] \in [Machines -> KidT]
  BY <1>1
<1>3. <<>> \in Seq(Stages)
  BY EmptySeq
<1>4. NoJob \in JobT
  BY <1>2, <1>3 DEF NoJob, JobT, Roles, Acts
<1> QED
  BY <1>4 DEF GoodJob

LEMMA JobFields ==
  ASSUME NEW x \in GoodJob
  PROVE  /\ x \in JobT /\ x.stack \in Seq(Stages) /\ x.ret \in BOOLEAN /\ x.on \subseteq Machines
         /\ x.act \in Acts /\ x.ctl \in Nat /\ x.n \in Nat
         /\ x.copy \in ClusterStatus \cup {"none"} /\ x.kid \in [Machines -> KidT]
         /\ x.bad \in BOOLEAN
         /\ (x # NoJob => x.stack # <<>>)
  BY DEF GoodJob, JobT

\* Changing the stack of a job to another one, or another field of it.
LEMMA WithStack ==
  ASSUME NEW x \in JobT, NEW s \in Seq(Stages), s # <<>>, NEW ok \in BOOLEAN
  PROVE  /\ [x EXCEPT !.stack = s, !.ret = ok] \in GoodJob
         /\ [x EXCEPT !.stack = s, !.ret = ok].stack # <<>>
  BY DEF JobT, GoodJob

LEMMA Forgotten ==
  ASSUME NEW x \in JobT, NEW s \in Seq(Stages), s # <<>>, NEW ok \in BOOLEAN
  PROVE  [x EXCEPT !.stack = s, !.ret = ok, !.copy = "none", !.bad = FALSE] \in GoodJob
  BY DEF JobT, GoodJob

\* A stage of a job is replaced by others, or its end is told to the stage
\* that waits.
LEMMA GoesGood ==
  ASSUME Types, NEW j \in Jobs, job[j] # NoJob, NEW stages \in Seq(Stages), stages # <<>>
  PROVE  Goes(j, stages) \in GoodJob /\ Goes(j, stages).stack # <<>>
<1>1. job[j] \in GoodJob /\ job[j] \in JobT /\ job[j].stack \in Seq(Stages) /\ job[j].stack # <<>>
  BY JobFields DEF Types
<1>2. Tail(job[j].stack) \in Seq(Stages)
  BY <1>1, HeadTailProperties
<1>3. stages \o Tail(job[j].stack) \in Seq(Stages) /\ stages \o Tail(job[j].stack) # <<>>
  BY <1>2, ConcatProperties, ConcatEqualIffEmpty
<1> HIDE DEF Types
<1> QED
  BY <1>1, <1>3, WithStack DEF Goes

LEMMA EndsGood ==
  ASSUME Types, NEW j \in Jobs, job[j] # NoJob, NEW ok \in BOOLEAN
  PROVE  Ends(j, ok) \in GoodJob
<1>1. job[j] \in GoodJob /\ job[j] \in JobT /\ job[j].stack \in Seq(Stages) /\ job[j].stack # <<>>
  BY JobFields DEF Types
<1>2. CASE Len(job[j].stack) = 1
  BY <1>2, NoJobGood DEF Ends
<1>3. CASE Len(job[j].stack) # 1
  <2>1. /\ Tail(job[j].stack) \in Seq(Stages) /\ Len(job[j].stack) \in Nat \ {0}
        /\ Len(Tail(job[j].stack)) = Len(job[j].stack) - 1
    BY <1>1, HeadTailProperties, EmptySeq
  <2>2. Tail(job[j].stack) # <<>>
    <3>1. Len(Tail(job[j].stack)) # 0
      BY <2>1, <1>3
    <3>2. Len(<<>>) = 0
      BY EmptySeq
    <3> QED
      BY <3>1, <3>2
  <2> QED
    BY <1>1, <1>3, <2>1, <2>2, Forgotten DEF Ends
<1> QED
  BY <1>2, <1>3

LEMMA SetGood ==
  ASSUME Types, NEW j \in Jobs, NEW x \in GoodJob, Set(j, x)
  PROVE  job' \in [Jobs -> GoodJob]
  BY DEF Types, Set

LEMMA OnGood ==
  ASSUME NEW x \in GoodJob, x.stack # <<>>
  PROVE  /\ \A ms \in SUBSET Machines : [x EXCEPT !.on = ms] \in GoodJob
         /\ \A st \in ClusterStatus : [x EXCEPT !.copy = st] \in GoodJob
         /\ \A a \in Acts : [x EXCEPT !.act = a] \in GoodJob
         /\ \A k \in [Machines -> KidT] : [x EXCEPT !.kid = k, !.bad = FALSE] \in GoodJob
<1>0. x \in JobT
  BY DEF GoodJob
<1>1. \A ms \in SUBSET Machines : [x EXCEPT !.on = ms] \in GoodJob
  BY <1>0 DEF GoodJob, JobT
<1>2. \A st \in ClusterStatus : [x EXCEPT !.copy = st] \in GoodJob
  BY <1>0 DEF GoodJob, JobT
<1>3. \A a \in Acts : [x EXCEPT !.act = a] \in GoodJob
  BY <1>0 DEF GoodJob, JobT
<1>4. \A k \in [Machines -> KidT] : [x EXCEPT !.kid = k, !.bad = FALSE] \in GoodJob
  BY <1>0 DEF GoodJob, JobT
<1> QED
  BY <1>1, <1>2, <1>3, <1>4

------------------------------------------------------------------------------
(* Stages *)

\* The stages that a stage may start, the one that waits for them last.
Pairs == {<<"Add.OnInit", "New.OnMachinesCreated">>, <<"Addons.Run", "New.OnApplyAddonsComplete">>,
          <<"BatchCreate.OnInit", "Add.OnMachinesCreated">>,
          <<"Deploy.OnInit", "Add.OnMachinesDeployed">>, <<"Deploy.Run", "Deploy.OnDeployMachines">>,
          <<"Sync.OnInit", "Deploy.OnSyncStatusComplete">>, <<"Sync.Run", "Sync.OnSyncStatus">>,
          <<"SyncTask.OnInit", "Deploy.OnSyncComplete">>, <<"SyncTask.Run">>, <<"SyncTask.Hung">>,
          <<"BatchDelete.OnInit", "Delete.OnDeleteMachines">>,
          <<"Deploy.OnInit", "Delete.OnClusterNodeRemoved">>,
          <<"Sync.OnInit", "Delete.OnSyncStatus">>, <<"Delete.OnInit", "Gone.OnMachinesDeleted">>,
          <<"BatchCreate.OnMachinesCreated">>, <<"BatchDelete.OnDeleteMachines">>}

LEMMA PairsAreStages == ASSUME NEW s \in Pairs PROVE s \in Seq(Stages) /\ s # <<>>
<1>1. \A a, b \in Stages : <<a, b>> \in Seq(Stages) /\ <<a, b>> # <<>>
  OBVIOUS
<1>2. \A a \in Stages : <<a>> \in Seq(Stages) /\ <<a>> # <<>>
  OBVIOUS
<1>3. \/ \E a, b \in Stages : s = <<a, b>>
      \/ \E a \in Stages : s = <<a>>
  BY DEF Pairs, Stages, ClusterStages, BatchStages
<1> QED
  BY <1>1, <1>2, <1>3

LEMMA ResultGood ==
  ASSUME Types, NEW j \in Jobs, job[j] # NoJob
  PROVE  /\ \A ok \in BOOLEAN : Ends(j, ok) \in GoodJob
         /\ \A s \in Pairs : Goes(j, s) \in GoodJob /\ Goes(j, s).stack # <<>>
  BY GoesGood, EndsGood, PairsAreStages

\* The part of the types that a stage of the cluster's tasks may change.
Small == /\ cluster' \in ClusterStatus
         /\ job' \in [Jobs -> GoodJob]
         /\ faults' \in 0..MaxFaults
         /\ UNCHANGED <<mach, servers, made, excused, requests>>

LEMMA SmallKeeps == ASSUME IInv, Small PROVE IInv'
<1>1. \A j \in Jobs : job'[j].on \subseteq Machines /\ (job'[j].stack = <<>> => job'[j] = NoJob)
  BY JobFields DEF Small
<1>2. TypeOK'
  BY <1>1 DEF IInv, Types, TypeOK, Small
<1>3. OneFirstNode'
  BY DEF IInv, OneFirstNode, Rows, Live, Small
<1> QED
  BY <1>2, <1>3 DEF IInv, Types, Small

LEMMA FaultBound == ASSUME Types, Fault PROVE faults' \in 0..MaxFaults
  BY BoundsAssumption DEF Types, TypeOK, Fault

LEMMA StatusGood ==
  ASSUME Types, NEW j \in Jobs, job[j] # NoJob,
         \/ \E ok \in BOOLEAN : Set(j, Ends(j, ok))
         \/ \E s \in Pairs : Set(j, Goes(j, s))
  PROVE  job' \in [Jobs -> GoodJob]
  BY ResultGood, SetGood

------------------------------------------------------------------------------
(* Stages of the cluster's tasks *)

\* The job ends its stage or goes on to one of the pairs.
Moves(j) == \/ \E ok \in BOOLEAN : Set(j, Ends(j, ok))
            \/ \E s \in Pairs : Set(j, Goes(j, s))
Others == UNCHANGED <<mach, servers, made, excused, requests>>

LEMMA MovesSmall ==
  ASSUME Types, NEW j \in Jobs, job[j] # NoJob, Moves(j), cluster' \in ClusterStatus,
         UNCHANGED faults \/ Fault, Others
  PROVE  Small
<1>1. job' \in [Jobs -> GoodJob]
  BY StatusGood DEF Moves
<1>2. faults' \in 0..MaxFaults
  BY FaultBound DEF Types, TypeOK
<1> QED
  BY <1>1, <1>2 DEF Small, Others

LEMMA OrphanSmall == ASSUME Types, NEW j \in Jobs, Orphan(j) PROVE Small
<1>1. job[j] # NoJob
  BY DEF Orphan, Stage, Failed, At
<1>2. Moves(j)
  BY DEF Orphan, Moves, Pairs, Status
<1>3. cluster' \in ClusterStatus
  BY DEF Orphan, Status, Types, TypeOK, ClusterStatus
<1>4. (UNCHANGED faults \/ Fault) /\ Others
  BY DEF Orphan, Others
<1> QED
  BY <1>1, <1>2, <1>3, <1>4, MovesSmall

LEMMA NewInitSmall == ASSUME Types, NEW j \in Jobs, NewInit(j) PROVE Small
<1>1. job[j] # NoJob
  BY DEF NewInit, Stage, Failed, At
<1>2. Moves(j)
  BY DEF NewInit, Moves, Pairs, Status
<1>3. cluster' \in ClusterStatus
  BY DEF NewInit, Status, Types, TypeOK, ClusterStatus
<1>4. (UNCHANGED faults \/ Fault) /\ Others
  BY DEF NewInit, Others
<1> QED
  BY <1>1, <1>2, <1>3, <1>4, MovesSmall

LEMMA NewStepSmall == ASSUME Types, NEW j \in Jobs, NewStep(j) PROVE Small
<1>1. job[j] # NoJob
  BY DEF NewStep, Stage, Failed, At
<1>2. Moves(j)
  BY DEF NewStep, Moves, Pairs, Status
<1>3. cluster' \in ClusterStatus
  BY DEF NewStep, Status, Types, TypeOK, ClusterStatus
<1>4. (UNCHANGED faults \/ Fault) /\ Others
  BY DEF NewStep, Others
<1> QED
  BY <1>1, <1>2, <1>3, <1>4, MovesSmall

LEMMA AddStepSmall == ASSUME Types, NEW j \in Jobs, AddStep(j) PROVE Small
<1>1. job[j] # NoJob
  BY DEF AddStep, Stage, Failed, At
<1>2. Moves(j)
  BY DEF AddStep, Moves, Pairs, Status
<1>3. cluster' \in ClusterStatus
  BY DEF AddStep, Status, Types, TypeOK, ClusterStatus
<1>4. (UNCHANGED faults \/ Fault) /\ Others
  BY DEF AddStep, Others
<1> QED
  BY <1>1, <1>2, <1>3, <1>4, MovesSmall

LEMMA DeployInitSmall == ASSUME Types, NEW j \in Jobs, DeployInit(j) PROVE Small
<1>1. job[j] # NoJob
  BY DEF DeployInit, Stage, Failed, At
<1>2. Moves(j)
  BY DEF DeployInit, Moves, Pairs, Status
<1>3. cluster' \in ClusterStatus
  BY DEF DeployInit, Status, Types, TypeOK, ClusterStatus
<1>4. (UNCHANGED faults \/ Fault) /\ Others
  BY DEF DeployInit, Others
<1> QED
  BY <1>1, <1>2, <1>3, <1>4, MovesSmall

LEMMA DeployRunSmall == ASSUME Types, NEW j \in Jobs, DeployRun(j) PROVE Small
<1>1. job[j] # NoJob
  BY DEF DeployRun, Stage, Failed, At
<1>2. Moves(j)
  BY DEF DeployRun, Moves, Pairs, Status
<1>3. cluster' \in ClusterStatus
  BY DEF DeployRun, Status, Types, TypeOK, ClusterStatus
<1>4. (UNCHANGED faults \/ Fault) /\ Others
  BY DEF DeployRun, Others
<1> QED
  BY <1>1, <1>2, <1>3, <1>4, MovesSmall

LEMMA DeployStepSmall == ASSUME Types, NEW j \in Jobs, DeployStep(j) PROVE Small
<1>1. job[j] # NoJob
  BY DEF DeployStep, Stage, Failed, At
<1>2. Moves(j)
  BY DEF DeployStep, Moves, Pairs, Status
<1>3. cluster' \in ClusterStatus
  BY DEF DeployStep, Status, Types, TypeOK, ClusterStatus
<1>4. (UNCHANGED faults \/ Fault) /\ Others
  BY DEF DeployStep, Others
<1> QED
  BY <1>1, <1>2, <1>3, <1>4, MovesSmall

LEMMA SyncRunSmall == ASSUME Types, NEW j \in Jobs, SyncRun(j) PROVE Small
<1>1. job[j] # NoJob
  BY DEF SyncRun, Stage, Failed, At
<1>2. Moves(j)
  BY DEF SyncRun, Moves, Pairs, Status
<1>3. cluster' \in ClusterStatus
  BY DEF SyncRun, Status, Types, TypeOK, ClusterStatus
<1>4. (UNCHANGED faults \/ Fault) /\ Others
  BY DEF SyncRun, Others
<1> QED
  BY <1>1, <1>2, <1>3, <1>4, MovesSmall

LEMMA SyncDoneSmall == ASSUME Types, NEW j \in Jobs, SyncDone(j) PROVE Small
<1>1. job[j] # NoJob
  BY DEF SyncDone, Stage, Failed, At
<1>2. Moves(j)
  BY DEF SyncDone, Moves, Pairs, Status
<1>3. cluster' \in ClusterStatus
  BY DEF SyncDone, Status, Types, TypeOK, ClusterStatus
<1>4. (UNCHANGED faults \/ Fault) /\ Others
  BY DEF SyncDone, Others
<1> QED
  BY <1>1, <1>2, <1>3, <1>4, MovesSmall

LEMMA DeleteStepSmall == ASSUME Types, NEW j \in Jobs, DeleteStep(j) PROVE Small
<1>1. job[j] # NoJob
  BY DEF DeleteStep, Stage, Failed, At
<1>2. Moves(j)
  BY DEF DeleteStep, Moves, Pairs, Status
<1>3. cluster' \in ClusterStatus
  BY DEF DeleteStep, Status, Types, TypeOK, ClusterStatus
<1>4. (UNCHANGED faults \/ Fault) /\ Others
  BY DEF DeleteStep, Others
<1> QED
  BY <1>1, <1>2, <1>3, <1>4, MovesSmall

LEMMA GoneDoneSmall == ASSUME Types, NEW j \in Jobs, GoneDone(j) PROVE Small
<1>1. job[j] # NoJob
  BY DEF GoneDone, Stage, Failed, At
<1>2. Moves(j)
  BY DEF GoneDone, RealDelete, Moves, Pairs, Status
<1>3. cluster' \in ClusterStatus
  BY DEF GoneDone, RealDelete, Status, Types, TypeOK, ClusterStatus
<1>4. (UNCHANGED faults \/ Fault) /\ Others
  BY DEF GoneDone, RealDelete, Others
<1> QED
  BY <1>1, <1>2, <1>3, <1>4, MovesSmall

LEMMA SyncInitSmall == ASSUME Types, NEW j \in Jobs, SyncInit(j) PROVE Small
<1>0. job[j] # NoJob /\ Others /\ UNCHANGED faults
  BY DEF SyncInit, Stage, At, Others
<1>1. CASE Rows = {}
  <2>1. Moves(j) /\ cluster' \in ClusterStatus
    BY <1>1 DEF SyncInit, Status, Moves, ClusterStatus
  <2> QED
    BY <1>0, <2>1, MovesSmall
<1>2. CASE Rows # {}
  <2> DEFINE s == <<"Sync.Run", "Sync.OnSyncStatus">>
  <2>1. Set(j, [Goes(j, s) EXCEPT !.copy = cluster]) /\ UNCHANGED cluster
    BY <1>2 DEF SyncInit
  <2>2. s \in Pairs
    BY DEF Pairs
  <2> HIDE DEF s
  <2>3. [Goes(j, s) EXCEPT !.copy = cluster] \in GoodJob
    BY <1>0, <2>2, ResultGood, OnGood DEF Types, TypeOK
  <2>4. job' \in [Jobs -> GoodJob]
    BY <2>1, <2>3, SetGood
  <2> QED
    BY <1>0, <2>1, <2>4 DEF Small, Others, Types, TypeOK
<1> QED
  BY <1>1, <1>2

LEMMA SyncTaskSmall == ASSUME Types, NEW j \in Jobs, SyncTask(j) PROVE Small
<1>0. job[j] # NoJob /\ Others /\ UNCHANGED cluster
  BY DEF SyncTask, Stage, At, Others
<1>1. faults' \in 0..MaxFaults
  <2>1. Fault \/ UNCHANGED faults
    BY DEF SyncTask
  <2> QED
    BY <2>1, FaultBound DEF Types, TypeOK
<1>2. job' \in [Jobs -> GoodJob]
  <2> DEFINE s == <<"SyncTask.Run">>
  <2>1. CASE Set(j, [Goes(j, s) EXCEPT !.copy = cluster])
    <3>1. s \in Pairs
      BY DEF Pairs
    <3> HIDE DEF s
    <3>2. [Goes(j, s) EXCEPT !.copy = cluster] \in GoodJob
      BY <1>0, <3>1, ResultGood, OnGood DEF Types, TypeOK
    <3> QED
      BY <2>1, <3>2, SetGood
  <2>2. CASE ~Set(j, [Goes(j, s) EXCEPT !.copy = cluster])
    <3>1. <<"SyncTask.Hung">> \in Pairs /\ (job[j].copy = "running") \in BOOLEAN
      BY DEF Pairs
    <3>2. \/ \E ok \in BOOLEAN : Set(j, Ends(j, ok))
          \/ Set(j, Goes(j, <<"SyncTask.Hung">>))
      BY <2>2, <3>1 DEF SyncTask
    <3> QED
      BY <1>0, <3>1, <3>2, StatusGood
  <2> QED
    BY <2>1, <2>2
<1> QED
  BY <1>0, <1>1, <1>2 DEF Small, Others, Types, TypeOK

LEMMA DeleteInitSmall == ASSUME Types, NEW j \in Jobs, DeleteInit(j) PROVE Small
<1>0. job[j] # NoJob /\ Others /\ UNCHANGED faults
  BY DEF DeleteInit, Stage, At, Others
<1>1. CASE ~(job[j].on \subseteq Rows) \/ Deleting
  <2>1. Moves(j) /\ cluster' \in ClusterStatus
    BY <1>1 DEF DeleteInit, Status, Moves, ClusterStatus, Pairs, Types, TypeOK
  <2> QED
    BY <1>0, <2>1, MovesSmall
<1>2. CASE job[j].on \subseteq Rows /\ ~Deleting
  <2> DEFINE s == <<"Deploy.OnInit", "Delete.OnClusterNodeRemoved">>
  <2>1. Set(j, [Goes(j, s) EXCEPT !.act = "remove"]) /\ cluster' = "deploying"
    BY <1>2 DEF DeleteInit, Status
  <2>2. s \in Pairs
    BY DEF Pairs
  <2> HIDE DEF s
  <2>3. [Goes(j, s) EXCEPT !.act = "remove"] \in GoodJob
    BY <1>0, <2>2, ResultGood, OnGood DEF Acts
  <2>4. job' \in [Jobs -> GoodJob]
    BY <2>1, <2>3, SetGood
  <2> QED
    BY <1>0, <2>1, <2>4 DEF Small, Others, Types, TypeOK, ClusterStatus
<1> QED
  BY <1>1, <1>2

LEMMA AloneSmall == ASSUME Types, NEW j \in Jobs, Alone(j) PROVE Small
<1>1. job' \in [Jobs -> GoodJob]
  BY NoJobGood, SetGood DEF Alone
<1> QED
  BY <1>1 DEF Alone, Small, Types, TypeOK

------------------------------------------------------------------------------
(* Steps that change rows of machines *)

\* No step but AddInit makes a row, a first node or another role.
Fewer == \A m \in Machines : /\ mach'[m].first = mach[m].first
                             /\ mach'[m].role = mach[m].role
                             /\ Live(m)' => Live(m)

LEMMA FewerKeeps == ASSUME OneFirstNode, Fewer PROVE OneFirstNode'
  BY DEF OneFirstNode, Fewer, Rows

\* What such a step leaves to be shown.
Row == /\ mach' \in [Machines -> Mach] /\ Fewer
       /\ made' \in Nat /\ servers' \subseteq 1..made'
       /\ cluster' \in ClusterStatus /\ job' \in [Jobs -> GoodJob]
       /\ excused' \in BOOLEAN
       /\ requests' \in 0..MaxRequests /\ faults' \in 0..MaxFaults

LEMMA TypesFromRow ==
  ASSUME mach' \in [Machines -> Mach], made' \in Nat, servers' \subseteq 1..made',
         cluster' \in ClusterStatus, job' \in [Jobs -> GoodJob], excused' \in BOOLEAN,
         requests' \in 0..MaxRequests, faults' \in 0..MaxFaults
  PROVE  Types'
<1>1. \A j \in Jobs : job'[j].on \subseteq Machines /\ (job'[j].stack = <<>> => job'[j] = NoJob)
  BY JobFields
<1>2. TypeOK'
  BY <1>1 DEF TypeOK, Mach
<1> QED
  BY <1>2 DEF Types

LEMMA RowKeeps == ASSUME IInv, Row PROVE IInv'
<1>1. Types'
  BY TypesFromRow DEF Row
<1> QED
  BY <1>1, FewerKeeps DEF Row, IInv

LEMMA MachType == ASSUME Types PROVE mach \in [Machines -> Mach] /\ made \in Nat
  BY DEF Types, TypeOK, Mach

\* The rows after a change of status.
LEMMA MarkedStep ==
  ASSUME Types, NEW ms, NEW st \in MachineStatus, made' = made, mach' = Marked(ms, st)
  PROVE  mach' \in [Machines -> Mach] /\ Fewer
<1>1. \A m \in Machines : mach[m] \in Mach
  BY MachType
<1>2. \A m \in Machines : [mach[m] EXCEPT !.st = st] \in Mach
  BY <1>1 DEF Mach
<1>3. mach' \in [Machines -> Mach]
  BY <1>1, <1>2 DEF Marked
<1>4. ASSUME NEW m \in Machines
      PROVE  /\ mach'[m].first = mach[m].first /\ mach'[m].role = mach[m].role
             /\ Live(m)' => Live(m)
  <2>1. CASE m \in ms /\ Live(m)
    <3>1. mach'[m] = [mach[m] EXCEPT !.st = st]
      BY <2>1 DEF Marked
    <3>2. mach[m] \in Mach
      BY <1>1
    <3> QED
      BY <2>1, <3>1, <3>2 DEF Mach
  <2>2. CASE ~(m \in ms /\ Live(m))
    <3>1. mach'[m] = mach[m]
      BY <2>2 DEF Marked
    <3> QED
      BY <3>1 DEF Live
  <2> QED
    BY <2>1, <2>2
<1> QED
  BY <1>3, <1>4 DEF Fewer

LEMMA SameStep ==
  ASSUME Types, made' = made, mach' = mach
  PROVE  mach' \in [Machines -> Mach] /\ Fewer
  BY MachType DEF Fewer, Live

LEMMA GoneInitRow == ASSUME Types, NEW j \in Jobs, GoneInit(j) PROVE Row
<1>0. /\ job[j] # NoJob /\ made' = made /\ servers' = servers /\ excused' = excused
      /\ requests' = requests
  BY DEF GoneInit, Stage, At
<1>1. mach' \in [Machines -> Mach] /\ Fewer
  <2>1. "deleting" \in MachineStatus
    BY DEF MachineStatus
  <2>2. mach' = mach \/ mach' = Marked(Rows, "deleting")
    BY DEF GoneInit
  <2> QED
    BY <1>0, <2>1, <2>2, MarkedStep, SameStep
<1>2. job' \in [Jobs -> GoodJob]
  <2>1. CASE Rows = {}
    BY <1>0, <2>1, StatusGood DEF GoneInit, RealDelete, Status
  <2>2. CASE Rows # {}
    <3> DEFINE s == <<"Delete.OnInit", "Gone.OnMachinesDeleted">>
    <3>1. Set(j, [Goes(j, s) EXCEPT !.on = Rows])
      BY <2>2 DEF GoneInit
    <3>2. s \in Pairs
      BY DEF Pairs
    <3> HIDE DEF s
    <3>3. Rows \in SUBSET Machines
      BY DEF Rows
    <3>4. [Goes(j, s) EXCEPT !.on = Rows] \in GoodJob
      BY <1>0, <3>2, <3>3, ResultGood, OnGood
    <3> QED
      BY <3>1, <3>4, SetGood
  <2> QED
    BY <2>1, <2>2
<1>3. cluster' \in ClusterStatus
  BY DEF GoneInit, RealDelete, Status, ClusterStatus, Types, TypeOK
<1>4. faults' \in 0..MaxFaults
  <2>1. Fault \/ UNCHANGED faults
    BY DEF GoneInit, RealDelete
  <2> QED
    BY <2>1, FaultBound DEF Types, TypeOK
<1> QED
  BY <1>0, <1>1, <1>2, <1>3, <1>4 DEF Row, Types, TypeOK

LEMMA BatchInitRow ==
  ASSUME Types, NEW j \in Jobs, NEW batch, NEW after, <<after>> \in Pairs,
         NEW st \in MachineStatus, NEW kid \in KidT, BatchInit(j, batch, after, st, kid)
  PROVE  Row
<1>0. /\ job[j] # NoJob /\ made' = made /\ servers' = servers /\ excused' = excused
      /\ requests' = requests /\ faults' = faults /\ cluster' = cluster
  BY DEF BatchInit, BatchStage, At
<1>1. mach' \in [Machines -> Mach] /\ Fewer
  BY <1>0, MarkedStep DEF BatchInit
<1>2. job' \in [Jobs -> GoodJob]
  <2> DEFINE k == [m \in Machines |-> IF m \in job[j].on THEN kid ELSE Idle]
  <2>1. k \in [Machines -> KidT]
    BY DEF Idle, KidT, Points
  <2>2. Set(j, [Goes(j, <<after>>) EXCEPT !.kid = k, !.bad = FALSE])
    BY DEF BatchInit
  <2> HIDE DEF k
  <2>3. [Goes(j, <<after>>) EXCEPT !.kid = k, !.bad = FALSE] \in GoodJob
    BY <1>0, <2>1, ResultGood, OnGood
  <2> QED
    BY <2>2, <2>3, SetGood
<1> QED
  BY <1>0, <1>1, <1>2 DEF Row, Types, TypeOK

LEMMA BatchDoneRow == ASSUME Types, NEW j \in Jobs, BatchDone(j) PROVE Row
<1>0. /\ job[j] # NoJob /\ made' = made /\ servers' = servers /\ excused' = excused
      /\ requests' = requests /\ faults' = faults /\ cluster' = cluster
  BY DEF BatchDone, BatchStage, At
<1>1. mach' \in [Machines -> Mach] /\ Fewer
  <2>1. "gone" \in MachineStatus
    BY DEF MachineStatus
  <2>2. mach' = mach \/ mach' = Marked(job[j].on, "gone")
    BY DEF BatchDone
  <2> QED
    BY <1>0, <2>1, <2>2, MarkedStep, SameStep
<1>2. job' \in [Jobs -> GoodJob]
  <2>1. job[j].ret \in BOOLEAN
    BY JobFields DEF Types
  <2>2. \E ok \in BOOLEAN : Set(j, Ends(j, ok))
    BY <2>1 DEF BatchDone
  <2> QED
    BY <1>0, <2>2, StatusGood
<1> QED
  BY <1>0, <1>1, <1>2 DEF Row, Types, TypeOK

------------------------------------------------------------------------------
(* New rows *)

\* What AddInit does: rows are inserted, all or some of them.
Inserts(j, ms) ==
  /\ ms \subseteq Unused
  /\ mach' = [m \in Machines |-> IF m \in ms THEN NewRow(j, m, ms) ELSE mach[m]]
  /\ \/ /\ Set(j, [Goes(j, <<"BatchCreate.OnInit", "Add.OnMachinesCreated">>) EXCEPT !.on = ms])
        /\ UNCHANGED <<cluster, faults>>
     \/ Status(j, "create_machine_fail", Ends(j, FALSE)) /\ Fault

LEMMA AddInitCases ==
  ASSUME NEW j \in Jobs, AddInit(j)
  PROVE  \/ Status(j, "create_machine_fail", Ends(j, FALSE)) /\ UNCHANGED <<mach, faults>>
         \/ /\ Rows # {} \/ job[j].ctl > 0
            /\ \E ms \in SUBSET Machines : Inserts(j, ms)
  BY DEF AddInit, Inserts, Unused

LEMMA NewRowFields ==
  ASSUME Types, NEW j \in Jobs, NEW ms \in SUBSET Machines, NEW m \in ms
  PROVE  /\ NewRow(j, m, ms) \in Mach /\ (NewRow(j, m, ms).first <=> FirstNode(m, ms))
         /\ NewRow(j, m, ms).vm = 0
         /\ Cardinality({o \in ms : o < m}) < job[j].ctl =>
              NewRow(j, m, ms).role = "controlplane"
<1> DEFINE f == FirstNode(m, ms)
           c == IF Cardinality({o \in ms : o < m}) < job[j].ctl THEN "controlplane" ELSE "node"
<1>1. f \in BOOLEAN /\ c \in Roles
  BY DEF FirstNode, Roles
<1>2. Cardinality({o \in ms : o < m}) < job[j].ctl => c = "controlplane"
  OBVIOUS
<1>3. NewRow(j, m, ms) = [NoMachine EXCEPT !.st = "init", !.first = f, !.role = c]
  BY DEF NewRow
<1>4. f <=> FirstNode(m, ms)
  OBVIOUS
<1> HIDE DEF f, c
<1> DEFINE r == NewRow(j, m, ms)
<1>5. r.st = "init" /\ r.first = f /\ r.role = c /\ r.vm = 0 /\ r.ip = FALSE
  BY <1>3 DEF NoMachine
<1>6. NoMachine \in Mach
  BY DEF NoMachine, Mach, MachineStatus, Roles
<1>7. r \in Mach
  BY <1>1, <1>3, <1>6 DEF Mach, MachineStatus
<1> HIDE DEF r
<1> QED
  BY <1>1, <1>2, <1>4, <1>5, <1>7 DEF r

\* The first of the rows that are inserted is a controlplane.
LEMMA LeastIsControl ==
  ASSUME Types, NEW j \in Jobs, job[j].ctl > 0, NEW ms \in SUBSET Machines, NEW m \in ms,
         \A o \in ms : m <= o
  PROVE  NewRow(j, m, ms).role = "controlplane"
<1>1. \A o \in ms : o \in Nat
  BY NamesAssumption
<1>2. {o \in ms : o < m} = {}
  BY <1>1
<1>3. Cardinality({o \in ms : o < m}) = 0
  BY <1>2, FS_EmptySet
<1>4. Cardinality({o \in ms : o < m}) < job[j].ctl
  BY <1>3
<1> QED
  BY <1>4, NewRowFields

LEMMA AddInitKeeps == ASSUME IInv, NEW j \in Jobs, AddInit(j) PROVE IInv'
<1>0. /\ Types /\ OneFirstNode
      /\ job[j] # NoJob /\ made' = made /\ servers' = servers /\ excused' = excused
      /\ requests' = requests
  BY DEF AddInit, Stage, At, IInv
<1>1. CASE Status(j, "create_machine_fail", Ends(j, FALSE)) /\ UNCHANGED <<mach, faults>>
  <2>1. Moves(j) /\ cluster' \in ClusterStatus
    BY <1>1 DEF Status, Moves, ClusterStatus
  <2>2. Small
    BY <1>0, <1>1, <2>1, MovesSmall DEF Others
  <2> QED
    BY <2>2, SmallKeeps
<1>2. ASSUME Rows # {} \/ job[j].ctl > 0, NEW ms \in SUBSET Machines, Inserts(j, ms) PROVE IInv'
  <2> DEFINE s == <<"BatchCreate.OnInit", "Add.OnMachinesCreated">>
  <2>1. mach' = [m \in Machines |-> IF m \in ms THEN NewRow(j, m, ms) ELSE mach[m]]
    BY <1>2 DEF Inserts
  <2>2. cluster' \in ClusterStatus /\ faults' \in 0..MaxFaults
    <3>1. UNCHANGED <<cluster, faults>> \/ (cluster' = "create_machine_fail" /\ Fault)
      BY <1>2 DEF Inserts, Status
    <3> QED
      BY <1>0, <3>1, FaultBound DEF Types, TypeOK, ClusterStatus
  <2>3. job' \in [Jobs -> GoodJob]
    <3>1. CASE Set(j, Ends(j, FALSE))
      BY <1>0, <3>1, StatusGood
    <3>2. CASE Set(j, [Goes(j, s) EXCEPT !.on = ms])
      <4>1. s \in Pairs
        BY DEF Pairs
      <4> HIDE DEF s
      <4>2. [Goes(j, s) EXCEPT !.on = ms] \in GoodJob
        BY <1>0, <4>1, ResultGood, OnGood
      <4> QED
        BY <1>0, <3>2, <4>2, SetGood
    <3> QED
      BY <1>2, <3>1, <3>2 DEF Inserts, Status
  <2>5. \A m \in ms : /\ NewRow(j, m, ms) \in Mach
                      /\ NewRow(j, m, ms).first <=> FirstNode(m, ms)
    BY <1>0, NewRowFields
  <2>6. /\ mach' \in [Machines -> Mach]
        /\ \A m \in ms : mach'[m] = NewRow(j, m, ms)
        /\ \A m \in Machines \ ms : mach'[m] = mach[m]
    BY <1>0, <2>1, <2>5, MachType
  <2>7. OneFirstNode'
    <3>1. SUFFICES ASSUME NEW m \in Rows', NEW o \in Rows', mach'[m].first
                   PROVE  mach'[m].role = "controlplane" /\ (mach'[o].first => m = o)
      BY DEF OneFirstNode
    <3>2. m \in Machines /\ o \in Machines
      BY DEF Rows
    <3>3. \A x \in Machines \ ms : x \in Rows' => x \in Rows
      BY <2>6 DEF Rows, Live
    <3>4. CASE m \in ms
      <4>1. Rows = {} /\ \A x \in ms : m <= x
        BY <3>1, <3>4, <2>5, <2>6 DEF FirstNode
      <4>2. o \in ms
        BY <3>2, <3>3, <4>1
      <4>3. mach'[o].first => \A x \in ms : o <= x
        BY <4>2, <2>5, <2>6 DEF FirstNode
      <4>4. m \in Nat /\ o \in Nat
        BY <3>2, NamesAssumption
      <4>5. mach'[m].role = "controlplane"
        BY <1>0, <1>2, <2>6, <3>4, <4>1, LeastIsControl
      <4> QED
        BY <3>4, <4>1, <4>2, <4>3, <4>4, <4>5
    <3>5. CASE m \notin ms
      <4>1. m \in Rows /\ mach[m].first
        BY <2>6, <3>1, <3>2, <3>3, <3>5
      <4>2. CASE o \in ms
        BY <4>1, <4>2, <2>5, <2>6, <1>0, <3>2, <3>5 DEF FirstNode, OneFirstNode
      <4>3. CASE o \notin ms
        BY <4>1, <4>3, <2>6, <1>0, <3>2, <3>3, <3>5 DEF OneFirstNode
      <4> QED
        BY <4>2, <4>3
    <3> QED
      BY <3>4, <3>5
  <2>8. Types'
    BY <1>0, <2>2, <2>3, <2>6, TypesFromRow DEF Types, TypeOK
  <2> QED
    BY <2>7, <2>8 DEF IInv
<1> QED
  BY <1>1, <1>2, AddInitCases

(* Tasks of one machine *)

\* A machine's task is under way only in a job that is.
LEMMA KidJob ==
  ASSUME Types, NEW j \in Jobs, NEW m \in Machines
  PROVE  /\ job[j] \in JobT /\ job[j].kid \in [Machines -> KidT]
         /\ job[j].ret \in BOOLEAN /\ job[j].bad \in BOOLEAN
         /\ (job[j].kid[m].at # "none" => job[j].stack # <<>>)
<1>1. job[j] \in GoodJob
  BY DEF Types
<1>2. job[j] = NoJob => job[j].kid[m].at = "none"
  BY DEF NoJob, Idle
<1> QED
  BY <1>1, <1>2, JobFields

LEMMA KidSet ==
  ASSUME Types, NEW j \in Jobs, NEW m \in Machines, job[j].kid[m].at # "none",
         NEW k \in KidT, NEW ok \in BOOLEAN, NEW bad \in BOOLEAN
  PROVE  [job[j] EXCEPT !.kid[m] = k, !.ret = ok, !.bad = bad] \in GoodJob
<1> DEFINE kk == [job[j].kid EXCEPT ![m] = k]
<1>1. /\ job[j] \in JobT /\ job[j].stack # <<>> /\ kk \in [Machines -> KidT]
  BY KidJob
<1> HIDE DEF kk
<1>2. [job[j] EXCEPT !.kid = kk, !.ret = ok, !.bad = bad] \in GoodJob
  BY <1>1 DEF JobT, GoodJob
<1> QED
  BY <1>2 DEF kk

LEMMA KidGoesGood ==
  ASSUME Types, NEW j \in Jobs, NEW m \in Machines, job[j].kid[m].at # "none",
         NEW at \in Points, NEW vm \in Nat,
         \/ KidGoes(j, m, at)
         \/ Set(j, [job[j] EXCEPT !.kid[m].at = at, !.kid[m].vm = vm])
  PROVE  job' \in [Jobs -> GoodJob]
<1> DEFINE old == job[j].kid[m]
           k1 == [old EXCEPT !.at = at]
           k2 == [old EXCEPT !.at = at, !.vm = vm]
<1>1. job[j] \in JobT /\ job[j].stack # <<>> /\ job[j].kid \in [Machines -> KidT]
  BY KidJob
<1>2. old \in KidT /\ k1 \in KidT /\ k2 \in KidT
  BY <1>1 DEF KidT
<1>3. [job[j].kid EXCEPT ![m] = k1] \in [Machines -> KidT]
      /\ [job[j].kid EXCEPT ![m] = k2] \in [Machines -> KidT]
  BY <1>1, <1>2
<1>4. ASSUME NEW kk \in [Machines -> KidT] PROVE [job[j] EXCEPT !.kid = kk] \in GoodJob
  BY <1>1 DEF JobT, GoodJob
<1>5. \/ Set(j, [job[j] EXCEPT !.kid = [job[j].kid EXCEPT ![m] = k1]])
      \/ Set(j, [job[j] EXCEPT !.kid = [job[j].kid EXCEPT ![m] = k2]])
  <2>1. [job[j] EXCEPT !.kid[m].at = at]
          = [job[j] EXCEPT !.kid = [job[j].kid EXCEPT ![m] = k1]]
    OBVIOUS
  <2>2. [job[j] EXCEPT !.kid[m].at = at, !.kid[m].vm = vm]
          = [job[j] EXCEPT !.kid = [job[j].kid EXCEPT ![m] = k2]]
    BY <1>1, <1>2 DEF JobT, KidT
  <2> QED
    BY <2>1, <2>2 DEF KidGoes
<1> QED
  BY <1>3, <1>4, <1>5, SetGood

LEMMA KidEndsGood ==
  ASSUME Types, NEW j \in Jobs, NEW m \in Machines, job[j].kid[m].at # "none",
         NEW ok \in BOOLEAN, KidEnds(j, m, ok)
  PROVE  job' \in [Jobs -> GoodJob] /\ excused' \in BOOLEAN
<1>1. Idle \in KidT
  BY DEF Idle, KidT, Points
<1>2. (IF Kids(j) = {m} THEN ok ELSE job[j].ret) \in BOOLEAN /\ (job[j].bad \/ ~ok) \in BOOLEAN
  BY KidJob
<1>3. [job[j] EXCEPT !.kid[m] = Idle, !.ret = IF Kids(j) = {m} THEN ok ELSE @,
                     !.bad = @ \/ ~ok] \in GoodJob
  BY <1>1, <1>2, KidSet
<1>4. job' \in [Jobs -> GoodJob]
  BY <1>3, SetGood DEF KidEnds
<1>5. excused' \in BOOLEAN
  BY Zenon DEF KidEnds
<1> QED
  BY <1>4, <1>5

LEMMA CreateInitRow ==
  ASSUME Types, NEW j \in Jobs, NEW m \in Machines, CreateInit(j, m) PROVE Row
<1>0. /\ job[j].kid[m].at # "none" /\ made' = made /\ servers' = servers /\ cluster' = cluster
      /\ requests' = requests /\ faults' = faults
  BY DEF CreateInit, KidAt
<1>1. "prepare" \in MachineStatus /\ "create_fail" \in MachineStatus /\ "Prepare.OnInit" \in Points
  BY DEF MachineStatus, Points
<1>2. mach' \in [Machines -> Mach] /\ Fewer
  BY <1>0, <1>1, MarkedStep DEF CreateInit
<1>3. job' \in [Jobs -> GoodJob] /\ excused' \in BOOLEAN
  <2>1. CASE KidGoes(j, m, "Prepare.OnInit") /\ UNCHANGED excused
    BY <1>0, <1>1, <2>1, KidGoesGood DEF Types, TypeOK
  <2>2. CASE KidEnds(j, m, FALSE)
    BY <1>0, <2>2, KidEndsGood
  <2> QED
    BY <2>1, <2>2 DEF CreateInit
<1> QED
  BY <1>0, <1>2, <1>3 DEF Row, Types, TypeOK

LEMMA PrepareServerRow ==
  ASSUME Types, NEW j \in Jobs, NEW m \in Machines, PrepareServer(j, m) PROVE Row
<1>0. /\ job[j].kid[m].at # "none" /\ cluster' = cluster /\ excused' = excused
      /\ requests' = requests /\ mach' = mach /\ made \in Nat
  BY DEF PrepareServer, KidAt, Types
<1>1. mach' \in [Machines -> Mach] /\ Fewer
  BY <1>0, MachType DEF Fewer, Live
<1>2. CASE /\ made' = made + 1 /\ servers' = servers \cup {made + 1}
           /\ Set(j, [job[j] EXCEPT !.kid[m].at = "Prepare.Record", !.kid[m].vm = made + 1])
           /\ UNCHANGED faults
  <2>1. job' \in [Jobs -> GoodJob]
    <3>1. "Prepare.Record" \in Points /\ made + 1 \in Nat
      BY <1>0 DEF Points
    <3> QED
      BY <1>0, <1>2, <3>1, KidGoesGood
  <2>2. servers' \subseteq 1..made' /\ made' \in Nat
    BY <1>0, <1>2 DEF Types, TypeOK
  <2> QED
    BY <1>0, <1>1, <1>2, <2>1, <2>2 DEF Row, Types, TypeOK
<1>3. CASE /\ KidGoes(j, m, "Prepare.Failed") /\ (Fault \/ UNCHANGED faults)
           /\ UNCHANGED <<servers, made>>
  <2>1. job' \in [Jobs -> GoodJob]
    <3>1. "Prepare.Failed" \in Points /\ 0 \in Nat
      BY DEF Points
    <3> QED
      BY <1>0, <1>3, <3>1, KidGoesGood
  <2>2. faults' \in 0..MaxFaults
    BY <1>3, FaultBound DEF Types, TypeOK
  <2> QED
    BY <1>0, <1>1, <1>3, <2>1, <2>2 DEF Row, Types, TypeOK
<1> QED
  BY <1>2, <1>3 DEF PrepareServer

\* The row of m after its server was recorded.
LEMMA RecordRows ==
  ASSUME Types, NEW m \in Machines, NEW v \in Nat, mach' = [mach EXCEPT ![m].vm = v]
  PROVE  /\ mach' \in [Machines -> Mach]
         /\ \A x \in Machines : /\ mach'[x].first = mach[x].first /\ mach'[x].role = mach[x].role
                                /\ mach'[x].st = mach[x].st
                                /\ mach'[x].vm = IF x = m THEN v ELSE mach[x].vm
<1>1. \A x \in Machines : mach[x] \in Mach
  BY MachType
<1>2. \A r \in Mach : [r EXCEPT !.vm = v] \in Mach
  BY DEF Mach
<1>3. mach' \in [Machines -> Mach]
  BY <1>1, <1>2, MachType
<1>4. ASSUME NEW x \in Machines
      PROVE  /\ mach'[x].first = mach[x].first /\ mach'[x].role = mach[x].role
             /\ mach'[x].st = mach[x].st
             /\ mach'[x].vm = IF x = m THEN v ELSE mach[x].vm
  <2>1. mach[x] \in Mach
    BY <1>1
  <2>2. mach'[x] = IF x = m THEN [mach[m] EXCEPT !.vm = v] ELSE mach[x]
    BY MachType
  <2> QED
    BY <2>1, <2>2 DEF Mach
<1> QED
  BY <1>3, <1>4

LEMMA PrepareRecordRow ==
  ASSUME Types, NEW j \in Jobs, NEW m \in Machines, PrepareRecord(j, m) PROVE Row
<1>0. /\ job[j].kid[m].at # "none" /\ cluster' = cluster /\ servers' = servers /\ made' = made
      /\ requests' = requests
  BY DEF PrepareRecord, KidAt
<1>1. job' \in [Jobs -> GoodJob]
  <2>1. "Prepare.Run" \in Points /\ 0 \in Nat
    BY DEF Points
  <2>2. KidGoes(j, m, "Prepare.Run")
    BY DEF PrepareRecord
  <2> QED
    BY <1>0, <2>1, <2>2, KidGoesGood
<1>2. faults' \in 0..MaxFaults /\ excused' \in BOOLEAN
  <2>1. UNCHANGED <<excused, faults>> \/ (excused' = TRUE /\ Fault)
    BY DEF PrepareRecord
  <2> QED
    BY <2>1, FaultBound DEF Types, TypeOK
<1>3. mach' \in [Machines -> Mach] /\ Fewer
  <2> DEFINE v == job[j].kid[m].vm
  <2>1. v \in Nat
    BY KidJob DEF KidT
  <2>2. mach' = mach \/ mach' = [mach EXCEPT ![m].vm = v]
    BY DEF PrepareRecord
  <2> HIDE DEF v
  <2>3. CASE mach' = mach
    BY <1>0, <2>3, SameStep
  <2>4. CASE mach' = [mach EXCEPT ![m].vm = v]
    BY <2>1, <2>4, RecordRows DEF Fewer, Live
  <2> QED
    BY <2>2, <2>3, <2>4
<1> QED
  BY <1>0, <1>1, <1>2, <1>3 DEF Row, Types, TypeOK

LEMMA PrepareRunRow ==
  ASSUME Types, NEW j \in Jobs, NEW m \in Machines, PrepareRun(j, m) PROVE Row
<1>0. /\ job[j].kid[m].at # "none" /\ cluster' = cluster /\ excused' = excused
      /\ requests' = requests /\ servers' = servers /\ made' = made
  BY DEF PrepareRun, KidAt
<1>1. job' \in [Jobs -> GoodJob]
  <2>1. "Prepare.Failed" \in Points /\ "Prepare.OnPrepared" \in Points /\ 0 \in Nat
    BY DEF Points
  <2>2. KidGoes(j, m, "Prepare.OnPrepared") \/ KidGoes(j, m, "Prepare.Failed")
    BY DEF PrepareRun
  <2> QED
    BY <1>0, <2>1, <2>2, KidGoesGood
<1>2. faults' \in 0..MaxFaults
  <2>1. Fault \/ UNCHANGED faults
    BY DEF PrepareRun
  <2> QED
    BY <2>1, FaultBound DEF Types, TypeOK
<1>3. mach' \in [Machines -> Mach] /\ Fewer
  <2>1. CASE mach' = mach
    BY <1>0, <2>1, SameStep
  <2>2. CASE Live(m) /\ mach' = [mach EXCEPT ![m].ip = TRUE, ![m].st = "running"]
    <3>1. \A x \in Machines : mach[x] \in Mach
      BY MachType
    <3>2. \A r \in Mach : [r EXCEPT !.ip = TRUE, !.st = "running"] \in Mach
      BY DEF Mach, MachineStatus
    <3>3. mach' = [mach EXCEPT ![m] = [mach[m] EXCEPT !.ip = TRUE, !.st = "running"]]
      BY <2>2, <3>1, MachType
    <3>4. mach' \in [Machines -> Mach]
      BY <1>0, <3>1, <3>2, <3>3, MachType
    <3>5. ASSUME NEW x \in Machines
          PROVE  /\ mach'[x].first = mach[x].first /\ mach'[x].role = mach[x].role
                 /\ x # m => mach'[x].st = mach[x].st
      <4>1. mach[x] \in Mach
        BY <3>1
      <4>2. mach'[x] = IF x = m THEN [mach[m] EXCEPT !.ip = TRUE, !.st = "running"] ELSE mach[x]
        BY <3>3, MachType
      <4> QED
        BY <4>1, <4>2 DEF Mach
    <3> QED
      BY <2>2, <3>4, <3>5 DEF Fewer, Live
  <2> QED
    BY <2>1, <2>2 DEF PrepareRun
<1> QED
  BY <1>0, <1>1, <1>2, <1>3 DEF Row, Types, TypeOK

LEMMA PrepareDoneRow ==
  ASSUME Types, NEW j \in Jobs, NEW m \in Machines, PrepareDone(j, m) PROVE Row
<1>0. /\ job[j].kid[m].at # "none" /\ cluster' = cluster /\ faults' = faults
      /\ requests' = requests /\ servers' = servers /\ made' = made
  BY DEF PrepareDone, KidAt
<1>1. job' \in [Jobs -> GoodJob] /\ excused' \in BOOLEAN
  <2>1. \E ok \in BOOLEAN : KidEnds(j, m, ok)
    <3>1. Live(m) \in BOOLEAN
      BY DEF Live
    <3> QED
      BY <3>1 DEF PrepareDone
  <2> QED
    BY <1>0, <2>1, KidEndsGood
<1>2. mach' \in [Machines -> Mach] /\ Fewer
  <2>1. "create_fail" \in MachineStatus /\ "prepare_fail" \in MachineStatus
    BY DEF MachineStatus
  <2>2. \/ mach' = mach \/ mach' = Marked({m}, "create_fail")
        \/ mach' = Marked({m}, "prepare_fail")
    BY DEF PrepareDone
  <2> QED
    BY <1>0, <2>1, <2>2, MarkedStep, SameStep
<1> QED
  BY <1>0, <1>1, <1>2 DEF Row, Types, TypeOK

LEMMA TerminateRow ==
  ASSUME Types, NEW j \in Jobs, NEW m \in Machines, Terminate(j, m) PROVE Row
<1>0. /\ job[j].kid[m].at # "none" /\ cluster' = cluster
      /\ requests' = requests /\ made' = made
  BY DEF Terminate, KidAt
<1>1. job' \in [Jobs -> GoodJob] /\ excused' \in BOOLEAN
  <2>1. \E ok \in BOOLEAN : KidEnds(j, m, ok)
    <3>1. Live(m) \in BOOLEAN
      BY DEF Live
    <3> QED
      BY <3>1 DEF Terminate
  <2> QED
    BY <1>0, <2>1, KidEndsGood
<1>2. mach' \in [Machines -> Mach] /\ Fewer
  <2>1. "terminate_fail" \in MachineStatus
    BY DEF MachineStatus
  <2>2. mach' = mach \/ mach' = Marked({m}, "terminate_fail")
    BY DEF Terminate
  <2> QED
    BY <1>0, <2>1, <2>2, MarkedStep, SameStep
<1>3. servers' \subseteq servers
  BY DEF Terminate
<1>4. faults' \in 0..MaxFaults
  <2>1. Fault \/ UNCHANGED faults
    BY DEF Terminate
  <2> QED
    BY <2>1, FaultBound DEF Types, TypeOK
<1> QED
  BY <1>0, <1>1, <1>2, <1>3, <1>4 DEF Row, Types, TypeOK

(* Requests *)

LEMMA RequestGood ==
  ASSUME Types, NEW new \in GoodJob, NEW cause \in BOOLEAN, Request(new, cause)
  PROVE  /\ job' \in [Jobs -> GoodJob] /\ excused' \in BOOLEAN /\ requests' \in 0..MaxRequests
         /\ servers' = servers /\ made' = made /\ faults' = faults
<1>1. job' \in [Jobs -> GoodJob]
  <2>1. PICK j \in NewJobs : job' = [job EXCEPT ![j] = new]
    BY DEF Request
  <2> QED
    BY <2>1 DEF Types, NewJobs, Free
<1>2. requests' \in 0..MaxRequests
  BY BoundsAssumption DEF Request, Types, TypeOK
<1>3. excused' \in BOOLEAN
  BY Zenon DEF Request
<1> QED
  BY <1>1, <1>2, <1>3 DEF Request

\* A request marks machines or none.
LEMMA RequestRow ==
  ASSUME Types, NEW new \in GoodJob, NEW cause \in BOOLEAN, Request(new, cause),
         cluster' \in ClusterStatus,
         \/ mach' = mach
         \/ \E ms \in SUBSET Machines, st \in MachineStatus : mach' = Marked(ms, st)
  PROVE  Row
<1>1. /\ job' \in [Jobs -> GoodJob] /\ excused' \in BOOLEAN /\ requests' \in 0..MaxRequests
      /\ servers' = servers /\ made' = made /\ faults' = faults
  BY RequestGood
<1>2. mach' \in [Machines -> Mach] /\ Fewer
  BY <1>1, MarkedStep, SameStep
<1> QED
  BY <1>1, <1>2 DEF Row, Types, TypeOK

LEMMA OneStage ==
  ASSUME NEW s \in Stages, NEW a \in Acts, NEW ms \in SUBSET Machines, NEW n \in Nat,
         NEW ctl \in Nat
  PROVE  /\ [NoJob EXCEPT !.stack = <<s>>] \in GoodJob
         /\ [NoJob EXCEPT !.stack = <<s>>, !.on = ms] \in GoodJob
         /\ [NoJob EXCEPT !.stack = <<s>>, !.act = a, !.on = ms] \in GoodJob
         /\ [NoJob EXCEPT !.stack = <<s>>, !.act = a, !.n = n, !.ctl = ctl] \in GoodJob
<1>0. NoJob \in JobT /\ <<s>> \in Seq(Stages) /\ <<s>> # <<>>
  BY NoJobGood DEF GoodJob
<1>1. [NoJob EXCEPT !.stack = <<s>>] \in GoodJob
  BY <1>0 DEF JobT, GoodJob
<1>2. [NoJob EXCEPT !.stack = <<s>>, !.on = ms] \in GoodJob
  BY <1>0 DEF JobT, GoodJob
<1>3. [NoJob EXCEPT !.stack = <<s>>, !.act = a, !.on = ms] \in GoodJob
  BY <1>0 DEF JobT, GoodJob
<1>4. [NoJob EXCEPT !.stack = <<s>>, !.act = a, !.n = n, !.ctl = ctl] \in GoodJob
  BY <1>0 DEF JobT, GoodJob
<1> QED
  BY <1>1, <1>2, <1>3, <1>4

LEMMA AloneGood ==
  ASSUME NEW m \in Machines, NEW kid \in KidT PROVE AloneJob(m, kid) \in GoodJob
<1> DEFINE kk == [NoJob.kid EXCEPT ![m] = kid]
<1>0. NoJob \in JobT /\ <<"Alone">> \in Seq(Stages) /\ <<"Alone">> # <<>>
  BY NoJobGood DEF GoodJob, Stages
<1>1. kk \in [Machines -> KidT]
  BY NoJobGood, JobFields
<1> HIDE DEF kk
<1>2. [NoJob EXCEPT !.stack = <<"Alone">>, !.kid = kk] \in GoodJob
  BY <1>0, <1>1 DEF JobT, GoodJob
<1>3. AloneJob(m, kid) = [NoJob EXCEPT !.stack = <<"Alone">>, !.kid = kk]
  BY <1>0 DEF AloneJob, kk, JobT
<1> QED
  BY <1>2, <1>3

LEMMA RequestsRow == ASSUME Types, Requests PROVE Row
<1>s. /\ {"Add.OnInit", "Deploy.OnInit", "Sync.OnInit", "Delete.OnInit", "Gone.OnInit"} \subseteq Stages
      /\ cluster \in ClusterStatus /\ "deploying" \in ClusterStatus /\ "deleting" \in ClusterStatus
      /\ "none" \in Acts /\ "scale" \in Acts /\ "node" \in Roles /\ Running \in SUBSET Machines
      /\ {} \in SUBSET Machines /\ 0 \in Nat /\ TRUE \in BOOLEAN /\ FALSE \in BOOLEAN
      /\ {"deleting", "gone", "creating", "prepare", "terminating"} \subseteq MachineStatus
  BY DEF Stages, ClusterStages, Types, TypeOK, ClusterStatus, Acts, Roles, Running, Rows,
         MachineStatus
<1>1. ASSUME NEW n \in 1..Cardinality(Machines), NEW role \in Roles, AddMachines(n, role) PROVE Row
  <2> DEFINE c == IF role = "controlplane" THEN n ELSE 0
             x == [NoJob EXCEPT !.stack = <<"Add.OnInit">>, !.act = "scale", !.n = n, !.ctl = c]
  <2>1. n \in Nat /\ c \in Nat
    OBVIOUS
  <2>2. Request(x, FALSE) /\ UNCHANGED <<cluster, mach>>
    BY <1>1 DEF AddMachines
  <2> HIDE DEF c
  <2>3. x \in GoodJob
    BY <1>s, <2>1, OneStage
  <2> HIDE DEF x
  <2> QED
    BY <1>s, <2>2, <2>3, RequestRow
<1>2. ASSUME NEW act \in {"run", "upgrade"}, NEW force \in BOOLEAN, Deploy(act, force) PROVE Row
  <2>1. act \in Acts
    BY DEF Acts
  <2>2. [NoJob EXCEPT !.stack = <<"Deploy.OnInit">>, !.act = act, !.on = Running] \in GoodJob
    BY <1>s, <2>1, OneStage
  <2> QED
    BY <1>s, <1>2, <2>2, RequestRow DEF Deploy
<1>3. ASSUME Syncstatus PROVE Row
  <2>1. [NoJob EXCEPT !.stack = <<"Sync.OnInit">>] \in GoodJob
    BY <1>s, OneStage
  <2> QED
    BY <1>s, <1>3, <2>1, RequestRow DEF Syncstatus
<1>4. ASSUME NEW ms \in SUBSET Machines, DeleteMachines(ms) PROVE Row
  <2>1. [NoJob EXCEPT !.stack = <<"Delete.OnInit">>, !.on = ms] \in GoodJob
    BY <1>s, OneStage
  <2> QED
    BY <1>s, <1>4, <2>1, RequestRow DEF DeleteMachines
<1>5. ASSUME DeleteCluster PROVE Row
  <2>1. [NoJob EXCEPT !.stack = <<"Gone.OnInit">>] \in GoodJob
    BY <1>s, OneStage
  <2> QED
    BY <1>s, <1>5, <2>1, RequestRow DEF DeleteCluster
<1>6. ASSUME NEW m \in Machines, DeleteMachine(m) PROVE Row
  <2>1. {m} \in SUBSET Machines /\ (mach[m].vm # 0) \in BOOLEAN
    OBVIOUS
  <2> QED
    BY <1>s, <1>6, <2>1, NoJobGood, RequestRow DEF DeleteMachine
<1>7. ASSUME NEW m \in Machines, RetryMachine(m) PROVE Row
  <2>1. {m} \in SUBSET Machines /\ (mach[m].vm # 0) \in BOOLEAN
    OBVIOUS
  <2>2. /\ Starts("Create", "Create.OnInit") \in KidT /\ Starts("Prepare", "Prepare.OnInit") \in KidT
        /\ Starts("Terminate", "Terminate.OnInit") \in KidT
    BY DEF Starts, KidT, Points
  <2>3. PICK kid \in KidT, cause \in BOOLEAN, st \in MachineStatus :
          mach' = Marked({m}, st) /\ Request(AloneJob(m, kid), cause) /\ UNCHANGED cluster
    BY <1>s, <1>7, <2>1, <2>2 DEF RetryMachine
  <2> QED
    BY <1>s, <2>1, <2>3, AloneGood, RequestRow
<1> QED
  BY <1>1, <1>2, <1>3, <1>4, <1>5, <1>6, <1>7 DEF Requests

------------------------------------------------------------------------------
(* Theorems *)

LEMMA InitIInv == Init => IInv
<1> SUFFICES ASSUME Init PROVE IInv
  OBVIOUS
<1>1. job \in [Jobs -> GoodJob]
  <2>1. PICK n \in 1..Cardinality(Machines), ctl \in Counts :
          job = [j \in Jobs |->
                  IF j = CHOOSE i \in Jobs : \A k \in Jobs : i <= k
                  THEN [NoJob EXCEPT !.stack = <<"New.OnInit">>, !.act = "create", !.n = n,
                                     !.ctl = ctl]
                  ELSE NoJob]
    BY DEF Init
  <2>2. n \in Nat /\ "New.OnInit" \in Stages /\ "create" \in Acts /\ ctl \in Nat
        /\ {} \in SUBSET Machines
    BY NamesAssumption DEF Stages, ClusterStages, Acts
  <2>3. [NoJob EXCEPT !.stack = <<"New.OnInit">>, !.act = "create", !.n = n,
                      !.ctl = ctl] \in GoodJob
    BY <2>2, OneStage
  <2> QED
    BY <2>1, <2>3, NoJobGood
<1>2. \A j \in Jobs : job[j].on \subseteq Machines /\ (job[j].stack = <<>> => job[j] = NoJob)
  BY <1>1, JobFields
<1>3. NoMachine \in Mach /\ made = 0
  BY DEF NoMachine, Mach, MachineStatus, Roles, Init
<1>4. mach \in [Machines -> Mach]
  BY <1>3 DEF Init
<1>5. Types
  <2>1. /\ cluster = "creating" /\ servers = {} /\ made = 0 /\ excused = FALSE
        /\ faults = 0
    BY DEF Init
  <2>2. TypeOK
    <3>1. requests \in 0..MaxRequests /\ 0 \in 0..MaxFaults
      <4>1. PICK n \in 1..Cardinality(Machines) : requests = n - 1 /\ n - 1 <= MaxRequests
        BY DEF Init
      <4> QED
        BY <4>1, BoundsAssumption
    <3>2. cluster \in ClusterStatus /\ servers \subseteq 1..made /\ excused \in BOOLEAN
      BY <2>1 DEF ClusterStatus
    <3> QED
      BY <1>2, <1>4, <2>1, <3>1, <3>2 DEF TypeOK, Mach
  <2> QED
    BY <1>1, <2>1, <2>2 DEF Types
<1>6. OneFirstNode
  BY DEF OneFirstNode, Rows, Live, NoMachine, Init
<1> QED
  BY <1>5, <1>6 DEF IInv

LEMMA JobStepKeeps == ASSUME IInv, NEW j \in Jobs, JobStep(j) PROVE IInv'
<1>0. Types
  BY DEF IInv
<1>1. CASE \/ Orphan(j) \/ NewInit(j) \/ NewStep(j) \/ AddStep(j)
           \/ DeployInit(j) \/ DeployRun(j) \/ DeployStep(j) \/ SyncTask(j) \/ SyncInit(j)
           \/ SyncRun(j) \/ SyncDone(j) \/ DeleteInit(j) \/ DeleteStep(j) \/ GoneDone(j) \/ Alone(j)
  <2>1. Small
    BY <1>0, <1>1, OrphanSmall, NewInitSmall, NewStepSmall, AddStepSmall, DeployInitSmall,
       DeployRunSmall, DeployStepSmall, SyncTaskSmall, SyncInitSmall, SyncRunSmall, SyncDoneSmall,
       DeleteInitSmall, DeleteStepSmall, GoneDoneSmall, AloneSmall
  <2> QED
    BY <2>1, SmallKeeps
<1>2. CASE AddInit(j)
  BY <1>2, AddInitKeeps
<1>3. CASE GoneInit(j) \/ BatchDone(j)
  BY <1>0, <1>3, GoneInitRow, BatchDoneRow, RowKeeps
<1>4. CASE \/ BatchInit(j, "BatchCreate.OnInit", "BatchCreate.OnMachinesCreated", "creating",
                        Starts("Create", "Create.OnInit"))
           \/ BatchInit(j, "BatchDelete.OnInit", "BatchDelete.OnDeleteMachines", "terminating",
                        Starts("Terminate", "Terminate.OnInit"))
  <2>1. <<"BatchCreate.OnMachinesCreated">> \in Pairs /\ <<"BatchDelete.OnDeleteMachines">> \in Pairs
    BY DEF Pairs
  <2>2. "creating" \in MachineStatus /\ "terminating" \in MachineStatus
    BY DEF MachineStatus
  <2>3. /\ Starts("Create", "Create.OnInit") \in KidT
        /\ Starts("Terminate", "Terminate.OnInit") \in KidT
    BY DEF Starts, KidT, Points
  <2>4. Row
    BY <1>0, <1>4, <2>1, <2>2, <2>3, BatchInitRow
  <2> QED
    BY <2>4, RowKeeps
<1>5. ASSUME NEW m \in Machines, KidStep(j, m) PROVE IInv'
  <2>1. Row
    BY <1>0, <1>5, CreateInitRow, PrepareServerRow, PrepareRecordRow, PrepareRunRow,
       PrepareDoneRow, TerminateRow DEF KidStep
  <2> QED
    BY <2>1, RowKeeps
<1>6. Kids(j) \subseteq Machines
  BY DEF Kids
<1> QED
  BY <1>1, <1>2, <1>3, <1>4, <1>5, <1>6 DEF JobStep

LEMMA StepIInv == ASSUME IInv, [Next]_vars PROVE IInv'
<1>1. CASE \E j \in Jobs : JobStep(j)
  BY <1>1, JobStepKeeps
<1>2. CASE Requests
  BY <1>2, RequestsRow, RowKeeps DEF IInv
<1>3. CASE UNCHANGED vars
  <2>1. Small
    BY <1>3 DEF vars, Small, IInv, Types, TypeOK
  <2> QED
    BY <2>1, SmallKeeps
<1> QED
  BY <1>1, <1>2, <1>3 DEF Next

LEMMA Inductive == Spec => []IInv
<1>1. IInv /\ [Next]_vars => IInv'
  BY StepIInv
<1> QED
  BY InitIInv, <1>1, PTL DEF Spec

\* The rows of machines, the servers, the jobs and the bounds keep their
\* types: a job has a stage left as long as it is not over, whatever stages
\* and machines fail (SetStageComplete, SetStageFailed, IsCurrentStageComplete).
THEOREM TypeCorrect == Spec => []TypeOK
<1>1. IInv => TypeOK
  BY DEF IInv, Types
<1> QED
  BY Inductive, <1>1, PTL

\* Whatever requests, tasks and failures overlap, a cluster has at most one
\* first node and it is a controlplane (ValidateCreateData of a machine,
\* createMachineRecords), for any number of machines and jobs.
THEOREM FirstNodeUnique == Spec => []OneFirstNode
<1>1. IInv => OneFirstNode
  BY DEF IInv
<1> QED
  BY Inductive, <1>1, PTL

------------------------------------------------------------------------------
(* Servers *)

\* The stages that wait for a task they started.
WaitStages ==
  {"New.OnMachinesCreated", "New.OnApplyAddonsComplete", "Add.OnMachinesCreated",
   "Add.OnMachinesDeployed", "Deploy.OnDeployMachines", "Deploy.OnSyncStatusComplete",
   "Deploy.OnSyncComplete", "Sync.OnSyncStatus", "Delete.OnClusterNodeRemoved",
   "Delete.OnDeleteMachines", "Delete.OnSyncStatus", "Gone.OnMachinesDeleted"}
GoneStages   == {"Gone.OnInit", "Gone.OnMachinesDeleted"}
ParentStages == {"BatchCreate.OnMachinesCreated", "BatchDelete.OnDeleteMachines", "Alone"}

\* Without an excuse there is one job at a time, every server is in a row or
\* about to be, and a deleted cluster has no row.
OneJob == \A i, j \in Jobs : job[i] # NoJob /\ job[j] # NoJob => i = j
Kept   == \A s \in servers : Recording(s) \/ \E m \in Rows : mach[m].vm = s
Empty  == cluster = "gone" => Rows = {}

\* A machine that is about to get a server has none, and the row that a
\* server is about to be recorded in is there.
Awaits == {"Create.OnInit", "Prepare.OnInit", "Prepare.Record"}
Fresh(j) == \A m \in Machines :
  /\ job[j].kid[m].at \in Awaits => mach[m].vm = 0
  /\ job[j].kid[m].at = "Prepare.Record" => m \in Rows
Making(j) == Head(job[j].stack) = "BatchCreate.OnInit" => \A m \in job[j].on : mach[m].vm = 0

\* Tasks of machines run while their batch waits, and stages below the first
\* one wait too.
Parent(j) == Kids(j) # {} => Head(job[j].stack) \in ParentStages
Waits(j)  == \A i \in 2..Len(job[j].stack) : job[j].stack[i] \in WaitStages

\* A batch that deletes has terminated the servers of the machines whose
\* tasks ended, unless one of these failed; then the batch fails.
Ending(j) ==
  Head(job[j].stack) = "BatchDelete.OnDeleteMachines" =>
    /\ \A m \in Machines : job[j].kid[m] \in {Idle, Starts("Terminate", "Terminate.OnInit")}
    /\ \A m \in job[j].on : job[j].kid[m] = Idle => mach[m].vm \notin servers \/ job[j].bad
    /\ Kids(j) = {} /\ job[j].ret => ~job[j].bad

\* The job that deletes the cluster: all rows are its machines, and when a
\* stage of it succeeds there is no row left.
Outside(j) == \A i \in 1..Len(job[j].stack) : job[j].stack[i] \notin GoneStages
Going(j) ==
  LET s == job[j].stack IN
  \/ Outside(j)
  \/ s = <<"Gone.OnInit">> /\ Deleting
  \/ /\ s \in {<<"Delete.OnInit", "Gone.OnMachinesDeleted">>,
               <<"BatchDelete.OnInit", "Delete.OnDeleteMachines", "Gone.OnMachinesDeleted">>,
               <<"BatchDelete.OnDeleteMachines", "Delete.OnDeleteMachines", "Gone.OnMachinesDeleted">>}
     /\ Deleting /\ Rows \subseteq job[j].on
  \/ /\ s = <<"Delete.OnDeleteMachines", "Gone.OnMachinesDeleted">>
     /\ job[j].ret => Rows = {} /\ Deleting
  \/ /\ s = <<"Gone.OnMachinesDeleted">>
     /\ job[j].ret => Rows = {}

JobOK(j) == job[j] # NoJob =>
  Fresh(j) /\ Making(j) /\ Parent(j) /\ Waits(j) /\ Ending(j) /\ Going(j)

Calm == OneJob /\ Kept /\ Empty /\ \A j \in Jobs : JobOK(j)
NInv == ~excused => Calm

------------------------------------------------------------------------------
(* Stacks of jobs without an excuse *)

LEMMA Top ==
  ASSUME Types, NEW j \in Jobs, job[j] # NoJob
  PROVE  LET s == job[j].stack IN
         /\ s \in Seq(Stages) /\ Len(s) \in Nat /\ Len(s) >= 1
         /\ Head(s) = s[1]
         /\ Tail(s) \in Seq(Stages) /\ Len(Tail(s)) = Len(s) - 1
         /\ \A i \in 1..(Len(s) - 1) : Tail(s)[i] = s[i + 1]
<1>1. job[j].stack \in Seq(Stages) /\ job[j].stack # <<>>
  BY JobFields DEF Types
<1> QED
  BY <1>1, HeadTailProperties, EmptySeq

LEMMA AtFacts ==
  ASSUME NEW j \in Jobs, NEW stage, At(j, stage)
  PROVE  /\ job[j] # NoJob /\ Kids(j) = {} /\ Head(job[j].stack) = stage
         /\ \A m \in Machines : job[j].kid[m] = Idle
  BY DEF At, Kids

\* The stages of the job that deletes the cluster.
GoneHeads == {"Gone.OnInit", "Delete.OnInit", "BatchDelete.OnInit", "BatchDelete.OnDeleteMachines",
              "Delete.OnDeleteMachines", "Gone.OnMachinesDeleted"}

LEMMA HeadOutside ==
  ASSUME Types, NEW j \in Jobs, job[j] # NoJob, Going(j), Head(job[j].stack) \notin GoneHeads
  PROVE  Outside(j)
  BY DEF Going, GoneHeads

\* The stack of a stage that a job is at, when the job deletes the cluster.
LEMMA GoneCases ==
  ASSUME Types, NEW j \in Jobs, job[j] # NoJob, Going(j), ~Outside(j)
  PROVE  LET s == job[j].stack  h == Head(s) IN
         /\ h = "Gone.OnInit" => s = <<"Gone.OnInit">> /\ Deleting
         /\ h = "Delete.OnInit" =>
              s = <<"Delete.OnInit", "Gone.OnMachinesDeleted">> /\ Deleting /\ Rows \subseteq job[j].on
         /\ h = "BatchDelete.OnInit" =>
              /\ s = <<"BatchDelete.OnInit", "Delete.OnDeleteMachines", "Gone.OnMachinesDeleted">>
              /\ Deleting /\ Rows \subseteq job[j].on
         /\ h = "BatchDelete.OnDeleteMachines" =>
              /\ s = <<"BatchDelete.OnDeleteMachines", "Delete.OnDeleteMachines", "Gone.OnMachinesDeleted">>
              /\ Deleting /\ Rows \subseteq job[j].on
         /\ h = "Delete.OnDeleteMachines" =>
              /\ s = <<"Delete.OnDeleteMachines", "Gone.OnMachinesDeleted">>
              /\ job[j].ret => Rows = {} /\ Deleting
         /\ h = "Gone.OnMachinesDeleted" =>
              s = <<"Gone.OnMachinesDeleted">> /\ (job[j].ret => Rows = {})
  BY DEF Going

LEMMA GoneNotOutside ==
  ASSUME Types, NEW j \in Jobs, job[j] # NoJob, Head(job[j].stack) \in GoneStages
  PROVE  ~Outside(j)
<1>1. 1 \in 1..Len(job[j].stack) /\ job[j].stack[1] \in GoneStages
  BY Top
<1> QED
  BY <1>1 DEF Outside

\* A job whose stage ends, in full.
LEMMA EndsFields ==
  ASSUME Types, NEW j \in Jobs, job[j] # NoJob, NEW ok \in BOOLEAN, job'[j] = Ends(j, ok),
         job'[j] # NoJob
  PROVE  /\ Len(job[j].stack) >= 2
         /\ job'[j].stack = Tail(job[j].stack) /\ job'[j].ret = ok
         /\ job'[j].kid = job[j].kid /\ job'[j].on = job[j].on
<1>1. job[j] \in JobT
  BY JobFields DEF Types
<1>0. Len(job[j].stack) # 1
  BY DEF Ends
<1>2. job'[j] = [job[j] EXCEPT !.stack = Tail(@), !.ret = ok, !.copy = "none", !.bad = FALSE]
  BY <1>0 DEF Ends
<1>t. Len(job[j].stack) \in Nat /\ Len(job[j].stack) >= 1
  BY Top
<1>3. Len(job[j].stack) >= 2
  <2> DEFINE n == Len(job[j].stack)
  <2>1. n \in Nat /\ n >= 1 /\ n # 1
    BY <1>0, <1>t
  <2> HIDE DEF n
  <2>2. n >= 2
    BY <2>1
  <2> QED
    BY <2>2 DEF n
<1> HIDE DEF Types
<1> QED
  BY <1>1, <1>2, <1>3 DEF JobT

LEMMA Tails ==
  /\ \A a, b \in Stages : Tail(<<a, b>>) = <<b>>
  /\ \A a, b, c \in Stages : Tail(<<a, b, c>>) = <<b, c>>
  /\ \A a, b, c \in Stages : <<a, b>> \o <<c>> = <<a, b, c>>
  /\ \A a, b, c \in Stages : <<a>> \o <<b, c>> = <<a, b, c>>
  /\ \A a, b \in Stages : <<a, b>> \o <<>> = <<a, b>>
<1>1. \A a, b \in Stages : Tail(<<a, b>>) = <<b>>
  OBVIOUS
<1>2. \A a, b, c \in Stages : Tail(<<a, b, c>>) = <<b, c>>
  OBVIOUS
<1>3. ASSUME NEW a \in Stages, NEW b \in Stages, NEW c \in Stages
      PROVE  <<a, b>> \o <<c>> = <<a, b, c>> /\ <<a>> \o <<b, c>> = <<a, b, c>>
  <2>1. /\ <<a, b>> \in Seq(Stages) /\ Len(<<a, b>>) = 2 /\ <<a, b>>[1] = a /\ <<a, b>>[2] = b
        /\ <<b, c>> \in Seq(Stages) /\ Len(<<b, c>>) = 2 /\ <<b, c>>[1] = b /\ <<b, c>>[2] = c
        /\ <<a>> \in Seq(Stages) /\ Len(<<a>>) = 1 /\ <<a>>[1] = a
        /\ <<c>> \in Seq(Stages) /\ Len(<<c>>) = 1 /\ <<c>>[1] = c
        /\ <<a, b, c>> \in Seq(Stages) /\ Len(<<a, b, c>>) = 3
        /\ <<a, b, c>>[1] = a /\ <<a, b, c>>[2] = b /\ <<a, b, c>>[3] = c
    OBVIOUS
  <2> DEFINE ab == <<a, b>>  bc == <<b, c>>  aa == <<a>>  cc == <<c>>  abc == <<a, b, c>>
  <2> SUFFICES ab \o cc = abc /\ aa \o bc = abc
    OBVIOUS
  <2>2. /\ ab \in Seq(Stages) /\ Len(ab) = 2 /\ ab[1] = a /\ ab[2] = b
        /\ bc \in Seq(Stages) /\ Len(bc) = 2 /\ bc[1] = b /\ bc[2] = c
        /\ aa \in Seq(Stages) /\ Len(aa) = 1 /\ aa[1] = a
        /\ cc \in Seq(Stages) /\ Len(cc) = 1 /\ cc[1] = c
        /\ abc \in Seq(Stages) /\ Len(abc) = 3 /\ abc[1] = a /\ abc[2] = b /\ abc[3] = c
    BY <2>1
  <2> HIDE DEF ab, bc, aa, cc, abc
  <2>3. /\ ab \o cc \in Seq(Stages) /\ Len(ab \o cc) = 3
        /\ \A i \in 1..3 : (ab \o cc)[i] = IF i <= 2 THEN ab[i] ELSE cc[i - 2]
    <3>1. /\ ab \o cc \in Seq(Stages) /\ Len(ab \o cc) = Len(ab) + Len(cc)
          /\ \A i \in 1..Len(ab) + Len(cc) :
               (ab \o cc)[i] = IF i <= Len(ab) THEN ab[i] ELSE cc[i - Len(ab)]
      BY <2>2, ConcatProperties
    <3>2. Len(ab) = 2 /\ Len(cc) = 1 /\ 2 + 1 = 3
      BY <2>2
    <3> QED
      BY <3>1, <3>2
  <2>4. /\ aa \o bc \in Seq(Stages) /\ Len(aa \o bc) = 3
        /\ \A i \in 1..3 : (aa \o bc)[i] = IF i <= 1 THEN aa[i] ELSE bc[i - 1]
    <3>1. /\ aa \o bc \in Seq(Stages) /\ Len(aa \o bc) = Len(aa) + Len(bc)
          /\ \A i \in 1..Len(aa) + Len(bc) :
               (aa \o bc)[i] = IF i <= Len(aa) THEN aa[i] ELSE bc[i - Len(aa)]
      BY <2>2, ConcatProperties
    <3>2. Len(aa) = 1 /\ Len(bc) = 2 /\ 1 + 2 = 3
      BY <2>2
    <3> QED
      BY <3>1, <3>2
  <2>5. \A i \in 1..3 : (ab \o cc)[i] = abc[i] /\ (aa \o bc)[i] = abc[i]
    BY <2>2, <2>3, <2>4
  <2> QED
    BY <2>2, <2>3, <2>4, <2>5, SeqEqual
<1>5. \A a, b \in Stages : <<a, b>> \o <<>> = <<a, b>>
  OBVIOUS
<1> QED
  BY <1>1, <1>2, <1>3, <1>5

LEMMA EndsOK ==
  ASSUME Types, Types', NEW j \in Jobs, job[j] # NoJob, Kids(j) = {}, JobOK(j), NEW ok \in BOOLEAN,
         job'[j] = Ends(j, ok), Outside(j) \/ ~ok \/ (Rows' = {} /\ Deleting')
  PROVE  JobOK(j)'
<1> DEFINE s == job[j].stack
           t == job'[j].stack
<1>1. SUFFICES ASSUME job'[j] # NoJob
               PROVE  (Fresh(j) /\ Making(j) /\ Parent(j) /\ Waits(j) /\ Ending(j) /\ Going(j))'
  BY DEF JobOK
<1>2. /\ Len(s) >= 2 /\ t = Tail(s) /\ job'[j].ret = ok
      /\ job'[j].kid = job[j].kid /\ job'[j].on = job[j].on
  BY <1>1, EndsFields
<1>3. /\ s \in Seq(Stages) /\ Len(s) \in Nat /\ t \in Seq(Stages) /\ Len(t) = Len(s) - 1
      /\ \A i \in 1..(Len(s) - 1) : t[i] = s[i + 1]
  BY <1>2, Top
<1>4. Waits(j) /\ Going(j)
  BY DEF JobOK
<1>5. \A i \in 1..Len(t) : t[i] \in WaitStages
  <2>1. SUFFICES ASSUME NEW i \in 1..Len(t) PROVE t[i] \in WaitStages
    OBVIOUS
  <2>2. i + 1 \in 2..Len(s) /\ t[i] = s[i + 1]
    BY <1>3
  <2> QED
    BY <2>2, <1>4 DEF Waits
<1>6. t # <<>> /\ Head(t) = t[1] /\ Head(t) \in WaitStages
  <2>1. Len(t) >= 1
    BY <1>2, <1>3
  <2>2. t # <<>>
    BY <2>1, EmptySeq
  <2>3. Head(t) = t[1]
    BY <1>3, <2>2, HeadTailProperties
  <2>4. 1 \in 1..Len(t)
    BY <1>3, <2>1
  <2> QED
    BY <2>2, <2>3, <2>4, <1>5
<1>7. \A m \in Machines : job'[j].kid[m] = Idle
  BY <1>2 DEF Kids
<1> HIDE DEF s, t
<1>8. Fresh(j)'
  BY <1>7 DEF Fresh, Idle, Awaits
<1>9. Making(j)' /\ Ending(j)'
  BY <1>6 DEF Making, Ending, WaitStages, t
<1>10. Parent(j)' /\ Waits(j)'
  <2>1. Kids(j)' = {}
    BY <1>7 DEF Kids
  <2>2. \A i \in 2..Len(t) : i \in 1..Len(t)
    BY <1>3
  <2> QED
    BY <2>1, <2>2, <1>5 DEF Parent, Waits, t
<1>11. Going(j)'
  <2>1. CASE Outside(j)
    <3>1. ASSUME NEW i \in 1..Len(t) PROVE t[i] \notin GoneStages
      <4>1. i + 1 \in 1..Len(s) /\ t[i] = s[i + 1]
        BY <1>3
      <4> QED
        BY <4>1, <2>1 DEF Outside, s
    <3> QED
      BY <3>1 DEF Going, Outside, t
  <2>2. CASE ~Outside(j)
    <3>1. s \in {<<"Delete.OnInit", "Gone.OnMachinesDeleted">>,
                 <<"BatchDelete.OnInit", "Delete.OnDeleteMachines", "Gone.OnMachinesDeleted">>,
                 <<"BatchDelete.OnDeleteMachines", "Delete.OnDeleteMachines", "Gone.OnMachinesDeleted">>,
                 <<"Delete.OnDeleteMachines", "Gone.OnMachinesDeleted">>}
      <4>1. Len(<<"Gone.OnInit">>) = 1 /\ Len(<<"Gone.OnMachinesDeleted">>) = 1
        OBVIOUS
      <4>2. s # <<"Gone.OnInit">> /\ s # <<"Gone.OnMachinesDeleted">>
        BY <1>2, <4>1
      <4> QED
        BY <1>4, <2>2, <4>2 DEF Going, s
    <3>2. \/ t = <<"Gone.OnMachinesDeleted">>
          \/ t = <<"Delete.OnDeleteMachines", "Gone.OnMachinesDeleted">>
      <4>1. {"Delete.OnInit", "BatchDelete.OnInit", "BatchDelete.OnDeleteMachines",
             "Delete.OnDeleteMachines", "Gone.OnMachinesDeleted"} \subseteq Stages
        BY DEF Stages, ClusterStages, BatchStages
      <4>2. /\ Tail(<<"Delete.OnInit", "Gone.OnMachinesDeleted">>) = <<"Gone.OnMachinesDeleted">>
            /\ Tail(<<"Delete.OnDeleteMachines", "Gone.OnMachinesDeleted">>)
                 = <<"Gone.OnMachinesDeleted">>
            /\ Tail(<<"BatchDelete.OnInit", "Delete.OnDeleteMachines", "Gone.OnMachinesDeleted">>)
                 = <<"Delete.OnDeleteMachines", "Gone.OnMachinesDeleted">>
            /\ Tail(<<"BatchDelete.OnDeleteMachines", "Delete.OnDeleteMachines", "Gone.OnMachinesDeleted">>)
                 = <<"Delete.OnDeleteMachines", "Gone.OnMachinesDeleted">>
        BY <4>1, Tails
      <4> QED
        BY <3>1, <1>2, <4>2
    <3>3. job'[j].ret => Rows' = {} /\ Deleting'
      BY <1>2, <2>2
    <3> QED
      BY <3>2, <3>3 DEF Going, t
  <2> QED
    BY <2>1, <2>2
<1> QED
  BY <1>8, <1>9, <1>10, <1>11

\* A job that is not deleting the cluster goes on to two stages.
LEMMA GoesOK ==
  ASSUME Types, Types', NEW j \in Jobs, job[j] # NoJob, Kids(j) = {}, JobOK(j), Outside(j),
         NEW a \in Stages \ (GoneStages \cup {"BatchDelete.OnDeleteMachines"}),
         NEW b \in WaitStages \ GoneStages,
         job'[j].stack = <<a, b>> \o Tail(job[j].stack), job'[j].kid = job[j].kid,
         a = "BatchCreate.OnInit" => \A m \in job'[j].on : mach'[m].vm = 0
  PROVE  JobOK(j)'
<1> DEFINE s == job[j].stack
           t == job'[j].stack
<1>1. /\ s \in Seq(Stages) /\ Len(s) \in Nat /\ Len(s) >= 1
      /\ Tail(s) \in Seq(Stages) /\ Len(Tail(s)) = Len(s) - 1
      /\ \A i \in 1..(Len(s) - 1) : Tail(s)[i] = s[i + 1]
  BY Top
<1>2. /\ <<a, b>> \in Seq(Stages) /\ Len(<<a, b>>) = 2 /\ <<a, b>>[1] = a /\ <<a, b>>[2] = b
  BY DEF WaitStages, Stages, ClusterStages
<1>3. /\ Len(t) = Len(s) + 1 /\ t[1] = a /\ t[2] = b /\ t # <<>> /\ t \in Seq(Stages)
      /\ \A i \in 3..Len(t) : t[i] = s[i - 1]
  <2>1. /\ t \in Seq(Stages) /\ Len(t) = 2 + Len(Tail(s))
        /\ \A i \in 1..Len(t) : t[i] = IF i <= 2 THEN <<a, b>>[i] ELSE Tail(s)[i - 2]
    BY <1>1, <1>2, ConcatProperties
  <2>2. Len(t) = Len(s) + 1 /\ t[1] = a /\ t[2] = b
    BY <1>1, <1>2, <2>1
  <2>3. ASSUME NEW i \in 3..Len(t) PROVE t[i] = s[i - 1]
    <3>1. t[i] = Tail(s)[i - 2]
      BY <1>1, <2>1
    <3>2. i - 2 \in 1..(Len(s) - 1) /\ (i - 2) + 1 = i - 1
      BY <1>1, <2>2
    <3> QED
      BY <1>1, <3>1, <3>2
  <2> QED
    BY <1>1, <2>1, <2>2, <2>3, EmptySeq
<1>4. Head(t) = a
  BY <1>3, HeadTailProperties
<1>5. \A m \in Machines : job'[j].kid[m] = Idle
  BY DEF Kids
<1>w. Waits(j)
  BY DEF JobOK
<1> HIDE DEF s, t
<1>6. Fresh(j)'
  BY <1>5 DEF Fresh, Idle, Awaits
<1>7. Making(j)' /\ Ending(j)'
  BY <1>4 DEF Making, Ending, t
<1>8. Parent(j)'
  BY <1>5 DEF Parent, Kids
<1>9. Waits(j)'
  <2>1. ASSUME NEW i \in 2..Len(t) PROVE t[i] \in WaitStages
    <3>1. CASE i = 2
      BY <3>1, <1>3
    <3>2. CASE i # 2
      <4>1. i \in 3..Len(t) /\ i - 1 \in 2..Len(s)
        BY <3>2, <1>1, <1>3
      <4> QED
        BY <4>1, <1>3, <1>w DEF Waits, s
    <3> QED
      BY <3>1, <3>2
  <2> QED
    BY <2>1 DEF Waits, t
<1>10. Outside(j)'
  <2>1. ASSUME NEW i \in 1..Len(t) PROVE t[i] \notin GoneStages
    <3>1. CASE i = 1 \/ i = 2
      BY <3>1, <1>3
    <3>2. CASE i # 1 /\ i # 2
      <4>1. i \in 3..Len(t) /\ i - 1 \in 1..Len(s)
        BY <3>2, <1>1, <1>3
      <4> QED
        BY <4>1, <1>3 DEF Outside, s
    <3> QED
      BY <3>1, <3>2
  <2> QED
    BY <2>1 DEF Outside, t
<1> QED
  BY <1>6, <1>7, <1>8, <1>9, <1>10 DEF JobOK, Going

\* A job that is not deleting the cluster goes on to one stage of its sync task.
LEMMA RunOK ==
  ASSUME Types, Types', NEW j \in Jobs, job[j] # NoJob, Kids(j) = {}, JobOK(j), Outside(j),
         NEW a \in {"SyncTask.Run", "SyncTask.Hung"},
         job'[j].stack = <<a>> \o Tail(job[j].stack), job'[j].kid = job[j].kid
  PROVE  JobOK(j)'
<1> DEFINE s == job[j].stack
           t == job'[j].stack
<1>1. /\ s \in Seq(Stages) /\ Len(s) \in Nat /\ Len(s) >= 1
      /\ Tail(s) \in Seq(Stages) /\ Len(Tail(s)) = Len(s) - 1
      /\ \A i \in 1..(Len(s) - 1) : Tail(s)[i] = s[i + 1]
  BY Top
<1>2. <<a>> \in Seq(Stages) /\ Len(<<a>>) = 1 /\ <<a>>[1] = a
  BY DEF Stages, ClusterStages
<1>3. /\ Len(t) = Len(s) /\ t[1] = a /\ t # <<>> /\ t \in Seq(Stages)
      /\ \A i \in 2..Len(t) : t[i] = s[i]
  <2>1. /\ t \in Seq(Stages) /\ Len(t) = 1 + Len(Tail(s))
        /\ \A i \in 1..Len(t) : t[i] = IF i <= 1 THEN <<a>>[i] ELSE Tail(s)[i - 1]
    BY <1>1, <1>2, ConcatProperties
  <2>2. Len(t) = Len(s) /\ t[1] = a
    BY <1>1, <1>2, <2>1
  <2>3. ASSUME NEW i \in 2..Len(t) PROVE t[i] = s[i]
    <3>1. t[i] = Tail(s)[i - 1]
      BY <1>1, <2>1
    <3>2. i - 1 \in 1..(Len(s) - 1) /\ (i - 1) + 1 = i
      BY <1>1, <2>2
    <3> QED
      BY <1>1, <3>1, <3>2
  <2> QED
    BY <1>1, <2>1, <2>2, <2>3, EmptySeq
<1>4. Head(t) = a
  BY <1>3, HeadTailProperties
<1>5. \A m \in Machines : job'[j].kid[m] = Idle
  BY DEF Kids
<1>w. Waits(j)
  BY DEF JobOK
<1> HIDE DEF s, t
<1>6. Fresh(j)'
  BY <1>5 DEF Fresh, Idle, Awaits
<1>7. Making(j)' /\ Ending(j)'
  BY <1>4 DEF Making, Ending, t
<1>8. Parent(j)'
  BY <1>5 DEF Parent, Kids
<1>9. Waits(j)'
  BY <1>3, <1>w DEF Waits, s, t
<1>10. Outside(j)'
  <2>1. ASSUME NEW i \in 1..Len(t) PROVE t[i] \notin GoneStages
    <3>1. CASE i = 1
      BY <3>1, <1>3 DEF GoneStages
    <3>2. CASE i # 1
      <4>1. i \in 2..Len(t) /\ i \in 1..Len(s)
        BY <3>2, <1>1, <1>3
      <4> QED
        BY <4>1, <1>3 DEF Outside, s
    <3> QED
      BY <3>1, <3>2
  <2> QED
    BY <2>1 DEF Outside, t
<1> QED
  BY <1>6, <1>7, <1>8, <1>9, <1>10 DEF JobOK, Going

\* The stacks of the job that deletes the cluster.
LEMMA GoneTails ==
  /\ Tail(<<"Gone.OnInit">>) = <<>>
  /\ <<"Delete.OnInit", "Gone.OnMachinesDeleted">> \o <<>>
       = <<"Delete.OnInit", "Gone.OnMachinesDeleted">>
  /\ <<"BatchDelete.OnInit", "Delete.OnDeleteMachines">>
       \o Tail(<<"Delete.OnInit", "Gone.OnMachinesDeleted">>)
       = <<"BatchDelete.OnInit", "Delete.OnDeleteMachines", "Gone.OnMachinesDeleted">>
  /\ <<"BatchDelete.OnDeleteMachines">>
       \o Tail(<<"BatchDelete.OnInit", "Delete.OnDeleteMachines", "Gone.OnMachinesDeleted">>)
       = <<"BatchDelete.OnDeleteMachines", "Delete.OnDeleteMachines", "Gone.OnMachinesDeleted">>
<1>1. {"Delete.OnInit", "BatchDelete.OnInit", "BatchDelete.OnDeleteMachines",
       "Delete.OnDeleteMachines", "Gone.OnMachinesDeleted"} \subseteq Stages
  BY DEF Stages, ClusterStages, BatchStages
<1>2. /\ Tail(<<"Delete.OnInit", "Gone.OnMachinesDeleted">>) = <<"Gone.OnMachinesDeleted">>
      /\ Tail(<<"BatchDelete.OnInit", "Delete.OnDeleteMachines", "Gone.OnMachinesDeleted">>)
           = <<"Delete.OnDeleteMachines", "Gone.OnMachinesDeleted">>
  BY <1>1, Tails
<1>3. Tail(<<"Gone.OnInit">>) = <<>>
  OBVIOUS
<1> QED
  BY <1>1, <1>2, <1>3, Tails

\* A job at a stage that no more is said of, with no task of a machine.
LEMMA QuietOK ==
  ASSUME NEW j \in Jobs, Going(j)', NEW h, NEW a \in WaitStages, NEW b \in WaitStages,
         job'[j].stack \in {<<h>>, <<h, a>>, <<h, a, b>>},
         h \notin {"BatchCreate.OnInit", "BatchDelete.OnDeleteMachines"},
         \A m \in Machines : job'[j].kid[m] = Idle
  PROVE  JobOK(j)'
<1>1. Head(job'[j].stack) = h
  OBVIOUS
<1>2. Waits(j)'
  BY DEF Waits
<1>3. Fresh(j)' /\ Parent(j)'
  BY DEF Fresh, Idle, Awaits, Parent, Kids
<1>4. Making(j)' /\ Ending(j)'
  BY <1>1 DEF Making, Ending
<1> QED
  BY <1>2, <1>3, <1>4 DEF JobOK

\* A server that is being recorded stays so.
Later == \A s \in servers : Recording(s) => Recording(s)'

LEMMA IdleLater ==
  ASSUME \A i \in Jobs, m \in Machines : job[i].kid[m] = Idle
  PROVE  (\A s \in servers : ~Recording(s)) /\ Later
  BY DEF Recording, Later, Idle

LEMMA StageLater ==
  ASSUME Types, Calm, NEW j \in Jobs, job[j] # NoJob, Kids(j) = {}
  PROVE  (\A s \in servers : ~Recording(s)) /\ Later
<1>1. ASSUME NEW i \in Jobs, NEW m \in Machines PROVE job[i].kid[m] = Idle
  <2>1. CASE i = j
    BY <2>1 DEF Kids
  <2>2. CASE i # j
    <3>1. job[i] = NoJob
      BY <2>2 DEF Calm, OneJob
    <3> QED
      BY <3>1 DEF NoJob
  <2> QED
    BY <2>1, <2>2
<1> QED
  BY <1>1, IdleLater

LEMMA QuietLater == ASSUME Types, ~Busy PROVE (\A s \in servers : ~Recording(s)) /\ Later
<1>1. \A i \in Jobs, m \in Machines : job[i].kid[m] = Idle
  BY DEF Busy, NoJob
<1> QED
  BY <1>1, IdleLater

\* One job runs, so a step of it only has to keep what is said of it.
LEMMA OneStep ==
  ASSUME Types, Calm, NEW j \in Jobs, job[j] # NoJob, job' = [job EXCEPT ![j] = job'[j]],
         Kept', Empty', JobOK(j)'
  PROVE  Calm'
<1>1. \A i \in Jobs : i # j => job'[i] = NoJob
  BY DEF Calm, OneJob, Types
<1>2. OneJob'
  BY <1>1 DEF OneJob
<1>3. \A i \in Jobs : JobOK(i)'
  BY <1>1 DEF JobOK
<1> QED
  BY <1>2, <1>3 DEF Calm

LEMMA SetOne ==
  ASSUME Types, NEW j \in Jobs, NEW x, Set(j, x)
  PROVE  job' = [job EXCEPT ![j] = job'[j]] /\ job'[j] = x
  BY DEF Set, Types

\* The pairs of stages of jobs that do not delete the cluster.
PlainPairs ==
  {<<"Add.OnInit", "New.OnMachinesCreated">>, <<"Addons.Run", "New.OnApplyAddonsComplete">>,
   <<"Deploy.OnInit", "Add.OnMachinesDeployed">>, <<"Deploy.Run", "Deploy.OnDeployMachines">>,
   <<"Sync.OnInit", "Deploy.OnSyncStatusComplete">>, <<"Sync.Run", "Sync.OnSyncStatus">>,
   <<"SyncTask.OnInit", "Deploy.OnSyncComplete">>,
   <<"BatchDelete.OnInit", "Delete.OnDeleteMachines">>,
   <<"Deploy.OnInit", "Delete.OnClusterNodeRemoved">>, <<"Sync.OnInit", "Delete.OnSyncStatus">>}

SyncRuns == {"SyncTask.Run", "SyncTask.Hung"}

\* What a stage that touches no machine does to its job.
Turns(j) == /\ job' = [job EXCEPT ![j] = job'[j]]
            /\ \/ \E ok \in BOOLEAN : job'[j] = Ends(j, ok)
               \/ \E a \in SyncRuns : /\ job'[j].stack = <<a>> \o Tail(job[j].stack)
                                       /\ job'[j].kid = job[j].kid
               \/ \E p \in PlainPairs : /\ job'[j].stack = p \o Tail(job[j].stack)
                                        /\ job'[j].kid = job[j].kid

LEMMA GoesFields ==
  ASSUME Types, NEW j \in Jobs, NEW p
  PROVE  /\ Goes(j, p).stack = p \o Tail(job[j].stack) /\ Goes(j, p).kid = job[j].kid
         /\ Goes(j, p).ret = TRUE /\ Goes(j, p).on = job[j].on
<1>1. job[j] \in JobT
  BY JobFields DEF Types
<1> HIDE DEF Types
<1> QED
  BY <1>1 DEF Goes, JobT

\* The same for a job that another field of is set, too.
LEMMA GoesCopy ==
  ASSUME Types, NEW j \in Jobs, job[j] # NoJob, NEW p \in Pairs, NEW v \in ClusterStatus,
         job'[j] = [Goes(j, p) EXCEPT !.copy = v]
  PROVE  /\ job'[j].stack = p \o Tail(job[j].stack) /\ job'[j].ret = TRUE
         /\ job'[j].kid = job[j].kid
<1> DEFINE g == Goes(j, p)
           y == job'[j]
<1>1. g \in JobT
  BY ResultGood, JobFields
<1>2. g.stack = p \o Tail(job[j].stack) /\ g.kid = job[j].kid /\ g.ret = TRUE /\ g.on = job[j].on
  BY GoesFields
<1>3. y = [g EXCEPT !.copy = v]
  OBVIOUS
<1> HIDE DEF g, y
<1>4. y.stack = g.stack /\ y.ret = g.ret /\ y.kid = g.kid
  BY <1>1, <1>3 DEF JobT
<1> QED
  BY <1>2, <1>4 DEF y

LEMMA GoesAct ==
  ASSUME Types, NEW j \in Jobs, job[j] # NoJob, NEW p \in Pairs, NEW v \in Acts,
         job'[j] = [Goes(j, p) EXCEPT !.act = v]
  PROVE  /\ job'[j].stack = p \o Tail(job[j].stack) /\ job'[j].ret = TRUE
         /\ job'[j].kid = job[j].kid
<1> DEFINE g == Goes(j, p)
           y == job'[j]
<1>1. g \in JobT
  BY ResultGood, JobFields
<1>2. g.stack = p \o Tail(job[j].stack) /\ g.kid = job[j].kid /\ g.ret = TRUE /\ g.on = job[j].on
  BY GoesFields
<1>3. y = [g EXCEPT !.act = v]
  OBVIOUS
<1> HIDE DEF g, y
<1>4. y.stack = g.stack /\ y.ret = g.ret /\ y.kid = g.kid
  BY <1>1, <1>3 DEF JobT
<1> QED
  BY <1>2, <1>4 DEF y

LEMMA PlainKeeps ==
  ASSUME Types, Types', Calm, NEW j \in Jobs, job[j] # NoJob, Kids(j) = {}, Outside(j), Turns(j),
         mach' = mach, servers' = servers, cluster' = cluster \/ cluster' # "gone"
  PROVE  Calm'
<1>0. Later
  BY StageLater
<1>1. Kept' /\ Empty'
  BY <1>0 DEF Calm, Kept, Empty, Rows, Live, Later
<1>2. JobOK(j)'
  <2>0. ASSUME NEW a \in SyncRuns, job'[j].stack = <<a>> \o Tail(job[j].stack), job'[j].kid = job[j].kid
        PROVE  JobOK(j)'
    BY <2>0, RunOK DEF Calm, SyncRuns
  <2>1. CASE \E ok \in BOOLEAN : job'[j] = Ends(j, ok)
    BY <2>1, EndsOK DEF Calm
  <2>2. ASSUME NEW p \in PlainPairs, job'[j].stack = p \o Tail(job[j].stack), job'[j].kid = job[j].kid
        PROVE  JobOK(j)'
    <3>1. \E a \in Stages \ (GoneStages \cup {"BatchDelete.OnDeleteMachines", "BatchCreate.OnInit"}),
             b \in WaitStages \ GoneStages : p = <<a, b>>
      BY DEF PlainPairs, Stages, ClusterStages, BatchStages, GoneStages, WaitStages
    <3> QED
      BY <2>2, <3>1, GoesOK DEF Calm
  <2> QED
    BY <2>0, <2>1, <2>2 DEF Turns
<1> QED
  BY <1>1, <1>2, OneStep DEF Turns

\* A stage fails, or the last one of the cluster's deletion succeeds.
LEMMA EndsKeeps ==
  ASSUME Types, Types', Calm, NEW j \in Jobs, job[j] # NoJob, Kids(j) = {}, NEW ok \in BOOLEAN,
         Set(j, Ends(j, ok)), ~ok \/ (Rows' = {} /\ Deleting'), Kept', Empty'
  PROVE  Calm'
<1>1. job' = [job EXCEPT ![j] = job'[j]] /\ job'[j] = Ends(j, ok)
  BY SetOne
<1>2. JobOK(j)'
  BY <1>1, EndsOK DEF Calm
<1> QED
  BY <1>1, <1>2, OneStep

LEMMA SameRows ==
  ASSUME Calm, Later, mach' = mach, servers' = servers
  PROVE  Kept' /\ Rows' = Rows /\ (cluster' = cluster \/ cluster' # "gone" => Empty')
  BY DEF Calm, Kept, Empty, Rows, Live, Later

LEMMA PlainHeads ==
  ASSUME Types, Calm, NEW j \in Jobs, NEW stage, At(j, stage), stage \notin GoneHeads
  PROVE  job[j] # NoJob /\ Kids(j) = {} /\ Outside(j)
  BY AtFacts, HeadOutside DEF Calm, JobOK

LEMMA EndsTurns ==
  ASSUME Types, NEW j \in Jobs, NEW ok \in BOOLEAN, Set(j, Ends(j, ok)) PROVE Turns(j)
  BY SetOne DEF Turns

LEMMA GoesTurns ==
  ASSUME Types, NEW j \in Jobs, NEW p \in PlainPairs, Set(j, Goes(j, p)) PROVE Turns(j)
<1>1. job' = [job EXCEPT ![j] = job'[j]] /\ job'[j] = Goes(j, p)
  BY SetOne
<1>2. Goes(j, p).stack = p \o Tail(job[j].stack) /\ Goes(j, p).kid = job[j].kid
  BY GoesFields
<1> QED
  BY <1>1, <1>2 DEF Turns

\* SyncInit and SyncTask load the status of the cluster, too.
LEMMA CopyTurns ==
  ASSUME Types, NEW j \in Jobs, job[j] # NoJob, NEW p \in PlainPairs \cup {<<"SyncTask.Run">>},
         Set(j, [Goes(j, p) EXCEPT !.copy = cluster])
  PROVE  Turns(j)
<1>1. p \in Pairs
  BY DEF PlainPairs, Pairs
<1>2. job' = [job EXCEPT ![j] = job'[j]] /\ job'[j] = [Goes(j, p) EXCEPT !.copy = cluster]
  BY SetOne
<1>3. job'[j].stack = p \o Tail(job[j].stack) /\ job'[j].kid = job[j].kid
  BY <1>1, <1>2, GoesCopy DEF Types, TypeOK
<1>4. "SyncTask.Run" \in SyncRuns
  BY DEF SyncRuns
<1> QED
  BY <1>2, <1>3, <1>4 DEF Turns

------------------------------------------------------------------------------
(* Stages of the cluster's tasks, without an excuse *)

LEMMA OrphanCalm == ASSUME Types, Types', Calm, NEW j \in Jobs, Orphan(j) PROVE Calm'
<1>1. job[j] # NoJob /\ Kids(j) = {}
  BY DEF Orphan, At
<1>2. Set(j, Ends(j, FALSE)) /\ mach' = mach /\ servers' = servers /\ cluster' = cluster
  BY DEF Orphan
<1> QED
  BY <1>1, <1>2, StageLater, SameRows, EndsKeeps

LEMMA NewInitCalm == ASSUME Types, Types', Calm, NEW j \in Jobs, NewInit(j) PROVE Calm'
<1>1. job[j] # NoJob /\ Kids(j) = {} /\ Outside(j)
  <2>1. At(j, "New.OnInit")
    BY DEF NewInit, Stage
  <2> QED
    BY <2>1, PlainHeads DEF GoneHeads
<1>2. Turns(j)
  <2>1. <<"Add.OnInit", "New.OnMachinesCreated">> \in PlainPairs
    BY DEF PlainPairs
  <2> QED
    BY <2>1, EndsTurns, GoesTurns DEF NewInit
<1> QED
  BY <1>1, <1>2, PlainKeeps DEF NewInit

LEMMA NewStepCalm == ASSUME Types, Types', Calm, NEW j \in Jobs, NewStep(j) PROVE Calm'
<1>1. job[j] # NoJob /\ Kids(j) = {} /\ Outside(j)
  <2>1. \E stage \in {"New.OnMachinesCreated", "Addons.Run", "New.OnApplyAddonsComplete"} : At(j, stage)
    BY DEF NewStep, Stage, Failed
  <2> QED
    BY <2>1, PlainHeads DEF GoneHeads
<1>2. Turns(j)
  <2>1. <<"Addons.Run", "New.OnApplyAddonsComplete">> \in PlainPairs
    BY DEF PlainPairs
  <2> QED
    BY <2>1, EndsTurns, GoesTurns DEF NewStep, Status
<1>3. mach' = mach /\ servers' = servers /\ (cluster' = cluster \/ cluster' # "gone")
  BY DEF NewStep, Status
<1> QED
  BY <1>1, <1>2, <1>3, PlainKeeps

LEMMA AddStepCalm == ASSUME Types, Types', Calm, NEW j \in Jobs, AddStep(j) PROVE Calm'
<1>1. job[j] # NoJob /\ Kids(j) = {} /\ Outside(j)
  <2>1. \E stage \in {"Add.OnMachinesCreated", "Add.OnMachinesDeployed"} : At(j, stage)
    BY DEF AddStep, Stage, Failed
  <2> QED
    BY <2>1, PlainHeads DEF GoneHeads
<1>2. Turns(j)
  <2>1. <<"Deploy.OnInit", "Add.OnMachinesDeployed">> \in PlainPairs
    BY DEF PlainPairs
  <2> QED
    BY <2>1, EndsTurns, GoesTurns DEF AddStep, Status
<1>3. mach' = mach /\ servers' = servers /\ (cluster' = cluster \/ cluster' # "gone")
  BY DEF AddStep, Status
<1> QED
  BY <1>1, <1>2, <1>3, PlainKeeps

LEMMA DeployInitCalm == ASSUME Types, Types', Calm, NEW j \in Jobs, DeployInit(j) PROVE Calm'
<1>1. job[j] # NoJob /\ Kids(j) = {} /\ Outside(j)
  <2>1. At(j, "Deploy.OnInit")
    BY DEF DeployInit, Stage
  <2> QED
    BY <2>1, PlainHeads DEF GoneHeads
<1>2. Turns(j)
  <2>1. <<"Deploy.Run", "Deploy.OnDeployMachines">> \in PlainPairs
    BY DEF PlainPairs
  <2> QED
    BY <2>1, EndsTurns, GoesTurns DEF DeployInit, Status
<1>3. mach' = mach /\ servers' = servers /\ (cluster' = cluster \/ cluster' # "gone")
  BY DEF DeployInit, Status
<1> QED
  BY <1>1, <1>2, <1>3, PlainKeeps

LEMMA DeployRunCalm == ASSUME Types, Types', Calm, NEW j \in Jobs, DeployRun(j) PROVE Calm'
<1>1. job[j] # NoJob /\ Kids(j) = {} /\ Outside(j)
  <2>1. At(j, "Deploy.Run")
    BY DEF DeployRun
  <2> QED
    BY <2>1, PlainHeads DEF GoneHeads
<1>2. Turns(j)
  BY EndsTurns DEF DeployRun
<1> QED
  BY <1>1, <1>2, PlainKeeps DEF DeployRun

LEMMA DeployStepCalm == ASSUME Types, Types', Calm, NEW j \in Jobs, DeployStep(j) PROVE Calm'
<1>1. job[j] # NoJob /\ Kids(j) = {} /\ Outside(j)
  <2>1. \E stage \in DeployStages : At(j, stage)
    BY DEF DeployStep, Stage, Failed, DeployStages
  <2> QED
    BY <2>1, PlainHeads DEF GoneHeads, DeployStages
<1>2. Turns(j)
  <2>1. /\ <<"Sync.OnInit", "Deploy.OnSyncStatusComplete">> \in PlainPairs
        /\ <<"SyncTask.OnInit", "Deploy.OnSyncComplete">> \in PlainPairs
    BY DEF PlainPairs
  <2> QED
    BY <2>1, EndsTurns, GoesTurns DEF DeployStep, Status
<1>3. mach' = mach /\ servers' = servers /\ (cluster' = cluster \/ cluster' # "gone")
  BY DEF DeployStep, Status
<1> QED
  BY <1>1, <1>2, <1>3, PlainKeeps

LEMMA SyncTaskCalm == ASSUME Types, Types', Calm, NEW j \in Jobs, SyncTask(j) PROVE Calm'
<1>1. job[j] # NoJob /\ Kids(j) = {} /\ Outside(j)
  <2>1. At(j, "SyncTask.OnInit") \/ At(j, "SyncTask.Run")
    BY DEF SyncTask, Stage
  <2> QED
    BY <2>1, PlainHeads DEF GoneHeads
<1>2. Turns(j)
  <2> DEFINE p == <<"SyncTask.Run">>
             h == <<"SyncTask.Hung">>
  <2>1. CASE Set(j, [Goes(j, p) EXCEPT !.copy = cluster])
    <3> HIDE DEF p
    <3>1. p \in PlainPairs \cup {<<"SyncTask.Run">>}
      BY DEF p
    <3> QED
      BY <1>1, <2>1, <3>1, CopyTurns
  <2>2. CASE \E ok \in BOOLEAN : Set(j, Ends(j, ok))
    BY <2>2, EndsTurns
  <2>3. CASE Set(j, Goes(j, h))
    <3>1. job' = [job EXCEPT ![j] = job'[j]] /\ job'[j] = Goes(j, h)
      BY <2>3, SetOne
    <3>2. Goes(j, h).stack = h \o Tail(job[j].stack) /\ Goes(j, h).kid = job[j].kid
      BY GoesFields
    <3> QED
      BY <3>1, <3>2 DEF Turns, SyncRuns
  <2>4. (job[j].copy = "running") \in BOOLEAN
    OBVIOUS
  <2> QED
    BY <2>1, <2>2, <2>3, <2>4 DEF SyncTask
<1> QED
  BY <1>1, <1>2, PlainKeeps DEF SyncTask

LEMMA SyncInitCalm == ASSUME Types, Types', Calm, NEW j \in Jobs, SyncInit(j) PROVE Calm'
<1>1. job[j] # NoJob /\ Kids(j) = {} /\ Outside(j)
  <2>1. At(j, "Sync.OnInit")
    BY DEF SyncInit, Stage
  <2> QED
    BY <2>1, PlainHeads DEF GoneHeads
<1>2. Turns(j)
  <2> DEFINE p == <<"Sync.Run", "Sync.OnSyncStatus">>
  <2>1. p \in PlainPairs
    BY DEF PlainPairs
  <2>2. CASE Set(j, Ends(j, TRUE))
    BY <2>2, EndsTurns
  <2>3. CASE Set(j, [Goes(j, p) EXCEPT !.copy = cluster])
    <3> HIDE DEF p
    <3> QED
      BY <1>1, <2>1, <2>3, CopyTurns
  <2> QED
    BY <2>2, <2>3 DEF SyncInit, Status
<1>3. mach' = mach /\ servers' = servers /\ (cluster' = cluster \/ cluster' # "gone")
  BY DEF SyncInit, Status
<1> QED
  BY <1>1, <1>2, <1>3, PlainKeeps

LEMMA SyncRunCalm == ASSUME Types, Types', Calm, NEW j \in Jobs, SyncRun(j) PROVE Calm'
<1>1. job[j] # NoJob /\ Kids(j) = {} /\ Outside(j)
  <2>1. At(j, "Sync.Run")
    BY DEF SyncRun
  <2> QED
    BY <2>1, PlainHeads DEF GoneHeads
<1>2. Turns(j)
  BY EndsTurns DEF SyncRun
<1>3. mach' = mach /\ servers' = servers /\ (cluster' = cluster \/ cluster' # "gone")
  BY DEF SyncRun
<1> QED
  BY <1>1, <1>2, <1>3, PlainKeeps

LEMMA SyncDoneCalm == ASSUME Types, Types', Calm, NEW j \in Jobs, SyncDone(j) PROVE Calm'
<1>1. job[j] # NoJob /\ Kids(j) = {} /\ Outside(j)
  <2>1. At(j, "Sync.OnSyncStatus")
    BY DEF SyncDone, Stage, Failed
  <2> QED
    BY <2>1, PlainHeads DEF GoneHeads
<1>2. Turns(j)
  BY EndsTurns DEF SyncDone, Status
<1>3. mach' = mach /\ servers' = servers /\ (cluster' = cluster \/ cluster' # "gone")
  BY DEF SyncDone, Status
<1> QED
  BY <1>1, <1>2, <1>3, PlainKeeps

LEMMA AloneCalm == ASSUME Types, Types', Calm, NEW j \in Jobs, Alone(j) PROVE Calm'
<1>1. job[j] # NoJob /\ Set(j, NoJob) /\ mach' = mach /\ servers' = servers /\ cluster' = cluster
  BY DEF Alone, At
<1>2. job' = [job EXCEPT ![j] = job'[j]] /\ job'[j] = NoJob
  BY <1>1, SetOne
<1>3. JobOK(j)'
  BY <1>2 DEF JobOK
<1>4. Kids(j) = {}
  BY DEF Alone, At
<1> QED
  BY <1>1, <1>2, <1>3, <1>4, StageLater, SameRows, OneStep

LEMMA DeleteInitCalm == ASSUME Types, Types', Calm, NEW j \in Jobs, DeleteInit(j) PROVE Calm'
<1> DEFINE p == <<"BatchDelete.OnInit", "Delete.OnDeleteMachines">>
           q == <<"Deploy.OnInit", "Delete.OnClusterNodeRemoved">>
<1>1. /\ job[j] # NoJob /\ Kids(j) = {} /\ Head(job[j].stack) = "Delete.OnInit" /\ Going(j)
      /\ \A m \in Machines : job[j].kid[m] = Idle
  BY AtFacts DEF DeleteInit, Stage, Calm, JobOK
<1>2. mach' = mach /\ servers' = servers /\ (cluster' = cluster \/ cluster' # "gone")
  BY DEF DeleteInit, Status
<1>3. Kept' /\ Empty' /\ Rows' = Rows
  BY <1>1, <1>2, StageLater, SameRows
<1>4. CASE ~(job[j].on \subseteq Rows)
  <2>1. Set(j, Ends(j, FALSE))
    BY <1>4 DEF DeleteInit, Status
  <2> QED
    BY <1>1, <1>3, <2>1, EndsKeeps
<1>5. CASE job[j].on \subseteq Rows /\ Outside(j)
  <2>1. p \in PlainPairs /\ q \in PlainPairs /\ q \in Pairs
    BY DEF PlainPairs, Pairs
  <2>2. CASE Deleting
    <3>1. Set(j, Goes(j, p))
      BY <1>5, <2>2 DEF DeleteInit, Status
    <3>2. Turns(j)
      BY <2>1, <3>1, GoesTurns
    <3> QED
      BY <1>1, <1>2, <1>5, <3>2, PlainKeeps
  <2>3. CASE ~Deleting
    <3>1. Set(j, [Goes(j, q) EXCEPT !.act = "remove"])
      BY <1>5, <2>3 DEF DeleteInit, Status
    <3> HIDE DEF p, q
    <3>2. job' = [job EXCEPT ![j] = job'[j]] /\ job'[j] = [Goes(j, q) EXCEPT !.act = "remove"]
      BY <3>1, SetOne
    <3>3. job'[j].stack = q \o Tail(job[j].stack) /\ job'[j].kid = job[j].kid
      BY <1>1, <2>1, <3>2, GoesAct DEF Acts
    <3>4. Turns(j)
      BY <2>1, <3>2, <3>3 DEF Turns
    <3> QED
      BY <1>1, <1>2, <1>5, <3>4, PlainKeeps
  <2> QED
    BY <2>2, <2>3
<1>6. CASE job[j].on \subseteq Rows /\ ~Outside(j)
  <2>1. /\ job[j].stack = <<"Delete.OnInit", "Gone.OnMachinesDeleted">> /\ Deleting
        /\ Rows \subseteq job[j].on
    BY <1>1, <1>6, GoneCases
  <2>2. Set(j, Goes(j, p)) /\ cluster' = cluster
    BY <1>6, <2>1 DEF DeleteInit, Status
  <2>3. job' = [job EXCEPT ![j] = job'[j]] /\ job'[j] = Goes(j, p)
    BY <2>2, SetOne
  <2>4. /\ Goes(j, p).stack = p \o Tail(job[j].stack) /\ Goes(j, p).kid = job[j].kid
        /\ Goes(j, p).on = job[j].on
    BY GoesFields
  <2>5. p \o Tail(job[j].stack)
          = <<"BatchDelete.OnInit", "Delete.OnDeleteMachines", "Gone.OnMachinesDeleted">>
    BY <2>1, GoneTails
  <2> HIDE DEF p, q
  <2>6. JobOK(j)'
    <3>1. /\ job'[j].stack = <<"BatchDelete.OnInit", "Delete.OnDeleteMachines", "Gone.OnMachinesDeleted">>
          /\ job'[j].kid = job[j].kid /\ job'[j].on = job[j].on
      BY <2>3, <2>4, <2>5
    <3>2. Going(j)'
      BY <1>3, <2>1, <2>2, <3>1 DEF Going, Deleting
    <3>3. \A m \in Machines : job'[j].kid[m] = Idle
      BY <1>1, <3>1
    <3>4. "Delete.OnDeleteMachines" \in WaitStages /\ "Gone.OnMachinesDeleted" \in WaitStages
      BY DEF WaitStages
    <3> QED
      BY <3>1, <3>2, <3>3, <3>4, QuietOK
  <2> QED
    BY <1>1, <1>3, <2>3, <2>6, OneStep
<1> QED
  BY <1>4, <1>5, <1>6

LEMMA DeleteStepCalm == ASSUME Types, Types', Calm, NEW j \in Jobs, DeleteStep(j) PROVE Calm'
<1> DEFINE p == <<"BatchDelete.OnInit", "Delete.OnDeleteMachines">>
           q == <<"Sync.OnInit", "Delete.OnSyncStatus">>
<1>1. /\ job[j] # NoJob /\ Kids(j) = {} /\ Going(j) /\ Head(job[j].stack) \in DeleteStages
  BY AtFacts DEF DeleteStep, Stage, Failed, DeleteStages, Calm, JobOK
<1>2. mach' = mach /\ servers' = servers /\ (cluster' = cluster \/ cluster' # "gone")
  BY DEF DeleteStep, Status, Stage, Failed
<1>3. Kept' /\ Empty' /\ Rows' = Rows
  BY <1>1, <1>2, StageLater, SameRows
<1>4. CASE Outside(j)
  <2>1. p \in PlainPairs /\ q \in PlainPairs
    BY DEF PlainPairs
  <2>2. \/ \E ok \in BOOLEAN : Set(j, Ends(j, ok))
        \/ Set(j, Goes(j, p)) \/ Set(j, Goes(j, q))
    BY DEF DeleteStep, Status
  <2> HIDE DEF p, q
  <2>3. Turns(j)
    BY <2>1, <2>2, EndsTurns, GoesTurns
  <2> QED
    BY <1>1, <1>2, <1>4, <2>3, PlainKeeps
<1>5. CASE ~Outside(j)
  <2>1. Head(job[j].stack) = "Delete.OnDeleteMachines"
    BY <1>1, <1>5, HeadOutside DEF DeleteStages, GoneHeads
  <2>2. job[j].ret => Rows = {} /\ Deleting
    BY <1>1, <1>5, <2>1, GoneCases
  <2>3. CASE job[j].ret
    <3>1. Set(j, Ends(j, TRUE)) /\ cluster' = cluster
      BY <2>1, <2>2, <2>3 DEF DeleteStep, Stage, Failed, At, DeleteStages
    <3> QED
      BY <1>1, <1>3, <2>2, <2>3, <3>1, EndsKeeps DEF Deleting
  <2>4. CASE ~job[j].ret
    <3>1. Set(j, Ends(j, FALSE))
      BY <2>1, <2>4 DEF DeleteStep, Stage, Failed, At, DeleteStages, Status
    <3> QED
      BY <1>1, <1>3, <3>1, EndsKeeps
  <2> QED
    BY <2>3, <2>4
<1> QED
  BY <1>4, <1>5

------------------------------------------------------------------------------
(* Batches and new rows, without an excuse *)

LEMMA MarkedRows ==
  ASSUME Types, NEW ms, NEW st \in MachineStatus \ {"none"}, mach' = Marked(ms, st)
  PROVE  \A m \in Machines :
           /\ mach'[m].vm = mach[m].vm
           /\ st # "gone" => (Live(m)' <=> Live(m))
           /\ st = "gone" => (Live(m)' <=> (Live(m) /\ m \notin ms))
<1> SUFFICES ASSUME NEW m \in Machines
             PROVE  /\ mach'[m].vm = mach[m].vm
                    /\ st # "gone" => (Live(m)' <=> Live(m))
                    /\ st = "gone" => (Live(m)' <=> (Live(m) /\ m \notin ms))
  OBVIOUS
<1>1. mach[m] \in Mach
  BY MachType
<1>2. CASE m \in ms /\ Live(m)
  <2>1. mach'[m] = [mach[m] EXCEPT !.st = st]
    BY <1>2 DEF Marked
  <2>2. mach'[m].vm = mach[m].vm /\ mach'[m].st = st
    BY <1>1, <2>1 DEF Mach
  <2> QED
    BY <1>2, <2>2 DEF Live
<1>3. CASE ~(m \in ms /\ Live(m))
  <2>1. mach'[m] = mach[m]
    BY <1>3 DEF Marked
  <2> QED
    BY <1>3, <2>1 DEF Live
<1> QED
  BY <1>2, <1>3

LEMMA MarkedKept ==
  ASSUME Types, Calm, Later, NEW ms, NEW st \in MachineStatus \ {"none", "gone"},
         mach' = Marked(ms, st), servers' \subseteq servers
  PROVE  /\ Kept' /\ Rows' = Rows /\ (cluster' = cluster \/ cluster' # "gone" => Empty')
         /\ \A m \in Machines : mach'[m].vm = mach[m].vm
<1>1. \A m \in Machines : mach'[m].vm = mach[m].vm /\ (Live(m)' <=> Live(m))
  BY MarkedRows
<1>2. Rows' = Rows
  BY <1>1 DEF Rows
<1>3. Kept'
  BY <1>1, <1>2 DEF Kept, Calm, Rows, Later
<1> QED
  BY <1>1, <1>2, <1>3 DEF Empty, Calm

LEMMA GoneInitCalm == ASSUME Types, Types', Calm, NEW j \in Jobs, GoneInit(j) PROVE Calm'
<1>1. /\ job[j] # NoJob /\ Kids(j) = {} /\ Head(job[j].stack) = "Gone.OnInit" /\ Going(j)
      /\ \A m \in Machines : job[j].kid[m] = Idle
  BY AtFacts DEF GoneInit, Stage, Calm, JobOK
<1>2. ~Outside(j)
  BY <1>1, GoneNotOutside DEF GoneStages
<1>3. job[j].stack = <<"Gone.OnInit">> /\ Deleting
  BY <1>1, <1>2, GoneCases
<1>4. CASE Rows = {}
  <2>1. \E ok \in BOOLEAN : Set(j, Ends(j, ok)) /\ mach' = mach /\ servers' = servers
    BY <1>4 DEF GoneInit, RealDelete, Status
  <2>2. \A ok \in BOOLEAN : Ends(j, ok) = NoJob
    BY <1>3 DEF Ends
  <2>3. job' = [job EXCEPT ![j] = job'[j]] /\ job'[j] = NoJob
    BY <2>1, <2>2, SetOne
  <2>4. JobOK(j)'
    BY <2>3 DEF JobOK
  <2>5. Kept' /\ Empty'
    BY <1>1, <1>4, <2>1, StageLater, SameRows DEF Empty
  <2> QED
    BY <1>1, <2>3, <2>4, <2>5, OneStep
<1>5. CASE Rows # {}
  <2> DEFINE p == <<"Delete.OnInit", "Gone.OnMachinesDeleted">>
  <2>1. /\ mach' = Marked(Rows, "deleting") /\ cluster' = cluster /\ servers' = servers
        /\ Set(j, [Goes(j, p) EXCEPT !.on = Rows])
    BY <1>5 DEF GoneInit
  <2>2. p \in Pairs /\ Rows \in SUBSET Machines /\ "deleting" \in MachineStatus \ {"none", "gone"}
    BY DEF Pairs, Rows, MachineStatus
  <2>3. p \o Tail(job[j].stack) = p
    BY <1>3, GoneTails
  <2> HIDE DEF p
  <2>4. job' = [job EXCEPT ![j] = job'[j]] /\ job'[j] = [Goes(j, p) EXCEPT !.on = Rows]
    BY <2>1, SetOne
  <2>5. job'[j].stack = p /\ job'[j].kid = job[j].kid /\ job'[j].on = Rows
    <3> DEFINE g == Goes(j, p)
    <3>1. g \in JobT /\ g.stack = p /\ g.kid = job[j].kid
      BY <1>1, <2>2, <2>3, ResultGood, JobFields, GoesFields
    <3>2. job'[j] = [g EXCEPT !.on = Rows]
      BY <2>4
    <3> HIDE DEF g
    <3> QED
      BY <3>1, <3>2 DEF JobT
  <2>6. Kept' /\ Empty' /\ Rows' = Rows
    BY <1>1, <2>1, <2>2, StageLater, MarkedKept
  <2>7. Going(j)'
    BY <1>3, <2>1, <2>5, <2>6 DEF Going, Deleting, p
  <2>8. \A m \in Machines : job'[j].kid[m] = Idle
    BY <1>1, <2>5
  <2>9. JobOK(j)'
    BY <2>5, <2>7, <2>8, QuietOK DEF WaitStages, p
  <2> QED
    BY <1>1, <2>4, <2>6, <2>9, OneStep
<1> QED
  BY <1>4, <1>5

LEMMA GoneDoneCalm == ASSUME Types, Types', Calm, NEW j \in Jobs, GoneDone(j) PROVE Calm'
<1>1. /\ job[j] # NoJob /\ Kids(j) = {} /\ Head(job[j].stack) = "Gone.OnMachinesDeleted" /\ Going(j)
  BY AtFacts DEF GoneDone, Stage, Failed, Calm, JobOK
<1>2. ~Outside(j)
  BY <1>1, GoneNotOutside DEF GoneStages
<1>3. job[j].stack = <<"Gone.OnMachinesDeleted">> /\ (job[j].ret => Rows = {})
  BY <1>1, <1>2, GoneCases
<1>4. \E ok \in BOOLEAN : Set(j, Ends(j, ok)) /\ mach' = mach /\ servers' = servers
  BY DEF GoneDone, RealDelete, Status
<1>5. \A ok \in BOOLEAN : Ends(j, ok) = NoJob
  BY <1>3 DEF Ends
<1>6. job' = [job EXCEPT ![j] = job'[j]] /\ job'[j] = NoJob
  BY <1>4, <1>5, SetOne
<1>7. JobOK(j)'
  BY <1>6 DEF JobOK
<1>8. Kept' /\ Rows' = Rows
  BY <1>1, <1>4, StageLater, SameRows
<1>9. Empty'
  BY <1>3, <1>8 DEF Empty, GoneDone, RealDelete, Stage, Failed, Status
<1> QED
  BY <1>1, <1>6, <1>7, <1>8, <1>9, OneStep

\* A batch starts a task for each of its machines.
Started(j, batch, after, kid) ==
  LET s == job[j].stack  t == job'[j].stack IN
  /\ job[j] # NoJob /\ Kids(j) = {} /\ Head(s) = batch
  /\ job' = [job EXCEPT ![j] = job'[j]]
  /\ t = <<after>> \o Tail(s)
  /\ t \in Seq(Stages) /\ Len(t) = Len(s) /\ Head(t) = after /\ t[1] = after
  /\ \A i \in 2..Len(s) : t[i] = s[i]
  /\ job'[j].on = job[j].on /\ job'[j].bad = FALSE
  /\ \A m \in Machines : job'[j].kid[m] = IF m \in job[j].on THEN kid ELSE Idle
  /\ Kept' /\ Empty' /\ Rows' = Rows /\ cluster' = cluster /\ servers' = servers
  /\ \A m \in Machines : mach'[m].vm = mach[m].vm

LEMMA BatchStarts ==
  ASSUME Types, Types', Calm, NEW j \in Jobs, NEW batch, NEW after \in {"BatchCreate.OnMachinesCreated",
           "BatchDelete.OnDeleteMachines"},
         NEW st \in MachineStatus \ {"none", "gone"}, NEW kid \in KidT,
         BatchInit(j, batch, after, st, kid)
  PROVE  Started(j, batch, after, kid)
<1> DEFINE p == <<after>>
           k == [m \in Machines |-> IF m \in job[j].on THEN kid ELSE Idle]
           s == job[j].stack
           t == job'[j].stack
<1>1. /\ job[j] # NoJob /\ Kids(j) = {} /\ Head(s) = batch
  BY DEF BatchInit, BatchStage, At
<1>2. /\ mach' = Marked(job[j].on, st) /\ cluster' = cluster /\ servers' = servers
      /\ Set(j, [Goes(j, p) EXCEPT !.kid = k, !.bad = FALSE])
  BY DEF BatchInit
<1>3. p \in Pairs /\ k \in [Machines -> KidT]
  BY DEF Pairs, Idle, KidT, Points
<1>4. \A m \in Machines : k[m] = IF m \in job[j].on THEN kid ELSE Idle
  OBVIOUS
<1>5. p \in Seq(Stages) /\ Len(p) = 1 /\ p[1] = after
  BY DEF Stages, BatchStages
<1> HIDE DEF p, k
<1>6. /\ job' = [job EXCEPT ![j] = job'[j]]
      /\ job'[j] = [Goes(j, p) EXCEPT !.kid = k, !.bad = FALSE]
  BY <1>2, SetOne
<1>7. t = p \o Tail(s) /\ job'[j].kid = k /\ job'[j].bad = FALSE /\ job'[j].on = job[j].on
  <2> DEFINE g == Goes(j, p)
  <2>1. g \in JobT /\ g.stack = p \o Tail(s) /\ g.on = job[j].on
    BY <1>1, <1>3, ResultGood, JobFields, GoesFields
  <2>2. job'[j] = [g EXCEPT !.kid = k, !.bad = FALSE]
    BY <1>6
  <2> HIDE DEF g
  <2> QED
    BY <2>1, <2>2 DEF JobT
<1>8. /\ s \in Seq(Stages) /\ Len(s) \in Nat /\ Len(s) >= 1
      /\ Tail(s) \in Seq(Stages) /\ Len(Tail(s)) = Len(s) - 1
      /\ \A i \in 1..(Len(s) - 1) : Tail(s)[i] = s[i + 1]
  BY <1>1, Top
<1> HIDE DEF s, t
<1>9. /\ t \in Seq(Stages) /\ Len(t) = Len(p) + Len(Tail(s))
      /\ \A i \in 1..Len(p) + Len(Tail(s)) : t[i] = IF i <= Len(p) THEN p[i] ELSE Tail(s)[i - Len(p)]
  <2>1. /\ p \o Tail(s) \in Seq(Stages) /\ Len(p \o Tail(s)) = Len(p) + Len(Tail(s))
        /\ \A i \in 1..Len(p) + Len(Tail(s)) :
             (p \o Tail(s))[i] = IF i <= Len(p) THEN p[i] ELSE Tail(s)[i - Len(p)]
    BY <1>5, <1>8, ConcatProperties
  <2> QED
    BY <1>7, <2>1
<1>10. Len(t) = Len(s) /\ t[1] = after
  BY <1>5, <1>8, <1>9
<1>11. \A i \in 2..Len(s) : t[i] = s[i]
  <2> SUFFICES ASSUME NEW i \in 2..Len(s) PROVE t[i] = s[i]
    OBVIOUS
  <2>1. t[i] = Tail(s)[i - 1]
    BY <1>5, <1>8, <1>9
  <2>2. i - 1 \in 1..(Len(s) - 1) /\ (i - 1) + 1 = i
    BY <1>8
  <2> QED
    BY <1>8, <2>1, <2>2
<1>12. Head(t) = after
  <2>1. t # <<>>
    BY <1>8, <1>10, EmptySeq
  <2> QED
    BY <1>9, <1>10, <2>1, HeadTailProperties
<1>13. Kept' /\ Empty' /\ Rows' = Rows /\ \A m \in Machines : mach'[m].vm = mach[m].vm
  BY <1>1, <1>2, StageLater, MarkedKept
<1> QED
  BY <1>1, <1>2, <1>4, <1>6, <1>7, <1>9, <1>10, <1>11, <1>12, <1>13 DEF Started, p, s, t

LEMMA BatchCreateCalm ==
  ASSUME Types, Types', Calm, NEW j \in Jobs,
         BatchInit(j, "BatchCreate.OnInit", "BatchCreate.OnMachinesCreated", "creating",
                   Starts("Create", "Create.OnInit"))
  PROVE  Calm'
<1> DEFINE s == job[j].stack
           t == job'[j].stack
           kid == Starts("Create", "Create.OnInit")
<1>0. "creating" \in MachineStatus \ {"none", "gone"} /\ kid \in KidT
  BY DEF MachineStatus, KidT, Points, Starts
<1>1. /\ job[j] # NoJob /\ Kids(j) = {} /\ Head(s) = "BatchCreate.OnInit"
      /\ job' = [job EXCEPT ![j] = job'[j]]
      /\ Len(t) = Len(s) /\ Head(t) = "BatchCreate.OnMachinesCreated"
      /\ t[1] = "BatchCreate.OnMachinesCreated"
      /\ \A i \in 2..Len(s) : t[i] = s[i]
      /\ job'[j].on = job[j].on
      /\ \A m \in Machines : job'[j].kid[m] = IF m \in job[j].on THEN kid ELSE Idle
      /\ Kept' /\ Empty' /\ \A m \in Machines : mach'[m].vm = mach[m].vm
  <2>1. BatchInit(j, "BatchCreate.OnInit", "BatchCreate.OnMachinesCreated", "creating", kid)
    OBVIOUS
  <2> HIDE DEF kid
  <2>2. Started(j, "BatchCreate.OnInit", "BatchCreate.OnMachinesCreated", kid)
    BY <1>0, <2>1, BatchStarts
  <2> QED
    BY <2>2 DEF Started
<1>2. Making(j) /\ Waits(j) /\ Going(j)
  BY <1>1 DEF Calm, JobOK
<1>3. Outside(j)
  BY <1>1, <1>2, HeadOutside DEF GoneHeads
<1>l. Len(s) \in Nat
  BY <1>1, Top
<1> HIDE DEF s, t
<1>4. Fresh(j)'
  BY <1>1, <1>2 DEF Fresh, Making, s, Idle, Starts, Awaits
<1>5. Making(j)' /\ Parent(j)' /\ Ending(j)'
  BY <1>1 DEF Making, Parent, Ending, ParentStages, t
<1>6. Waits(j)'
  BY <1>1, <1>2 DEF Waits, s, t
<1>7. Outside(j)'
  <2>1. ASSUME NEW i \in 1..Len(t) PROVE t[i] \notin GoneStages
    <3>1. CASE i = 1
      BY <1>1, <3>1 DEF GoneStages
    <3>2. CASE i # 1
      BY <1>1, <1>l, <3>2, <1>3 DEF Outside, s
    <3> QED
      BY <3>1, <3>2
  <2> QED
    BY <2>1 DEF Outside, t
<1>8. JobOK(j)'
  BY <1>4, <1>5, <1>6, <1>7 DEF JobOK, Going
<1> QED
  BY <1>1, <1>8, OneStep

LEMMA BatchDeleteCalm ==
  ASSUME Types, Types', Calm, NEW j \in Jobs,
         BatchInit(j, "BatchDelete.OnInit", "BatchDelete.OnDeleteMachines", "terminating",
                   Starts("Terminate", "Terminate.OnInit"))
  PROVE  Calm'
<1> DEFINE s == job[j].stack
           t == job'[j].stack
           kid == Starts("Terminate", "Terminate.OnInit")
<1>0. /\ "terminating" \in MachineStatus \ {"none", "gone"} /\ kid \in KidT
      /\ kid.at = "Terminate.OnInit" /\ kid # Idle
  BY DEF MachineStatus, KidT, Points, Starts, Idle
<1>1. /\ job[j] # NoJob /\ Kids(j) = {} /\ Head(s) = "BatchDelete.OnInit"
      /\ job' = [job EXCEPT ![j] = job'[j]] /\ t = <<"BatchDelete.OnDeleteMachines">> \o Tail(s)
      /\ Len(t) = Len(s) /\ Head(t) = "BatchDelete.OnDeleteMachines"
      /\ t[1] = "BatchDelete.OnDeleteMachines"
      /\ \A i \in 2..Len(s) : t[i] = s[i]
      /\ job'[j].on = job[j].on /\ job'[j].bad = FALSE
      /\ \A m \in Machines : job'[j].kid[m] = IF m \in job[j].on THEN kid ELSE Idle
      /\ Kept' /\ Empty' /\ Rows' = Rows /\ cluster' = cluster
      /\ \A m \in Machines : mach'[m].vm = mach[m].vm
  <2>1. BatchInit(j, "BatchDelete.OnInit", "BatchDelete.OnDeleteMachines", "terminating", kid)
    OBVIOUS
  <2> HIDE DEF kid
  <2>2. Started(j, "BatchDelete.OnInit", "BatchDelete.OnDeleteMachines", kid)
    BY <1>0, <2>1, BatchStarts
  <2> QED
    BY <2>2 DEF Started
<1>2. Making(j) /\ Waits(j) /\ Going(j) /\ job[j].on \subseteq Machines
  BY <1>1 DEF Calm, JobOK, Types, TypeOK
<1>l. Len(s) \in Nat
  BY <1>1, Top
<1>3. Ending(j)'
  <2>1. \A m \in Machines : job'[j].kid[m] \in {Idle, kid}
    BY <1>1
  <2>2. \A m \in job'[j].on : job'[j].kid[m] # Idle
    BY <1>0, <1>1, <1>2
  <2> QED
    BY <1>1, <2>1, <2>2 DEF Ending
<1> HIDE DEF s, t, kid
<1>4. Fresh(j)'
  BY <1>0, <1>1 DEF Fresh, Idle, Awaits
<1>5. Making(j)' /\ Parent(j)'
  BY <1>1 DEF Making, Parent, ParentStages, t
<1>6. Waits(j)'
  BY <1>1, <1>2 DEF Waits, s, t
<1>7. Going(j)'
  <2>1. CASE Outside(j)
    <3>1. ASSUME NEW i \in 1..Len(t) PROVE t[i] \notin GoneStages
      <4>1. CASE i = 1
        BY <1>1, <4>1 DEF GoneStages
      <4>2. CASE i # 1
        BY <1>1, <1>l, <4>2, <2>1 DEF Outside, s
      <4> QED
        BY <4>1, <4>2
    <3> QED
      BY <3>1 DEF Going, Outside, t
  <2>2. CASE ~Outside(j)
    <3>1. /\ s = <<"BatchDelete.OnInit", "Delete.OnDeleteMachines", "Gone.OnMachinesDeleted">>
          /\ Deleting /\ Rows \subseteq job[j].on
      BY <1>1, <1>2, <2>2, GoneCases DEF s
    <3>2. t = <<"BatchDelete.OnDeleteMachines", "Delete.OnDeleteMachines", "Gone.OnMachinesDeleted">>
      BY <1>1, <3>1, GoneTails
    <3> QED
      BY <1>1, <3>1, <3>2 DEF Going, Deleting, t
  <2> QED
    BY <2>1, <2>2
<1>8. JobOK(j)'
  BY <1>3, <1>4, <1>5, <1>6, <1>7 DEF JobOK
<1> QED
  BY <1>1, <1>8, OneStep

LEMMA BatchDoneCalm == ASSUME Types, Types', Calm, NEW j \in Jobs, BatchDone(j) PROVE Calm'
<1>1. /\ job[j] # NoJob /\ Kids(j) = {} /\ Going(j) /\ Ending(j)
      /\ \A m \in Machines : job[j].kid[m] = Idle
  <2>1. \E stage \in BatchStages : At(j, stage)
    BY DEF BatchDone, BatchStage, BatchStages
  <2> QED
    BY <2>1, AtFacts DEF Calm, JobOK
<1>2. servers' = servers /\ cluster' = cluster /\ job[j].ret \in BOOLEAN /\ job[j].on \subseteq Machines
  BY JobFields DEF BatchDone, Types
<1>3. CASE BatchStage(j, "BatchCreate.OnMachinesCreated") /\ Set(j, Ends(j, job[j].ret)) /\ mach' = mach
  <2>1. Outside(j)
    <3>1. At(j, "BatchCreate.OnMachinesCreated")
      BY <1>3 DEF BatchStage
    <3> QED
      BY <3>1, PlainHeads DEF GoneHeads
  <2>2. Turns(j)
    BY <1>2, <1>3, EndsTurns
  <2> QED
    BY <1>1, <1>2, <1>3, <2>1, <2>2, PlainKeeps
<1>4. CASE Set(j, Ends(j, FALSE)) /\ mach' = mach
  BY <1>1, <1>2, <1>4, StageLater, SameRows, EndsKeeps
<1>5. CASE /\ BatchStage(j, "BatchDelete.OnDeleteMachines") /\ job[j].ret
           /\ mach' = Marked(job[j].on, "gone") /\ Set(j, Ends(j, TRUE))
  <2>1. Head(job[j].stack) = "BatchDelete.OnDeleteMachines"
    BY <1>5 DEF BatchStage, At
  <2>2. \A m \in job[j].on : mach[m].vm \notin servers
    BY <1>1, <1>2, <1>5, <2>1 DEF Ending
  <2>3. "gone" \in MachineStatus \ {"none"}
    BY DEF MachineStatus
  <2>4. \A m \in Machines : /\ mach'[m].vm = mach[m].vm
                            /\ Live(m)' <=> (Live(m) /\ m \notin job[j].on)
    BY <1>5, <2>3, MarkedRows
  <2>5. Kept'
    <3>1. SUFFICES ASSUME NEW v \in servers PROVE \E m \in Rows' : mach'[m].vm = v
      BY <1>2 DEF Kept
    <3>2. PICK m \in Rows : mach[m].vm = v
      BY <1>1, StageLater DEF Calm, Kept
    <3>3. m \in Machines /\ Live(m)
      BY DEF Rows
    <3>4. m \notin job[j].on
      BY <2>2, <3>2
    <3>5. m \in Rows' /\ mach'[m].vm = v
      BY <2>4, <3>2, <3>3, <3>4 DEF Rows
    <3> QED
      BY <3>5
  <2>6. Rows' = Rows \ job[j].on
    BY <2>4 DEF Rows
  <2>7. Empty'
    BY <1>2, <2>6 DEF Calm, Empty
  <2>8. job' = [job EXCEPT ![j] = job'[j]] /\ job'[j] = Ends(j, TRUE)
    BY <1>5, SetOne
  <2>9. Outside(j) \/ (Rows' = {} /\ Deleting')
    <3>1. ~Outside(j) => Deleting /\ Rows \subseteq job[j].on
      BY <1>1, <2>1, GoneCases
    <3> QED
      BY <1>2, <2>6, <3>1 DEF Deleting
  <2>10. JobOK(j)
    BY DEF Calm
  <2>11. JobOK(j)'
    BY <1>1, <2>8, <2>9, <2>10, EndsOK
  <2> QED
    BY <1>1, <2>5, <2>7, <2>8, <2>11, OneStep
<1> QED
  BY <1>2, <1>3, <1>4, <1>5 DEF BatchDone

LEMMA AddInitCalm == ASSUME Types, Types', Calm, NEW j \in Jobs, AddInit(j) PROVE Calm'
<1>1. job[j] # NoJob /\ Kids(j) = {} /\ Outside(j)
  <2>1. At(j, "Add.OnInit")
    BY DEF AddInit, Stage
  <2> QED
    BY <2>1, PlainHeads DEF GoneHeads
<1>2. servers' = servers /\ cluster # "gone"
  BY DEF AddInit, Stage, Lives
<1>3. CASE Status(j, "create_machine_fail", Ends(j, FALSE)) /\ mach' = mach
  <2>1. Set(j, Ends(j, FALSE)) /\ cluster' # "gone"
    BY <1>3 DEF Status
  <2> QED
    BY <1>1, <1>2, <1>3, <2>1, StageLater, SameRows, EndsKeeps
<1>4. ASSUME NEW ms \in SUBSET Machines, Inserts(j, ms) PROVE Calm'
  <2> DEFINE p == <<"BatchCreate.OnInit", "Add.OnMachinesCreated">>
  <2>1. /\ mach' = [m \in Machines |-> IF m \in ms THEN NewRow(j, m, ms) ELSE mach[m]]
        /\ ms \subseteq Unused
    BY <1>4 DEF Inserts
  <2>3. \A m \in ms : NewRow(j, m, ms).vm = 0
    BY NewRowFields
  <2>4. /\ \A m \in ms : mach'[m].vm = 0
        /\ \A m \in Machines \ ms : mach'[m] = mach[m]
    BY <2>1, <2>3
  <2>5. Kept'
    <3>1. SUFFICES ASSUME NEW v \in servers PROVE \E m \in Rows' : mach'[m].vm = v
      BY <1>2 DEF Kept
    <3>2. PICK m \in Rows : mach[m].vm = v
      BY <1>1, StageLater DEF Calm, Kept
    <3>3. m \in Machines /\ Live(m)
      BY DEF Rows
    <3>4. m \notin ms
      BY <2>1, <3>3 DEF Live, Unused
    <3>5. m \in Rows' /\ mach'[m].vm = v
      BY <2>4, <3>2, <3>3, <3>4 DEF Rows, Live
    <3> QED
      BY <3>5
  <2>6. CASE Status(j, "create_machine_fail", Ends(j, FALSE))
    <3>1. Set(j, Ends(j, FALSE)) /\ Empty'
      BY <2>6 DEF Status, Empty
    <3> QED
      BY <1>1, <2>5, <3>1, EndsKeeps
  <2>7. CASE Set(j, [Goes(j, p) EXCEPT !.on = ms]) /\ cluster' = cluster
    <3>1. Empty'
      BY <1>2, <2>7 DEF Empty
    <3>2. p \in Pairs
      BY DEF Pairs
    <3> HIDE DEF p
    <3>3. job' = [job EXCEPT ![j] = job'[j]] /\ job'[j] = [Goes(j, p) EXCEPT !.on = ms]
      BY <2>7, SetOne
    <3>4. job'[j].stack = p \o Tail(job[j].stack) /\ job'[j].kid = job[j].kid /\ job'[j].on = ms
      <4> DEFINE g == Goes(j, p)
      <4>1. g \in JobT /\ g.stack = p \o Tail(job[j].stack) /\ g.kid = job[j].kid
        BY <1>1, <3>2, ResultGood, JobFields, GoesFields
      <4>2. job'[j] = [g EXCEPT !.on = ms]
        BY <3>3
      <4> HIDE DEF g
      <4> QED
        BY <4>1, <4>2 DEF JobT
    <3>5. JobOK(j)'
      <4>1. "BatchCreate.OnInit" \in Stages \ (GoneStages \cup {"BatchDelete.OnDeleteMachines"})
        BY DEF Stages, BatchStages, GoneStages
      <4>2. "Add.OnMachinesCreated" \in WaitStages \ GoneStages
        BY DEF WaitStages, GoneStages
      <4>3. JobOK(j)
        BY DEF Calm
      <4> QED
        BY <1>1, <2>4, <3>4, <4>1, <4>2, <4>3, GoesOK DEF p
    <3> QED
      BY <1>1, <2>5, <3>1, <3>3, <3>5, OneStep
  <2> QED
    BY <1>4, <2>6, <2>7 DEF Inserts
<1> QED
  BY <1>3, <1>4, AddInitCases

------------------------------------------------------------------------------
(* Tasks of one machine, without an excuse *)

\* What a step of the task of machine m leaves alone.
KidFrame(j, m) ==
  /\ job' = [job EXCEPT ![j] = job'[j]]
  /\ job'[j].stack = job[j].stack /\ job'[j].on = job[j].on
  /\ \A o \in Machines \ {m} : job'[j].kid[o] = job[j].kid[o]

LEMMA KidGoesFields ==
  ASSUME Types, NEW j \in Jobs, NEW m \in Machines, NEW at, KidGoes(j, m, at)
  PROVE  KidFrame(j, m) /\ job'[j].kid[m].at = at
<1>1. job' = [job EXCEPT ![j] = job'[j]] /\ job'[j] = [job[j] EXCEPT !.kid[m].at = at]
  BY SetOne DEF KidGoes
<1>2. job[j] \in JobT /\ job[j].kid \in [Machines -> KidT]
  BY KidJob
<1> DEFINE k == [job[j].kid[m] EXCEPT !.at = at]
           kk == [job[j].kid EXCEPT ![m] = k]
<1>3. job'[j] = [job[j] EXCEPT !.kid = kk]
  BY <1>1
<1>4. k.at = at
  BY <1>2 DEF KidT
<1> HIDE DEF k
<1>5. kk[m] = k /\ \A o \in Machines \ {m} : kk[o] = job[j].kid[o]
  BY <1>2
<1> HIDE DEF kk
<1>6. job'[j].stack = job[j].stack /\ job'[j].on = job[j].on /\ job'[j].kid = kk
  BY <1>2, <1>3 DEF JobT
<1> QED
  BY <1>1, <1>4, <1>5, <1>6 DEF KidFrame

\* The task of m goes on with a server.
KidServer(j, m, at, vm) == Set(j, [job[j] EXCEPT !.kid[m].at = at, !.kid[m].vm = vm])

LEMMA KidServerFields ==
  ASSUME Types, NEW j \in Jobs, NEW m \in Machines, NEW at, NEW vm, KidServer(j, m, at, vm)
  PROVE  KidFrame(j, m) /\ job'[j].kid[m].at = at /\ job'[j].kid[m].vm = vm
<1>1. /\ job' = [job EXCEPT ![j] = job'[j]]
      /\ job'[j] = [job[j] EXCEPT !.kid[m].at = at, !.kid[m].vm = vm]
  BY SetOne DEF KidServer
<1>2. job[j] \in JobT /\ job[j].kid \in [Machines -> KidT]
  BY KidJob
<1> DEFINE k == [job[j].kid[m] EXCEPT !.at = at, !.vm = vm]
           kk == [job[j].kid EXCEPT ![m] = k]
<1>3. job'[j] = [job[j] EXCEPT !.kid = kk]
  BY <1>1, <1>2 DEF JobT, KidT
<1>4. k.at = at /\ k.vm = vm
  BY <1>2 DEF KidT
<1> HIDE DEF k
<1>5. kk[m] = k /\ \A o \in Machines \ {m} : kk[o] = job[j].kid[o]
  BY <1>2
<1> HIDE DEF kk
<1>6. job'[j].stack = job[j].stack /\ job'[j].on = job[j].on /\ job'[j].kid = kk
  BY <1>2, <1>3 DEF JobT
<1> QED
  BY <1>1, <1>4, <1>5, <1>6 DEF KidFrame

LEMMA KidEndsFields ==
  ASSUME Types, NEW j \in Jobs, NEW m \in Machines, NEW ok \in BOOLEAN, KidEnds(j, m, ok)
  PROVE  /\ KidFrame(j, m) /\ job'[j].kid[m] = Idle
         /\ job'[j].bad = (job[j].bad \/ ~ok)
         /\ Kids(j) = {m} => job'[j].ret = ok
         /\ excused' = (excused \/ (Kids(j) = {m} /\ ok /\ job[j].bad
                                      /\ job[j].kid[m].task = "Terminate"))
<1> DEFINE kk == [job[j].kid EXCEPT ![m] = Idle]
           r == IF Kids(j) = {m} THEN ok ELSE job[j].ret
           b == job[j].bad \/ ~ok
<1>1. /\ job' = [job EXCEPT ![j] = job'[j]]
      /\ job'[j] = [job[j] EXCEPT !.kid = kk, !.ret = r, !.bad = b]
  BY SetOne DEF KidEnds
<1>2. job[j] \in JobT /\ job[j].kid \in [Machines -> KidT]
  BY KidJob
<1>3. kk[m] = Idle /\ \A o \in Machines \ {m} : kk[o] = job[j].kid[o]
  BY <1>2
<1>4. Kids(j) = {m} => r = ok
  OBVIOUS
<1>5. excused' = (excused \/ (Kids(j) = {m} /\ ok /\ job[j].bad /\ job[j].kid[m].task = "Terminate"))
  BY Zenon DEF KidEnds
<1> HIDE DEF kk, r, b
<1>6. /\ job'[j].stack = job[j].stack /\ job'[j].on = job[j].on /\ job'[j].kid = kk
      /\ job'[j].ret = r /\ job'[j].bad = b
  BY <1>1, <1>2 DEF JobT
<1> QED
  BY <1>1, <1>3, <1>4, <1>5, <1>6 DEF KidFrame, b

\* The tasks of other machines record their servers later.
LEMMA KidLater ==
  ASSUME Types, NEW j \in Jobs, NEW m \in Machines, KidFrame(j, m),
         job[j].kid[m].at # "Prepare.Record"
  PROVE  Later
<1> SUFFICES ASSUME NEW s \in servers, Recording(s) PROVE Recording(s)'
  BY DEF Later
<1>1. PICK i \in Jobs, o \in Machines : job[i].kid[o].at = "Prepare.Record" /\ job[i].kid[o].vm = s
  BY DEF Recording
<1>2. job'[i].kid[o] = job[i].kid[o]
  <2>1. CASE i = j
    BY <1>1, <2>1 DEF KidFrame
  <2>2. CASE i # j
    <3>1. job'[i] = job[i]
      BY <2>2 DEF KidFrame, Types
    <3> QED
      BY <3>1
  <2> QED
    BY <2>1, <2>2
<1> QED
  BY <1>1, <1>2 DEF Recording

\* A step of a machine's task that keeps the rows and, in a batch that
\* deletes, what was said of it.
LEMMA KidKeeps ==
  ASSUME Types, Types', Calm, NEW j \in Jobs, NEW m \in Machines, job[j].kid[m].at # "none",
         KidFrame(j, m), Rows' = Rows, cluster' = cluster, Kept',
         \A o \in Machines \ {m} : mach'[o].vm = mach[o].vm,
         job'[j].kid[m].at \in Awaits => mach'[m].vm = 0 /\ m \in Rows,
         Ending(j)'
  PROVE  Calm'
<1>1. job[j] # NoJob /\ m \in Kids(j)
  BY KidJob DEF NoJob, Kids, Idle
<1>2. Fresh(j) /\ Making(j) /\ Parent(j) /\ Waits(j) /\ Going(j)
  BY <1>1 DEF Calm, JobOK
<1>3. Head(job[j].stack) \in ParentStages
  BY <1>1, <1>2 DEF Parent
<1>4. Fresh(j)'
  BY <1>2 DEF KidFrame, Fresh, Awaits
<1>5. Making(j)' /\ Parent(j)' /\ Waits(j)'
  BY <1>2, <1>3 DEF KidFrame, Making, Parent, Waits, ParentStages
<1>6. Going(j)'
  <2>1. CASE Outside(j)
    BY <2>1 DEF KidFrame, Going, Outside
  <2>2. CASE ~Outside(j)
    <3>1. Head(job[j].stack) \in GoneHeads
      BY <1>1, <1>2, <2>2, HeadOutside
    <3>2. Head(job[j].stack) = "BatchDelete.OnDeleteMachines"
      BY <1>3, <3>1 DEF GoneHeads, ParentStages
    <3>3. /\ job[j].stack = <<"BatchDelete.OnDeleteMachines", "Delete.OnDeleteMachines",
                              "Gone.OnMachinesDeleted">>
          /\ Deleting /\ Rows \subseteq job[j].on
      BY <1>1, <1>2, <2>2, <3>2, GoneCases
    <3> QED
      BY <3>3 DEF KidFrame, Going, Deleting
  <2> QED
    BY <2>1, <2>2
<1>7. JobOK(j)'
  BY <1>4, <1>5, <1>6 DEF JobOK
<1>8. Empty'
  BY DEF Calm, Empty
<1> QED
  BY <1>1, <1>7, <1>8, OneStep DEF KidFrame

\* The tasks that create and prepare do not run in a batch that deletes.
LEMMA NotEnding ==
  ASSUME Types, Calm, NEW j \in Jobs, NEW m \in Machines,
         job[j].kid[m].at \notin {"none", "Terminate.OnInit"}, KidFrame(j, m)
  PROVE  Ending(j)'
<1>1. job[j] # NoJob
  BY KidJob DEF NoJob, Idle
<1>2. Ending(j)
  BY <1>1 DEF Calm, JobOK
<1>3. Head(job[j].stack) # "BatchDelete.OnDeleteMachines"
  BY <1>2 DEF Ending, Idle, Starts
<1> QED
  BY <1>3 DEF Ending, KidFrame

LEMMA CreateInitCalm ==
  ASSUME Types, Types', Calm, NEW j \in Jobs, NEW m \in Machines, CreateInit(j, m) PROVE Calm'
<1>1. /\ job[j].kid[m].at = "Create.OnInit" /\ servers' \subseteq servers /\ cluster' = cluster
  BY DEF CreateInit, KidAt
<1>2. mach[m].vm = 0
  <2>1. job[j] # NoJob
    BY <1>1, KidJob DEF NoJob, Idle
  <2> QED
    BY <1>1, <2>1 DEF Calm, JobOK, Fresh, Awaits
<1>3. {"prepare", "create_fail"} \subseteq MachineStatus \ {"none", "gone"}
  BY DEF MachineStatus
<1>4. mach' = Marked({m}, "prepare") \/ mach' = Marked({m}, "create_fail")
  BY DEF CreateInit
<1>5. KidFrame(j, m) /\ (job'[j].kid[m].at \in Awaits => m \in Rows)
  <2>1. CASE Live(m) /\ KidGoes(j, m, "Prepare.OnInit")
    BY <2>1, KidGoesFields DEF Rows
  <2>2. CASE KidEnds(j, m, FALSE)
    <3>1. KidFrame(j, m) /\ job'[j].kid[m] = Idle
      BY <2>2, KidEndsFields
    <3> QED
      BY <3>1 DEF Idle, Awaits
  <2> QED
    BY <2>1, <2>2 DEF CreateInit
<1>6. Kept' /\ Rows' = Rows /\ \A o \in Machines : mach'[o].vm = mach[o].vm
  BY <1>1, <1>3, <1>4, <1>5, KidLater, MarkedKept
<1>7. Ending(j)'
  BY <1>1, <1>5, NotEnding
<1> QED
  BY <1>1, <1>2, <1>5, <1>6, <1>7, KidKeeps

LEMMA PrepareServerCalm ==
  ASSUME Types, Types', Calm, NEW j \in Jobs, NEW m \in Machines, PrepareServer(j, m) PROVE Calm'
<1>1. /\ job[j].kid[m].at = "Prepare.OnInit" /\ cluster' = cluster /\ mach' = mach
      /\ m \in Rows /\ Rows' = Rows
  BY DEF PrepareServer, KidAt, Rows, Live
<1>2. mach[m].vm = 0
  <2>1. job[j] # NoJob
    BY <1>1, KidJob DEF NoJob, Idle
  <2> QED
    BY <1>1, <2>1 DEF Calm, JobOK, Fresh, Awaits
<1>s. PICK s : s = made + 1
  OBVIOUS
<1>3. CASE /\ servers' = servers \cup {s}
           /\ KidServer(j, m, "Prepare.Record", s)
  <2>1. KidFrame(j, m) /\ job'[j].kid[m].at = "Prepare.Record" /\ job'[j].kid[m].vm = s
    BY <1>3, KidServerFields
  <2>2. Recording(s)'
    BY <2>1 DEF Recording
  <2>3. Later
    BY <1>1, <2>1, KidLater
  <2>4. Kept'
    <3>1. SUFFICES ASSUME NEW v \in servers \cup {s}
                   PROVE  Recording(v)' \/ \E o \in Rows' : mach'[o].vm = v
      BY <1>3 DEF Kept
    <3>2. CASE v = s
      BY <2>2, <3>2
    <3>3. CASE v \in servers
      BY <1>1, <2>3, <3>3 DEF Calm, Kept, Later
    <3> QED
      BY <3>1, <3>2, <3>3
  <2>5. Ending(j)'
    BY <1>1, <2>1, NotEnding
  <2> QED
    BY <1>1, <1>2, <2>1, <2>4, <2>5, KidKeeps
<1>4. CASE KidGoes(j, m, "Prepare.Failed") /\ servers' = servers
  <2>1. KidFrame(j, m) /\ job'[j].kid[m].at = "Prepare.Failed"
    BY <1>4, KidGoesFields
  <2>2. Kept'
    BY <1>1, <1>4, <2>1, KidLater, SameRows
  <2>3. Ending(j)'
    BY <1>1, <2>1, NotEnding
  <2> QED
    BY <1>1, <2>1, <2>2, <2>3, KidKeeps DEF Awaits
<1> QED
  BY <1>s, <1>3, <1>4 DEF PrepareServer, KidServer

\* The row is there, and had no server: the new one is in it now.
LEMMA PrepareRecordCalm ==
  ASSUME Types, Types', Calm, ~excused', NEW j \in Jobs, NEW m \in Machines, PrepareRecord(j, m)
  PROVE  Calm'
<1> DEFINE vm == job[j].kid[m].vm
<1>1. /\ job[j].kid[m].at = "Prepare.Record" /\ cluster' = cluster /\ servers' = servers
      /\ KidGoes(j, m, "Prepare.Run")
  BY DEF PrepareRecord, KidAt
<1>2. mach[m].vm = 0 /\ m \in Rows
  <2>1. job[j] # NoJob
    BY <1>1, KidJob DEF NoJob, Idle
  <2> QED
    BY <1>1, <2>1 DEF Calm, JobOK, Fresh, Awaits
<1>3. mach' = [mach EXCEPT ![m].vm = vm]
  BY <1>2 DEF PrepareRecord, Rows
<1>4. KidFrame(j, m) /\ job'[j].kid[m].at = "Prepare.Run"
  BY <1>1, KidGoesFields
<1>5. ASSUME NEW o \in Machines
      PROVE  mach'[o].st = mach[o].st /\ mach'[o].vm = IF o = m THEN vm ELSE mach[o].vm
  <2>1. mach[o] \in Mach
    BY MachType
  <2>2. mach'[o] = IF o = m THEN [mach[m] EXCEPT !.vm = vm] ELSE mach[o]
    BY <1>3, MachType
  <2> HIDE DEF vm
  <2> QED
    BY <2>1, <2>2 DEF Mach
<1>6. Rows' = Rows
  BY <1>5 DEF Rows, Live
<1>7. Kept'
  <2>1. SUFFICES ASSUME NEW v \in servers PROVE Recording(v)' \/ \E o \in Rows' : mach'[o].vm = v
    BY <1>1 DEF Kept
  <2>2. CASE Recording(v)
    <3>1. PICK i \in Jobs, o \in Machines : job[i].kid[o].at = "Prepare.Record" /\ job[i].kid[o].vm = v
      BY <2>2 DEF Recording
    <3>2. CASE i = j /\ o = m
      <4>1. m \in Rows' /\ m \in Machines /\ mach'[m].vm = v
        BY <1>2, <1>5, <1>6, <3>1, <3>2
      <4> QED
        BY <4>1
    <3>3. CASE ~(i = j /\ o = m)
      <4>1. job'[i].kid[o] = job[i].kid[o]
        <5>1. CASE i = j
          BY <1>4, <3>3, <5>1 DEF KidFrame
        <5>2. CASE i # j
          <6>1. job'[i] = job[i]
            BY <1>4, <5>2 DEF KidFrame, Types
          <6> QED
            BY <6>1
        <5> QED
          BY <5>1, <5>2
      <4> QED
        BY <3>1, <4>1 DEF Recording
    <3> QED
      BY <3>2, <3>3
  <2>3. CASE ~Recording(v)
    <3>1. PICK o \in Rows : mach[o].vm = v
      BY <2>3 DEF Calm, Kept
    <3>2. v # 0
      BY DEF Types, TypeOK
    <3>3. o \in Machines /\ o # m
      BY <1>2, <3>1, <3>2 DEF Rows
    <3> QED
      BY <1>5, <1>6, <3>1, <3>3
  <2> QED
    BY <2>2, <2>3
<1>8. Ending(j)'
  BY <1>1, <1>4, NotEnding
<1> QED
  BY <1>1, <1>4, <1>5, <1>6, <1>7, <1>8, KidKeeps DEF Awaits

LEMMA PrepareRunCalm ==
  ASSUME Types, Types', Calm, NEW j \in Jobs, NEW m \in Machines, PrepareRun(j, m) PROVE Calm'
<1>1. job[j].kid[m].at = "Prepare.Run" /\ cluster' = cluster /\ servers' = servers
  BY DEF PrepareRun, KidAt
<1>2. KidFrame(j, m) /\ job'[j].kid[m].at \in {"Prepare.OnPrepared", "Prepare.Failed"}
  BY KidGoesFields DEF PrepareRun
<1>3. Ending(j)'
  BY <1>1, <1>2, NotEnding
<1>l. Later
  BY <1>1, <1>2, KidLater
<1>4. CASE mach' = mach
  <2>1. Kept' /\ Rows' = Rows
    BY <1>1, <1>4, <1>l, SameRows
  <2> QED
    BY <1>1, <1>2, <1>3, <1>4, <2>1, KidKeeps DEF Awaits
<1>5. CASE Live(m) /\ mach' = [mach EXCEPT ![m].ip = TRUE, ![m].st = "running"]
  <2>1. \A x \in Machines : mach[x] \in Mach
    BY MachType
  <2>2. mach' = [mach EXCEPT ![m] = [mach[m] EXCEPT !.ip = TRUE, !.st = "running"]]
    BY <1>5, <2>1, MachType
  <2>3. ASSUME NEW x \in Machines
        PROVE  /\ mach'[x].vm = mach[x].vm
               /\ mach'[x].st = IF x = m THEN "running" ELSE mach[x].st
    <3>1. mach[x] \in Mach
      BY <2>1
    <3>2. mach'[x] = IF x = m THEN [mach[m] EXCEPT !.ip = TRUE, !.st = "running"] ELSE mach[x]
      BY <2>2, MachType
    <3> QED
      BY <3>1, <3>2 DEF Mach
  <2>4. Rows' = Rows
    <3>1. mach[m].st \notin {"none", "gone"}
      BY <1>5 DEF Live
    <3>2. \A x \in Machines : mach'[x].st = IF x = m THEN "running" ELSE mach[x].st
      BY <2>3
    <3>3. ASSUME NEW x \in Machines PROVE Live(x)' <=> Live(x)
      BY <3>1, <3>2 DEF Live
    <3> QED
      BY <3>3 DEF Rows
  <2>5. Kept'
    BY <1>1, <1>l, <2>3, <2>4 DEF Calm, Kept, Rows, Later
  <2> QED
    BY <1>1, <1>2, <1>3, <2>3, <2>4, <2>5, KidKeeps DEF Awaits
<1> QED
  BY <1>4, <1>5 DEF PrepareRun

LEMMA PrepareDoneCalm ==
  ASSUME Types, Types', Calm, NEW j \in Jobs, NEW m \in Machines, PrepareDone(j, m) PROVE Calm'
<1>1. /\ job[j].kid[m].at \in {"Prepare.OnPrepared", "Prepare.Failed", "Prepare.OnInit"}
      /\ cluster' = cluster /\ servers' = servers
  BY DEF PrepareDone, KidAt
<1>2. PICK ok \in BOOLEAN : KidEnds(j, m, ok)
  <2>1. Live(m) \in BOOLEAN
    BY DEF Live
  <2> QED
    BY <2>1 DEF PrepareDone
<1>3. KidFrame(j, m) /\ job'[j].kid[m] = Idle
  BY <1>2, KidEndsFields
<1>4. Kept' /\ Rows' = Rows /\ \A o \in Machines : mach'[o].vm = mach[o].vm
  <2>1. {"prepare_fail", "create_fail"} \subseteq MachineStatus \ {"none", "gone"}
    BY DEF MachineStatus
  <2>2. \/ mach' = mach \/ mach' = Marked({m}, "create_fail")
        \/ mach' = Marked({m}, "prepare_fail")
    BY DEF PrepareDone
  <2> QED
    BY <1>1, <1>3, <2>1, <2>2, KidLater, MarkedKept, SameRows
<1>5. Ending(j)'
  BY <1>1, <1>3, NotEnding
<1>6. job'[j].kid[m].at = "none"
  BY <1>3 DEF Idle
<1> QED
  BY <1>1, <1>3, <1>4, <1>5, <1>6, KidKeeps DEF Awaits

\* The server of the machine is gone or its task failed; when the last task
\* succeeds no other has failed, or there is an excuse.
LEMMA TerminateCalm ==
  ASSUME Types, Types', Calm, ~excused', NEW j \in Jobs, NEW m \in Machines, Terminate(j, m)
  PROVE  Calm'
<1>1. /\ job[j].kid[m].at = "Terminate.OnInit" /\ cluster' = cluster /\ servers' \subseteq servers
  BY DEF Terminate, KidAt
<1>l. Later
  <2>1. \E ok \in BOOLEAN : KidEnds(j, m, ok)
    BY DEF Terminate, Live
  <2> QED
    BY <1>1, <2>1, KidEndsFields, KidLater
<1>2. Kept' /\ Rows' = Rows /\ \A o \in Machines : mach'[o].vm = mach[o].vm
  <2>1. "terminate_fail" \in MachineStatus \ {"none", "gone"}
    BY DEF MachineStatus
  <2>2. mach' = mach \/ mach' = Marked({m}, "terminate_fail")
    BY DEF Terminate
  <2>3. CASE mach' = mach
    BY <1>1, <1>l, <2>3 DEF Calm, Kept, Rows, Live, Later
  <2> QED
    BY <1>1, <1>l, <2>1, <2>2, <2>3, MarkedKept
<1>3. PICK ok \in BOOLEAN : KidEnds(j, m, ok) /\ (ok => mach[m].vm \notin servers')
  <2>1. Live(m) \in BOOLEAN
    BY DEF Live
  <2> QED
    BY <2>1 DEF Terminate
<1>4. /\ KidFrame(j, m) /\ job'[j].kid[m] = Idle
      /\ job'[j].bad = (job[j].bad \/ ~ok) /\ (Kids(j) = {m} => job'[j].ret = ok)
      /\ excused' = (excused \/ (Kids(j) = {m} /\ ok /\ job[j].bad
                                   /\ job[j].kid[m].task = "Terminate"))
  BY <1>3, KidEndsFields
<1>5. job'[j].kid[m].at = "none" /\ job[j].kid[m] # Idle
  BY <1>1, <1>4 DEF Idle
<1>6. Ending(j)'
  <2>1. SUFFICES ASSUME Head(job[j].stack) = "BatchDelete.OnDeleteMachines" PROVE Ending(j)'
    BY <1>4 DEF Ending, KidFrame
  <2>2. job[j] # NoJob
    BY <1>1, KidJob DEF NoJob, Idle
  <2>3. Ending(j) /\ job[j].bad \in BOOLEAN
    BY <2>2, KidJob DEF Calm, JobOK
  <2>4. \A o \in Machines : job'[j].kid[o] \in {Idle, Starts("Terminate", "Terminate.OnInit")}
    BY <1>4, <2>1, <2>3 DEF Ending, KidFrame
  <2>5. job[j].on \subseteq Machines
    BY DEF Types, TypeOK
  <2>6. ASSUME NEW o \in job'[j].on, job'[j].kid[o] = Idle
        PROVE  mach'[o].vm \notin servers' \/ job'[j].bad
    <3>1. o \in job[j].on /\ o \in Machines /\ mach'[o].vm = mach[o].vm
      BY <1>2, <1>4, <2>5 DEF KidFrame
    <3>2. CASE o = m
      BY <1>3, <1>4, <3>1, <3>2
    <3>3. CASE o # m
      <4>1. job[j].kid[o] = Idle
        BY <1>4, <2>6, <3>1, <3>3 DEF KidFrame
      <4>2. mach[o].vm \notin servers \/ job[j].bad
        BY <2>1, <2>3, <3>1, <4>1 DEF Ending
      <4> QED
        BY <1>1, <1>4, <3>1, <4>2
    <3> QED
      BY <3>2, <3>3
  <2>7. Kids(j)' = {} /\ job'[j].ret => ~job'[j].bad
    <3>1. SUFFICES ASSUME Kids(j)' = {}, job'[j].ret PROVE ~job'[j].bad
      OBVIOUS
    <3>2. Kids(j) = {m}
      BY <1>4, <1>5, <3>1 DEF Kids, KidFrame
    <3>3. ok
      BY <1>4, <3>1, <3>2
    <3>4. job[j].kid[m].task = "Terminate"
      BY <1>5, <2>1, <2>3 DEF Ending, Starts
    <3>5. ~job[j].bad
      BY <1>4, <3>2, <3>3, <3>4
    <3> QED
      BY <1>4, <3>3, <3>5
  <2> QED
    BY <2>4, <2>6, <2>7 DEF Ending
<1> QED
  BY <1>1, <1>2, <1>4, <1>5, <1>6, KidKeeps DEF Awaits

------------------------------------------------------------------------------
(* Requests, without an excuse *)

\* No job runs when a request comes without an excuse: it starts the only one.
LEMMA RequestCalm ==
  ASSUME Types, Types', Calm, ~excused', NEW new, NEW cause \in BOOLEAN, Request(new, cause),
         Kept', Rows' \subseteq Rows, cluster' # "gone",
         \A j \in Jobs : job'[j] = new => JobOK(j)'
  PROVE  Calm' /\ ~cause
<1>1. ~cause /\ ~Busy
  BY DEF Request
<1>2. \A j \in Jobs : job[j] = NoJob
  BY <1>1 DEF Busy
<1>3. PICK j \in Jobs : job' = [job EXCEPT ![j] = new]
  BY DEF Request, NewJobs, Free
<1>4. \A i \in Jobs : job'[i] = IF i = j THEN new ELSE NoJob
  BY <1>2, <1>3 DEF Types
<1>5. OneJob'
  BY <1>4 DEF OneJob
<1>6. ASSUME NEW i \in Jobs PROVE JobOK(i)'
  <2>1. CASE i = j
    BY <1>4, <2>1
  <2>2. CASE i # j
    BY <1>4, <2>2 DEF JobOK
  <2> QED
    BY <2>1, <2>2
<1>7. Empty'
  BY DEF Empty
<1> QED
  BY <1>1, <1>5, <1>6, <1>7 DEF Calm

\* A job that was just started is at its first stage.
LEMMA FirstOK ==
  ASSUME NEW j \in Jobs, NEW stage \in {"Add.OnInit", "Deploy.OnInit", "Sync.OnInit",
                                        "Delete.OnInit", "Gone.OnInit"},
         job'[j].stack = <<stage>>, \A m \in Machines : job'[j].kid[m] = Idle,
         stage = "Gone.OnInit" => cluster' = "deleting"
  PROVE  JobOK(j)'
<1>1. Going(j)'
  <2>1. CASE stage = "Gone.OnInit"
    BY <2>1 DEF Going, Deleting
  <2>2. CASE stage # "Gone.OnInit"
    <3>1. Len(<<stage>>) = 1 /\ <<stage>>[1] = stage
      OBVIOUS
    <3>2. \A i \in 1..Len(<<stage>>) : <<stage>>[i] \notin GoneStages
      BY <2>2, <3>1 DEF GoneStages
    <3> QED
      BY <3>2 DEF Going, Outside
  <2> QED
    BY <2>1, <2>2
<1>2. \E a \in WaitStages : TRUE
  BY DEF WaitStages
<1> QED
  BY <1>1, <1>2, QuietOK

LEMMA SameRequest ==
  ASSUME Calm, Later, mach' = mach, servers' = servers PROVE Kept' /\ Rows' \subseteq Rows
  BY SameRows

LEMMA RequestsCalm == ASSUME Types, Types', Calm, ~excused', Requests PROVE Calm'
<1>b. servers' = servers /\ cluster # "gone" /\ FALSE \in BOOLEAN /\ ~Busy
  <2>1. ASSUME NEW new, NEW cause, Request(new, cause)
        PROVE  servers' = servers /\ cluster # "gone" /\ ~Busy
    BY <2>1 DEF Request, Lives
  <2> QED
    BY <2>1 DEF Requests, AddMachines, Deploy, Syncstatus, DeleteMachines, DeleteCluster,
                DeleteMachine, RetryMachine
<1>s. /\ servers' = servers /\ cluster # "gone" /\ FALSE \in BOOLEAN
      /\ Later /\ \A s \in servers : ~Recording(s)
  BY <1>b, QuietLater
<1>1. ASSUME NEW n \in 1..Cardinality(Machines), NEW role \in Roles, AddMachines(n, role) PROVE Calm'
  <2> DEFINE x == [NoJob EXCEPT !.stack = <<"Add.OnInit">>, !.act = "scale", !.n = n,
                                !.ctl = IF role = "controlplane" THEN n ELSE 0]
  <2>1. x.stack = <<"Add.OnInit">> /\ \A m \in Machines : x.kid[m] = Idle
    BY DEF NoJob
  <2>2. Request(x, FALSE) /\ cluster' = cluster /\ mach' = mach
    BY <1>1 DEF AddMachines
  <2> HIDE DEF x
  <2>3. \A j \in Jobs : job'[j] = x => JobOK(j)'
    BY <2>1, FirstOK
  <2> QED
    BY <1>s, <2>2, <2>3, SameRequest, RequestCalm
<1>2. ASSUME NEW act \in {"run", "upgrade"}, NEW force \in BOOLEAN, Deploy(act, force) PROVE Calm'
  <2> DEFINE x == [NoJob EXCEPT !.stack = <<"Deploy.OnInit">>, !.act = act, !.on = Running]
  <2>1. x.stack = <<"Deploy.OnInit">> /\ \A m \in Machines : x.kid[m] = Idle
    BY DEF NoJob
  <2>2. Request(x, FALSE) /\ cluster' # "gone" /\ mach' = mach
    BY <1>2 DEF Deploy
  <2> HIDE DEF x
  <2>3. \A j \in Jobs : job'[j] = x => JobOK(j)'
    BY <2>1, FirstOK
  <2> QED
    BY <1>s, <2>2, <2>3, SameRequest, RequestCalm
<1>3. ASSUME Syncstatus PROVE Calm'
  <2> DEFINE x == [NoJob EXCEPT !.stack = <<"Sync.OnInit">>]
  <2>1. x.stack = <<"Sync.OnInit">> /\ \A m \in Machines : x.kid[m] = Idle
    BY DEF NoJob
  <2>2. Request(x, FALSE) /\ cluster' = cluster /\ mach' = mach
    BY <1>3 DEF Syncstatus
  <2> HIDE DEF x
  <2>3. \A j \in Jobs : job'[j] = x => JobOK(j)'
    BY <2>1, FirstOK
  <2> QED
    BY <1>s, <2>2, <2>3, SameRequest, RequestCalm
<1>4. ASSUME NEW ms \in SUBSET Machines, DeleteMachines(ms) PROVE Calm'
  <2> DEFINE x == [NoJob EXCEPT !.stack = <<"Delete.OnInit">>, !.on = ms]
  <2>1. x.stack = <<"Delete.OnInit">> /\ \A m \in Machines : x.kid[m] = Idle
    BY DEF NoJob
  <2>2. Request(x, FALSE) /\ cluster' = cluster /\ mach' = Marked(ms, "deleting")
    BY <1>4 DEF DeleteMachines
  <2> HIDE DEF x
  <2>3. \A j \in Jobs : job'[j] = x => JobOK(j)'
    BY <2>1, FirstOK
  <2>4. Kept' /\ Rows' \subseteq Rows
    <3>1. "deleting" \in MachineStatus \ {"none", "gone"}
      BY DEF MachineStatus
    <3> QED
      BY <1>s, <2>2, <3>1, MarkedKept
  <2> QED
    BY <1>s, <2>2, <2>3, <2>4, RequestCalm
<1>5. ASSUME DeleteCluster PROVE Calm'
  <2> DEFINE x == [NoJob EXCEPT !.stack = <<"Gone.OnInit">>]
  <2>1. x.stack = <<"Gone.OnInit">> /\ \A m \in Machines : x.kid[m] = Idle
    BY DEF NoJob
  <2>2. Request(x, FALSE) /\ cluster' = "deleting" /\ mach' = mach
    BY <1>5 DEF DeleteCluster
  <2> HIDE DEF x
  <2>3. \A j \in Jobs : job'[j] = x => JobOK(j)'
    BY <2>1, <2>2, FirstOK
  <2>4. cluster' # "gone"
    BY <2>2
  <2> QED
    BY <1>s, <2>2, <2>3, <2>4, SameRequest, RequestCalm
<1>6. ASSUME NEW m \in Machines, DeleteMachine(m) PROVE Calm'
  <2>1. /\ mach' = Marked({m}, "gone") /\ Request(NoJob, mach[m].vm # 0) /\ cluster' = cluster
    BY <1>6 DEF DeleteMachine
  <2>2. mach[m].vm = 0
    BY <2>1 DEF Request
  <2>3. "gone" \in MachineStatus \ {"none"}
    BY DEF MachineStatus
  <2>4. \A o \in Machines : mach'[o].vm = mach[o].vm /\ (Live(o)' <=> (Live(o) /\ o # m))
    BY <2>1, <2>3, MarkedRows
  <2>5. Rows' = Rows \ {m}
    BY <2>4 DEF Rows
  <2>6. Kept'
    <3>1. SUFFICES ASSUME NEW v \in servers PROVE \E o \in Rows' : mach'[o].vm = v
      BY <1>s DEF Kept
    <3>2. PICK o \in Rows : mach[o].vm = v
      BY <1>s DEF Calm, Kept
    <3>3. v # 0
      BY DEF Types, TypeOK
    <3>4. o \in Machines /\ o # m
      BY <2>2, <3>2, <3>3 DEF Rows
    <3> QED
      BY <2>4, <2>5, <3>2, <3>4
  <2>7. \A j \in Jobs : job'[j] = NoJob => JobOK(j)'
    BY DEF JobOK
  <2>8. Request(NoJob, FALSE)
    BY <2>1, <2>2
  <2>9. Rows' \subseteq Rows
    BY <2>5
  <2> QED
    BY <1>s, <2>1, <2>6, <2>7, <2>8, <2>9, RequestCalm
<1>7. ASSUME NEW m \in Machines, RetryMachine(m) PROVE Calm'
  <2> DEFINE C == Starts("Create", "Create.OnInit")
             P == Starts("Prepare", "Prepare.OnInit")
             T == Starts("Terminate", "Terminate.OnInit")
  <2>1. /\ C \in KidT /\ P \in KidT /\ T \in KidT
        /\ C.at = "Create.OnInit" /\ P.at = "Prepare.OnInit" /\ T.at = "Terminate.OnInit"
    BY DEF Starts, KidT, Points
  <2>2. {"creating", "prepare", "terminating"} \subseteq MachineStatus \ {"none", "gone"}
    BY DEF MachineStatus
  <2>3. PICK kid \in KidT, st \in MachineStatus \ {"none", "gone"}, cause \in BOOLEAN :
          /\ mach' = Marked({m}, st) /\ Request(AloneJob(m, kid), cause) /\ cluster' = cluster
          /\ kid.at \in {"Create.OnInit", "Prepare.OnInit"} => cause = (mach[m].vm # 0)
          /\ kid.at # "Prepare.Record"
    <3>1. (mach[m].vm # 0) \in BOOLEAN
      OBVIOUS
    <3> HIDE DEF C, P, T
    <3>2. \/ mach' = Marked({m}, "creating") /\ Request(AloneJob(m, C), mach[m].vm # 0)
          \/ mach' = Marked({m}, "prepare") /\ Request(AloneJob(m, P), mach[m].vm # 0)
          \/ mach' = Marked({m}, "terminating") /\ Request(AloneJob(m, T), FALSE)
      BY <1>7 DEF RetryMachine, C, P, T
    <3>3. cluster' = cluster
      BY <1>7 DEF RetryMachine
    <3> QED
      BY <2>1, <2>2, <3>1, <3>2, <3>3
  <2>4. ~cause
    BY <2>3 DEF Request
  <2>5. Kept' /\ Rows' \subseteq Rows /\ \A o \in Machines : mach'[o].vm = mach[o].vm
    BY <1>s, <2>3, MarkedKept
  <2>6. AloneJob(m, kid).stack = <<"Alone">>
        /\ \A o \in Machines : AloneJob(m, kid).kid[o] = IF o = m THEN kid ELSE Idle
    <3> DEFINE kk == [NoJob.kid EXCEPT ![m] = kid]
    <3>1. NoJob \in JobT /\ NoJob.kid \in [Machines -> KidT]
      BY NoJobGood, JobFields
    <3>2. \A o \in Machines : NoJob.kid[o] = Idle
      BY DEF NoJob
    <3>3. \A o \in Machines : kk[o] = IF o = m THEN kid ELSE Idle
      BY <3>1, <3>2
    <3>4. AloneJob(m, kid) = [NoJob EXCEPT !.stack = <<"Alone">>, !.kid = kk]
      BY <3>1 DEF AloneJob, JobT
    <3> HIDE DEF kk
    <3>5. AloneJob(m, kid).stack = <<"Alone">> /\ AloneJob(m, kid).kid = kk
      BY <3>1, <3>4 DEF JobT
    <3> QED
      BY <3>3, <3>5
  <2> DEFINE x == AloneJob(m, kid)
  <2>7. Request(x, cause)
    BY <2>3
  <2> HIDE DEF x
  <2>8. ASSUME NEW j \in Jobs, job'[j] = x PROVE JobOK(j)'
    <3>1. /\ job'[j].stack = <<"Alone">>
          /\ \A o \in Machines : job'[j].kid[o] = IF o = m THEN kid ELSE Idle
      BY <2>6, <2>8 DEF x
    <3>2. /\ Head(<<"Alone">>) = "Alone" /\ Len(<<"Alone">>) = 1 /\ <<"Alone">>[1] = "Alone"
      OBVIOUS
    <3>3. Fresh(j)'
      <4>1. /\ kid.at \in {"Create.OnInit", "Prepare.OnInit"} => mach[m].vm = 0
            /\ kid.at # "Prepare.Record"
        BY <2>3, <2>4
      <4>2. Idle.at = "none"
        BY DEF Idle
      <4> QED
        BY <2>5, <3>1, <4>1, <4>2 DEF Fresh, Awaits
    <3>4. Making(j)' /\ Parent(j)' /\ Ending(j)'
      BY <3>1, <3>2 DEF Making, Parent, Ending, ParentStages
    <3>5. Waits(j)' /\ Outside(j)'
      BY <3>1, <3>2 DEF Waits, Outside, GoneStages
    <3> QED
      BY <3>3, <3>4, <3>5 DEF JobOK, Going
  <2>9. cluster' # "gone"
    BY <1>s, <2>3
  <2> QED
    BY <2>5, <2>7, <2>8, <2>9, RequestCalm
<1> QED
  BY <1>1, <1>2, <1>3, <1>4, <1>5, <1>6, <1>7 DEF Requests

------------------------------------------------------------------------------
(* Without an excuse, nothing is lost *)

LEMMA InitNInv == Init => NInv
<1> SUFFICES ASSUME Init PROVE Calm
  BY DEF NInv
<1> DEFINE i0 == CHOOSE i \in Jobs : \A k \in Jobs : i <= k
<1>1. PICK n \in 1..Cardinality(Machines), ctl \in Counts :
        job = [j \in Jobs |->
                IF j = i0
                THEN [NoJob EXCEPT !.stack = <<"New.OnInit">>, !.act = "create", !.n = n,
                                   !.ctl = ctl]
                ELSE NoJob]
  BY DEF Init
<1> HIDE DEF i0
<1>2. OneJob
  BY <1>1 DEF OneJob
<1>3. Kept /\ Empty
  BY DEF Init, Kept, Empty
<1>4. ASSUME NEW j \in Jobs, job[j] # NoJob PROVE JobOK(j)
  <2>1. job[j].stack = <<"New.OnInit">> /\ \A m \in Machines : job[j].kid[m] = Idle
    BY <1>1, <1>4 DEF NoJob
  <2>2. /\ Head(<<"New.OnInit">>) = "New.OnInit" /\ Len(<<"New.OnInit">>) = 1
        /\ <<"New.OnInit">>[1] = "New.OnInit"
    OBVIOUS
  <2>3. Fresh(j) /\ Parent(j)
    BY <2>1 DEF Fresh, Parent, Kids, Idle, Awaits
  <2>4. Making(j) /\ Ending(j)
    BY <2>1, <2>2 DEF Making, Ending
  <2>5. Waits(j) /\ Outside(j)
    BY <2>1, <2>2 DEF Waits, Outside, GoneStages
  <2> QED
    BY <2>3, <2>4, <2>5 DEF JobOK, Going
<1> QED
  BY <1>2, <1>3, <1>4 DEF Calm, JobOK

\* An excuse is for good.
LEMMA ExcusedStays == ASSUME Next, ~excused' PROVE ~excused
<1>1. ASSUME NEW j \in Jobs, NEW m \in Machines, KidStep(j, m) PROVE ~excused
  <2>1. ASSUME NEW ok, KidEnds(j, m, ok) PROVE ~excused
    BY <2>1 DEF KidEnds
  <2> QED
    BY <1>1, <2>1 DEF KidStep, CreateInit, PrepareServer, PrepareRecord, PrepareRun, PrepareDone,
                      Terminate
<1>2. ASSUME Requests PROVE ~excused
  <2>1. ASSUME NEW new, NEW cause, Request(new, cause) PROVE ~excused
    BY <2>1 DEF Request
  <2> QED
    BY <1>2, <2>1 DEF Requests, AddMachines, Deploy, Syncstatus, DeleteMachines, DeleteCluster,
                      DeleteMachine, RetryMachine
<1>3. ASSUME NEW j \in Jobs, JobStep(j), \A m \in Machines : ~KidStep(j, m) PROVE ~excused
  BY <1>3 DEF JobStep, Kids, Orphan, NewInit, NewStep, AddInit, AddStep, DeployInit, DeployRun,
     DeployStep, SyncTask, SyncInit, SyncRun, SyncDone, DeleteInit, DeleteStep, GoneInit, GoneDone,
     BatchInit, BatchDone, Alone
<1> QED
  BY <1>1, <1>2, <1>3 DEF Next

LEMMA JobStepCalm == ASSUME Types, Types', Calm, ~excused', NEW j \in Jobs, JobStep(j) PROVE Calm'
<1>1. ASSUME NEW m \in Machines, KidStep(j, m) PROVE Calm'
  BY <1>1, CreateInitCalm, PrepareServerCalm, PrepareRecordCalm, PrepareRunCalm, PrepareDoneCalm,
     TerminateCalm DEF KidStep
<1>2. Kids(j) \subseteq Machines
  BY DEF Kids
<1> QED
  BY <1>1, <1>2, OrphanCalm, NewInitCalm, NewStepCalm, AddInitCalm, AddStepCalm, DeployInitCalm,
     DeployRunCalm, DeployStepCalm, SyncTaskCalm, SyncInitCalm, SyncRunCalm, SyncDoneCalm, DeleteInitCalm,
     DeleteStepCalm, GoneInitCalm, GoneDoneCalm, BatchCreateCalm, BatchDeleteCalm, BatchDoneCalm,
     AloneCalm DEF JobStep

LEMMA StepNInv == ASSUME IInv, IInv', NInv, [Next]_vars PROVE NInv'
<1>1. SUFFICES ASSUME ~excused' PROVE Calm'
  BY DEF NInv
<1>2. Types /\ Types'
  BY DEF IInv
<1>3. CASE Next
  <2>1. Calm
    BY <1>1, <1>3, ExcusedStays DEF NInv
  <2> QED
    BY <1>1, <1>2, <1>3, <2>1, JobStepCalm, RequestsCalm DEF Next
<1>4. CASE UNCHANGED vars
  <2>1. Calm
    BY <1>1, <1>4 DEF NInv, vars
  <2> QED
    BY <1>4, <2>1 DEF vars, Calm, OneJob, Kept, Empty, JobOK, Fresh, Making, Parent, Waits, Ending,
                      Going, Outside, Deleting, Rows, Live, Kids, Recording
<1> QED
  BY <1>3, <1>4

\* Unless requests overlap or one of the steps that are listed at NothingLost
\* is taken, every server of the cloud is in a row as soon as its task
\* recorded it, whatever tasks of a batch fail and in whatever order they
\* end (SetResourceId, TerminateResource, IsCurrentStageComplete), and the
\* cluster's row is deleted after all the rows of its machines (RealDelete).
THEOREM ServersKept == Spec => []NothingLost
<1>1. IInv /\ NInv /\ [Next]_vars /\ IInv' => NInv'
  BY StepNInv
<1>2. IInv /\ NInv => NothingLost
  <2> SUFFICES ASSUME IInv, Calm PROVE NothingLost
    BY DEF NInv, NothingLost
  <2>1. ASSUME Rows = {}, NEW s \in servers PROVE ~Recording(s)
    <3>1. ASSUME NEW j \in Jobs, NEW m \in Machines PROVE job[j].kid[m].at # "Prepare.Record"
      <4>1. CASE job[j] = NoJob
        BY <4>1 DEF NoJob, Idle
      <4>2. CASE job[j] # NoJob
        BY <2>1, <4>2 DEF Calm, JobOK, Fresh
      <4> QED
        BY <4>1, <4>2
    <3> QED
      BY <3>1 DEF Recording
  <2> QED
    BY <2>1 DEF Calm, Kept, Empty, NothingLost
<1> QED
  BY Inductive, InitNInv, <1>1, <1>2, PTL DEF Spec
=============================================================================
