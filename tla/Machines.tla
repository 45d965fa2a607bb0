------------------------------- MODULE Machines -------------------------------
(***************************************************************************)
(* The life of a self built cluster and of its machines (models/clusters.go *)
(* and machines.go, the cluster and machine tasks, the self build and the  *)
(* yunion VM drivers): creation, scaling, redeployment and deletion.       *)
(*                                                                         *)
(* A request starts a job, a tree of tasks.  A task that starts another    *)
(* one waits for it, so a job is a stack of task stages, the next one to   *)
(* run first, with the result of the task that ended last.  A batch task   *)
(* starts one task for each of its machines; these run in parallel, and    *)
(* the one that ends last gives the batch its result.  A stage loads its   *)
(* object, locks it and is one step; a stage whose object is gone fails.   *)
(* What LocalTaskRun runs holds no lock and keeps the copy it was given.   *)
(*                                                                         *)
(* Roles: the first machine is a controlplane.  kubespray, the API of the  *)
(* cluster and the cloud are external: they may fail.                      *)
(***************************************************************************)
EXTENDS Naturals, Sequences, FiniteSets

CONSTANTS Machines,     \* identities of machine rows
          Jobs,         \* identities of jobs
          Counts,       \* GetAllowedControlplanceCount
          MaxRequests,  \* bound on requests, and on the machines after the first
                        \* that the cluster is created with
          MaxFaults     \* bound on external failures

ASSUME BoundsAssumption == MaxRequests \in Nat /\ MaxFaults \in Nat
ASSUME NamesAssumption ==
  /\ Jobs \subseteq Nat /\ Jobs # {}
  /\ Machines \subseteq Nat /\ IsFiniteSet(Machines)
  /\ Counts \subseteq Nat \ {0}

VARIABLES cluster,   \* status of the cluster's row, "gone" once it is deleted
          mach,      \* the machine rows
          servers,   \* servers of the cloud that exist
          made,      \* number of servers made so far
          job,       \* the jobs
          excused,   \* history: a step that may lose track of a server was taken
          requests, faults

vars == <<cluster, mach, servers, made, job, excused, requests, faults>>

Roles == {"controlplane", "node"}

\* vm: the server of ResourceId or 0; ip: Address is set.
NoMachine == [st |-> "none", role |-> "node", first |-> FALSE, vm |-> 0, ip |-> FALSE]
Idle      == [task |-> "none", at |-> "none", vm |-> 0]
NoJob     == [stack |-> <<>>, ret |-> TRUE, on |-> {}, act |-> "none", ctl |-> 0,
              n |-> 0, copy |-> "none", kid |-> [m \in Machines |-> Idle], bad |-> FALSE]

Live(m) == mach[m].st \notin {"none", "gone"}
Rows    == {m \in Machines : Live(m)}
Lives   == cluster # "gone"
Free    == {j \in Jobs : job[j] = NoJob}
NewJobs == {j \in Free : \A i \in Free : j <= i}
Busy    == \E j \in Jobs : job[j] # NoJob

------------------------------------------------------------------------------
(* Jobs *)

\* Job j replaces its stage by stages.
Goes(j, stages) ==
  [job[j] EXCEPT !.stack = stages \o Tail(job[j].stack), !.ret = TRUE]

\* Mutant: the task that waits is not told.
EndsAlone(j, ok) == NoJob

\* Mutant: a task that ended keeps its machines.
EndsKeeping(j, ok) == [job[j] EXCEPT !.stack = Tail(@), !.ret = ok]

\* SetStageComplete, SetStageFailed.  What the task knew ends with it.
Ends(j, ok) ==
  IF Len(job[j].stack) = 1 THEN NoJob
  ELSE [job[j] EXCEPT !.stack = Tail(@), !.ret = ok, !.copy = "none", !.bad = FALSE]

Kids(j) == {m \in Machines : job[j].kid[m] # Idle}

At(j, stage) ==
  /\ job[j] # NoJob /\ Head(job[j].stack) = stage
  /\ Kids(j) = {}

\* Stages of the cluster's tasks: the cluster is loaded.
Stage(j, stage)  == At(j, stage) /\ Lives /\ job[j].ret
Failed(j, stage) == At(j, stage) /\ Lives /\ ~job[j].ret

ClusterStages ==
  {"New.OnInit", "New.OnMachinesCreated", "New.OnApplyAddonsComplete", "Addons.Run",
   "Add.OnInit", "Add.OnMachinesCreated", "Add.OnMachinesDeployed",
   "Deploy.OnInit", "Deploy.Run", "Deploy.OnDeployMachines", "Deploy.OnSyncStatusComplete",
   "Deploy.OnSyncComplete", "SyncTask.OnInit", "SyncTask.Run", "SyncTask.Hung",
   "Sync.OnInit", "Sync.Run", "Sync.OnSyncStatus",
   "Delete.OnInit", "Delete.OnClusterNodeRemoved", "Delete.OnDeleteMachines",
   "Delete.OnSyncStatus", "Gone.OnInit", "Gone.OnMachinesDeleted"}
LocalRuns == {"Addons.Run", "Deploy.Run", "Sync.Run", "SyncTask.Run", "SyncTask.Hung"}

Set(j, new)     == job' = [job EXCEPT ![j] = new]
Status(j, st, new) == cluster' = st /\ Set(j, new)
Fault           == faults < MaxFaults /\ faults' = faults + 1
Marked(ms, st)  == [m \in Machines |-> IF m \in ms /\ Live(m) THEN [mach[m] EXCEPT !.st = st]
                                       ELSE mach[m]]

\* A stage whose cluster is gone fails.
Orphan(j) ==
  /\ ~Lives
  /\ \E stage \in ClusterStages \ LocalRuns : At(j, stage)
  /\ Set(j, Ends(j, FALSE))
  /\ UNCHANGED <<cluster, mach, servers, made, excused, requests, faults>>

------------------------------------------------------------------------------
(* ClusterCreateTask, ClusterCreateMachinesTask *)

\* A self built cluster has machines.
NewInit(j) ==
  /\ Stage(j, "New.OnInit")
  /\ Set(j, Goes(j, <<"Add.OnInit", "New.OnMachinesCreated">>))
  /\ UNCHANGED <<cluster, mach, servers, made, excused, requests, faults>>

NewStep(j) ==
  /\ \/ /\ Stage(j, "New.OnMachinesCreated")
        /\ Set(j, Goes(j, <<"Addons.Run", "New.OnApplyAddonsComplete">>))
        /\ UNCHANGED <<cluster, faults>>
     \/ /\ At(j, "Addons.Run")
        /\ \/ Set(j, Ends(j, TRUE)) /\ UNCHANGED faults
           \/ Set(j, Ends(j, FALSE)) /\ Fault
        /\ UNCHANGED cluster
     \/ /\ Stage(j, "New.OnApplyAddonsComplete")
        /\ Set(j, Ends(j, TRUE))
        /\ UNCHANGED <<cluster, faults>>
     \/ /\ Failed(j, "New.OnMachinesCreated") \/ Failed(j, "New.OnApplyAddonsComplete")
        /\ Status(j, "create_fail", Ends(j, FALSE))
        /\ UNCHANGED faults
  /\ UNCHANGED <<mach, servers, made, excused, requests>>

\* Mutant: the first node is the first one while none runs.
FirstNodeRunning(m, ms) ==
  (\A o \in Rows : mach[o].st # "running") /\ \A o \in ms : m <= o

\* ValidateCreateData of a machine: first_node
FirstNode(m, ms) == Rows = {} /\ \A o \in ms : m <= o

Unused == {m \in Machines : mach[m].st = "none"}

\* The row of m when the rows ms are inserted, the controlplanes first.
NewRow(j, m, ms) ==
  [NoMachine EXCEPT !.st = "init", !.first = FirstNode(m, ms),
     !.role = IF Cardinality({o \in ms : o < m}) < job[j].ctl THEN "controlplane" ELSE "node"]

\* createMachineRecords: the first machine must be a controlplane.  The rows
\* that were inserted before one that fails stay.
AddInit(j) ==
  /\ Stage(j, "Add.OnInit")
  /\ \/ /\ Rows = {} /\ job[j].ctl = 0
        /\ Status(j, "create_machine_fail", Ends(j, FALSE))
        /\ UNCHANGED <<mach, faults>>
     \/ /\ Rows # {} \/ job[j].ctl > 0
        /\ \E ms \in SUBSET Unused :
             /\ \A m \in ms, o \in Unused \ ms : m < o
             /\ mach' = [m \in Machines |-> IF m \in ms THEN NewRow(j, m, ms) ELSE mach[m]]
             /\ \/ /\ Cardinality(ms) = job[j].n
                   /\ Set(j, [Goes(j, <<"BatchCreate.OnInit", "Add.OnMachinesCreated">>)
                                EXCEPT !.on = ms])
                   /\ UNCHANGED <<cluster, faults>>
                \/ /\ Cardinality(ms) < job[j].n
                   /\ Status(j, "create_machine_fail", Ends(j, FALSE))
                   /\ Fault
  /\ UNCHANGED <<servers, made, excused, requests>>

AddStep(j) ==
  /\ \/ /\ Stage(j, "Add.OnMachinesCreated")
        /\ IF job[j].on \subseteq Rows
           THEN Status(j, "deploying", Goes(j, <<"Deploy.OnInit", "Add.OnMachinesDeployed">>))
           ELSE Status(j, "create_machine_fail", Ends(j, FALSE))
     \/ /\ Stage(j, "Add.OnMachinesDeployed")
        /\ Set(j, Ends(j, TRUE)) /\ UNCHANGED cluster
     \/ /\ Failed(j, "Add.OnMachinesCreated") \/ Failed(j, "Add.OnMachinesDeployed")
        /\ Status(j, "create_machine_fail", Ends(j, FALSE))
  /\ UNCHANGED <<mach, servers, made, excused, requests, faults>>

------------------------------------------------------------------------------
(* ClusterDeployMachinesTask, ClusterSyncstatusTask *)

DeployInit(j) ==
  /\ Stage(j, "Deploy.OnInit")
  /\ IF job[j].on \subseteq Rows
     THEN Set(j, Goes(j, <<"Deploy.Run", "Deploy.OnDeployMachines">>)) /\ UNCHANGED cluster
     ELSE Status(j, "deploy_fail", Ends(j, FALSE))
  /\ UNCHANGED <<mach, servers, made, excused, requests, faults>>

\* GetDeployMachines: scaling and removing need the primary machine.
Primary(ms) == \E m \in Rows : mach[m].first /\ (mach[m].st = "running" \/ m \in ms)

DeployRun(j) ==
  /\ At(j, "Deploy.Run")
  /\ LET can == job[j].act \in {"create", "run"} \/ Primary(job[j].on) IN
     \/ can /\ Set(j, Ends(j, TRUE)) /\ UNCHANGED faults
     \/ can /\ Set(j, Ends(j, FALSE)) /\ Fault
     \/ ~can /\ Set(j, Ends(j, FALSE)) /\ UNCHANGED faults
  /\ UNCHANGED <<cluster, mach, servers, made, excused, requests>>

DeployStages == {"Deploy.OnDeployMachines", "Deploy.OnSyncStatusComplete", "Deploy.OnSyncComplete"}

\* Its status written, the cluster is synced too (StartSyncTask).
DeployStep(j) ==
  /\ \/ /\ Stage(j, "Deploy.OnDeployMachines")
        /\ Set(j, Goes(j, <<"Sync.OnInit", "Deploy.OnSyncStatusComplete">>))
        /\ UNCHANGED <<cluster, faults>>
     \/ /\ Stage(j, "Deploy.OnSyncStatusComplete")
        /\ \/ /\ Set(j, Goes(j, <<"SyncTask.OnInit", "Deploy.OnSyncComplete">>))
              /\ UNCHANGED <<cluster, faults>>
           \/ Status(j, "deploy_fail", Ends(j, FALSE)) /\ Fault
     \/ /\ Stage(j, "Deploy.OnSyncComplete")
        /\ Set(j, Ends(j, TRUE))
        /\ UNCHANGED <<cluster, faults>>
     \/ /\ \E stage \in DeployStages : Failed(j, stage)
        /\ Status(j, "deploy_fail", Ends(j, FALSE))
        /\ UNCHANGED faults
  /\ UNCHANGED <<mach, servers, made, excused, requests>>

\* ClusterSyncTask, the module ClusterSync's: prepareStartSync refuses a
\* cluster that was not running when it was loaded.  The pass may end, fail or
\* never answer on its channel; OnSyncComplete hands its result on.
SyncTask(j) ==
  /\ \/ /\ Stage(j, "SyncTask.OnInit")
        /\ Set(j, [Goes(j, <<"SyncTask.Run">>) EXCEPT !.copy = cluster])
        /\ UNCHANGED faults
     \/ /\ At(j, "SyncTask.Run")
        /\ \/ Set(j, Ends(j, job[j].copy = "running")) /\ UNCHANGED faults
           \/ Set(j, Ends(j, FALSE)) /\ Fault
           \/ Set(j, Goes(j, <<"SyncTask.Hung">>)) /\ Fault
  /\ UNCHANGED <<cluster, mach, servers, made, excused, requests>>

SyncInit(j) ==
  /\ Stage(j, "Sync.OnInit")
  /\ IF Rows = {}
     THEN Status(j, "init", Ends(j, TRUE))
     ELSE /\ Set(j, [Goes(j, <<"Sync.Run", "Sync.OnSyncStatus">>) EXCEPT !.copy = cluster])
          /\ UNCHANGED cluster
  /\ UNCHANGED <<mach, servers, made, excused, requests, faults>>

\* The status is written through the copy: not when it was running then.
SyncRun(j) ==
  /\ At(j, "Sync.Run")
  /\ \/ /\ cluster' = IF Lives /\ job[j].copy # "running" THEN "running" ELSE cluster
        /\ Set(j, Ends(j, TRUE)) /\ UNCHANGED faults
     \/ Set(j, Ends(j, FALSE)) /\ Fault /\ UNCHANGED cluster
  /\ UNCHANGED <<mach, servers, made, excused, requests>>

SyncDone(j) ==
  /\ \/ Stage(j, "Sync.OnSyncStatus") /\ Set(j, Ends(j, TRUE)) /\ UNCHANGED cluster
     \/ Failed(j, "Sync.OnSyncStatus") /\ Status(j, "unknown", Ends(j, FALSE))
  /\ UNCHANGED <<mach, servers, made, excused, requests, faults>>

------------------------------------------------------------------------------
(* ClusterDeleteMachinesTask, ClusterDeleteTask *)

\* IsFromClusterDeleteTask
Deleting == cluster = "deleting"

DeleteInit(j) ==
  /\ Stage(j, "Delete.OnInit")
  /\ CASE ~(job[j].on \subseteq Rows) -> Status(j, "error", Ends(j, FALSE))
       [] job[j].on \subseteq Rows /\ Deleting ->
            Status(j, cluster, Goes(j, <<"BatchDelete.OnInit", "Delete.OnDeleteMachines">>))
       [] OTHER -> Status(j, "deploying", [Goes(j, <<"Deploy.OnInit", "Delete.OnClusterNodeRemoved">>)
                                            EXCEPT !.act = "remove"])
  /\ UNCHANGED <<mach, servers, made, excused, requests, faults>>

DeleteStages == {"Delete.OnClusterNodeRemoved", "Delete.OnDeleteMachines", "Delete.OnSyncStatus"}

DeleteStep(j) ==
  /\ \/ /\ Stage(j, "Delete.OnClusterNodeRemoved")
        /\ IF job[j].on \subseteq Rows
           THEN Status(j, cluster, Goes(j, <<"BatchDelete.OnInit", "Delete.OnDeleteMachines">>))
           ELSE Status(j, "error", Ends(j, FALSE))
     \/ /\ Stage(j, "Delete.OnDeleteMachines")
        /\ UNCHANGED cluster
        /\ Set(j, IF Deleting THEN Ends(j, TRUE)
                  ELSE Goes(j, <<"Sync.OnInit", "Delete.OnSyncStatus">>))
     \/ /\ Stage(j, "Delete.OnSyncStatus")
        /\ Set(j, Ends(j, TRUE)) /\ UNCHANGED cluster
     \/ /\ \E stage \in DeleteStages : Failed(j, stage)
        /\ Status(j, "error", Ends(j, FALSE))
  /\ UNCHANGED <<mach, servers, made, excused, requests, faults>>

\* RealDelete
RealDelete(j) ==
  \/ Status(j, "gone", Ends(j, TRUE)) /\ UNCHANGED faults
  \/ Status(j, "delete_fail", Ends(j, FALSE)) /\ Fault

\* startDeleteMachines
GoneInit(j) ==
  /\ Stage(j, "Gone.OnInit")
  /\ \/ Rows = {} /\ RealDelete(j) /\ UNCHANGED mach
     \/ /\ Rows # {}
        /\ mach' = Marked(Rows, "deleting")
        /\ Set(j, [Goes(j, <<"Delete.OnInit", "Gone.OnMachinesDeleted">>) EXCEPT !.on = Rows])
        /\ UNCHANGED <<cluster, faults>>
  /\ UNCHANGED <<servers, made, excused, requests>>

\* OnMachinesDeleted
GoneDone(j) ==
  /\ \/ Stage(j, "Gone.OnMachinesDeleted") /\ RealDelete(j)
     \/ /\ Failed(j, "Gone.OnMachinesDeleted")
        /\ Status(j, "delete_fail", Ends(j, FALSE)) /\ UNCHANGED faults
  /\ UNCHANGED <<mach, servers, made, excused, requests>>

------------------------------------------------------------------------------
(* MachineBatchCreateTask, MachineBatchDeleteTask *)

\* A batch loads and locks all its machines; it fails when one is gone.
BatchStage(j, stage) == At(j, stage) /\ job[j].on \subseteq Rows

Starts(task, at) == [task |-> task, at |-> at, vm |-> 0]

BatchInit(j, batch, after, st, kid) ==
  /\ BatchStage(j, batch)
  /\ mach' = Marked(job[j].on, st)
  /\ Set(j, [Goes(j, <<after>>) EXCEPT
               !.kid = [m \in Machines |-> IF m \in job[j].on THEN kid ELSE Idle],
               !.bad = FALSE])
  /\ UNCHANGED <<cluster, servers, made, excused, requests, faults>>

BatchDone(j) ==
  /\ \/ /\ BatchStage(j, "BatchCreate.OnMachinesCreated")
        /\ Set(j, Ends(j, job[j].ret)) /\ UNCHANGED mach
     \/ /\ BatchStage(j, "BatchDelete.OnDeleteMachines")
        /\ mach' = IF job[j].ret THEN Marked(job[j].on, "gone") ELSE mach
        /\ Set(j, Ends(j, job[j].ret))
     \/ /\ \E stage \in {"BatchCreate.OnInit", "BatchCreate.OnMachinesCreated",
                         "BatchDelete.OnInit", "BatchDelete.OnDeleteMachines"} : At(j, stage)
        /\ ~(job[j].on \subseteq Rows)
        /\ Set(j, Ends(j, FALSE)) /\ UNCHANGED mach
  /\ UNCHANGED <<cluster, servers, made, excused, requests, faults>>

\* A task that was started for a machine alone.
Alone(j) ==
  /\ At(j, "Alone")
  /\ Set(j, NoJob)
  /\ UNCHANGED <<cluster, mach, servers, made, excused, requests, faults>>

------------------------------------------------------------------------------
(* MachineCreateTask, MachinePrepareTask, MachineTerminateTask *)

KidAt(j, m, at)  == job[j].kid[m].at = at
KidGoes(j, m, at) == Set(j, [job[j] EXCEPT !.kid[m].at = at])

\* Mutant: the first task that ends schedules the batch.
KidEndsFirst(j, m, ok) ==
  /\ Set(j, [job[j] EXCEPT !.kid = [o \in Machines |-> Idle], !.ret = ok])
  /\ UNCHANGED excused

\* IsCurrentStageComplete: the last task schedules the batch, with its result.
\* A server whose termination failed is forgotten when the last one succeeds.
KidEnds(j, m, ok) ==
  LET last == Kids(j) = {m} IN
  /\ Set(j, [job[j] EXCEPT !.kid[m] = Idle, !.ret = IF last THEN ok ELSE @,
                           !.bad = @ \/ ~ok])
  /\ excused' = (excused \/ (last /\ ok /\ job[j].bad /\ job[j].kid[m].task = "Terminate"))

\* StartPrepareTask
CreateInit(j, m) ==
  /\ KidAt(j, m, "Create.OnInit")
  /\ IF Live(m) /\ Lives
     THEN mach' = Marked({m}, "prepare") /\ KidGoes(j, m, "Prepare.OnInit") /\ UNCHANGED excused
     ELSE mach' = Marked({m}, "create_fail") /\ KidEnds(j, m, FALSE)
  /\ UNCHANGED <<cluster, servers, made, requests, faults>>

\* doPrepare up to the new server: one is made whatever the row has.
PrepareServer(j, m) ==
  /\ KidAt(j, m, "Prepare.OnInit")
  /\ Live(m)
  /\ \/ /\ Lives
        /\ made' = made + 1
        /\ servers' = servers \cup {made + 1}
        /\ Set(j, [job[j] EXCEPT !.kid[m].at = "Prepare.Record", !.kid[m].vm = made + 1])
        /\ UNCHANGED faults
     \/ /\ KidGoes(j, m, "Prepare.Failed")
        /\ IF Lives THEN Fault ELSE UNCHANGED faults
        /\ UNCHANGED <<servers, made>>
  /\ UNCHANGED <<cluster, mach, excused, requests>>

\* SetResourceId: nobody looks at its error.
PrepareRecord(j, m) ==
  /\ KidAt(j, m, "Prepare.Record")
  /\ \/ /\ mach' = IF Live(m) THEN [mach EXCEPT ![m].vm = job[j].kid[m].vm] ELSE mach
        /\ UNCHANGED <<excused, faults>>
     \/ excused' = TRUE /\ Fault /\ UNCHANGED mach
  /\ KidGoes(j, m, "Prepare.Run")
  /\ UNCHANGED <<cluster, servers, made, requests>>

\* The rest of doPrepare: the server must run and have an address.
PrepareRun(j, m) ==
  LET up == job[j].kid[m].vm \in servers IN
  /\ KidAt(j, m, "Prepare.Run")
  /\ \/ /\ up
        /\ mach' = IF Live(m) THEN [mach EXCEPT ![m].ip = TRUE, ![m].st = "running"] ELSE mach
        /\ KidGoes(j, m, "Prepare.OnPrepared")
        /\ UNCHANGED faults
     \/ /\ KidGoes(j, m, "Prepare.Failed")
        /\ IF up THEN Fault ELSE UNCHANGED faults
        /\ UNCHANGED mach
  /\ UNCHANGED <<cluster, servers, made, excused, requests>>

\* OnPrepared, OnPreparedFailed, OnMachinePrepared, OnMachinePreparedFailed
PrepareDone(j, m) ==
  /\ \/ KidAt(j, m, "Prepare.OnPrepared") /\ UNCHANGED mach /\ KidEnds(j, m, Live(m))
     \/ /\ KidAt(j, m, "Prepare.Failed")
        /\ mach' = Marked({m}, IF job[j].kid[m].task = "Create" THEN "create_fail" ELSE "prepare_fail")
        /\ KidEnds(j, m, FALSE)
     \/ /\ KidAt(j, m, "Prepare.OnInit") /\ ~Live(m)
        /\ UNCHANGED mach /\ KidEnds(j, m, FALSE)
  /\ UNCHANGED <<cluster, servers, made, requests, faults>>

\* TerminateResource: a row without a server, and a server that is not there, are fine.
Terminate(j, m) ==
  /\ KidAt(j, m, "Terminate.OnInit")
  /\ \/ /\ servers' = IF Live(m) THEN servers \ {mach[m].vm} ELSE servers
        /\ KidEnds(j, m, Live(m))
        /\ UNCHANGED <<mach, faults>>
     \/ /\ Live(m) /\ mach[m].vm # 0
        /\ mach' = Marked({m}, "terminate_fail")
        /\ KidEnds(j, m, FALSE)
        /\ Fault
        /\ UNCHANGED servers
  /\ UNCHANGED <<cluster, made, requests>>

------------------------------------------------------------------------------
(* Requests *)

\* cause: the request may lose track of a server, as may any that comes
\* while a job runs.
Request(new, cause) ==
  /\ Lives
  /\ requests < MaxRequests
  /\ requests' = requests + 1
  /\ \E j \in NewJobs : job' = [job EXCEPT ![j] = new]
  /\ excused' = (excused \/ cause \/ Busy)
  /\ UNCHANGED <<servers, made, faults>>

Controls == {m \in Rows : mach[m].role = "controlplane"}

\* The bound on rows: jobs that are about to insert theirs count too.
Promised == {p \in Jobs \X (1..Cardinality(Machines)) :
               p[2] <= job[p[1]].n /\ \E i \in DOMAIN job[p[1]].stack :
                                  job[p[1]].stack[i] \in {"New.OnInit", "Add.OnInit"}}

\* PerformAddMachines, ValidateAddMachines: all of one role
AddMachines(n, role) ==
  /\ n + Cardinality(Promised) <= Cardinality(Unused)
  /\ cluster \in {"running", "init"}
  /\ IF role = "controlplane" THEN Cardinality(Controls) + n \in Counts ELSE Rows # {}
  /\ Request([NoJob EXCEPT !.stack = <<"Add.OnInit">>, !.act = "scale", !.n = n,
                            !.ctl = IF role = "controlplane" THEN n ELSE 0],
             FALSE)
  /\ UNCHANGED <<cluster, mach>>

Running == {m \in Rows : mach[m].st = "running"}

\* PerformDeploy
Deploy(act, force) ==
  /\ force \/ cluster \in {"running", "create_fail", "deploy_fail", "create_machine_fail"}
  /\ \E m \in Running : mach[m].first
  /\ cluster' = "deploying"
  /\ Request([NoJob EXCEPT !.stack = <<"Deploy.OnInit">>, !.act = act, !.on = Running], FALSE)
  /\ UNCHANGED mach

\* PerformSyncstatus
Syncstatus ==
  /\ Request([NoJob EXCEPT !.stack = <<"Sync.OnInit">>], FALSE)
  /\ UNCHANGED <<cluster, mach>>

\* ValidateDeleteMachines
ValidateDeleteMachines(ms) == ms = Rows \/ \A m \in ms : ~mach[m].first

\* PerformDeleteMachines.  CheckPVCEmpty may refuse to delete all machines; a
\* request that is refused changes nothing.
DeleteMachines(ms) ==
  /\ ms # {} /\ ms \subseteq Rows
  /\ ValidateDeleteMachines(ms)
  /\ mach' = Marked(ms, "deleting")
  /\ Request([NoJob EXCEPT !.stack = <<"Delete.OnInit">>, !.on = ms], FALSE)
  /\ UNCHANGED cluster

\* StartClusterDeleteTask
DeleteCluster ==
  /\ cluster' = "deleting"
  /\ Request([NoJob EXCEPT !.stack = <<"Gone.OnInit">>], FALSE)
  /\ UNCHANGED mach

\* CustomizeDelete of a machine without an address; with one it is
\* DeleteMachines({m}).
DeleteMachine(m) ==
  /\ Live(m) /\ ~mach[m].ip
  /\ mach' = Marked({m}, "gone")
  /\ Request(NoJob, mach[m].vm # 0)
  /\ UNCHANGED cluster

AloneJob(m, kid) == [NoJob EXCEPT !.stack = <<"Alone">>, !.kid[m] = kid]

\* PerformRecreate, PerformPrepare, PerformTerminate
RetryMachine(m) ==
  /\ Live(m)
  /\ \/ /\ mach[m].st = "create_fail"
        /\ mach' = Marked({m}, "creating")
        /\ Request(AloneJob(m, Starts("Create", "Create.OnInit")), mach[m].vm # 0)
     \/ /\ mach[m].st \notin {"running", "deleting"}
        /\ mach' = Marked({m}, "prepare")
        /\ Request(AloneJob(m, Starts("Prepare", "Prepare.OnInit")), mach[m].vm # 0)
     \/ /\ mach' = Marked({m}, "terminating")
        /\ Request(AloneJob(m, Starts("Terminate", "Terminate.OnInit")), FALSE)
  /\ UNCHANGED cluster

------------------------------------------------------------------------------
\* A cluster is being created with some controlplanes, and maybe other nodes.
Init ==
  /\ cluster = "creating"
  /\ mach = [m \in Machines |-> NoMachine]
  /\ servers = {} /\ made = 0
  /\ \E n \in 1..Cardinality(Machines), ctl \in Counts :
       /\ ctl <= n
       /\ requests = n - 1 /\ n - 1 <= MaxRequests
       /\ job = [j \in Jobs |->
                   IF j = CHOOSE i \in Jobs : \A k \in Jobs : i <= k
                   THEN [NoJob EXCEPT !.stack = <<"New.OnInit">>, !.act = "create", !.n = n,
                                      !.ctl = ctl]
                   ELSE NoJob]
  /\ excused = FALSE
  /\ faults = 0

KidStep(j, m) ==
  \/ CreateInit(j, m) \/ PrepareServer(j, m) \/ PrepareRecord(j, m) \/ PrepareRun(j, m)
  \/ PrepareDone(j, m) \/ Terminate(j, m)

JobStep(j) ==
  \/ /\ job[j] # NoJob /\ Kids(j) = {}
     /\ \/ Orphan(j) \/ NewInit(j) \/ NewStep(j) \/ AddInit(j) \/ AddStep(j)
        \/ DeployInit(j) \/ DeployRun(j) \/ DeployStep(j) \/ SyncTask(j)
        \/ SyncInit(j) \/ SyncRun(j) \/ SyncDone(j)
        \/ DeleteInit(j) \/ DeleteStep(j) \/ GoneInit(j) \/ GoneDone(j)
        \/ BatchInit(j, "BatchCreate.OnInit", "BatchCreate.OnMachinesCreated", "creating",
                     Starts("Create", "Create.OnInit"))
        \/ BatchInit(j, "BatchDelete.OnInit", "BatchDelete.OnDeleteMachines", "terminating",
                     Starts("Terminate", "Terminate.OnInit"))
        \/ BatchDone(j) \/ Alone(j)
  \/ \E m \in Kids(j) : KidStep(j, m)

Requests ==
  \/ \E n \in 1..Cardinality(Machines), role \in Roles : AddMachines(n, role)
  \/ \E act \in {"run", "upgrade"}, force \in BOOLEAN : Deploy(act, force)
  \/ Syncstatus
  \/ \E ms \in SUBSET Machines : DeleteMachines(ms)
  \/ DeleteCluster
  \/ \E m \in Machines : DeleteMachine(m) \/ RetryMachine(m)

Next == (\E j \in Jobs : JobStep(j)) \/ Requests

\* The task workers and the local workers run what they are given.
Spec == Init /\ [][Next]_vars /\ \A j \in Jobs : WF_vars(JobStep(j))

------------------------------------------------------------------------------
(* Properties *)

MachineStatus == {"none", "gone", "init", "creating", "create_fail", "prepare", "prepare_fail",
                  "running", "deleting", "terminating", "terminate_fail"}
ClusterStatus == {"gone", "init", "creating", "create_fail", "create_machine_fail", "deploying",
                  "deploy_fail", "running", "unknown", "error", "deleting", "delete_fail"}

\* Type invariant of the rows, the servers and the bounds.
TypeOK ==
  /\ cluster \in ClusterStatus
  /\ mach \in [Machines -> [st : MachineStatus, role : Roles, first : BOOLEAN,
                            vm : Nat, ip : BOOLEAN]]
  /\ servers \subseteq 1..made
  /\ \A j \in Jobs : job[j].on \subseteq Machines /\ (job[j].stack = <<>> => job[j] = NoJob)
  /\ excused \in BOOLEAN
  /\ requests \in 0..MaxRequests /\ faults \in 0..MaxFaults

\* The task that made server s is about to record it.
Recording(s) ==
  \E j \in Jobs, m \in Machines : /\ job[j].kid[m].at = "Prepare.Record"
                                 /\ job[j].kid[m].vm = s

\* Whatever fails on the way, a server that was made and recorded stays in the
\* row of its machine until it is terminated, so that it can be terminated
\* later, and a deleted cluster leaves no machine behind.  (Not so when requests
\* overlap, when a machine that has a server is prepared again or deleted
\* without an address, when the server cannot be recorded, and when the last
\* termination of a batch hides an earlier failure.)
NothingLost ==
  ~excused =>
    /\ \A s \in servers : Recording(s) \/ \E m \in Rows : mach[m].vm = s
    /\ cluster = "gone" => Rows = {} /\ servers = {}

\* Whatever overlaps, the first node is a controlplane and there is at most one.
OneFirstNode ==
  \A m, o \in Rows : mach[m].first =>
    mach[m].role = "controlplane" /\ (mach[o].first => m = o)

Hung(j) == job[j] # NoJob /\ Head(job[j].stack) = "SyncTask.Hung"

\* Every job ends, unless its sync task hangs, and though the stages of jobs
\* overwrite each other's status, what they leave behind does not say that
\* something is under way.  A machine left "terminating" has no server any more.
\* (A machine may be left "deleting": nothing resets it when its removal fails.)
JobsSettle ==
  []<>(/\ \A j \in Jobs : job[j] = NoJob \/ Hung(j)
       /\ cluster \notin {"creating", "deploying", "deleting"}
       /\ \A m \in Machines :
            /\ mach[m].st \notin {"creating", "prepare"}
            /\ mach[m].st = "terminating" => mach[m].vm \notin servers)

=============================================================================
