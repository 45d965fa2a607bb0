------------------------------ MODULE Components ------------------------------
(***************************************************************************)
(* The components of a cluster (models/components.go and their tasks):     *)
(* charts that kubeserver installs in a cluster with helm.  The module     *)
(* follows the component of one type in one cluster:                       *)
(*                                                                         *)
(*   - its row, found through the cluster's joint rows; a new row is made  *)
(*     when it was deleted and is enabled again;                           *)
(*   - the requests: those on the cluster exclude each other, because the  *)
(*     dispatcher locks the cluster, and do not lock the component; those  *)
(*     on the component itself lock the component;                         *)
(*   - the tasks.  Every stage loads the row and then waits for the lock   *)
(*     of the component; helm install and upgrade run on a worker of their *)
(*     own without the lock, helm uninstall runs with it;                  *)
(*   - the helm release, whose name depends on the type only.              *)
(*                                                                         *)
(* Requests and stages write through their copy: a column that equals the  *)
(* copy is not written.  A request writes one column after the other and   *)
(* makes its task last; from its first write on it is followed in the      *)
(* record of that task, with pc "mark".                                    *)
(***************************************************************************)
EXTENDS Naturals, FiniteSets

CONSTANTS Rows,         \* identities of rows of the type
          TaskIds,      \* identities of tasks
          Versions,     \* settings a user may ask for
          IsSystem,     \* this is the cluster kubeserver runs in
          MaxRequests,  \* bound on requests
          MaxFaults,    \* bound on failing helm operations
          MaxCrashes    \* bound on restarts of kubeserver

ASSUME BoundsAssumption ==
  MaxRequests \in Nat /\ MaxFaults \in Nat /\ MaxCrashes \in Nat
ASSUME NamesAssumption ==
  /\ IsSystem \in BOOLEAN
  /\ TaskIds \subseteq Nat \ {0}
  /\ Rows \subseteq Nat \ {0}
  /\ Rows # {} /\ Versions # {}

VARIABLES row,      \* the rows of components_tbl, with their joint rows
          req,      \* the request on the cluster, the request on the component
          task,     \* the tasks
          lock,     \* task, or task to be, that holds the component's lock, or 0
          release,  \* the helm release
          up,       \* kubeserver runs
          left,     \* history: rows whose status a crash left behind
          crossed,  \* history: helm operations overlapped, were cut off or
                    \* could not be recorded
          requests, faults, crashes

vars == <<row, req, task, lock, release, up, left, crossed, requests, faults, crashes>>
history == <<left, crossed>>

Callers == {"cluster", "component"}
Ops     == {"enable", "disable", "delete", "update"}  \* and "create", of no row yet

\* st is "none" before the row is inserted and "gone" after its deletion.
NoRow   == [st |-> "none", enabled |-> FALSE, ver |-> 0]
NoReq   == [op |-> "none", row |-> 0, copy |-> NoRow, ver |-> 0, force |-> FALSE, task |-> 0]
NoTask  == [kind |-> "none", stage |-> "OnInit", pc |-> "none", row |-> 0,
            copy |-> NoRow, parent |-> 0]
NoRelease == [st |-> "none", ver |-> 0, by |-> 0]

Live(r)  == r \in Rows /\ row[r].st \notin {"none", "gone"}
Found    == {r \in Rows : Live(r)}
Free     == {t \in TaskIds : task[t] = NoTask}
Running(kinds) == {t \in TaskIds : task[t].kind \in kinds}

------------------------------------------------------------------------------
(* Writes to the row *)

\* db.Update through a copy of the row: a column that equals the copy is not
\* written, after a write the copy is the row as it is stored.
Save(p, col, v) ==
  IF p.copy[col] = v THEN p
  ELSE LET stored == [p.row EXCEPT ![col] = v] IN [row |-> stored, copy |-> stored]

\* A deleted row stays deleted.
Stored(r, p) == row' = IF Live(r) THEN [row EXCEPT ![r] = p.row] ELSE row

\* SetStatus
SetStatus(r, copy, st) == Stored(r, Save([row |-> row[r], copy |-> copy], "st", st))

\* A status that is not left behind any more.
Cleared(r) == left' = IF row'[r].st # row[r].st THEN left \ {r} ELSE left

------------------------------------------------------------------------------
(* Tasks *)

\* TaskManager.NewTask and ScheduleRun
NewTask(kind, r, p) == [NoTask EXCEPT !.kind = kind, !.pc = "queued", !.row = r, !.parent = p]

\* Mutant: the task that waits is not told.
EndTaskAlone(t, stage) == task' = [task EXCEPT ![t] = NoTask]

\* SetStageComplete, SetStageFailed: the task that waits is scheduled.
EndTask(t, stage) ==
  task' = [s \in TaskIds |->
             IF s = t THEN NoTask
             ELSE IF s = task[t].parent THEN [task[s] EXCEPT !.stage = stage, !.pc = "queued"]
             ELSE task[s]]

\* execITask: the row is loaded before its lock is taken.
Fetch(t) ==
  /\ task[t].pc = "queued"
  /\ IF Live(task[t].row)
     THEN task' = [task EXCEPT ![t] = [@ EXCEPT !.pc = "fetched", !.copy = row[task[t].row]]]
     ELSE EndTask(t, "Failed")
  /\ UNCHANGED <<row, req, lock, release, up, history, requests, faults, crashes>>

Stage(t, kinds, stage) ==
  /\ task[t].kind \in kinds
  /\ task[t].stage = stage
  /\ task[t].pc = "fetched"
  /\ lock = 0

\* ComponentDeployTask.OnInit, ComponentUpdateTask.OnInit.  GetCluster fails
\* when the joint row is gone.
Init2Helm(t) ==
  /\ Stage(t, {"deploy", "update"}, "OnInit")
  /\ IF Live(task[t].row)
     THEN task' = [task EXCEPT ![t].pc = "helm"]
     ELSE EndTask(t, "Failed")
  /\ UNCHANGED <<row, req, lock, release, up, history, requests, faults, crashes>>

\* The result of LocalTaskRun schedules the next stage, which loads the row
\* again; StartSelfUpdate just goes on.
Result(t, stage) ==
  task' = [task EXCEPT ![t] =
             IF task[t].kind = "self" THEN [@ EXCEPT !.stage = stage, !.pc = "fetched"]
             ELSE [@ EXCEPT !.stage = stage, !.pc = "queued", !.copy = NoRow]]

\* helm: an install needs a free name, an upgrade a release that is not busy.
HelmAllows(kind) ==
  release.st \in IF kind = "deploy" THEN {"none", "failed"} ELSE {"deployed", "failed"}

HelmBegin(t) ==
  /\ task[t].pc = "helm"
  /\ IF HelmAllows(task[t].kind)
     THEN /\ release' = [release EXCEPT !.st = "pending", !.by = t]
          /\ task' = [task EXCEPT ![t].pc = "helming"]
     ELSE Result(t, "Failed") /\ UNCHANGED release
  /\ UNCHANGED <<row, req, lock, up, history, requests, faults, crashes>>

\* helm writes the release it began.  When it was uninstalled meanwhile that
\* fails: an install only logs it, an upgrade returns it.  A failed install
\* uninstalls (Atomic).
HelmEnd(t) ==
  /\ task[t].pc = "helming"
  /\ \/ /\ Result(t, IF task[t].kind = "deploy" \/ release.by = t THEN "Complete" ELSE "Failed")
        /\ release' = IF release.by = t
                      THEN [st |-> "deployed", ver |-> task[t].copy.ver, by |-> 0]
                      ELSE release
        /\ UNCHANGED faults
     \/ /\ faults < MaxFaults /\ faults' = faults + 1
        /\ Result(t, "Failed")
        /\ release' = IF task[t].kind = "deploy" THEN NoRelease
                      ELSE IF release.by = t THEN [release EXCEPT !.st = "failed", !.by = 0]
                      ELSE release
  /\ UNCHANGED <<row, req, lock, up, history, requests, crashes>>

\* What was done cannot be recorded and the release stays pending: an install
\* only logs it, an upgrade returns it.
HelmUnrecorded(t) ==
  /\ task[t].pc = "helming"
  /\ faults < MaxFaults /\ faults' = faults + 1
  /\ Result(t, IF task[t].kind = "deploy" THEN "Complete" ELSE "Failed")
  /\ crossed' = TRUE
  /\ UNCHANGED <<row, req, lock, release, up, left, requests, crashes>>

\* Mutant: a failed deployment keeps the status it had.
OutcomeSilent(kind, stage) ==
  IF stage = "Complete" THEN "deployed"
  ELSE IF kind = "deploy" THEN "deploying" ELSE "update_fail"

\* Mutant: a status that api/component.go does not have.
OutcomeUnknown(kind, stage) == IF stage = "Complete" THEN "running" ELSE "fail"

\* OnDeployComplete, OnUpdateComplete and the Failed stages.  StartSelfUpdate
\* writes through the copy it started with and takes no lock.
Outcome(kind, stage) ==
  IF stage = "Complete" THEN "deployed"
  ELSE IF kind = "deploy" THEN "deploy_fail" ELSE "update_fail"

HelmDone(t) ==
  /\ task[t].kind \in {"deploy", "update", "self"}
  /\ task[t].stage \in {"Complete", "Failed"}
  /\ task[t].pc = "fetched"
  /\ task[t].kind # "self" => lock = 0
  /\ SetStatus(task[t].row, task[t].copy, Outcome(task[t].kind, task[t].stage))
  /\ Cleared(task[t].row)
  /\ EndTask(t, task[t].stage)
  /\ UNCHANGED <<req, lock, release, up, crossed, requests, faults, crashes>>

------------------------------------------------------------------------------
(* Undeploy and delete *)

\* Mutant: SetEnabled(false) is forgotten.
UndeployedEnabled(p) == Save(p, "st", "init")

Undeployed(p) == Save(Save(p, "st", "init"), "enabled", FALSE)

\* ComponentUndeployTask.OnInit up to the end of helm uninstall, which takes
\* a release that does not exist for success.
UndeployRun(t) ==
  /\ Stage(t, {"undeploy"}, "OnInit")
  /\ \/ /\ Live(task[t].row)
        /\ release' = NoRelease
        /\ lock' = t
        /\ task' = [task EXCEPT ![t].pc = "uninstalled"]
        /\ UNCHANGED <<row, left, faults>>
     \/ /\ IF Live(task[t].row)
           THEN faults < MaxFaults /\ faults' = faults + 1
           ELSE UNCHANGED faults
        /\ SetStatus(task[t].row, task[t].copy, "undeploy_fail")
        /\ Cleared(task[t].row)
        /\ EndTask(t, "Failed")
        /\ UNCHANGED <<release, lock>>
  /\ UNCHANGED <<req, up, crossed, requests, crashes>>

UndeployWrite(t) ==
  /\ task[t].pc = "uninstalled"
  /\ Stored(task[t].row, Undeployed([row |-> row[task[t].row], copy |-> task[t].copy]))
  /\ Cleared(task[t].row)
  /\ lock' = 0
  /\ EndTask(t, "Complete")
  /\ UNCHANGED <<req, release, up, crossed, requests, faults, crashes>>

\* The identity of a new task.
NewIds == {t \in Free : \A s \in Free : t <= s}

\* ComponentDeleteTask.OnInit
DeleteInit(t) ==
  /\ Stage(t, {"delete"}, "OnInit")
  /\ SetStatus(task[t].row, task[t].copy, "undeploying")
  /\ Cleared(task[t].row)
  /\ \E n \in NewIds :
       task' = [task EXCEPT ![t] = [@ EXCEPT !.pc = "waiting", !.copy = NoRow],
                            ![n] = NewTask("undeploy", task[t].row, t)]
  /\ UNCHANGED <<req, lock, release, up, crossed, requests, faults, crashes>>

\* OnUndeployComplete: DeleteWithJoint; OnUndeployCompleteFailed.
DeleteDone(t) ==
  LET r == task[t].row IN
  /\ task[t].stage # "OnInit"
  /\ Stage(t, {"delete"}, task[t].stage)
  /\ IF task[t].stage = "Complete"
     THEN row' = [row EXCEPT ![r] = [NoRow EXCEPT !.st = "gone"]]
     ELSE SetStatus(r, task[t].copy, "delete_fail")
  /\ Cleared(r)
  /\ EndTask(t, task[t].stage)
  /\ UNCHANGED <<req, lock, release, up, crossed, requests, faults, crashes>>

------------------------------------------------------------------------------
(* Requests *)

\* The request finds the component of the type, or none (row 0).
Request(c, op, ver, force) ==
  /\ up
  /\ requests < MaxRequests
  /\ req[c] = NoReq
  /\ c = "component" => op \in {"enable", "disable"}
  /\ op # "update" => ~force
  /\ ver = 0 <=> op \in {"disable", "delete"} \/ (op = "enable" /\ Found # {})
  /\ \E r \in IF Found # {} THEN Found ELSE {0} :
       /\ r = 0 => c = "cluster" /\ op = "enable"
       /\ req' = [req EXCEPT ![c] =
                    [op |-> op, row |-> r, copy |-> IF r = 0 THEN NoRow ELSE row[r],
                     ver |-> ver, force |-> force, task |-> 0]]
  /\ requests' = requests + 1
  /\ UNCHANGED <<row, task, lock, release, up, history, faults, crashes>>

\* DoEnable, DoDisable, DoDelete, DoUpdate: when they return without a task.
\* (DoDisable and DoDelete check nothing.)
Refuses(q) ==
  \/ q.op = "enable" /\ (q.copy.enabled \/ q.copy.st = "deleting")
  \/ /\ q.op = "update"
     /\ \/ ~q.copy.enabled
        \/ ~q.force /\ q.copy.st \notin {"deployed", "update_fail"}
        \/ ~q.force /\ q.copy.ver = q.ver
        \/ ~Live(q.row)

\* The first column a request writes: SetEnabled of StartComponentDeployTask
\* and StartComponentDeleteTask, the settings of DoUpdate.
FirstWrite(q, p) ==
  CASE q.op \in {"enable", "create"} -> Save(p, "enabled", TRUE)
    [] q.op = "disable" -> p
    [] q.op = "delete"  -> Save(p, "enabled", FALSE)
    [] q.op = "update"  -> Save(p, "ver", q.ver)

TaskOf(op) ==
  CASE op \in {"enable", "create"} -> "deploy" [] op = "disable" -> "undeploy" [] OTHER -> op

\* Helm operations of this request and of a running task may overlap: a removal
\* and an installation, or an upgrade and any other.  (Installations may: helm
\* lets one of them have the name.)
Installs == {"deploy", "update", "self"}
Removes  == {"undeploy", "delete"}
Crosses(op) ==
  \/ op \in {"disable", "delete"} /\ Running(Installs) # {}
  \/ op \in {"enable", "create", "update"} /\ Running(Removes) # {}
  \/ op = "update" /\ Running(Installs) # {}
  \/ op \in {"enable", "create"} /\ Running({"update", "self"}) # {}

Refuse(c) ==
  /\ req[c].op # "none" /\ req[c].row # 0
  /\ Refuses(req[c])
  /\ req' = [req EXCEPT ![c] = NoReq]
  /\ UNCHANGED <<row, task, lock, release, up, history, requests, faults, crashes>>

\* The component's lock: of a request on the component, and of PostCreate.
Locks(c) == c = "component" \/ req[c].op = "create"

\* DoEnable, DoDisable, DoDelete, DoUpdate, PostCreate up to their first write.
Apply(c) ==
  LET q == req[c]
      p == FirstWrite(q, [row |-> row[q.row], copy |-> q.copy]) IN
  /\ q.op # "none" /\ q.row # 0
  /\ ~Refuses(q)
  /\ Locks(c) => lock = 0
  /\ Stored(q.row, p)
  /\ \E n \in NewIds :
       /\ task' = [task EXCEPT ![n] =
                     [NewTask(TaskOf(q.op), q.row, 0) EXCEPT !.pc = "mark", !.copy = p.copy]]
       /\ lock' = IF Locks(c) THEN n ELSE lock
       /\ req' = [req EXCEPT ![c] = [NoReq EXCEPT !.task = n]]
  /\ crossed' = (crossed \/ Crosses(q.op))
  /\ UNCHANGED <<release, up, left, requests, faults, crashes>>

\* The status that StartComponentDeployTask, ...UndeployTask, ...DeleteTask,
\* ...UpdateTask set.
Marked(kind) ==
  CASE kind = "deploy" -> "deploying" [] kind = "undeploy" -> "undeploying"
    [] kind = "delete" -> "deleting"  [] OTHER -> "updating"

\* The status of the row, NewTask and the end of the request.
Mark(t) ==
  /\ task[t].pc = "mark"
  /\ SetStatus(task[t].row, task[t].copy, Marked(task[t].kind))
  /\ Cleared(task[t].row)
  /\ task' = [task EXCEPT ![t] = NewTask(task[t].kind, task[t].row, 0)]
  /\ lock' = IF lock = t THEN 0 ELSE lock
  /\ req' = [c \in Callers |-> IF req[c].task = t THEN NoReq ELSE req[c]]
  /\ UNCHANGED <<release, up, crossed, requests, faults, crashes>>

\* EnableComponent without a row: CreateByCluster up to PostCreate.  A row
\* without its joint row is no component of the cluster.
Create(c) ==
  LET q == req[c] IN
  /\ q.op = "enable" /\ q.row = 0
  /\ \E r \in Rows :
       LET new == [st |-> "init", enabled |-> FALSE, ver |-> q.ver] IN
       /\ row[r].st = "none"
       /\ \A s \in Rows : row[s].st = "none" => r <= s
       /\ row' = [row EXCEPT ![r] = new]
       /\ req' = [req EXCEPT ![c] = [NoReq EXCEPT !.op = "create", !.row = r, !.copy = new]]
  /\ UNCHANGED <<task, lock, release, up, history, requests, faults, crashes>>

------------------------------------------------------------------------------
(* Restarts *)

\* kubeserver dies: its requests and tasks are lost, helm stops halfway.
Crash ==
  /\ up
  /\ crashes < MaxCrashes
  /\ crashes' = crashes + 1
  /\ up' = FALSE
  /\ req' = [c \in Callers |-> NoReq]
  /\ task' = [t \in TaskIds |-> NoTask]
  /\ lock' = 0
  /\ left' = Found
  /\ crossed' = (crossed \/ Running(Installs \cup Removes) # {})
  /\ UNCHANGED <<row, release, requests, faults>>

\* Mutant: components whose update was cut off instead.
RerunUpdating(r) == row[r].st = "updating"

\* ReRunDeployingComponents, for the system cluster only.
Reruns(r) == IsSystem /\ row[r].st = "deploying"

\* StartSelfUpdate: a helm upgrade without a task.
Restart ==
  /\ ~up
  /\ up' = TRUE
  /\ \E f \in [{r \in Rows : Reruns(r)} -> TaskIds] :
       /\ \A r, s \in DOMAIN f : f[r] = f[s] => r = s
       /\ \A r \in DOMAIN f, t \in TaskIds : t < f[r] => \E s \in DOMAIN f : f[s] = t
       /\ task' = [t \in TaskIds |->
            IF \E r \in DOMAIN f : f[r] = t
            THEN LET r == CHOOSE r \in DOMAIN f : f[r] = t
                 IN [NewTask("self", r, 0) EXCEPT !.pc = "helm", !.copy = row[r]]
            ELSE NoTask]
  /\ UNCHANGED <<row, req, lock, release, history, requests, faults, crashes>>

------------------------------------------------------------------------------
Init ==
  /\ row = [r \in Rows |-> NoRow]
  /\ req = [c \in Callers |-> NoReq]
  /\ task = [t \in TaskIds |-> NoTask]
  /\ lock = 0
  /\ release = NoRelease
  /\ up = TRUE
  /\ left = {} /\ crossed = FALSE
  /\ requests = 0 /\ faults = 0 /\ crashes = 0

TaskStep(t) ==
  \/ Fetch(t) \/ Init2Helm(t) \/ HelmBegin(t) \/ HelmEnd(t) \/ HelmUnrecorded(t)
  \/ HelmDone(t) \/ UndeployRun(t) \/ UndeployWrite(t) \/ DeleteInit(t) \/ DeleteDone(t)
  \/ Mark(t)

ReqStep(c) == Refuse(c) \/ Apply(c) \/ Create(c)

Next ==
  \/ \E t \in TaskIds : TaskStep(t)
  \/ \E c \in Callers : ReqStep(c)
  \/ \E c \in Callers, op \in Ops, v \in Versions \cup {0}, force \in BOOLEAN :
       Request(c, op, v, force)
  \/ Crash \/ Restart

\* The task workers run what is queued, helm operations end (by their
\* timeout at the latest), handlers run to their end, the process is restarted.
Fairness ==
  /\ \A t \in TaskIds : WF_vars(TaskStep(t))
  /\ \A c \in Callers : WF_vars(ReqStep(c))
  /\ WF_vars(Restart)

Spec == Init /\ [][Next]_vars /\ Fairness

------------------------------------------------------------------------------
(* Properties *)

Transient == {"deploying", "undeploying", "deleting", "updating"}
Statuses  == Transient \cup {"init", "deployed", "deploy_fail", "undeploy_fail",
                             "update_fail", "delete_fail"}
Row  == [st : Statuses \cup {"none", "gone"}, enabled : BOOLEAN, ver : Versions \cup {0}]
Req  == [op : Ops \cup {"none", "create"}, row : Rows \cup {0}, copy : Row,
         ver : Versions \cup {0}, force : BOOLEAN, task : TaskIds \cup {0}]
Task == [kind : Installs \cup Removes \cup {"none"}, stage : {"OnInit", "Complete", "Failed"},
         pc : {"none", "mark", "queued", "fetched", "helm", "helming", "uninstalled", "waiting"},
         row : Rows \cup {0}, copy : Row, parent : TaskIds \cup {0}]
Release == [st : {"none", "pending", "deployed", "failed"},
            ver : Versions \cup {0}, by : TaskIds \cup {0}]

\* Type invariant of the rows, requests, tasks and the release.
TypeOK ==
  /\ row \in [Rows -> Row]
  /\ req \in [Callers -> Req]
  /\ task \in [TaskIds -> Task]
  /\ lock \in TaskIds \cup {0}
  /\ release \in Release
  /\ up \in BOOLEAN /\ left \subseteq Rows /\ crossed \in BOOLEAN
  /\ requests \in 0..MaxRequests /\ faults \in 0..MaxFaults /\ crashes \in 0..MaxCrashes

\* A row says that something is under way only while a task on it is, or when
\* a crash cut it off, though requests and stages write from stale copies and
\* skip columns that their copy has already.
StatusHonest ==
  \A r \in Rows : row[r].st \in Transient =>
    r \in left \/ \E t \in TaskIds : task[t].row = r

Quiet == (\A t \in TaskIds : task[t] = NoTask) /\ (\A c \in Callers : req[c] = NoReq)

\* The checks of DoEnable and DoUpdate are enough to keep the row and helm in
\* step, as long as no removal overlaps an installation, nothing overlaps an
\* upgrade, helm can record what it did and no crash cuts off a task, or a
\* request between its first write and its task: what is "deployed" is
\* installed with the settings of the row, what is "init" is not installed, and
\* a deleted component leaves no release.
RowMatchesRelease ==
  Quiet /\ ~crossed =>
    /\ \A r \in Rows :
         /\ row[r].st = "deployed" =>
              row[r].enabled /\ release.st = "deployed" /\ release.ver = row[r].ver
         /\ row[r].st = "init" => ~row[r].enabled /\ release.st = "none"
    /\ Found = {} => release.st = "none"

\* Every task ends: a delete waits for its undeploy without the lock that the
\* undeploy needs.
TasksEnd == []<>(\A t \in TaskIds : task[t] = NoTask)

\* A deployment that was cut off does not stay "deploying" in the system
\* cluster.
DeployingRecovers == IsSystem => []<>(\A r \in Rows : row[r].st # "deploying")
=============================================================================
