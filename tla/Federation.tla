----------------------------- MODULE Federation -----------------------------
(***************************************************************************)
(* Federated resources (models/fed_api.go, models/federated_*.go and       *)
(* tasks/fed_resource_task.go): a federated namespace and federated roles  *)
(* in it, whose templates kubeserver copies to the clusters they are       *)
(* attached to.                                                            *)
(*                                                                         *)
(*   - A joint row says that an object is attached to a cluster and, once  *)
(*     bound, which row of the cluster's mirror is its copy there.         *)
(*   - Requests on a federated object hold its lock from beginning to end. *)
(*     Sync and attach tasks take it only for their stages and to insert a *)
(*     joint row; what they do in between meets everybody else's steps.    *)
(*   - The row of the copy, its remote object and the task that creates or *)
(*     updates the latter are those of ResourceMirror, with as much of the *)
(*     mirror as meets federation: rows appear for objects without one and *)
(*     disappear when their object is gone.                                *)
(***************************************************************************)
EXTENDS Naturals, FiniteSets

CONSTANTS FedNs,        \* the federated namespace
          Roles,        \* federated roles in it
          Clusters,     \* the clusters
          Procs,        \* requests and tasks that run at the same time
          Joints,       \* identities of joint rows
          MaxRequests,  \* bound on requests other than the sync of a role
          MaxFaults     \* bound on deletions and failures in the clusters, on passes
                        \* that overtake a creation and on restarts of kubeserver

ASSUME FedAssumption ==
  FedNs \notin Roles /\ 0 \notin Joints /\ 0 \notin Procs /\ 0 \notin Clusters
ASSUME BoundsAssumption ==
  MaxRequests \in Nat /\ MaxFaults \in Nat

VARIABLES fed,      \* the federated objects
          joint,    \* the joint rows
          row,      \* for an object and a cluster: the row of the copy
          object,   \* and the template in the cluster, 0 if there is none
          job,      \* the tasks that create or update remote objects
          proc,     \* requests and tasks on federated objects
          lock,     \* who holds the lock of a federated object, or 0
          made,     \* number of rows made so far, their identities
          left,     \* history: objects whose sync a crash cut off
          requests, faults

vars == <<fed, joint, row, object, job, proc, lock, made, left, requests, faults>>
counters == <<requests, faults>>
remote   == <<row, object, job, made>>

Feds == Roles \cup {FedNs}

NoRow == [id |-> 0, st |-> "none"]
Idle  == [op |-> "idle", at |-> "idle", fed |-> FedNs, role |-> FedNs, cl |-> 0,
          todo |-> {}, joint |-> 0, res |-> 0, rid |-> 0, new |-> FALSE, data |-> 0]

\* GetJointModel, GetAttachedClusters
Attached(f, c) == {j \in joint : j.fed = f /\ j.cl = c}

\* Mutant: only the clusters where the copy is known.
BoundClusters(f) == {c \in Clusters : \E j \in Attached(f, c) : j.res # 0}

AttachedClusters(f) == {c \in Clusters : Attached(f, c) # {}}

\* The template that is copied.
Template(f) == fed[f].spec

\* lockman.LockObject: whoever has the lock may take it again.
LockFree(p, f) == lock[f] \in {0, p}

Released(p) == lock' = [f \in Feds |-> IF lock[f] = p THEN 0 ELSE lock[f]]

Goes(p, at) == proc' = [proc EXCEPT ![p].at = at]

\* Mutant: the status is cleared instead of set.
ClearStatus(f, st) == fed' = [fed EXCEPT ![f].status = ""]

SetStatus(f, st) == fed' = [fed EXCEPT ![f].status = st]

------------------------------------------------------------------------------
(* The end of a request or of a task *)

\* The worker forgets the copy.
Forget(s, at) == [s EXCEPT !.at = at, !.joint = 0, !.res = 0, !.rid = 0, !.new = FALSE, !.data = 0]

\* Mutant: a sync ends with the first cluster that fails.
EndsOnError(s, ok) ==
  IF s.op = "sync" /\ ok THEN Forget(s, "next")
  ELSE IF s.op = "attachRole" /\ ok /\ s.fed = FedNs
       THEN Forget(s, "wait")
  ELSE Idle

\* What follows a copy that was brought up to date, or could not be: a sync
\* goes on to the next cluster, the attachment of a role to the role itself.
After(s, ok) ==
  IF s.op = "sync" THEN Forget(s, "next")
  ELSE IF s.op = "attachRole" /\ ok /\ s.fed = FedNs
       THEN Forget(s, "wait")
  ELSE Idle

\* OnAttachCompleteFailed writes the status of the role, in one step with the
\* failure: nothing that runs under the role's lock looks at its status.
Finish(p, ok) ==
  /\ proc' = [proc EXCEPT ![p] = After(proc[p], ok)]
  /\ Released(p)
  /\ LET r == proc[p].role
     IN IF proc[p].op = "attachRole" /\ ~ok /\ fed[r].live
        THEN SetStatus(r, "update_fail")
        ELSE UNCHANGED fed
------------------------------------------------------------------------------
(* Copying the template to a cluster: PerformSyncCluster, ReconcileResource *)

\* FetchClusterNamespace: a role is looked for in its namespace's row.
NamespaceFound(f, c) == f = FedNs \/ (fed[FedNs].live /\ row[FedNs][c] # NoRow)

\* ValidateJointCluster and IsResourceExist: an unbound joint row looks for a
\* row by the name of the object, a bound one only by the identity it knows.
Look(p) ==
  LET f == proc[p].fed
      c == proc[p].cl
  IN /\ proc[p].at = "look"
     /\ \/ \E j \in Attached(f, c) :
             /\ j.res = 0 => fed[f].live /\ NamespaceFound(f, c)
             /\ LET rid == IF j.res \in {0, row[f][c].id} THEN row[f][c].id ELSE 0
                IN proc' = [proc EXCEPT ![p] = [@ EXCEPT !.at = "apply", !.joint = j.id,
                                                         !.res = j.res, !.rid = rid]]
             /\ UNCHANGED <<fed, lock>>
        \/ /\ \A j \in Attached(f, c) : j.res = 0 /\ ~(fed[f].live /\ NamespaceFound(f, c))
           /\ Finish(p, FALSE)
     /\ UNCHANGED <<joint, remote, left, counters>>

\* SetResource, through the copy of the joint row.
Bind(p, rid) ==
  joint' = IF proc[p].res = rid THEN joint
           ELSE {IF j.id = proc[p].joint THEN [j EXCEPT !.res = rid] ELSE j : j \in joint}

\* updateResource up to the data of the update.
ApplyUpdate(p) ==
  LET f == proc[p].fed
  IN /\ proc[p].at = "apply"
     /\ proc[p].rid # 0
     /\ Bind(p, proc[p].rid)
     /\ IF fed[f].live
        THEN /\ proc' = [proc EXCEPT ![p] = [@ EXCEPT !.at = "post", !.data = Template(f)]]
             /\ UNCHANGED <<fed, lock>>
        ELSE Finish(p, FALSE)
     /\ UNCHANGED <<remote, left, counters>>

\* createResource up to DoCreate, which refuses a name that exists.
ApplyCreate(p) ==
  LET f == proc[p].fed
      c == proc[p].cl
  IN /\ proc[p].at = "apply"
     /\ proc[p].rid = 0
     /\ IF fed[f].live /\ NamespaceFound(f, c) /\ row[f][c] = NoRow
        THEN /\ made' = made + 1
             /\ row' = [row EXCEPT ![f][c] = [id |-> made + 1, st |-> "init"]]
             /\ proc' = [proc EXCEPT ![p] = [@ EXCEPT !.at = "post", !.rid = made + 1,
                                                      !.new = TRUE, !.data = Template(f)]]
             /\ UNCHANGED <<fed, lock>>
        ELSE Finish(p, FALSE) /\ UNCHANGED <<row, made>>
     /\ UNCHANGED <<joint, object, job, left, counters>>

\* SetResource of a new row; PostCreate, PostUpdate start the resource's task.
Post(p) ==
  LET s == proc[p]
  IN /\ s.at = "post"
     /\ IF s.new THEN Bind(p, s.rid) ELSE UNCHANGED joint
     /\ job' = job \cup {[fed |-> s.fed, cl |-> s.cl, rid |-> s.rid, new |-> s.new, data |-> s.data]}
     /\ Finish(p, TRUE)
     /\ UNCHANGED <<row, object, made, left, counters>>

------------------------------------------------------------------------------
(* Attaching: PerformAttachCluster, JustAttachCluster *)

\* ValidateAttachCluster, after GetElemModel of the namespace.
Check(p) ==
  LET f == proc[p].fed
  IN /\ proc[p].at = "check"
     /\ IF fed[FedNs].live /\ Attached(f, proc[p].cl) = {}
        THEN Goes(p, "attach") /\ UNCHANGED <<fed, lock>>
        ELSE Finish(p, FALSE)
     /\ UNCHANGED <<joint, remote, left, counters>>

\* Mutant: the joint row is not looked for again under the lock.
StillDetached(f, c) == TRUE

\* IsAttach2Cluster
Detached(f, c) == Attached(f, c) = {}

JustAttachCluster(p) ==
  LET f == proc[p].fed
  IN /\ proc[p].at = "attach"
     /\ LockFree(p, f)
     /\ IF Detached(f, proc[p].cl)
        THEN /\ lock' = [lock EXCEPT ![f] = p]
             /\ Goes(p, "insert")
             /\ UNCHANGED fed
        ELSE Finish(p, FALSE)
     /\ UNCHANGED <<joint, remote, left, counters>>

\* An identity is used again when nobody remembers it.
FreeJoints == Joints \ ({j.id : j \in joint} \cup {proc[q].joint : q \in Procs})

\* A task gives the lock back, a request keeps it to its end.
Insert(p) ==
  LET s == proc[p]
  IN /\ s.at = "insert"
     /\ FreeJoints # {}
     /\ joint' = joint \cup {[id |-> CHOOSE id \in FreeJoints : TRUE, fed |-> s.fed,
                              cl |-> s.cl, res |-> 0]}
     /\ IF s.op = "attachRole" THEN Released(p) ELSE UNCHANGED lock
     /\ Goes(p, "look")
     /\ UNCHANGED <<fed, remote, left, counters>>

\* ensureFedNamespaceAttached
Ensure(p) ==
  LET c == proc[p].cl
  IN /\ proc[p].at = "ensure"
     /\ IF ~fed[FedNs].live THEN Finish(p, FALSE)
        ELSE /\ Goes(p, IF Attached(FedNs, c) = {} THEN "check"
                        ELSE IF row[FedNs][c] = NoRow THEN "look" ELSE "wait")
             /\ UNCHANGED <<fed, lock>>
     /\ UNCHANGED <<joint, remote, left, counters>>

\* The loop that waits for the namespace gives up after five seconds.
WaitNamespace(p) ==
  LET c == proc[p].cl
  IN /\ proc[p].at = "wait"
     /\ IF fed[FedNs].live /\ row[FedNs][c].st = "active"
        THEN /\ proc' = [proc EXCEPT ![p] = [@ EXCEPT !.at = "check", !.fed = proc[p].role]]
             /\ UNCHANGED <<fed, lock>>
        ELSE Finish(p, FALSE)
     /\ UNCHANGED <<joint, remote, left, counters>>

------------------------------------------------------------------------------
(* FedResourceSyncTask, on its own or under a FedResourceUpdateTask *)

\* A stage loads the object and holds its lock; without the object it fails.
SyncInit(p) ==
  LET f == proc[p].fed
  IN /\ proc[p].at = "init"
     /\ LockFree(p, f)
     /\ IF fed[f].live
        THEN SetStatus(f, "syncing") /\ Goes(p, "list")
        ELSE UNCHANGED fed /\ proc' = [proc EXCEPT ![p] = Idle]
     /\ UNCHANGED <<joint, remote, lock, left, counters>>

\* GetAttachedClusters is asked once, then PerformSyncCluster for each: an error
\* is logged and the next one follows.
SyncNext(p) ==
  LET todo == IF proc[p].at = "list" THEN AttachedClusters(proc[p].fed) ELSE proc[p].todo
  IN /\ proc[p].at \in {"list", "next"}
     /\ \/ todo = {} /\ proc' = [proc EXCEPT ![p] = [@ EXCEPT !.at = "end", !.cl = 0]]
        \/ \E c \in todo :
             proc' = [proc EXCEPT ![p] = [@ EXCEPT !.at = "look", !.cl = c, !.todo = todo \ {c}]]
     /\ UNCHANGED <<fed, joint, remote, lock, left, counters>>

SyncComplete(p) ==
  LET f == proc[p].fed
  IN /\ proc[p].at = "end"
     /\ LockFree(p, f)
     /\ IF fed[f].live THEN SetStatus(f, "active") ELSE UNCHANGED fed
     /\ left' = left \ {f}
     /\ proc' = [proc EXCEPT ![p] = Idle]
     /\ UNCHANGED <<joint, remote, lock, counters>>

------------------------------------------------------------------------------
(* Requests.  The dispatcher loads the object and holds its lock. *)

Begins(p, f) ==
  /\ proc[p] = Idle
  /\ fed[f].live
  /\ lock[f] = 0

Counted == requests < MaxRequests /\ requests' = requests + 1

\* PerformAttachCluster of the namespace, PerformSyncCluster of any object.
RequestLocked(p) ==
  /\ \E f \in Feds, c \in Clusters :
       /\ Begins(p, f)
       /\ lock' = [lock EXCEPT ![f] = p]
       /\ \/ f = FedNs /\ proc' = [proc EXCEPT ![p] = [Idle EXCEPT !.op = "attach", !.at = "check",
                                                                   !.cl = c]]
          \/ proc' = [proc EXCEPT ![p] = [Idle EXCEPT !.op = "syncCluster", !.at = "look",
                                                      !.fed = f, !.cl = c]]
  /\ Counted
  /\ UNCHANGED <<fed, joint, remote, left, faults>>

\* PerformAttachCluster of a role: StartAttachClusterTask.
RequestAttachRole(p) ==
  /\ \E r \in Roles, c \in Clusters :
       /\ Begins(p, r)
       /\ proc' = [proc EXCEPT ![p] = [Idle EXCEPT !.op = "attachRole", !.at = "ensure",
                                                   !.role = r, !.cl = c]]
  /\ Counted
  /\ UNCHANGED <<fed, joint, remote, lock, left, faults>>

\* PerformSync: StartSyncTask.  SyncRepairs asks for any number of syncs of roles.
RequestSync(p) ==
  /\ \E f \in Feds :
       /\ Begins(p, f)
       /\ proc' = [proc EXCEPT ![p] = [Idle EXCEPT !.op = "sync", !.at = "init", !.fed = f]]
       /\ IF f \in Roles THEN UNCHANGED requests ELSE Counted
  /\ UNCHANGED <<fed, joint, remote, lock, left, faults>>

\* PostUpdate: StartUpdateTask.  No copy depends on the spec of a namespace.
RequestUpdate(p) ==
  /\ \E f \in Feds :
       /\ Begins(p, f)
       /\ fed' = IF f \in Roles THEN [fed EXCEPT ![f].spec = @ + 1] ELSE fed
       /\ proc' = [proc EXCEPT ![p] = [Idle EXCEPT !.op = "sync", !.at = "init", !.fed = f]]
  /\ Counted
  /\ UNCHANGED <<joint, remote, lock, left, faults>>

\* PerformDetachCluster, detachCluster: only the joint row goes.
RequestDetach(p) ==
  /\ \E f \in Feds, c \in Clusters : \E j \in Attached(f, c) :
       Begins(p, f) /\ joint' = joint \ {j}
  /\ Counted
  /\ UNCHANGED <<fed, remote, proc, lock, left, faults>>

\* ValidateDeleteCondition of an object, and of the namespace: the joint rows
\* of roles in it count, roles without one do not.
Deletable(f) ==
  /\ AttachedClusters(f) = {}
  /\ f = FedNs => \A j \in joint : j.fed \in Roles => ~fed[j.fed].live

RequestDelete(p) ==
  /\ \E f \in Feds :
       Begins(p, f) /\ Deletable(f) /\ fed' = [fed EXCEPT ![f].live = FALSE]
  /\ Counted
  /\ UNCHANGED <<joint, remote, proc, lock, left, faults>>

------------------------------------------------------------------------------
(* Tasks on the copies, the mirror, the clusters *)

\* ClusterResourceCreateTask, ClusterResourceUpdateTask: without the row they
\* end; the remote object must be missing, or be there, and a role needs its
\* namespace.
Accepted(t) ==
  /\ (object[t.fed][t.cl] = 0) = t.new
  /\ t.fed # FedNs => object[FedNs][t.cl] # 0

RunJob(t) ==
  LET set(ok) ==
        /\ object' = IF ok THEN [object EXCEPT ![t.fed][t.cl] = t.data] ELSE object
        /\ row' = [row EXCEPT ![t.fed][t.cl].st =
                     IF ok THEN "active" ELSE IF t.new THEN "create_fail" ELSE "update_fail"]
  IN /\ t \in job
     /\ job' = job \ {t}
     /\ IF row[t.fed][t.cl].id # t.rid
        THEN UNCHANGED <<row, object, faults>>
        ELSE \/ set(Accepted(t)) /\ UNCHANGED faults
             \/ faults < MaxFaults /\ faults' = faults + 1 /\ set(FALSE)
     /\ UNCHANGED <<fed, joint, proc, lock, made, left, requests>>

\* The mirror gives an object without a row a new one, and a row the status of
\* its object.
MirrorUpdate ==
  /\ \E f \in Feds, c \in Clusters :
       /\ object[f][c] # 0
       /\ row[f][c].st # "active"
       /\ IF row[f][c] = NoRow
          THEN /\ NamespaceFound(f, c)
               /\ made' = made + 1
               /\ row' = [row EXCEPT ![f][c] = [id |-> made + 1, st |-> "active"]]
          ELSE row' = [row EXCEPT ![f][c].st = "active"] /\ UNCHANGED made
  /\ UNCHANGED <<fed, joint, object, job, proc, lock, left, counters>>

\* Somebody is about to make the object of the row.
Expected(f, c) ==
  \/ \E t \in job : t.new /\ t.rid = row[f][c].id
  \/ \E p \in Procs : proc[p].at = "post" /\ proc[p].new /\ proc[p].rid = row[f][c].id

\* It removes rows whose object a pass did not see, unless their status says
\* that something failed.  A pass that overtakes the creation of the object
\* counts as a fault: a sync that is overtaken each time repairs nothing.
MirrorRemove ==
  /\ \E f \in Feds, c \in Clusters :
       /\ row[f][c].st \in {"init", "active"}
       /\ object[f][c] = 0
       /\ row' = [row EXCEPT ![f][c] = NoRow]
       /\ IF Expected(f, c) THEN faults < MaxFaults /\ faults' = faults + 1
          ELSE UNCHANGED faults
  /\ UNCHANGED <<fed, joint, object, job, proc, lock, made, left, requests>>

\* Somebody deletes an object in a cluster; a namespace takes its roles along.
ExternalDelete ==
  /\ faults < MaxFaults
  /\ faults' = faults + 1
  /\ \E f \in Feds, c \in Clusters :
       /\ object[f][c] # 0
       /\ object' = [g \in Feds |-> [object[g] EXCEPT ![c] = IF f \in {g, FedNs} THEN 0 ELSE @]]
  /\ UNCHANGED <<fed, joint, row, job, proc, lock, made, left, requests>>

\* kubeserver restarts; tasks are not resumed.
Crash ==
  /\ faults < MaxFaults
  /\ faults' = faults + 1
  /\ left' = {f \in Feds : fed[f].status = "syncing"}
  /\ proc' = [p \in Procs |-> Idle]
  /\ lock' = [f \in Feds |-> 0]
  /\ job' = {}
  /\ UNCHANGED <<fed, joint, row, object, made, requests>>

------------------------------------------------------------------------------
Init ==
  /\ fed = [f \in Feds |-> [live |-> TRUE, status |-> "active", spec |-> 1]]
  /\ joint = {}
  /\ row = [f \in Feds |-> [c \in Clusters |-> NoRow]]
  /\ object = [f \in Feds |-> [c \in Clusters |-> 0]]
  /\ job = {}
  /\ proc = [p \in Procs |-> Idle]
  /\ lock = [f \in Feds |-> 0]
  /\ made = 0
  /\ left = {}
  /\ requests = 0 /\ faults = 0

Request(p) ==
  \/ RequestLocked(p) \/ RequestAttachRole(p) \/ RequestSync(p)
  \/ RequestUpdate(p) \/ RequestDetach(p) \/ RequestDelete(p)

Step(p) ==
  \/ Look(p) \/ ApplyUpdate(p) \/ ApplyCreate(p) \/ Post(p)
  \/ Check(p) \/ JustAttachCluster(p) \/ Insert(p) \/ Ensure(p) \/ WaitNamespace(p)
  \/ SyncInit(p) \/ SyncNext(p) \/ SyncComplete(p)

Next ==
  \/ \E p \in Procs : Request(p) \/ Step(p)
  \/ \E t \in job : RunJob(t)
  \/ MirrorUpdate \/ MirrorRemove \/ ExternalDelete \/ Crash

\* Workers run requests, tasks and the tasks of copies.  Users, clusters, the
\* mirror and crashes owe nothing.
Fairness ==
  /\ \A p \in Procs : WF_vars(Step(p))
  /\ \A f \in Feds, c \in Clusters : WF_vars(\E t \in job : t.fed = f /\ t.cl = c /\ RunJob(t))

Spec == Init /\ [][Next]_vars /\ Fairness

------------------------------------------------------------------------------
(* Properties *)

FedStatuses == {"active", "syncing", "update_fail"}
Labels == {"idle", "check", "attach", "insert", "look", "apply", "post", "ensure", "wait",
           "init", "list", "next", "end"}
Proc == [op : {"idle", "attach", "syncCluster", "attachRole", "sync"}, at : Labels,
         fed : Feds, role : Feds, cl : Clusters \cup {0}, todo : SUBSET Clusters,
         joint : Joints \cup {0}, res : Nat, rid : Nat, new : BOOLEAN, data : Nat]
Joint == [id : Joints, fed : Feds, cl : Clusters, res : Nat]
Job   == [fed : Feds, cl : Clusters, rid : Nat, new : BOOLEAN, data : Nat]

\* Type invariant of the federated objects, joint rows, copies and workers.
TypeOK ==
  /\ fed \in [Feds -> [live : BOOLEAN, status : FedStatuses, spec : Nat]]
  /\ joint \subseteq Joint
  /\ row \in [Feds -> [Clusters -> [id : Nat, st : {"none", "init", "active", "create_fail", "update_fail"}]]]
  /\ object \in [Feds -> [Clusters -> Nat]]
  /\ job \subseteq Job
  /\ proc \in [Procs -> Proc]
  /\ lock \in [Feds -> Procs \cup {0}]
  /\ made \in Nat /\ left \subseteq Feds
  /\ requests \in 0..MaxRequests /\ faults \in 0..MaxFaults

\* An object is attached to a cluster once, though attach tasks decide about it
\* before they have the lock and users attach the same namespace meanwhile.
AttachedOnce == \A j, k \in joint : j.fed = k.fed /\ j.cl = k.cl => j = k

\* An object is "syncing" only while a sync task is on its way, or when a crash
\* cut one off.
SyncingHonest ==
  \A f \in Feds : fed[f].live /\ fed[f].status = "syncing" =>
    f \in left \/ \E p \in Procs : proc[p].op = "sync" /\ proc[p].fed = f

\* A copy that no sync repairs: its namespace is gone; or its joint row names a
\* row that is gone while another has its name; or its row exists and the
\* object does not.
Stuck(j) ==
  LET r == row[j.fed][j.cl]
  IN \/ ~NamespaceFound(j.fed, j.cl)
     \/ r # NoRow /\ (j.res \notin {0, r.id} \/ object[j.fed][j.cl] = 0)

Current(j) == ~fed[j.fed].live \/ object[j.fed][j.cl] = Template(j.fed)

\* Whatever crossed, failed or was cut off before: if a role is synced again
\* and again, its template reaches every cluster it is attached to, unless the
\* copy is one of those above.
SyncRepairs ==
  \A r \in Roles :
    []<>(\E p \in Procs : proc[p].op = "sync" /\ proc[p].fed = r) =>
      <>[](\A j \in joint : j.fed = r => Current(j) \/ Stuck(j))
=============================================================================
