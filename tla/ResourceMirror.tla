---------------------------- MODULE ResourceMirror ----------------------------
(***************************************************************************)
(* How kubeserver keeps the database rows of one kind of cluster-scoped    *)
(* Kubernetes object in step with the objects of a cluster.  Three kinds   *)
(* of actor write the rows, with no lock that covers them all:             *)
(*                                                                         *)
(*   - the informer's event handler (client/cache.go), active only while   *)
(*     bidirectionalSync is set;                                           *)
(*   - full sync passes (SubmitSyncTask, syncClusterResources), which      *)
(*     clear the flag, list, compare, apply and set the flag again;        *)
(*   - the create, update and delete tasks a user's request starts         *)
(*     (tasks/cluster_resource_task.go, cluster_resource_sync_task.go).    *)
(*                                                                         *)
(* The cluster is a log of changes.  A change's position is the resource   *)
(* version of the object it leaves; the UID of an object is the version at *)
(* which it was created.  The informer's cache is the state after the      *)
(* first `seen' changes, and its handler has processed the first           *)
(* `handled'.  A writer works on the copy of the row it read (db objects   *)
(* are not re-read by UpdateWithLock), and an update writes the columns in *)
(* which the copy changed.                                                 *)
(***************************************************************************)
EXTENDS Naturals, Sequences, FiniteSets

CONSTANTS Names,         \* object names
          RowIds,        \* identifiers available for rows
          Workers,       \* sync passes that may overlap
          MaxExternal,   \* bound on changes made by others in the cluster
          MaxOps,        \* bound on requests by users
          ParseLimit     \* largest version strconv.ParseInt(v, 10, 32) returns

ASSUME BoundsAssumption ==
  MaxExternal \in Nat /\ MaxOps \in Nat /\ ParseLimit \in Nat \ {0}
ASSUME RowIdsAssumption == 0 \notin RowIds

VARIABLES log,       \* changes made in the cluster, in order
          seen,      \* changes the informer's cache has applied
          handled,   \* changes the event handler has processed
          bidir,     \* CacheFactory.bidirectionalSync
          ev,        \* the event handler between its check and its write
          rows,      \* the database table of this kind
          task,      \* the task running for each row
          sync,      \* the sync passes
          ext, ops   \* external changes and user requests so far

vars == <<log, seen, handled, bidir, ev, rows, task, sync, ext, ops>>

------------------------------------------------------------------------------
(* The cluster and the informer *)

NoObj == [uid |-> 0, rv |-> 0]

\* The object named n after the first k changes, as UID and version.
ObjAt(n, k) ==
  LET mine == {m \in 1..k : log[m].name = n}
      last == CHOOSE m \in mine : \A x \in mine : x <= m
  IN  IF mine = {} THEN NoObj
      ELSE IF log[last].type = "delete" THEN NoObj
      ELSE [uid |-> log[last].uid, rv |-> last]

Remote(n) == ObjAt(n, Len(log))
Cached(n) == ObjAt(n, seen)
Exists(o) == o.uid # 0

\* The name of the object with this UID.
NameOf(uid) == log[uid].name

\* The API server accepts a change of the object named n.
Change(type, n) ==
  log' = Append(log, [type |-> type, name |-> n,
                      uid |-> IF type = "add" THEN Len(log) + 1
                              ELSE Remote(n).uid])

\* Other clients of the cluster: kubectl, controllers, the garbage collector.
KubeChange(n) ==
  /\ ext < MaxExternal
  /\ ext' = ext + 1
  /\ \/ ~Exists(Remote(n)) /\ Change("add", n)
     \/ Exists(Remote(n)) /\ Change("update", n)
     \/ Exists(Remote(n)) /\ Change("delete", n)
  /\ UNCHANGED <<seen, handled, bidir, ev, rows, task, sync, ops>>

\* The watch delivers the next change: the cache first, the handler later.
InformerDeliver ==
  /\ seen < Len(log)
  /\ seen' = seen + 1
  /\ UNCHANGED <<log, handled, bidir, ev, rows, task, sync, ext, ops>>

------------------------------------------------------------------------------
(* Rows *)

NoRow == [name |-> "", uid |-> 0, rv |-> 0, status |-> "absent"]

FailStatus == {"create_fail", "update_fail", "delete_fail", "sync_fail"}
BusyStatus == {"init", "creating", "updating", "deleting", "syncing"}
Status     == FailStatus \cup BusyStatus \cup {"active", "absent"}

IsLive(r) == rows[r] # NoRow

\* Mutant: FilterByName is left out of the query.
RowsOfCluster(n) == {r \in RowIds : IsLive(r)}

\* FetchClusterResourceByName and GetByName: the rows with this name.
RowsNamed(n) == {r \in RowIds : IsLive(r) /\ rows[r].name = n}

\* Mutant: a version out of range reads as zero.
ParseOrZero(v) == IF v > ParseLimit THEN 0 ELSE v

\* strconv.ParseInt(v, 10, 32) with its range error ignored.
ParseVersion(v) == IF v > ParseLimit THEN ParseLimit ELSE v

\* Mutant: an object at the version of the copy is refused as well.
AcceptsNewer(copy, o) == ParseVersion(o.rv) > ParseVersion(copy.rv)

\* UpdateFromRemoteObject refuses an object older than the copy of the row.
Accepts(copy, o) == ParseVersion(o.rv) >= ParseVersion(copy.rv)

\* Mutant: the phase of the remote object becomes the status.
RemotePhase(copy) == "Active"

\* SetStatusByRemoteObject
SetStatusByRemoteObject(copy) == "active"

\* The row after UpdateFromRemoteObject of a copy: version, external id and
\* status, each written only if it differs from the copy.  (The name never
\* does: the callers find the row by the object's name or by its UID, and a
\* UID has one name.)
Merge(row, copy, o) ==
  [row EXCEPT !.uid    = IF o.uid # copy.uid THEN o.uid ELSE @,
              !.rv     = IF o.rv # copy.rv THEN o.rv ELSE @,
              !.status = LET s == SetStatusByRemoteObject(copy)
                         IN  IF copy.status # s THEN s ELSE @]

UpdateFromRemoteObject(r, copy, o) ==
  rows' = IF IsLive(r) /\ Accepts(copy, o)
          THEN [rows EXCEPT ![r] = Merge(@, copy, o)]
          ELSE rows

\* Mutant: the condition is inverted.
SkipsSettled(copy) == copy.status \notin FailStatus

\* SyncRemovedClusterResource decides by the status of the copy.
SkipsRemoval(copy) == copy.status \in FailStatus

SyncRemovedClusterResource(r, copy) ==
  rows' = IF SkipsRemoval(copy) THEN rows ELSE [rows EXCEPT ![r] = NoRow]

\* A fresh row identifier: one that no actor still holds.
FreeRow(r) ==
  /\ ~IsLive(r)
  /\ task[r].kind = "none"
  /\ ev.row # r
  /\ \A w \in Workers : r \notin sync[w].removed \cup sync[w].common

\* The class lock is held by the event handler from its check to its write,
\* and by a pass from its insert to the first update of the new row; everyone
\* who inserts a row takes it (one domain, so one lock key).
ClassLockFree ==
  /\ ev.pc \in {"idle", "start"}
  /\ \A w \in Workers : sync[w].pc # "insert"

\* Mutant: IsRemoteObjectLocalExist is not asked again under the lock.
NameNeverTaken(n) == FALSE

\* IsRemoteObjectLocalExist, and the uniqueness check of a create request.
NameTaken(n) == RowsNamed(n) # {}

\* The row the manager's NewFromRemoteObject makes: name and external id, no
\* version yet, the status a table gives its new rows.
NewRow(n, o) == [name |-> n, uid |-> o.uid, rv |-> 0, status |-> "init"]

\* NewFromRemoteObject, under the class lock: the check and the insert.  The
\* first UpdateFromRemoteObject, on the inserted copy, is a step of its own.
NewFromRemoteObject(r, n, o) ==
  /\ ~NameTaken(n)
  /\ FreeRow(r)
  /\ rows' = [rows EXCEPT ![r] = NewRow(n, o)]

------------------------------------------------------------------------------
(* The informer's event handler *)

EvIdle == [pc |-> "idle", row |-> 0, copy |-> NoRow]

NextEvent == log[handled + 1]
EventObj  == [uid |-> NextEvent.uid, rv |-> handled + 1]

\* eventHandler.run returns at once while bidirectional sync is off.
EventDrop ==
  /\ ev = EvIdle
  /\ handled < seen
  /\ ~bidir
  /\ handled' = handled + 1
  /\ UNCHANGED <<log, seen, bidir, ev, rows, task, sync, ext, ops>>

\* The flag is read before the class lock is taken: it may be cleared before
\* the handler goes on.
EventStart ==
  /\ ev = EvIdle
  /\ handled < seen
  /\ bidir
  /\ ev' = [EvIdle EXCEPT !.pc = "start"]
  /\ UNCHANGED <<log, seen, handled, bidir, rows, task, sync, ext, ops>>

\* With the class lock: the check by name of processCreateOrUpdateByRemoteObject
\* and of processRemoteObjectDelete, which returns when there is no row.
EventLookup ==
  /\ ev.pc = "start"
  /\ ClassLockFree
  /\ \/ /\ RowsNamed(NextEvent.name) = {}
        /\ IF NextEvent.type = "delete"
           THEN ev' = EvIdle /\ handled' = handled + 1
           ELSE ev' = [EvIdle EXCEPT !.pc = "create"] /\ handled' = handled
     \/ \E r \in RowsNamed(NextEvent.name) :
          /\ handled' = handled
          /\ ev' = [pc |-> IF NextEvent.type = "delete" THEN "delete"
                           ELSE "update",
                    row |-> r, copy |-> rows[r]]
  /\ UNCHANGED <<log, seen, bidir, rows, task, sync, ext, ops>>

\* No row has the name, nor can one get it before the insert, which needs the
\* lock; the new row is then updated like one that was found.
EventInsert ==
  /\ ev.pc = "create"
  /\ \E r \in RowIds :
       /\ NewFromRemoteObject(r, NextEvent.name, EventObj)
       /\ ev' = [pc |-> "update", row |-> r,
                 copy |-> NewRow(NextEvent.name, EventObj)]
  /\ UNCHANGED <<log, seen, handled, bidir, task, sync, ext, ops>>

\* The write that follows, on the copy of the row found or inserted.
EventApply ==
  /\ \/ ev.pc = "update" /\ UpdateFromRemoteObject(ev.row, ev.copy, EventObj)
     \/ ev.pc = "delete" /\ SyncRemovedClusterResource(ev.row, ev.copy)
  /\ ev' = EvIdle
  /\ handled' = handled + 1
  /\ UNCHANGED <<log, seen, bidir, task, sync, ext, ops>>

------------------------------------------------------------------------------
(* Full sync *)

SyncIdle == [pc |-> "idle", pos |-> 0, copy |-> [r \in RowIds |-> NoRow],
             removed |-> {}, common |-> {}, added |-> {}, err |-> FALSE]

\* SubmitSyncTask: events are switched off before the pass is queued.
SyncSubmit(w) ==
  /\ sync[w].pc = "idle"
  /\ bidir' = FALSE
  /\ sync' = [sync EXCEPT ![w].pc = "queued"]
  /\ UNCHANGED <<log, seen, handled, ev, rows, task, ext, ops>>

\* ListRemoteObjects reads the informer's cache.
SyncList(w) ==
  /\ sync[w].pc = "queued"
  /\ sync' = [sync EXCEPT ![w].pc = "listed", ![w].pos = seen]
  /\ UNCHANGED <<log, seen, handled, bidir, ev, rows, task, ext, ops>>

\* taskman.TaskManager.IsInTask: a task has been created for the row.
InTask(r) == task[r].kind # "none" /\ task[r].step # "post"

ListedUids(k) == {ObjAt(n, k).uid : n \in Names} \ {0}
RowUids == {rows[r].uid : r \in {x \in RowIds : IsLive(x)}}

\* GetClusterModelObjects, the check that no row is in a task (the pass ends
\* in error and leaves the flag off), CompareRemoteObjectSets.
SyncQuery(w) ==
  LET k    == sync[w].pos
      live == {r \in RowIds : IsLive(r)}
  IN
  /\ sync[w].pc = "listed"
  /\ \/ /\ \E r \in live : InTask(r)
        /\ sync' = [sync EXCEPT ![w] = SyncIdle]
     \/ /\ \A r \in live : ~InTask(r)
        /\ sync' = [sync EXCEPT ![w] =
             [pc |-> "apply", pos |-> k,
              copy |-> rows,
              removed |-> {r \in live : rows[r].uid \notin ListedUids(k)},
              common |-> {r \in live : rows[r].uid \in ListedUids(k)},
              added |-> {n \in Names : Exists(ObjAt(n, k))
                                       /\ ObjAt(n, k).uid \notin RowUids},
              err |-> FALSE]]
  /\ UNCHANGED <<log, seen, handled, bidir, ev, rows, task, ext, ops>>

SyncRemove(w, r) ==
  /\ sync[w].pc = "apply"
  /\ r \in sync[w].removed
  /\ SyncRemovedClusterResource(r, sync[w].copy[r])
  /\ sync' = [sync EXCEPT ![w].removed = @ \ {r}]
  /\ UNCHANGED <<log, seen, handled, bidir, ev, task, ext, ops>>

\* The listed object paired with row r: the one with its external id.
PairedObj(w, r) == ObjAt(NameOf(sync[w].copy[r].uid), sync[w].pos)

\* The update of a common row, or the first one of the row just inserted.
SyncUpdate(w, r) ==
  /\ sync[w].pc \in {"apply", "insert"}
  /\ sync[w].removed = {}
  /\ r \in sync[w].common
  /\ UpdateFromRemoteObject(r, sync[w].copy[r], PairedObj(w, r))
  /\ sync' = [sync EXCEPT
       ![w].pc = "apply",
       ![w].common = @ \ {r},
       ![w].err = @ \/ ~Accepts(sync[w].copy[r], PairedObj(w, r))]
  /\ UNCHANGED <<log, seen, handled, bidir, ev, task, ext, ops>>

\* A name that has got a row meanwhile is an error of the pass.
SyncAdd(w, n) ==
  /\ sync[w].pc = "apply"
  /\ sync[w].removed = {} /\ sync[w].common = {}
  /\ n \in sync[w].added
  /\ ClassLockFree
  /\ \/ /\ NameTaken(n)
        /\ sync' = [sync EXCEPT ![w].added = @ \ {n}, ![w].err = TRUE]
        /\ UNCHANGED rows
     \/ \E r \in RowIds :
          LET o == ObjAt(n, sync[w].pos) IN
          /\ NewFromRemoteObject(r, n, o)
          /\ sync' = [sync EXCEPT ![w].pc = "insert",
                                  ![w].added = @ \ {n},
                                  ![w].common = {r},
                                  ![w].copy = [@ EXCEPT ![r] = NewRow(n, o)]]
  /\ UNCHANGED <<log, seen, handled, bidir, ev, task, ext, ops>>

\* EnableBidirectionalSync is reached only when the pass met no error.
Reenable(err) == bidir' = (bidir \/ ~err)

SyncFinish(w) ==
  /\ sync[w].pc = "apply"
  /\ sync[w].removed = {} /\ sync[w].common = {} /\ sync[w].added = {}
  /\ Reenable(sync[w].err)
  /\ sync' = [sync EXCEPT ![w] = SyncIdle]
  /\ UNCHANGED <<log, seen, handled, ev, rows, task, ext, ops>>

------------------------------------------------------------------------------
(* Requests of users and the tasks they start *)

NoTask == [kind |-> "none", step |-> "none", copy |-> NoRow, obj |-> NoObj]

SetStatus(r, s) == IF IsLive(r) THEN [rows EXCEPT ![r].status = s] ELSE rows

EndTask(r) == task' = [task EXCEPT ![r] = NoTask]

\* SetObjectTaskFailed
FailTask(r, s) == rows' = SetStatus(r, s) /\ EndTask(r)

\* A create request inserts the row; PostCreate starts the task afterwards.
UserCreate(n) ==
  /\ ops < MaxOps
  /\ ClassLockFree
  /\ ~NameTaken(n)
  /\ \E r \in RowIds :
       /\ FreeRow(r)
       /\ rows' = [rows EXCEPT ![r] =
                    [name |-> n, uid |-> 0, rv |-> 0, status |-> "init"]]
       /\ task' = [task EXCEPT ![r] =
                    [NoTask EXCEPT !.kind = "create", !.step = "post"]]
  /\ ops' = ops + 1
  /\ UNCHANGED <<log, seen, handled, bidir, ev, sync, ext>>

\* PostCreate and ClusterResourceCreateTask.OnInit.  The task keeps the copy
\* of the row it loaded; the row itself may be gone by now.
CreateStart(r) ==
  /\ task[r].kind = "create" /\ task[r].step = "post"
  /\ rows' = SetStatus(r, "creating")
  /\ IF IsLive(r)
     THEN task' = [task EXCEPT ![r].step = "remote", ![r].copy = rows'[r]]
     ELSE EndTask(r)
  /\ UNCHANGED <<log, seen, handled, bidir, ev, sync, ext, ops>>

\* CreateRemoteObject: the API server's answer, or an error of the request.
CreateRemote(r) ==
  LET n == task[r].copy.name IN
  /\ task[r].kind = "create" /\ task[r].step = "remote"
  /\ \/ /\ ~Exists(Remote(n))
        /\ Change("add", n)
        /\ task' = [task EXCEPT ![r].step = "apply",
                                ![r].obj = [uid |-> Len(log) + 1,
                                            rv |-> Len(log) + 1]]
        /\ UNCHANGED rows
     \/ FailTask(r, "create_fail") /\ UNCHANGED log
  /\ UNCHANGED <<seen, handled, bidir, ev, sync, ext, ops>>

\* UpdateFromRemoteObject after CreateRemoteObject; OnCreateComplete then
\* starts ClusterResourceSyncTask, whose OnInit loads the row again.
CreateApply(r) ==
  /\ task[r].kind = "create" /\ task[r].step = "apply"
  /\ UpdateFromRemoteObject(r, task[r].copy, task[r].obj)
  /\ task' = [task EXCEPT ![r].step = "sync"]
  /\ UNCHANGED <<log, seen, handled, bidir, ev, sync, ext, ops>>

CreateSync(r) ==
  /\ task[r].kind = "create" /\ task[r].step = "sync"
  /\ rows' = SetStatus(r, "syncing")
  /\ IF IsLive(r)
     THEN task' = [task EXCEPT ![r].step = "syncget", ![r].copy = rows'[r]]
     ELSE EndTask(r)
  /\ UNCHANGED <<log, seen, handled, bidir, ev, sync, ext, ops>>

\* PerformSyncResource reads the object from the informer's cache, which may
\* not have it yet.
SyncGet(r) ==
  LET o == Cached(task[r].copy.name) IN
  /\ task[r].step = "syncget"
  /\ IF Exists(o)
     THEN /\ task' = [task EXCEPT ![r].step = "syncapply", ![r].obj = o]
          /\ UNCHANGED rows
     ELSE FailTask(r, "sync_fail")
  /\ UNCHANGED <<log, seen, handled, bidir, ev, sync, ext, ops>>

SyncApply(r) ==
  /\ task[r].step = "syncapply"
  /\ IF Accepts(task[r].copy, task[r].obj)
     THEN UpdateFromRemoteObject(r, task[r].copy, task[r].obj) /\ EndTask(r)
     ELSE FailTask(r, "sync_fail")
  /\ UNCHANGED <<log, seen, handled, bidir, ev, sync, ext, ops>>

\* PostUpdate and ClusterResourceUpdateTask.OnInit
UserUpdate(r) ==
  /\ ops < MaxOps
  /\ IsLive(r) /\ task[r].kind = "none"
  /\ rows' = SetStatus(r, "updating")
  /\ task' = [task EXCEPT ![r] = [kind |-> "update", step |-> "get",
                                  copy |-> rows'[r], obj |-> NoObj]]
  /\ ops' = ops + 1
  /\ UNCHANGED <<log, seen, handled, bidir, ev, sync, ext>>

\* GetRemoteObject reads the cache.
UpdateGet(r) ==
  LET o == Cached(task[r].copy.name) IN
  /\ task[r].kind = "update" /\ task[r].step = "get"
  /\ IF Exists(o)
     THEN /\ task' = [task EXCEPT ![r].step = "put", ![r].obj = o]
          /\ UNCHANGED rows
     ELSE FailTask(r, "update_fail")
  /\ UNCHANGED <<log, seen, handled, bidir, ev, sync, ext, ops>>

\* UpdateV2 puts the object with the version it was read at: the API server
\* refuses it when the object has changed since; the request may also fail.
\* The object is read once more from the cache, which holds either the cached
\* state or the answer decoded into the cached object.
UpdatePut(r) ==
  LET n == task[r].copy.name IN
  /\ task[r].kind = "update" /\ task[r].step = "put"
  /\ \/ /\ Remote(n) = task[r].obj
        /\ Change("update", n)
        /\ \E o \in {Cached(n), [task[r].obj EXCEPT !.rv = Len(log) + 1]} :
             task' = [task EXCEPT ![r].step = "apply", ![r].obj = o]
        /\ UNCHANGED rows
     \/ FailTask(r, "update_fail") /\ UNCHANGED log
  /\ UNCHANGED <<seen, handled, bidir, ev, sync, ext, ops>>

UpdateApply(r) ==
  /\ task[r].kind = "update" /\ task[r].step = "apply"
  /\ IF Exists(task[r].obj) /\ Accepts(task[r].copy, task[r].obj)
     THEN UpdateFromRemoteObject(r, task[r].copy, task[r].obj) /\ EndTask(r)
     ELSE FailTask(r, "update_fail")
  /\ UNCHANGED <<log, seen, handled, bidir, ev, sync, ext, ops>>

\* PostDelete and ClusterResourceDeleteTask.OnInit
UserDelete(r) ==
  /\ ops < MaxOps
  /\ IsLive(r) /\ task[r].kind = "none"
  /\ rows' = SetStatus(r, "deleting")
  /\ task' = [task EXCEPT ![r] = [kind |-> "delete", step |-> "remote",
                                  copy |-> rows'[r], obj |-> NoObj]]
  /\ ops' = ops + 1
  /\ UNCHANGED <<log, seen, handled, bidir, ev, sync, ext>>

\* DeleteRemoteObject deletes by name, whatever incarnation has it; an object
\* with finalizers is only marked; NotFound counts as success.
DeleteRemote(r) ==
  LET n == task[r].copy.name IN
  /\ task[r].kind = "delete" /\ task[r].step = "remote"
  /\ \/ /\ Exists(Remote(n))
        /\ Change("delete", n) \/ Change("update", n)
        /\ task' = [task EXCEPT ![r].step = "purge"]
        /\ UNCHANGED rows
     \/ /\ ~Exists(Remote(n))
        /\ task' = [task EXCEPT ![r].step = "purge"]
        /\ UNCHANGED <<rows, log>>
     \/ FailTask(r, "delete_fail") /\ UNCHANGED log
  /\ UNCHANGED <<seen, handled, bidir, ev, sync, ext, ops>>

\* OnDeleteComplete
DeletePurge(r) ==
  /\ task[r].kind = "delete" /\ task[r].step = "purge"
  /\ rows' = [rows EXCEPT ![r] = NoRow]
  /\ EndTask(r)
  /\ UNCHANGED <<log, seen, handled, bidir, ev, sync, ext, ops>>

\* PerformPurge drops the row alone, even under a task.
UserPurge(r) ==
  /\ ops < MaxOps
  /\ IsLive(r)
  /\ rows' = [rows EXCEPT ![r] = NoRow]
  /\ ops' = ops + 1
  /\ UNCHANGED <<log, seen, handled, bidir, ev, task, sync, ext>>
------------------------------------------------------------------------------

Init ==
  /\ log = <<>>
  /\ seen = 0
  /\ handled = 0
  /\ bidir = FALSE
  /\ ev = EvIdle
  /\ rows = [r \in RowIds |-> NoRow]
  /\ task = [r \in RowIds |-> NoTask]
  /\ sync = [w \in Workers |-> SyncIdle]
  /\ ext = 0
  /\ ops = 0

Event ==
  \/ EventDrop \/ EventStart \/ EventLookup \/ EventInsert \/ EventApply

SyncStep(w) ==
  \/ SyncList(w) \/ SyncQuery(w) \/ SyncFinish(w)
  \/ \E r \in RowIds : SyncRemove(w, r) \/ SyncUpdate(w, r)
  \/ \E n \in Names : SyncAdd(w, n)

TaskStep(r) ==
  \/ CreateStart(r) \/ CreateRemote(r) \/ CreateApply(r) \/ CreateSync(r)
  \/ SyncGet(r) \/ SyncApply(r)
  \/ UpdateGet(r) \/ UpdatePut(r) \/ UpdateApply(r)
  \/ DeleteRemote(r) \/ DeletePurge(r)

User ==
  \/ \E n \in Names : UserCreate(n)
  \/ \E r \in RowIds : UserUpdate(r) \/ UserDelete(r) \/ UserPurge(r)

Next ==
  \/ \E n \in Names : KubeChange(n)
  \/ InformerDeliver
  \/ Event
  \/ \E w \in Workers : SyncSubmit(w) \/ SyncStep(w)
  \/ \E r \in RowIds : TaskStep(r)
  \/ User

\* Fairness: the informer, its handler, the task workers and the sync workers
\* keep running, and the cron job submits a pass every 30 minutes.  Users and
\* other clients of the cluster may stop at any time.
Fairness ==
  /\ WF_vars(InformerDeliver)
  /\ WF_vars(Event)
  /\ \A w \in Workers : WF_vars(SyncSubmit(w)) /\ WF_vars(SyncStep(w))
  /\ \A r \in RowIds : WF_vars(TaskStep(r))

Spec == Init /\ [][Next]_vars /\ Fairness

------------------------------------------------------------------------------
(* Properties *)

Obj == [uid : Nat, rv : Nat]

Row == [name : Names \cup {""}, uid : Nat, rv : Nat, status : Status]

TaskKinds == {"none", "create", "update", "delete"}
TaskSteps == {"none", "post", "remote", "apply", "sync", "syncget", "syncapply",
              "get", "put", "purge"}

LogEntry == [type : {"add", "update", "delete"}, name : Names, uid : Nat]
EvState  == [pc : {"idle", "start", "create", "update", "delete"},
             row : RowIds \cup {0}, copy : Row]
TaskState == [kind : TaskKinds, step : TaskSteps, copy : Row, obj : Obj]
SyncState == [pc : {"idle", "queued", "listed", "apply", "insert"}, pos : Nat,
              copy : [RowIds -> Row], removed : SUBSET RowIds,
              common : SUBSET RowIds, added : SUBSET Names, err : BOOLEAN]

\* Type invariant of the cluster's log, the rows and every actor's local state:
\* statuses are those of api/clusterresource.go, and the handler and the passes
\* never run ahead of the informer.
TypeOK ==
  /\ log \in Seq(LogEntry)
  /\ seen \in 0..Len(log)
  /\ handled \in 0..seen
  /\ bidir \in BOOLEAN
  /\ ev \in EvState
  /\ rows \in [RowIds -> Row]
  /\ task \in [RowIds -> TaskState]
  /\ sync \in [Workers -> SyncState]
  /\ \A w \in Workers : sync[w].pos <= Len(log)
  /\ ext \in 0..MaxExternal
  /\ ops \in 0..MaxOps

\* No two rows have the same name, whoever inserts them: the event handler, two
\* overlapping sync passes or a create request (IsRemoteObjectLocalExist and
\* the insert are one critical section of the class lock).
UniqueName ==
  \A r, s \in RowIds :
    IsLive(r) /\ IsLive(s) /\ rows[r].name = rows[s].name => r = s

\* A row never carries the identity or the version of another object: its
\* external id is the UID of some object that had its name, its version one
\* that such an object had.
Genuine ==
  \A r \in RowIds : IsLive(r) =>
    /\ rows[r].uid # 0 => /\ rows[r].uid \in 1..Len(log)
                          /\ log[rows[r].uid].type = "add"
                          /\ log[rows[r].uid].name = rows[r].name
    /\ rows[r].rv # 0 => /\ rows[r].rv \in 1..Len(log)
                         /\ log[rows[r].rv].type # "delete"
                         /\ log[rows[r].rv].name = rows[r].name

\* The row named n is the mirror of the object named n, or both are absent.
Agrees(n) ==
  IF Exists(Remote(n))
  THEN \E r \in RowIds : /\ RowsNamed(n) = {r}
                         /\ rows[r].uid = Remote(n).uid
                         /\ rows[r].rv = Remote(n).rv
                         /\ rows[r].status = "active"
  ELSE RowsNamed(n) = {}

\* A row left by a failed task whose external id is not that of the object:
\* SyncRemovedClusterResource keeps it and its name blocks the insert.
StuckRow(n) ==
  \E r \in RowsNamed(n) :
    /\ rows[r].status \in FailStatus
    /\ Exists(Remote(n)) => rows[r].uid # Remote(n).uid

\* Once users and cluster are quiet, every name without such a row is mirrored
\* exactly and stays so, whatever events were dropped and whichever stale copy
\* was written last.
Converges == <>[](\A n \in Names : StuckRow(n) \/ Agrees(n))

\* Unless such a row remains, events are handled again and again: a pass that
\* fails and leaves the flag off is followed by one that sets it.
EventsResume == <>[](\A n \in Names : ~StuckRow(n)) => []<>bidir

\* What the error of UpdateFromRemoteObject promises ("remote object
\* resourceVersion less than local"): a row never goes back to an older
\* version of its object.
NoRewind ==
  [][\A r \in RowIds : IsLive(r) /\ rows'[r] # NoRow
        => rows'[r].rv >= rows[r].rv]_vars
=============================================================================
