----------------------------- MODULE ClusterSync -----------------------------
(***************************************************************************)
(* Who may sync a cluster, and with which client.  For one cluster:        *)
(*                                                                         *)
(*   - the client manager (client/manager.go): one entry of the map        *)
(*     clusterManager, replaced under actionLock by AddClient,             *)
(*     UpdateClient and RemoveClient;                                      *)
(*   - the health check (every 5 minutes), the auto sync (every 30), the   *)
(*     ClusterSyncTasks and the deletion of the cluster, which call it;    *)
(*   - the sync passes that SubmitSyncTask hands to the sync workers, and  *)
(*     the sync_status they leave in the row of the cluster.               *)
(*                                                                         *)
(* Every goroutine works on its own copy of the row: SetStatus and the     *)
(* Mark functions write a column only if it differs from the copy.  What a *)
(* pass does to the resources is the subject of ResourceMirror.            *)
(***************************************************************************)
EXTENDS Naturals, FiniteSets

CONSTANTS Tasks,         \* ClusterSyncTasks that may run at a time
          ClientIds,     \* identities of clients (CacheFactory objects): more
                         \* than MaxFaults, so that a build always finds one
          MaxFlips,      \* bound on changes of the cluster's health
          MaxFaults,     \* bound on failing builds and passes
          MaxRequests,   \* bound on requests by users
          MaxCrashes     \* bound on restarts of kubeserver

ASSUME BoundsAssumption ==
  MaxFlips \in Nat /\ MaxFaults \in Nat /\ MaxRequests \in Nat /\ MaxCrashes \in Nat
ASSUME NamesAssumption ==
  0 \notin ClientIds /\ Tasks \cap {"start", "health", "delete", "cron", "nobody"} = {}

VARIABLES status,      \* status of the cluster in the database
          syncStatus,  \* sync_status of the cluster in the database
          fresh,       \* last_sync is less than 30 minutes old
          healthy,     \* the API server of the cluster answers
          up,          \* kubeserver runs
          reg,         \* the entry of clusterManager
          open,        \* clients whose informers run, registered or not
          bidir,       \* clients whose informers pass events on
          lock,        \* holder of actionLock
          proc,        \* the goroutines that use the client manager
          pass,        \* the sync passes, by who submitted them
          left,        \* history: a crash left sync_status behind
          flips, faults, requests, crashes

vars == <<status, syncStatus, fresh, healthy, up, reg, open, bidir, lock, proc,
          pass, left, flips, faults, requests, crashes>>
db      == <<status, syncStatus, fresh, left>>
clients == <<reg, open, bidir, lock>>
bounds  == <<flips, faults, requests, crashes>>
env     == <<healthy, up>>

Procs      == {"start", "health", "delete"} \cup Tasks
Submitters == {"cron"} \cup Tasks

NoClient == [id |-> 0, status |-> "none", owner |-> "nobody"]

\* copy, sync: the copy of the row; held: the client being removed; built: the
\* client being built; next: where RemoveClient returns to.
Idle   == [pc |-> "idle", copy |-> "none", sync |-> "none", force |-> FALSE,
           held |-> 0, built |-> 0, next |-> "idle"]
NoPass == [pc |-> "none", sync |-> "none"]

Goto(p, l) == proc' = [proc EXCEPT ![p].pc = l]
End(p)     == proc' = [proc EXCEPT ![p] = Idle]

Fault == faults < MaxFaults /\ faults' = faults + 1

\* A request to the cluster fails: it is down, or a fault within the bound.
Fails == (~healthy /\ UNCHANGED faults) \/ Fault

\* db.Update of a copy whose status is old: the row gets s, if there is one.
SetStatus(old, s) ==
  status' = IF old # s /\ status # "gone" THEN s ELSE status

\* GetManager: an entry whose cluster object, the builder's copy, is running.
Usable == reg.id # 0 /\ reg.status = "running"

------------------------------------------------------------------------------
(* The client manager *)

\* Mutant: actionLock is not taken.
NoLock == TRUE

LockFree == lock = "nobody"

\* RemoveClient returns to its caller.
RemoveReturn(p) ==
  proc' = [proc EXCEPT ![p] = IF proc[p].next = "idle" THEN Idle
                              ELSE [@ EXCEPT !.pc = proc[p].next, !.held = 0]]

\* RemoveClient: without an entry it returns at once.
RemoveLock(p) ==
  /\ proc[p].pc = "remove"
  /\ LockFree
  /\ IF reg.id = 0
     THEN RemoveReturn(p) /\ lock' = lock
     ELSE /\ lock' = p
          /\ proc' = [proc EXCEPT ![p] = [@ EXCEPT !.pc = "drop", !.held = reg.id]]
  /\ UNCHANGED <<db, env, reg, open, bidir, pass, bounds>>

\* The entry is deleted before the client is closed.
RemoveDrop(p) ==
  /\ proc[p].pc = "drop"
  /\ reg' = NoClient
  /\ Goto(p, "close")
  /\ UNCHANGED <<db, env, open, bidir, lock, pass, bounds>>

\* Close closes the stop channel of the informers.
RemoveClose(p) ==
  /\ proc[p].pc = "close"
  /\ open' = open \ {proc[p].held} /\ bidir' = bidir \ {proc[p].held}
  /\ lock' = "nobody"
  /\ RemoveReturn(p)
  /\ UNCHANGED <<db, env, reg, pass, bounds>>

\* The call of addClient returns; at start-up kubeserver goes on with its work.
Returned(p) == up' = (up \/ p = "start")

\* What the caller of AddClient or UpdateClient does with its error: the
\* health check puts the previous status back, a task fails, the start-up
\* only logs it.
AddFailed(p) ==
  /\ IF p = "health" THEN SetStatus(proc[p].copy, "lost") ELSE status' = status
  /\ End(p)
  /\ Returned(p)

\* addClient, until buildManager is called.
AddLock(p) ==
  /\ proc[p].pc = "add"
  /\ LockFree
  /\ \/ /\ ~proc[p].force /\ proc[p].copy # "running"
        /\ AddFailed(p) /\ lock' = lock
     \/ /\ proc[p].force \/ proc[p].copy = "running"
        /\ reg.id # 0
        /\ lock' = lock
        /\ IF p \in Tasks /\ ~proc[p].force
           THEN Goto(p, "submit") /\ UNCHANGED <<status, up>>
           ELSE AddFailed(p)
     \/ /\ proc[p].force \/ proc[p].copy = "running"
        /\ reg.id = 0
        /\ lock' = p /\ Goto(p, "build") /\ UNCHANGED <<status, up>>
  /\ UNCHANGED <<syncStatus, fresh, left, healthy, reg, open, bidir, pass, bounds>>

\* The client built by p; its cluster object is p's copy, which p may yet write.
NewClient(p, c, id) ==
  [id |-> id, status |-> c, owner |-> IF proc[p].force THEN p ELSE "nobody"]

\* The identity of a new client: one whose informers do not run.
FreshIds ==
  {id \in ClientIds \ open : id = CHOOSE i \in ClientIds \ open : TRUE}

\* Mutant: a new client passes events on at once.
FlagsOn(id) == bidir \cup {id}

\* A CacheFactory is made with bidirectionalSync off.
NewFlags(id) == bidir \ {id}

\* buildManager until the informers run.  A request that fails before the
\* first of them leaves nothing behind; one that fails between two of them, the
\* access check of a kind, leaves those running that were started.
StartInformers(p) ==
  /\ proc[p].pc = "build"
  /\ \/ /\ Fails /\ AddFailed(p)
        /\ lock' = "nobody" /\ UNCHANGED <<open, bidir>>
     \/ /\ healthy
        /\ \E id \in FreshIds :
             /\ open' = open \cup {id} /\ bidir' = NewFlags(id)
             /\ \/ /\ proc' = [proc EXCEPT ![p] = [@ EXCEPT !.pc = "cache", !.built = id]]
                   /\ UNCHANGED <<status, up, lock, faults>>
                \/ Fault /\ AddFailed(p) /\ lock' = "nobody"
  /\ UNCHANGED <<syncStatus, fresh, left, healthy, reg, pass, flips, requests, crashes>>

\* StartSyncTask: a task loads its copy when it starts.
TaskRecord(force) ==
  [Idle EXCEPT !.pc = IF force THEN "remove" ELSE "add", !.next = "add",
               !.copy = status, !.sync = syncStatus, !.force = force]

\* The health check starts a sync task, when one more may run.
StartSyncTask ==
  IF \E t \in Tasks : proc[t].pc = "idle"
  THEN \E t \in Tasks :
         /\ proc[t].pc = "idle"
         /\ proc' = [proc EXCEPT !["health"] = Idle, ![t] = TaskRecord(FALSE)]
  ELSE End("health")

\* WaitForCacheSync, the rest of buildManager and addManager.  The wait has no
\* time limit: it lasts while the cluster is down, and forever if a kind cannot
\* be listed.  An error after it leaves the informers running.
WaitForCache(p) ==
  /\ proc[p].pc = "cache"
  /\ \/ /\ healthy
        /\ reg' = NewClient(p, proc[p].copy, proc[p].built)
        /\ lock' = "nobody"
        /\ Returned(p)
        /\ \/ p = "start" /\ End(p)
           \/ p = "health" /\ StartSyncTask
           \/ p \in Tasks /\ proc' = [proc EXCEPT ![p] =
                [@ EXCEPT !.pc = IF proc[p].force THEN "setrunning" ELSE "submit",
                          !.built = 0]]
        /\ UNCHANGED <<status, faults>>
     \/ Fault /\ AddFailed(p) /\ lock' = "nobody" /\ reg' = reg
     \/ Fault /\ Goto(p, "stuck") /\ UNCHANGED <<status, up, lock, reg>>
  /\ UNCHANGED <<syncStatus, fresh, left, healthy, open, bidir, pass, flips, requests,
                 crashes>>

------------------------------------------------------------------------------
(* The health check *)

\* Mutant: lost clusters are not queried.
OnlyRunning == {"running"}

CheckedStatuses == {"running", "lost"}

HealthRead ==
  /\ up
  /\ proc["health"].pc = "idle"
  /\ status \in CheckedStatuses
  /\ proc' = [proc EXCEPT !["health"] = [@ EXCEPT !.pc = "probe", !.copy = status]]
  /\ UNCHANGED <<db, env, clients, pass, bounds>>

\* IsHealthy and the SetStatus that follows; UpdateClient is RemoveClient and
\* then addClient.
HealthProbe ==
  LET c == proc["health"].copy IN
  /\ proc["health"].pc = "probe"
  /\ \/ healthy /\ c = "running" /\ End("health") /\ status' = status
     \/ /\ healthy /\ c # "running"
        /\ SetStatus(c, "running")
        /\ proc' = [proc EXCEPT !["health"] =
             [@ EXCEPT !.pc = "remove", !.next = "add", !.copy = "running"]]
     \/ /\ ~healthy
        /\ SetStatus(c, "lost")
        /\ proc' = [proc EXCEPT !["health"] = [Idle EXCEPT !.pc = "remove"]]
  /\ UNCHANGED <<syncStatus, fresh, left, env, clients, pass, bounds>>

------------------------------------------------------------------------------
(* Sync tasks and the auto sync *)

\* Mutant: a sync that never ended blocks the next one for good.
NotSyncing == syncStatus # "syncing"

CanSync == syncStatus = "syncing" => ~fresh

PerformSync(t, force) ==
  /\ up
  /\ requests < MaxRequests
  /\ status # "gone"
  /\ proc[t].pc = "idle"
  /\ force \/ CanSync
  /\ requests' = requests + 1
  /\ proc' = [proc EXCEPT ![t] = TaskRecord(force)]
  /\ UNCHANGED <<db, env, clients, pass, flips, faults, crashes>>

\* After a forced UpdateClient, SetStatus(running) on the task's copy, which
\* is also the cluster object of the client it built.
SetRunning(t) ==
  /\ proc[t].pc = "setrunning"
  /\ SetStatus(proc[t].copy, "running")
  /\ reg' = IF reg.owner = t THEN [reg EXCEPT !.status = "running", !.owner = "nobody"]
            ELSE reg
  /\ proc' = [proc EXCEPT ![t] = [@ EXCEPT !.pc = "submit", !.copy = "running"]]
  /\ UNCHANGED <<syncStatus, fresh, left, env, open, bidir, lock, pass, bounds>>

\* SyncCallSyncTask.  Without a usable client SubmitSyncTask sends the error
\* on the unbuffered channel that only this goroutine would read.
TaskSubmit(t) ==
  /\ proc[t].pc = "submit"
  /\ IF Usable
     THEN /\ bidir' = bidir \ {reg.id}
          /\ pass' = [pass EXCEPT ![t] = [pc |-> "queued", sync |-> proc[t].sync]]
          /\ proc' = [proc EXCEPT ![t] = [Idle EXCEPT !.pc = "wait"]]
     ELSE /\ proc' = [proc EXCEPT ![t] = [Idle EXCEPT !.pc = "blocked"]]
          /\ UNCHANGED <<bidir, pass>>
  /\ UNCHANGED <<db, env, reg, open, lock, bounds>>

\* StartAutoSyncTask; without a usable client it does nothing.
AutoSync ==
  /\ up
  /\ pass["cron"].pc = "none"
  /\ status = "running"
  /\ Usable
  /\ bidir' = bidir \ {reg.id}
  /\ pass' = [pass EXCEPT !["cron"] = [pc |-> "queued", sync |-> syncStatus]]
  /\ UNCHANGED <<db, env, reg, open, lock, proc, bounds>>

\* Mutant: nothing is sent on the channel.
EndUnsent(p) == pass' = [pass EXCEPT ![p] = NoPass] /\ proc' = proc

\* The pass is over; the task that waits for it receives the result.
EndPass(p) ==
  /\ pass' = [pass EXCEPT ![p] = NoPass]
  /\ proc' = IF p \in Tasks THEN [proc EXCEPT ![p] = Idle] ELSE proc

\* MarkSyncing: the column is not written if the copy has it already.
PassMark(p) ==
  /\ pass[p].pc = "queued"
  /\ syncStatus' = IF pass[p].sync # "syncing" THEN "syncing" ELSE syncStatus
  /\ fresh' = TRUE
  /\ left' = (left /\ syncStatus' = "syncing")
  /\ pass' = [pass EXCEPT ![p] = [pc |-> "marked", sync |-> "syncing"]]
  /\ UNCHANGED <<status, env, clients, proc, bounds>>

\* Mutant: SetSyncStatus and SetSyncMessage are swapped.
MessageAsStatus == "get cluster client: not exist"

\* Mutant: the error is returned without MarkErrorSync.
KeepSyncing == syncStatus

\* MarkErrorSync
ErrorStatus == "error"

\* SyncClusterResources on all managers.
PassSync(p) ==
  /\ pass[p].pc = "marked"
  /\ \/ /\ Usable
        /\ pass' = [pass EXCEPT ![p].pc = "synced"]
        /\ UNCHANGED <<syncStatus, left, proc, faults>>
     \/ /\ IF Usable THEN Fails ELSE UNCHANGED faults
        /\ syncStatus' = ErrorStatus
        /\ left' = FALSE
        /\ EndPass(p)
  /\ UNCHANGED <<status, fresh, env, clients, flips, requests, crashes>>

\* MarkEndSync
PassMarkEnd(p) ==
  /\ pass[p].pc = "synced"
  /\ syncStatus' = "idle"
  /\ left' = FALSE
  /\ pass' = [pass EXCEPT ![p].pc = "ended"]
  /\ UNCHANGED <<status, fresh, env, clients, proc, bounds>>

\* Mutant: only a pass that somebody waits for switches events on again.
EnablesIfAwaited(p) == p \in Tasks /\ Usable

\* EnableBidirectionalSync finds a client: the present one, which need not be
\* the one the pass listed from.
Enables(p) == Usable

PassEnable(p) ==
  /\ pass[p].pc = "ended"
  /\ bidir' = IF Enables(p) THEN bidir \cup {reg.id} ELSE bidir
  /\ EndPass(p)
  /\ UNCHANGED <<db, env, reg, open, lock, bounds>>

------------------------------------------------------------------------------
(* Deletion, restarts and the environment *)

\* StartClusterDeleteTask
UserDelete ==
  /\ up
  /\ requests < MaxRequests
  /\ proc["delete"].pc = "idle"
  /\ status # "gone"
  /\ requests' = requests + 1
  /\ SetStatus(status, "deleting")
  /\ proc' = [proc EXCEPT !["delete"] = [@ EXCEPT !.pc = "remove", !.next = "task"]]
  /\ UNCHANGED <<syncStatus, fresh, left, env, clients, pass, flips, faults, crashes>>

\* ClusterDeleteTask ends with RealDelete or with an error.
DeleteTask ==
  /\ proc["delete"].pc = "task"
  /\ status' \in {"gone", "delete_fail"}
  /\ End("delete")
  /\ UNCHANGED <<syncStatus, fresh, left, env, clients, pass, bounds>>

\* PerformClientDelete
ClientDelete ==
  /\ up
  /\ requests < MaxRequests
  /\ proc["delete"].pc = "idle"
  /\ requests' = requests + 1
  /\ proc' = [proc EXCEPT !["delete"] = [@ EXCEPT !.pc = "remove", !.next = "idle"]]
  /\ UNCHANGED <<db, env, clients, pass, flips, faults, crashes>>

\* InitClustersManager calls AddClient for a running cluster, and kubeserver
\* does nothing else before it returns.
Start ==
  /\ ~up
  /\ proc["start"].pc = "idle"
  /\ IF status = "running"
     THEN /\ proc' = [proc EXCEPT !["start"] = [Idle EXCEPT !.pc = "add", !.copy = status]]
          /\ up' = up
     ELSE up' = TRUE /\ proc' = proc
  /\ UNCHANGED <<db, healthy, clients, pass, bounds>>

\* kubeserver dies: everything but the database is lost.
Crash ==
  /\ up \/ proc["start"].pc # "idle"
  /\ crashes < MaxCrashes
  /\ crashes' = crashes + 1
  /\ up' = FALSE
  /\ reg' = NoClient /\ open' = {} /\ bidir' = {} /\ lock' = "nobody"
  /\ proc' = [p \in Procs |-> Idle]
  /\ pass' = [p \in Submitters |-> NoPass]
  /\ left' = (syncStatus = "syncing")
  /\ UNCHANGED <<status, syncStatus, fresh, healthy, flips, faults, requests>>

Flip ==
  /\ flips < MaxFlips
  /\ flips' = flips + 1
  /\ healthy' = ~healthy
  /\ UNCHANGED <<db, up, clients, proc, pass, faults, requests, crashes>>

\* Thirty minutes after last_sync.
Expire ==
  /\ fresh
  /\ fresh' = FALSE
  /\ UNCHANGED <<status, syncStatus, left, env, clients, proc, pass, bounds>>

Init ==
  /\ status \in {"running", "lost"}
  /\ syncStatus = "idle"
  /\ fresh = FALSE
  /\ healthy \in BOOLEAN
  /\ up = FALSE
  /\ reg = NoClient /\ open = {} /\ bidir = {} /\ lock = "nobody"
  /\ proc = [p \in Procs |-> Idle]
  /\ pass = [p \in Submitters |-> NoPass]
  /\ left = FALSE
  /\ flips = 0 /\ faults = 0 /\ requests = 0 /\ crashes = 0

ProcStep(p) == \/ RemoveLock(p) \/ RemoveDrop(p) \/ RemoveClose(p)
               \/ AddLock(p) \/ StartInformers(p) \/ WaitForCache(p)
TaskStep(t) == SetRunning(t) \/ TaskSubmit(t)
PassStep(p) == PassMark(p) \/ PassSync(p) \/ PassMarkEnd(p) \/ PassEnable(p)

Next ==
  \/ \E p \in Procs : ProcStep(p)
  \/ \E t \in Tasks : TaskStep(t) \/ \E force \in BOOLEAN : PerformSync(t, force)
  \/ \E p \in Submitters : PassStep(p)
  \/ HealthRead \/ HealthProbe \/ AutoSync
  \/ UserDelete \/ DeleteTask \/ ClientDelete
  \/ Start \/ Crash \/ Flip \/ Expire

\* The process is restarted, its goroutines and workers are scheduled, both
\* cron jobs fire, time passes.  Requests, flips, faults and crashes may cease.
Fairness ==
  /\ WF_vars(Start \/ ProcStep("start")) /\ WF_vars(Expire) /\ WF_vars(AutoSync)
  /\ WF_vars(ProcStep("health") \/ HealthRead \/ HealthProbe)
  /\ WF_vars(ProcStep("delete") \/ DeleteTask)
  /\ \A t \in Tasks : WF_vars(ProcStep(t) \/ TaskStep(t))
  /\ \A p \in Submitters : WF_vars(PassStep(p))

Spec == Init /\ [][Next]_vars /\ Fairness

------------------------------------------------------------------------------
(* Properties *)

Statuses     == {"running", "lost", "deleting", "delete_fail", "gone"}
SyncStatuses == {"idle", "syncing", "error"}
Labels       == {"idle", "probe", "remove", "drop", "close", "add", "build", "cache",
                 "stuck", "setrunning", "submit", "wait", "blocked", "task"}

Client == [id : ClientIds \cup {0}, status : Statuses \cup {"none"},
           owner : Procs \cup {"nobody"}]
ProcState == [pc : Labels, copy : Statuses \cup {"none"},
              sync : SyncStatuses \cup {"none"}, force : BOOLEAN,
              held : ClientIds \cup {0}, built : ClientIds \cup {0}, next : {"idle", "add", "task"}]
PassState == [pc : {"none", "queued", "marked", "synced", "ended"},
              sync : SyncStatuses \cup {"none"}]

\* Type invariant of the row, the client manager, the goroutines and the passes.
TypeOK ==
  /\ status \in Statuses /\ syncStatus \in SyncStatuses
  /\ fresh \in BOOLEAN /\ healthy \in BOOLEAN /\ up \in BOOLEAN /\ left \in BOOLEAN
  /\ reg \in Client
  /\ open \subseteq ClientIds /\ bidir \subseteq ClientIds
  /\ lock \in Procs \cup {"nobody"}
  /\ proc \in [Procs -> ProcState]
  /\ pass \in [Submitters -> PassState]
  /\ flips \in 0..MaxFlips /\ faults \in 0..MaxFaults
  /\ requests \in 0..MaxRequests /\ crashes \in 0..MaxCrashes

\* The panic that Close asks about ("figure out the root cause of panic"): a
\* stop channel is closed once, by the only goroutine that took the client out
\* of the manager, however adds, updates and removals overlap.
ClosesOnce ==
  \A p \in Procs : proc[p].held # 0 =>
    /\ proc[p].held \in open
    /\ \A q \in Procs : proc[q].held = proc[p].held => q = p

\* Informers that nobody can stop any more, those a failed build left running,
\* stay silent: whichever clients are built, switched on and off, replaced and
\* removed, events are passed on only for the registered client or for one that
\* is about to be closed.  (handler.run returns unless bidirectionalSync.)
LeakSilent == open \cap bidir \subseteq {reg.id} \cup {proc[p].held : p \in Procs}

\* The client manager keeps what ClientSlot promises: the lock spans the whole
\* removal, so that no client is built before the previous one is closed, and
\* the events of one client at a time reach the database.
Slot == INSTANCE ClientSlot
          WITH Clients <- ClientIds, slot <- reg.id, live <- open \cap bidir
OneClientAtATime == Slot!Spec

\* sync_status says "syncing" only while a pass runs or after a crash cut one
\* off, though overlapping passes write it from copies of different age.
SyncStatusHonest ==
  syncStatus = "syncing" =>
    left \/ \E p \in Submitters : pass[p].pc \in {"marked", "synced"}

\* A sync that was cut off does not refuse requests for good.
SyncAllowed == []<>CanSync

\* WaitForCacheSync holds actionLock: for good, or until the cluster is back.
Stuck   == \E p \in Procs : proc[p].pc = "stuck"
Stalled == Stuck \/ (~healthy /\ \E p \in Procs : proc[p].pc = "cache")

\* A cluster that answers does not stay lost, unless a build waits forever for
\* its caches: the health check then waits for actionLock.
LostRecovers == []<>(~healthy \/ status # "lost" \/ Stuck)

\* A cluster with a usable client gets its events again and again, whichever
\* passes failed and whichever client they switched on.
EventsOn == []<>(status = "running" /\ Usable => reg.id \in bidir)

\* A sync task hangs in two places only: in the send of SubmitSyncTask, and
\* when a build under actionLock, its own or another's, waits for caches that
\* are not filled.  Otherwise it ends; nobody waits for anybody forever.
TasksSettle ==
  \A t \in Tasks :
    (proc[t].pc # "idle") ~> (proc[t].pc \in {"idle", "blocked"} \/ Stalled)

\* SubmitSyncTask hands the error of DisableBidirectionalSync to its caller
\* (waitChan <- err), whose task then fails: every sync task ends.
SyncTaskEnds == \A t \in Tasks : proc[t].pc # "idle" ~> proc[t].pc = "idle"
=============================================================================
