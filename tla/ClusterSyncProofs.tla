--------------------------- MODULE ClusterSyncProofs ---------------------------
(***************************************************************************)
(* Proofs about ClusterSync, for any number of sync tasks and clients: the *)
(* types, that a client is closed once, that informers left by a failed     *)
(* build stay silent, that sync_status is honest, and that the client      *)
(* manager implements ClientSlot.                                          *)
(***************************************************************************)
EXTENDS ClusterSync, TLAPS

\* Where a goroutine is inside actionLock, and where it holds a client.
Inside  == {"drop", "close", "build", "cache", "stuck"}
Holding == {"drop", "close"}

\* actionLock is mutual exclusion: whoever is inside is its holder.
LockHeld == \A p \in Procs : proc[p].pc \in Inside => lock = p

\* A client is held only while it is being removed.
HeldInside == \A p \in Procs : proc[p].held # 0 => proc[p].pc \in Holding

\* The informers of the entry run.
RegOpen == reg.id # 0 => reg.id \in open

\* What the goroutine inside the lock knows of the manager and the informers.
DropOK  == \A p \in Procs : proc[p].pc = "drop" =>
             proc[p].held = reg.id /\ reg.id # 0
CloseOK == \A p \in Procs : proc[p].pc = "close" =>
             reg.id = 0 /\ proc[p].held \in open
BuildOK == \A p \in Procs : proc[p].pc \in {"build", "cache"} =>
             reg.id = 0 /\ (proc[p].pc = "cache" => proc[p].built \in open)

\* A task waits while its pass runs, so that the end of the pass ends it.
Waits == \A t \in Tasks : pass[t].pc # "none" => proc[t].pc = "wait"

\* The part about the client manager.
Manager == /\ LockHeld /\ HeldInside /\ RegOpen
           /\ DropOK /\ CloseOK /\ BuildOK /\ LeakSilent

IInv == TypeOK /\ Manager /\ Waits /\ SyncStatusHonest

------------------------------------------------------------------------------
(* Types of the records *)

LEMMA IdleType == Idle \in ProcState /\ NoPass \in PassState /\ NoClient \in Client
  BY DEF Idle, NoPass, NoClient, ProcState, PassState, Client, Labels

\* A goroutine that has only a place.
LEMMA IdleAt ==
  ASSUME NEW l \in Labels
  PROVE  /\ [Idle EXCEPT !.pc = l] \in ProcState
         /\ [Idle EXCEPT !.pc = l].pc = l
         /\ [Idle EXCEPT !.pc = l].held = 0
  BY DEF Idle, ProcState

LEMMA TaskRecordType ==
  ASSUME TypeOK, NEW f \in BOOLEAN
  PROVE  TaskRecord(f) \in ProcState
<1>1. status \in Statuses /\ syncStatus \in SyncStatuses
  BY DEF TypeOK
<1>2. {"remove", "add"} \subseteq Labels
  BY DEF Labels
<1> QED
  BY <1>1, <1>2 DEF TaskRecord, Idle, ProcState

LEMMA StatusType ==
  ASSUME TypeOK, NEW old, NEW s \in Statuses, SetStatus(old, s)
  PROVE  status' \in Statuses
  BY DEF TypeOK, SetStatus

\* Replacing the record of one goroutine keeps the type of all.
LEMMA ProcUpdate ==
  ASSUME TypeOK, NEW p \in Procs, NEW r \in ProcState,
         proc' = [proc EXCEPT ![p] = r]
  PROVE  proc' \in [Procs -> ProcState]
  BY DEF TypeOK

LEMMA ProcFields ==
  ASSUME TypeOK, NEW p \in Procs
  PROVE  /\ proc[p] \in ProcState
         /\ proc[p].next \in Labels
         /\ \A l \in Labels, n \in {"idle", "add", "task"} :
              [proc[p] EXCEPT !.pc = l, !.next = n] \in ProcState
         /\ \A l \in Labels, c \in Statuses :
              [proc[p] EXCEPT !.pc = l, !.copy = c] \in ProcState
         /\ \A l \in Labels, n \in {"idle", "add", "task"}, c \in Statuses :
              [proc[p] EXCEPT !.pc = l, !.next = n, !.copy = c] \in ProcState
         /\ \A l \in Labels, h \in ClientIds \cup {0} :
              [proc[p] EXCEPT !.pc = l, !.held = h] \in ProcState
         /\ \A l \in Labels, h \in ClientIds \cup {0} :
              [proc[p] EXCEPT !.pc = l, !.built = h] \in ProcState
<1>1. proc[p] \in ProcState
  BY DEF TypeOK
<1>2. proc[p].next \in Labels
  BY <1>1 DEF ProcState, Labels
<1> QED
  BY <1>1, <1>2 DEF ProcState

\* Moving one goroutine keeps the type of all.
LEMMA GotoType ==
  ASSUME TypeOK, NEW p \in Procs, NEW l \in Labels, Goto(p, l)
  PROVE  proc' \in [Procs -> ProcState]
  BY DEF TypeOK, Goto, ProcState

LEMMA EndType ==
  ASSUME TypeOK, NEW p \in Procs, End(p)
  PROVE  proc' \in [Procs -> ProcState]
  BY IdleType DEF TypeOK, End

LEMMA AddFailedType ==
  ASSUME TypeOK, NEW p \in Procs, AddFailed(p)
  PROVE  status' \in Statuses /\ up' \in BOOLEAN /\ proc' \in [Procs -> ProcState]
<1>1. up' \in BOOLEAN
  BY Zenon DEF AddFailed, Returned
<1> QED
  BY <1>1, EndType, StatusType, "lost" \in Statuses DEF AddFailed, TypeOK, Statuses

LEMMA RemoveReturnType ==
  ASSUME TypeOK, NEW p \in Procs, RemoveReturn(p)
  PROVE  proc' \in [Procs -> ProcState]
  BY IdleType, ProcFields DEF RemoveReturn, TypeOK

LEMMA FreshType == FreshIds \subseteq ClientIds
  BY DEF FreshIds

LEMMA EndPassType ==
  ASSUME TypeOK, NEW p \in Submitters, EndPass(p)
  PROVE  /\ pass' \in [Submitters -> PassState]
         /\ proc' \in [Procs -> ProcState]
  BY IdleType DEF TypeOK, EndPass, Procs

LEMMA FailsType ==
  ASSUME TypeOK, Fails \/ Fault PROVE faults' \in 0..MaxFaults
  BY BoundsAssumption DEF TypeOK, Fails, Fault

------------------------------------------------------------------------------
(* Initial states *)

LEMMA InitIInv == Init => IInv
<1> SUFFICES ASSUME Init PROVE IInv
  OBVIOUS
<1>1. TypeOK
  <2>1. /\ fresh \in BOOLEAN /\ healthy \in BOOLEAN /\ up \in BOOLEAN
        /\ left \in BOOLEAN
    BY Zenon DEF Init
  <2> QED
    BY <2>1, IdleType, BoundsAssumption DEF Init, TypeOK, Statuses, SyncStatuses
<1>2. Manager
  BY DEF Init, Manager, LockHeld, HeldInside, RegOpen, DropOK, CloseOK, BuildOK,
         LeakSilent, Inside, Holding, Idle, NoClient
<1>3. Waits /\ SyncStatusHonest
  BY DEF Init, Waits, SyncStatusHonest, Submitters, NoPass
<1> QED
  BY <1>1, <1>2, <1>3 DEF IInv

------------------------------------------------------------------------------
(* Types *)

\* What the actions of the client manager do to the types.
LEMMA ProcTypes ==
  ASSUME TypeOK, NEW p \in Procs, ProcStep(p)
  PROVE  TypeOK'
<1> USE DEF db, env, bounds, clients
<1>1. CASE RemoveLock(p)
  <2>1. proc' \in [Procs -> ProcState]
    <3>1. CASE reg.id = 0
      BY <1>1, <3>1, RemoveReturnType DEF RemoveLock
    <3>2. CASE reg.id # 0
      <4>1. reg.id \in ClientIds \cup {0} /\ "drop" \in Labels
        BY DEF TypeOK, Client, Labels
      <4> QED
        BY <1>1, <3>2, <4>1, ProcFields, ProcUpdate DEF RemoveLock
    <3> QED
      BY <3>1, <3>2
  <2> QED
    BY <1>1, <2>1 DEF RemoveLock, TypeOK
<1>2. CASE RemoveDrop(p)
  <2>1. proc' \in [Procs -> ProcState]
    BY <1>2, GotoType, "close" \in Labels DEF RemoveDrop, Labels
  <2> QED
    BY <1>2, <2>1, IdleType DEF RemoveDrop, TypeOK
<1>3. CASE RemoveClose(p)
  <2>1. proc' \in [Procs -> ProcState]
    BY <1>3, RemoveReturnType DEF RemoveClose
  <2> QED
    BY <1>3, <2>1 DEF RemoveClose, TypeOK
<1>4. CASE AddLock(p)
  <2>1. status' \in Statuses /\ up' \in BOOLEAN /\ proc' \in [Procs -> ProcState]
    BY <1>4, AddFailedType, GotoType, "build" \in Labels, "submit" \in Labels
    DEF AddLock, TypeOK, Labels
  <2> QED
    BY <1>4, <2>1 DEF AddLock, TypeOK
<1>5. CASE StartInformers(p)
  <2>1. CASE /\ Fails /\ AddFailed(p)
             /\ lock' = "nobody" /\ UNCHANGED <<open, bidir>>
    BY <1>5, <2>1, AddFailedType, FailsType DEF StartInformers, TypeOK
  <2>2. ASSUME NEW id \in FreshIds, open' = open \cup {id}, bidir' = NewFlags(id),
               \/ /\ proc' = [proc EXCEPT ![p] = [@ EXCEPT !.pc = "cache", !.built = id]]
                  /\ UNCHANGED <<status, up, lock, faults>>
               \/ Fault /\ AddFailed(p) /\ lock' = "nobody"
        PROVE  TypeOK'
    <3>1. /\ status' \in Statuses /\ up' \in BOOLEAN /\ proc' \in [Procs -> ProcState]
          /\ lock' \in Procs \cup {"nobody"} /\ faults' \in 0..MaxFaults
      <4>1. CASE proc' = [proc EXCEPT ![p] = [@ EXCEPT !.pc = "cache", !.built = id]]
                 /\ UNCHANGED <<status, up, lock, faults>>
        <5>1. "cache" \in Labels /\ id \in ClientIds \cup {0}
          BY FreshType DEF Labels
        <5> QED
          BY <4>1, <5>1, ProcFields, ProcUpdate DEF TypeOK
      <4>2. CASE Fault /\ AddFailed(p) /\ lock' = "nobody"
        BY <4>2, AddFailedType, FailsType
      <4> QED
        BY <2>2, <4>1, <4>2
    <3>2. open' \subseteq ClientIds /\ bidir' \subseteq ClientIds
      BY <2>2, FreshType DEF TypeOK, NewFlags
    <3> QED
      BY <1>5, <3>1, <3>2 DEF StartInformers, TypeOK
  <2> QED
    BY <1>5, <2>1, <2>2 DEF StartInformers
<1>6. CASE WaitForCache(p)
  <2>1. CASE Fault /\ AddFailed(p) /\ lock' = "nobody" /\ reg' = reg
    BY <1>6, <2>1, AddFailedType, FailsType DEF WaitForCache, TypeOK
  <2>2. CASE Fault /\ Goto(p, "stuck") /\ UNCHANGED <<status, up, lock, reg>>
    <3>1. proc' \in [Procs -> ProcState]
      BY <2>2, GotoType, "stuck" \in Labels DEF Labels
    <3> QED
      BY <1>6, <2>2, <3>1, FailsType DEF WaitForCache, TypeOK
  <2>3. CASE ~Fault
    <3>1. reg' = NewClient(p, proc[p].copy, proc[p].built) /\ lock' = "nobody"
      BY <1>6, <2>3 DEF WaitForCache
    <3>2. reg' \in Client
      BY <3>1 DEF NewClient, Client, TypeOK, ProcState
    <3>3. up' \in BOOLEAN
      BY <1>6, <2>3, Zenon DEF WaitForCache, Returned
    <3>4. proc' \in [Procs -> ProcState]
      <4>1. ASSUME p = "health", StartSyncTask PROVE proc' \in [Procs -> ProcState]
        BY <4>1, EndType, TaskRecordType, IdleType DEF StartSyncTask, TypeOK, Procs
      <4>2. ASSUME End(p) PROVE proc' \in [Procs -> ProcState]
        BY <4>2, EndType
      <4>3. CASE proc' = [proc EXCEPT ![p] =
                   [@ EXCEPT !.pc = IF proc[p].force THEN "setrunning" ELSE "submit",
                             !.built = 0]]
        <5>1. "setrunning" \in Labels /\ "submit" \in Labels
          BY DEF Labels
        <5> QED
          BY <4>3, <5>1, ProcFields, ProcUpdate
      <4> QED
        BY <1>6, <2>3, <4>1, <4>2, <4>3 DEF WaitForCache
    <3>5. UNCHANGED <<status, faults>>
      BY <1>6, <2>3 DEF WaitForCache
    <3> QED
      BY <1>6, <3>1, <3>2, <3>3, <3>4, <3>5 DEF WaitForCache, TypeOK
  <2>4. CASE /\ reg' = NewClient(p, proc[p].copy, proc[p].built)
             /\ UNCHANGED <<status, faults>>
    <3>1. ~Fault
      BY <2>4 DEF Fault, TypeOK
    <3> QED
      BY <2>3, <3>1
  <2> QED
    BY <1>6, <2>1, <2>2, <2>3, <2>4 DEF WaitForCache
<1> QED
  BY <1>1, <1>2, <1>3, <1>4, <1>5, <1>6 DEF ProcStep

LEMMA TaskTypes ==
  ASSUME TypeOK, NEW t \in Tasks, TaskStep(t)
  PROVE  TypeOK'
<1> USE DEF db, env, bounds, clients
<1>0. t \in Procs /\ t \in Submitters
  BY DEF Procs, Submitters
<1>1. CASE SetRunning(t)
  <2>1. status' \in Statuses
    BY <1>1, StatusType, "running" \in Statuses DEF SetRunning, Statuses
  <2>2. proc' \in [Procs -> ProcState]
    BY <1>0, <1>1, ProcFields, ProcUpdate, "submit" \in Labels, "running" \in Statuses
    DEF SetRunning, Labels, Statuses
  <2>3. reg' \in Client
    BY <1>1 DEF SetRunning, TypeOK, Client, Statuses
  <2> QED
    BY <1>1, <2>1, <2>2, <2>3 DEF SetRunning, TypeOK
<1>2. CASE TaskSubmit(t)
  <2>1. proc' \in [Procs -> ProcState]
    BY <1>0, <1>2, IdleAt, "wait" \in Labels, "blocked" \in Labels
    DEF TaskSubmit, Labels, TypeOK
  <2>2. pass' \in [Submitters -> PassState]
    BY <1>0, <1>2 DEF TaskSubmit, TypeOK, PassState, ProcState
  <2>3. bidir' \subseteq ClientIds
    BY <1>2 DEF TaskSubmit, TypeOK
  <2> QED
    BY <1>2, <2>1, <2>2, <2>3 DEF TaskSubmit, TypeOK
<1> QED
  BY <1>1, <1>2 DEF TaskStep

LEMMA PassTypes ==
  ASSUME TypeOK, NEW p \in Submitters, PassStep(p)
  PROVE  TypeOK'
<1> USE DEF db, env, bounds, clients
<1>1. CASE PassMark(p)
  <2>1. pass' \in [Submitters -> PassState]
    BY <1>1 DEF PassMark, TypeOK, PassState, SyncStatuses
  <2>2. syncStatus' \in SyncStatuses /\ left' \in BOOLEAN
    BY <1>1 DEF PassMark, TypeOK, SyncStatuses
  <2> QED
    BY <1>1, <2>1, <2>2 DEF PassMark, TypeOK
<1>2. CASE PassSync(p)
  <2>1. CASE Usable /\ pass' = [pass EXCEPT ![p].pc = "synced"]
             /\ UNCHANGED <<syncStatus, left, proc, faults>>
    <3>1. pass' \in [Submitters -> PassState]
      BY <2>1 DEF TypeOK, PassState
    <3> QED
      BY <1>2, <2>1, <3>1 DEF PassSync, TypeOK
  <2>2. CASE /\ IF Usable THEN Fails ELSE UNCHANGED faults
             /\ syncStatus' = ErrorStatus
             /\ left' = FALSE
             /\ EndPass(p)
    <3>1. faults' \in 0..MaxFaults
      BY <2>2, FailsType DEF TypeOK
    <3> QED
      BY <1>2, <2>2, <3>1, EndPassType DEF PassSync, TypeOK, ErrorStatus, SyncStatuses
  <2> QED
    BY <1>2, <2>1, <2>2 DEF PassSync
<1>3. CASE PassMarkEnd(p)
  <2>1. pass' \in [Submitters -> PassState]
    BY <1>3 DEF PassMarkEnd, TypeOK, PassState
  <2> QED
    BY <1>3, <2>1 DEF PassMarkEnd, TypeOK, SyncStatuses
<1>4. CASE PassEnable(p)
  <2>1. bidir' \subseteq ClientIds
    BY <1>4 DEF PassEnable, TypeOK, Client, Enables, Usable
  <2> QED
    BY <1>4, <2>1, EndPassType DEF PassEnable, TypeOK
<1> QED
  BY <1>1, <1>2, <1>3, <1>4 DEF PassStep

\* The actions that are not steps of the manager, a task or a pass.
OtherStep ==
  \/ \E t \in Tasks, force \in BOOLEAN : PerformSync(t, force)
  \/ HealthRead \/ HealthProbe \/ AutoSync
  \/ UserDelete \/ DeleteTask \/ ClientDelete
  \/ Start \/ Crash \/ Flip \/ Expire

LEMMA OtherTypes ==
  ASSUME TypeOK, OtherStep
  PROVE  TypeOK'
<1> USE DEF db, env, bounds, clients
<1>0. /\ "health" \in Procs /\ "delete" \in Procs /\ "start" \in Procs
      /\ "cron" \in Submitters
  BY DEF Procs, Submitters
<1>1. ASSUME NEW t \in Tasks, NEW f \in BOOLEAN, PerformSync(t, f) PROVE TypeOK'
  <2>1. proc' \in [Procs -> ProcState]
    BY <1>1, TaskRecordType DEF PerformSync, TypeOK, Procs
  <2> QED
    BY <1>1, <2>1, BoundsAssumption DEF PerformSync, TypeOK
<1>2. CASE HealthRead
  <2>1. proc' \in [Procs -> ProcState]
    BY <1>0, <1>2, ProcFields, ProcUpdate, "probe" \in Labels DEF HealthRead, TypeOK, Labels
  <2> QED
    BY <1>2, <2>1 DEF HealthRead, TypeOK
<1>3. CASE HealthProbe
  <2>1. status' \in Statuses
    BY <1>3, StatusType, "running" \in Statuses, "lost" \in Statuses
    DEF HealthProbe, Statuses, TypeOK
  <2>2. proc' \in [Procs -> ProcState]
    <3>1. CASE End("health")
      BY <1>0, <3>1, EndType
    <3>2. CASE ~End("health")
      <4>1. /\ "remove" \in Labels /\ "running" \in Statuses
            /\ "add" \in {"idle", "add", "task"}
        BY DEF Labels, Statuses
      <4> QED
        BY <1>0, <1>3, <3>2, <4>1, ProcFields, ProcUpdate, IdleAt DEF HealthProbe
    <3> QED
      BY <3>1, <3>2
  <2> QED
    BY <1>3, <2>1, <2>2 DEF HealthProbe, TypeOK
<1>4. CASE AutoSync
  <2>1. pass' \in [Submitters -> PassState] /\ bidir' \subseteq ClientIds
    BY <1>0, <1>4 DEF AutoSync, TypeOK, PassState
  <2> QED
    BY <1>4, <2>1 DEF AutoSync, TypeOK
<1>5. CASE UserDelete
  <2>1. status' \in Statuses
    BY <1>5, StatusType, "deleting" \in Statuses DEF UserDelete, Statuses
  <2>2. proc' \in [Procs -> ProcState]
    BY <1>0, <1>5, ProcFields, ProcUpdate, "remove" \in Labels DEF UserDelete, TypeOK, Labels
  <2> QED
    BY <1>5, <2>1, <2>2, BoundsAssumption DEF UserDelete, TypeOK
<1>6. CASE DeleteTask
  BY <1>0, <1>6, EndType DEF DeleteTask, TypeOK, Statuses
<1>7. CASE ClientDelete
  <2>1. proc' \in [Procs -> ProcState]
    BY <1>0, <1>7, ProcFields, ProcUpdate, "remove" \in Labels DEF ClientDelete, TypeOK, Labels
  <2> QED
    BY <1>7, <2>1, BoundsAssumption DEF ClientDelete, TypeOK
<1>8. CASE Start
  <2>1. up' \in BOOLEAN
    BY <1>8 DEF Start, TypeOK
  <2>2. proc' \in [Procs -> ProcState]
    <3>1. [Idle EXCEPT !.pc = "add", !.copy = status] \in ProcState
      BY DEF Idle, ProcState, Labels, TypeOK
    <3> QED
      BY <1>0, <1>8, <3>1 DEF Start, TypeOK
  <2> QED
    BY <1>8, <2>1, <2>2 DEF Start, TypeOK
<1>9. CASE Crash
  <2>1. up' \in BOOLEAN /\ left' \in BOOLEAN
    BY <1>9, Zenon DEF Crash
  <2> QED
    BY <1>9, <2>1, IdleType, BoundsAssumption DEF Crash, TypeOK
<1>10. CASE Flip \/ Expire
  <2>1. healthy' \in BOOLEAN /\ fresh' \in BOOLEAN
    BY <1>10, Zenon DEF Flip, Expire, TypeOK
  <2> QED
    BY <1>10, <2>1, BoundsAssumption DEF Flip, Expire, TypeOK
<1> QED
  BY <1>1, <1>2, <1>3, <1>4, <1>5, <1>6, <1>7, <1>8, <1>9, <1>10 DEF OtherStep

LEMMA NextCases ==
  Next <=> \/ \E p \in Procs : ProcStep(p)
           \/ \E t \in Tasks : TaskStep(t)
           \/ \E p \in Submitters : PassStep(p)
           \/ OtherStep
  BY DEF Next, OtherStep

LEMMA TypeStep == ASSUME TypeOK, [Next]_vars PROVE TypeOK'
<1>1. CASE UNCHANGED vars
  BY <1>1 DEF vars, TypeOK
<1>2. CASE Next
  BY <1>2, NextCases, ProcTypes, TaskTypes, PassTypes, OtherTypes
<1> QED
  BY <1>1, <1>2

------------------------------------------------------------------------------
(* The client manager *)

\* A step that neither enters nor leaves actionLock and keeps the entry; it may
\* switch the entry's events.
Calm ==
  /\ reg'.id = reg.id /\ open' = open /\ lock' = lock
  /\ bidir' \subseteq bidir \cup {reg.id}
  /\ \A q \in Procs :
       \/ proc'[q] = proc[q]
       \/ /\ proc[q].pc \notin Inside /\ proc'[q].pc \notin Inside
          /\ proc'[q].held = 0 \/ proc'[q].held = proc[q].held

LEMMA CalmKeeps == ASSUME Manager, Calm PROVE Manager'
<1> USE DEF Manager, Calm
<1>1. LockHeld' /\ HeldInside' /\ RegOpen'
  BY DEF LockHeld, HeldInside, RegOpen, Inside, Holding
<1>2. DropOK' /\ CloseOK' /\ BuildOK'
  BY DEF DropOK, CloseOK, BuildOK, Inside
<1>3. LeakSilent'
  <2>1. \A q \in Procs : proc[q].held # 0 => proc'[q].held = proc[q].held
    BY DEF HeldInside, Inside, Holding
  <2>2. \A q \in Procs : proc[q].held = 0 => proc'[q].held = 0
    OBVIOUS
  <2> QED
    BY <2>1, <2>2 DEF LeakSilent
<1> QED
  BY <1>1, <1>2, <1>3

\* A goroutine outside the lock that ends or moves within the outside.
LEMMA GotoCalm ==
  ASSUME TypeOK, NEW p \in Procs, proc[p].pc \notin Inside,
         NEW l \in Labels, l \notin Inside, Goto(p, l)
  PROVE  \A q \in Procs :
           \/ proc'[q] = proc[q]
           \/ /\ proc[q].pc \notin Inside /\ proc'[q].pc \notin Inside
              /\ proc'[q].held = 0 \/ proc'[q].held = proc[q].held
  BY DEF Goto, TypeOK, ProcState

LEMMA EndCalm ==
  ASSUME TypeOK, NEW p \in Procs, proc[p].pc \notin Inside, End(p)
  PROVE  \A q \in Procs :
           \/ proc'[q] = proc[q]
           \/ /\ proc[q].pc \notin Inside /\ proc'[q].pc \notin Inside
              /\ proc'[q].held = 0 \/ proc'[q].held = proc[q].held
  BY DEF End, TypeOK, Idle, Inside

\* RemoveClient returns to a place outside the lock and holds nothing.
LEMMA RemoveReturnCalm ==
  ASSUME TypeOK, NEW p \in Procs, RemoveReturn(p)
  PROVE  /\ proc'[p].pc \notin Inside /\ proc'[p].held = 0
         /\ \A q \in Procs : q # p => proc'[q] = proc[q]
<1> DEFINE b == [proc[p] EXCEPT !.pc = proc[p].next, !.held = 0]
<1>1. proc \in [Procs -> ProcState] /\ proc[p] \in ProcState
  BY DEF TypeOK
<1>2. b.pc \notin Inside /\ b.held = 0
  BY <1>1 DEF ProcState, Inside
<1>3. Idle.pc \notin Inside /\ Idle.held = 0
  BY DEF Idle, Inside
<1>4. proc'[p] = b \/ proc'[p] = Idle
  BY <1>1 DEF RemoveReturn
<1>5. \A q \in Procs : q # p => proc'[q] = proc[q]
  BY <1>1 DEF RemoveReturn
<1> QED
  BY <1>2, <1>3, <1>4, <1>5

\* One goroutine leaves the lock; everybody else is outside it.
LEMMA LeaveKeeps ==
  ASSUME TypeOK, Manager, NEW p \in Procs, proc[p].pc \in Inside,
         \A q \in Procs : \/ proc'[q] = proc[q] /\ q # p
                          \/ proc'[q].pc \notin Inside /\ proc'[q].held = 0,
         reg'.id # 0 => reg'.id \in open',
         open' \cap bidir' \subseteq {reg'.id}
  PROVE  Manager'
<1> USE DEF Manager
<1>1. \A q \in Procs : proc'[q].pc \notin Inside /\ proc'[q].held = 0
  BY DEF LockHeld, HeldInside, Inside, Holding
<1>2. LockHeld' /\ HeldInside' /\ RegOpen'
  BY <1>1 DEF LockHeld, HeldInside, RegOpen
<1>3. DropOK' /\ CloseOK' /\ BuildOK'
  BY <1>1 DEF DropOK, CloseOK, BuildOK, Inside
<1>4. LeakSilent'
  BY DEF LeakSilent
<1> QED
  BY <1>2, <1>3, <1>4

\* While a client is built nobody holds one and no events are passed on.
LEMMA BuildSilent ==
  ASSUME TypeOK, Manager, NEW p \in Procs, proc[p].pc \in {"build", "cache"}
  PROVE  /\ reg.id = 0 /\ open \cap bidir = {}
         /\ \A q \in Procs : proc[q].held = 0
<1>1. reg.id = 0
  BY DEF Manager, BuildOK
<1>2. \A q \in Procs : proc[q].held = 0
  BY DEF Manager, HeldInside, LockHeld, Inside, Holding
<1>3. 0 \notin open
  BY NamesAssumption DEF TypeOK
<1> QED
  BY <1>1, <1>2, <1>3 DEF Manager, LeakSilent

LEMMA ManagerProc ==
  ASSUME TypeOK, Manager, NEW p \in Procs, ProcStep(p)
  PROVE  Manager'
<1> USE DEF db, env, bounds, clients
<1>0. proc[p] \in ProcState /\ proc \in [Procs -> ProcState]
  BY DEF TypeOK
<1>00. 0 \notin open
  BY NamesAssumption DEF TypeOK
<1>1. CASE RemoveLock(p)
  <2>1. CASE reg.id = 0
    <3>1. proc[p].pc \notin Inside
      BY <1>1 DEF RemoveLock, Inside
    <3>2. RemoveReturn(p)
      BY <1>1, <2>1 DEF RemoveLock
    <3>3. Calm
      BY <1>1, <2>1, <3>1, <3>2, RemoveReturnCalm DEF RemoveLock, Calm
    <3> QED
      BY <3>3, CalmKeeps
  <2>2. CASE reg.id # 0
    <3>1. \A q \in Procs : proc[q].pc \notin Inside /\ proc[q].held = 0
      BY <1>1, NamesAssumption
      DEF RemoveLock, LockFree, Manager, LockHeld, HeldInside, Inside, Holding, Procs
    <3>2. \A q \in Procs : q # p => proc'[q] = proc[q]
      BY <1>0, <1>1, <2>2 DEF RemoveLock
    <3>3. proc'[p].pc = "drop" /\ proc'[p].held = reg.id
      BY <1>0, <1>1, <2>2 DEF RemoveLock, ProcState
    <3>4. reg' = reg /\ open' = open /\ bidir' = bidir /\ lock' = p
      BY <1>1, <2>2, <3>1 DEF RemoveLock
    <3>5. LeakSilent'
      BY <1>00, <3>1, <3>4 DEF Manager, LeakSilent
    <3>6. LockHeld' /\ HeldInside' /\ RegOpen'
      BY <2>2, <3>1, <3>2, <3>3, <3>4
      DEF Manager, LockHeld, HeldInside, RegOpen, Inside, Holding
    <3>7. DropOK' /\ CloseOK' /\ BuildOK'
      BY <2>2, <3>1, <3>2, <3>3, <3>4 DEF DropOK, CloseOK, BuildOK, Inside
    <3> QED
      BY <3>5, <3>6, <3>7 DEF Manager
  <2> QED
    BY <2>1, <2>2
<1>2. CASE RemoveDrop(p)
  <2>1. \A q \in Procs : q # p => proc[q].pc \notin Inside /\ proc[q].held = 0
    BY <1>2 DEF RemoveDrop, Manager, LockHeld, HeldInside, Inside, Holding
  <2>2. \A q \in Procs : q # p => proc'[q] = proc[q]
    BY <1>0, <1>2 DEF RemoveDrop, Goto
  <2>3. proc'[p].pc = "close" /\ proc'[p].held = proc[p].held
    BY <1>0, <1>2 DEF RemoveDrop, Goto, ProcState
  <2>4. /\ reg'.id = 0 /\ proc[p].held = reg.id /\ reg.id # 0 /\ reg.id \in open
        /\ open' = open /\ bidir' = bidir /\ lock' = lock /\ lock = p
    BY <1>2 DEF RemoveDrop, NoClient, Manager, DropOK, RegOpen, LockHeld, Inside
  <2>5. LeakSilent'
    BY <2>1, <2>2, <2>3, <2>4 DEF Manager, LeakSilent
  <2>6. LockHeld' /\ HeldInside' /\ RegOpen'
    BY <2>1, <2>2, <2>3, <2>4 DEF LockHeld, HeldInside, RegOpen, Inside, Holding
  <2>7. DropOK' /\ CloseOK' /\ BuildOK'
    BY <2>1, <2>2, <2>3, <2>4 DEF DropOK, CloseOK, BuildOK, Inside
  <2> QED
    BY <2>5, <2>6, <2>7 DEF Manager
<1>3. CASE RemoveClose(p)
  <2>0. proc[p].pc \in Inside
    BY <1>3 DEF RemoveClose, Inside
  <2>1. /\ proc'[p].pc \notin Inside /\ proc'[p].held = 0
        /\ \A q \in Procs : q # p => proc'[q] = proc[q]
    BY <1>3, RemoveReturnCalm DEF RemoveClose
  <2>2. \A q \in Procs : q # p => proc[q].held = 0
    BY <2>0 DEF Manager, LockHeld, HeldInside, Inside, Holding
  <2>3. reg.id = 0 /\ reg' = reg
    BY <1>3 DEF RemoveClose, Manager, CloseOK
  <2>4. open' = open \ {proc[p].held} /\ bidir' = bidir \ {proc[p].held}
    BY <1>3 DEF RemoveClose
  <2>5. open' \cap bidir' \subseteq {reg'.id}
    BY <2>2, <2>3, <2>4 DEF Manager, LeakSilent
  <2> QED
    BY <2>0, <2>1, <2>3, <2>5, LeaveKeeps
<1>4. CASE AddLock(p)
  <2>0. proc[p].pc \notin Inside
    BY <1>4 DEF AddLock, Inside
  <2>1. CASE lock' = lock
    <3>1. AddFailed(p) \/ Goto(p, "submit")
      BY <1>4, <2>1, NamesAssumption DEF AddLock, LockFree, Procs
    <3>2. Calm
      <4>1. "submit" \in Labels /\ "submit" \notin Inside
        BY DEF Labels, Inside
      <4> QED
        BY <1>4, <2>0, <2>1, <3>1, <4>1, GotoCalm, EndCalm DEF AddLock, AddFailed, Calm
    <3> QED
      BY <3>2, CalmKeeps
  <2>2. CASE lock' # lock
    <3>1. \A q \in Procs : proc[q].pc \notin Inside /\ proc[q].held = 0
      BY <1>4, NamesAssumption
      DEF AddLock, LockFree, Manager, LockHeld, HeldInside, Inside, Holding, Procs
    <3>2. Goto(p, "build") /\ reg.id = 0 /\ lock' = p
      BY <1>4, <2>2 DEF AddLock
    <3>3. \A q \in Procs : q # p => proc'[q] = proc[q]
      BY <1>0, <3>2 DEF Goto
    <3>4. proc'[p].pc = "build" /\ proc'[p].held = 0
      BY <1>0, <3>1, <3>2 DEF Goto, ProcState
    <3>5. reg' = reg /\ open' = open /\ bidir' = bidir
      BY <1>4 DEF AddLock
    <3>6. LeakSilent'
      BY <1>00, <3>1, <3>5 DEF Manager, LeakSilent
    <3>7. LockHeld' /\ HeldInside' /\ RegOpen'
      BY <3>1, <3>2, <3>3, <3>4, <3>5
      DEF LockHeld, HeldInside, RegOpen, Inside, Holding
    <3>8. DropOK' /\ CloseOK' /\ BuildOK'
      BY <3>1, <3>2, <3>3, <3>4, <3>5 DEF DropOK, CloseOK, BuildOK, Inside
    <3> QED
      BY <3>6, <3>7, <3>8 DEF Manager
  <2> QED
    BY <2>1, <2>2
<1>5. CASE StartInformers(p)
  <2>1. /\ proc[p].pc = "build" /\ proc[p].pc \in Inside
        /\ proc[p].pc \in {"build", "cache"} /\ reg' = reg
    BY <1>5 DEF StartInformers, Inside
  <2>2. /\ reg.id = 0 /\ open \cap bidir = {}
        /\ \A q \in Procs : proc[q].held = 0
    BY <2>1, BuildSilent
  <2>3. open' \cap bidir' = {}
    BY <1>5, <2>2 DEF StartInformers, FreshIds, NewFlags
  <2>4. CASE AddFailed(p)
    <3>1. \A q \in Procs : \/ proc'[q] = proc[q] /\ q # p
                           \/ proc'[q].pc \notin Inside /\ proc'[q].held = 0
      BY <1>0, <2>4 DEF AddFailed, End, Idle, Inside
    <3> QED
      BY <2>1, <2>2, <2>3, <3>1, LeaveKeeps
  <2>5. CASE ~AddFailed(p)
    <3>1. PICK id \in FreshIds :
             /\ open' = open \cup {id}
             /\ proc' = [proc EXCEPT ![p] = [@ EXCEPT !.pc = "cache", !.built = id]]
             /\ lock' = lock
      BY <1>5, <2>5 DEF StartInformers
    <3>2. proc'[p].pc = "cache" /\ proc'[p].built = id /\ proc'[p].held = 0
      BY <1>0, <2>2, <3>1 DEF ProcState
    <3>3. \A q \in Procs : q # p => proc'[q] = proc[q]
      BY <1>0, <3>1
    <3>4. lock = p /\ \A q \in Procs : q # p => proc[q].pc \notin Inside
      BY <2>1 DEF Manager, LockHeld
    <3>5. LockHeld' /\ HeldInside' /\ RegOpen'
      BY <2>1, <2>2, <3>1, <3>2, <3>3, <3>4
      DEF LockHeld, HeldInside, RegOpen, Inside, Holding
    <3>6. DropOK' /\ CloseOK' /\ BuildOK'
      BY <2>1, <2>2, <3>1, <3>2, <3>3, <3>4 DEF DropOK, CloseOK, BuildOK, Inside
    <3>7. LeakSilent'
      BY <2>3 DEF LeakSilent
    <3> QED
      BY <3>5, <3>6, <3>7 DEF Manager
  <2> QED
    BY <2>4, <2>5
<1>6. CASE WaitForCache(p)
  <2>1. /\ proc[p].pc = "cache" /\ proc[p].pc \in Inside
        /\ proc[p].pc \in {"build", "cache"}
        /\ open' = open /\ bidir' = bidir
    BY <1>6 DEF WaitForCache, Inside
  <2>2. /\ reg.id = 0 /\ open \cap bidir = {}
        /\ \A q \in Procs : proc[q].held = 0
    BY <2>1, BuildSilent
  <2>3. CASE Goto(p, "stuck") /\ UNCHANGED <<lock, reg>>
    <3>1. proc'[p].pc = "stuck" /\ proc'[p].held = 0
      BY <1>0, <2>2, <2>3 DEF Goto, ProcState
    <3>2. \A q \in Procs : q # p => proc'[q] = proc[q]
      BY <1>0, <2>3 DEF Goto
    <3>3. lock = p /\ \A q \in Procs : q # p => proc[q].pc \notin Inside
      BY <2>1 DEF Manager, LockHeld
    <3>4. LockHeld' /\ HeldInside' /\ RegOpen'
      BY <2>2, <2>3, <3>1, <3>2, <3>3
      DEF LockHeld, HeldInside, RegOpen, Inside, Holding
    <3>5. DropOK' /\ CloseOK' /\ BuildOK'
      BY <3>1, <3>2, <3>3 DEF DropOK, CloseOK, BuildOK, Inside
    <3>6. LeakSilent'
      BY <2>1, <2>2 DEF LeakSilent
    <3> QED
      BY <3>4, <3>5, <3>6 DEF Manager
  <2>4. CASE ~(Goto(p, "stuck") /\ UNCHANGED <<lock, reg>>)
    <3>1. reg' = reg \/ reg'.id = proc[p].built
      BY <1>6, <2>4 DEF WaitForCache, NewClient
    <3>2. proc[p].built \in open
      BY <2>1 DEF Manager, BuildOK
    <3>3. \A q \in Procs : \/ proc'[q] = proc[q] /\ q # p
                           \/ proc'[q].pc \notin Inside /\ proc'[q].held = 0
      <4>1. CASE End(p)
        BY <1>0, <4>1 DEF End, Idle, Inside
      <4>2. CASE p = "health" /\ StartSyncTask
        <5>1. /\ TaskRecord(FALSE).pc \notin Inside /\ TaskRecord(FALSE).held = 0
              /\ Idle.pc \notin Inside /\ Idle.held = 0
          BY DEF TaskRecord, Idle, Inside
        <5>2. CASE End("health")
          BY <1>0, <4>2, <5>1, <5>2 DEF End
        <5>3. CASE ~End("health")
          <6>1. PICK t \in Tasks : proc' = [proc EXCEPT !["health"] = Idle,
                                                      ![t] = TaskRecord(FALSE)]
            BY <4>2, <5>3 DEF StartSyncTask
          <6>2. t \in Procs /\ t # "health"
            BY NamesAssumption DEF Procs
          <6> QED
            BY <1>0, <4>2, <5>1, <6>1, <6>2
        <5> QED
          BY <5>2, <5>3
      <4>3. CASE proc' = [proc EXCEPT ![p] =
                   [@ EXCEPT !.pc = IF proc[p].force THEN "setrunning" ELSE "submit",
                             !.built = 0]]
        <5>1. proc'[p].pc \notin Inside /\ proc'[p].held = proc[p].held
          BY <1>0, <4>3 DEF ProcState, Inside
        <5> QED
          BY <1>0, <2>2, <4>3, <5>1
      <4> QED
        BY <1>6, <2>4, <4>1, <4>2, <4>3 DEF WaitForCache, AddFailed
    <3> QED
      BY <2>1, <2>2, <3>1, <3>2, <3>3, LeaveKeeps
  <2> QED
    BY <2>3, <2>4
<1> QED
  BY <1>1, <1>2, <1>3, <1>4, <1>5, <1>6 DEF ProcStep

LEMMA ManagerTask ==
  ASSUME TypeOK, Manager, NEW t \in Tasks, TaskStep(t)
  PROVE  Manager'
<1> USE DEF db, env, bounds, clients
<1>0. t \in Procs /\ proc \in [Procs -> ProcState] /\ reg \in Client
  BY DEF Procs, TypeOK
<1>1. CASE SetRunning(t)
  <2>1. reg'.id = reg.id
    BY <1>0, <1>1 DEF SetRunning, Client
  <2>2. proc'[t].held = proc[t].held /\ proc'[t].pc = "submit"
    BY <1>0, <1>1 DEF SetRunning, ProcState
  <2>3. \A q \in Procs : q # t => proc'[q] = proc[q]
    BY <1>0, <1>1 DEF SetRunning
  <2>4. Calm
    BY <1>0, <1>1, <2>1, <2>2, <2>3 DEF SetRunning, Calm, Inside
  <2> QED
    BY <2>4, CalmKeeps
<1>2. CASE TaskSubmit(t)
  <2>1. bidir' \subseteq bidir /\ reg' = reg
    BY <1>2 DEF TaskSubmit
  <2>2. /\ [Idle EXCEPT !.pc = "wait"].pc \notin Inside
        /\ [Idle EXCEPT !.pc = "wait"].held = 0
        /\ [Idle EXCEPT !.pc = "blocked"].pc \notin Inside
        /\ [Idle EXCEPT !.pc = "blocked"].held = 0
    BY DEF Idle, Inside
  <2>3. proc[t].pc \notin Inside
    BY <1>2 DEF TaskSubmit, Inside
  <2>4. Calm
    BY <1>0, <1>2, <2>1, <2>2, <2>3 DEF TaskSubmit, Calm
  <2> QED
    BY <2>4, CalmKeeps
<1> QED
  BY <1>1, <1>2 DEF TaskStep

LEMMA ManagerPass ==
  ASSUME TypeOK, Manager, Waits, NEW p \in Submitters, PassStep(p)
  PROVE  Manager'
<1> USE DEF db, env, bounds, clients
<1>0. proc \in [Procs -> ProcState] /\ reg \in Client
  BY DEF TypeOK
<1>1. /\ reg' = reg /\ open' = open /\ lock' = lock
      /\ bidir' \subseteq bidir \cup {reg.id}
  BY DEF PassStep, PassMark, PassSync, PassMarkEnd, PassEnable
<1>2. CASE proc' = proc
  BY <1>1, <1>2, CalmKeeps DEF Calm
<1>3. CASE proc' # proc
  <2>1. EndPass(p) /\ pass[p].pc # "none"
    BY <1>3 DEF PassStep, PassMark, PassSync, PassMarkEnd, PassEnable
  <2>2. p \in Tasks /\ p \in Procs /\ End(p)
    BY <1>3, <2>1 DEF EndPass, End, Procs
  <2>3. proc[p].pc \notin Inside
    BY <2>1, <2>2 DEF Waits, Inside
  <2>4. Calm
    BY <1>1, <2>2, <2>3, EndCalm DEF Calm
  <2> QED
    BY <2>4, CalmKeeps
<1> QED
  BY <1>2, <1>3

LEMMA ManagerOther ==
  ASSUME TypeOK, Manager, OtherStep
  PROVE  Manager'
<1> USE DEF db, env, bounds, clients
<1>0. /\ proc \in [Procs -> ProcState] /\ reg \in Client
      /\ "health" \in Procs /\ "delete" \in Procs /\ "start" \in Procs
  BY DEF TypeOK, Procs
<1>1. ASSUME NEW t \in Tasks, NEW f \in BOOLEAN, PerformSync(t, f) PROVE Manager'
  <2>1. TaskRecord(f).pc \notin Inside /\ TaskRecord(f).held = 0
    BY DEF TaskRecord, Idle, Inside
  <2>2. Calm
    BY <1>0, <1>1, <2>1 DEF PerformSync, Calm, Inside, Procs
  <2> QED
    BY <2>2, CalmKeeps
<1>2. CASE HealthRead
  <2>1. proc'["health"].pc = "probe" /\ proc'["health"].held = proc["health"].held
    BY <1>0, <1>2 DEF HealthRead, ProcState
  <2>2. Calm
    BY <1>0, <1>2, <2>1 DEF HealthRead, Calm, Inside
  <2> QED
    BY <2>2, CalmKeeps
<1>3. CASE HealthProbe
  <2>1. proc["health"].pc \notin Inside
    BY <1>3 DEF HealthProbe, Inside
  <2>2. CASE End("health")
    BY <1>0, <1>3, <2>1, <2>2, EndCalm, CalmKeeps DEF HealthProbe, Calm
  <2>3. CASE ~End("health")
    <3>1. /\ proc'["health"].pc = "remove"
          /\ proc'["health"].held = proc["health"].held \/ proc'["health"].held = 0
      <4> DEFINE h == proc["health"]
                 a == [h EXCEPT !.pc = "remove", !.next = "add", !.copy = "running"]
                 b == [Idle EXCEPT !.pc = "remove"]
      <4>1. h \in ProcState
        BY <1>0
      <4>2. a.pc = "remove" /\ a.held = h.held /\ b.pc = "remove" /\ b.held = 0
        BY <4>1 DEF ProcState, Idle
      <4>3. proc'["health"] = a \/ proc'["health"] = b
        BY <1>0, <1>3, <2>3 DEF HealthProbe
      <4> QED
        BY <4>2, <4>3
    <3>2. \A q \in Procs : q # "health" => proc'[q] = proc[q]
      BY <1>0, <1>3, <2>3 DEF HealthProbe
    <3>3. Calm
      BY <1>0, <1>3, <2>1, <3>1, <3>2 DEF HealthProbe, Calm, Inside
    <3> QED
      BY <3>3, CalmKeeps
  <2> QED
    BY <2>2, <2>3
<1>4. CASE AutoSync
  <2>1. Calm
    BY <1>0, <1>4 DEF AutoSync, Calm
  <2> QED
    BY <2>1, CalmKeeps
<1>5. CASE UserDelete \/ ClientDelete
  <2>1. proc'["delete"].pc = "remove" /\ proc'["delete"].held = proc["delete"].held
    <3> DEFINE d == proc["delete"]
    <3>1. d \in ProcState
      BY <1>0
    <3>2. ASSUME NEW n PROVE /\ [d EXCEPT !.pc = "remove", !.next = n].pc = "remove"
                             /\ [d EXCEPT !.pc = "remove", !.next = n].held = d.held
      BY <3>1 DEF ProcState
    <3>3. \/ proc'["delete"] = [d EXCEPT !.pc = "remove", !.next = "task"]
          \/ proc'["delete"] = [d EXCEPT !.pc = "remove", !.next = "idle"]
      BY <1>0, <1>5 DEF UserDelete, ClientDelete
    <3> QED
      BY <3>2, <3>3
  <2>2. Calm
    BY <1>0, <1>5, <2>1 DEF UserDelete, ClientDelete, Calm, Inside
  <2> QED
    BY <2>2, CalmKeeps
<1>6. CASE DeleteTask
  <2>1. proc["delete"].pc \notin Inside /\ End("delete")
    BY <1>6 DEF DeleteTask, Inside
  <2>2. Calm
    BY <1>0, <1>6, <2>1, EndCalm DEF DeleteTask, Calm
  <2> QED
    BY <2>2, CalmKeeps
<1>7. CASE Start
  <2>1. /\ [Idle EXCEPT !.pc = "add", !.copy = status].pc \notin Inside
        /\ [Idle EXCEPT !.pc = "add", !.copy = status].held = 0
    BY DEF Idle, Inside
  <2>2. proc["start"].pc \notin Inside
    BY <1>7 DEF Start, Inside
  <2>3. Calm
    BY <1>0, <1>7, <2>1, <2>2 DEF Start, Calm
  <2> QED
    BY <2>3, CalmKeeps
<1>8. CASE Crash
  <2>1. \A q \in Procs : proc'[q].pc = "idle" /\ proc'[q].held = 0
    BY <1>8 DEF Crash, Idle
  <2>2. open' = {} /\ reg'.id = 0
    BY <1>8 DEF Crash, NoClient
  <2> QED
    BY <2>1, <2>2 DEF Manager, LockHeld, HeldInside, RegOpen, DropOK, CloseOK, BuildOK,
                      LeakSilent, Inside, Holding
<1>9. CASE Flip \/ Expire
  <2>1. Calm
    BY <1>9 DEF Flip, Expire, Calm
  <2> QED
    BY <2>1, CalmKeeps
<1> QED
  BY <1>1, <1>2, <1>3, <1>4, <1>5, <1>6, <1>7, <1>8, <1>9 DEF OtherStep

------------------------------------------------------------------------------
(* Waiting tasks and sync_status *)

\* Enough for Waits: nobody but the end of its pass moves a task that waits.
LEMMA WaitsKept ==
  ASSUME Waits,
         \A t \in Tasks :
           \/ pass'[t].pc = "none" \/ proc'[t].pc = "wait"
           \/ /\ pass'[t].pc # "none" => pass[t].pc # "none"
              /\ proc[t].pc = "wait" => proc'[t].pc = "wait"
  PROVE  Waits'
  BY DEF Waits

LEMMA WaitsProc == ASSUME TypeOK, Waits, NEW p \in Procs, ProcStep(p) PROVE Waits'
<1> USE DEF db, env, bounds, clients
<1>1. pass' = pass /\ proc[p].pc # "wait"
  BY DEF ProcStep, RemoveLock, RemoveDrop, RemoveClose, AddLock, StartInformers,
         WaitForCache
<1>2. proc \in [Procs -> ProcState] /\ Tasks \subseteq Procs
  BY DEF TypeOK, Procs
<1>3. CASE \A q \in Procs : q # p => proc'[q] = proc[q]
  BY <1>1, <1>2, <1>3, WaitsKept
<1>4. CASE p = "health" /\ StartSyncTask /\ ~End("health")
  <2>1. PICK t \in Tasks : /\ proc[t].pc = "idle"
                           /\ proc' = [proc EXCEPT !["health"] = Idle,
                                                   ![t] = TaskRecord(FALSE)]
    BY <1>4 DEF StartSyncTask
  <2>2. \A q \in Tasks : q # t => proc'[q] = proc[q]
    BY <1>2, <2>1, NamesAssumption
  <2> QED
    BY <1>1, <2>1, <2>2, WaitsKept
<1> QED
  BY <1>2, <1>3, <1>4
  DEF ProcStep, RemoveLock, RemoveReturn, RemoveDrop, RemoveClose, AddLock, StartInformers,
      WaitForCache, AddFailed, Goto, End

LEMMA WaitsTask == ASSUME TypeOK, Waits, NEW t \in Tasks, TaskStep(t) PROVE Waits'
<1> USE DEF db, env, bounds, clients
<1>1. /\ proc \in [Procs -> ProcState] /\ pass \in [Submitters -> PassState]
      /\ Tasks \subseteq Procs /\ Tasks \subseteq Submitters
  BY DEF TypeOK, Procs, Submitters
<1>2. CASE SetRunning(t)
  BY <1>1, <1>2, WaitsKept DEF SetRunning
<1>3. CASE TaskSubmit(t)
  <2>1. CASE Usable
    <3>2. proc'[t].pc = "wait"
      BY <1>1, <1>3, <2>1 DEF TaskSubmit, Idle
    <3>3. \A q \in Tasks : q # t => proc'[q] = proc[q] /\ pass'[q] = pass[q]
      BY <1>1, <1>3, <2>1 DEF TaskSubmit
    <3> QED
      BY <3>2, <3>3, WaitsKept
  <2>2. CASE ~Usable
    BY <1>1, <1>3, <2>2, WaitsKept DEF TaskSubmit
  <2> QED
    BY <2>1, <2>2
<1> QED
  BY <1>2, <1>3 DEF TaskStep

LEMMA WaitsPass == ASSUME TypeOK, Waits, NEW p \in Submitters, PassStep(p) PROVE Waits'
<1> USE DEF db, env, bounds, clients
<1>1. /\ proc \in [Procs -> ProcState] /\ pass \in [Submitters -> PassState]
      /\ Tasks \subseteq Procs /\ Tasks \subseteq Submitters
  BY DEF TypeOK, Procs, Submitters
<1>2. CASE EndPass(p)
  <2>1. pass'[p].pc = "none"
    BY <1>1, <1>2 DEF EndPass, NoPass
  <2>2. \A q \in Tasks : q # p => proc'[q] = proc[q] /\ pass'[q] = pass[q]
    BY <1>1, <1>2 DEF EndPass
  <2> QED
    BY <2>1, <2>2, WaitsKept
<1>3. CASE ~EndPass(p)
  <2>1. pass[p].pc # "none" /\ proc' = proc
    BY <1>3 DEF PassStep, PassMark, PassSync, PassMarkEnd, PassEnable
  <2>2. \A q \in Submitters : q # p => pass'[q] = pass[q]
    BY <1>1, <1>3 DEF PassStep, PassMark, PassSync, PassMarkEnd, PassEnable
  <2> QED
    BY <1>1, <2>1, <2>2, WaitsKept
<1> QED
  BY <1>2, <1>3

LEMMA WaitsOther == ASSUME TypeOK, Waits, OtherStep PROVE Waits'
<1> USE DEF db, env, bounds, clients
<1>1. /\ proc \in [Procs -> ProcState] /\ pass \in [Submitters -> PassState]
      /\ Tasks \subseteq Procs /\ Tasks \subseteq Submitters
      /\ {"start", "health", "delete", "cron"} \cap Tasks = {}
  BY NamesAssumption DEF TypeOK, Procs, Submitters
<1>2. ASSUME NEW t \in Tasks, NEW f \in BOOLEAN, PerformSync(t, f) PROVE Waits'
  BY <1>1, <1>2, WaitsKept DEF PerformSync
<1>3. CASE HealthRead \/ HealthProbe \/ UserDelete \/ DeleteTask \/ ClientDelete
  <2>1. pass' = pass /\ \A t \in Tasks : proc'[t] = proc[t]
    BY <1>1, <1>3 DEF HealthRead, HealthProbe, UserDelete, DeleteTask, ClientDelete, End
  <2> QED
    BY <2>1, WaitsKept
<1>4. CASE AutoSync
  <2>1. proc' = proc /\ \A t \in Tasks : pass'[t] = pass[t]
    BY <1>1, <1>4 DEF AutoSync
  <2> QED
    BY <2>1, WaitsKept
<1>5. CASE Start \/ Flip \/ Expire
  <2>1. pass' = pass /\ \A t \in Tasks : proc'[t] = proc[t]
    BY <1>1, <1>5 DEF Start, Flip, Expire
  <2> QED
    BY <2>1, WaitsKept
<1>6. CASE Crash
  <2>1. \A t \in Tasks : pass'[t].pc = "none"
    BY <1>1, <1>6 DEF Crash, NoPass
  <2> QED
    BY <2>1, WaitsKept
<1> QED
  BY <1>2, <1>3, <1>4, <1>5, <1>6 DEF OtherStep

\* Passes run and sync_status changes only in the steps of a pass.
LEMMA HonestKept ==
  ASSUME SyncStatusHonest, syncStatus' = syncStatus, left' = left,
         \A p \in Submitters : pass[p].pc \in {"marked", "synced"}
                                 => pass'[p].pc \in {"marked", "synced"}
  PROVE  SyncStatusHonest'
  BY DEF SyncStatusHonest

LEMMA HonestPass ==
  ASSUME TypeOK, SyncStatusHonest, NEW p \in Submitters, PassStep(p)
  PROVE  SyncStatusHonest'
<1> USE DEF db, env, bounds, clients
<1>1. pass \in [Submitters -> PassState]
  BY DEF TypeOK
<1>2. CASE PassMark(p)
  <2>1. pass'[p].pc = "marked"
    BY <1>1, <1>2 DEF PassMark
  <2> QED
    BY <2>1 DEF SyncStatusHonest
<1>3. CASE PassSync(p)
  <2>1. CASE Usable /\ pass' = [pass EXCEPT ![p].pc = "synced"]
             /\ UNCHANGED <<syncStatus, left, proc, faults>>
    <3>1. pass'[p].pc = "synced"
      BY <1>1, <2>1 DEF PassState
    <3> QED
      BY <3>1 DEF SyncStatusHonest
  <2>2. CASE syncStatus' = ErrorStatus
    BY <2>2 DEF ErrorStatus, SyncStatusHonest
  <2> QED
    BY <1>3, <2>1, <2>2 DEF PassSync
<1>4. CASE PassMarkEnd(p)
  BY <1>4 DEF PassMarkEnd, SyncStatusHonest
<1>5. CASE PassEnable(p)
  BY <1>1, <1>5, HonestKept DEF PassEnable, EndPass
<1> QED
  BY <1>2, <1>3, <1>4, <1>5 DEF PassStep

LEMMA HonestRest ==
  ASSUME TypeOK, SyncStatusHonest, Waits,
         \/ \E p \in Procs : ProcStep(p)
         \/ \E t \in Tasks : TaskStep(t)
         \/ OtherStep
  PROVE  SyncStatusHonest'
<1> USE DEF db, env, bounds, clients
<1>1. /\ pass \in [Submitters -> PassState]
      /\ Tasks \subseteq Submitters /\ "cron" \in Submitters
  BY DEF TypeOK, Submitters
<1>2. ASSUME NEW p \in Procs, ProcStep(p) PROVE SyncStatusHonest'
  BY <1>2, HonestKept DEF ProcStep, RemoveLock, RemoveDrop, RemoveClose, AddLock, StartInformers,
         WaitForCache
<1>3. ASSUME NEW t \in Tasks, TaskStep(t) PROVE SyncStatusHonest'
  <2>1. syncStatus' = syncStatus /\ left' = left
    BY <1>3 DEF TaskStep, SetRunning, TaskSubmit
  <2>2. pass[t].pc = "none" \/ pass' = pass
    BY <1>3 DEF TaskStep, SetRunning, TaskSubmit, Waits
  <2>3. \A q \in Submitters : q # t => pass'[q] = pass[q]
    BY <1>1, <1>3 DEF TaskStep, SetRunning, TaskSubmit
  <2> QED
    BY <2>1, <2>2, <2>3, HonestKept
<1>4. CASE AutoSync
  <2>1. \A q \in Submitters : q # "cron" => pass'[q] = pass[q]
    BY <1>1, <1>4 DEF AutoSync
  <2> QED
    BY <1>4, <2>1, HonestKept DEF AutoSync
<1>5. CASE Crash
  BY <1>5 DEF Crash, SyncStatusHonest
<1>6. CASE OtherStep /\ ~AutoSync /\ ~Crash
  BY <1>6, HonestKept
  DEF OtherStep, PerformSync, HealthRead, HealthProbe, UserDelete, DeleteTask,
      ClientDelete, Start, Flip, Expire
<1> QED
  BY <1>2, <1>3, <1>4, <1>5, <1>6

------------------------------------------------------------------------------
(* Theorems *)

LEMMA StepIInv == ASSUME IInv, [Next]_vars PROVE IInv'
<1>0. TypeOK /\ Manager /\ Waits /\ SyncStatusHonest
  BY DEF IInv
<1>1. TypeOK'
  BY <1>0, TypeStep
<1>2. CASE UNCHANGED vars
  <2>1. Manager'
    BY <1>0, <1>2, CalmKeeps DEF Calm, vars
  <2>2. Waits' /\ SyncStatusHonest'
    BY <1>0, <1>2 DEF vars, Waits, SyncStatusHonest
  <2> QED
    BY <1>1, <2>1, <2>2 DEF IInv
<1>3. CASE Next
  <2>1. Manager'
    BY <1>0, <1>3, NextCases, ManagerProc, ManagerTask, ManagerPass, ManagerOther
  <2>3. Waits'
    BY <1>0, <1>3, NextCases, WaitsProc, WaitsTask, WaitsPass, WaitsOther
  <2>4. SyncStatusHonest'
    BY <1>0, <1>3, NextCases, HonestPass, HonestRest
  <2> QED
    BY <1>1, <2>1, <2>3, <2>4 DEF IInv
<1> QED
  BY <1>2, <1>3

LEMMA Inductive == Spec => []IInv
<1>1. IInv /\ [Next]_vars => IInv'
  BY StepIInv
<1> QED
  BY InitIInv, <1>1, PTL DEF Spec

\* Every goroutine, pass and column keeps its type, for any number of tasks:
\* the statuses are those the code knows.
THEOREM TypeCorrect == Spec => []TypeOK
<1>1. IInv => TypeOK
  BY DEF IInv
<1> QED
  BY Inductive, <1>1, PTL

\* RemoveClient never closes a client's stop channel a second time, however
\* many health checks, sync tasks and deletions race for it.
THEOREM ClosedOnce == Spec => []ClosesOnce
<1>1. IInv => ClosesOnce
  <2> SUFFICES ASSUME IInv, NEW p \in Procs, proc[p].held # 0
               PROVE  /\ proc[p].held \in open
                      /\ \A q \in Procs : proc[q].held = proc[p].held => q = p
    BY DEF ClosesOnce
  <2>1. proc[p].pc \in Holding /\ lock = p
    BY DEF IInv, Manager, HeldInside, LockHeld, Holding, Inside
  <2>2. proc[p].held \in open
    BY <2>1 DEF IInv, Manager, RegOpen, DropOK, CloseOK, Holding
  <2>3. \A q \in Procs : proc[q].held = proc[p].held => q = p
    BY <2>1 DEF IInv, Manager, HeldInside, LockHeld, Holding, Inside
  <2> QED
    BY <2>2, <2>3
<1> QED
  BY Inductive, <1>1, PTL

\* Whatever buildCacheController leaves running when it fails, and however many
\* clients are built, replaced and removed, events reach the handlers only from
\* the client that is registered or from one that RemoveClient is closing.
THEOREM LeaksAreSilent == Spec => []LeakSilent
<1>1. IInv => LeakSilent
  BY DEF IInv, Manager
<1> QED
  BY Inductive, <1>1, PTL

\* sync_status is "syncing" only during a pass or after a crash, however many
\* passes overlap and however old the copies are that they write from.
THEOREM HonestStatus == Spec => []SyncStatusHonest
<1>1. IInv => SyncStatusHonest
  BY DEF IInv
<1> QED
  BY Inductive, <1>1, PTL
------------------------------------------------------------------------------
(* The client manager implements ClientSlot *)

\* The client whose events are passed on is the registered one, if there is one.
LEMMA LiveInSlot ==
  ASSUME TypeOK, Manager, reg.id # 0
  PROVE  open \cap bidir \subseteq {reg.id} /\ reg.id \in open
<1>1. reg.id \in open
  BY DEF Manager, RegOpen
<1>2. \A p \in Procs : proc[p].held # 0 => proc[p].held = reg.id
  BY DEF Manager, HeldInside, DropOK, CloseOK, Holding
<1>3. 0 \notin open
  BY NamesAssumption DEF TypeOK
<1> QED
  BY <1>1, <1>2, <1>3 DEF Manager, LeakSilent

\* The goroutines of the manager: three of their steps change the slot.
LEMMA SlotProc ==
  ASSUME IInv, NEW p \in Procs, ProcStep(p)
  PROVE  [Slot!Next]_Slot!vars
<1> USE DEF db, env, bounds, clients, Slot!Next, Slot!vars
<1>0. TypeOK /\ Manager
  BY DEF IInv
<1>1. CASE RemoveLock(p)
  BY <1>1 DEF RemoveLock
<1>2. CASE RemoveDrop(p)
  <2>1. reg.id # 0 /\ reg'.id = 0 /\ open' = open /\ bidir' = bidir
    BY <1>0, <1>2 DEF RemoveDrop, Manager, DropOK, NoClient
  <2>2. Slot!Withdraw
    BY <1>0, <2>1, LiveInSlot DEF Slot!Withdraw
  <2> QED
    BY <2>2
<1>3. CASE RemoveClose(p)
  <2>1. reg.id = 0 /\ reg' = reg
    BY <1>0, <1>3 DEF RemoveClose, Manager, CloseOK
  <2>2. \A q \in Procs : q # p => proc[q].held = 0
    BY <1>0, <1>3 DEF RemoveClose, Manager, LockHeld, HeldInside, Inside, Holding
  <2>3. 0 \notin open
    BY <1>0, NamesAssumption DEF TypeOK
  <2>4. open' \cap bidir' = {}
    BY <1>0, <1>3, <2>1, <2>2, <2>3 DEF RemoveClose, Manager, LeakSilent
  <2>5. Slot!Close
    BY <2>1, <2>4 DEF Slot!Close
  <2> QED
    BY <2>5
<1>4. CASE AddLock(p)
  BY <1>4 DEF AddLock
<1>5. CASE StartInformers(p)
  <2>1. proc[p].pc \in {"build", "cache"} /\ reg' = reg
    BY <1>5 DEF StartInformers
  <2>2. open \cap bidir = {}
    BY <1>0, <2>1, BuildSilent
  <2>3. open' \cap bidir' = {}
    BY <1>5, <2>2 DEF StartInformers, FreshIds, NewFlags
  <2> QED
    BY <2>1, <2>2, <2>3
<1>6. CASE WaitForCache(p)
  <2>1. /\ proc[p].pc = "cache" /\ proc[p].pc \in {"build", "cache"}
        /\ open' = open /\ bidir' = bidir
    BY <1>6 DEF WaitForCache
  <2>2. reg.id = 0 /\ open \cap bidir = {}
    BY <1>0, <2>1, BuildSilent
  <2>3. CASE reg' = reg
    BY <2>1, <2>3
  <2>4. CASE reg' # reg
    <3>1. reg'.id = proc[p].built
      BY <1>6, <2>4 DEF WaitForCache, NewClient
    <3>2. proc[p].built \in ClientIds
      BY <1>0, <2>1 DEF Manager, BuildOK, TypeOK
    <3>3. Slot!Install(proc[p].built)
      BY <2>1, <2>2, <3>1 DEF Slot!Install
    <3> QED
      BY <3>2, <3>3
  <2> QED
    BY <2>3, <2>4
<1> QED
  BY <1>1, <1>2, <1>3, <1>4, <1>5, <1>6 DEF ProcStep

\* The requests, the health check, restarts and the environment.
LEMMA SlotOther ==
  ASSUME IInv, OtherStep
  PROVE  [Slot!Next]_Slot!vars
<1> USE DEF db, env, bounds, clients, Slot!Next, Slot!vars
<1>1. CASE Crash
  <2>1. Slot!Lose
    BY <1>1 DEF Crash, NoClient, Slot!Lose
  <2> QED
    BY <2>1
<1>2. CASE AutoSync
  <2>1. reg.id # 0 /\ reg' = reg /\ open' = open /\ bidir' = bidir \ {reg.id}
    BY <1>2 DEF AutoSync, Usable
  <2>2. Slot!Disable
    BY <2>1, LiveInSlot DEF IInv, Slot!Disable
  <2> QED
    BY <2>2
<1>3. CASE OtherStep /\ ~Crash /\ ~AutoSync
  BY <1>3
  DEF OtherStep, PerformSync, HealthRead, HealthProbe, UserDelete, DeleteTask,
      ClientDelete, Start, Flip, Expire
<1> QED
  BY <1>1, <1>2, <1>3

\* A task switches the client off and a pass switches it on.
LEMMA SlotTask ==
  ASSUME IInv, NEW t \in Tasks, TaskStep(t)
  PROVE  [Slot!Next]_Slot!vars
<1> USE DEF db, env, bounds, clients, Slot!Next, Slot!vars
<1>1. CASE SetRunning(t)
  <2>1. reg'.id = reg.id /\ open' = open /\ bidir' = bidir
    BY <1>1 DEF SetRunning, IInv, TypeOK, Client
  <2> QED
    BY <2>1
<1>2. CASE TaskSubmit(t)
  <2>1. CASE Usable
    <3>1. reg.id # 0 /\ reg' = reg /\ open' = open /\ bidir' = bidir \ {reg.id}
      BY <1>2, <2>1 DEF TaskSubmit, Usable
    <3>2. Slot!Disable
      BY <3>1, LiveInSlot DEF IInv, Slot!Disable
    <3> QED
      BY <3>2
  <2>2. CASE ~Usable
    BY <1>2, <2>2 DEF TaskSubmit
  <2> QED
    BY <2>1, <2>2
<1> QED
  BY <1>1, <1>2 DEF TaskStep

LEMMA SlotPass ==
  ASSUME IInv, NEW p \in Submitters, PassStep(p)
  PROVE  [Slot!Next]_Slot!vars
<1> USE DEF db, env, bounds, clients, Slot!Next, Slot!vars
<1>1. CASE PassEnable(p) /\ Usable
  <2>1. reg.id # 0 /\ reg' = reg /\ open' = open /\ bidir' = bidir \cup {reg.id}
    BY <1>1 DEF PassEnable, Enables, Usable
  <2>2. Slot!Enable
    BY <2>1, LiveInSlot DEF IInv, Slot!Enable
  <2> QED
    BY <2>2
<1>2. CASE ~(PassEnable(p) /\ Usable)
  <2>1. reg' = reg /\ open' = open /\ bidir' = bidir
    BY <1>2 DEF PassStep, PassMark, PassSync, PassMarkEnd, PassEnable, Enables
  <2> QED
    BY <2>1
<1> QED
  BY <1>1, <1>2

\* However health checks, sync tasks, deletions, failing builds and restarts
\* interleave, the events of one client at a time are passed on: each step of
\* AddClient, UpdateClient, RemoveClient and of the bidirectional switch is a
\* step of ClientSlot or leaves its variables alone.
THEOREM SlotImplemented == Spec => OneClientAtATime
<1>1. Init => Slot!Init
  BY DEF Init, NoClient, Slot!Init
<1>2. IInv /\ [Next]_vars => [Slot!Next]_Slot!vars
  <2> SUFFICES ASSUME IInv, [Next]_vars PROVE [Slot!Next]_Slot!vars
    OBVIOUS
  <2>1. CASE UNCHANGED vars
    BY <2>1 DEF vars, Slot!vars
  <2>2. CASE Next
    BY <2>2, NextCases, SlotProc, SlotOther, SlotTask, SlotPass
  <2> QED
    BY <2>1, <2>2
<1> QED
  BY Inductive, <1>1, <1>2, PTL DEF Spec, OneClientAtATime, Slot!Spec
=============================================================================
