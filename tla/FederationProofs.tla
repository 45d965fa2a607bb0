-------------------------- MODULE FederationProofs --------------------------
(***************************************************************************)
(* Proofs about Federation: the types, that an object is attached to a     *)
(* cluster once, and that "syncing" is honest, for any number of roles,    *)
(* clusters, requests and tasks.                                           *)
(***************************************************************************)
EXTENDS Federation, TLAPS

\* A worker at one of these labels is about a cluster.
AtCluster == {"check", "attach", "insert", "look", "apply", "post", "ensure", "wait"}

Aimed == \A p \in Procs : proc[p].at \in AtCluster => proc[p].cl \in Clusters

\* Only attach tasks of roles wait for the namespace.
ForRole == \A p \in Procs : proc[p].at \in {"ensure", "wait"} => proc[p].op = "attachRole"

\* Only sync tasks have these stages.
SyncLabels == {"init", "list", "next", "end"}

ForSync == \A p \in Procs : proc[p].at \in SyncLabels => proc[p].op = "sync"

\* Whoever is about to insert a joint row has the lock, and there is none.
Locked == \A p \in Procs : proc[p].at = "insert" =>
            lock[proc[p].fed] = p /\ Attached(proc[p].fed, proc[p].cl) = {}

Types == TypeOK /\ Aimed /\ ForRole /\ ForSync

IInv == Types /\ AttachedOnce /\ Locked /\ SyncingHonest

\* Worker p moves to s; a sync that it runs goes on.
Moves(p, s) ==
  /\ s \in Proc
  /\ s.at \in AtCluster => s.cl \in Clusters
  /\ s.at \in {"ensure", "wait"} => s.op = "attachRole"
  /\ s.at \in SyncLabels => s.op = "sync"
  /\ proc' = [proc EXCEPT ![p] = s]

\* The sync that p runs goes on.
SyncGoesOn(p, s) == proc[p].op = "sync" => s.op = "sync" /\ s.fed = proc[p].fed

\* No object becomes "syncing".
NoNewSync ==
  /\ fed' \in [Feds -> [live : BOOLEAN, status : FedStatuses, spec : Nat]]
  /\ \A f \in Feds : fed'[f].live /\ fed'[f].status = "syncing" => fed[f].live /\ fed[f].status = "syncing"

------------------------------------------------------------------------------
(* Workers *)

LEMMA IdleProc == Idle \in Proc /\ Idle.at = "idle" /\ Idle.op = "idle"
  BY DEF Idle, Proc, Feds, Labels

LEMMA ProcFields ==
  ASSUME TypeOK, NEW p \in Procs
  PROVE  /\ proc[p] \in Proc /\ proc[p].fed \in Feds /\ proc[p].role \in Feds
         /\ proc[p].joint \in Joints \cup {0} /\ proc[p].res \in Nat /\ proc[p].rid \in Nat
         /\ proc[p].new \in BOOLEAN /\ proc[p].data \in Nat /\ proc[p].todo \subseteq Clusters
         /\ proc[p].cl \in Clusters \cup {0}
  BY DEF TypeOK, Proc

LEMMA GoesMoves ==
  ASSUME Types, NEW p \in Procs, NEW at \in Labels, Goes(p, at),
         at \in AtCluster => proc[p].cl \in Clusters,
         at \in {"ensure", "wait"} => proc[p].op = "attachRole",
         at \in SyncLabels => proc[p].op = "sync"
  PROVE  \E s : Moves(p, s) /\ SyncGoesOn(p, s) /\ s.at = at /\ s.fed = proc[p].fed /\ s.cl = proc[p].cl
<1> DEFINE s == [proc[p] EXCEPT !.at = at]
<1>1. proc[p] \in Proc
  BY ProcFields DEF Types
<1>2. s \in Proc /\ s.at = at /\ s.fed = proc[p].fed /\ s.cl = proc[p].cl /\ s.op = proc[p].op
  BY <1>1 DEF Proc
<1>3. proc' = [proc EXCEPT ![p] = s]
  BY DEF Goes
<1> HIDE DEF s
<1> QED
  BY <1>2, <1>3 DEF Moves, SyncGoesOn, SyncLabels

LEMMA ForgetProc ==
  ASSUME NEW s \in Proc, NEW at \in Labels
  PROVE  /\ Forget(s, at) \in Proc /\ Forget(s, at).at = at
         /\ Forget(s, at).op = s.op /\ Forget(s, at).fed = s.fed /\ Forget(s, at).cl = s.cl
  BY DEF Forget, Proc

\* The end of a copy or of a task.
LEMMA FinishMoves ==
  ASSUME Types, NEW p \in Procs, NEW ok \in BOOLEAN, Finish(p, ok), proc[p].cl \in Clusters
  PROVE  /\ \E s : Moves(p, s) /\ SyncGoesOn(p, s) /\ s.at # "insert"
         /\ NoNewSync
         /\ Released(p)
<1>1. proc[p] \in Proc /\ proc[p].role \in Feds
  BY ProcFields DEF Types
<1>2. After(proc[p], ok) \in {Idle, Forget(proc[p], "next"), Forget(proc[p], "wait")}
  BY DEF After
<1> DEFINE s == After(proc[p], ok)
<1>3. s \in Proc /\ s.at \in {"idle", "next", "wait"}
  BY <1>1, <1>2, IdleProc, ForgetProc DEF Labels
<1>4. s.at \in AtCluster => s.cl \in Clusters /\ s.op = "attachRole"
  BY <1>1, IdleProc, ForgetProc DEF After, Labels, AtCluster
<1>5. s.at \in SyncLabels => s.op = "sync"
  BY <1>1, IdleProc, ForgetProc DEF After, Labels, SyncLabels
<1>6. SyncGoesOn(p, s)
  BY <1>1, ForgetProc DEF SyncGoesOn, After, Labels
<1>7. NoNewSync
  <2>1. fed \in [Feds -> [live : BOOLEAN, status : FedStatuses, spec : Nat]]
    BY DEF Types, TypeOK
  <2>2. fed' = fed \/ SetStatus(proc[p].role, "update_fail")
    BY DEF Finish
  <2>3. CASE fed' = fed
    BY <2>1, <2>3 DEF NoNewSync
  <2>4. CASE SetStatus(proc[p].role, "update_fail")
    BY <1>1, <2>1, <2>4 DEF NoNewSync, SetStatus, FedStatuses
  <2> QED
    BY <2>2, <2>3, <2>4
<1> HIDE DEF s
<1>8. Moves(p, s)
  BY <1>3, <1>4, <1>5 DEF Moves, Finish, AtCluster, s
<1> QED
  BY <1>3, <1>6, <1>7, <1>8 DEF Finish

\* Parts of the invariant after a move of one worker.
LEMMA MovesTypes ==
  ASSUME Types, NEW p \in Procs, NEW s, Moves(p, s)
  PROVE  proc' \in [Procs -> Proc] /\ Aimed' /\ ForRole' /\ ForSync'
  BY DEF Types, TypeOK, Moves, Aimed, ForRole, ForSync

LEMMA MovesHonest ==
  ASSUME IInv, NEW p \in Procs, NEW s, Moves(p, s), SyncGoesOn(p, s), NoNewSync, left' = left
  PROVE  SyncingHonest'
<1> SUFFICES ASSUME NEW f \in Feds, fed'[f].live /\ fed'[f].status = "syncing", f \notin left
             PROVE  \E q \in Procs : proc'[q].op = "sync" /\ proc'[q].fed = f
  BY DEF SyncingHonest
<1>1. PICK q \in Procs : proc[q].op = "sync" /\ proc[q].fed = f
  BY DEF IInv, SyncingHonest, NoNewSync
<1>2. proc'[q].op = "sync" /\ proc'[q].fed = f
  BY <1>1 DEF Moves, SyncGoesOn, IInv, Types, TypeOK
<1> QED
  BY <1>2

\* No other worker loses a lock.
LockKept(p) ==
  /\ lock' \in [Feds -> Procs \cup {0}]
  /\ \A f \in Feds : lock[f] \in Procs /\ lock[f] # p => lock'[f] = lock[f]

\* No object is attached to another cluster.
JointsKept ==
  /\ joint' \subseteq Joint
  /\ AttachedOnce => AttachedOnce'
  /\ \A k \in joint' : \E j \in joint : j.fed = k.fed /\ j.cl = k.cl

\* The types of the copies and of the bounds.
Copies ==
  /\ row \in [Feds -> [Clusters -> [id : Nat, st : {"none", "init", "active", "create_fail", "update_fail"}]]]
  /\ object \in [Feds -> [Clusters -> Nat]]
  /\ job \subseteq Job
  /\ made \in Nat
  /\ requests \in 0..MaxRequests /\ faults \in 0..MaxFaults

LEMMA ReleasedKept ==
  ASSUME TypeOK, NEW p \in Procs, Released(p)
  PROVE  LockKept(p)
  BY DEF Released, TypeOK, LockKept

LEMMA TakenKept ==
  ASSUME TypeOK, NEW p \in Procs, NEW f \in Feds, LockFree(p, f), lock' = [lock EXCEPT ![f] = p]
  PROVE  LockKept(p)
  BY FedAssumption DEF TypeOK, LockKept, LockFree

LEMMA SameLock ==
  ASSUME TypeOK, lock' = lock, NEW p \in Procs
  PROVE  LockKept(p)
  BY DEF TypeOK, LockKept

LEMMA FewerJoints ==
  ASSUME TypeOK, joint' \subseteq joint
  PROVE  JointsKept
  BY DEF TypeOK, JointsKept, AttachedOnce

LEMMA BindKept ==
  ASSUME TypeOK, NEW p \in Procs, NEW rid \in Nat, Bind(p, rid)
  PROVE  JointsKept
<1>1. CASE joint' = joint
  BY <1>1, FewerJoints
<1>2. CASE joint' # joint
  <2> DEFINE B(j) == IF j.id = proc[p].joint THEN [j EXCEPT !.res = rid] ELSE j
  <2>1. joint' = {B(j) : j \in joint} /\ joint \subseteq Joint
    BY <1>2 DEF Bind, TypeOK
  <2>2. \A j \in joint : B(j) \in Joint /\ B(j).fed = j.fed /\ B(j).cl = j.cl
    BY <2>1 DEF Joint
  <2> HIDE DEF B
  <2>3. AttachedOnce => AttachedOnce'
    BY <2>1, <2>2 DEF AttachedOnce
  <2> QED
    BY <2>1, <2>2, <2>3 DEF JointsKept
<1> QED
  BY <1>1, <1>2

LEMMA KeptLocked ==
  ASSUME IInv, NEW p \in Procs, NEW s, Moves(p, s), s.at # "insert", JointsKept, LockKept(p)
  PROVE  Locked'
<1> SUFFICES ASSUME NEW q \in Procs, proc'[q].at = "insert"
             PROVE  lock'[proc'[q].fed] = q /\ Attached(proc[q].fed, proc[q].cl)' = {}
  BY DEF Locked, Attached
<1>1. q # p /\ proc'[q] = proc[q]
  BY DEF Moves, IInv, Types, TypeOK
<1>2. lock[proc[q].fed] = q /\ Attached(proc[q].fed, proc[q].cl) = {} /\ proc[q].fed \in Feds
  BY <1>1, ProcFields DEF IInv, Locked, Types
<1>3. lock'[proc[q].fed] = q
  BY <1>1, <1>2 DEF LockKept
<1>4. Attached(proc[q].fed, proc[q].cl)' = {}
  BY <1>1, <1>2 DEF JointsKept, Attached
<1> QED
  BY <1>1, <1>3, <1>4

\* A step of a worker that neither takes the right to insert a joint row nor
\* ends a sync.
LEMMA WorkerStep ==
  ASSUME IInv, NEW p \in Procs, NEW s, Moves(p, s), SyncGoesOn(p, s), s.at # "insert",
         NoNewSync, JointsKept, LockKept(p), left' = left, Copies'
  PROVE  IInv'
<1>1. proc' \in [Procs -> Proc] /\ Aimed' /\ ForRole' /\ ForSync'
  BY MovesTypes DEF IInv
<1>2. SyncingHonest'
  BY MovesHonest
<1>3. Locked'
  BY KeptLocked
<1>4. TypeOK'
  BY <1>1 DEF NoNewSync, JointsKept, LockKept, Copies, IInv, Types, TypeOK
<1> QED
  BY <1>1, <1>2, <1>3, <1>4 DEF IInv, Types, JointsKept

\* A step of nobody's.
LEMMA OtherStep ==
  ASSUME IInv, proc' = proc, lock' = lock, NoNewSync, JointsKept, left' = left, Copies'
  PROVE  IInv'
<1>1. TypeOK'
  BY DEF NoNewSync, JointsKept, Copies, IInv, Types, TypeOK
<1>2. Aimed' /\ ForRole' /\ ForSync'
  BY DEF IInv, Types, Aimed, ForRole, ForSync
<1>3. SyncingHonest'
  BY DEF IInv, SyncingHonest, NoNewSync
<1>4. Locked'
  BY ProcFields DEF IInv, Types, Locked, Attached, JointsKept
<1> QED
  BY <1>1, <1>2, <1>3, <1>4 DEF IInv, Types, JointsKept

LEMMA SameCopies ==
  ASSUME TypeOK, UNCHANGED remote, UNCHANGED counters
  PROVE  Copies'
  BY DEF TypeOK, remote, counters, Copies

LEMMA SameFed ==
  ASSUME TypeOK, fed' = fed
  PROVE  NoNewSync
  BY DEF TypeOK, NoNewSync

\* The end of a copy or of a task, with what it may change besides.
LEMMA FinishStep ==
  ASSUME IInv, NEW p \in Procs, NEW ok \in BOOLEAN, Finish(p, ok), proc[p].cl \in Clusters,
         JointsKept, left' = left, Copies'
  PROVE  IInv'
<1>1. PICK s : Moves(p, s) /\ SyncGoesOn(p, s) /\ s.at # "insert"
  BY FinishMoves DEF IInv
<1>2. NoNewSync /\ LockKept(p)
  BY FinishMoves, ReleasedKept DEF IInv, Types
<1> QED
  BY <1>1, <1>2, WorkerStep

\* A worker goes on, with what that may change besides.
LEMMA GoesStep ==
  ASSUME IInv, NEW p \in Procs, NEW at \in Labels \ {"insert"}, Goes(p, at),
         at \in AtCluster => proc[p].cl \in Clusters,
         at \in {"ensure", "wait"} => proc[p].op = "attachRole",
         at \in SyncLabels => proc[p].op = "sync",
         NoNewSync, JointsKept, LockKept(p), left' = left, Copies'
  PROVE  IInv'
<1>1. PICK s : Moves(p, s) /\ SyncGoesOn(p, s) /\ s.at = at
  BY GoesMoves DEF IInv
<1> QED
  BY <1>1, WorkerStep

------------------------------------------------------------------------------
(* The steps of a worker *)

LEMMA AtClusterOK ==
  ASSUME IInv, NEW p \in Procs, proc[p].at \in AtCluster
  PROVE  proc[p].cl \in Clusters
  BY DEF IInv, Types, Aimed

\* Steps that only fail or go on.
LEMMA PlainStep ==
  ASSUME IInv, NEW p \in Procs, proc[p].at \in AtCluster,
         UNCHANGED <<joint, remote, left, counters>>,
         \/ \E ok \in BOOLEAN : Finish(p, ok)
         \/ /\ UNCHANGED <<fed, lock>>
            /\ \E at \in AtCluster \ {"insert"} :
                 Goes(p, at) /\ (at \in {"ensure", "wait"} => proc[p].op = "attachRole")
  PROVE  IInv'
<1>1. JointsKept /\ Copies' /\ left' = left
  BY FewerJoints, SameCopies DEF IInv, Types
<1>2. proc[p].cl \in Clusters
  BY AtClusterOK
<1>3. CASE \E ok \in BOOLEAN : Finish(p, ok)
  BY <1>1, <1>2, <1>3, FinishStep
<1>4. CASE UNCHANGED <<fed, lock>>
  <2>1. NoNewSync /\ LockKept(p)
    BY <1>4, SameFed, SameLock DEF IInv, Types
  <2>2. CASE \E ok \in BOOLEAN : Finish(p, ok)
    BY <2>2, <1>3
  <2>3. CASE \E at \in AtCluster \ {"insert"} :
               Goes(p, at) /\ (at \in {"ensure", "wait"} => proc[p].op = "attachRole")
    <3>1. \A at \in AtCluster : at \in Labels /\ at \notin SyncLabels
      BY DEF AtCluster, Labels, SyncLabels
    <3> QED
      BY <1>1, <1>2, <2>1, <2>3, <3>1, GoesStep
  <2> QED
    BY <2>2, <2>3
<1> QED
  BY <1>3, <1>4

LEMMA LookStep == ASSUME IInv, NEW p \in Procs, Look(p) PROVE IInv'
<1>1. proc[p].at \in AtCluster /\ proc[p].cl \in Clusters /\ UNCHANGED <<joint, remote, left, counters>>
  BY AtClusterOK DEF Look, AtCluster
<1>2. CASE Finish(p, FALSE)
  BY <1>1, <1>2, PlainStep
<1>3. CASE ~Finish(p, FALSE)
  <2> DEFINE t(j, rid) == [proc[p] EXCEPT !.at = "apply", !.joint = j.id, !.res = j.res, !.rid = rid]
  <2>1. PICK j \in Attached(proc[p].fed, proc[p].cl), rid \in {0, row[proc[p].fed][proc[p].cl].id} :
          proc' = [proc EXCEPT ![p] = t(j, rid)] /\ UNCHANGED <<fed, lock>>
    BY <1>3 DEF Look
  <2>2. j \in Joint /\ rid \in Nat /\ proc[p] \in Proc
    <3>1. proc[p] \in Proc /\ proc[p].fed \in Feds
      BY ProcFields DEF IInv, Types
    <3> QED
      BY <1>1, <3>1 DEF Attached, IInv, Types, TypeOK
  <2>3. /\ t(j, rid) \in Proc /\ t(j, rid).at = "apply" /\ t(j, rid).cl = proc[p].cl
        /\ t(j, rid).op = proc[p].op /\ t(j, rid).fed = proc[p].fed
    BY <2>2 DEF Proc, Joint, Labels
  <2> HIDE DEF t
  <2>4. Moves(p, t(j, rid)) /\ SyncGoesOn(p, t(j, rid))
    BY <1>1, <2>1, <2>3 DEF Moves, SyncGoesOn, SyncLabels
  <2>5. JointsKept /\ Copies' /\ NoNewSync /\ LockKept(p) /\ left' = left
    BY <1>1, <2>1, FewerJoints, SameCopies, SameFed, SameLock DEF IInv, Types
  <2> QED
    BY <2>3, <2>4, <2>5, WorkerStep
<1> QED
  BY <1>2, <1>3

LEMMA ApplyUpdateStep == ASSUME IInv, NEW p \in Procs, ApplyUpdate(p) PROVE IInv'
<1>1. /\ proc[p].at \in AtCluster /\ proc[p].cl \in Clusters /\ UNCHANGED <<remote, left, counters>>
      /\ proc[p] \in Proc /\ proc[p].rid \in Nat /\ proc[p].fed \in Feds
  BY AtClusterOK, ProcFields DEF ApplyUpdate, AtCluster, IInv, Types
<1>2. JointsKept /\ Copies' /\ left' = left
  BY <1>1, BindKept, SameCopies DEF ApplyUpdate, IInv, Types
<1>3. CASE Finish(p, FALSE)
  BY <1>1, <1>2, <1>3, FinishStep
<1>4. CASE ~Finish(p, FALSE)
  <2> DEFINE s == [proc[p] EXCEPT !.at = "post", !.data = Template(proc[p].fed)]
  <2>1. proc' = [proc EXCEPT ![p] = s] /\ UNCHANGED <<fed, lock>>
    BY <1>4 DEF ApplyUpdate
  <2>2. Template(proc[p].fed) \in Nat
    BY <1>1 DEF Template, IInv, Types, TypeOK
  <2>3. s \in Proc /\ s.at = "post" /\ s.cl = proc[p].cl /\ s.op = proc[p].op /\ s.fed = proc[p].fed
    BY <1>1, <2>2 DEF Proc, Labels
  <2> HIDE DEF s
  <2>4. Moves(p, s) /\ SyncGoesOn(p, s)
    BY <1>1, <2>1, <2>3 DEF Moves, SyncGoesOn, SyncLabels
  <2>5. NoNewSync /\ LockKept(p)
    BY <2>1, SameFed, SameLock DEF IInv, Types
  <2> QED
    BY <1>2, <2>3, <2>4, <2>5, WorkerStep
<1> QED
  BY <1>3, <1>4

\* A worker that has made a row.
Posted(s, rid, d) == [s EXCEPT !.at = "post", !.rid = rid, !.new = TRUE, !.data = d]

LEMMA PostProc ==
  ASSUME NEW s \in Proc, NEW rid \in Nat, NEW d \in Nat
  PROVE  /\ Posted(s, rid, d) \in Proc /\ Posted(s, rid, d).at = "post"
         /\ Posted(s, rid, d).cl = s.cl /\ Posted(s, rid, d).op = s.op /\ Posted(s, rid, d).fed = s.fed
  BY DEF Posted, Proc, Labels

LEMMA ApplyCreateStep == ASSUME IInv, NEW p \in Procs, ApplyCreate(p) PROVE IInv'
<1>1. /\ proc[p].at \in AtCluster /\ proc[p].cl \in Clusters /\ UNCHANGED <<joint, object, job, left, counters>>
      /\ proc[p] \in Proc /\ proc[p].fed \in Feds
  BY AtClusterOK, ProcFields DEF ApplyCreate, AtCluster, IInv, Types
<1>2. JointsKept /\ left' = left
  BY <1>1, FewerJoints DEF IInv, Types
<1>3. CASE Finish(p, FALSE) /\ UNCHANGED <<row, made>>
  <2>1. Copies'
    BY <1>1, <1>3, SameCopies DEF remote, IInv, Types
  <2> QED
    BY <1>1, <1>2, <1>3, <2>1, FinishStep
<1>4. CASE ~(Finish(p, FALSE) /\ UNCHANGED <<row, made>>)
  <2> DEFINE s == Posted(proc[p], made + 1, Template(proc[p].fed))
  <2>1. /\ proc' = [proc EXCEPT ![p] = s] /\ UNCHANGED <<fed, lock>>
        /\ made' = made + 1
        /\ row' = [row EXCEPT ![proc[p].fed][proc[p].cl] = [id |-> made + 1, st |-> "init"]]
    BY <1>4 DEF ApplyCreate, Posted
  <2>2. Template(proc[p].fed) \in Nat /\ made \in Nat
    BY <1>1 DEF Template, IInv, Types, TypeOK
  <2>3. s \in Proc /\ s.at = "post" /\ s.cl = proc[p].cl /\ s.op = proc[p].op /\ s.fed = proc[p].fed
    <3>1. made + 1 \in Nat
      BY <2>2
    <3> QED
      BY <1>1, <2>2, <3>1, PostProc
  <2> HIDE DEF s
  <2>4. Moves(p, s) /\ SyncGoesOn(p, s)
    BY <1>1, <2>1, <2>3 DEF Moves, SyncGoesOn, SyncLabels
  <2>5. NoNewSync /\ LockKept(p)
    BY <2>1, SameFed, SameLock DEF IInv, Types
  <2>6. Copies'
    BY <1>1, <2>1, <2>2 DEF Copies, IInv, Types, TypeOK, counters
  <2> QED
    BY <1>2, <2>3, <2>4, <2>5, <2>6, WorkerStep
<1> QED
  BY <1>3, <1>4

LEMMA PostStep == ASSUME IInv, NEW p \in Procs, Post(p) PROVE IInv'
<1>1. /\ proc[p].at \in AtCluster /\ proc[p].cl \in Clusters /\ UNCHANGED <<row, object, made, left, counters>>
      /\ proc[p] \in Proc /\ proc[p].fed \in Feds /\ proc[p].rid \in Nat
      /\ proc[p].new \in BOOLEAN /\ proc[p].data \in Nat
  BY AtClusterOK, ProcFields DEF Post, AtCluster, IInv, Types
<1>2. JointsKept
  BY <1>1, BindKept, FewerJoints DEF Post, IInv, Types
<1>3. Copies'
  <2>1. job' \subseteq Job
    BY <1>1 DEF Post, Job, IInv, Types, TypeOK
  <2> QED
    BY <1>1, <2>1 DEF Copies, IInv, Types, TypeOK, counters
<1> QED
  BY <1>1, <1>2, <1>3, FinishStep DEF Post

LEMMA CheckStep == ASSUME IInv, NEW p \in Procs, Check(p) PROVE IInv'
<1>1. proc[p].at \in AtCluster /\ UNCHANGED <<joint, remote, left, counters>>
  BY DEF Check, AtCluster
<1>2. Finish(p, FALSE) \/ (Goes(p, "attach") /\ UNCHANGED <<fed, lock>>)
  BY DEF Check
<1>3. CASE Finish(p, FALSE)
  BY <1>1, <1>3, PlainStep
<1>4. CASE Goes(p, "attach") /\ UNCHANGED <<fed, lock>>
  <2>1. "attach" \in AtCluster \ {"insert"} /\ "attach" \notin {"ensure", "wait"}
    BY DEF AtCluster
  <2> QED
    BY <1>1, <1>4, <2>1, PlainStep
<1> QED
  BY <1>2, <1>3, <1>4

LEMMA EnsureStep == ASSUME IInv, NEW p \in Procs, Ensure(p) PROVE IInv'
<1>1. proc[p].op = "attachRole" /\ proc[p].at \in AtCluster
  BY DEF Ensure, AtCluster, IInv, Types, ForRole
<1> QED
  BY <1>1, PlainStep DEF Ensure, AtCluster

LEMMA WaitNamespaceStep == ASSUME IInv, NEW p \in Procs, WaitNamespace(p) PROVE IInv'
<1>1. /\ proc[p].at \in AtCluster /\ proc[p].cl \in Clusters /\ UNCHANGED <<joint, remote, left, counters>>
      /\ proc[p] \in Proc /\ proc[p].role \in Feds /\ proc[p].op = "attachRole"
  BY AtClusterOK, ProcFields DEF WaitNamespace, AtCluster, IInv, Types, ForRole
<1>2. CASE Finish(p, FALSE)
  BY <1>1, <1>2, PlainStep
<1>3. CASE ~Finish(p, FALSE)
  <2> DEFINE s == [proc[p] EXCEPT !.at = "check", !.fed = proc[p].role]
  <2>1. proc' = [proc EXCEPT ![p] = s] /\ UNCHANGED <<fed, lock>>
    BY <1>3 DEF WaitNamespace
  <2>2. s \in Proc /\ s.at = "check" /\ s.cl = proc[p].cl
    BY <1>1 DEF Proc, Labels
  <2> HIDE DEF s
  <2>3. Moves(p, s) /\ SyncGoesOn(p, s)
    BY <1>1, <2>1, <2>2 DEF Moves, SyncGoesOn, SyncLabels
  <2>4. JointsKept /\ Copies' /\ NoNewSync /\ LockKept(p) /\ left' = left
    BY <1>1, <2>1, FewerJoints, SameCopies, SameFed, SameLock DEF IInv, Types
  <2> QED
    BY <2>2, <2>3, <2>4, WorkerStep
<1> QED
  BY <1>2, <1>3

LEMMA JustAttachStep == ASSUME IInv, NEW p \in Procs, JustAttachCluster(p) PROVE IInv'
<1> DEFINE f == proc[p].fed
           c == proc[p].cl
<1>1. /\ proc[p].at \in AtCluster /\ proc[p].cl \in Clusters /\ UNCHANGED <<joint, remote, left, counters>>
      /\ f \in Feds /\ LockFree(p, f)
  BY AtClusterOK, ProcFields DEF JustAttachCluster, AtCluster, IInv, Types
<1>2. CASE ~Detached(f, c)
  BY <1>1, <1>2, PlainStep DEF JustAttachCluster
<1>3. CASE Detached(f, c)
  <2>1. lock' = [lock EXCEPT ![f] = p] /\ Goes(p, "insert") /\ fed' = fed
    BY <1>3 DEF JustAttachCluster
  <2>2. PICK s : Moves(p, s) /\ SyncGoesOn(p, s) /\ s.at = "insert" /\ s.fed = f /\ s.cl = c
    BY <1>1, <2>1, GoesMoves DEF IInv, Types, Labels, SyncLabels
  <2>3. JointsKept /\ Copies' /\ NoNewSync /\ LockKept(p) /\ left' = left
    BY <1>1, <2>1, FewerJoints, SameCopies, SameFed, TakenKept DEF IInv, Types
  <2>4. proc' \in [Procs -> Proc] /\ Aimed' /\ ForRole' /\ ForSync' /\ SyncingHonest'
    BY <2>2, <2>3, MovesTypes, MovesHonest DEF IInv
  <2>5. TypeOK'
    BY <2>3, <2>4 DEF NoNewSync, JointsKept, LockKept, Copies, IInv, Types, TypeOK
  <2>6. ASSUME NEW q \in Procs, proc'[q].at = "insert"
        PROVE  lock'[proc'[q].fed] = q /\ {j \in joint' : j.fed = proc'[q].fed /\ j.cl = proc'[q].cl} = {}
    <3>1. CASE q = p
      <4>1. proc'[p] = s /\ lock'[f] = p
        BY <1>1, <2>1, <2>2 DEF Moves, IInv, Types, TypeOK
      <4> QED
        BY <1>1, <1>3, <2>2, <3>1, <4>1 DEF Detached, Attached
    <3>2. CASE q # p
      <4>1. proc'[q] = proc[q] /\ proc[q].fed \in Feds
        BY <2>2, <3>2, ProcFields DEF Moves, IInv, Types, TypeOK
      <4>2. lock[proc[q].fed] = q /\ Attached(proc[q].fed, proc[q].cl) = {}
        BY <2>6, <4>1 DEF IInv, Locked
      <4> QED
        BY <1>1, <2>3, <3>2, <4>1, <4>2 DEF LockKept, Attached
    <3> QED
      BY <3>1, <3>2
  <2>7. Locked'
    BY <2>6 DEF Locked, Attached
  <2> QED
    BY <2>3, <2>4, <2>5, <2>7 DEF IInv, Types, JointsKept
<1> QED
  BY <1>2, <1>3

LEMMA InsertStep == ASSUME IInv, NEW p \in Procs, Insert(p) PROVE IInv'
<1> DEFINE f == proc[p].fed
           c == proc[p].cl
           id == CHOOSE i \in FreeJoints : TRUE
           k == [id |-> id, fed |-> f, cl |-> c, res |-> 0]
<1>1. /\ proc[p].at = "insert" /\ c \in Clusters /\ UNCHANGED <<fed, remote, left, counters>>
      /\ f \in Feds /\ joint' = joint \cup {k} /\ Goes(p, "look")
      /\ lock' = lock \/ Released(p)
  BY AtClusterOK, ProcFields DEF Insert, AtCluster, IInv, Types
<1>2. id \in Joints
  BY DEF Insert, FreeJoints
<1> HIDE DEF id
<1>3. k \in Joint /\ k.fed = f /\ k.cl = c
  BY <1>1, <1>2 DEF Joint
<1> HIDE DEF k
<1>4. lock[f] = p /\ \A j \in joint : ~(j.fed = f /\ j.cl = c)
  BY <1>1 DEF IInv, Locked, Attached
<1>5. PICK s : Moves(p, s) /\ SyncGoesOn(p, s) /\ s.at = "look"
  BY <1>1, GoesMoves DEF IInv, Types, Labels, SyncLabels
<1>6. Copies' /\ NoNewSync /\ LockKept(p) /\ left' = left
  BY <1>1, SameCopies, SameFed, SameLock, ReleasedKept DEF IInv, Types
<1>7. proc' \in [Procs -> Proc] /\ Aimed' /\ ForRole' /\ ForSync' /\ SyncingHonest'
  BY <1>5, <1>6, MovesTypes, MovesHonest DEF IInv
<1>8. TypeOK'
  BY <1>1, <1>3, <1>6, <1>7 DEF NoNewSync, LockKept, Copies, IInv, Types, TypeOK
<1>9. AttachedOnce'
  BY <1>1, <1>3, <1>4 DEF IInv, AttachedOnce
<1>10. ASSUME NEW q \in Procs, proc'[q].at = "insert"
       PROVE  lock'[proc'[q].fed] = q /\ {j \in joint' : j.fed = proc'[q].fed /\ j.cl = proc'[q].cl} = {}
  <2>1. q # p /\ proc'[q] = proc[q] /\ proc[q].fed \in Feds
    BY <1>5, <1>10, ProcFields DEF Moves, IInv, Types, TypeOK
  <2>2. lock[proc[q].fed] = q /\ Attached(proc[q].fed, proc[q].cl) = {}
    BY <1>10, <2>1 DEF IInv, Locked
  <2>3. proc[q].fed # f
    BY <1>4, <2>1, <2>2
  <2>4. lock'[proc[q].fed] = q
    BY <1>6, <2>1, <2>2 DEF LockKept
  <2> QED
    BY <1>1, <1>3, <2>1, <2>2, <2>3, <2>4 DEF Attached
<1>11. Locked'
  BY <1>10 DEF Locked, Attached
<1> QED
  BY <1>7, <1>8, <1>9, <1>11 DEF IInv, Types

LEMMA SyncInitStep == ASSUME IInv, NEW p \in Procs, SyncInit(p) PROVE IInv'
<1> DEFINE f == proc[p].fed
<1>1. /\ proc[p].op = "sync" /\ f \in Feds /\ UNCHANGED <<joint, remote, lock, left, counters>>
  BY ProcFields DEF SyncInit, IInv, Types, ForSync, SyncLabels
<1>2. JointsKept /\ Copies' /\ LockKept(p) /\ left' = left
  BY <1>1, FewerJoints, SameCopies, SameLock DEF IInv, Types
<1>3. CASE fed[f].live
  <2>1. SetStatus(f, "syncing") /\ Goes(p, "list")
    BY <1>3 DEF SyncInit
  <2>2. PICK s : Moves(p, s) /\ SyncGoesOn(p, s) /\ s.at = "list" /\ s.fed = f
    BY <1>1, <2>1, GoesMoves DEF IInv, Types, Labels, AtCluster
  <2>3. proc' \in [Procs -> Proc] /\ Aimed' /\ ForRole' /\ ForSync' /\ Locked'
    BY <1>2, <2>2, MovesTypes, KeptLocked DEF IInv
  <2>4. /\ fed' \in [Feds -> [live : BOOLEAN, status : FedStatuses, spec : Nat]]
        /\ \A g \in Feds \ {f} : fed'[g] = fed[g]
    BY <1>1, <2>1 DEF SetStatus, FedStatuses, IInv, Types, TypeOK
  <2>5. TypeOK'
    BY <1>2, <2>3, <2>4 DEF JointsKept, LockKept, Copies, IInv, Types, TypeOK
  <2>6. proc'[p].op = "sync" /\ proc'[p].fed = f /\ \A q \in Procs \ {p} : proc'[q] = proc[q]
    BY <1>1, <2>2 DEF Moves, SyncGoesOn, IInv, Types, TypeOK
  <2>7. SyncingHonest'
    BY <1>1, <1>2, <2>4, <2>6 DEF IInv, SyncingHonest
  <2> QED
    BY <1>2, <2>3, <2>5, <2>7 DEF IInv, Types, JointsKept
<1>4. CASE ~fed[f].live
  <2>1. fed' = fed /\ Moves(p, Idle)
    BY <1>4, IdleProc DEF SyncInit, Moves, AtCluster, SyncLabels
  <2>2. proc' \in [Procs -> Proc] /\ Aimed' /\ ForRole' /\ ForSync' /\ Locked'
    BY <1>2, <2>1, IdleProc, MovesTypes, KeptLocked DEF IInv
  <2>3. TypeOK'
    BY <1>2, <2>1, <2>2 DEF JointsKept, LockKept, Copies, IInv, Types, TypeOK
  <2>4. SyncingHonest'
    BY <1>1, <1>4, <2>1 DEF IInv, SyncingHonest, Moves, Types, TypeOK
  <2> QED
    BY <1>2, <2>2, <2>3, <2>4 DEF IInv, Types, JointsKept
<1> QED
  BY <1>3, <1>4

LEMMA SyncNextStep == ASSUME IInv, NEW p \in Procs, SyncNext(p) PROVE IInv'
<1>1. /\ proc[p] \in Proc /\ proc[p].op = "sync" /\ UNCHANGED <<fed, joint, remote, lock, left, counters>>
  BY ProcFields DEF SyncNext, IInv, Types, ForSync, SyncLabels
<1>2. JointsKept /\ Copies' /\ LockKept(p) /\ NoNewSync /\ left' = left
  BY <1>1, FewerJoints, SameCopies, SameLock, SameFed DEF IInv, Types
<1> DEFINE todo == IF proc[p].at = "list" THEN AttachedClusters(proc[p].fed) ELSE proc[p].todo
<1>3. todo \subseteq Clusters
  BY ProcFields DEF AttachedClusters, IInv, Types
<1>4. \E s : Moves(p, s) /\ SyncGoesOn(p, s) /\ s.at # "insert"
  <2>1. CASE proc' = [proc EXCEPT ![p] = [@ EXCEPT !.at = "end", !.cl = 0]]
    <3> DEFINE s == [proc[p] EXCEPT !.at = "end", !.cl = 0]
    <3>1. s \in Proc /\ s.at = "end" /\ s.op = "sync" /\ s.fed = proc[p].fed
      BY <1>1 DEF Proc, Labels
    <3>2. proc' = [proc EXCEPT ![p] = s]
      BY <2>1
    <3> HIDE DEF s
    <3> QED
      BY <3>1, <3>2 DEF Moves, SyncGoesOn, AtCluster
  <2>2. CASE \E c \in todo :
          proc' = [proc EXCEPT ![p] = [@ EXCEPT !.at = "look", !.cl = c, !.todo = todo \ {c}]]
    <3>1. PICK c \in todo :
            proc' = [proc EXCEPT ![p] = [@ EXCEPT !.at = "look", !.cl = c, !.todo = todo \ {c}]]
      BY <2>2
    <3> HIDE DEF todo
    <3> DEFINE s == [proc[p] EXCEPT !.at = "look", !.cl = c, !.todo = todo \ {c}]
    <3>2. s \in Proc /\ s.at = "look" /\ s.op = "sync" /\ s.fed = proc[p].fed /\ s.cl \in Clusters
      BY <1>1, <1>3 DEF Proc, Labels
    <3>3. proc' = [proc EXCEPT ![p] = s]
      BY <3>1
    <3> HIDE DEF s
    <3> QED
      BY <3>2, <3>3 DEF Moves, SyncGoesOn, AtCluster
  <2> QED
    BY <2>1, <2>2 DEF SyncNext
<1> QED
  BY <1>2, <1>4, WorkerStep

LEMMA SyncCompleteStep == ASSUME IInv, NEW p \in Procs, SyncComplete(p) PROVE IInv'
<1> DEFINE f == proc[p].fed
<1>1. f \in Feds /\ UNCHANGED <<joint, remote, lock, counters>> /\ left' = left \ {f}
  BY ProcFields DEF SyncComplete, IInv, Types
<1>2. JointsKept /\ Copies' /\ LockKept(p)
  BY <1>1, FewerJoints, SameCopies, SameLock DEF IInv, Types
<1>3. Moves(p, Idle)
  BY IdleProc DEF SyncComplete, Moves, AtCluster, SyncLabels
<1>4. proc' \in [Procs -> Proc] /\ Aimed' /\ ForRole' /\ ForSync' /\ Locked'
  BY <1>2, <1>3, IdleProc, MovesTypes, KeptLocked DEF IInv
<1>5. /\ fed' \in [Feds -> [live : BOOLEAN, status : FedStatuses, spec : Nat]]
      /\ ~(fed'[f].live /\ fed'[f].status = "syncing")
      /\ \A g \in Feds \ {f} : fed'[g] = fed[g]
  <2>1. fed \in [Feds -> [live : BOOLEAN, status : FedStatuses, spec : Nat]]
    BY DEF IInv, Types, TypeOK
  <2>2. CASE fed[f].live
    BY <1>1, <2>1, <2>2 DEF SyncComplete, SetStatus, FedStatuses
  <2>3. CASE ~fed[f].live
    BY <1>1, <2>1, <2>3 DEF SyncComplete
  <2> QED
    BY <2>2, <2>3
<1>6. TypeOK'
  BY <1>1, <1>2, <1>4, <1>5 DEF JointsKept, LockKept, Copies, IInv, Types, TypeOK
<1>7. SyncingHonest'
  <2>1. \A q \in Procs \ {p} : proc'[q] = proc[q]
    BY <1>3 DEF Moves, IInv, Types, TypeOK
  <2> QED
    BY <1>1, <1>5, <2>1 DEF IInv, SyncingHonest
<1> QED
  BY <1>2, <1>4, <1>6, <1>7 DEF IInv, Types, JointsKept

------------------------------------------------------------------------------
(* Requests *)

\* What a request hands to a worker.
NewAttach(c)         == [Idle EXCEPT !.op = "attach", !.at = "check", !.cl = c]
NewSyncCluster(f, c) == [Idle EXCEPT !.op = "syncCluster", !.at = "look", !.fed = f, !.cl = c]
NewAttachRole(r, c)  == [Idle EXCEPT !.op = "attachRole", !.at = "ensure", !.role = r, !.cl = c]
NewSync(f)           == [Idle EXCEPT !.op = "sync", !.at = "init", !.fed = f]

NewWork == {NewAttach(c) : c \in Clusters} \cup {NewSyncCluster(f, c) : f \in Feds, c \in Clusters}
             \cup {NewAttachRole(f, c) : f \in Feds, c \in Clusters} \cup {NewSync(f) : f \in Feds}

LEMMA WorkFields ==
  ASSUME NEW s \in NewWork
  PROVE  /\ s \in Proc
         /\ s.at \in AtCluster => s.cl \in Clusters
         /\ s.at \in {"ensure", "wait"} => s.op = "attachRole"
         /\ s.at \in SyncLabels => s.op = "sync"
         /\ s.at # "insert"
<1>1. ASSUME NEW c \in Clusters, s = NewAttach(c)
      PROVE  s \in Proc /\ s.at = "check" /\ s.cl \in Clusters
  BY <1>1 DEF NewAttach, Idle, Proc, Feds, Labels
<1>2. ASSUME NEW f \in Feds, NEW c \in Clusters, s = NewSyncCluster(f, c)
      PROVE  s \in Proc /\ s.at = "look" /\ s.cl \in Clusters
  BY <1>2 DEF NewSyncCluster, Idle, Proc, Feds, Labels
<1>3. ASSUME NEW f \in Feds, NEW c \in Clusters, s = NewAttachRole(f, c)
      PROVE  s \in Proc /\ s.at = "ensure" /\ s.cl \in Clusters /\ s.op = "attachRole"
  BY <1>3 DEF NewAttachRole, Idle, Proc, Feds, Labels
<1>4. ASSUME NEW f \in Feds, s = NewSync(f)
      PROVE  s \in Proc /\ s.at = "init" /\ s.op = "sync"
  BY <1>4 DEF NewSync, Idle, Proc, Feds, Labels
<1> QED
  BY <1>1, <1>2, <1>3, <1>4 DEF NewWork, AtCluster, SyncLabels

LEMMA WorkMoves ==
  ASSUME NEW p \in Procs, proc[p] = Idle, NEW s \in NewWork, proc' = [proc EXCEPT ![p] = s]
  PROVE  Moves(p, s) /\ SyncGoesOn(p, s) /\ s.at # "insert"
  BY IdleProc, WorkFields DEF Moves, SyncGoesOn

LEMMA CountedOK ==
  ASSUME TypeOK, UNCHANGED remote, faults' = faults, Counted \/ requests' = requests
  PROVE  Copies'
  BY BoundsAssumption DEF TypeOK, remote, Copies, Counted

LEMMA RequestStep == ASSUME IInv, NEW p \in Procs, Request(p) PROVE IInv'
<1>0. TypeOK
  BY DEF IInv, Types
<1>1. CASE RequestLocked(p)
  <2>1. PICK f \in Feds, c \in Clusters :
          /\ Begins(p, f) /\ lock' = [lock EXCEPT ![f] = p]
          /\ \/ proc' = [proc EXCEPT ![p] = NewAttach(c)]
             \/ proc' = [proc EXCEPT ![p] = NewSyncCluster(f, c)]
    BY <1>1 DEF RequestLocked, NewAttach, NewSyncCluster
  <2>2. \E s : Moves(p, s) /\ SyncGoesOn(p, s) /\ s.at # "insert"
    BY <2>1, WorkMoves DEF Begins, NewWork
  <2>3. LockKept(p)
    BY <1>0, <2>1, TakenKept DEF Begins, LockFree
  <2>4. NoNewSync /\ JointsKept /\ Copies' /\ left' = left
    BY <1>0, <1>1, SameFed, FewerJoints, CountedOK DEF RequestLocked
  <2> QED
    BY <2>2, <2>3, <2>4, WorkerStep
<1>2. CASE RequestAttachRole(p)
  <2>1. PICK r \in Roles, c \in Clusters :
          /\ proc[p] = Idle
          /\ proc' = [proc EXCEPT ![p] = NewAttachRole(r, c)]
    BY <1>2 DEF RequestAttachRole, Begins, NewAttachRole
  <2>2. \E s : Moves(p, s) /\ SyncGoesOn(p, s) /\ s.at # "insert"
    <3>1. NewAttachRole(r, c) \in NewWork
      BY DEF NewWork, Feds
    <3>2. Moves(p, NewAttachRole(r, c)) /\ SyncGoesOn(p, NewAttachRole(r, c)) /\ NewAttachRole(r, c).at # "insert"
      BY <2>1, <3>1, WorkMoves
    <3> QED
      BY <3>2
  <2>3. LockKept(p) /\ NoNewSync /\ JointsKept /\ Copies' /\ left' = left
    BY <1>0, <1>2, SameLock, SameFed, FewerJoints, CountedOK DEF RequestAttachRole
  <2> QED
    BY <2>2, <2>3, WorkerStep
<1>3. CASE RequestSync(p)
  <2>1. PICK f \in Feds :
          /\ proc[p] = Idle
          /\ proc' = [proc EXCEPT ![p] = NewSync(f)]
    BY <1>3 DEF RequestSync, Begins, NewSync
  <2>2. \E s : Moves(p, s) /\ SyncGoesOn(p, s) /\ s.at # "insert"
    <3>1. NewSync(f) \in NewWork
      BY DEF NewWork
    <3>2. Moves(p, NewSync(f)) /\ SyncGoesOn(p, NewSync(f)) /\ NewSync(f).at # "insert"
      BY <2>1, <3>1, WorkMoves
    <3> QED
      BY <3>2
  <2>3. LockKept(p) /\ NoNewSync /\ JointsKept /\ Copies' /\ left' = left
    BY <1>0, <1>3, SameLock, SameFed, FewerJoints, CountedOK DEF RequestSync
  <2> QED
    BY <2>2, <2>3, WorkerStep
<1>4. CASE RequestUpdate(p)
  <2>1. PICK f \in Feds :
          /\ proc[p] = Idle
          /\ proc' = [proc EXCEPT ![p] = NewSync(f)]
          /\ fed' = IF f \in Roles THEN [fed EXCEPT ![f].spec = @ + 1] ELSE fed
    BY <1>4 DEF RequestUpdate, Begins, NewSync
  <2>2. \E s : Moves(p, s) /\ SyncGoesOn(p, s) /\ s.at # "insert"
    <3>1. NewSync(f) \in NewWork
      BY DEF NewWork
    <3>2. Moves(p, NewSync(f)) /\ SyncGoesOn(p, NewSync(f)) /\ NewSync(f).at # "insert"
      BY <2>1, <3>1, WorkMoves
    <3> QED
      BY <3>2
  <2>3. NoNewSync
    <3>1. fed \in [Feds -> [live : BOOLEAN, status : FedStatuses, spec : Nat]]
      BY <1>0 DEF TypeOK
    <3>2. CASE f \in Roles
      <4>1. fed' = [fed EXCEPT ![f].spec = fed[f].spec + 1] /\ fed[f].spec + 1 \in Nat
        BY <2>1, <3>1, <3>2
      <4> QED
        BY <3>1, <4>1 DEF NoNewSync
    <3>3. CASE f \notin Roles
      BY <1>0, <2>1, <3>3, SameFed
    <3> QED
      BY <3>2, <3>3
  <2>4. LockKept(p) /\ JointsKept /\ Copies' /\ left' = left
    BY <1>0, <1>4, SameLock, FewerJoints, CountedOK DEF RequestUpdate
  <2> QED
    BY <2>2, <2>3, <2>4, WorkerStep
<1>5. CASE RequestDetach(p)
  <2>1. joint' \subseteq joint /\ UNCHANGED <<fed, remote, proc, lock, left, faults>> /\ Counted
    BY <1>5 DEF RequestDetach
  <2>2. NoNewSync /\ JointsKept /\ Copies'
    BY <1>0, <2>1, SameFed, FewerJoints, CountedOK
  <2> QED
    BY <2>1, <2>2, OtherStep
<1>6. CASE RequestDelete(p)
  <2>1. PICK f \in Feds : fed' = [fed EXCEPT ![f].live = FALSE]
    BY <1>6 DEF RequestDelete
  <2>2. NoNewSync
    BY <1>0, <2>1 DEF NoNewSync, TypeOK
  <2>3. UNCHANGED <<joint, remote, proc, lock, left, faults>> /\ Counted
    BY <1>6 DEF RequestDelete
  <2>4. JointsKept /\ Copies'
    BY <1>0, <2>3, FewerJoints, CountedOK
  <2> QED
    BY <2>2, <2>3, <2>4, OtherStep
<1> QED
  BY <1>1, <1>2, <1>3, <1>4, <1>5, <1>6 DEF Request

------------------------------------------------------------------------------
(* Tasks on copies, mirror, clusters, crashes *)

RowStatus == {"none", "init", "active", "create_fail", "update_fail"}
RowType   == [id : Nat, st : RowStatus]

LEMMA CellSet ==
  ASSUME NEW S, NEW g \in [Feds -> [Clusters -> S]], NEW f \in Feds, NEW c \in Clusters, NEW v \in S
  PROVE  [g EXCEPT ![f][c] = v] \in [Feds -> [Clusters -> S]]
<1>1. [g[f] EXCEPT ![c] = v] \in [Clusters -> S]
  OBVIOUS
<1> QED
  BY <1>1

LEMMA StatusSet ==
  ASSUME NEW g \in [Feds -> [Clusters -> RowType]], NEW f \in Feds, NEW c \in Clusters,
         NEW st \in RowStatus
  PROVE  [g EXCEPT ![f][c].st = st] \in [Feds -> [Clusters -> RowType]]
<1>1. [g[f][c] EXCEPT !.st = st] \in RowType
  BY DEF RowType
<1>2. [g EXCEPT ![f][c] = [g[f][c] EXCEPT !.st = st]] \in [Feds -> [Clusters -> RowType]]
  BY <1>1, CellSet
<1>3. [g EXCEPT ![f][c].st = st] = [g EXCEPT ![f][c] = [g[f][c] EXCEPT !.st = st]]
  OBVIOUS
<1> QED
  BY <1>2, <1>3

LEMMA RunJobStep == ASSUME IInv, NEW t \in job, RunJob(t) PROVE IInv'
<1>0. TypeOK
  BY DEF IInv, Types
<1>1. UNCHANGED <<fed, joint, proc, lock, made, left, requests>> /\ job' \subseteq job
  BY DEF RunJob
<1>2. t.fed \in Feds /\ t.cl \in Clusters /\ t.data \in Nat
  BY <1>0 DEF TypeOK, Job
<1>3. faults' \in 0..MaxFaults
  BY <1>0, BoundsAssumption DEF RunJob, TypeOK
<1>4. object' \in [Feds -> [Clusters -> Nat]]
  <2>1. object' = object \/ object' = [object EXCEPT ![t.fed][t.cl] = t.data]
    BY DEF RunJob
  <2>2. object \in [Feds -> [Clusters -> Nat]]
    BY <1>0 DEF TypeOK
  <2>3. [object EXCEPT ![t.fed][t.cl] = t.data] \in [Feds -> [Clusters -> Nat]]
    BY <1>2, <2>2, CellSet
  <2> QED
    BY <2>1, <2>2, <2>3
<1>5. row' \in [Feds -> [Clusters -> RowType]]
  <2>1. \/ row' = row
        \/ \E st \in RowStatus : row' = [row EXCEPT ![t.fed][t.cl].st = st]
    BY DEF RunJob, RowStatus
  <2>2. row \in [Feds -> [Clusters -> RowType]]
    BY <1>0 DEF TypeOK, RowType, RowStatus
  <2>3. \A st \in RowStatus : [row EXCEPT ![t.fed][t.cl].st = st] \in [Feds -> [Clusters -> RowType]]
    BY <1>2, <2>2, StatusSet
  <2> QED
    BY <2>1, <2>2, <2>3
<1>6. NoNewSync /\ JointsKept
  BY <1>0, <1>1, SameFed, FewerJoints
<1>7. Copies'
  BY <1>0, <1>1, <1>3, <1>4, <1>5 DEF Copies, TypeOK, RowType, RowStatus
<1> QED
  BY <1>1, <1>6, <1>7, OtherStep

LEMMA EnvironmentStep ==
  ASSUME IInv, MirrorUpdate \/ MirrorRemove \/ ExternalDelete
  PROVE  IInv'
<1>0. TypeOK
  BY DEF IInv, Types
<1>1. UNCHANGED <<fed, joint, proc, lock, left, job, requests>>
  BY DEF MirrorUpdate, MirrorRemove, ExternalDelete, counters
<1>2. NoNewSync /\ JointsKept
  BY <1>0, <1>1, SameFed, FewerJoints
<1>3. faults' \in 0..MaxFaults
  BY <1>0, BoundsAssumption DEF MirrorUpdate, MirrorRemove, ExternalDelete, counters, TypeOK
<1>4. made' \in Nat
  BY <1>0 DEF MirrorUpdate, MirrorRemove, ExternalDelete, TypeOK
<1>5. object' \in [Feds -> [Clusters -> Nat]]
  <2>1. object \in [Feds -> [Clusters -> Nat]]
    BY <1>0 DEF TypeOK
  <2>2. CASE object' = object
    BY <2>1, <2>2
  <2>3. CASE ExternalDelete
    <3>1. PICK f \in Feds, c \in Clusters :
            object' = [g \in Feds |-> [object[g] EXCEPT ![c] = IF f \in {g, FedNs} THEN 0 ELSE @]]
      BY <2>3 DEF ExternalDelete
    <3>2. \A g \in Feds : [object[g] EXCEPT ![c] = IF f \in {g, FedNs} THEN 0 ELSE @] \in [Clusters -> Nat]
      BY <2>1
    <3> QED
      BY <3>1, <3>2
  <2> QED
    BY <2>2, <2>3 DEF MirrorUpdate, MirrorRemove
<1>6. row' \in [Feds -> [Clusters -> RowType]]
  <2>1. row \in [Feds -> [Clusters -> RowType]]
    BY <1>0 DEF TypeOK, RowType, RowStatus
  <2>2. /\ [id |-> made + 1, st |-> "active"] \in RowType
        /\ [id |-> 0, st |-> "none"] \in RowType
        /\ "active" \in RowStatus
    BY <1>0 DEF TypeOK, RowType, RowStatus
  <2>3. \/ row' = row
        \/ \E f \in Feds, c \in Clusters :
              \/ row' = [row EXCEPT ![f][c] = [id |-> made + 1, st |-> "active"]]
              \/ row' = [row EXCEPT ![f][c].st = "active"]
              \/ row' = [row EXCEPT ![f][c] = [id |-> 0, st |-> "none"]]
    BY DEF MirrorUpdate, MirrorRemove, ExternalDelete, NoRow
  <2>4. ASSUME NEW f \in Feds, NEW c \in Clusters
        PROVE  /\ [row EXCEPT ![f][c] = [id |-> made + 1, st |-> "active"]] \in [Feds -> [Clusters -> RowType]]
               /\ [row EXCEPT ![f][c].st = "active"] \in [Feds -> [Clusters -> RowType]]
               /\ [row EXCEPT ![f][c] = [id |-> 0, st |-> "none"]] \in [Feds -> [Clusters -> RowType]]
    <3> DEFINE a == [id |-> made + 1, st |-> "active"]
               b == [id |-> 0, st |-> "none"]
    <3>1. a \in RowType /\ b \in RowType
      BY <2>2
    <3> HIDE DEF a, b
    <3>2. [row EXCEPT ![f][c] = a] \in [Feds -> [Clusters -> RowType]]
      BY <2>1, <3>1, CellSet
    <3>3. [row EXCEPT ![f][c] = b] \in [Feds -> [Clusters -> RowType]]
      BY <2>1, <3>1, CellSet
    <3>4. [row EXCEPT ![f][c].st = "active"] \in [Feds -> [Clusters -> RowType]]
      BY <2>1, <2>2, StatusSet
    <3> QED
      BY <3>2, <3>3, <3>4 DEF a, b
  <2>5. CASE row' = row
    BY <2>1, <2>5
  <2>6. CASE row' # row
    <3>1. PICK f \in Feds, c \in Clusters :
              \/ row' = [row EXCEPT ![f][c] = [id |-> made + 1, st |-> "active"]]
              \/ row' = [row EXCEPT ![f][c].st = "active"]
              \/ row' = [row EXCEPT ![f][c] = [id |-> 0, st |-> "none"]]
      BY <2>3, <2>6
    <3>2. /\ [row EXCEPT ![f][c] = [id |-> made + 1, st |-> "active"]] \in [Feds -> [Clusters -> RowType]]
          /\ [row EXCEPT ![f][c].st = "active"] \in [Feds -> [Clusters -> RowType]]
          /\ [row EXCEPT ![f][c] = [id |-> 0, st |-> "none"]] \in [Feds -> [Clusters -> RowType]]
      BY <2>4
    <3> QED
      BY <3>1, <3>2, Zenon
  <2> QED
    BY <2>5, <2>6
<1>7. Copies'
  BY <1>0, <1>1, <1>3, <1>4, <1>5, <1>6 DEF Copies, TypeOK, RowType, RowStatus
<1> QED
  BY <1>1, <1>2, <1>7, OtherStep

LEMMA CrashStep == ASSUME IInv, Crash PROVE IInv'
<1>0. TypeOK
  BY DEF IInv, Types
<1>1. \A p \in Procs : proc'[p] = Idle
  BY DEF Crash
<1>2. proc' \in [Procs -> Proc]
  BY IdleProc DEF Crash
<1>3. TypeOK'
  BY <1>0, <1>2, BoundsAssumption DEF Crash, TypeOK
<1>4. Aimed' /\ ForRole' /\ ForSync' /\ Locked'
  BY <1>1, IdleProc DEF Aimed, ForRole, ForSync, Locked, AtCluster, SyncLabels
<1>5. SyncingHonest'
  BY DEF Crash, SyncingHonest
<1>6. AttachedOnce'
  BY DEF IInv, AttachedOnce, Crash
<1> QED
  BY <1>3, <1>4, <1>5, <1>6 DEF IInv, Types

------------------------------------------------------------------------------
(* The theorems *)

LEMMA InitIInv == Init => IInv
<1> SUFFICES ASSUME Init PROVE IInv
  OBVIOUS
<1>1. \A p \in Procs : proc[p] = Idle
  BY DEF Init
<1>2. proc \in [Procs -> Proc]
  BY IdleProc DEF Init
<1>3. TypeOK
  BY <1>2, BoundsAssumption DEF Init, TypeOK, NoRow, FedStatuses
<1>4. Aimed /\ ForRole /\ ForSync /\ Locked
  BY <1>1, IdleProc DEF Aimed, ForRole, ForSync, Locked, AtCluster, SyncLabels
<1>5. SyncingHonest /\ AttachedOnce
  BY DEF Init, SyncingHonest, AttachedOnce
<1> QED
  BY <1>3, <1>4, <1>5 DEF IInv, Types

LEMMA StepIInv == IInv /\ [Next]_vars => IInv'
<1> SUFFICES ASSUME IInv, [Next]_vars PROVE IInv'
  OBVIOUS
<1>1. CASE UNCHANGED vars
  <2>1. NoNewSync /\ JointsKept /\ Copies' /\ proc' = proc /\ lock' = lock /\ left' = left
    BY <1>1, SameFed, FewerJoints, SameCopies DEF vars, remote, counters, IInv, Types
  <2> QED
    BY <2>1, OtherStep
<1>2. ASSUME NEW p \in Procs, Request(p) PROVE IInv'
  BY <1>2, RequestStep
<1>3. ASSUME NEW p \in Procs, Step(p) PROVE IInv'
  BY <1>3, LookStep, ApplyUpdateStep, ApplyCreateStep, PostStep, CheckStep, JustAttachStep, InsertStep,
     EnsureStep, WaitNamespaceStep, SyncInitStep, SyncNextStep, SyncCompleteStep DEF Step
<1>4. ASSUME NEW t \in job, RunJob(t) PROVE IInv'
  BY <1>4, RunJobStep
<1>5. CASE MirrorUpdate \/ MirrorRemove \/ ExternalDelete
  BY <1>5, EnvironmentStep
<1>6. CASE Crash
  BY <1>6, CrashStep
<1> QED
  BY <1>1, <1>2, <1>3, <1>4, <1>5, <1>6 DEF Next

LEMMA Invariance == Spec => []IInv
  BY InitIInv, StepIInv, PTL DEF Spec

\* Federated objects, joint rows, copies and workers keep their types.
THEOREM TypeCorrect == Spec => []TypeOK
<1>1. IInv => TypeOK
  BY DEF IInv, Types
<1> QED
  BY <1>1, Invariance, PTL

\* However many attach tasks and requests meet, JustAttachCluster inserts one
\* joint row for an object and a cluster.
THEOREM OneAttachment == Spec => []AttachedOnce
<1>1. IInv => AttachedOnce
  BY DEF IInv
<1> QED
  BY <1>1, Invariance, PTL

\* FedResourceSyncTask leaves no object "syncing" behind, except when
\* kubeserver is restarted under it.
THEOREM HonestSyncing == Spec => []SyncingHonest
<1>1. IInv => SyncingHonest
  BY DEF IInv
<1> QED
  BY <1>1, Invariance, PTL
=============================================================================
