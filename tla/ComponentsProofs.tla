--------------------------- MODULE ComponentsProofs ---------------------------
(***************************************************************************)
(* Proofs about Components, for any number of rows, tasks and settings:    *)
(* the types, that the status of a component is honest, and that the row   *)
(* and the helm release agree once nothing runs.                           *)
(***************************************************************************)
EXTENDS Components, TLAPS

\* Task t will write the status of its row: its copy, once it has one that it
\* writes through, differs from what it writes.
Writes(t) ==
  task[t].kind = "self" \/ task[t].pc \in {"fetched", "uninstalled"}
    => task[t].copy.st \in Transient

\* A row under way has a task that will write its status.
Honest ==
  \A r \in Rows : row[r].st \in Transient =>
    r \in left \/ \E t \in TaskIds : task[t].row = r /\ Writes(t)

\* Before it starts, kubeserver has nothing in memory.
Down == ~up => /\ req = [c \in Callers |-> NoReq]
               /\ task = [t \in TaskIds |-> NoTask]

\* StartSelfUpdate follows no request.
NoSelf == \A t \in TaskIds : task[t].pc = "mark" => task[t].kind # "self"

IInv == TypeOK /\ Honest /\ NoSelf /\ Down

------------------------------------------------------------------------------
(* Rows, and writes through a copy *)

LEMMA EmptyTypes ==
  NoRow \in Row /\ NoReq \in Req /\ NoTask \in Task /\ NoRelease \in Release
  BY DEF NoRow, NoReq, NoTask, NoRelease, Row, Req, Task, Release, Installs, Removes

\* A row and the copy it is written through.
Pair == [row : Row, copy : Row]

LEMMA SaveStatus ==
  ASSUME NEW p \in Pair, NEW s \in Statuses
  PROVE  /\ Save(p, "st", s) \in Pair
         /\ Save(p, "st", s).row.st = IF p.copy.st = s THEN p.row.st ELSE s
  BY DEF Save, Row, Pair

\* Writing another column leaves the status alone.
LEMMA SaveEnabled ==
  ASSUME NEW p \in Pair, NEW b \in BOOLEAN
  PROVE  Save(p, "enabled", b) \in Pair /\ Save(p, "enabled", b).row.st = p.row.st
  BY DEF Save, Row, Pair

LEMMA SaveVersion ==
  ASSUME NEW p \in Pair, NEW v \in Versions \cup {0}
  PROVE  Save(p, "ver", v) \in Pair /\ Save(p, "ver", v).row.st = p.row.st
  BY DEF Save, Row, Pair

LEMMA StoredFacts ==
  ASSUME TypeOK, NEW r \in Rows \cup {0}, NEW q, r \in Rows => q.row \in Row, Stored(r, q)
  PROVE  /\ row' \in [Rows -> Row]
         /\ \A s \in Rows : s # r => row'[s] = row[s]
         /\ r \in Rows => row'[r] = IF Live(r) THEN q.row ELSE row[r]
  BY NamesAssumption DEF TypeOK, Stored

LEMMA StatusFacts ==
  ASSUME TypeOK, NEW r \in Rows \cup {0}, NEW c \in Row, NEW s \in Statuses,
         SetStatus(r, c, s)
  PROVE  /\ row' \in [Rows -> Row]
         /\ \A o \in Rows : o # r => row'[o] = row[o]
         /\ r \in Rows => row'[r].st = IF Live(r) /\ c.st # s THEN s ELSE row[r].st
<1> DEFINE q == Save([row |-> row[r], copy |-> c], "st", s)
<1>1. r \in Rows => q.row \in Row /\ q.row.st = IF c.st = s THEN row[r].st ELSE s
  <2> SUFFICES ASSUME r \in Rows
               PROVE  q.row \in Row /\ q.row.st = IF c.st = s THEN row[r].st ELSE s
    OBVIOUS
  <2>1. [row |-> row[r], copy |-> c] \in Pair
    BY DEF TypeOK, Pair
  <2>2. q \in Pair /\ q.row.st = IF c.st = s THEN row[r].st ELSE s
    BY <2>1, SaveStatus
  <2> QED
    BY <2>2 DEF Pair
<1>2. Stored(r, q)
  BY DEF SetStatus
<1> HIDE DEF q
<1> QED
  BY <1>1, <1>2, StoredFacts

LEMMA ClearedFacts ==
  ASSUME TypeOK, NEW r, Cleared(r)
  PROVE  /\ left' \subseteq Rows
         /\ \A s \in Rows : s # r => (s \in left' <=> s \in left)
         /\ row'[r].st = row[r].st => left' = left
  BY DEF TypeOK, Cleared

LEMMA EndFacts ==
  ASSUME TypeOK, NEW t \in TaskIds, NEW stage \in {"Complete", "Failed"},
         EndTask(t, stage)
  PROVE  /\ task' \in [TaskIds -> Task]
         /\ \A s \in TaskIds : s # t =>
              task'[s].row = task[s].row /\ (Writes(s) => Writes(s)')
<1>1. task' \in [TaskIds -> Task]
  <2>1. \A s \in TaskIds : task[s] \in Task
    BY DEF TypeOK
  <2>2. \A s \in TaskIds : [task[s] EXCEPT !.stage = stage, !.pc = "queued"] \in Task
    BY <2>1 DEF Task
  <2> QED
    BY <2>1, <2>2, EmptyTypes DEF EndTask
<1>2. ASSUME NEW s \in TaskIds, s # t
      PROVE  task'[s].row = task[s].row /\ (Writes(s) => Writes(s)')
  <2>1. task[s] \in Task
    BY DEF TypeOK
  <2>2. CASE task'[s] = task[s]
    BY <2>2 DEF Writes
  <2>3. CASE task'[s] = [task[s] EXCEPT !.stage = stage, !.pc = "queued"]
    BY <2>1, <2>3 DEF Writes, Task
  <2> QED
    BY <1>2, <2>2, <2>3 DEF EndTask
<1> QED
  BY <1>1, <1>2

------------------------------------------------------------------------------
(* Steps that keep the status honest *)

\* A task ends after it wrote the status, or when another task will.
LEMMA HonestEnd ==
  ASSUME TypeOK, Honest, NEW t \in TaskIds, NEW stage \in {"Complete", "Failed"},
         EndTask(t, stage),
         \A s \in Rows : s # task[t].row => row'[s] = row[s] /\ (s \in left => s \in left'),
         task[t].row \in Rows /\ row'[task[t].row].st \in Transient =>
           /\ row'[task[t].row].st = row[task[t].row].st
           /\ left' = left /\ ~Writes(t)
  PROVE  Honest'
<1> SUFFICES ASSUME NEW r \in Rows, row'[r].st \in Transient, r \notin left'
             PROVE  \E s \in TaskIds : task'[s].row = r /\ Writes(s)'
  BY DEF Honest
<1>1. row[r].st \in Transient /\ r \notin left
  OBVIOUS
<1>2. PICK s \in TaskIds : task[s].row = r /\ Writes(s)
  BY <1>1 DEF Honest
<1>3. s # t
  BY <1>2
<1> QED
  BY <1>2, <1>3, EndFacts

\* A task moves on, with a copy that shows the status under way.
LEMMA HonestMove ==
  ASSUME TypeOK, Honest, NEW t \in TaskIds, NEW n \in Task,
         task' = [task EXCEPT ![t] = n], n.row = task[t].row,
         \A r \in Rows : row'[r] = row[r], left' = left,
         task[t].row \in Rows /\ row[task[t].row].st \in Transient /\ Writes(t) =>
           (n.kind = "self" \/ n.pc \in {"fetched", "uninstalled"} => n.copy.st \in Transient)
  PROVE  Honest' /\ task' \in [TaskIds -> Task]
<1>1. task' \in [TaskIds -> Task] /\ task'[t] = n
      /\ \A s \in TaskIds : s # t => task'[s] = task[s]
  BY DEF TypeOK
<1> SUFFICES ASSUME NEW r \in Rows, row'[r].st \in Transient, r \notin left'
             PROVE  \E s \in TaskIds : task'[s].row = r /\ Writes(s)'
  BY <1>1 DEF Honest
<1>2. PICK s \in TaskIds : task[s].row = r /\ Writes(s)
  BY DEF Honest
<1>3. CASE s = t
  BY <1>1, <1>2, <1>3 DEF Writes
<1>4. CASE s # t
  BY <1>1, <1>2, <1>4 DEF Writes
<1> QED
  BY <1>3, <1>4

\* A task is started on the row that changes.
LEMMA HonestStart ==
  ASSUME TypeOK, Honest, NEW r \in Rows \cup {0}, NEW n \in NewIds,
         NEW kind \in {"deploy", "undeploy", "delete", "update"},
         task'[n].row = r, task'[n].kind = kind, task'[n].pc \in {"queued", "mark"},
         \A s \in TaskIds : s # n => task'[s].row = task[s].row
                                     /\ (task[s].row # r => task'[s] = task[s]),
         \A s \in Rows : s # r => row'[s] = row[s] /\ (s \in left => s \in left')
  PROVE  Honest'
<1> SUFFICES ASSUME NEW o \in Rows, row'[o].st \in Transient, o \notin left'
             PROVE  \E s \in TaskIds : task'[s].row = o /\ Writes(s)'
  BY DEF Honest
<1>0. n \in TaskIds /\ task[n] = NoTask
  BY DEF NewIds, Free
<1>1. CASE o = r
  BY <1>0, <1>1 DEF Writes
<1>2. CASE o # r
  <2>1. PICK s \in TaskIds : task[s].row = o /\ Writes(s)
    BY <1>2 DEF Honest
  <2>2. s # n
    BY <1>0, <2>1, NamesAssumption DEF NoTask
  <2> QED
    BY <1>2, <2>1, <2>2 DEF Writes
<1> QED
  BY <1>1, <1>2

LEMMA NewTaskType ==
  ASSUME NEW kind \in {"deploy", "undeploy", "delete", "update"}, NEW r \in Rows \cup {0},
         NEW p \in TaskIds \cup {0}
  PROVE  NewTask(kind, r, p) \in Task
  BY EmptyTypes DEF NewTask, NoTask, Task, Installs, Removes

LEMMA NewTaskFields ==
  ASSUME NEW kind, NEW r, NEW p
  PROVE  /\ NewTask(kind, r, p).kind = kind /\ NewTask(kind, r, p).row = r
         /\ NewTask(kind, r, p).parent = p /\ NewTask(kind, r, p).pc = "queued"
         /\ NewTask(kind, r, p).stage = "OnInit"
  BY DEF NewTask, NoTask

------------------------------------------------------------------------------
(* The steps of a task *)

LEMMA TaskFields ==
  ASSUME TypeOK, NEW t \in TaskIds
  PROVE  /\ task[t] \in Task /\ task[t].row \in Rows \cup {0} /\ task[t].copy \in Row
         /\ task[t].stage \in {"OnInit", "Complete", "Failed"}
         /\ task[t].row \in Rows => row[task[t].row] \in Row
  BY DEF TypeOK, Task

LEMMA OutcomeType ==
  ASSUME NEW k, NEW stage
  PROVE  Outcome(k, stage) \in Statuses /\ Outcome(k, stage) \notin Transient
  BY DEF Outcome, Statuses, Transient

\* What a step of a task has to show.
Good == Honest' /\ row' \in [Rows -> Row] /\ left' \subseteq Rows /\ task' \in [TaskIds -> Task]

\* The last write of a task, then its end.
LEMMA LastStore ==
  ASSUME TypeOK, Honest, NEW t \in TaskIds, NEW stage \in {"Complete", "Failed"},
         task[t].kind = "self" \/ task[t].pc \in {"fetched", "uninstalled"},
         NEW s \in Statuses, s \notin Transient,
         row' \in [Rows -> Row], \A o \in Rows : o # task[t].row => row'[o] = row[o],
         task[t].row \in Rows => row'[task[t].row].st =
           IF Live(task[t].row) /\ task[t].copy.st # s THEN s ELSE row[task[t].row].st,
         Cleared(task[t].row), EndTask(t, stage)
  PROVE  Good
<1> DEFINE r == task[t].row
<1>1. /\ left' \subseteq Rows
      /\ \A o \in Rows : o # r => (o \in left' <=> o \in left)
      /\ row'[r].st = row[r].st => left' = left
  BY ClearedFacts
<1>2. Writes(t) => task[t].copy.st # s
  BY DEF Writes
<1>3. r \in Rows /\ row'[r].st \in Transient =>
        row'[r].st = row[r].st /\ left' = left /\ ~Writes(t)
  <2>1. r \in Rows /\ row[r].st \in Transient => Live(r)
    BY DEF Live, Transient
  <2> QED
    BY <1>1, <1>2, <2>1
<1>4. Honest'
  BY <1>1, <1>3, HonestEnd
<1> QED
  BY <1>1, <1>4, EndFacts DEF Good

LEMMA LastWrite ==
  ASSUME TypeOK, Honest, NEW t \in TaskIds, NEW stage \in {"Complete", "Failed"},
         task[t].kind = "self" \/ task[t].pc \in {"fetched", "uninstalled"},
         NEW s \in Statuses, s \notin Transient,
         SetStatus(task[t].row, task[t].copy, s), Cleared(task[t].row), EndTask(t, stage)
  PROVE  Good
  BY TaskFields, StatusFacts, LastStore

\* The task ends because its row is gone.
LEMMA GoneEnd ==
  ASSUME TypeOK, Honest, NEW t \in TaskIds, ~Live(task[t].row), EndTask(t, "Failed"),
         row' = row, left' = left
  PROVE  Good
<1>1. task[t].row \in Rows => row[task[t].row].st \notin Transient
  BY DEF Live, Transient
<1>2. Honest'
  BY <1>1, HonestEnd
<1> QED
  BY <1>2, EndFacts DEF Good, TypeOK

LEMMA FetchGood == ASSUME TypeOK, Honest, NEW t \in TaskIds, Fetch(t) PROVE Good
<1>0. task[t] \in Task /\ task[t].row \in Rows \cup {0} /\ (task[t].row \in Rows => row[task[t].row] \in Row)
  BY TaskFields
<1>1. CASE ~Live(task[t].row)
  BY <1>1, GoneEnd DEF Fetch, history
<1>2. CASE Live(task[t].row)
  <2> DEFINE n == [task[t] EXCEPT !.pc = "fetched", !.copy = row[task[t].row]]
  <2>1. task' = [task EXCEPT ![t] = n] /\ row' = row /\ left' = left
    BY <1>2 DEF Fetch, history
  <2>2. n \in Task /\ n.row = task[t].row /\ n.copy = row[task[t].row]
    BY <1>0, <1>2 DEF Task, Live
  <2> HIDE DEF n
  <2>3. Honest' /\ task' \in [TaskIds -> Task]
    BY <2>1, <2>2, HonestMove
  <2> QED
    BY <2>1, <2>3 DEF Good, TypeOK
<1> QED
  BY <1>1, <1>2

LEMMA Init2HelmGood == ASSUME TypeOK, Honest, NEW t \in TaskIds, Init2Helm(t) PROVE Good
<1>0. task[t] \in Task
  BY TaskFields
<1>1. CASE ~Live(task[t].row)
  BY <1>1, GoneEnd DEF Init2Helm, history
<1>2. CASE Live(task[t].row)
  <2> DEFINE n == [task[t] EXCEPT !.pc = "helm"]
  <2>1. task' = [task EXCEPT ![t] = n] /\ row' = row /\ left' = left
    BY <1>2 DEF Init2Helm, history
  <2>2. n \in Task /\ n.row = task[t].row /\ n.kind # "self" /\ n.pc = "helm"
    BY <1>0 DEF Task, Init2Helm, Stage
  <2> HIDE DEF n
  <2>3. Honest' /\ task' \in [TaskIds -> Task]
    BY <2>1, <2>2, HonestMove
  <2> QED
    BY <2>1, <2>3 DEF Good, TypeOK
<1> QED
  BY <1>1, <1>2

\* LocalTaskRun hands its result to the next stage, which loads a new copy.
LEMMA ResultFields ==
  ASSUME TypeOK, NEW t \in TaskIds, NEW stage \in {"Complete", "Failed"}, Result(t, stage)
  PROVE  \E n \in Task :
           /\ task' = [task EXCEPT ![t] = n] /\ task'[t] = n
           /\ n.kind = task[t].kind /\ n.row = task[t].row /\ n.parent = task[t].parent
           /\ n.stage = stage
           /\ n.copy = IF task[t].kind = "self" THEN task[t].copy ELSE NoRow
           /\ n.pc = IF task[t].kind = "self" THEN "fetched" ELSE "queued"
<1> DEFINE n == IF task[t].kind = "self" THEN [task[t] EXCEPT !.stage = stage, !.pc = "fetched"]
                ELSE [task[t] EXCEPT !.stage = stage, !.pc = "queued", !.copy = NoRow]
<1>1. task' = [task EXCEPT ![t] = n]
  BY DEF Result
<1>0. task[t] \in Task /\ NoRow \in Row
  BY TaskFields, EmptyTypes
<1>2. /\ n \in Task
      /\ n.kind = task[t].kind /\ n.row = task[t].row /\ n.parent = task[t].parent
      /\ n.stage = stage /\ n.copy = IF task[t].kind = "self" THEN task[t].copy ELSE NoRow
      /\ n.pc = IF task[t].kind = "self" THEN "fetched" ELSE "queued"
  <2>1. CASE task[t].kind = "self"
    BY <1>0, <2>1 DEF Task
  <2>2. CASE task[t].kind # "self"
    BY <1>0, <2>2 DEF Task
  <2> QED
    BY <2>1, <2>2
<1> HIDE DEF n
<1>3. task'[t] = n
  BY <1>1 DEF TypeOK
<1> QED
  BY <1>1, <1>2, <1>3

LEMMA ResultGood ==
  ASSUME TypeOK, Honest, NEW t \in TaskIds, NEW stage \in {"Complete", "Failed"},
         Result(t, stage), row' = row, left' = left
  PROVE  Good
<1>1. PICK n \in Task :
        /\ task' = [task EXCEPT ![t] = n]
        /\ n.row = task[t].row /\ n.kind = task[t].kind
        /\ n.copy = IF task[t].kind = "self" THEN task[t].copy ELSE NoRow
        /\ n.pc = IF task[t].kind = "self" THEN "fetched" ELSE "queued"
  BY ResultFields
<1>2. Honest' /\ task' \in [TaskIds -> Task]
  BY <1>1, HonestMove DEF Writes
<1> QED
  BY <1>2 DEF Good, TypeOK

LEMMA HelmGood ==
  ASSUME TypeOK, Honest, NEW t \in TaskIds,
         HelmBegin(t) \/ HelmEnd(t) \/ HelmUnrecorded(t)
  PROVE  Good
<1>0. row' = row /\ left' = left
  BY DEF HelmBegin, HelmEnd, HelmUnrecorded, history
<1>1. CASE \E stage \in {"Complete", "Failed"} : Result(t, stage)
  BY <1>0, <1>1, ResultGood
<1>2. CASE task' = [task EXCEPT ![t].pc = "helming"] /\ task[t].pc = "helm"
  <2> DEFINE n == [task[t] EXCEPT !.pc = "helming"]
  <2>1. task' = [task EXCEPT ![t] = n]
    BY <1>2
  <2>2. /\ n \in Task /\ n.row = task[t].row /\ n.kind = task[t].kind /\ n.copy = task[t].copy
        /\ n.pc = "helming"
    BY TaskFields DEF Task
  <2> HIDE DEF n
  <2>3. Honest' /\ task' \in [TaskIds -> Task]
    BY <1>0, <2>1, <2>2, HonestMove DEF Writes
  <2> QED
    BY <1>0, <2>3 DEF Good, TypeOK
<1> QED
  BY <1>1, <1>2 DEF HelmBegin, HelmEnd, HelmUnrecorded

LEMMA HelmDoneGood == ASSUME TypeOK, Honest, NEW t \in TaskIds, HelmDone(t) PROVE Good
<1>1. task[t].stage \in {"Complete", "Failed"} /\ task[t].pc = "fetched"
  BY DEF HelmDone
<1>2. /\ Outcome(task[t].kind, task[t].stage) \in Statuses
      /\ Outcome(task[t].kind, task[t].stage) \notin Transient
  BY OutcomeType
<1>3. /\ SetStatus(task[t].row, task[t].copy, Outcome(task[t].kind, task[t].stage))
      /\ Cleared(task[t].row) /\ EndTask(t, task[t].stage)
  BY DEF HelmDone
<1> QED
  BY <1>1, <1>2, <1>3, LastWrite

LEMMA UndeployRunGood == ASSUME TypeOK, Honest, NEW t \in TaskIds, UndeployRun(t) PROVE Good
<1>0. task[t].pc = "fetched" /\ task[t].kind = "undeploy"
  BY DEF UndeployRun, Stage
<1>1. CASE task' = [task EXCEPT ![t].pc = "uninstalled"] /\ row' = row /\ left' = left
  <2> DEFINE n == [task[t] EXCEPT !.pc = "uninstalled"]
  <2>1. task' = [task EXCEPT ![t] = n]
    BY <1>1
  <2>2. /\ n \in Task /\ n.row = task[t].row /\ n.kind = task[t].kind /\ n.copy = task[t].copy
    BY TaskFields DEF Task
  <2> HIDE DEF n
  <2>3. Honest' /\ task' \in [TaskIds -> Task]
    BY <1>0, <1>1, <2>1, <2>2, HonestMove DEF Writes
  <2> QED
    BY <1>1, <2>3 DEF Good, TypeOK
<1>2. CASE /\ SetStatus(task[t].row, task[t].copy, "undeploy_fail")
           /\ Cleared(task[t].row) /\ EndTask(t, "Failed")
  BY <1>0, <1>2, LastWrite, "undeploy_fail" \in Statuses, "undeploy_fail" \notin Transient
  DEF Statuses, Transient
<1> QED
  BY <1>1, <1>2 DEF UndeployRun

LEMMA UndeployWriteGood ==
  ASSUME TypeOK, Honest, NEW t \in TaskIds, UndeployWrite(t) PROVE Good
<1> DEFINE r == task[t].row
           p == [row |-> row[r], copy |-> task[t].copy]
<1>0. r \in Rows \cup {0} /\ "init" \in Statuses /\ "init" \notin Transient
  BY TaskFields DEF Statuses, Transient
<1>1. ASSUME r \in Rows
      PROVE  /\ Undeployed(p).row \in Row
             /\ Undeployed(p).row.st = IF task[t].copy.st = "init" THEN row[r].st ELSE "init"
  <2>1. p \in Pair
    BY <1>1, TaskFields DEF Pair
  <2>2. /\ Save(p, "st", "init") \in Pair
        /\ Save(p, "st", "init").row.st = IF p.copy.st = "init" THEN p.row.st ELSE "init"
    BY <1>0, <2>1, SaveStatus
  <2>3. /\ Undeployed(p) \in Pair
        /\ Undeployed(p).row.st = Save(p, "st", "init").row.st
    BY <2>2, SaveEnabled DEF Undeployed
  <2> QED
    BY <2>2, <2>3 DEF Pair
<1>2. Stored(r, Undeployed(p)) /\ Cleared(r) /\ EndTask(t, "Complete") /\ task[t].pc = "uninstalled"
  BY DEF UndeployWrite
<1>3. /\ row' \in [Rows -> Row]
      /\ \A o \in Rows : o # r => row'[o] = row[o]
      /\ r \in Rows => row'[r] = IF Live(r) THEN Undeployed(p).row ELSE row[r]
  BY <1>0, <1>1, <1>2, StoredFacts
<1>4. r \in Rows => row'[r].st = IF Live(r) /\ task[t].copy.st # "init" THEN "init" ELSE row[r].st
  BY <1>1, <1>3
<1> HIDE DEF p
<1> QED
  BY <1>0, <1>2, <1>3, <1>4, LastStore

LEMMA DeleteInitGood == ASSUME TypeOK, Honest, NEW t \in TaskIds, DeleteInit(t) PROVE Good
<1> DEFINE r == task[t].row
<1>0. /\ r \in Rows \cup {0} /\ task[t] \in Task /\ task[t].copy \in Row
      /\ task[t].kind = "delete" /\ "undeploying" \in Statuses
  BY TaskFields DEF DeleteInit, Stage, Statuses, Transient
<1>1. PICK n \in NewIds :
        task' = [task EXCEPT ![t] = [@ EXCEPT !.pc = "waiting", !.copy = NoRow],
                             ![n] = NewTask("undeploy", task[t].row, t)]
  BY DEF DeleteInit
<1>2. n \in TaskIds /\ n # t
  BY <1>0 DEF NewIds, Free, NoTask
<1>3. /\ row' \in [Rows -> Row] /\ \A o \in Rows : o # r => row'[o] = row[o]
  BY <1>0, StatusFacts DEF DeleteInit
<1>4. left' \subseteq Rows /\ \A o \in Rows : o # r => (o \in left' <=> o \in left)
  BY ClearedFacts DEF DeleteInit
<1>5. [task[t] EXCEPT !.pc = "waiting", !.copy = NoRow] \in Task /\ NewTask("undeploy", r, t) \in Task
  BY <1>0, NewTaskType, EmptyTypes DEF Task
<1>6. /\ task' \in [TaskIds -> Task]
      /\ task'[n] = NewTask("undeploy", r, t)
      /\ task'[t] = [task[t] EXCEPT !.pc = "waiting", !.copy = NoRow]
      /\ \A s \in TaskIds : s # n /\ s # t => task'[s] = task[s]
  BY <1>1, <1>2, <1>5 DEF TypeOK
<1>7. \A s \in TaskIds : s # n => task'[s].row = task[s].row /\ (task[s].row # r => task'[s] = task[s])
  BY <1>0, <1>6 DEF Task
<1>8. Honest'
  BY <1>0, <1>3, <1>4, <1>6, <1>7, HonestStart, NewTaskFields
<1> QED
  BY <1>3, <1>4, <1>6, <1>8 DEF Good

LEMMA DeleteDoneGood == ASSUME TypeOK, Honest, NEW t \in TaskIds, DeleteDone(t) PROVE Good
<1> DEFINE r == task[t].row
<1>0. /\ r \in Rows \cup {0} /\ task[t].stage \in {"Complete", "Failed"}
      /\ task[t].pc = "fetched" /\ Cleared(r) /\ EndTask(t, task[t].stage)
  BY TaskFields DEF DeleteDone, Stage
<1>1. CASE task[t].stage = "Complete"
  <2>1. row' = [row EXCEPT ![r] = [NoRow EXCEPT !.st = "gone"]]
    BY <1>1 DEF DeleteDone
  <2>2. [NoRow EXCEPT !.st = "gone"] \in Row /\ [NoRow EXCEPT !.st = "gone"].st \notin Transient
    BY DEF NoRow, Row, Transient
  <2>3. /\ row' \in [Rows -> Row] /\ \A o \in Rows : o # r => row'[o] = row[o]
        /\ r \in Rows => row'[r].st \notin Transient
    BY <2>1, <2>2 DEF TypeOK
  <2>4. left' \subseteq Rows /\ \A o \in Rows : o # r => (o \in left' <=> o \in left)
    BY <1>0, ClearedFacts
  <2>5. Honest'
    BY <1>0, <2>3, <2>4, HonestEnd
  <2> QED
    BY <1>0, <2>3, <2>4, <2>5, EndFacts DEF Good
<1>2. CASE task[t].stage # "Complete"
  <2>1. SetStatus(r, task[t].copy, "delete_fail")
    BY <1>2 DEF DeleteDone
  <2> QED
    BY <1>0, <2>1, LastWrite, "delete_fail" \in Statuses, "delete_fail" \notin Transient
    DEF Statuses, Transient
<1> QED
  BY <1>1, <1>2

LEMMA MarkedType == ASSUME NEW k PROVE Marked(k) \in Transient /\ Marked(k) \in Statuses
  BY DEF Marked, Transient, Statuses

\* A request sets the status and makes its task.
LEMMA MarkGood ==
  ASSUME TypeOK, Honest, NoSelf, NEW t \in TaskIds, Mark(t) PROVE Good
<1> DEFINE r == task[t].row
           k == task[t].kind
<1>0. r \in Rows \cup {0} /\ task[t].copy \in Row /\ task[t] \in Task
  BY TaskFields
<1>1. /\ row' \in [Rows -> Row] /\ \A o \in Rows : o # r => row'[o] = row[o]
  BY <1>0, MarkedType, StatusFacts DEF Mark
<1>2. left' \subseteq Rows /\ \A o \in Rows : o # r => (o \in left' <=> o \in left)
  BY ClearedFacts DEF Mark
<1>3. NewTask(k, r, 0) \in Task /\ NewTask(k, r, 0).row = r /\ NewTask(k, r, 0).kind = k
      /\ NewTask(k, r, 0).pc = "queued"
  BY <1>0, EmptyTypes DEF NewTask, NoTask, Task
<1>4. /\ task' \in [TaskIds -> Task] /\ task'[t] = NewTask(k, r, 0)
      /\ \A s \in TaskIds : s # t => task'[s] = task[s]
  BY <1>3 DEF Mark, TypeOK
<1>5. Honest'
  <2> SUFFICES ASSUME NEW o \in Rows, row'[o].st \in Transient, o \notin left'
               PROVE  \E s \in TaskIds : task'[s].row = o /\ Writes(s)'
    BY DEF Honest
  <2>0. k # "self"
    BY DEF NoSelf, Mark
  <2>1. CASE o = r
    BY <1>3, <1>4, <2>0, <2>1 DEF Writes
  <2>2. CASE o # r
    <3>1. row[o].st \in Transient /\ o \notin left
      BY <1>1, <1>2, <2>2
    <3>2. PICK s \in TaskIds : task[s].row = o /\ Writes(s)
      BY <3>1 DEF Honest
    <3>3. s # t /\ task'[s] = task[s]
      BY <1>4, <2>2, <3>2
    <3> QED
      BY <3>2, <3>3 DEF Writes
  <2> QED
    BY <2>1, <2>2
<1> QED
  BY <1>1, <1>2, <1>4, <1>5 DEF Good

\* The rest of the state, which the steps of a task change in their types.
Rest ==
  /\ req \in [Callers -> Req]
  /\ lock \in TaskIds \cup {0}
  /\ release \in Release
  /\ up \in BOOLEAN /\ crossed \in BOOLEAN
  /\ requests \in 0..MaxRequests /\ faults \in 0..MaxFaults /\ crashes \in 0..MaxCrashes

LEMMA TaskRest == ASSUME TypeOK, NEW t \in TaskIds, TaskStep(t) PROVE Rest'
<1> USE DEF history
<1>0. Rest
  BY DEF TypeOK, Rest
<1>1. CASE Fetch(t) \/ Init2Helm(t) \/ HelmDone(t) \/ DeleteInit(t) \/ DeleteDone(t)
  BY <1>0, <1>1 DEF Fetch, Init2Helm, HelmDone, DeleteInit, DeleteDone, Rest
<1>2. CASE HelmBegin(t)
  <2>1. release' \in Release
    BY <1>0, <1>2 DEF HelmBegin, Rest, Release
  <2> QED
    BY <1>0, <1>2, <2>1 DEF HelmBegin, Rest
<1>3. CASE HelmEnd(t)
  <2>1. task[t].copy.ver \in Versions \cup {0}
    BY TaskFields DEF Row
  <2>a. [st |-> "deployed", ver |-> task[t].copy.ver, by |-> 0] \in Release
    BY <2>1 DEF Release
  <2>b. [release EXCEPT !.st = "failed", !.by = 0] \in Release
    BY <1>0 DEF Release, Rest
  <2>c. \/ release' = release \/ release' = NoRelease
        \/ release' = [st |-> "deployed", ver |-> task[t].copy.ver, by |-> 0]
        \/ release' = [release EXCEPT !.st = "failed", !.by = 0]
    BY <1>3 DEF HelmEnd
  <2>2. release' \in Release
    BY <1>0, <2>a, <2>b, <2>c, EmptyTypes DEF Rest
  <2>3. faults' \in 0..MaxFaults
    BY <1>0, <1>3, BoundsAssumption DEF HelmEnd, Rest
  <2> QED
    BY <1>0, <1>3, <2>2, <2>3 DEF HelmEnd, Rest
<1>4. CASE UndeployRun(t)
  <2>1. faults' \in 0..MaxFaults
    BY <1>0, <1>4, BoundsAssumption DEF UndeployRun, Rest
  <2> QED
    BY <1>0, <1>4, <2>1, EmptyTypes DEF UndeployRun, Rest
<1>5. CASE UndeployWrite(t)
  BY <1>0, <1>5 DEF UndeployWrite, Rest
<1>6. CASE Mark(t)
  <2>1. req' \in [Callers -> Req]
    BY <1>0, <1>6, EmptyTypes DEF Mark, Rest
  <2> QED
    BY <1>0, <1>6, <2>1 DEF Mark, Rest
<1>7. CASE HelmUnrecorded(t)
  <2>1. faults' \in 0..MaxFaults
    BY <1>0, <1>7, BoundsAssumption DEF HelmUnrecorded, Rest
  <2> QED
    BY <1>0, <1>7, <2>1 DEF HelmUnrecorded, Rest
<1> QED
  BY <1>1, <1>2, <1>3, <1>4, <1>5, <1>6, <1>7 DEF TaskStep

LEMMA TaskKeeps ==
  ASSUME TypeOK, Honest, NoSelf, NEW t \in TaskIds, TaskStep(t) PROVE TypeOK' /\ Honest'
<1>1. Good
  BY FetchGood, Init2HelmGood, HelmGood, HelmDoneGood, UndeployRunGood,
     UndeployWriteGood, DeleteInitGood, DeleteDoneGood, MarkGood DEF TaskStep
<1>2. Rest'
  BY TaskRest
<1> QED
  BY <1>1, <1>2 DEF Good, Rest, TypeOK

------------------------------------------------------------------------------
(* Requests *)

\* The first write of a request goes through the request's copy.
LEMMA FirstWriteType ==
  ASSUME NEW q \in Req, q.op # "none", NEW p \in Pair
  PROVE  FirstWrite(q, p) \in Pair /\ FirstWrite(q, p).row.st = p.row.st
<1>0. q.ver \in Versions \cup {0} /\ TRUE \in BOOLEAN /\ FALSE \in BOOLEAN
      /\ q.op \in Ops \cup {"create"}
  BY DEF Req
<1> QED
  BY <1>0, SaveEnabled, SaveVersion DEF FirstWrite, Ops

LEMMA ReqFields ==
  ASSUME TypeOK, NEW c \in Callers
  PROVE  /\ req[c] \in Req /\ req[c].row \in Rows \cup {0} /\ req[c].copy \in Row
         /\ req[c].ver \in Versions \cup {0} /\ req[c].op \in Ops \cup {"none", "create"}
         /\ [req EXCEPT ![c] = NoReq] \in [Callers -> Req]
  BY EmptyTypes DEF TypeOK, Req

\* What a request changes with its first write.
ApplyDoes(c, n, p, m) ==
  LET r == req[c].row IN
  /\ r \in Rows /\ n \in NewIds /\ n \in TaskIds /\ task[n] = NoTask /\ p \in Pair
  /\ p = FirstWrite(req[c], [row |-> row[r], copy |-> req[c].copy])
  /\ p.row.st = row[r].st
  /\ row' \in [Rows -> Row] /\ (\A s \in Rows : s # r => row'[s] = row[s])
  /\ row'[r] = IF Live(r) THEN p.row ELSE row[r]
  /\ m \in Task /\ task' \in [TaskIds -> Task] /\ task' = [task EXCEPT ![n] = m]
  /\ task'[n] = m /\ (\A s \in TaskIds : s # n => task'[s] = task[s])
  /\ m.row = r /\ m.kind = TaskOf(req[c].op) /\ m.pc = "mark" /\ m.copy = p.copy
  /\ m.parent = 0 /\ m.stage = "OnInit"
  /\ m.kind \in {"deploy", "undeploy", "delete", "update"}
  /\ lock' \in TaskIds \cup {0} /\ req' \in [Callers -> Req]
  /\ req'[c].row = 0 /\ req'[c].op = "none" /\ (\A d \in Callers : d # c => req'[d] = req[d])

LEMMA ApplyDone ==
  ASSUME TypeOK, NEW c \in Callers, Apply(c) PROVE \E n, p, m : ApplyDoes(c, n, p, m)
<1> DEFINE q == req[c]
           r == req[c].row
           p == FirstWrite(q, [row |-> row[r], copy |-> q.copy])
<1>0. /\ q \in Req /\ r \in Rows /\ q.op # "none" /\ q.op \in Ops \cup {"create"}
      /\ row[r] \in Row /\ [row |-> row[r], copy |-> q.copy] \in Pair
  BY ReqFields DEF Apply, TypeOK, Pair
<1>1. p \in Pair /\ p.row.st = row[r].st /\ p.row \in Row /\ p.copy \in Row
  <2>1. p \in Pair /\ p.row.st = row[r].st
    BY <1>0, FirstWriteType
  <2> QED
    BY <2>1 DEF Pair
<1>2. PICK n \in NewIds :
        /\ task' = [task EXCEPT ![n] =
                     [NewTask(TaskOf(q.op), r, 0) EXCEPT !.pc = "mark", !.copy = p.copy]]
        /\ lock' = IF Locks(c) THEN n ELSE lock
        /\ req' = [req EXCEPT ![c] = [NoReq EXCEPT !.task = n]]
  BY DEF Apply
<1>3. n \in TaskIds /\ task[n] = NoTask
      /\ TaskOf(q.op) \in {"deploy", "undeploy", "delete", "update"}
  BY <1>0 DEF NewIds, Free, TaskOf, Ops
<1>4. Stored(r, p)
  BY DEF Apply
<1>11. p = FirstWrite(req[c], [row |-> row[r], copy |-> req[c].copy])
  OBVIOUS
<1> HIDE DEF p
<1>5. /\ row' \in [Rows -> Row] /\ (\A s \in Rows : s # r => row'[s] = row[s])
      /\ row'[r] = IF Live(r) THEN p.row ELSE row[r]
  BY <1>0, <1>1, <1>4, StoredFacts
<1> DEFINE m == [NewTask(TaskOf(q.op), r, 0) EXCEPT !.pc = "mark", !.copy = p.copy]
<1>6. /\ m \in Task /\ m.kind = TaskOf(q.op) /\ m.row = r /\ m.parent = 0 /\ m.pc = "mark"
      /\ m.stage = "OnInit" /\ m.copy = p.copy
  BY <1>0, <1>1, <1>3, EmptyTypes DEF NewTask, NoTask, Task, Installs, Removes
<1>7. /\ task' = [task EXCEPT ![n] = m] /\ task' \in [TaskIds -> Task] /\ task'[n] = m
      /\ \A s \in TaskIds : s # n => task'[s] = task[s]
  <2>1. task' = [task EXCEPT ![n] = m]
    BY <1>2
  <2> HIDE DEF m
  <2> QED
    BY <1>3, <1>6, <2>1 DEF TypeOK
<1> HIDE DEF m
<1>8. [NoReq EXCEPT !.task = n] \in Req /\ [NoReq EXCEPT !.task = n].row = 0
      /\ [NoReq EXCEPT !.task = n].op = "none"
  BY <1>3, EmptyTypes DEF NoReq, Req
<1>9. /\ req' \in [Callers -> Req] /\ req'[c].row = 0 /\ req'[c].op = "none"
      /\ \A d \in Callers : d # c => req'[d] = req[d]
  BY <1>2, <1>8 DEF TypeOK
<1>10. lock' \in TaskIds \cup {0}
  BY <1>2, <1>3 DEF TypeOK
<1>12. ApplyDoes(c, n, p, m)
  BY <1>0, <1>1, <1>3, <1>5, <1>6, <1>7, <1>9, <1>10, <1>11 DEF ApplyDoes
<1> QED
  BY <1>12

LEMMA ApplyKeeps ==
  ASSUME TypeOK, Honest, NoSelf, NEW c \in Callers, Apply(c)
  PROVE  TypeOK' /\ Honest' /\ NoSelf'
<1>1. PICK n, p, m : ApplyDoes(c, n, p, m)
  BY ApplyDone
<1> DEFINE r == req[c].row
<1>2. /\ r \in Rows /\ n \in NewIds /\ n \in TaskIds
      /\ row' \in [Rows -> Row] /\ (\A s \in Rows : s # r => row'[s] = row[s])
      /\ task' \in [TaskIds -> Task] /\ (\A s \in TaskIds : s # n => task'[s] = task[s])
      /\ task'[n].row = r /\ task'[n].kind = m.kind /\ task'[n].pc = "mark"
      /\ m.kind \in {"deploy", "undeploy", "delete", "update"}
      /\ lock' \in TaskIds \cup {0} /\ req' \in [Callers -> Req]
  BY <1>1 DEF ApplyDoes
<1>3. left' = left
  BY DEF Apply
<1>4. Honest'
  BY <1>2, <1>3, HonestStart
<1>5. NoSelf'
  BY <1>2 DEF NoSelf
<1>6. crossed' \in BOOLEAN
  BY Zenon DEF Apply
<1> QED
  BY <1>2, <1>3, <1>4, <1>5, <1>6 DEF Apply, TypeOK

\* What the creation of a row changes.
CreateDoes(c, r) ==
  /\ r \in Rows /\ row[r].st = "none"
  /\ row' \in [Rows -> Row] /\ (\A s \in Rows : s # r => row'[s] = row[s])
  /\ row'[r].st = "init" /\ ~row'[r].enabled
  /\ req' \in [Callers -> Req] /\ (\A d \in Callers : d # c => req'[d] = req[d])
  /\ req'[c].op = "create" /\ req'[c].row = r /\ ~req'[c].copy.enabled

LEMMA CreateDone ==
  ASSUME TypeOK, NEW c \in Callers, Create(c) PROVE \E r : CreateDoes(c, r)
<1> DEFINE new == [st |-> "init", enabled |-> FALSE, ver |-> req[c].ver]
<1>1. PICK r \in Rows :
        /\ row[r].st = "none"
        /\ row' = [row EXCEPT ![r] = new]
        /\ req' = [req EXCEPT ![c] = [NoReq EXCEPT !.op = "create", !.row = r, !.copy = new]]
  BY DEF Create
<1>2. new \in Row /\ new.st = "init" /\ ~new.enabled
  BY ReqFields DEF Row, Statuses
<1> HIDE DEF new
<1> DEFINE g == [NoReq EXCEPT !.op = "create", !.row = r, !.copy = new]
<1>3. g \in Req /\ g.op = "create" /\ g.row = r /\ g.copy = new
  BY <1>2, EmptyTypes DEF NoReq, Req
<1>4. req' = [req EXCEPT ![c] = g]
  BY <1>1
<1> HIDE DEF g
<1>5. CreateDoes(c, r)
  BY <1>1, <1>2, <1>3, <1>4 DEF TypeOK, CreateDoes
<1> QED
  BY <1>5

LEMMA CreateKeeps ==
  ASSUME TypeOK, Honest, NoSelf, NEW c \in Callers, Create(c)
  PROVE  TypeOK' /\ Honest' /\ NoSelf'
<1>1. PICK r : CreateDoes(c, r)
  BY CreateDone
<1>2. /\ row' \in [Rows -> Row] /\ req' \in [Callers -> Req]
      /\ \A s \in Rows : row'[s].st \in Transient => row[s].st \in Transient
  BY <1>1 DEF CreateDoes, Transient
<1>3. task' = task /\ left' = left
  BY DEF Create, history
<1>4. Honest' /\ NoSelf'
  BY <1>2, <1>3 DEF Honest, Writes, NoSelf
<1> QED
  BY <1>2, <1>3, <1>4 DEF Create, TypeOK, history

LEMMA RequestKeeps ==
  ASSUME TypeOK, Honest, NoSelf, NEW c \in Callers, NEW op \in Ops,
         NEW v \in Versions \cup {0}, NEW force \in BOOLEAN, Request(c, op, v, force)
  PROVE  TypeOK' /\ Honest' /\ NoSelf'
<1>1. PICK r \in Rows \cup {0} :
        req' = [req EXCEPT ![c] =
                 [op |-> op, row |-> r, copy |-> IF r = 0 THEN NoRow ELSE row[r],
                  ver |-> v, force |-> force, task |-> 0]]
  BY DEF Request, Found
<1>2. (IF r = 0 THEN NoRow ELSE row[r]) \in Row
  BY EmptyTypes DEF TypeOK
<1>3. req' \in [Callers -> Req]
  BY <1>1, <1>2 DEF TypeOK, Req
<1>4. requests' \in 0..MaxRequests
  BY BoundsAssumption DEF Request, TypeOK
<1>5. row' = row /\ task' = task /\ left' = left
  BY DEF Request, history
<1>6. Honest' /\ NoSelf'
  BY <1>5 DEF Honest, Writes, NoSelf
<1> QED
  BY <1>3, <1>4, <1>5, <1>6 DEF Request, TypeOK, history

LEMMA RefuseKeeps ==
  ASSUME TypeOK, Honest, NoSelf, NEW c \in Callers, Refuse(c)
  PROVE  TypeOK' /\ Honest' /\ NoSelf'
<1>1. req' \in [Callers -> Req]
  BY ReqFields DEF Refuse
<1>2. Honest' /\ NoSelf'
  BY DEF Refuse, Honest, Writes, NoSelf, history
<1> QED
  BY <1>1, <1>2 DEF Refuse, TypeOK, history

------------------------------------------------------------------------------
(* Restarts *)

LEMMA CrashKeeps == ASSUME TypeOK, Honest, Crash PROVE TypeOK' /\ Honest' /\ Down'
<1>1. /\ req' \in [Callers -> Req] /\ task' \in [TaskIds -> Task]
      /\ left' \subseteq Rows
  BY EmptyTypes DEF Crash, Found
<1>2. up' \in BOOLEAN /\ crossed' \in BOOLEAN
  BY Zenon DEF Crash
<1>3. crashes' \in 0..MaxCrashes
  BY BoundsAssumption DEF Crash, TypeOK
<1>4. TypeOK'
  BY <1>1, <1>2, <1>3 DEF Crash, TypeOK
<1>5. Honest'
  BY DEF Crash, Honest, Found, Live, Transient
<1>6. Down'
  BY DEF Crash, Down
<1> QED
  BY <1>4, <1>5, <1>6

LEMMA RestartKeeps == ASSUME TypeOK, Honest, Down, Restart PROVE TypeOK' /\ Honest' /\ Down'
<1>1. task' \in [TaskIds -> Task]
  <2>1. PICK f \in [{r \in Rows : Reruns(r)} -> TaskIds] :
          task' = [t \in TaskIds |->
            IF \E r \in DOMAIN f : f[r] = t
            THEN LET r == CHOOSE r \in DOMAIN f : f[r] = t
                 IN [NewTask("self", r, 0) EXCEPT !.pc = "helm", !.copy = row[r]]
            ELSE NoTask]
    BY DEF Restart
  <2>2. ASSUME NEW r \in Rows
        PROVE  [NewTask("self", r, 0) EXCEPT !.pc = "helm", !.copy = row[r]] \in Task
    BY EmptyTypes DEF NewTask, NoTask, Task, TypeOK, Installs
  <2>3. ASSUME NEW t \in TaskIds, \E r \in DOMAIN f : f[r] = t
        PROVE  (CHOOSE r \in DOMAIN f : f[r] = t) \in Rows
    BY <2>3
  <2> DEFINE self(r) == [NewTask("self", r, 0) EXCEPT !.pc = "helm", !.copy = row[r]]
             ch(t) == CHOOSE r \in DOMAIN f : f[r] = t
             val(t) == IF \E r \in DOMAIN f : f[r] = t THEN self(ch(t)) ELSE NoTask
  <2>4. ASSUME NEW t \in TaskIds PROVE val(t) \in Task
    <3>1. CASE \E r \in DOMAIN f : f[r] = t
      <4>1. ch(t) \in Rows
        BY <2>3, <3>1
      <4>2. self(ch(t)) \in Task
        BY <2>2, <4>1
      <4> QED
        BY <3>1, <4>2
    <3>2. CASE ~ \E r \in DOMAIN f : f[r] = t
      BY <3>2, EmptyTypes
    <3> QED
      BY <3>1, <3>2
  <2>5. task' = [t \in TaskIds |-> val(t)]
    BY <2>1
  <2> HIDE DEF val
  <2> QED
    BY <2>4, <2>5
<1>2. \A r \in Rows : row[r].st \in Transient => r \in left
  <2>1. \A t \in TaskIds : task[t].row \notin Rows
    <3>0. ~up
      BY DEF Restart
    <3>1. \A t \in TaskIds : task[t].row = 0
      <4>1. \A t \in TaskIds : task[t] = NoTask
        BY <3>0 DEF Down
      <4> QED
        BY <4>1 DEF NoTask
    <3>2. 0 \notin Rows
      BY NamesAssumption
    <3> QED
      BY <3>1, <3>2
  <2> QED
    BY <2>1 DEF Honest
<1>3. row' = row /\ left' = left
  BY DEF Restart, history
<1>4. Honest'
  BY <1>2, <1>3 DEF Honest
<1>5. up' = TRUE
  BY DEF Restart
<1>6. TypeOK'
  BY <1>1, <1>3, <1>5 DEF Restart, TypeOK, history
<1> QED
  BY <1>4, <1>5, <1>6 DEF Down

\* A kubeserver that is down takes no step.
LEMMA DownKeeps ==
  ASSUME Down,
         \/ \E t \in TaskIds : TaskStep(t)
         \/ \E c \in Callers : ReqStep(c)
         \/ \E c \in Callers, op \in Ops, v \in Versions \cup {0}, force \in BOOLEAN :
              Request(c, op, v, force)
  PROVE  Down'
<1>1. ASSUME NEW t \in TaskIds, TaskStep(t) PROVE up /\ up' = up
  <2>1. task[t].pc \in {"queued", "fetched", "helm", "helming", "uninstalled", "mark"}
        /\ up' = up
    <3>1. CASE Fetch(t) \/ Init2Helm(t) \/ HelmBegin(t) \/ HelmEnd(t) \/ HelmUnrecorded(t)
      BY <3>1 DEF Fetch, Init2Helm, HelmBegin, HelmEnd, HelmUnrecorded, Stage
    <3>2. CASE HelmDone(t) \/ UndeployRun(t) \/ UndeployWrite(t)
      BY <3>2 DEF HelmDone, UndeployRun, UndeployWrite, Stage
    <3>3. CASE DeleteInit(t) \/ DeleteDone(t) \/ Mark(t)
      BY <3>3 DEF DeleteInit, DeleteDone, Stage, Mark
    <3> QED
      BY <1>1, <3>1, <3>2, <3>3 DEF TaskStep
  <2>2. task[t] # NoTask
    BY <2>1 DEF NoTask
  <2> QED
    BY <2>1, <2>2 DEF Down
<1>2. ASSUME NEW c \in Callers, ReqStep(c) PROVE up /\ up' = up
  <2>1. req[c].op # "none" /\ up' = up
    <3>1. CASE Refuse(c)
      BY <3>1 DEF Refuse
    <3>2. CASE Apply(c)
      BY <3>2 DEF Apply
    <3>3. CASE Create(c)
      BY <3>3 DEF Create
    <3> QED
      BY <1>2, <3>1, <3>2, <3>3 DEF ReqStep
  <2>2. req[c] # NoReq
    BY <2>1 DEF NoReq
  <2> QED
    BY <2>1, <2>2 DEF Down
<1>3. ASSUME NEW c \in Callers, NEW op \in Ops, NEW v \in Versions \cup {0},
             NEW force \in BOOLEAN, Request(c, op, v, force)
      PROVE  up /\ up' = up
  BY <1>3 DEF Request
<1> QED
  BY <1>1, <1>2, <1>3 DEF Down

LEMMA TaskNoSelf ==
  ASSUME TypeOK, NoSelf, NEW t \in TaskIds, TaskStep(t) PROVE NoSelf'
<1> SUFFICES ASSUME NEW s \in TaskIds, task'[s].pc = "mark" PROVE task'[s].kind # "self"
  BY DEF NoSelf
<1>0. task[s] \in Task /\ task[t] \in Task /\ NoTask.pc # "mark"
  BY DEF TypeOK, NoTask
<1>1. task'[s] = task[s]
  <2>1. CASE \E g \in {"Complete", "Failed"} : EndTask(t, g)
    BY <1>0, <2>1 DEF EndTask, Task
  <2>2. CASE ~\E g \in {"Complete", "Failed"} : EndTask(t, g)
    <3>1. CASE Fetch(t) \/ Init2Helm(t)
      BY <1>0, <2>2, <3>1 DEF Fetch, Init2Helm, TypeOK, Task
    <3>2. CASE HelmBegin(t) \/ HelmEnd(t) \/ HelmUnrecorded(t)
      <4>1. task'[t].pc # "mark" /\ (s # t => task'[s] = task[s])
        <5>1. CASE \E g \in {"Complete", "Failed"} : Result(t, g)
          <6>1. PICK n \in Task :
                  /\ task' = [task EXCEPT ![t] = n]
                  /\ n.pc = IF task[t].kind = "self" THEN "fetched" ELSE "queued"
            BY <5>1, ResultFields
          <6> QED
            BY <6>1 DEF TypeOK
        <5>2. CASE task' = [task EXCEPT ![t].pc = "helming"]
          BY <1>0, <5>2 DEF TypeOK, Task
        <5> QED
          BY <3>2, <5>1, <5>2 DEF HelmBegin, HelmEnd, HelmUnrecorded
      <4> QED
        BY <4>1
    <3>3. CASE UndeployRun(t)
      BY <1>0, <2>2, <3>3 DEF UndeployRun, TypeOK, Task
    <3>4. CASE HelmDone(t) \/ UndeployWrite(t) \/ DeleteDone(t)
      BY <1>0, <2>2, <3>4 DEF HelmDone, UndeployWrite, DeleteDone, Task
    <3>5. CASE DeleteInit(t)
      <4>1. PICK n \in NewIds :
              task' = [task EXCEPT ![t] = [@ EXCEPT !.pc = "waiting", !.copy = NoRow],
                                   ![n] = NewTask("undeploy", task[t].row, t)]
        BY <3>5 DEF DeleteInit
      <4>2. NewTask("undeploy", task[t].row, t).pc # "mark" /\ n \in TaskIds
        BY DEF NewTask, NoTask, NewIds, Free
      <4>3. [task[t] EXCEPT !.pc = "waiting", !.copy = NoRow].pc # "mark"
        BY <1>0 DEF Task
      <4> QED
        BY <4>1, <4>2, <4>3 DEF TypeOK
    <3>6. CASE Mark(t)
      BY <1>0, <3>6 DEF Mark, NewTask, NoTask, TypeOK, Task
    <3> QED
      BY <3>1, <3>2, <3>3, <3>4, <3>5, <3>6 DEF TaskStep
  <2> QED
    BY <2>1, <2>2
<1> QED
  BY <1>1 DEF NoSelf

LEMMA CrashNoSelf == ASSUME Crash \/ Restart PROVE NoSelf'
<1>1. CASE Crash
  BY <1>1 DEF Crash, NoSelf, NoTask
<1>2. CASE Restart
  <2>1. PICK f \in [{r \in Rows : Reruns(r)} -> TaskIds] :
          task' = [t \in TaskIds |->
            IF \E r \in DOMAIN f : f[r] = t
            THEN LET r == CHOOSE r \in DOMAIN f : f[r] = t
                 IN [NewTask("self", r, 0) EXCEPT !.pc = "helm", !.copy = row[r]]
            ELSE NoTask]
    BY <1>2 DEF Restart
  <2> DEFINE self(r) == [NewTask("self", r, 0) EXCEPT !.pc = "helm", !.copy = row[r]]
             ch(t) == CHOOSE r \in DOMAIN f : f[r] = t
  <2>2. \A t \in TaskIds :
          task'[t] = IF \E r \in DOMAIN f : f[r] = t THEN self(ch(t)) ELSE NoTask
    BY <2>1
  <2>3. ASSUME NEW r PROVE self(r).pc = "helm"
    BY DEF NewTask, NoTask
  <2>4. NoTask.pc = "none"
    BY DEF NoTask
  <2> HIDE DEF self, ch
  <2> QED
    BY <2>2, <2>3, <2>4 DEF NoSelf
<1> QED
  BY <1>1, <1>2

------------------------------------------------------------------------------
(* Theorems *)

LEMMA InitIInv == Init => IInv
<1> SUFFICES ASSUME Init PROVE IInv
  OBVIOUS
<1>1. up \in BOOLEAN /\ crossed \in BOOLEAN /\ up
  BY Zenon DEF Init
<1>2. TypeOK
  BY <1>1, EmptyTypes, BoundsAssumption DEF Init, TypeOK
<1>3. Honest
  BY DEF Init, Honest, NoRow, Transient
<1> QED
  BY <1>1, <1>2, <1>3 DEF IInv, Down, NoSelf, Init, NoTask

LEMMA StepIInv == ASSUME IInv, [Next]_vars PROVE IInv'
<1>0. TypeOK /\ Honest /\ NoSelf /\ Down
  BY DEF IInv
<1>1. CASE UNCHANGED vars
  BY <1>0, <1>1 DEF vars, IInv, TypeOK, Honest, Writes, NoSelf, Down
<1>2. CASE \E t \in TaskIds : TaskStep(t)
  BY <1>0, <1>2, TaskKeeps, TaskNoSelf, DownKeeps DEF IInv
<1>3. CASE \E c \in Callers : ReqStep(c)
  BY <1>0, <1>3, RefuseKeeps, ApplyKeeps, CreateKeeps, DownKeeps DEF IInv, ReqStep
<1>4. CASE \E c \in Callers, op \in Ops, v \in Versions \cup {0}, force \in BOOLEAN :
             Request(c, op, v, force)
  BY <1>0, <1>4, RequestKeeps, DownKeeps DEF IInv
<1>5. CASE Crash
  BY <1>0, <1>5, CrashKeeps, CrashNoSelf DEF IInv
<1>6. CASE Restart
  BY <1>0, <1>6, RestartKeeps, CrashNoSelf DEF IInv
<1> QED
  BY <1>1, <1>2, <1>3, <1>4, <1>5, <1>6 DEF Next

LEMMA Inductive == Spec => []IInv
<1>1. IInv /\ [Next]_vars => IInv'
  BY StepIInv
<1> QED
  BY InitIInv, <1>1, PTL DEF Spec

\* Every column, request, task and the release keep their types, for any
\* number of rows and tasks: the statuses are those of api/component.go.
THEOREM TypeCorrect == Spec => []TypeOK
<1>1. IInv => TypeOK
  BY DEF IInv
<1> QED
  BY Inductive, <1>1, PTL

\* No interleaving of requests, stages and restarts leaves a component
\* "deploying", "undeploying", "deleting" or "updating" with no task on it,
\* unless a crash cut the task off.
THEOREM HonestStatus == Spec => []StatusHonest
<1>1. IInv => StatusHonest
  BY DEF IInv, Honest, StatusHonest
<1> QED
  BY Inductive, <1>1, PTL
------------------------------------------------------------------------------
(* The row and the release in step *)

\* The component of the type has at most one row that is not deleted: only a
\* request on the cluster that found none creates one.
OneRow == \A r, s \in Rows : Live(r) /\ Live(s) => r = s

Creating ==
  \A c \in Callers :
    /\ req[c].op = "enable" /\ req[c].row = 0 => c = "cluster" /\ Found = {}
    /\ c = "component" => req[c].op \in {"none", "enable", "disable"}
    /\ req[c].op = "create" => ~req[c].copy.enabled

\* Tasks and requests are about rows that were inserted.
Used ==
  /\ \A t \in TaskIds : task[t].row \in Rows => row[task[t].row].st # "none"
  /\ \A c \in Callers : req[c].row \in Rows => row[req[c].row].st # "none"

\* A crash that left a status under way behind cut a task off.
Cut == \A r \in left : row[r].st # "none" /\ (row[r].st \in Transient => crossed)

\* Which stages and labels the tasks of a kind have.
KindOK(t) ==
  /\ task[t].kind = "none" => task[t] = NoTask
  /\ task[t].kind # "none" => task[t].row \in Rows
  /\ task[t].pc \in {"helm", "helming"} => task[t].kind \in Installs /\ task[t].stage = "OnInit"
  /\ task[t].pc = "uninstalled" => task[t].kind = "undeploy"
  /\ task[t].pc = "mark" =>
       task[t].kind \in {"deploy", "undeploy", "delete", "update"} /\ task[t].stage = "OnInit"

Kinds == \A t \in TaskIds : KindOK(t)

\* Only the undeploy of a delete has a task that waits for it, and it is alone.
Parents ==
  \A c \in TaskIds : task[c].parent # 0 =>
    /\ task[c].kind = "undeploy"
    /\ task[task[c].parent].kind = "delete" /\ task[task[c].parent].pc = "waiting"
    /\ \A d \in TaskIds : task[d].parent = task[c].parent => c = d

\* A request that is about to write the status of row r.
Marks(r, kind) ==
  \E t \in TaskIds : /\ task[t].row = r /\ task[t].kind = kind
                     /\ task[t].pc = "mark" /\ task[t].copy.st # Marked(kind)

\* A row that is "init" is off, or is just being enabled.
InitOff ==
  crossed \/ \A r \in Rows : row[r].st = "init" /\ row[r].enabled => Marks(r, "deploy")

Shape == OneRow /\ Creating /\ Used /\ Cut /\ Kinds /\ Parents /\ InitOff

\* No removal runs beside an installation, and nothing beside an update.
Apart ==
  /\ \A s, t \in TaskIds : task[s].kind = "update" /\ s # t => task[t].kind = "none"
  /\ \A s, t \in TaskIds : task[s].kind \in Installs => task[t].kind \notin Removes
  /\ \A t \in TaskIds : task[t].kind # "self"

\* A pending release is the one that the only helm operation began.
Helming ==
  /\ \A t \in TaskIds : task[t].pc = "helming" => release.st = "pending" /\ release.by = t
  /\ release.st = "pending" => \E t \in TaskIds : task[t].pc = "helming"

\* What an installation knows of its row, and what it has achieved.
InstallOK(t) ==
  LET r == task[t].row IN
  /\ task[t].pc \in {"helm", "helming"} => Live(r)
  /\ task[t].kind \in Installs /\ Live(r) =>
       /\ task[t].kind = "deploy" \/ release.st # "none" => row[r].enabled
       /\ task[t].kind = "deploy" /\ row[r].st = "init" =>
            task[t].pc = "mark" /\ task[t].copy.st # "deploying"
       /\ task[t].stage = "OnInit" /\ task[t].pc \in {"fetched", "helm", "helming"} =>
            task[t].copy.ver = row[r].ver
       /\ task[t].stage = "Complete" => release.st = "deployed" /\ release.ver = row[r].ver
       /\ task[t].kind = "update" /\ task[t].pc = "fetched" => task[t].copy.st = row[r].st

\* What a removal will write, and what it has achieved.
RemoveOK(t) ==
  /\ task[t].kind = "undeploy" /\ task[t].pc \in {"fetched", "uninstalled"}
       => (row[task[t].row].st = "deployed" => task[t].copy.st # "init")
  /\ task[t].pc = "uninstalled" => release.st = "none"
  /\ task[t].kind = "delete" /\ task[t].stage = "Complete" => release.st = "none"

\* An update that passed its check finds an enabled row, or nothing to upgrade.
Pending ==
  LET q == req["cluster"] IN
  q.op = "update" /\ q.copy.enabled /\ Live(q.row) /\ release.st # "none" => row[q.row].enabled

\* The row and the release, while tasks run.
InStep ==
  /\ \A r \in Rows : row[r].st = "deployed" =>
       \/ /\ row[r].enabled
          /\ \/ release.st = "deployed" /\ release.ver = row[r].ver
             \/ \E t \in TaskIds : /\ task[t].row = r
                                   /\ task[t].pc = "uninstalled" \/ task[t].kind = "update"
       \/ Marks(r, "delete")
  /\ \A r \in Rows : row[r].st = "init" => release.st = "none"
  /\ Found = {} => release.st = "none"

Calm ==
  /\ Apart /\ Helming /\ Pending /\ InStep
  /\ \A t \in TaskIds : InstallOK(t)
  /\ \A t \in TaskIds : RemoveOK(t)

GInv == Shape /\ (~crossed => Calm)

------------------------------------------------------------------------------
(* What is written *)

LEMMA StatusRow ==
  ASSUME TypeOK, NEW r \in Rows, NEW c \in Row, NEW s, SetStatus(r, c, s)
  PROVE  /\ \A o \in Rows : o # r => row'[o] = row[o]
         /\ row'[r] = IF Live(r) /\ c.st # s THEN [row[r] EXCEPT !.st = s] ELSE row[r]
         /\ row'[r].enabled = row[r].enabled /\ row'[r].ver = row[r].ver
         /\ row'[r].st = IF Live(r) /\ c.st # s THEN s ELSE row[r].st
<1>1. row \in [Rows -> Row] /\ row[r] \in Row
  BY DEF TypeOK
<1>2. Save([row |-> row[r], copy |-> c], "st", s).row =
        IF c.st = s THEN row[r] ELSE [row[r] EXCEPT !.st = s]
  BY DEF Save
<1>3. /\ \A o \in Rows : o # r => row'[o] = row[o]
      /\ row'[r] = IF Live(r) /\ c.st # s THEN [row[r] EXCEPT !.st = s] ELSE row[r]
  BY <1>1, <1>2 DEF SetStatus, Stored
<1> QED
  BY <1>1, <1>3 DEF Row

\* helm uninstall succeeded: "init" comes with ~enabled.
LEMMA UndeployedRow ==
  ASSUME NEW w \in Row, NEW c \in Row
  PROVE  LET u == Undeployed([row |-> w, copy |-> c]).row IN
         /\ u \in Row /\ u.ver = w.ver
         /\ c.st = "init" => u.st = w.st /\ (u.enabled => w.enabled)
         /\ c.st # "init" => u.st = "init" /\ ~u.enabled
<1> DEFINE p == [row |-> w, copy |-> c]
           s == [w EXCEPT !.st = "init"]
<1>0. s \in Row /\ s.st = "init" /\ s.ver = w.ver
  BY DEF Row, Statuses
<1>1. CASE c.st = "init"
  <2>1. Save(p, "st", "init") = p
    BY <1>1 DEF Save
  <2>2. Undeployed(p).row = IF c.enabled = FALSE THEN w ELSE [w EXCEPT !.enabled = FALSE]
    BY <2>1 DEF Undeployed, Save
  <2> QED
    BY <1>1, <2>2 DEF Row
<1>2. CASE c.st # "init"
  <2>1. Save(p, "st", "init") = [row |-> s, copy |-> s]
    BY <1>2 DEF Save
  <2> HIDE DEF s, p
  <2>a. Undeployed(p) = Save([row |-> s, copy |-> s], "enabled", FALSE)
    BY <2>1 DEF Undeployed
  <2>b. Save([row |-> s, copy |-> s], "enabled", FALSE).row =
          IF s.enabled = FALSE THEN s ELSE [s EXCEPT !.enabled = FALSE]
    BY DEF Save
  <2>2. Undeployed(p).row = IF s.enabled = FALSE THEN s ELSE [s EXCEPT !.enabled = FALSE]
    BY <2>a, <2>b
  <2>3. /\ Undeployed(p).row \in Row /\ Undeployed(p).row.ver = w.ver
        /\ Undeployed(p).row.st = "init" /\ ~Undeployed(p).row.enabled
    BY <1>0, <2>2 DEF Row
  <2> QED
    BY <1>2, <2>3 DEF p
<1> QED
  BY <1>1, <1>2

\* What the requests write first: the status stays, and the copy they go on
\* with shows it if they wrote.
LEMMA FirstRow ==
  ASSUME NEW q \in Req, NEW w \in Row, NEW c \in Row
  PROVE  LET p == FirstWrite(q, [row |-> w, copy |-> c]) IN
         /\ q.op \in {"enable", "create"} /\ ~c.enabled =>
              p.row.enabled /\ p.row.ver = w.ver /\ p.copy.st = w.st
         /\ q.op = "disable" => p.row = w
         /\ q.op = "delete" => p.row.ver = w.ver /\ (p.row = w \/ (~p.row.enabled /\ p.copy.st = w.st))
         /\ q.op = "update" => p.row.enabled = w.enabled
<1> DEFINE i == [row |-> w, copy |-> c]
           Saved(col, v) == [row |-> [w EXCEPT ![col] = v], copy |-> [w EXCEPT ![col] = v]]
<1>1. ASSUME q.op \in {"enable", "create"}, ~c.enabled
      PROVE  FirstWrite(q, i) = Saved("enabled", TRUE)
  BY <1>1 DEF FirstWrite, Save, Row
<1>2. ASSUME q.op = "delete" PROVE FirstWrite(q, i) = i \/ FirstWrite(q, i) = Saved("enabled", FALSE)
  BY <1>2 DEF FirstWrite, Save
<1>3. ASSUME q.op = "update" PROVE FirstWrite(q, i) = i \/ FirstWrite(q, i) = Saved("ver", q.ver)
  BY <1>3 DEF FirstWrite, Save
<1>4. ASSUME q.op = "disable" PROVE FirstWrite(q, i) = i
  BY <1>4 DEF FirstWrite
<1>5. /\ Saved("enabled", TRUE).row.enabled /\ Saved("enabled", TRUE).row.ver = w.ver
      /\ Saved("enabled", TRUE).copy.st = w.st
  BY DEF Row
<1>6. Saved("enabled", FALSE).row.ver = w.ver /\ Saved("enabled", FALSE).copy.st = w.st
      /\ ~Saved("enabled", FALSE).row.enabled
  BY DEF Row
<1>7. Saved("ver", q.ver).row.enabled = w.enabled
  BY DEF Row
<1>8. i.row = w /\ i.copy = c
  OBVIOUS
<1> HIDE DEF i, Saved
<1> DEFINE p == FirstWrite(q, i)
<1>9. /\ q.op \in {"enable", "create"} /\ ~c.enabled =>
              p.row.enabled /\ p.row.ver = w.ver /\ p.copy.st = w.st
      /\ q.op = "disable" => p.row = w
      /\ q.op = "delete" => p.row.ver = w.ver /\ (p.row = w \/ (~p.row.enabled /\ p.copy.st = w.st))
      /\ q.op = "update" => p.row.enabled = w.enabled
  BY <1>1, <1>2, <1>3, <1>4, <1>5, <1>6, <1>7, <1>8
<1> QED
  BY <1>9 DEF i

------------------------------------------------------------------------------
(* The shape of rows, requests and tasks *)

LEMMA ShapeRows ==
  ASSUME OneRow, Creating, \A r \in Rows : Live(r)' => Live(r),
         \A c \in Callers : req'[c] = req[c] \/ req'[c].op = "none"
  PROVE  OneRow' /\ Creating'
<1>1. OneRow'
  BY DEF OneRow
<1>2. Found' \subseteq Found
  BY DEF Found
<1>3. Creating'
  BY <1>2 DEF Creating
<1> QED
  BY <1>1, <1>3

LEMMA CutWrite ==
  ASSUME TypeOK, Cut, NEW r \in Rows, Cleared(r), \A o \in Rows : o # r => row'[o] = row[o],
         crossed => crossed', row[r].st # "none" => row'[r].st # "none"
  PROVE  Cut'
<1>1. left' \subseteq left /\ (row'[r].st # row[r].st => r \notin left') /\ left' \subseteq Rows
  BY DEF Cleared, TypeOK
<1> QED
  BY <1>1 DEF Cut

\* A request that is about to write is not disturbed by the step of a task.
LEMMA MarksMove ==
  ASSUME TypeOK, NEW t \in TaskIds, NEW n, task' = [task EXCEPT ![t] = n], task[t].pc # "mark"
  PROVE  \A r \in Rows : \A k \in {"deploy", "delete"} : Marks(r, k) => Marks(r, k)'
<1>1. \A s \in TaskIds : s # t => task'[s] = task[s]
  BY DEF TypeOK
<1> QED
  BY <1>1 DEF Marks

\* A task moves on; the rows stay.
LEMMA MoveShape ==
  ASSUME TypeOK, Shape, NEW t \in TaskIds, NEW n \in Task, task' = [task EXCEPT ![t] = n],
         n.kind = task[t].kind, n.row = task[t].row, n.parent = task[t].parent,
         n.pc \in {"helm", "helming"} => n.kind \in Installs /\ n.stage = "OnInit",
         n.pc = "uninstalled" => n.kind = "undeploy",
         task[t].pc # "waiting", task[t].pc # "none", task[t].pc # "mark", n.pc # "mark",
         row' = row, left' = left, crossed => crossed', req' = req
  PROVE  Shape'
<1>1. task'[t] = n /\ \A s \in TaskIds : s # t => task'[s] = task[s]
  BY DEF TypeOK
<1>2. OneRow' /\ Creating' /\ Cut'
  BY DEF Shape, OneRow, Creating, Cut, Live, Found
<1>i. InitOff'
  BY MarksMove DEF Shape, InitOff
<1>3. Used'
  BY <1>1 DEF Shape, Used
<1>4. task[t].kind # "none"
  BY DEF Shape, Kinds, KindOK, NoTask
<1>5. Kinds'
  BY <1>1, <1>4 DEF Shape, Kinds, KindOK
<1>6. Parents'
  <2> SUFFICES ASSUME NEW c \in TaskIds, task'[c].parent # 0
               PROVE  /\ task'[c].kind = "undeploy"
                      /\ task'[task'[c].parent].kind = "delete"
                      /\ task'[task'[c].parent].pc = "waiting"
                      /\ \A d \in TaskIds : task'[d].parent = task'[c].parent => c = d
    BY DEF Parents
  <2>1. \A d \in TaskIds : task'[d].parent = task[d].parent /\ task'[d].kind = task[d].kind
    BY <1>1
  <2>2. task[c].parent \in TaskIds
    BY <2>1 DEF TypeOK, Task
  <2>3. /\ task[c].kind = "undeploy"
        /\ task[task[c].parent].kind = "delete" /\ task[task[c].parent].pc = "waiting"
        /\ \A d \in TaskIds : task[d].parent = task[c].parent => c = d
    BY <2>1 DEF Shape, Parents
  <2>4. task[c].parent # t
    BY <2>3
  <2> QED
    BY <1>1, <2>1, <2>2, <2>3, <2>4
<1> QED
  BY <1>2, <1>i, <1>3, <1>5, <1>6 DEF Shape

\* A task that ends: what becomes of the others.
LEMMA EndOthers ==
  ASSUME TypeOK, Shape, NEW t \in TaskIds, NEW stage \in {"Complete", "Failed"},
         EndTask(t, stage), task[t].pc # "waiting", task[t].pc # "none"
  PROVE  /\ task'[t] = NoTask
         /\ \A s \in TaskIds : s # t /\ s # task[t].parent => task'[s] = task[s]
         /\ \A s \in TaskIds : s # t /\ s = task[t].parent =>
              /\ task[s].kind = "delete" /\ task[s].pc = "waiting" /\ task[t].kind = "undeploy"
              /\ task'[s].kind = task[s].kind /\ task'[s].row = task[s].row
              /\ task'[s].parent = 0 /\ task'[s].pc = "queued" /\ task'[s].stage = stage
         /\ task[t].kind # "none" /\ task[t].row \in Rows
<1>1. /\ task'[t] = NoTask
      /\ \A s \in TaskIds : s # t /\ s # task[t].parent => task'[s] = task[s]
      /\ \A s \in TaskIds : s # t /\ s = task[t].parent =>
           task'[s] = [task[s] EXCEPT !.stage = stage, !.pc = "queued"]
  BY DEF EndTask
<1>2. task[t].kind # "none" /\ task[t].row \in Rows
  BY DEF Shape, Kinds, KindOK, NoTask
<1>3. ASSUME NEW s \in TaskIds, s # t, s = task[t].parent
      PROVE  /\ task[s].kind = "delete" /\ task[s].pc = "waiting" /\ task[t].kind = "undeploy"
             /\ task'[s].kind = task[s].kind /\ task'[s].row = task[s].row
             /\ task'[s].parent = 0 /\ task'[s].pc = "queued" /\ task'[s].stage = stage
  <2>1. s # 0 /\ task[s] \in Task
    BY NamesAssumption DEF TypeOK
  <2>2. task[s].kind = "delete" /\ task[s].pc = "waiting" /\ task[t].kind = "undeploy"
    BY <1>3, <2>1 DEF Shape, Parents
  <2>3. task[s].parent = 0
    BY <2>2 DEF Shape, Parents
  <2> QED
    BY <1>1, <1>3, <2>1, <2>2, <2>3 DEF Task
<1> QED
  BY <1>1, <1>2, <1>3

LEMMA MarksEnd ==
  ASSUME TypeOK, Shape, NEW t \in TaskIds, NEW stage \in {"Complete", "Failed"},
         EndTask(t, stage), task[t].pc # "waiting", task[t].pc # "none", task[t].pc # "mark"
  PROVE  \A r \in Rows : \A k \in {"deploy", "delete"} : Marks(r, k) => Marks(r, k)'
<1> SUFFICES ASSUME NEW r \in Rows, NEW k \in {"deploy", "delete"}, Marks(r, k)
             PROVE  Marks(r, k)'
  OBVIOUS
<1>1. PICK s \in TaskIds : /\ task[s].row = r /\ task[s].kind = k
                           /\ task[s].pc = "mark" /\ task[s].copy.st # Marked(k)
  BY DEF Marks
<1>2. task'[s] = task[s]
  BY <1>1, EndOthers
<1> QED
  BY <1>1, <1>2 DEF Marks

LEMMA EndShape ==
  ASSUME TypeOK, Shape, NEW t \in TaskIds, NEW stage \in {"Complete", "Failed"},
         EndTask(t, stage), task[t].pc # "waiting", task[t].pc # "none",
         \A r \in Rows : (Live(r)' => Live(r)) /\ (row[r].st # "none" => row'[r].st # "none"),
         Cut', InitOff', req' = req
  PROVE  Shape'
<1>1. OneRow' /\ Creating'
  BY ShapeRows DEF Shape
<1>2. /\ task'[t] = NoTask
      /\ \A s \in TaskIds : s # t => task'[s].row = task[s].row /\ task'[s].kind = task[s].kind
  BY EndOthers
<1>3. Used'
  <2>1. NoTask.row \notin Rows
    BY NamesAssumption DEF NoTask
  <2> QED
    BY <1>2, <2>1 DEF Shape, Used
<1>4. Kinds'
  <2> SUFFICES ASSUME NEW s \in TaskIds PROVE KindOK(s)'
    BY DEF Kinds
  <2>0. KindOK(s)
    BY DEF Shape, Kinds
  <2>1. CASE s = t
    BY <1>2, <2>1 DEF KindOK, NoTask
  <2>2. CASE s # t /\ s # task[t].parent
    BY <2>0, <2>2, EndOthers DEF KindOK
  <2>3. CASE s # t /\ s = task[t].parent
    <3>1. task[s].kind = "delete" /\ task'[s].kind = "delete" /\ task'[s].row = task[s].row
          /\ task'[s].pc = "queued"
      BY <2>3, EndOthers
    <3> QED
      BY <2>0, <3>1 DEF KindOK
  <2> QED
    BY <2>1, <2>2, <2>3
<1>5. Parents'
  <2> SUFFICES ASSUME NEW c \in TaskIds, task'[c].parent # 0
               PROVE  /\ task'[c].kind = "undeploy"
                      /\ task'[task'[c].parent].kind = "delete"
                      /\ task'[task'[c].parent].pc = "waiting"
                      /\ \A d \in TaskIds : task'[d].parent = task'[c].parent => c = d
    BY DEF Parents
  <2>1. c # t /\ c # task[t].parent /\ task'[c] = task[c]
    BY EndOthers DEF NoTask
  <2>2. task[c].parent \in TaskIds
    BY <2>1 DEF TypeOK, Task
  <2>3. /\ task[c].kind = "undeploy"
        /\ task[task[c].parent].kind = "delete" /\ task[task[c].parent].pc = "waiting"
        /\ \A d \in TaskIds : task[d].parent = task[c].parent => c = d
    BY <2>1 DEF Shape, Parents
  <2>4. task[c].parent # t /\ task[c].parent # task[t].parent
    BY <2>1, <2>3
  <2>5. task'[task[c].parent] = task[task[c].parent]
    BY <2>2, <2>4, EndOthers
  <2>6. \A d \in TaskIds : task'[d].parent = 0 \/ task'[d].parent = task[d].parent
    BY EndOthers DEF NoTask
  <2> QED
    BY <2>1, <2>3, <2>5, <2>6
<1> QED
  BY <1>1, <1>3, <1>4, <1>5 DEF Shape

\* A request makes its first write.
LEMMA StartShape ==
  ASSUME TypeOK, Shape, NEW n \in NewIds, NEW r \in Rows,
         NEW m \in Task, m.kind \in {"deploy", "undeploy", "delete", "update"},
         m.row = r, m.parent = 0, m.pc = "mark", m.stage = "OnInit",
         task' = [task EXCEPT ![n] = m], row'[r].st # "none",
         \A o \in Rows : row[o].st # "none" => row'[o].st # "none",
         \A c \in Callers : req'[c] = req[c] \/ req'[c].row = 0
  PROVE  Used' /\ Kinds' /\ Parents'
<1>0. n \in TaskIds /\ task[n] = NoTask /\ NoTask.kind = "none" /\ 0 \notin Rows
      /\ NoTask.parent = 0
  BY NamesAssumption DEF NewIds, Free, NoTask
<1>1. /\ task'[n] = m
      /\ \A s \in TaskIds : s # n => task'[s] = task[s]
  BY <1>0 DEF TypeOK
<1>2. /\ task'[n].kind # "none" /\ task'[n].row = r /\ task'[n].parent = 0
      /\ task'[n].pc = "mark" /\ task'[n].stage = "OnInit"
  BY <1>1
<1>3. Used'
  BY <1>0, <1>1, <1>2 DEF Shape, Used
<1>4. Kinds'
  BY <1>1, <1>2 DEF Shape, Kinds, KindOK
<1>5. Parents'
  <2> SUFFICES ASSUME NEW c \in TaskIds, task'[c].parent # 0
               PROVE  /\ task'[c].kind = "undeploy"
                      /\ task'[task'[c].parent].kind = "delete"
                      /\ task'[task'[c].parent].pc = "waiting"
                      /\ \A d \in TaskIds : task'[d].parent = task'[c].parent => c = d
    BY DEF Parents
  <2>1. c # n /\ task'[c] = task[c]
    BY <1>1, <1>2
  <2>2. task[c].parent \in TaskIds
    BY <2>1 DEF TypeOK, Task
  <2>3. /\ task[c].kind = "undeploy"
        /\ task[task[c].parent].kind = "delete" /\ task[task[c].parent].pc = "waiting"
        /\ \A d \in TaskIds : task[d].parent = task[c].parent => c = d
    BY <2>1 DEF Shape, Parents
  <2>4. task[c].parent # n
    BY <1>0, <2>3
  <2> QED
    BY <1>1, <1>2, <2>1, <2>2, <2>3, <2>4
<1> QED
  BY <1>3, <1>4, <1>5

------------------------------------------------------------------------------
(* Steps of a task, while nothing has crossed *)

\* A task ends, after it changed its row at most.
LEMMA EndCalm ==
  ASSUME TypeOK, Shape, Calm, NEW t \in TaskIds, NEW stage \in {"Complete", "Failed"},
         EndTask(t, stage), task[t].pc \notin {"none", "waiting", "helming"},
         stage = "Complete" /\ task[t].kind = "undeploy" => release.st = "none",
         release' = release, req' = req,
         \A r \in Rows : Live(r)' => /\ Live(r) /\ row'[r].ver = row[r].ver
                                     /\ \/ row[r].enabled => row'[r].enabled
                                        \/ task[t].kind \in Removes /\ release.st = "none",
         \A r \in Rows : Live(r) /\ ~Live(r)' => task[t].kind \in Removes,
         \A r \in Rows : row'[r].st = "deployed" =>
           row[r].st = "deployed" \/ task[t].kind \in Installs,
         \A r \in Rows : row'[r].st = "init" =>
           row[r].st = "init" \/ task[t].kind \in Removes,
         InStep'
  PROVE  Calm'
<1>0. /\ task'[t] = NoTask /\ task[t].kind # "none" /\ task[t].row \in Rows
      /\ \A s \in TaskIds : s # t /\ s # task[t].parent => task'[s] = task[s]
      /\ \A s \in TaskIds : s # t /\ s = task[t].parent =>
           /\ task[s].kind = "delete" /\ task[s].pc = "waiting" /\ task[t].kind = "undeploy"
           /\ task'[s].kind = "delete" /\ task'[s].row = task[s].row
           /\ task'[s].pc = "queued" /\ task'[s].stage = stage
  BY EndOthers
<1>1. NoTask.kind = "none" /\ NoTask.pc = "none"
  BY DEF NoTask
<1>2. \A s \in TaskIds : task'[s].kind \in {task[s].kind, "none"}
  BY <1>0, <1>1
<1>3. Apart'
  BY <1>2 DEF Calm, Apart, Installs, Removes
<1>4. Helming'
  <2>1. \A s \in TaskIds : task'[s].pc = "helming" <=> task[s].pc = "helming"
    BY <1>0, <1>1
  <2> QED
    BY <2>1 DEF Calm, Helming
<1>5. ASSUME NEW s \in TaskIds PROVE InstallOK(s)'
  <2>0. InstallOK(s)
    BY DEF Calm
  <2>1. CASE s = t
    BY <1>0, <1>1, <2>1 DEF InstallOK, Installs
  <2>2. CASE s # t /\ s = task[t].parent
    BY <1>0, <2>2 DEF InstallOK, Installs
  <2>3. CASE s # t /\ s # task[t].parent
    <3>1. task'[s] = task[s]
      BY <1>0, <2>3
    <3>2. CASE task[s].kind \in Installs
      <4>1. task[t].kind \notin Removes /\ task[s].kind # "update" /\ task[s].row \in Rows
        BY <1>0, <2>3, <3>2 DEF Calm, Apart, Shape, Kinds, KindOK, Installs
      <4>2. Live(task[s].row)' <=> Live(task[s].row)
        BY <3>1, <4>1 DEF Live
      <4>3. Live(task[s].row) => row'[task[s].row].ver = row[task[s].row].ver
                                 /\ (row[task[s].row].enabled => row'[task[s].row].enabled)
                                 /\ (row'[task[s].row].st = "init" => row[task[s].row].st = "init")
        BY <4>1, <4>2
      <4> QED
        BY <2>0, <3>1, <4>1, <4>2, <4>3 DEF InstallOK
    <3>3. CASE task[s].kind \notin Installs
      BY <3>1, <3>3 DEF InstallOK, Shape, Kinds, KindOK
    <3> QED
      BY <3>2, <3>3
  <2> QED
    BY <2>1, <2>2, <2>3
<1>6. ASSUME NEW s \in TaskIds PROVE RemoveOK(s)'
  <2>0. RemoveOK(s)
    BY DEF Calm
  <2>1. CASE s = t
    BY <1>0, <1>1, <2>1 DEF RemoveOK
  <2>2. CASE s # t /\ s = task[t].parent
    BY <1>0, <2>2 DEF RemoveOK
  <2>3. CASE s # t /\ s # task[t].parent
    <3>1. task'[s] = task[s]
      BY <1>0, <2>3
    <3>2. CASE task[s].kind \in Removes
      <4>1. task[t].kind \notin Installs /\ task[s].row \in Rows
        BY <3>2 DEF Calm, Apart, Shape, Kinds, KindOK, Removes
      <4> QED
        BY <2>0, <3>1, <4>1 DEF RemoveOK
    <3>3. CASE task[s].kind \notin Removes
      BY <3>1, <3>3 DEF RemoveOK, Shape, Kinds, KindOK, Removes
    <3> QED
      BY <3>2, <3>3
  <2> QED
    BY <2>1, <2>2, <2>3
<1>7. Pending'
  <2> DEFINE q == req["cluster"]
  <2> SUFFICES ASSUME q.op = "update", q.copy.enabled, Live(q.row)', release.st # "none"
               PROVE  row'[q.row].enabled
    BY DEF Pending
  <2>1. q.row \in Rows
    BY DEF Live
  <2>2. Live(q.row) /\ (row[q.row].enabled => row'[q.row].enabled)
    BY <2>1
  <2> QED
    BY <2>2 DEF Calm, Pending
<1> QED
  BY <1>3, <1>4, <1>5, <1>6, <1>7 DEF Calm

\* What keeps the exceptions of InStep when a task ends.
LEMMA EndKeeps ==
  ASSUME TypeOK, Shape, NEW t \in TaskIds, NEW stage \in {"Complete", "Failed"},
         EndTask(t, stage), task[t].pc \notin {"none", "waiting"},
         NEW r \in Rows, NEW s \in TaskIds, s # t, task[s].row = r,
         task[s].pc = "uninstalled" \/ task[s].kind = "update"
  PROVE  \E o \in TaskIds : /\ task'[o].row = r
                            /\ task'[o].pc = "uninstalled" \/ task'[o].kind = "update"
<1>1. task'[s] = task[s]
  BY EndOthers
<1> QED
  BY <1>1

\* A task whose row is gone ends.
LEMMA GoneCalm ==
  ASSUME TypeOK, Shape, Calm, NEW t \in TaskIds, EndTask(t, "Failed"),
         task[t].pc \in {"queued", "fetched"}, ~Live(task[t].row),
         release' = release, req' = req, row' = row
  PROVE  Calm'
<1>1. InStep'
  <2>1. Found' = Found
    BY DEF Found, Live
  <2>2. ASSUME NEW r \in Rows, row[r].st = "deployed", ~Marks(r, "delete"),
               ~(release.st = "deployed" /\ release.ver = row[r].ver)
        PROVE  \E o \in TaskIds : /\ task'[o].row = r
                                  /\ task'[o].pc = "uninstalled" \/ task'[o].kind = "update"
    <3>1. PICK s \in TaskIds : /\ task[s].row = r
                               /\ task[s].pc = "uninstalled" \/ task[s].kind = "update"
      BY <2>2 DEF Calm, InStep
    <3>2. s # t
      BY <2>2, <3>1 DEF Live
    <3> QED
      BY <3>1, <3>2, EndKeeps
  <2> QED
    BY <2>1, <2>2, MarksEnd DEF Calm, InStep
<1>2. \A r \in Rows : Live(r)' <=> Live(r)
  BY DEF Live
<1> QED
  BY <1>1, <1>2, EndCalm

\* A task moves on and helm is left alone.
LEMMA MoveCalm ==
  ASSUME TypeOK, Shape, Calm, NEW t \in TaskIds, NEW n \in Task, task' = [task EXCEPT ![t] = n],
         n.kind = task[t].kind, n.row = task[t].row, n.pc # "helming",
         task[t].pc \notin {"helming", "uninstalled", "mark"},
         row' = row, req' = req, release' = release, InstallOK(t)', RemoveOK(t)'
  PROVE  Calm'
<1>1. task'[t] = n /\ \A s \in TaskIds : s # t => task'[s] = task[s]
  BY DEF TypeOK
<1>2. \A r \in Rows \cup {0} : Live(r)' <=> Live(r)
  BY DEF Live
<1>3. Apart'
  BY <1>1 DEF Calm, Apart
<1>4. Helming'
  BY <1>1 DEF Calm, Helming
<1>5. \A s \in TaskIds : InstallOK(s)'
  BY <1>1 DEF Calm, InstallOK, Live
<1>6. \A s \in TaskIds : RemoveOK(s)'
  BY <1>1 DEF Calm, RemoveOK
<1>7. Pending'
  BY DEF Calm, Pending, Live
<1>8. InStep'
  <2>1. Found' = Found
    BY DEF Found, Live
  <2>2. ASSUME NEW r \in Rows, NEW s \in TaskIds, task[s].row = r,
               task[s].pc = "uninstalled" \/ task[s].kind = "update"
        PROVE  \E o \in TaskIds : /\ task'[o].row = r
                                  /\ task'[o].pc = "uninstalled" \/ task'[o].kind = "update"
    BY <1>1, <2>2
  <2> QED
    BY <2>1, <2>2, MarksMove DEF Calm, InStep
<1> QED
  BY <1>3, <1>4, <1>5, <1>6, <1>7, <1>8 DEF Calm

LEMMA FetchCalm == ASSUME TypeOK, GInv, NEW t \in TaskIds, Fetch(t) PROVE GInv'
<1>0. /\ task[t].pc = "queued" /\ Shape /\ (~crossed => Calm)
      /\ row' = row /\ left' = left /\ crossed' = crossed /\ req' = req /\ release' = release
  BY DEF GInv, Fetch, history
<1>1. CASE ~Live(task[t].row)
  <2>1. EndTask(t, "Failed")
    BY <1>1 DEF Fetch
  <2>2. Cut' /\ \A r \in Rows : Live(r)' <=> Live(r)
    BY <1>0 DEF Shape, Cut, Live
  <2>a. InitOff'
    BY <1>0, <2>1, MarksEnd DEF Shape, InitOff
  <2>3. Shape'
    BY <1>0, <2>1, <2>2, <2>a, EndShape
  <2> QED
    BY <1>0, <1>1, <2>1, <2>3, GoneCalm DEF GInv
<1>2. CASE Live(task[t].row)
  <2> DEFINE n == [task[t] EXCEPT !.pc = "fetched", !.copy = row[task[t].row]]
  <2>1. task' = [task EXCEPT ![t] = n]
    BY <1>2 DEF Fetch
  <2>2. /\ n \in Task /\ n.row = task[t].row /\ n.copy = row[task[t].row] /\ n.kind = task[t].kind
        /\ n.pc = "fetched" /\ n.parent = task[t].parent /\ n.stage = task[t].stage
    BY <1>2, TaskFields DEF Task, Live
  <2> HIDE DEF n
  <2>3. Shape'
    BY <1>0, <2>1, <2>2, MoveShape
  <2>4. task'[t] = n
    BY <2>1 DEF TypeOK
  <2>5. ASSUME Calm PROVE Calm'
    <3>1. InstallOK(t)' /\ RemoveOK(t)'
      <4>1. InstallOK(t) /\ RemoveOK(t)
        BY <2>5 DEF Calm
      <4>2. InstallOK(t)'
        BY <1>0, <2>2, <2>4, <4>1 DEF InstallOK, Live
      <4>3. RemoveOK(t)'
        BY <1>0, <2>2, <2>4, <4>1 DEF RemoveOK
      <4> QED
        BY <4>2, <4>3
    <3> QED
      BY <1>0, <2>1, <2>2, <2>5, <3>1, MoveCalm
  <2> QED
    BY <1>0, <2>3, <2>5 DEF GInv
<1> QED
  BY <1>1, <1>2

LEMMA Init2HelmCalm == ASSUME TypeOK, GInv, NEW t \in TaskIds, Init2Helm(t) PROVE GInv'
<1>0. /\ task[t].pc = "fetched" /\ Shape /\ (~crossed => Calm)
      /\ task[t].kind \in {"deploy", "update"} /\ task[t].stage = "OnInit"
      /\ row' = row /\ left' = left /\ crossed' = crossed /\ req' = req /\ release' = release
  BY DEF GInv, Init2Helm, Stage, history
<1>1. CASE ~Live(task[t].row)
  <2>1. EndTask(t, "Failed")
    BY <1>1 DEF Init2Helm
  <2>2. Cut' /\ \A r \in Rows : Live(r)' <=> Live(r)
    BY <1>0 DEF Shape, Cut, Live
  <2>a. InitOff'
    BY <1>0, <2>1, MarksEnd DEF Shape, InitOff
  <2>3. Shape'
    BY <1>0, <2>1, <2>2, <2>a, EndShape
  <2> QED
    BY <1>0, <1>1, <2>1, <2>3, GoneCalm DEF GInv
<1>2. CASE Live(task[t].row)
  <2> DEFINE n == [task[t] EXCEPT !.pc = "helm"]
  <2>1. task' = [task EXCEPT ![t] = n]
    BY <1>2 DEF Init2Helm
  <2>2. /\ n \in Task /\ n.row = task[t].row /\ n.copy = task[t].copy /\ n.kind = task[t].kind
        /\ n.pc = "helm" /\ n.parent = task[t].parent /\ n.stage = task[t].stage
    BY TaskFields DEF Task
  <2> HIDE DEF n
  <2>3. Shape'
    BY <1>0, <2>1, <2>2, MoveShape DEF Installs
  <2>4. task'[t] = n
    BY <2>1 DEF TypeOK
  <2>5. ASSUME Calm PROVE Calm'
    <3>1. InstallOK(t)' /\ RemoveOK(t)'
      <4>1. InstallOK(t) /\ RemoveOK(t)
        BY <2>5 DEF Calm
      <4>2. InstallOK(t)'
        BY <1>0, <1>2, <2>2, <2>4, <4>1 DEF InstallOK, Live
      <4>3. RemoveOK(t)'
        BY <1>0, <2>2, <2>4, <4>1 DEF RemoveOK
      <4> QED
        BY <4>2, <4>3
    <3> QED
      BY <1>0, <2>1, <2>2, <2>5, <3>1, MoveCalm
  <2> QED
    BY <1>0, <2>3, <2>5 DEF GInv
<1> QED
  BY <1>1, <1>2

\* An installation that runs helm: what is around it.
LEMMA HelmAlone ==
  ASSUME TypeOK, Shape, Calm, NEW t \in TaskIds, task[t].pc \in {"helm", "helming"}
  PROVE  /\ task[t].kind \in {"deploy", "update"} /\ task[t].stage = "OnInit"
         /\ task[t].row \in Rows /\ Live(task[t].row)
         /\ task[t].copy.ver = row[task[t].row].ver
         /\ task[t].kind = "deploy" \/ release.st # "none" => row[task[t].row].enabled
         /\ task[t].kind = "deploy" => row[task[t].row].st # "init"
         /\ \A r \in Rows : Live(r) => r = task[t].row
         /\ \A s \in TaskIds : /\ task[s].kind \notin Removes /\ task[s].pc # "uninstalled"
                               /\ task[s].kind = "update" => s = t
                               /\ task[t].kind = "update" /\ s # t =>
                                    task[s].kind = "none" /\ task[s].pc = "none"
<1>1. /\ task[t].kind \in {"deploy", "update"} /\ task[t].stage = "OnInit"
      /\ task[t].row \in Rows
  BY DEF Shape, Kinds, KindOK, Calm, Apart, Installs
<1>2. /\ Live(task[t].row) /\ task[t].copy.ver = row[task[t].row].ver
      /\ task[t].kind = "deploy" \/ release.st # "none" => row[task[t].row].enabled
      /\ task[t].kind = "deploy" => row[task[t].row].st # "init"
  BY <1>1 DEF Calm, InstallOK, Installs
<1>3. \A r \in Rows : Live(r) => r = task[t].row
  BY <1>1, <1>2 DEF Shape, OneRow
<1>4. ASSUME NEW s \in TaskIds
      PROVE  /\ task[s].kind \notin Removes /\ task[s].pc # "uninstalled"
             /\ task[s].kind = "update" => s = t
             /\ task[t].kind = "update" /\ s # t =>
                  task[s].kind = "none" /\ task[s].pc = "none"
  <2>1. task[s].kind \notin Removes
    BY <1>1 DEF Calm, Apart, Installs
  <2>2. task[s].pc # "uninstalled"
    BY <2>1 DEF Shape, Kinds, KindOK, Removes
  <2>3. task[s].kind = "update" => s = t
    BY <1>1 DEF Calm, Apart
  <2>4. task[t].kind = "update" /\ s # t => task[s].kind = "none" /\ task[s].pc = "none"
    BY DEF Calm, Apart, Shape, Kinds, KindOK, NoTask
  <2> QED
    BY <2>1, <2>2, <2>3, <2>4
<1> QED
  BY <1>1, <1>2, <1>3, <1>4

\* helm takes the installation up: the release is pending.
LEMMA BeginCalm ==
  ASSUME TypeOK, Shape, Calm, NEW t \in TaskIds, NEW n \in Task,
         task[t].pc = "helm", HelmAllows(task[t].kind),
         release'.st = "pending", release'.by = t,
         task' = [task EXCEPT ![t] = n], n.kind = task[t].kind, n.row = task[t].row,
         n.stage = task[t].stage, n.copy = task[t].copy, n.pc = "helming",
         row' = row, req' = req
  PROVE  Calm'
<1>0. task'[t] = n /\ \A s \in TaskIds : s # t => task'[s] = task[s]
  BY DEF TypeOK
<1>1. /\ task[t].kind \in {"deploy", "update"} /\ task[t].stage = "OnInit"
      /\ task[t].row \in Rows /\ Live(task[t].row)
      /\ task[t].copy.ver = row[task[t].row].ver
      /\ task[t].kind = "deploy" \/ release.st # "none" => row[task[t].row].enabled
      /\ task[t].kind = "deploy" => row[task[t].row].st # "init"
      /\ \A r \in Rows : Live(r) => r = task[t].row
      /\ \A s \in TaskIds : /\ task[s].kind \notin Removes /\ task[s].pc # "uninstalled"
                            /\ task[s].kind = "update" => s = t
                            /\ task[t].kind = "update" /\ s # t =>
                                 task[s].kind = "none" /\ task[s].pc = "none"
  BY HelmAlone
<1>2. /\ release.st # "pending"
      /\ task[t].kind = "deploy" => release.st \in {"none", "failed"}
      /\ task[t].kind = "update" => release.st \in {"deployed", "failed"}
      /\ row[task[t].row].enabled /\ row[task[t].row].st # "init"
  BY <1>1 DEF HelmAllows, Calm, InStep
<1>3. Apart'
  BY <1>0 DEF Calm, Apart
<1>4. Helming'
  <2>1. \A s \in TaskIds : task[s].pc # "helming"
    BY <1>2 DEF Calm, Helming
  <2> QED
    BY <1>0, <2>1 DEF Helming
<1>5. ASSUME NEW s \in TaskIds PROVE InstallOK(s)'
  <2>0. InstallOK(s)
    BY DEF Calm
  <2>1. CASE s = t
    BY <1>0, <1>1, <1>2, <2>1 DEF InstallOK, Live
  <2>2. CASE s # t
    <3>1. task'[s] = task[s]
      BY <1>0, <2>2
    <3>2. CASE task[t].kind = "update"
      BY <1>1, <2>2, <3>1, <3>2 DEF InstallOK, Installs
    <3>3. CASE task[t].kind = "deploy"
      <4>1. task[s].kind # "update" /\ release.st # "deployed" /\ task[s].kind # "self"
        BY <1>1, <1>2, <3>3, <2>2 DEF Calm, Apart
      <4> QED
        BY <1>1, <2>0, <3>1, <4>1 DEF InstallOK, Live, Installs
    <3> QED
      BY <1>1, <3>2, <3>3
  <2> QED
    BY <2>1, <2>2
<1>6. \A s \in TaskIds : RemoveOK(s)'
  BY <1>0, <1>1 DEF RemoveOK, Removes
<1>7. Pending'
  BY <1>1, <1>2 DEF Pending, Live
<1>8. InStep'
  <2>1. Found' # {}
    BY <1>1 DEF Found, Live
  <2>2. ASSUME NEW r \in Rows, row[r].st = "deployed"
        PROVE  row[r].enabled /\ task[t].row = r /\ task[t].kind = "update"
    <3>1. Live(r)
      BY <2>2 DEF Live
    <3>2. r = task[t].row
      BY <1>1, <3>1
    <3>3. task[t].kind # "deploy"
      <4> SUFFICES ASSUME task[t].kind = "deploy" PROVE FALSE
        OBVIOUS
      <4>0. ~Marks(r, "delete")
        BY <1>1 DEF Marks, Removes
      <4>1. PICK s \in TaskIds : task[s].pc = "uninstalled" \/ task[s].kind = "update"
        BY <1>2, <2>2, <4>0 DEF Calm, InStep
      <4> QED
        BY <1>1, <4>1
    <3> QED
      BY <1>1, <1>2, <3>2, <3>3
  <2>3. \A r \in Rows : row[r].st # "init"
    <3> SUFFICES ASSUME NEW r \in Rows, row[r].st = "init" PROVE FALSE
      OBVIOUS
    <3>1. Live(r)
      BY DEF Live
    <3> QED
      BY <1>1, <1>2, <3>1
  <2> QED
    BY <1>0, <2>1, <2>2, <2>3 DEF InStep
<1> QED
  BY <1>3, <1>4, <1>5, <1>6, <1>7, <1>8 DEF Calm

LEMMA HelmBeginCalm == ASSUME TypeOK, GInv, NEW t \in TaskIds, HelmBegin(t) PROVE GInv'
<1>0. /\ task[t].pc = "helm" /\ Shape /\ (~crossed => Calm)
      /\ row' = row /\ left' = left /\ crossed' = crossed /\ req' = req
  BY DEF GInv, HelmBegin, history
<1>1. CASE HelmAllows(task[t].kind)
  <2> DEFINE n == [task[t] EXCEPT !.pc = "helming"]
  <2>1. task' = [task EXCEPT ![t] = n]
    BY <1>1 DEF HelmBegin
  <2>2. /\ n \in Task /\ n.row = task[t].row /\ n.copy = task[t].copy /\ n.kind = task[t].kind
        /\ n.pc = "helming" /\ n.parent = task[t].parent /\ n.stage = task[t].stage
    BY TaskFields DEF Task
  <2>3. release'.st = "pending" /\ release'.by = t
    BY <1>1 DEF HelmBegin, TypeOK, Release
  <2> HIDE DEF n
  <2>4. task[t].kind \in Installs /\ task[t].stage = "OnInit"
    BY <1>0 DEF Shape, Kinds, KindOK
  <2>5. Shape'
    BY <1>0, <2>1, <2>2, <2>4, MoveShape
  <2>6. ASSUME Calm PROVE Calm'
    BY <1>0, <1>1, <2>1, <2>2, <2>3, <2>6, BeginCalm
  <2> QED
    BY <1>0, <2>5, <2>6 DEF GInv
<1>2. CASE ~HelmAllows(task[t].kind)
  <2>0. Result(t, "Failed") /\ release' = release
    BY <1>2 DEF HelmBegin
  <2>1. PICK n \in Task :
           /\ task' = [task EXCEPT ![t] = n] /\ task'[t] = n
           /\ n.kind = task[t].kind /\ n.row = task[t].row /\ n.parent = task[t].parent
           /\ n.stage = "Failed"
           /\ n.pc = IF task[t].kind = "self" THEN "fetched" ELSE "queued"
    BY <2>0, ResultFields
  <2>2. Shape'
    BY <1>0, <2>1, MoveShape
  <2>3. ASSUME Calm PROVE Calm'
    <3>1. task[t].kind \in {"deploy", "update"} /\ InstallOK(t)
      BY <1>0, <2>3, HelmAlone DEF Calm
    <3>2. InstallOK(t)'
      BY <1>0, <2>0, <2>1, <3>1 DEF InstallOK, Live
    <3>3. RemoveOK(t)'
      BY <2>1, <3>1 DEF RemoveOK
    <3> QED
      BY <1>0, <2>0, <2>1, <2>3, <3>1, <3>2, <3>3, MoveCalm
  <2> QED
    BY <1>0, <2>2, <2>3 DEF GInv
<1> QED
  BY <1>1, <1>2

\* helm ends: the release is what the installation made of it.
LEMMA EndHelmCalm ==
  ASSUME TypeOK, Shape, Calm, NEW t \in TaskIds, NEW n \in Task, task[t].pc = "helming",
         task' = [task EXCEPT ![t] = n], n.kind = task[t].kind, n.row = task[t].row,
         n.stage \in {"Complete", "Failed"}, n.pc = "queued",
         n.stage = "Complete" => release'.st = "deployed" /\ release'.ver = task[t].copy.ver,
         release'.st # "pending", row' = row, req' = req
  PROVE  Calm'
<1>0. task'[t] = n /\ \A s \in TaskIds : s # t => task'[s] = task[s]
  BY DEF TypeOK
<1>1. /\ task[t].kind \in {"deploy", "update"}
      /\ task[t].row \in Rows /\ Live(task[t].row)
      /\ task[t].copy.ver = row[task[t].row].ver
      /\ task[t].kind = "deploy" \/ release.st # "none" => row[task[t].row].enabled
      /\ task[t].kind = "deploy" => row[task[t].row].st # "init"
      /\ \A r \in Rows : Live(r) => r = task[t].row
      /\ \A s \in TaskIds : /\ task[s].kind \notin Removes /\ task[s].pc # "uninstalled"
                            /\ task[s].kind = "update" => s = t
                            /\ task[t].kind = "update" /\ s # t =>
                                 task[s].kind = "none" /\ task[s].pc = "none"
  BY HelmAlone
<1>2. /\ release.st = "pending" /\ release.by = t /\ row[task[t].row].enabled
      /\ row[task[t].row].st # "init"
      /\ \A s \in TaskIds : task[s].pc = "helming" => s = t
  BY <1>1 DEF Calm, Helming, InStep
<1>3. Apart'
  BY <1>0 DEF Calm, Apart
<1>4. Helming'
  BY <1>0, <1>2 DEF Helming
<1>5. ASSUME NEW s \in TaskIds PROVE InstallOK(s)'
  <2>0. InstallOK(s)
    BY DEF Calm
  <2>1. CASE s = t
    BY <1>0, <1>1, <1>2, <2>1 DEF InstallOK, Live
  <2>2. CASE s # t
    <3>1. task'[s] = task[s]
      BY <1>0, <2>2
    <3>2. task[s].kind # "update" /\ task[s].kind # "self"
      BY <1>1, <2>2 DEF Calm, Apart
    <3> QED
      BY <1>1, <1>2, <2>0, <3>1, <3>2 DEF InstallOK, Live, Installs
  <2> QED
    BY <2>1, <2>2
<1>6. \A s \in TaskIds : RemoveOK(s)'
  BY <1>0, <1>1 DEF RemoveOK, Removes
<1>7. Pending'
  BY <1>1, <1>2 DEF Pending, Live
<1>8. InStep'
  <2>1. Found' # {}
    BY <1>1 DEF Found, Live
  <2>2. ASSUME NEW r \in Rows, row[r].st = "deployed"
        PROVE  row[r].enabled /\ task[t].row = r /\ task[t].kind = "update"
    <3>0. ~Marks(r, "delete")
      BY <1>1 DEF Marks, Removes
    <3>1. PICK s \in TaskIds : task[s].pc = "uninstalled" \/ task[s].kind = "update"
      BY <1>2, <2>2, <3>0 DEF Calm, InStep
    <3>2. s = t /\ task[t].kind = "update"
      BY <1>1, <3>1
    <3>3. Live(r)
      BY <2>2 DEF Live
    <3> QED
      BY <1>1, <1>2, <3>2, <3>3
  <2>3. \A r \in Rows : row[r].st # "init"
    BY <1>2 DEF Calm, InStep
  <2> QED
    BY <1>0, <2>1, <2>2, <2>3 DEF InStep
<1> QED
  BY <1>3, <1>4, <1>5, <1>6, <1>7, <1>8 DEF Calm

LEMMA HelmEndCalm == ASSUME TypeOK, GInv, NEW t \in TaskIds, HelmEnd(t) PROVE GInv'
<1>0. /\ task[t].pc = "helming" /\ Shape /\ (~crossed => Calm)
      /\ row' = row /\ left' = left /\ crossed' = crossed /\ req' = req
  BY DEF GInv, HelmEnd, history
<1>1. PICK stage \in {"Complete", "Failed"} :
        /\ Result(t, stage)
        /\ stage = "Complete" /\ release.by = t =>
             release' = [st |-> "deployed", ver |-> task[t].copy.ver, by |-> 0]
        /\ stage = "Failed" =>
             \/ release' = NoRelease
             \/ release.by = t /\ release' = [release EXCEPT !.st = "failed", !.by = 0]
             \/ release.by # t
  BY DEF HelmEnd
<1>2. PICK n \in Task :
         /\ task' = [task EXCEPT ![t] = n] /\ task'[t] = n
         /\ n.kind = task[t].kind /\ n.row = task[t].row /\ n.parent = task[t].parent
         /\ n.stage = stage
         /\ n.pc = IF task[t].kind = "self" THEN "fetched" ELSE "queued"
  BY <1>1, ResultFields
<1>3. Shape'
  BY <1>0, <1>2, MoveShape
<1>4. ASSUME Calm PROVE Calm'
  <2>1. release.by = t
    BY <1>0, <1>4 DEF Calm, Helming
  <2>2. stage = "Complete" => release'.st = "deployed" /\ release'.ver = task[t].copy.ver
    BY <1>1, <2>1
  <2>a. NoRelease.st = "none" /\ [release EXCEPT !.st = "failed", !.by = 0].st = "failed"
    BY DEF NoRelease, TypeOK, Release
  <2>3. stage = "Failed" => release'.st \in {"none", "failed"}
    BY <1>1, <2>1, <2>a
  <2>4. task[t].kind # "self"
    BY <1>4 DEF Calm, Apart
  <2> QED
    BY <1>0, <1>2, <1>4, <2>2, <2>3, <2>4, EndHelmCalm
<1> QED
  BY <1>0, <1>3, <1>4 DEF GInv

LEMMA HelmUnrecordedCalm ==
  ASSUME TypeOK, GInv, NEW t \in TaskIds, HelmUnrecorded(t) PROVE GInv'
<1>0. /\ task[t].pc = "helming" /\ Shape /\ row' = row /\ left' = left /\ crossed' /\ req' = req
  BY DEF GInv, HelmUnrecorded
<1>1. PICK stage \in {"Complete", "Failed"} : Result(t, stage)
  BY DEF HelmUnrecorded
<1>2. PICK n \in Task :
         /\ task' = [task EXCEPT ![t] = n] /\ task'[t] = n
         /\ n.kind = task[t].kind /\ n.row = task[t].row /\ n.parent = task[t].parent
         /\ n.stage = stage
         /\ n.pc = IF task[t].kind = "self" THEN "fetched" ELSE "queued"
  BY <1>1, ResultFields
<1>3. Shape'
  BY <1>0, <1>2, MoveShape
<1> QED
  BY <1>0, <1>3 DEF GInv

\* A task writes the status and ends.
LEMMA WriteShape ==
  ASSUME TypeOK, Shape, NEW t \in TaskIds, NEW stage \in {"Complete", "Failed"}, NEW s,
         s \notin {"init", "none", "gone"}, task[t].pc = "fetched",
         SetStatus(task[t].row, task[t].copy, s), Cleared(task[t].row), EndTask(t, stage),
         req' = req, crossed' = crossed
  PROVE  /\ Shape'
         /\ task[t].row \in Rows
         /\ \A r \in Rows : /\ Live(r)' <=> Live(r)
                            /\ row'[r].ver = row[r].ver /\ row'[r].enabled = row[r].enabled
                            /\ r # task[t].row => row'[r] = row[r]
         /\ row'[task[t].row].st = IF Live(task[t].row) /\ task[t].copy.st # s THEN s
                                   ELSE row[task[t].row].st
<1> DEFINE r0 == task[t].row
<1>1. r0 \in Rows
  BY EndOthers
<1>0. SetStatus(r0, task[t].copy, s) /\ task[t].copy \in Row
  BY TaskFields
<1> HIDE DEF r0
<1>2. /\ \A o \in Rows : o # r0 => row'[o] = row[o]
      /\ row'[r0].enabled = row[r0].enabled /\ row'[r0].ver = row[r0].ver
      /\ row'[r0].st = IF Live(r0) /\ task[t].copy.st # s THEN s ELSE row[r0].st
  BY <1>0, <1>1, StatusRow
<1>3. \A r \in Rows : /\ Live(r)' <=> Live(r)
                      /\ row'[r].ver = row[r].ver /\ row'[r].enabled = row[r].enabled
                      /\ row[r].st # "none" => row'[r].st # "none"
                      /\ row'[r].st = "init" => row[r].st = "init"
  BY <1>1, <1>2 DEF Live
<1>4. Cut'
  BY <1>1, <1>2, <1>3, CutWrite DEF Shape, r0
<1>5. InitOff'
  BY <1>3, MarksEnd DEF Shape, InitOff
<1>6. Shape'
  BY <1>3, <1>4, <1>5, EndShape
<1> QED
  BY <1>1, <1>2, <1>3, <1>6 DEF r0

LEMMA HelmDoneCalm == ASSUME TypeOK, GInv, NEW t \in TaskIds, HelmDone(t) PROVE GInv'
<1> DEFINE r0 == task[t].row
           stage == task[t].stage
           out == Outcome(task[t].kind, stage)
<1>0. /\ task[t].kind \in {"deploy", "update", "self"} /\ stage \in {"Complete", "Failed"}
      /\ task[t].pc = "fetched" /\ Shape /\ (~crossed => Calm)
      /\ SetStatus(task[t].row, task[t].copy, out) /\ Cleared(task[t].row) /\ EndTask(t, stage)
      /\ req' = req /\ crossed' = crossed /\ release' = release
  BY DEF HelmDone, GInv
<1>1. /\ out \in {"deployed", "deploy_fail", "update_fail"}
      /\ out = "deployed" <=> stage = "Complete"
      /\ task[t].kind = "update" /\ stage # "Complete" => out = "update_fail"
  BY DEF Outcome
<1> HIDE DEF out
<1>2. /\ Shape' /\ r0 \in Rows
      /\ \A r \in Rows : /\ Live(r)' <=> Live(r)
                         /\ row'[r].ver = row[r].ver /\ row'[r].enabled = row[r].enabled
                         /\ r # r0 => row'[r] = row[r]
      /\ row'[r0].st = IF Live(r0) /\ task[t].copy.st # out THEN out ELSE row[r0].st
  BY <1>0, <1>1, WriteShape
<1>3. ASSUME Calm PROVE Calm'
  <2>0. task[t].kind \in {"deploy", "update"} /\ InstallOK(t)
    BY <1>0, <1>3 DEF Calm, Apart
  <2>1. Found' = Found
    BY <1>2 DEF Found
  <2>a. \A s \in TaskIds : task[s].kind \notin Removes
    BY <1>3, <2>0 DEF Calm, Apart, Installs
  <2>2. \A s \in TaskIds : task[s].pc # "uninstalled"
    BY <1>0, <2>a DEF Shape, Kinds, KindOK, Removes
  <2>b. \A r \in Rows : ~Marks(r, "delete")
    BY <2>a DEF Marks, Removes
  <2>3. ASSUME NEW r \in Rows, row'[r].st = "deployed"
        PROVE  /\ row'[r].enabled
               /\ \/ release.st = "deployed" /\ release.ver = row'[r].ver
                  \/ \E o \in TaskIds : /\ task'[o].row = r
                                        /\ task'[o].pc = "uninstalled" \/ task'[o].kind = "update"
    <3>1. CASE r = r0 /\ Live(r0) /\ task[t].copy.st # out
      <4>1. stage = "Complete"
        BY <1>1, <1>2, <2>3, <3>1
      <4> QED
        BY <1>2, <2>0, <3>1, <4>1 DEF InstallOK, Installs
    <3>2. CASE ~(r = r0 /\ Live(r0) /\ task[t].copy.st # out)
      <4>1. row[r].st = "deployed" /\ Live(r)
        BY <1>2, <2>3, <3>2 DEF Live
      <4>2. row[r].enabled
        BY <1>3, <2>b, <4>1 DEF Calm, InStep
      <4>3. CASE release.st = "deployed" /\ release.ver = row[r].ver
        BY <1>2, <4>2, <4>3
      <4>4. CASE ~(release.st = "deployed" /\ release.ver = row[r].ver)
        <5>1. PICK s \in TaskIds : /\ task[s].row = r
                                   /\ task[s].pc = "uninstalled" \/ task[s].kind = "update"
          BY <1>3, <2>b, <4>1, <4>4 DEF Calm, InStep
        <5>2. CASE s # t
          BY <1>0, <1>2, <4>2, <5>1, <5>2, EndKeeps
        <5>3. CASE s = t
          <6>1. task[t].kind = "update" /\ r = r0
            BY <2>2, <5>1, <5>3
          <6>2. task[t].copy.st = "deployed" /\ stage # "Complete"
            BY <1>0, <2>0, <4>1, <4>4, <6>1 DEF InstallOK, Installs
          <6>3. FALSE
            BY <1>1, <3>2, <4>1, <6>1, <6>2
          <6> QED
            BY <6>3
        <5> QED
          BY <5>2, <5>3
      <4> QED
        BY <4>3, <4>4
    <3> QED
      BY <3>1, <3>2
  <2>4. \A r \in Rows : row'[r].st = "init" => row[r].st = "init"
    BY <1>1, <1>2
  <2>5. InStep'
    BY <1>0, <1>3, <2>1, <2>3, <2>4 DEF Calm, InStep
  <2>6. task[t].kind \in Installs /\ task[t].kind # "undeploy"
    BY <2>0 DEF Installs
  <2> QED
    BY <1>0, <1>2, <1>3, <2>4, <2>5, <2>6, EndCalm
<1> QED
  BY <1>0, <1>2, <1>3 DEF GInv

\* A removal that failed.
LEMMA FailCalm ==
  ASSUME TypeOK, Shape, Calm, NEW t \in TaskIds, NEW s, s \in {"undeploy_fail", "delete_fail"},
         task[t].kind \in Removes, task[t].pc = "fetched",
         SetStatus(task[t].row, task[t].copy, s), Cleared(task[t].row), EndTask(t, "Failed"),
         req' = req, crossed' = crossed, release' = release
  PROVE  Calm'
<1> DEFINE r0 == task[t].row
<1>1. /\ Shape' /\ r0 \in Rows
      /\ \A r \in Rows : /\ Live(r)' <=> Live(r)
                         /\ row'[r].ver = row[r].ver /\ row'[r].enabled = row[r].enabled
                         /\ r # r0 => row'[r] = row[r]
      /\ row'[r0].st = IF Live(r0) /\ task[t].copy.st # s THEN s ELSE row[r0].st
  BY WriteShape
<1>2. Found' = Found
  BY <1>1 DEF Found
<1>3. \A r \in Rows : row'[r].st \in {"deployed", "init"} => row'[r].st = row[r].st
  BY <1>1
<1>4. ASSUME NEW r \in Rows, row[r].st = "deployed", ~Marks(r, "delete"),
             ~(release.st = "deployed" /\ release.ver = row[r].ver)
      PROVE  \E o \in TaskIds : /\ task'[o].row = r
                                /\ task'[o].pc = "uninstalled" \/ task'[o].kind = "update"
  <2>1. PICK o \in TaskIds : /\ task[o].row = r
                             /\ task[o].pc = "uninstalled" \/ task[o].kind = "update"
    BY <1>4 DEF Calm, InStep
  <2>2. o # t
    BY <2>1 DEF Removes
  <2> QED
    BY <2>1, <2>2, EndKeeps
<1>5. InStep'
  BY <1>1, <1>2, <1>3, <1>4, MarksEnd DEF Calm, InStep
<1> QED
  BY <1>1, <1>3, <1>5, EndCalm

\* helm uninstall: the release is gone, its row is about to say so.
LEMMA UninstallCalm ==
  ASSUME TypeOK, Shape, Calm, NEW t \in TaskIds, NEW n \in Task, Live(task[t].row),
         task[t].kind = "undeploy", task[t].pc = "fetched", release'.st = "none",
         task' = [task EXCEPT ![t] = n], n.kind = task[t].kind, n.row = task[t].row,
         n.copy = task[t].copy, n.pc = "uninstalled", row' = row, req' = req
  PROVE  Calm'
<1>0. /\ task'[t] = n /\ \A s \in TaskIds : s # t => task'[s] = task[s]
      /\ task[t].row \in Rows
  BY DEF TypeOK, Live
<1>1. ASSUME NEW s \in TaskIds
      PROVE  task[s].kind \notin Installs /\ task[s].pc \notin {"helm", "helming"}
  <2>1. task[s].kind \notin Installs
    BY DEF Calm, Apart, Removes
  <2> QED
    BY <2>1 DEF Shape, Kinds, KindOK
<1>2. Apart'
  BY <1>0 DEF Calm, Apart
<1>3. Helming'
  BY <1>0, <1>1 DEF Helming
<1>4. \A s \in TaskIds : InstallOK(s)'
  BY <1>0, <1>1 DEF InstallOK
<1>5. \A s \in TaskIds : RemoveOK(s)'
  BY <1>0 DEF Calm, RemoveOK
<1>6. Pending'
  BY DEF Pending
<1>7. InStep'
  <2>1. ASSUME NEW r \in Rows, row[r].st = "deployed", ~Marks(r, "delete")
        PROVE  row[r].enabled /\ r = task[t].row
    <3>1. Live(r)
      BY <2>1 DEF Live
    <3> QED
      BY <1>0, <2>1, <3>1 DEF Calm, InStep, Shape, OneRow
  <2> QED
    BY <1>0, <2>1, MarksMove DEF InStep
<1> QED
  BY <1>2, <1>3, <1>4, <1>5, <1>6, <1>7 DEF Calm

LEMMA UndeployRunCalm == ASSUME TypeOK, GInv, NEW t \in TaskIds, UndeployRun(t) PROVE GInv'
<1>0. /\ task[t].kind = "undeploy" /\ task[t].pc = "fetched" /\ Shape /\ (~crossed => Calm)
      /\ req' = req /\ crossed' = crossed
  BY DEF GInv, UndeployRun, Stage
<1>1. CASE /\ Live(task[t].row) /\ release' = NoRelease
           /\ task' = [task EXCEPT ![t].pc = "uninstalled"] /\ row' = row /\ left' = left
  <2> DEFINE n == [task[t] EXCEPT !.pc = "uninstalled"]
  <2>1. task' = [task EXCEPT ![t] = n]
    BY <1>1
  <2>2. /\ n \in Task /\ n.row = task[t].row /\ n.copy = task[t].copy /\ n.kind = task[t].kind
        /\ n.pc = "uninstalled" /\ n.parent = task[t].parent
    BY TaskFields DEF Task
  <2>3. release'.st = "none"
    BY <1>1 DEF NoRelease
  <2> HIDE DEF n
  <2>4. Shape'
    BY <1>0, <1>1, <2>1, <2>2, MoveShape
  <2>5. ASSUME Calm PROVE Calm'
    BY <1>0, <1>1, <2>1, <2>2, <2>3, <2>5, UninstallCalm
  <2> QED
    BY <1>0, <2>4, <2>5 DEF GInv
<1>2. CASE /\ SetStatus(task[t].row, task[t].copy, "undeploy_fail")
           /\ Cleared(task[t].row) /\ EndTask(t, "Failed") /\ release' = release
  <2>1. Shape'
    BY <1>0, <1>2, WriteShape
  <2>2. ASSUME Calm PROVE Calm'
    BY <1>0, <1>2, <2>2, FailCalm DEF Removes
  <2> QED
    BY <1>0, <2>1, <2>2 DEF GInv
<1> QED
  BY <1>1, <1>2 DEF UndeployRun

LEMMA UndeployWriteCalm == ASSUME TypeOK, GInv, NEW t \in TaskIds, UndeployWrite(t) PROVE GInv'
<1> DEFINE r0 == task[t].row
           p == [row |-> row[r0], copy |-> task[t].copy]
           u == Undeployed(p).row
<1>0. /\ task[t].pc = "uninstalled" /\ Shape /\ (~crossed => Calm) /\ task[t].kind = "undeploy"
      /\ req' = req /\ crossed' = crossed /\ release' = release
      /\ Stored(r0, Undeployed(p)) /\ Cleared(r0) /\ EndTask(t, "Complete")
  BY DEF GInv, UndeployWrite, Shape, Kinds, KindOK
<1>1. r0 \in Rows /\ row[r0] \in Row /\ task[t].copy \in Row
  BY <1>0, TaskFields DEF Shape, Kinds, KindOK
<1>2. /\ u \in Row /\ u.ver = row[r0].ver
      /\ task[t].copy.st = "init" => u.st = row[r0].st /\ (u.enabled => row[r0].enabled)
      /\ task[t].copy.st # "init" => u.st = "init" /\ ~u.enabled
  BY <1>1, UndeployedRow
<1>3. /\ \A o \in Rows : o # r0 => row'[o] = row[o]
      /\ row'[r0] = IF Live(r0) THEN u ELSE row[r0]
  BY <1>0, <1>1, <1>2, StoredFacts
<1> HIDE DEF p, u, r0
<1>4. \A r \in Rows : /\ Live(r)' <=> Live(r)
                      /\ row'[r].ver = row[r].ver
                      /\ row[r].st # "none" => row'[r].st # "none"
                      /\ row'[r].st = "deployed" => row[r].st = "deployed"
                      /\ row'[r].st = "init" /\ row'[r].enabled =>
                           row[r].st = "init" /\ row[r].enabled
  <2>1. /\ Live(r0) => u.st \notin {"none", "gone"} /\ row'[r0] = u
        /\ ~Live(r0) => row'[r0] = row[r0]
        /\ u.st = "init" /\ u.enabled => row[r0].st = "init" /\ row[r0].enabled
        /\ u.st = "deployed" => row[r0].st = "deployed"
    BY <1>1, <1>2, <1>3 DEF Live
  <2> QED
    BY <1>1, <1>2, <1>3, <2>1 DEF Live
<1>a. \A r \in Rows : \A k \in {"deploy", "delete"} : Marks(r, k) => Marks(r, k)'
  BY <1>0, MarksEnd
<1>5. Cut'
  BY <1>0, <1>1, <1>3, <1>4, CutWrite DEF Shape
<1>b. InitOff'
  BY <1>0, <1>4, <1>a DEF Shape, InitOff
<1>6. Shape'
  BY <1>0, <1>4, <1>5, <1>b, EndShape
<1>7. ASSUME Calm PROVE Calm'
  <2>1. /\ release.st = "none"
        /\ row[r0].st = "deployed" => task[t].copy.st # "init"
    BY <1>0, <1>7 DEF Calm, RemoveOK, r0
  <2>2. ASSUME NEW r \in Rows, row'[r].st = "deployed", ~Marks(r, "delete")'
        PROVE  /\ row'[r].enabled
               /\ \E o \in TaskIds : /\ task'[o].row = r
                                     /\ task'[o].pc = "uninstalled" \/ task'[o].kind = "update"
    <3>1. row[r].st = "deployed" /\ ~Marks(r, "delete")
      BY <1>4, <1>a, <2>2
    <3>2. r # r0
      <4> SUFFICES ASSUME r = r0 PROVE FALSE
        OBVIOUS
      <4>1. Live(r0)
        BY <1>1, <3>1 DEF Live
      <4> QED
        BY <1>2, <1>3, <2>1, <2>2, <3>1, <4>1
    <3>3. row'[r] = row[r]
      BY <1>3, <3>2
    <3>4. PICK o \in TaskIds : /\ task[o].row = r
                               /\ task[o].pc = "uninstalled" \/ task[o].kind = "update"
      BY <1>7, <2>1, <3>1 DEF Calm, InStep
    <3>5. o # t
      BY <3>2, <3>4 DEF r0
    <3> QED
      BY <1>0, <1>7, <3>1, <3>3, <3>4, <3>5, EndKeeps DEF Calm, InStep
  <2>3. InStep'
    BY <1>0, <2>1, <2>2 DEF InStep
  <2>4. task[t].kind \in Removes
    BY <1>0 DEF Removes
  <2> QED
    BY <1>0, <1>4, <1>7, <2>1, <2>3, <2>4, EndCalm
<1> QED
  BY <1>0, <1>6, <1>7 DEF GInv

LEMMA DeleteDoneCalm == ASSUME TypeOK, GInv, NEW t \in TaskIds, DeleteDone(t) PROVE GInv'
<1> DEFINE r0 == task[t].row
<1>0. /\ task[t].kind = "delete" /\ task[t].pc = "fetched" /\ Shape /\ (~crossed => Calm)
      /\ req' = req /\ crossed' = crossed /\ release' = release
      /\ Cleared(r0) /\ EndTask(t, task[t].stage) /\ task[t].stage \in {"Complete", "Failed"}
      /\ r0 \in Rows
  BY TaskFields DEF GInv, DeleteDone, Stage, Shape, Kinds, KindOK
<1>1. CASE task[t].stage = "Complete"
  <2>1. row' = [row EXCEPT ![r0] = [NoRow EXCEPT !.st = "gone"]]
    BY <1>1 DEF DeleteDone
  <2>2. [NoRow EXCEPT !.st = "gone"].st = "gone"
    BY DEF NoRow
  <2> HIDE DEF r0
  <2>3. row'[r0].st = "gone" /\ \A o \in Rows : o # r0 => row'[o] = row[o]
    BY <1>0, <2>1, <2>2 DEF TypeOK
  <2>4. \A r \in Rows : /\ Live(r)' => Live(r) /\ row'[r] = row[r]
                        /\ row[r].st # "none" => row'[r].st # "none"
                        /\ row'[r].st \in {"init", "deployed"} => row'[r] = row[r] /\ r # r0
    BY <1>0, <2>3 DEF Live
  <2>5. Cut'
    BY <1>0, <2>3, <2>4, CutWrite DEF Shape
  <2>a. \A r \in Rows : \A k \in {"deploy", "delete"} : Marks(r, k) => Marks(r, k)'
    BY <1>0, MarksEnd
  <2>b. InitOff'
    BY <1>0, <2>4, <2>a DEF Shape, InitOff
  <2>6. Shape'
    BY <1>0, <2>4, <2>5, <2>b, EndShape
  <2>7. ASSUME Calm PROVE Calm'
    <3>1. release.st = "none"
      BY <1>0, <1>1, <2>7 DEF Calm, RemoveOK
    <3>2. ASSUME NEW r \in Rows, row'[r].st = "deployed", ~Marks(r, "delete")'
          PROVE  /\ row'[r].enabled
                 /\ \E o \in TaskIds : /\ task'[o].row = r
                                       /\ task'[o].pc = "uninstalled" \/ task'[o].kind = "update"
      <4>1. row[r].st = "deployed" /\ row'[r] = row[r] /\ ~Marks(r, "delete")
        BY <2>4, <2>a, <3>2
      <4>2. PICK o \in TaskIds : /\ task[o].row = r
                                 /\ task[o].pc = "uninstalled" \/ task[o].kind = "update"
        BY <2>7, <3>1, <4>1 DEF Calm, InStep
      <4>3. o # t
        BY <1>0, <4>2
      <4> QED
        BY <1>0, <2>7, <4>1, <4>2, <4>3, EndKeeps DEF Calm, InStep
    <3>3. InStep'
      BY <1>0, <3>1, <3>2 DEF InStep
    <3>4. task[t].kind \in Removes
      BY <1>0 DEF Removes
    <3> QED
      BY <1>0, <2>4, <2>7, <3>1, <3>3, <3>4, EndCalm
  <2> QED
    BY <1>0, <2>6, <2>7 DEF GInv
<1>2. CASE task[t].stage = "Failed"
  <2>1. SetStatus(r0, task[t].copy, "delete_fail")
    BY <1>2 DEF DeleteDone
  <2>2. Shape'
    BY <1>0, <2>1, WriteShape
  <2>3. ASSUME Calm PROVE Calm'
    BY <1>0, <1>2, <2>1, <2>3, FailCalm DEF Removes
  <2> QED
    BY <1>0, <2>2, <2>3 DEF GInv
<1> QED
  BY <1>0, <1>1, <1>2

\* A delete starts its undeploy and waits.
LEMMA DeleteInitCalm == ASSUME TypeOK, GInv, NEW t \in TaskIds, DeleteInit(t) PROVE GInv'
<1> DEFINE r0 == task[t].row
<1>0. /\ task[t].kind = "delete" /\ task[t].pc = "fetched" /\ Shape /\ (~crossed => Calm)
      /\ task[t].stage = "OnInit" /\ req' = req /\ crossed' = crossed /\ release' = release
      /\ Cleared(r0) /\ r0 \in Rows /\ SetStatus(r0, task[t].copy, "undeploying")
      /\ task[t].copy \in Row /\ task[t] \in Task
  BY TaskFields DEF GInv, DeleteInit, Stage, Shape, Kinds, KindOK
<1>1. PICK n \in NewIds :
        task' = [task EXCEPT ![t] = [@ EXCEPT !.pc = "waiting", !.copy = NoRow],
                             ![n] = NewTask("undeploy", task[t].row, t)]
  BY DEF DeleteInit
<1>2. n \in TaskIds /\ task[n] = NoTask /\ n # t /\ NoTask.kind = "none" /\ NoTask.parent = 0
      /\ NoTask.pc = "none" /\ NoTask.row \notin Rows /\ t # 0
  BY <1>0, NamesAssumption DEF NewIds, Free, NoTask
<1>3. /\ task'[n] = NewTask("undeploy", r0, t)
      /\ task'[t] = [task[t] EXCEPT !.pc = "waiting", !.copy = NoRow]
      /\ \A s \in TaskIds : s # n /\ s # t => task'[s] = task[s]
  BY <1>1, <1>2 DEF TypeOK
<1>a. \A s \in TaskIds : s # n /\ s # t => task'[s] = task[s]
  BY <1>3
<1>4. /\ task'[n].kind = "undeploy" /\ task'[n].row = r0 /\ task'[n].parent = t
      /\ task'[n].pc = "queued" /\ task'[n].stage = "OnInit"
  BY <1>3, NewTaskFields
<1>5. /\ task'[t].kind = "delete" /\ task'[t].row = r0 /\ task'[t].parent = task[t].parent
      /\ task'[t].pc = "waiting" /\ task'[t].stage = "OnInit"
  BY <1>0, <1>3 DEF Task
<1>6. task[t].parent = 0
  BY <1>0 DEF Shape, Parents
<1> HIDE DEF r0
<1>7. /\ \A o \in Rows : o # r0 => row'[o] = row[o]
      /\ row'[r0].enabled = row[r0].enabled /\ row'[r0].ver = row[r0].ver
      /\ row'[r0].st = IF Live(r0) /\ task[t].copy.st # "undeploying" THEN "undeploying"
                       ELSE row[r0].st
  BY <1>0, StatusRow
<1>8. \A r \in Rows : /\ Live(r)' <=> Live(r)
                      /\ row'[r].ver = row[r].ver /\ row'[r].enabled = row[r].enabled
                      /\ row[r].st # "none" => row'[r].st # "none"
                      /\ row'[r].st \in {"init", "deployed"} => row[r].st = row'[r].st
  BY <1>0, <1>7 DEF Live
<1>b. ASSUME NEW r \in Rows, NEW k \in {"deploy", "delete"}, Marks(r, k)
      PROVE  Marks(r, k)'
  <2>1. PICK s \in TaskIds : /\ task[s].row = r /\ task[s].kind = k
                             /\ task[s].pc = "mark" /\ task[s].copy.st # Marked(k)
    BY <1>b DEF Marks
  <2>2. task'[s] = task[s]
    BY <1>0, <1>2, <1>a, <2>1
  <2> QED
    BY <2>1, <2>2 DEF Marks
<1>9. Shape'
  <2>1. OneRow' /\ Creating'
    BY <1>0, <1>8, ShapeRows DEF Shape
  <2>a. Cut'
    BY <1>0, <1>7, <1>8, CutWrite DEF Shape
  <2>2. InitOff'
    BY <1>0, <1>8, <1>b DEF Shape, InitOff
  <2>3. Used'
    <3>1. row[r0].st # "none"
      BY <1>0 DEF Shape, Used, r0
    <3>2. \A s \in TaskIds : task'[s].row = task[s].row \/ task'[s].row = r0
      BY <1>a, <1>4, <1>5
    <3>3. /\ \A s \in TaskIds : task[s].row \in Rows => row[task[s].row].st # "none"
          /\ \A c \in Callers : req[c].row \in Rows => row[req[c].row].st # "none"
      BY <1>0 DEF Shape, Used
    <3>4. \A s \in TaskIds : task'[s].row \in Rows => row'[task'[s].row].st # "none"
      BY <1>8, <3>1, <3>2, <3>3
    <3> QED
      BY <1>0, <1>8, <3>3, <3>4 DEF Used
  <2>4. Kinds'
    <3> SUFFICES ASSUME NEW s \in TaskIds PROVE KindOK(s)'
      BY DEF Kinds
    <3>1. CASE s = n \/ s = t
      BY <1>0, <1>4, <1>5, <3>1 DEF KindOK
    <3>2. CASE s # n /\ s # t
      BY <1>0, <1>a, <3>2 DEF Shape, Kinds, KindOK
    <3> QED
      BY <3>1, <3>2
  <2>5. Parents'
    <3> SUFFICES ASSUME NEW c \in TaskIds, task'[c].parent # 0
                 PROVE  /\ task'[c].kind = "undeploy"
                        /\ task'[task'[c].parent].kind = "delete"
                        /\ task'[task'[c].parent].pc = "waiting"
                        /\ \A d \in TaskIds : task'[d].parent = task'[c].parent => c = d
      BY DEF Parents
    <3>1. \A d \in TaskIds : task[d].parent # t
      BY <1>0, <1>2 DEF Shape, Parents
    <3>2. CASE c = n
      BY <1>3, <1>4, <1>5, <1>6, <3>1, <3>2
    <3>3. CASE c # n
      <4>1. c # t /\ task'[c] = task[c]
        BY <1>3, <1>5, <1>6, <3>3
      <4>2. task[c].parent \in TaskIds
        BY <4>1 DEF TypeOK, Task
      <4>3. /\ task[c].kind = "undeploy"
            /\ task[task[c].parent].kind = "delete" /\ task[task[c].parent].pc = "waiting"
            /\ \A d \in TaskIds : task[d].parent = task[c].parent => c = d
        BY <1>0, <4>1 DEF Shape, Parents
      <4>4. task[c].parent # n /\ task[c].parent # t
        BY <1>2, <3>1, <4>3
      <4>5. task'[task[c].parent] = task[task[c].parent]
        BY <1>3, <4>2, <4>4
      <4>6. \A d \in TaskIds : d # n => task'[d].parent = task[d].parent
        BY <1>3, <1>5
      <4> QED
        BY <1>4, <4>1, <4>3, <4>4, <4>5, <4>6
    <3> QED
      BY <3>2, <3>3
  <2> QED
    BY <2>1, <2>2, <2>a, <2>3, <2>4, <2>5 DEF Shape
<1>10. ASSUME Calm PROVE Calm'
  <2>1. ASSUME NEW s \in TaskIds
        PROVE  /\ task[s].kind \notin Installs /\ task[s].pc \notin {"helm", "helming"}
               /\ task'[s].kind \notin Installs /\ task'[s].pc \notin {"helm", "helming"}
    <3>1. task[s].kind \notin Installs
      BY <1>0, <1>10 DEF Calm, Apart, Removes
    <3>2. task'[s].kind \notin Installs
      BY <1>3, <1>4, <1>5, <3>1 DEF Installs
    <3> QED
      BY <1>0, <1>9, <3>1, <3>2 DEF Shape, Kinds, KindOK
  <2>2. Apart'
    BY <2>1 DEF Apart, Installs
  <2>3. Helming'
    BY <1>0, <1>10, <2>1 DEF Calm, Helming
  <2>4. \A s \in TaskIds : InstallOK(s)'
    BY <2>1 DEF InstallOK
  <2>5. ASSUME NEW s \in TaskIds PROVE RemoveOK(s)'
    <3>0. RemoveOK(s)
      BY <1>10 DEF Calm
    <3>1. CASE s = n \/ s = t
      BY <1>4, <1>5, <3>1 DEF RemoveOK
    <3>2. CASE s # n /\ s # t
      <4>1. task'[s] = task[s]
        BY <1>3, <3>2
      <4>2. CASE task[s].kind = "undeploy"
        <5>1. task[s].row \in Rows
          BY <1>0, <4>2 DEF Shape, Kinds, KindOK
        <5> QED
          BY <1>0, <1>8, <3>0, <4>1, <5>1 DEF RemoveOK
      <4>3. CASE task[s].kind # "undeploy"
        BY <1>0, <3>0, <4>1, <4>3 DEF RemoveOK
      <4> QED
        BY <4>2, <4>3
    <3> QED
      BY <3>1, <3>2
  <2>6. Pending'
    BY <1>0, <1>8, <1>10 DEF Calm, Pending, Live
  <2>7. InStep'
    <3>1. Found' = Found
      BY <1>8 DEF Found
    <3>2. ASSUME NEW r \in Rows, NEW s \in TaskIds, task[s].row = r,
                 task[s].pc = "uninstalled" \/ task[s].kind = "update"
          PROVE  \E o \in TaskIds : /\ task'[o].row = r
                                    /\ task'[o].pc = "uninstalled" \/ task'[o].kind = "update"
      <4>1. s # t /\ s # n
        BY <1>0, <1>2, <3>2
      <4> QED
        BY <1>3, <3>2, <4>1
    <3>3. ASSUME NEW r \in Rows, row'[r].st = "deployed", ~Marks(r, "delete")'
          PROVE  /\ row'[r].enabled
                 /\ \/ release.st = "deployed" /\ release.ver = row'[r].ver
                    \/ \E o \in TaskIds : /\ task'[o].row = r
                                          /\ task'[o].pc = "uninstalled" \/ task'[o].kind = "update"
      <4>1. row[r].st = "deployed" /\ ~Marks(r, "delete")
        BY <1>8, <1>b, <3>3
      <4> QED
        BY <1>8, <1>10, <3>2, <4>1 DEF Calm, InStep
    <3> QED
      BY <1>0, <1>8, <1>10, <3>1, <3>3 DEF Calm, InStep
  <2> QED
    BY <2>2, <2>3, <2>4, <2>5, <2>6, <2>7 DEF Calm
<1> QED
  BY <1>0, <1>9, <1>10 DEF GInv

------------------------------------------------------------------------------
(* Requests and restarts, while nothing has crossed *)

\* What the first write of a request leaves of its row.
LEMMA ApplyFacts ==
  ASSUME TypeOK, Shape, NEW c \in Callers, Apply(c), NEW n, NEW p, NEW m, ApplyDoes(c, n, p, m)
  PROVE  LET q == req[c]
             r == q.row IN
         /\ q.op \in Ops \cup {"create"}
         /\ \A o \in Rows : /\ Live(o)' <=> Live(o)
                            /\ row'[o].st = row[o].st
         /\ q.op \in {"disable", "update"} => row'[r].enabled = row[r].enabled
         /\ q.op \in {"disable", "delete"} => row'[r].ver = row[r].ver
         /\ q.op = "disable" => row'[r] = row[r]
         /\ q.op = "delete" => row'[r] = row[r] \/ (~row'[r].enabled /\ m.copy.st = row[r].st)
         /\ q.op \in {"enable", "create"} =>
              /\ row'[r].ver = row[r].ver
              /\ row[r].enabled => row'[r].enabled
              /\ Live(r) => row'[r].enabled
              /\ m.copy.st = row[r].st
         /\ q.op = "update" => q.copy.enabled /\ Live(r)
<1>0. PICK r \in Rows : r = req[c].row
  BY DEF ApplyDoes
<1> DEFINE q == req[c]
           w == row[r]
<1>1. /\ q \in Req /\ q.op \in Ops \cup {"create"} /\ w \in Row /\ q.copy \in Row /\ ~Refuses(q)
  BY <1>0, ReqFields DEF Apply, TypeOK
<1>2. /\ p = FirstWrite(q, [row |-> w, copy |-> q.copy]) /\ p.row.st = w.st /\ m.copy = p.copy
      /\ row'[r] = IF Live(r) THEN p.row ELSE w
      /\ \A o \in Rows : o # r => row'[o] = row[o]
  BY <1>0 DEF ApplyDoes
<1>3. /\ q.op \in {"enable", "create"} /\ ~q.copy.enabled =>
           p.row.enabled /\ p.row.ver = w.ver /\ p.copy.st = w.st
      /\ q.op = "disable" => p.row = w
      /\ q.op = "delete" => p.row.ver = w.ver /\ (p.row = w \/ (~p.row.enabled /\ p.copy.st = w.st))
      /\ q.op = "update" => p.row.enabled = w.enabled
  BY <1>1, <1>2, FirstRow
<1>4. q.op \in {"enable", "create"} => ~q.copy.enabled
  BY <1>1 DEF Refuses, Shape, Creating
<1>5. q.op = "update" => q.copy.enabled /\ Live(r)
  BY <1>0, <1>1 DEF Refuses
<1>6. \A o \in Rows : /\ Live(o)' <=> Live(o)
                      /\ row'[o].st = row[o].st
  BY <1>2 DEF Live
<1> QED
  BY <1>0, <1>1, <1>2, <1>3, <1>4, <1>5, <1>6

LEMMA ApplyCalm ==
  ASSUME TypeOK, GInv, NEW c \in Callers, Apply(c)
  PROVE  GInv'
<1>a. PICK n, p, m : ApplyDoes(c, n, p, m)
  BY ApplyDone
<1>r. PICK r \in Rows : r = req[c].row
  BY <1>a DEF ApplyDoes
<1> DEFINE q == req[c]
           kind == TaskOf(q.op)
<1>0. Shape /\ (~crossed => Calm)
  BY DEF GInv
<1>1. /\ q.op \in Ops \cup {"create"}
      /\ \A o \in Rows : /\ Live(o)' <=> Live(o)
                         /\ row'[o].st = row[o].st
      /\ q.op \in {"disable", "update"} => row'[r].enabled = row[r].enabled
      /\ q.op \in {"disable", "delete"} => row'[r].ver = row[r].ver
      /\ q.op = "disable" => row'[r] = row[r]
      /\ q.op = "delete" => row'[r] = row[r] \/ (~row'[r].enabled /\ m.copy.st = row[r].st)
      /\ q.op \in {"enable", "create"} =>
           /\ row'[r].ver = row[r].ver
           /\ row[r].enabled => row'[r].enabled
           /\ Live(r) => row'[r].enabled
           /\ m.copy.st = row[r].st
      /\ q.op = "update" => q.copy.enabled /\ Live(r)
  BY <1>0, <1>a, <1>r, ApplyFacts
<1>2. /\ n \in NewIds /\ m \in Task /\ task' = [task EXCEPT ![n] = m] /\ task'[n] = m
      /\ (\A s \in TaskIds : s # n => task'[s] = task[s])
      /\ m.kind = kind /\ m.row = r /\ m.pc = "mark" /\ m.stage = "OnInit" /\ m.parent = 0
      /\ (\A o \in Rows : o # r => row'[o] = row[o])
      /\ req'[c].op = "none" /\ req'[c].row = 0 /\ (\A d \in Callers : d # c => req'[d] = req[d])
  BY <1>a, <1>r DEF ApplyDoes
<1>3. /\ kind \in {"deploy", "undeploy", "delete", "update"}
      /\ q.op \in {"enable", "create"} <=> kind = "deploy"
      /\ q.op = "disable" <=> kind = "undeploy"
      /\ q.op = "delete" <=> kind = "delete"
      /\ q.op = "update" <=> kind = "update"
  BY <1>1 DEF TaskOf, Ops
<1>4. /\ crossed' = (crossed \/ Crosses(q.op)) /\ release' = release /\ left' = left
  BY DEF Apply
<1>5. n \in TaskIds /\ task[n] = NoTask /\ NoTask.kind = "none" /\ NoTask.pc = "none"
  BY <1>2 DEF NewIds, Free, NoTask
<1>6. task'[n] = m /\ \A s \in TaskIds : s # n => task'[s] = task[s]
  BY <1>2
<1>7. task'[n].kind = kind /\ task'[n].row = r /\ task'[n].pc = "mark" /\ task'[n].stage = "OnInit"
  BY <1>2
<1>c. c = "component" => q.op \in {"enable", "disable"}
  BY <1>0, <1>1 DEF Shape, Creating, Ops
<1> HIDE DEF kind, q
<1>m. \A o \in Rows : \A k \in {"deploy", "delete"} : Marks(o, k) => Marks(o, k)'
  BY <1>2, <1>5, MarksMove
<1>8. Shape'
  <2>0. \A d \in Callers : req'[d] = req[d] \/ (req'[d].row = 0 /\ req'[d].op = "none")
    BY <1>2
  <2>1. OneRow' /\ Creating'
    BY <1>0, <1>1, <2>0, ShapeRows DEF Shape
  <2>2. row[r].st # "none" /\ row'[r].st # "none"
    BY <1>0, <1>1, <1>r DEF Shape, Used
  <2>a. /\ m.kind \in {"deploy", "undeploy", "delete", "update"}
        /\ \A d \in Callers : req'[d] = req[d] \/ req'[d].row = 0
        /\ \A o \in Rows : row[o].st # "none" => row'[o].st # "none"
    BY <1>1, <1>2, <1>3, <2>0
  <2>3. Used' /\ Kinds' /\ Parents'
    BY <1>0, <1>2, <2>a, <2>2, StartShape
  <2>4. Cut'
    BY <1>0, <1>1, <1>4 DEF Shape, Cut, TypeOK
  <2>5. InitOff'
    <3>1. ASSUME NEW o \in Rows, row'[o].st = "init", row'[o].enabled, ~row[o].enabled
          PROVE  Marks(o, "deploy")'
      <4>1. o = r
        BY <1>2, <3>1
      <4>2. kind = "deploy"
        BY <1>1, <1>3, <3>1, <4>1
      <4>3. m.copy.st # Marked("deploy")
        BY <1>1, <1>3, <3>1, <4>1, <4>2 DEF Marked
      <4> QED
        BY <1>2, <1>5, <4>1, <4>2, <4>3 DEF Marks
    <3> QED
      BY <1>0, <1>1, <1>4, <1>m, <3>1 DEF Shape, InitOff
  <2> QED
    BY <2>1, <2>3, <2>4, <2>5 DEF Shape
<1>9. ASSUME Calm, ~Crosses(q.op) PROVE Calm'
  <2>1. \A s \in TaskIds : /\ kind \in Removes => task[s].kind \notin Installs
                           /\ kind \in Installs => task[s].kind \notin Removes /\ task[s].kind # "update"
                           /\ kind = "update" => task[s].kind \notin Installs
                           /\ task[s].kind # "self"
    BY <1>3, <1>9 DEF Crosses, Running, Installs, Removes, Calm, Apart
  <2>2. Apart'
    <3>1. ASSUME NEW s \in TaskIds, kind = "update", s # n PROVE task[s].kind = "none"
      BY <1>9, <2>1, <3>1 DEF TypeOK, Task, Installs, Removes
    <3>2. \A s, t \in TaskIds : task'[s].kind = "update" /\ s # t => task'[t].kind = "none"
      <4> SUFFICES ASSUME NEW s \in TaskIds, NEW t \in TaskIds, task'[s].kind = "update", s # t
                   PROVE  task'[t].kind = "none"
        OBVIOUS
      <4>1. CASE s = n
        BY <1>6, <1>7, <3>1, <4>1
      <4>2. CASE s # n
        <5>1. task[s].kind = "update"
          BY <1>6, <4>2
        <5>2. kind \notin Installs /\ kind \notin Removes
          BY <2>1, <5>1 DEF Installs
        <5> QED
          BY <1>3, <5>2 DEF Installs, Removes
      <4> QED
        BY <4>1, <4>2
    <3>3. \A s, t \in TaskIds : task'[s].kind \in Installs => task'[t].kind \notin Removes
      <4> SUFFICES ASSUME NEW s \in TaskIds, NEW t \in TaskIds, task'[s].kind \in Installs,
                          task'[t].kind \in Removes
                   PROVE  FALSE
        OBVIOUS
      <4>1. s # t
        BY DEF Installs, Removes
      <4>2. CASE s = n
        BY <1>6, <1>7, <2>1, <4>1, <4>2
      <4>3. CASE t = n
        BY <1>6, <1>7, <2>1, <4>1, <4>3
      <4>4. CASE s # n /\ t # n
        BY <1>6, <1>9, <4>4 DEF Calm, Apart
      <4> QED
        BY <4>2, <4>3, <4>4
    <3>4. \A t \in TaskIds : task'[t].kind # "self"
      BY <1>3, <1>6, <1>7, <2>1
    <3> QED
      BY <3>2, <3>3, <3>4 DEF Apart
  <2>3. Helming'
    <3>1. \A s \in TaskIds : task'[s].pc = "helming" <=> task[s].pc = "helming"
      BY <1>5, <1>6, <1>7
    <3> QED
      BY <1>4, <1>9, <3>1 DEF Calm, Helming
  <2>p. kind = "update" => row[r].enabled \/ release.st = "none"
    <3>1. kind = "update" => c = "cluster"
      BY <1>3, <1>c DEF Callers
    <3> QED
      BY <1>1, <1>3, <1>9, <1>r, <3>1 DEF Calm, Pending, q
  <2>4. ASSUME NEW s \in TaskIds PROVE InstallOK(s)'
    <3>0. InstallOK(s)
      BY <1>9 DEF Calm
    <3>1. CASE s = n
      <4>1. kind = "deploy" /\ Live(r) => row'[r].enabled
        BY <1>1, <1>3
      <4>2. kind = "update" /\ release.st # "none" => row'[r].enabled
        BY <1>1, <1>3, <2>p
      <4>3. Live(r)' <=> Live(r)
        BY <1>1
      <4>4. task'[s].row = r /\ task'[s].kind = kind /\ task'[s].pc = "mark" /\ task'[s].stage = "OnInit"
            /\ kind # "self" /\ task'[s].copy = m.copy
        BY <1>2, <1>3, <1>7, <3>1
      <4>7. kind = "deploy" /\ row'[r].st = "init" => m.copy.st # "deploying"
        BY <1>1, <1>3
      <4>5. kind \in Installs => kind \in {"deploy", "update"}
        BY <4>4 DEF Installs
      <4>6. Live(task[s].row)' <=> Live(r)'
        BY <4>4 DEF Live
      <4> QED
        BY <1>4, <4>1, <4>2, <4>3, <4>4, <4>5, <4>6, <4>7 DEF InstallOK
    <3>2. CASE s # n /\ task[s].kind \in Installs
      <4>1. kind = "deploy" /\ task[s].kind = "deploy" /\ task'[s] = task[s] /\ task[s].row \in Rows
        BY <1>0, <1>3, <1>6, <2>1, <3>2 DEF Installs, Removes, Shape, Kinds, KindOK
      <4>2. /\ Live(task[s].row)' <=> Live(task[s].row)
            /\ row'[task[s].row].ver = row[task[s].row].ver
            /\ row[task[s].row].enabled => row'[task[s].row].enabled
            /\ row'[task[s].row].st = row[task[s].row].st
        <5>1. \A o \in Rows : /\ Live(o)' <=> Live(o)
                              /\ row'[o].ver = row[o].ver
                              /\ row[o].enabled => row'[o].enabled
                              /\ row'[o].st = row[o].st
          BY <1>1, <1>2, <1>3, <4>1
        <5>2. Live(task[s].row)' <=> Live(task[s].row)
          BY <4>1, <5>1 DEF Live
        <5> QED
          BY <4>1, <5>1, <5>2
      <4> QED
        BY <1>4, <3>0, <4>1, <4>2 DEF InstallOK
    <3>3. CASE s # n /\ task[s].kind \notin Installs
      BY <1>0, <1>6, <3>3 DEF InstallOK, Shape, Kinds, KindOK
    <3> QED
      BY <3>1, <3>2, <3>3
  <2>5. ASSUME NEW s \in TaskIds PROVE RemoveOK(s)'
    <3>0. RemoveOK(s)
      BY <1>9 DEF Calm
    <3>1. CASE s = n
      BY <1>7, <3>1 DEF RemoveOK
    <3>2. CASE s # n /\ task[s].kind = "undeploy"
      <4>1. task'[s] = task[s] /\ task[s].row \in Rows
        BY <1>0, <1>6, <3>2 DEF Shape, Kinds, KindOK
      <4>2. row'[task[s].row].st = "deployed" => row[task[s].row].st = "deployed"
        BY <1>1, <4>1
      <4> QED
        BY <1>4, <3>0, <4>1, <4>2 DEF RemoveOK
    <3>3. CASE s # n /\ task[s].kind # "undeploy"
      BY <1>4, <1>6, <3>0, <3>3 DEF RemoveOK
    <3> QED
      BY <3>1, <3>2, <3>3
  <2>6. Pending'
    <3>1. CASE c = "cluster"
      BY <1>2, <3>1 DEF Pending
    <3>2. CASE c = "component"
      <4> DEFINE w == req["cluster"]
      <4>1. req'["cluster"] = w
        BY <1>2, <3>2 DEF Callers
      <4>2. \A o \in Rows : (Live(o)' <=> Live(o)) /\ (row[o].enabled => row'[o].enabled)
        BY <1>1, <1>2, <1>c, <3>2
      <4>3. Live(w.row)' => w.row \in Rows /\ Live(w.row)
        BY <4>2, <4>1 DEF Live
      <4> SUFFICES ASSUME w.op = "update", w.copy.enabled, Live(w.row)', release.st # "none"
                   PROVE  row'[w.row].enabled
        BY <1>4, <4>1 DEF Pending, Live
      <4> QED
        BY <1>9, <4>2, <4>3 DEF Calm, Pending
    <3> QED
      BY <3>1, <3>2 DEF Callers
  <2>7. InStep'
    <3>1. Found' = Found
      BY <1>1 DEF Found
    <3>2. ASSUME NEW o \in Rows, NEW s \in TaskIds, task[s].row = o,
                 task[s].pc = "uninstalled" \/ task[s].kind = "update"
          PROVE  \E x \in TaskIds : /\ task'[x].row = o
                                    /\ task'[x].pc = "uninstalled" \/ task'[x].kind = "update"
      <4>1. s # n
        BY <1>5, <3>2
      <4> QED
        BY <1>6, <3>2, <4>1
    <3>3. ASSUME NEW o \in Rows, row[o].st = "deployed"
          PROVE  \/ row'[o] = row[o]
                 \/ o = r /\ kind = "deploy" /\ row'[r].enabled /\ row'[r].ver = row[r].ver
                 \/ o = r /\ kind = "update" /\ row'[r].enabled = row[r].enabled
                 \/ Marks(o, "delete")'
      <4> SUFFICES ASSUME o = r
                   PROVE  \/ row'[r] = row[r]
                          \/ kind = "deploy" /\ row'[r].enabled /\ row'[r].ver = row[r].ver
                          \/ kind = "update" /\ row'[r].enabled = row[r].enabled
                          \/ Marks(r, "delete")'
        BY <1>2
      <4>1. CASE kind = "delete" /\ m.copy.st = row[r].st
        BY <1>2, <1>5, <3>3, <4>1 DEF Marks, Marked
      <4>2. Live(r)
        BY <3>3 DEF Live
      <4> QED
        BY <1>1, <1>3, <4>1, <4>2
    <3>4. ASSUME NEW o \in Rows, row'[o].st = "deployed", ~Marks(o, "delete")'
          PROVE  /\ row'[o].enabled
                 /\ \/ release.st = "deployed" /\ release.ver = row'[o].ver
                    \/ \E x \in TaskIds : /\ task'[x].row = o
                                          /\ task'[x].pc = "uninstalled" \/ task'[x].kind = "update"
      <4>1. row[o].st = "deployed" /\ ~Marks(o, "delete")
        BY <1>1, <1>m, <3>4
      <4>2. /\ row[o].enabled
            /\ \/ release.st = "deployed" /\ release.ver = row[o].ver
               \/ \E x \in TaskIds : /\ task[x].row = o
                                     /\ task[x].pc = "uninstalled" \/ task[x].kind = "update"
        BY <1>9, <4>1 DEF Calm, InStep
      <4>3. CASE o = r /\ kind = "update" /\ row'[r].enabled = row[r].enabled
        BY <1>5, <1>7, <4>2, <4>3
      <4>4. CASE row'[o] = row[o]
        BY <3>2, <4>2, <4>4
      <4>5. CASE o = r /\ kind = "deploy" /\ row'[r].enabled /\ row'[r].ver = row[r].ver
        BY <3>2, <4>2, <4>5
      <4> QED
        BY <3>3, <3>4, <4>1, <4>3, <4>4, <4>5
    <3> QED
      BY <1>1, <1>4, <1>9, <3>1, <3>4 DEF Calm, InStep
  <2> QED
    BY <2>2, <2>3, <2>4, <2>5, <2>6, <2>7 DEF Calm
<1> QED
  BY <1>0, <1>4, <1>8, <1>9 DEF GInv

LEMMA CreateCalm == ASSUME TypeOK, GInv, NEW c \in Callers, Create(c) PROVE GInv'
<1>0. Shape /\ (~crossed => Calm)
  BY DEF GInv
<1>a. PICK r : CreateDoes(c, r)
  BY CreateDone
<1>2. /\ r \in Rows /\ row[r].st = "none" /\ row'[r].st = "init" /\ ~row'[r].enabled
      /\ (\A o \in Rows : o # r => row'[o] = row[o])
      /\ (\A d \in Callers : d # c => req'[d] = req[d])
      /\ req'[c].op = "create" /\ req'[c].row = r /\ ~req'[c].copy.enabled
  BY <1>a DEF CreateDoes
<1>3. c = "cluster" /\ Found = {}
  BY <1>0 DEF Shape, Creating, Create
<1>4. \A o \in Rows : /\ ~Live(o)
                      /\ Live(o)' <=> o = r
                      /\ row[o].st # "none" => row'[o].st # "none"
                      /\ row'[o].st # "deployed" /\ (row'[o].st = "init" => o = r)
  BY <1>2, <1>3 DEF Found, Live
<1>5. crossed' = crossed /\ release' = release /\ left' = left /\ task' = task
  BY DEF Create, history
<1>6. \A s \in TaskIds : task[s].row # r
  BY <1>0, <1>2 DEF Shape, Used
<1>9. Shape'
  <2>1. OneRow'
    BY <1>4 DEF OneRow
  <2>2. Creating'
    BY <1>0, <1>2, <1>3 DEF Shape, Creating, Callers
  <2>3. Used'
    BY <1>0, <1>2, <1>4, <1>5 DEF Shape, Used
  <2>6. Kinds' /\ Parents'
    BY <1>0, <1>5 DEF Shape, Kinds, KindOK, Parents
  <2>4. Cut'
    BY <1>0, <1>2, <1>5 DEF Shape, Cut, TypeOK
  <2>5. InitOff'
    BY <1>2, <1>4 DEF InitOff
  <2> QED
    BY <2>1, <2>2, <2>3, <2>4, <2>5, <2>6 DEF Shape
<1>10. ASSUME Calm PROVE Calm'
  <2>2. release.st = "none"
    BY <1>3, <1>10 DEF Calm, InStep
  <2>3. Apart' /\ Helming'
    BY <1>5, <1>10 DEF Calm, Apart, Helming
  <2>5. ASSUME NEW s \in TaskIds PROVE InstallOK(s)'
    <3>1. ~Live(task[s].row) /\ ~Live(task[s].row)'
      BY <1>4, <1>5, <1>6 DEF Live
    <3> QED
      BY <1>5, <1>10, <3>1 DEF Calm, InstallOK
  <2>6. ASSUME NEW s \in TaskIds PROVE RemoveOK(s)'
    <3>1. RemoveOK(s)
      BY <1>10 DEF Calm
    <3>2. task[s].kind = "undeploy" => row'[task[s].row].st # "deployed"
      BY <1>0, <1>4 DEF Shape, Kinds, KindOK
    <3> QED
      BY <1>5, <3>1, <3>2 DEF RemoveOK
  <2>7. Pending'
    BY <1>2, <1>3 DEF Pending
  <2>8. InStep'
    <3>1. Found' # {}
      BY <1>2, <1>4 DEF Found
    <3> QED
      BY <1>4, <1>5, <2>2, <3>1 DEF InStep
  <2> QED
    BY <2>3, <2>5, <2>6, <2>7, <2>8 DEF Calm
<1> QED
  BY <1>0, <1>5, <1>9, <1>10 DEF GInv

\* The second write of a request and its task.
LEMMA MarkCalm == ASSUME TypeOK, GInv, NEW t \in TaskIds, Mark(t) PROVE GInv'
<1>0. Shape /\ (~crossed => Calm)
  BY DEF GInv
<1>1. /\ task[t].pc = "mark" /\ task[t].kind \in {"deploy", "undeploy", "delete", "update"}
      /\ task[t].row \in Rows /\ task[t] \in Task /\ task[t].copy \in Row
  BY <1>0, TaskFields DEF Mark, Shape, Kinds, KindOK
<1>2. PICK r \in Rows : r = task[t].row
  BY <1>1
<1> DEFINE k == task[t].kind
           c == task[t].copy
           n == NewTask(k, r, 0)
<1>3. /\ SetStatus(r, c, Marked(k)) /\ Cleared(r) /\ task' = [task EXCEPT ![t] = n]
      /\ release' = release /\ crossed' = crossed
      /\ \A d \in Callers : req'[d] = req[d] \/ req'[d] = NoReq
  BY <1>2 DEF Mark
<1>4. /\ n.kind = k /\ n.row = r /\ n.parent = 0 /\ n.pc = "queued" /\ n.stage = "OnInit"
  BY NewTaskFields
<1>5. task'[t] = n /\ \A s \in TaskIds : s # t => task'[s] = task[s]
  BY <1>3 DEF TypeOK
<1>6. /\ \A o \in Rows : o # r => row'[o] = row[o]
      /\ row'[r] = IF Live(r) /\ c.st # Marked(k) THEN [row[r] EXCEPT !.st = Marked(k)] ELSE row[r]
      /\ row'[r].enabled = row[r].enabled /\ row'[r].ver = row[r].ver
      /\ row'[r].st = IF Live(r) /\ c.st # Marked(k) THEN Marked(k) ELSE row[r].st
  BY <1>1, <1>3, StatusRow
<1>7. Marked(k) \in Transient
  BY MarkedType
<1> HIDE DEF n
<1>8. \A o \in Rows : /\ Live(o)' <=> Live(o)
                      /\ row[o].st # "none" => row'[o].st # "none"
                      /\ row'[o].enabled = row[o].enabled /\ row'[o].ver = row[o].ver
                      /\ row'[o].st \in {"init", "deployed"} => row'[o] = row[o]
  <2>1. /\ Live(r)' <=> Live(r)
        /\ row[r].st # "none" => row'[r].st # "none"
        /\ row'[r].st \in {"init", "deployed"} => row'[r] = row[r]
    BY <1>6, <1>7 DEF Live, Transient
  <2>2. \A o \in Rows : o # r => (Live(o)' <=> Live(o))
    BY <1>6 DEF Live
  <2> QED
    BY <1>6, <2>1, <2>2
\* The witness of a row that stays as it is was not this one.
<1>9. ASSUME NEW o \in Rows, row'[o].st \in {"init", "deployed"}, NEW j \in {"deploy", "delete"},
             Marks(o, j)
      PROVE  Marks(o, j)'
  <2>1. PICK s \in TaskIds : /\ task[s].row = o /\ task[s].kind = j
                             /\ task[s].pc = "mark" /\ task[s].copy.st # Marked(j)
    BY <1>9 DEF Marks
  <2>2. s # t
    <3> SUFFICES ASSUME s = t PROVE FALSE
      OBVIOUS
    <3>1. o = r /\ j = k /\ c.st # Marked(k)
      BY <1>2, <2>1
    <3>2. Live(r)
      BY <1>8, <1>9, <3>1 DEF Live
    <3>3. row'[r].st = Marked(k)
      BY <1>6, <3>1, <3>2
    <3> QED
      BY <1>7, <1>9, <3>1, <3>3 DEF Transient
  <2> QED
    BY <1>5, <2>1, <2>2 DEF Marks
<1>10. Shape'
  <2>0. NoReq.op = "none" /\ NoReq.row \notin Rows
    BY NamesAssumption DEF NoReq
  <2>1. OneRow' /\ Creating'
    BY <1>0, <1>3, <1>8, <2>0, ShapeRows DEF Shape
  <2>2. Used'
    BY <1>0, <1>2, <1>3, <1>4, <1>5, <1>8, <2>0 DEF Shape, Used
  <2>3. Kinds'
    BY <1>0, <1>1, <1>2, <1>4, <1>5 DEF Shape, Kinds, KindOK
  <2>4. Parents'
    <3> SUFFICES ASSUME NEW d \in TaskIds, task'[d].parent # 0
                 PROVE  /\ task'[d].kind = "undeploy"
                        /\ task'[task'[d].parent].kind = "delete"
                        /\ task'[task'[d].parent].pc = "waiting"
                        /\ \A x \in TaskIds : task'[x].parent = task'[d].parent => d = x
      BY DEF Parents
    <3>1. d # t /\ task'[d] = task[d]
      BY <1>4, <1>5
    <3>2. task[d].parent \in TaskIds
      BY <3>1 DEF TypeOK, Task
    <3>3. /\ task[d].kind = "undeploy"
          /\ task[task[d].parent].kind = "delete" /\ task[task[d].parent].pc = "waiting"
          /\ \A x \in TaskIds : task[x].parent = task[d].parent => d = x
      BY <1>0, <3>1 DEF Shape, Parents
    <3>4. task[d].parent # t
      BY <1>1, <3>3
    <3> QED
      BY <1>4, <1>5, <3>1, <3>2, <3>3, <3>4
  <2>5. Cut'
    BY <1>0, <1>3, <1>6, <1>8, CutWrite DEF Shape
  <2>6. InitOff'
    BY <1>0, <1>3, <1>8, <1>9 DEF Shape, InitOff
  <2> QED
    BY <2>1, <2>2, <2>3, <2>4, <2>5, <2>6 DEF Shape
<1>11. ASSUME Calm PROVE Calm'
  <2>1. \A s \in TaskIds : task'[s].kind = task[s].kind /\ task'[s].row = task[s].row
    BY <1>2, <1>4, <1>5
  <2>2. Apart'
    BY <1>11, <2>1 DEF Calm, Apart
  <2>3. Helming'
    BY <1>1, <1>3, <1>4, <1>5, <1>11 DEF Calm, Helming
  <2>4. ASSUME NEW s \in TaskIds PROVE InstallOK(s)'
    <3>0. InstallOK(s)
      BY <1>11 DEF Calm
    <3>1. CASE s = t
      <4>1. Live(r)' <=> Live(r)
        BY <1>8
      <4>2. k = "deploy" /\ Live(r) /\ row[r].st = "init" => row'[r].st # "init"
        BY <1>1, <1>2, <1>6, <3>0, <3>1 DEF InstallOK, Marked, Installs
      <4>3. k = "deploy" /\ Live(r) => row'[r].enabled /\ row'[r].st # "init"
        BY <1>2, <1>8, <3>0, <3>1, <4>2 DEF InstallOK, Installs
      <4>4. k \in Installs /\ Live(r) /\ release.st # "none" => row'[r].enabled
        BY <1>2, <1>8, <3>0, <3>1 DEF InstallOK
      <4>5. Live(task[s].row)' <=> Live(r)'
        BY <1>4, <1>5, <3>1 DEF Live
      <4> QED
        BY <1>3, <1>4, <1>5, <3>1, <4>1, <4>3, <4>4, <4>5 DEF InstallOK
    <3>2. CASE s # t /\ task[s].kind \in Installs
      <4>1. task'[s] = task[s] /\ task[s].row \in Rows /\ task[s].kind # "update"
        BY <1>0, <1>1, <1>5, <1>11, <3>2 DEF Installs, Shape, Kinds, KindOK, Calm, Apart
      <4>2. Live(task[s].row)' <=> Live(task[s].row)
        BY <1>8, <4>1 DEF Live
      <4> QED
        BY <1>3, <1>8, <3>0, <4>1, <4>2 DEF InstallOK
    <3>3. CASE s # t /\ task[s].kind \notin Installs
      BY <1>0, <1>5, <3>3 DEF InstallOK, Shape, Kinds, KindOK
    <3> QED
      BY <3>1, <3>2, <3>3
  <2>5. ASSUME NEW s \in TaskIds PROVE RemoveOK(s)'
    <3>0. RemoveOK(s)
      BY <1>11 DEF Calm
    <3>1. CASE s = t
      BY <1>4, <1>5, <3>1 DEF RemoveOK
    <3>2. CASE s # t /\ task[s].kind = "undeploy"
      <4>1. task'[s] = task[s] /\ task[s].row \in Rows
        BY <1>0, <1>5, <3>2 DEF Shape, Kinds, KindOK
      <4> QED
        BY <1>3, <1>8, <3>0, <4>1 DEF RemoveOK
    <3>3. CASE s # t /\ task[s].kind # "undeploy"
      BY <1>3, <1>5, <3>0, <3>3 DEF RemoveOK
    <3> QED
      BY <3>1, <3>2, <3>3
  <2>6. Pending'
    <3> DEFINE q == req["cluster"]
    <3>1. req'["cluster"] = q \/ req'["cluster"].op = "none"
      BY <1>3 DEF Callers, NoReq
    <3>2. CASE req'["cluster"] = q
      <4> SUFFICES ASSUME q.op = "update", q.copy.enabled, Live(q.row)', release.st # "none"
                   PROVE  row'[q.row].enabled
        BY <1>3, <3>2 DEF Pending, Live
      <4>1. q.row \in Rows
        BY <3>2 DEF Live
      <4>2. Live(q.row)
        BY <1>8, <4>1, <3>2 DEF Live
      <4> QED
        BY <1>8, <1>11, <4>1, <4>2 DEF Calm, Pending
    <3>3. CASE req'["cluster"].op = "none"
      BY <3>3 DEF Pending
    <3> QED
      BY <3>1, <3>2, <3>3
  <2>7. InStep'
    <3>1. Found' = Found
      BY <1>8 DEF Found
    <3>2. ASSUME NEW o \in Rows, NEW s \in TaskIds, task[s].row = o,
                 task[s].pc = "uninstalled" \/ task[s].kind = "update"
          PROVE  \E x \in TaskIds : /\ task'[x].row = o
                                    /\ task'[x].pc = "uninstalled" \/ task'[x].kind = "update"
      <4>1. task'[s].pc = task[s].pc \/ (s = t /\ task[s].kind = "update")
        BY <1>1, <1>5, <3>2
      <4> QED
        BY <2>1, <3>2, <4>1
    <3>3. ASSUME NEW o \in Rows, row'[o].st = "deployed", ~Marks(o, "delete")'
          PROVE  /\ row'[o].enabled
                 /\ \/ release.st = "deployed" /\ release.ver = row'[o].ver
                    \/ \E x \in TaskIds : /\ task'[x].row = o
                                          /\ task'[x].pc = "uninstalled" \/ task'[x].kind = "update"
      <4>1. row'[o] = row[o] /\ ~Marks(o, "delete")
        BY <1>8, <1>9, <3>3
      <4> QED
        BY <1>11, <3>2, <3>3, <4>1 DEF Calm, InStep
    <3> QED
      BY <1>3, <1>8, <1>11, <3>1, <3>3 DEF Calm, InStep
  <2> QED
    BY <2>2, <2>3, <2>4, <2>5, <2>6, <2>7 DEF Calm
<1> QED
  BY <1>0, <1>3, <1>10, <1>11 DEF GInv

LEMMA TaskGInv == ASSUME TypeOK, GInv, NEW t \in TaskIds, TaskStep(t) PROVE GInv'
  BY FetchCalm, Init2HelmCalm, HelmBeginCalm, HelmEndCalm, HelmUnrecordedCalm,
     HelmDoneCalm, UndeployRunCalm, UndeployWriteCalm, DeleteInitCalm, DeleteDoneCalm, MarkCalm DEF TaskStep

\* Only the requests change.
LEMMA ReqGInv ==
  ASSUME TypeOK, GInv, row' = row, task' = task, release' = release,
         crossed => crossed', Creating', Cut',
         \A c \in Callers : req'[c].row \in Rows => row[req'[c].row].st # "none",
         Calm => Pending'
  PROVE  GInv'
<1>0. Shape /\ (~crossed => Calm)
  BY DEF GInv
<1>1. Shape'
  BY <1>0 DEF Shape, OneRow, Used, Kinds, KindOK, Parents, InitOff, Marks, Live
<1>2. ASSUME Calm PROVE Calm'
  <2>1. Apart' /\ Helming' /\ InStep'
    BY <1>2 DEF Calm, Apart, Helming, InStep, Marks, Found, Live
  <2>2. \A t \in TaskIds : InstallOK(t)' /\ RemoveOK(t)'
    BY <1>2 DEF Calm, InstallOK, RemoveOK, Live
  <2> QED
    BY <1>2, <2>1, <2>2 DEF Calm
<1> QED
  BY <1>0, <1>1, <1>2 DEF GInv

LEMMA RequestCalm ==
  ASSUME TypeOK, GInv, NEW c \in Callers, NEW op \in Ops, NEW v, NEW force, Request(c, op, v, force)
  PROVE  GInv'
<1>0. row' = row /\ task' = task /\ release' = release /\ crossed' = crossed /\ left' = left
  BY DEF Request, history
<1>1. PICK r \in IF Found # {} THEN Found ELSE {0} :
        /\ r = 0 => c = "cluster" /\ op = "enable"
        /\ req' = [req EXCEPT ![c] =
                    [op |-> op, row |-> r, copy |-> IF r = 0 THEN NoRow ELSE row[r],
                     ver |-> v, force |-> force, task |-> 0]]
  BY DEF Request
<1>2. /\ c = "component" => op \in {"enable", "disable"}
      /\ Shape
  BY DEF Request, GInv
<1>3. /\ req'[c].op = op /\ req'[c].row = r /\ req'[c].copy = IF r = 0 THEN NoRow ELSE row[r]
      /\ \A d \in Callers : d # c => req'[d] = req[d]
  BY <1>1 DEF TypeOK
<1>4. r \in Rows => Live(r)
  BY <1>1, NamesAssumption DEF Found
<1>5. r = 0 => Found = {}
  BY <1>1, NamesAssumption DEF Found
<1>6. Found' = Found
  BY <1>0 DEF Found, Live
<1>7. Creating'
  BY <1>1, <1>2, <1>3, <1>5, <1>6 DEF Shape, Creating, Ops
<1>8. \A d \in Callers : req'[d].row \in Rows => row[req'[d].row].st # "none"
  BY <1>2, <1>3, <1>4 DEF Shape, Used, Live
<1>9. ASSUME Calm PROVE Pending'
  <2>1. CASE c = "cluster"
    <3>1. r # 0 => req'["cluster"].copy.enabled = row[r].enabled /\ req'["cluster"].row = r
      BY <1>3, <2>1
    <3>2. r = 0 => req'["cluster"].op = "enable"
      BY <1>1, <1>3, <2>1
    <3> QED
      BY <1>0, <3>1, <3>2 DEF Pending, Live
  <2>2. CASE c # "cluster"
    <3>1. req'["cluster"] = req["cluster"]
      BY <1>3, <2>2 DEF Callers
    <3> QED
      BY <1>0, <1>9, <3>1 DEF Calm, Pending, Live
  <2> QED
    BY <2>1, <2>2
<1>10. Cut'
  BY <1>0, <1>2 DEF Shape, Cut
<1> QED
  BY <1>0, <1>7, <1>8, <1>9, <1>10, ReqGInv

LEMMA RefuseCalm == ASSUME TypeOK, GInv, NEW c \in Callers, Refuse(c) PROVE GInv'
<1>0. row' = row /\ task' = task /\ release' = release /\ crossed' = crossed /\ left' = left
  BY DEF Refuse, history
<1>1. \A d \in Callers : req'[d] = req[d] \/ req'[d] = NoReq
  BY DEF Refuse, TypeOK
<1>2. Shape
  BY DEF GInv
<1>5. NoReq.row \notin Rows /\ NoReq.op = "none"
  BY NamesAssumption DEF NoReq
<1>3. Creating'
  <2>1. \A r \in Rows : Live(r)' => Live(r)
    BY <1>0 DEF Live
  <2>2. \A d \in Callers : req'[d] = req[d] \/ req'[d].op = "none"
    BY <1>1, <1>5
  <2> QED
    BY <1>2, <2>1, <2>2, ShapeRows DEF Shape
<1>4. Cut'
  BY <1>0, <1>2 DEF Shape, Cut
<1>6. \A d \in Callers : req'[d].row \in Rows => row[req'[d].row].st # "none"
  BY <1>1, <1>2, <1>5 DEF Shape, Used
<1>7. Calm => Pending'
  <2>1. req'["cluster"] = req["cluster"] \/ req'["cluster"] = NoReq
    BY <1>1 DEF Callers
  <2> QED
    BY <1>0, <1>5, <2>1 DEF Calm, Pending, Live
<1> QED
  BY <1>0, <1>3, <1>4, <1>6, <1>7, ReqGInv

LEMMA CrashCalm == ASSUME TypeOK, Honest, GInv, Crash PROVE GInv'
<1>0. row' = row /\ release' = release /\ Shape /\ (~crossed => Calm)
      /\ crossed' = (crossed \/ Running(Installs \cup Removes) # {})
      /\ left' = Found
      /\ req' = [c \in Callers |-> NoReq] /\ task' = [t \in TaskIds |-> NoTask]
  BY DEF Crash, GInv
<1>1. NoReq.row \notin Rows /\ NoReq.op = "none" /\ NoTask.row \notin Rows /\ NoTask.kind = "none"
      /\ NoTask.pc = "none" /\ NoTask.parent = 0
  BY NamesAssumption DEF NoReq, NoTask
<1>2. Running(Installs \cup Removes) = {} => \A t \in TaskIds : task[t] = NoTask
  <2> SUFFICES ASSUME Running(Installs \cup Removes) = {}, NEW t \in TaskIds
               PROVE  task[t] = NoTask
    OBVIOUS
  <2>1. task[t].kind \notin Installs \cup Removes
    BY DEF Running
  <2>2. task[t].kind = "none"
    BY <2>1 DEF TypeOK, Task
  <2> QED
    BY <1>0, <2>2 DEF Shape, Kinds, KindOK
<1>3. Cut'
  <2> SUFFICES ASSUME NEW r \in Found
               PROVE  row[r].st # "none" /\ (row[r].st \in Transient => crossed')
    BY <1>0 DEF Cut
  <2>1. r \in Rows /\ row[r].st # "none"
    BY DEF Found, Live
  <2>2. ASSUME row[r].st \in Transient, ~crossed' PROVE FALSE
    <3>1. r \notin left
      BY <1>0, <2>2 DEF Shape, Cut
    <3>2. PICK t \in TaskIds : task[t].row = r
      BY <2>1, <2>2, <3>1 DEF Honest
    <3> QED
      BY <1>0, <1>1, <1>2, <2>1, <2>2, <3>2
  <2> QED
    BY <2>1, <2>2
<1>4. Shape'
  <2>0. OneRow'
    BY <1>0 DEF Shape, OneRow, Live
  <2>1. InitOff'
    <3> SUFFICES ASSUME ~crossed' PROVE \A r \in Rows : row[r].st = "init" => ~row[r].enabled
      BY <1>0 DEF InitOff
    <3>1. ~crossed /\ \A r \in Rows : ~Marks(r, "deploy")
      BY <1>0, <1>1, <1>2 DEF Marks
    <3> QED
      BY <1>0, <3>1 DEF Shape, InitOff
  <2>2. Creating' /\ Used' /\ Parents'
    BY <1>0, <1>1 DEF Creating, Used, Parents
  <2>3. Kinds'
    BY <1>0, <1>1 DEF Kinds, KindOK
  <2> QED
    BY <1>3, <2>0, <2>1, <2>2, <2>3 DEF Shape
<1>5. ASSUME ~crossed' PROVE GInv'
  <2>1. \A t \in TaskIds : task[t] = NoTask
    BY <1>0, <1>2, <1>5
  <2>2. task' = task
    BY <1>0, <2>1 DEF TypeOK
  <2>3. Pending'
    BY <1>0, <1>1 DEF Pending, Callers
  <2>4. \A c \in Callers : req'[c].row \in Rows => row[req'[c].row].st # "none"
    BY <1>0, <1>1
  <2>5. crossed => crossed'
    BY <1>0
  <2> QED
    BY <1>0, <1>3, <1>4, <2>2, <2>3, <2>4, <2>5, ReqGInv DEF Shape
<1> QED
  BY <1>4, <1>5 DEF GInv

\* A restart that finds nothing cut off starts nothing.
LEMMA RestartCalm == ASSUME TypeOK, Honest, Down, GInv, Restart PROVE GInv'
<1>0. /\ row' = row /\ release' = release /\ Shape /\ (~crossed => Calm)
      /\ crossed' = crossed /\ left' = left /\ req' = req /\ ~up
  BY DEF Restart, GInv, history
<1>1. \A t \in TaskIds : task[t] = NoTask
  BY <1>0 DEF Down
<1>2. NoTask.row \notin Rows /\ NoTask.kind = "none" /\ NoTask.parent = 0 /\ NoTask.pc = "none"
  BY NamesAssumption DEF NoTask
<1>3. PICK f \in [{r \in Rows : Reruns(r)} -> TaskIds] :
        task' = [t \in TaskIds |->
          IF \E r \in DOMAIN f : f[r] = t
          THEN LET r == CHOOSE r \in DOMAIN f : f[r] = t
               IN [NewTask("self", r, 0) EXCEPT !.pc = "helm", !.copy = row[r]]
          ELSE NoTask]
  BY DEF Restart
<1> DEFINE self(r) == [NewTask("self", r, 0) EXCEPT !.pc = "helm", !.copy = row[r]]
<1>4. ASSUME NEW t \in TaskIds
      PROVE  task'[t] = NoTask \/ \E r \in DOMAIN f : task'[t] = self(r)
  <2> DEFINE ch == CHOOSE r \in DOMAIN f : f[r] = t
  <2>1. task'[t] = IF \E r \in DOMAIN f : f[r] = t THEN self(ch) ELSE NoTask
    BY <1>3
  <2>2. (\E r \in DOMAIN f : f[r] = t) => ch \in DOMAIN f
    OBVIOUS
  <2> HIDE DEF ch, self
  <2> QED
    BY <2>1, <2>2
<1>5. ASSUME NEW r
      PROVE  /\ self(r).kind = "self" /\ self(r).row = r /\ self(r).parent = 0
             /\ self(r).pc = "helm" /\ self(r).stage = "OnInit"
  BY DEF NewTask, NoTask
<1>6. \A r \in DOMAIN f : r \in Rows /\ row[r].st = "deploying"
  BY <1>3 DEF Reruns
<1> HIDE DEF self
<1>7. \A t \in TaskIds : /\ task'[t] = NoTask \/ (/\ task'[t].kind = "self" /\ task'[t].row \in Rows
                                                  /\ row[task'[t].row].st = "deploying"
                                                  /\ task'[t].pc = "helm" /\ task'[t].stage = "OnInit")
                         /\ task'[t].parent = 0
  BY <1>2, <1>4, <1>5, <1>6
<1>8. Shape'
  <2>1. OneRow' /\ Creating' /\ Cut'
    BY <1>0 DEF Shape, OneRow, Creating, Cut, Live, Found
  <2>a. \A r \in Rows : ~Marks(r, "deploy")
    BY <1>1, <1>2 DEF Marks
  <2>b. InitOff'
    BY <1>0, <2>a DEF Shape, InitOff
  <2>2. Used'
    BY <1>0, <1>2, <1>7 DEF Shape, Used
  <2>3. Kinds'
    <3> SUFFICES ASSUME NEW t \in TaskIds PROVE KindOK(t)'
      BY DEF Kinds
    <3>1. CASE task'[t] = NoTask
      BY <3>1 DEF KindOK, NoTask
    <3>2. CASE task'[t] # NoTask
      BY <1>7, <3>2 DEF KindOK, Installs
    <3> QED
      BY <3>1, <3>2
  <2>4. Parents'
    BY <1>7 DEF Parents
  <2> QED
    BY <2>1, <2>b, <2>2, <2>3, <2>4 DEF Shape
<1>9. ASSUME ~crossed PROVE GInv'
  <2>1. DOMAIN f = {}
    <3> SUFFICES ASSUME NEW r \in DOMAIN f PROVE FALSE
      OBVIOUS
    <3>1. r \in Rows /\ row[r].st \in Transient
      BY <1>6 DEF Transient
    <3>2. r \notin left
      BY <1>0, <1>9, <3>1 DEF Shape, Cut
    <3> QED
      BY <1>1, <1>2, <3>1, <3>2 DEF Honest
  <2>2. \A t \in TaskIds : task'[t] = NoTask
    BY <1>4, <2>1
  <2>3. task' = [t \in TaskIds |-> task'[t]] /\ task = [t \in TaskIds |-> task[t]]
    BY <1>3 DEF TypeOK
  <2>4. task' = task
    BY <1>1, <2>2, <2>3
  <2>5. \A c \in Callers : req'[c].row \in Rows => row[req'[c].row].st # "none"
    BY <1>0 DEF Shape, Used
  <2>6. Calm => Pending'
    BY <1>0 DEF Calm, Pending, Live
  <2> QED
    BY <1>0, <1>8, <2>4, <2>5, <2>6, ReqGInv DEF Shape
<1> QED
  BY <1>0, <1>8, <1>9 DEF GInv

LEMMA InitGInv == Init => GInv
<1> SUFFICES ASSUME Init PROVE GInv
  OBVIOUS
<1>1. NoReq.row \notin Rows /\ NoReq.op = "none" /\ NoTask.row \notin Rows /\ NoTask.kind = "none"
      /\ NoTask.pc = "none" /\ NoTask.parent = 0 /\ NoRow.st = "none" /\ NoRelease.st = "none"
  BY NamesAssumption DEF NoReq, NoTask, NoRow, NoRelease
<1>2. /\ \A t \in TaskIds : task[t] = NoTask
      /\ \A c \in Callers : req[c] = NoReq
      /\ \A r \in Rows : row[r].st = "none" /\ ~Live(r)
      /\ release.st = "none" /\ left = {}
  BY <1>1 DEF Init, Live
<1>3. Shape
  BY <1>1, <1>2 DEF Shape, OneRow, Creating, Used, Cut, Kinds, KindOK, Parents, InitOff
<1>4. Apart /\ Helming /\ Pending /\ InStep
  BY <1>1, <1>2 DEF Apart, Helming, Pending, InStep, Callers, Installs, Removes
<1>5. \A t \in TaskIds : InstallOK(t) /\ RemoveOK(t)
  BY <1>1, <1>2 DEF InstallOK, RemoveOK, Installs
<1> QED
  BY <1>3, <1>4, <1>5 DEF GInv, Calm

LEMMA StepGInv == ASSUME IInv, GInv, [Next]_vars PROVE GInv'
<1>0. TypeOK /\ Honest /\ NoSelf /\ Down
  BY DEF IInv
<1>1. CASE UNCHANGED vars
  <2>1. /\ row' = row /\ req' = req /\ task' = task /\ release' = release
        /\ crossed' = crossed /\ left' = left
    BY <1>1 DEF vars
  <2>2. Shape
    BY DEF GInv
  <2>3. Creating' /\ Cut' /\ (Calm => Pending')
    BY <2>1, <2>2 DEF Shape, Creating, Cut, Found, Live, Calm, Pending
  <2>4. \A c \in Callers : req'[c].row \in Rows => row[req'[c].row].st # "none"
    BY <2>1, <2>2 DEF Shape, Used
  <2> QED
    BY <1>0, <2>1, <2>3, <2>4, ReqGInv
<1>2. CASE \E t \in TaskIds : TaskStep(t)
  BY <1>0, <1>2, TaskGInv
<1>3. CASE \E c \in Callers : ReqStep(c)
  BY <1>0, <1>3, RefuseCalm, ApplyCalm, CreateCalm DEF ReqStep
<1>4. CASE \E c \in Callers, op \in Ops, v \in Versions \cup {0}, force \in BOOLEAN :
             Request(c, op, v, force)
  BY <1>0, <1>4, RequestCalm
<1>5. CASE Crash
  BY <1>0, <1>5, CrashCalm
<1>6. CASE Restart
  BY <1>0, <1>6, RestartCalm
<1> QED
  BY <1>1, <1>2, <1>3, <1>4, <1>5, <1>6 DEF Next

\* Once nothing runs, the row of a component and the helm release agree: what
\* is "deployed" is enabled and installed with the settings of the row, what
\* is "init" is neither, and a deleted component leaves no release, for any
\* number of requests and restarts, unless a removal or an update overlapped
\* another helm operation, a release could not be recorded, or a crash cut off
\* a task or a request that had begun to write.
THEOREM RowAndRelease == Spec => []RowMatchesRelease
<1>1. IInv /\ GInv /\ [Next]_vars => IInv' /\ GInv'
  BY StepIInv, StepGInv
<1>2. IInv /\ GInv => RowMatchesRelease
  <2> SUFFICES ASSUME IInv, GInv, Quiet, ~crossed
               PROVE  /\ \A r \in Rows :
                           /\ row[r].st = "deployed" =>
                                row[r].enabled /\ release.st = "deployed" /\ release.ver = row[r].ver
                           /\ row[r].st = "init" => ~row[r].enabled /\ release.st = "none"
                      /\ Found = {} => release.st = "none"
    BY DEF RowMatchesRelease
  <2>1. InStep /\ InitOff
    BY DEF GInv, Shape, Calm
  <2>2. \A t \in TaskIds : task[t].pc # "uninstalled" /\ task[t].kind # "update"
    BY DEF Quiet, NoTask
  <2>3. \A r \in Rows : ~Marks(r, "deploy") /\ ~Marks(r, "delete")
    BY DEF Quiet, NoTask, Marks
  <2> QED
    BY <2>1, <2>2, <2>3 DEF InStep, InitOff
<1> QED
  BY InitIInv, InitGInv, <1>1, <1>2, PTL DEF Spec
=============================================================================
